---------------------------- MODULE MCDeviceSync ----------------------------
(* Instances of DeviceSync for TLC. *)
EXTENDS DeviceSync

CONSTANTS d1, d2

ListedDevices == CHOOSE f \in Injection(Devices, 1 .. Cardinality(Devices)) : TRUE
ListedApps    == CHOOSE f \in Injection(Apps, 1 .. Cardinality(Apps)) : TRUE
=============================================================================
