---------------------------- MODULE MCDeviceList ----------------------------
(* Instances of DeviceList for TLC. *)
EXTENDS DeviceList

\* The order of a listing is any one.
ListedDevices == CHOOSE f \in Injection(Devices, 1 .. Cardinality(Devices)) : TRUE
ListedApps    == CHOOSE f \in Injection(Apps, 1 .. Cardinality(Apps)) : TRUE
=============================================================================
