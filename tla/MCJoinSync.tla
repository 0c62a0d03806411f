----------------------------- MODULE MCJoinSync -----------------------------
(* Instances of JoinSync for TLC. *)
EXTENDS JoinSync

ListedDevices == CHOOSE f \in Injection(Devices, 1 .. Cardinality(Devices)) : TRUE
ListedApps    == CHOOSE f \in Injection(Apps, 1 .. Cardinality(Apps)) : TRUE
=============================================================================
