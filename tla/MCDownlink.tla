----------------------------- MODULE MCDownlink -----------------------------
(* Instances of Downlink for TLC: a join answered twice, and a data frame    *)
(* that answers another uplink, or none if its context is gone.              *)
EXTENDS Downlink

CONSTANTS f1, f2, f3, c1, c2

TwoAccepts == [f \in Frames |-> IF f = f3 THEN "data" ELSE "join_accept"]
SameJoin   == [f \in Frames |-> IF f = f3 THEN c2 ELSE c1]
TwoItems   == [f \in Frames |-> IF f = f2 THEN 1 ELSE MaxItems]
=============================================================================
