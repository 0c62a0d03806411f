------------------------- MODULE MCMulticastGroups -------------------------
(* Instances of MulticastGroups for TLC. *)
EXTENDS MulticastGroups, TLC

CONSTANTS g1, g2, m1, m2, m3

\* Addresses do not pass from one group to another: m3 is the second group's.
OwnAddrs == [a \in McAddrs |-> IF a = m3 THEN {g2} \cap Groups ELSE {g1}]

=============================================================================
