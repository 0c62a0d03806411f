----------------------------- MODULE MCUpstream -----------------------------
(* Instances of Upstream for TLC: which payload each transaction carries.  *)
EXTENDS Upstream

CONSTANTS t1, t2, t3, c1, c2

AllSame  == [t \in Transactions |-> c1]
TwoOfC1  == [t \in Transactions |-> IF t = t3 THEN c2 ELSE c1]

DataOnly         == [c \in Contexts |-> "data"]
JoinAndMalformed == [c \in Contexts |-> IF c = c1 THEN "join" ELSE "malformed"]

AllMics == [t \in Transactions |-> MaxMics]
=============================================================================
