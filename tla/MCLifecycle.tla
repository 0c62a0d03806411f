---------------------------- MODULE MCLifecycle ----------------------------
(* Instance of Lifecycle for TLC. *)
EXTENDS Lifecycle, TLC

CONSTANT u1
=============================================================================
