---------------------------- MODULE MCStableVector ----------------------------
(* Instances of StableVector for TLC. *)
EXTENDS StableVector
=============================================================================
