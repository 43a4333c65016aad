-------------------------------- MODULE MCHost --------------------------------
(* Instances of Host for TLC. *)
EXTENDS Host, TLC

Symmetry == Permutations(NObjects) \cup Permutations(Handles)
=============================================================================
