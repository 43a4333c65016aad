--------------------------- MODULE MCAssemblyLoader ---------------------------
(* Instances of AssemblyLoader for TLC. *)
EXTENDS AssemblyLoader, TLC

CONSTANTS P, Q, A, B

(* A member of P mentions a type of Q. *)
MCReferences == [n \in AsmNames |-> IF n = P THEN {Q} ELSE {}]

(* Every name has a hash of its own. *)
MCHash == [n \in CtxNames \cup Names |-> n]
MCIds == CtxNames \cup Names

Symmetry == Permutations(Alcs) \cup Permutations(Slots) \cup Permutations(Objects)
              \cup Permutations(CtxVars)
=============================================================================
