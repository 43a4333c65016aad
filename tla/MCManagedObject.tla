--------------------------- MODULE MCManagedObject ---------------------------
(* Instances of ManagedObject for TLC. *)
EXTENDS ManagedObject, TLC

CONSTANTS P, Q, H, A, B, Test

(* A member of P mentions a type of Q. *)
MCReferences == [n \in AsmNames |-> IF n = P THEN {Q} ELSE {}]

(* P uses H, the host assembly, and has the hash code of Q. *)
HostReferences == [n \in AsmNames |-> IF n = P THEN {H} ELSE {}]
CollidingHash == [n \in CtxNames \cup Names |-> IF n = Q THEN P ELSE n]

MCHash == [n \in CtxNames \cup Names |-> n]
MCIds == CtxNames \cup Names

(* P has a method, Q has none. *)
MCDeclares == [n \in Names |-> IF n = P THEN {Test} ELSE {}]

Symmetry == Permutations(Alcs) \cup Permutations(Slots) \cup Permutations(Objects)
              \cup Permutations(CtxVars)
=============================================================================
