--------------------------- MODULE MCInternalCalls ---------------------------
(* Instances of InternalCalls for TLC. *)
EXTENDS InternalCalls, TLC

CONSTANTS P, A, B, GetVec3, Log, Gone

MCReferences == [n \in AsmNames |-> {}]
MCHash == [n \in CtxNames \cup Names |-> n]
MCIds == CtxNames \cup Names

(* The type of P has two function pointers; a third one is asked for. *)
MCHasDelegate == [n \in Names |-> {GetVec3, Log}]

Symmetry == Permutations(Alcs) \cup Permutations(CtxVars) \cup Permutations(Functions)
=============================================================================
