--------------------------- MODULE AppendOnlyVector ---------------------------
(***************************************************************************)
(* What a StableVector promises its user: elements are appended, each is   *)
(* written once after it was appended, and none of them changes or moves   *)
(* until the vector is cleared.                                            *)
(***************************************************************************)
EXTENDS Sequences, Naturals

CONSTANTS Value, Zero

VARIABLE elems

Init == elems = <<>>

AppendZero == elems' = Append(elems, Zero)

Write(i) ==
  /\ elems[i] = Zero
  /\ elems'[i] \in Value
  /\ elems' = [elems EXCEPT ![i] = elems'[i]]

Clear == elems' = <<>>

Next == AppendZero \/ (\E i \in DOMAIN elems : Write(i)) \/ Clear

Spec == Init /\ [][Next]_elems
=============================================================================
