-------------------------- MODULE StableVectorProofs --------------------------
(* What interleaved inserts keep, for every number of threads and operations and
   every page size. *)
EXTENDS StableVector, TLAPS, FiniteSetTheorems

USE DEF Growing, Replacing

(* The part of the typing that the indices depend on. *)
IndexTyping ==
  /\ mutex \in Threads \cup {NoThread}
  /\ elt_count \in Nat
  /\ pc \in [Threads -> Labels]
  /\ op \in [Threads -> {"Insert", "EmplaceBack"}]
  /\ page_idx \in [Threads -> Nat]
  /\ index \in [Threads -> Nat]
  /\ \A r \in returned : r[1] \in Nat

(* Indices are handed out in order, so each of them is below the element count. *)
IndicesBelowCount ==
  /\ \A r \in returned : r[1] < elt_count
  /\ \A t \in Threads : pc[t] = "write" => index[t] < elt_count

(* A thread that computed its page still has it at or before the next index. *)
PageNotPastCount ==
  \A t \in Threads : pc[t] \notin {"idle", "write", "wild"} => page_idx[t] * N <= elt_count

(* EmplaceBack never comes near the mutex. *)
OnlyInsertLocks == \A t \in Threads : pc[t] \in {"lock", "recheck"} => op[t] = "Insert"

OpsInUse == \A t \in Threads : op[t] \in Ops \cup {"Insert"}

VIInv ==
  /\ IndexTyping
  /\ OpsInUse
  /\ OnlyInsertLocks
  /\ IndicesBelowCount
  /\ IndicesUnique
  /\ PageNotPastCount
  /\ IndexNotBeforePage
  /\ GrowthExclusive

(* The page of an index starts at or before it, and the next page after it. *)
LEMMA FirstOfPage ==
  ASSUME NEW n \in Nat
  PROVE  n \div N \in Nat /\ (n \div N) * N <= n
BY ConstantsAssumption

(* The vector with its first table satisfies the invariant. *)
THEOREM VectorInit == Init => VIInv
BY DEF Init, VIInv, IndexTyping, OpsInUse, OnlyInsertLocks, Labels, IndicesBelowCount, IndicesUnique,
       PageNotPastCount, IndexNotBeforePage, GrowthExclusive

(* A step that hands out no index and writes no element. *)
LEMMA InnerStep ==
  ASSUME VIInv, NEW t \in Threads, NEW label \in Labels \ {"write", "count"},
         Goto(t, label),
         pc[t] \notin {"idle", "write", "wild"},
         UNCHANGED <<elt_count, op, page_idx, index, returned>>,
         mutex' \in Threads \cup {NoThread},
         mutex' # mutex => mutex' = t \/ (mutex' = NoThread /\ mutex \in {t, NoThread}),
         op[t] = "Insert" /\ label \in Growing => mutex' = t,
         mutex' # mutex /\ mutex' = t => mutex = NoThread,
         label \in {"lock", "recheck"} => op[t] = "Insert"
  PROVE  VIInv'
<1>1. /\ pc'[t] = label
      /\ \A u \in Threads : u # t => pc'[u] = pc[u]
      /\ pc' \in [Threads -> Labels]
  BY DEF Goto, VIInv, IndexTyping
<1>2. IndexTyping' /\ IndicesBelowCount' /\ OpsInUse' /\ OnlyInsertLocks'
  BY <1>1 DEF VIInv, IndexTyping, IndicesBelowCount, OpsInUse, OnlyInsertLocks
<1>3. IndicesUnique'
  BY <1>1 DEF VIInv, IndicesUnique
<1>4. PageNotPastCount' /\ IndexNotBeforePage'
  BY <1>1 DEF VIInv, PageNotPastCount, IndexNotBeforePage
<1>5. GrowthExclusive'
  <2> SUFFICES ASSUME NEW u \in Threads, op[u] = "Insert",
                      pc'[u] \in Growing
               PROVE  mutex' = u
    BY DEF GrowthExclusive
  <2>1. CASE u = t
    BY <1>1, <2>1
  <2>2. CASE u # t
    BY <1>1, <2>2, ConstantsAssumption DEF VIInv, GrowthExclusive
  <2> QED
    BY <2>1, <2>2
<1> QED
  BY <1>2, <1>3, <1>4, <1>5 DEF VIInv

(* Beginning an operation, with its read of the size, keeps the invariant. *)
LEMMA StartStep ==
  ASSUME VIInv, NEW t \in Threads, NEW o \in Ops, Start(t, o)
  PROVE  VIInv'
<1> USE DEF Start, PageOf, members
<1>1. /\ pc'[t] = "count"
      /\ \A u \in Threads : u # t => pc'[u] = pc[u] /\ op'[u] = op[u]
                                     /\ page_idx'[u] = page_idx[u]
      /\ pc' \in [Threads -> Labels]
      /\ op' \in [Threads -> {"Insert", "EmplaceBack"}]
      /\ page_idx'[t] = elt_count \div N
      /\ page_idx' \in [Threads -> Nat]
      /\ page_idx'[t] * N <= elt_count
  BY FirstOfPage, ConstantsAssumption DEF Goto, VIInv, IndexTyping, Labels
<1>2. IndexTyping' /\ IndicesBelowCount' /\ OpsInUse' /\ OnlyInsertLocks'
  BY <1>1 DEF VIInv, IndexTyping, IndicesBelowCount, OpsInUse, OnlyInsertLocks
<1>3. IndicesUnique'
  BY <1>1 DEF VIInv, IndicesUnique
<1>4. PageNotPastCount' /\ IndexNotBeforePage'
  BY <1>1 DEF VIInv, PageNotPastCount, IndexNotBeforePage
<1>5. GrowthExclusive'
  BY <1>1 DEF VIInv, GrowthExclusive
<1> QED
  BY <1>2, <1>3, <1>4, <1>5 DEF VIInv

(* Taking the next index keeps the invariant. *)
LEMMA BumpStep ==
  ASSUME VIInv, NEW t \in Threads, Bump(t)
  PROVE  VIInv'
<1> USE DEF Bump, NextIndex
<1>1. /\ pc[t] = "bump"
      /\ pc'[t] = "write"
      /\ \A u \in Threads : u # t => pc'[u] = pc[u] /\ index'[u] = index[u]
      /\ pc' \in [Threads -> Labels]
      /\ index'[t] = elt_count
      /\ index' \in [Threads -> Nat]
      /\ elt_count' = elt_count + 1
      /\ elt_count \in Nat
  BY DEF Goto, VIInv, IndexTyping, Labels
<1>2. UNCHANGED <<mutex, op, page_idx, returned>>
  OBVIOUS
<1>3. IndexTyping' /\ IndicesBelowCount' /\ OpsInUse' /\ OnlyInsertLocks'
  BY <1>1, <1>2 DEF VIInv, IndexTyping, IndicesBelowCount, OpsInUse, OnlyInsertLocks
<1>4. IndicesUnique'
  BY <1>1, <1>2 DEF VIInv, IndexTyping, IndicesUnique, IndicesBelowCount
<1>5. \A u \in Threads : page_idx[u] * N \in Nat
  BY ConstantsAssumption DEF VIInv, IndexTyping
<1>6. PageNotPastCount' /\ IndexNotBeforePage'
  BY <1>1, <1>2, <1>5 DEF VIInv, PageNotPastCount, IndexNotBeforePage
<1>7. GrowthExclusive'
  BY <1>1, <1>2 DEF VIInv, GrowthExclusive
<1> QED
  BY <1>3, <1>4, <1>6, <1>7 DEF VIInv

(* Writing the element keeps the invariant. *)
LEMMA WriteStep ==
  ASSUME VIInv, NEW t \in Threads, Write(t)
  PROVE  VIInv'
<1> USE DEF Write, members
<1>1. /\ pc[t] = "write"
      /\ pc'[t] \in {"idle", "wild"}
      /\ \A u \in Threads : u # t => pc'[u] = pc[u]
      /\ pc' \in [Threads -> Labels]
      /\ returned' \in {returned, returned \cup {<<index[t], <<t, ops[t]>> >>}}
  BY DEF Goto, VIInv, IndexTyping, Labels
<1>2. UNCHANGED <<mutex, elt_count, op, page_idx, index>>
  OBVIOUS
<1>3. \A r \in returned' : r \in returned \/ r = <<index[t], <<t, ops[t]>> >>
  BY <1>1
<1>4. IndexTyping' /\ IndicesBelowCount' /\ OpsInUse' /\ OnlyInsertLocks'
  BY <1>1, <1>2, <1>3 DEF VIInv, IndexTyping, IndicesBelowCount, OpsInUse, OnlyInsertLocks
<1>5. IndicesUnique'
  BY <1>1, <1>2, <1>3 DEF VIInv, IndicesUnique
<1>6. PageNotPastCount' /\ IndexNotBeforePage' /\ GrowthExclusive'
  BY <1>1, <1>2 DEF VIInv, PageNotPastCount, IndexNotBeforePage, GrowthExclusive
<1> QED
  BY <1>4, <1>5, <1>6 DEF VIInv

(* Clear, run while no other thread is in the vector, keeps the invariant. *)
LEMMA ClearStep ==
  ASSUME VIInv, Quiet, ClearMembers
  PROVE  VIInv'
<1>1. \A t \in Threads : pc'[t] = "idle"
  BY DEF Quiet, ClearMembers
<1>2. IndexTyping'
  BY DEF VIInv, IndexTyping, ClearMembers, Reset
<1> QED
  BY <1>1, <1>2
  DEF VIInv, ClearMembers, Reset, OpsInUse, OnlyInsertLocks, IndicesBelowCount, IndicesUnique, PageNotPastCount,
      IndexNotBeforePage, GrowthExclusive

(* Every step of every thread keeps the invariant. *)
THEOREM VectorNext == VIInv /\ [Next]_vars => VIInv'
<1> SUFFICES ASSUME VIInv, [Next]_vars PROVE VIInv'
  OBVIOUS
<1>1. ASSUME NEW t \in Threads, Step(t) PROVE VIInv'
  <2> USE ConstantsAssumption DEF members, memory
  <2>0. /\ mutex \in Threads \cup {NoThread}
        /\ op[t] \in {"Insert", "EmplaceBack"}
        /\ op[t] = "Insert" /\ pc[t] \in Growing => mutex = t
        /\ pc[t] \in {"lock", "recheck"} => op[t] = "Insert"
    BY DEF VIInv, IndexTyping, OpsInUse, OnlyInsertLocks, GrowthExclusive
  <2>1. CASE \E o \in Ops : Start(t, o)
    BY <2>1, StartStep
  <2>2. CASE ReadCount(t)
    BY <2>0, <2>2, InnerStep DEF ReadCount, Labels
  <2>3. CASE CheckCapacity(t)
    <3> DEFINE label == IF ~Full(count[t]) THEN "bump"
                        ELSE IF op[t] = "Insert" THEN "lock" ELSE "grow"
    <3>1. label \in Labels \ {"write", "count"}
      BY DEF Labels
    <3>2. /\ op[t] = "Insert" => label \notin Growing
          /\ label \in {"lock", "recheck"} => op[t] = "Insert"
      OBVIOUS
    <3> HIDE DEF label
    <3>3. Goto(t, label) /\ pc[t] = "check"
      BY <2>3 DEF CheckCapacity, label
    <3> QED
      BY <2>0, <2>3, <3>1, <3>2, <3>3, InnerStep DEF CheckCapacity
  <2>4. CASE Lock(t)
    BY <2>0, <2>4, InnerStep DEF Lock, CanLock, Labels
  <2>5. CASE Recheck(t)
    <3>1. UNCHANGED <<elt_count, op, page_idx, index, returned>> /\ pc[t] = "recheck"
      BY <2>5 DEF Recheck
    <3>2. CASE Goto(t, "grow") /\ UNCHANGED mutex
      BY <2>0, <3>1, <3>2, InnerStep DEF Labels
    <3>3. CASE Goto(t, "bump") /\ mutex' = NoThread
      BY <2>0, <3>1, <3>3, InnerStep DEF Labels
    <3> QED
      BY <2>5, <3>2, <3>3 DEF Recheck, Unlock
  <2>6. CASE RaisePageCount(t)
    BY <2>0, <2>6, InnerStep DEF RaisePageCount, Labels
  <2>11. CASE CopyTable(t)
    BY <2>0, <2>11, InnerStep DEF CopyTable, Labels
  <2>12. CASE ExchangeTable(t)
    BY <2>0, <2>12, InnerStep DEF ExchangeTable, Labels
  <2>7. CASE InstallPage(t)
    BY <2>0, <2>7, InnerStep DEF InstallPage, Labels
  <2>8. CASE RaiseCapacity(t)
    BY <2>0, <2>8, InnerStep DEF RaiseCapacity, Unlock, Labels
  <2>9. CASE Bump(t)
    BY <2>9, BumpStep
  <2>10. CASE Write(t)
    BY <2>10, WriteStep
  <2> QED
    BY <1>1, <2>1, <2>2, <2>3, <2>4, <2>5, <2>6, <2>7, <2>8, <2>9, <2>10, <2>11, <2>12 DEF Step
<1>2. CASE Clear
  BY <1>2, ClearStep DEF Clear
<1>3. ASSUME NEW t \in Threads, NEW n \in Sources, CopyFrom(t, n) PROVE VIInv'
  BY <1>3, ClearStep DEF CopyFrom
<1>4. CASE UNCHANGED vars
  BY <1>4
  DEF vars, members, memory, VIInv, IndexTyping, OpsInUse, OnlyInsertLocks, IndicesBelowCount, IndicesUnique,
      PageNotPastCount, IndexNotBeforePage, GrowthExclusive
<1> QED
  BY <1>1, <1>2, <1>3, <1>4 DEF Next

(* No two inserts get one index, an index never lies before the page its thread
   computed, and only the holder of the mutex grows the table. *)
THEOREM IndicesAreSafe ==
  Spec => [](IndicesUnique /\ IndexNotBeforePage /\ GrowthExclusive)
<1>1. VIInv => IndicesUnique /\ IndexNotBeforePage /\ GrowthExclusive
  BY DEF VIInv
<1> QED
  BY <1>1, VectorInit, VectorNext, PTL DEF Spec

-----------------------------------------------------------------------------
(* The table of pages *)

(* At most one thread is in the locked region, or grows the table without the lock. *)
LEMMA OneGrows ==
  ASSUME VIInv, NEW t \in Threads, NEW u \in Threads, pc[t] \in Growing, pc[u] \in Growing
  PROVE  t = u
<1>1. CASE op[t] = "Insert" /\ op[u] = "Insert"
  BY <1>1 DEF VIInv, GrowthExclusive
<1>2. CASE op[t] # "Insert" \/ op[u] # "Insert"
  <2>1. "EmplaceBack" \in Ops
    BY <1>2, ConstantsAssumption DEF VIInv, IndexTyping, OpsInUse
  <2> QED
    BY <2>1, LockAssumption
<1> QED
  BY <1>1, <1>2

(* What the table refers to exists: its entries are pages that were allocated, and only
   pages that were allocated are deleted. *)
TableRefersToPages ==
  /\ \A i \in 1 .. Len(page_table) : page_table[i] <= Len(pages)
  /\ deleted \subseteq 1 .. Len(pages)

(* The first n entries of the table are in use, and the others lead nowhere. *)
InUse(n) ==
  /\ n <= Len(page_table)
  /\ \A i \in 1 .. n : page_table[i] \notin deleted
  /\ \A i \in 1 .. Len(page_table) : i > n => page_table[i] = NullPage \/ page_table[i] \in deleted

(* The page count is that of the table, unless a thread replaces the table: that thread
   knows how many entries are in use, and its new table has them. *)
TableInUse ==
  /\ (\A t \in Threads : pc[t] \notin Replacing) => InUse(page_count)
  /\ \A t \in Threads : pc[t] \in Replacing => InUse(old_pages[t]) /\ old_pages[t] <= page_count
  /\ \A t \in Threads : pc[t] = "exchange" =>
        /\ Len(new_table[t]) = page_count
        /\ \A i \in 1 .. page_count :
              new_table[t][i] = IF i <= old_pages[t] THEN page_table[i] ELSE NullPage
  /\ \A t \in Threads : pc[t] = "install" =>
        page_idx[t] < page_count \/ Len(page_table) = page_count

TableInv == VIInv /\ TypeOK /\ TableRefersToPages /\ TableInUse

(* The first table, of pages that are not allocated yet, is in order. *)
THEOREM TableInit == Init => TableInv
<1> SUFFICES ASSUME Init PROVE TableInv
  OBVIOUS
<1>1. TypeOK
  BY DEF Init, TypeOK, Labels
<1>2. page_table = <<>> /\ deleted = {} /\ page_count = 0 /\ \A t \in Threads : pc[t] = "idle"
  BY DEF Init
<1>3. TableRefersToPages /\ TableInUse
  BY <1>2 DEF TableRefersToPages, TableInUse, InUse
<1> QED
  BY <1>1, <1>3, VectorInit DEF TableInv

(* Replacing an element of a sequence, or none. *)
LEMMA UpdateKeepsSeq ==
  ASSUME NEW S, NEW s \in Seq(S), NEW i, NEW x, i \in 1 .. Len(s) => x \in S
  PROVE  /\ [s EXCEPT ![i] = x] \in Seq(S)
         /\ Len([s EXCEPT ![i] = x]) = Len(s)
         /\ i \in 1 .. Len(s) => [s EXCEPT ![i] = x][i] = x
         /\ \A j \in 1 .. Len(s) : j # i => [s EXCEPT ![i] = x][j] = s[j]
<1>1. Len(s) \in Nat /\ s \in [1 .. Len(s) -> S]
  OBVIOUS
<1>2. [s EXCEPT ![i] = x] \in [1 .. Len(s) -> S]
  BY <1>1
<1> QED
  BY <1>1, <1>2

(* What the invariant says of the table and the pages, in the words the proofs use. *)
LEMMA TableFacts ==
  ASSUME TableInv
  PROVE  /\ page_table \in Seq(Nat) /\ Len(page_table) \in Nat
         /\ page_count \in Nat
         /\ Len(pages) \in Nat
         /\ \A i \in 1 .. Len(page_table) : page_table[i] \in Nat /\ page_table[i] <= Len(pages)
         /\ \A d \in deleted : d \in Nat /\ 1 <= d /\ d <= Len(pages)
         /\ NullPage \notin deleted
         /\ \A t \in Threads : page_idx[t] \in Nat /\ old_pages[t] \in Nat
<1>1. /\ page_table \in Seq(Nat) /\ page_count \in Nat
      /\ \A t \in Threads : page_idx[t] \in Nat /\ old_pages[t] \in Nat
      /\ Len(pages) \in Nat
  BY DEF TableInv, TypeOK
<1>2. Len(page_table) \in Nat /\ \A i \in 1 .. Len(page_table) : page_table[i] \in Nat
  BY <1>1
<1> QED
  BY <1>1, <1>2 DEF TableInv, TableRefersToPages, NullPage

(* While a thread grows the table, its entries in use are those that are counted. *)
LEMMA NobodyReplaces ==
  ASSUME TableInv, \/ \A u \in Threads : pc[u] \notin Replacing
                   \/ \E t \in Threads : pc[t] \in Growing \ Replacing
  PROVE  InUse(page_count) /\ \A u \in Threads : pc[u] \notin Replacing
<1>1. \A u \in Threads : pc[u] \notin Replacing
  BY OneGrows DEF TableInv
<1> QED
  BY <1>1 DEF TableInv, TableInUse

(* A step that leaves the table and the memory alone. *)
LEMMA TableUntouched ==
  ASSUME TableInv, VIInv', TypeOK', Len(pages') = Len(pages),
         UNCHANGED <<page_table, page_count, deleted, old_pages, new_table>>,
         \A u \in Threads : \/ pc'[u] = pc[u] /\ page_idx'[u] = page_idx[u]
                            \/ pc[u] \notin Replacing /\ pc'[u] \notin Replacing \cup {"install"}
  PROVE  TableInv'
<1>1. TableRefersToPages'
  BY DEF TableInv, TableRefersToPages
<1>2. \A n : InUse(n)' = InUse(n)
  BY DEF InUse
<1>3. \A u \in Threads : /\ pc'[u] \in Replacing => pc'[u] = pc[u]
                         /\ pc[u] \in Replacing => pc'[u] = pc[u]
                         /\ pc'[u] = "install" => pc'[u] = pc[u] /\ page_idx'[u] = page_idx[u]
  OBVIOUS
<1>4. (\A u \in Threads : pc'[u] \notin Replacing) => InUse(page_count)'
  BY <1>3 DEF TableInv, TableInUse, InUse
<1>5. \A u \in Threads : pc'[u] \in Replacing =>
         InUse(old_pages[u])' /\ old_pages'[u] <= page_count'
  BY <1>3 DEF TableInv, TableInUse, InUse
<1>6. TableInUse'
  BY <1>3, <1>4, <1>5 DEF TableInv, TableInUse
<1> QED
  BY <1>1, <1>6 DEF TableInv

(* A step of a thread other than those of the growth. *)
LEMMA StepBeside ==
  ASSUME TableInv, VIInv', TypeOK', Len(pages') = Len(pages), NEW t \in Threads,
         UNCHANGED <<page_table, page_count, deleted, old_pages, new_table>>,
         pc[t] \notin Replacing, pc'[t] \notin Replacing \cup {"install"},
         \A u \in Threads : u # t => pc'[u] = pc[u] /\ page_idx'[u] = page_idx[u]
  PROVE  TableInv'
<1>1. \A u \in Threads : \/ pc'[u] = pc[u] /\ page_idx'[u] = page_idx[u]
                         \/ pc[u] \notin Replacing /\ pc'[u] \notin Replacing \cup {"install"}
  OBVIOUS
<1> QED
  BY <1>1, TableUntouched

(* Raising the page count, which nobody else does meanwhile. *)
LEMMA RaisePageCountStep ==
  ASSUME TableInv, VIInv', NEW t \in Threads, RaisePageCount(t)
  PROVE  TableInv'
<1>0. /\ pc[t] = "grow" /\ pc \in [Threads -> Labels] /\ page_count \in Nat
      /\ old_pages \in [Threads -> Nat]
      /\ UNCHANGED <<page_table, pages, deleted, page_idx, new_table>>
  BY DEF RaisePageCount, memory, TableInv, TypeOK
<1>1. InUse(page_count) /\ \A u \in Threads : pc[u] \notin Replacing
  BY <1>0, NobodyReplaces
<1>2. TableRefersToPages'
  BY <1>0 DEF TableInv, TableRefersToPages
<1>3. CASE page_idx[t] < page_count
  <2>1. pc' = [pc EXCEPT ![t] = "install"] /\ UNCHANGED <<page_count, old_pages>>
    BY <1>3 DEF RaisePageCount, Goto
  <2>2. TypeOK'
    BY <1>0, <2>1 DEF RaisePageCount, memory, TableInv, TypeOK, Labels
  <2>3. \A u \in Threads : /\ pc'[u] \notin Replacing
                           /\ pc'[u] = "install" => u = t \/ pc[u] = "install"
    BY <1>0, <1>1, <2>1
  <2>4. InUse(page_count)'
    BY <1>0, <1>1, <2>1 DEF InUse
  <2>5. TableInUse'
    BY <1>0, <1>3, <2>1, <2>3, <2>4 DEF TableInv, TableInUse
  <2> QED
    BY <1>2, <2>2, <2>5 DEF TableInv
<1>4. CASE ~ (page_idx[t] < page_count)
  <2> DEFINE length == MaxOf(FirstTable, page_count * 2)
  <2>1. length \in Nat /\ page_count <= length
    BY <1>0, ConstantsAssumption DEF MaxOf
  <2>2. /\ page_count' = length
        /\ old_pages' = [old_pages EXCEPT ![t] = page_count]
        /\ pc' = [pc EXCEPT ![t] = "copy"]
    BY <1>4 DEF RaisePageCount, Goto
  <2> HIDE DEF length
  <2>3. TypeOK'
    BY <1>0, <2>1, <2>2 DEF RaisePageCount, memory, TableInv, TypeOK, Labels
  <2>4. /\ pc'[t] = "copy" /\ old_pages'[t] = page_count
        /\ \A u \in Threads : u # t => pc'[u] \notin Replacing \cup {"install"}
    <3>1. \A u \in Threads : u # t => pc[u] \notin Growing
      BY <1>0, OneGrows DEF TableInv
    <3> QED
      BY <1>0, <2>2, <3>1
  <2>5. InUse(old_pages[t])'
    BY <1>0, <1>1, <2>4 DEF InUse
  <2>6. TableInUse'
    BY <2>1, <2>2, <2>4, <2>5 DEF TableInUse
  <2> QED
    BY <1>2, <2>3, <2>6 DEF TableInv
<1> QED
  BY <1>3, <1>4

(* A new table is a table, with the entries of the old one where they were. *)
LEMMA NewTableKeeps ==
  ASSUME TableInv, NEW old \in Nat, old <= Len(page_table)
  PROVE  /\ NewTable(old) \in Seq(Nat)
         /\ Len(NewTable(old)) = page_count
         /\ \A i \in 1 .. page_count :
               NewTable(old)[i] = IF i <= old THEN page_table[i] ELSE NullPage
<1>1. page_count \in Nat /\ \A i \in 1 .. page_count : i <= old => page_table[i] \in Nat
  BY TableFacts
<1>2. NewTable(old) \in [1 .. page_count -> Nat]
  BY <1>1 DEF NewTable, NullPage
<1> QED
  BY <1>1, <1>2 DEF NewTable

(* Filling the new table. *)
LEMMA CopyTableStep ==
  ASSUME TableInv, VIInv', NEW t \in Threads, CopyTable(t)
  PROVE  TableInv'
<1>0. /\ pc[t] = "copy" /\ pc' = [pc EXCEPT ![t] = "exchange"] /\ pc \in [Threads -> Labels]
      /\ new_table' = [new_table EXCEPT ![t] = NewTable(old_pages[t])]
      /\ new_table \in [Threads -> Seq(Nat)]
      /\ UNCHANGED <<page_table, page_count, pages, deleted, page_idx, old_pages>>
  BY DEF CopyTable, Goto, members, memory, TableInv, TypeOK
<1>1. InUse(old_pages[t]) /\ old_pages[t] <= page_count /\ old_pages[t] \in Nat
  BY <1>0, TableFacts DEF TableInv, TableInUse
<1>2. /\ new_table'[t] \in Seq(Nat)
      /\ Len(new_table'[t]) = page_count
      /\ \A i \in 1 .. page_count :
            new_table'[t][i] = IF i <= old_pages[t] THEN page_table[i] ELSE NullPage
  BY <1>0, <1>1, NewTableKeeps DEF InUse
<1>3. TypeOK'
  <2>1. new_table' \in [Threads -> Seq(Nat)]
    BY <1>0, <1>2
  <2> QED
    BY <1>0, <2>1 DEF CopyTable, members, memory, TableInv, TypeOK, Labels
<1>4. TableRefersToPages'
  BY <1>0 DEF TableInv, TableRefersToPages
<1>5. pc'[t] = "exchange" /\ \A u \in Threads : u # t => pc'[u] \notin Replacing \cup {"install"}
  <2>1. \A u \in Threads : u # t => pc[u] \notin Growing
    BY <1>0, OneGrows DEF TableInv
  <2> QED
    BY <1>0, <2>1
<1>6. InUse(old_pages[t])'
  BY <1>0, <1>1 DEF InUse
<1>7. TableInUse'
  BY <1>0, <1>1, <1>2, <1>5, <1>6 DEF TableInUse
<1> QED
  BY <1>3, <1>4, <1>7 DEF TableInv

(* Exchanging the tables: the new one has what was in use. *)
LEMMA ExchangeTableStep ==
  ASSUME TableInv, VIInv', NEW t \in Threads, ExchangeTable(t)
  PROVE  TableInv'
<1>0. /\ pc[t] = "exchange" /\ pc' = [pc EXCEPT ![t] = "install"] /\ pc \in [Threads -> Labels]
      /\ page_table' = new_table[t]
      /\ new_table \in [Threads -> Seq(Nat)] /\ old_pages \in [Threads -> Nat]
      /\ UNCHANGED <<page_count, pages, deleted, page_idx>>
  BY DEF ExchangeTable, Goto, memory, TableInv, TypeOK
<1>1. /\ InUse(old_pages[t]) /\ old_pages[t] <= page_count /\ old_pages[t] \in Nat
      /\ Len(page_table') = page_count
      /\ \A i \in 1 .. page_count :
            page_table'[i] = IF i <= old_pages[t] THEN page_table[i] ELSE NullPage
  BY <1>0, TableFacts DEF TableInv, TableInUse
<1>2. TypeOK'
  <2>1. /\ page_table' \in Seq(Nat)
        /\ old_pages' \in [Threads -> Nat]
        /\ new_table' \in [Threads -> Seq(Nat)]
    BY <1>0 DEF ExchangeTable
  <2> QED
    BY <1>0, <2>1 DEF ExchangeTable, memory, TableInv, TypeOK, Labels
<1>3. \A i \in 1 .. page_count : /\ page_table'[i] <= Len(pages)
                                 /\ page_table'[i] \notin deleted
  <2> SUFFICES ASSUME NEW i \in 1 .. page_count
               PROVE  page_table'[i] <= Len(pages) /\ page_table'[i] \notin deleted
    OBVIOUS
  <2>1. CASE i <= old_pages[t]
    <3>1. i \in 1 .. old_pages[t] /\ i \in 1 .. Len(page_table) /\ page_table'[i] = page_table[i]
      BY <1>1, <2>1, TableFacts DEF InUse
    <3> QED
      BY <1>1, <3>1, TableFacts DEF InUse
  <2>2. CASE ~ (i <= old_pages[t])
    BY <1>1, <2>2, TableFacts DEF NullPage
  <2> QED
    BY <2>1, <2>2
<1>4. TableRefersToPages'
  BY <1>0, <1>1, <1>3 DEF TableInv, TableRefersToPages
<1>5. \A u \in Threads : pc'[u] \notin Replacing /\ (u # t => pc'[u] # "install")
  <2>1. \A u \in Threads : u # t => pc[u] \notin Growing
    BY <1>0, OneGrows DEF TableInv
  <2> QED
    BY <1>0, <2>1
<1>6. InUse(page_count)'
  BY <1>0, <1>1, <1>3, TableFacts DEF InUse
<1>7. TableInUse'
  BY <1>0, <1>1, <1>5, <1>6 DEF TableInUse
<1> QED
  BY <1>2, <1>4, <1>7 DEF TableInv

(* Installing a page. *)
LEMMA InstallPageStep ==
  ASSUME TableInv, VIInv', NEW t \in Threads, InstallPage(t)
  PROVE  TableInv'
<1> USE DEF InstallPage
<1>0. InUse(page_count) /\ \A u \in Threads : pc[u] \notin Replacing
  BY NobodyReplaces
<1>1. CASE page_idx[t] < Len(page_table)
  <2> DEFINE blank == [i \in 0 .. N - 1 |-> Zero]
             p == page_idx[t] + 1
  <2>1. blank \in [0 .. N - 1 -> Value \cup {Zero}]
    OBVIOUS
  <2>2. pages' = Append(pages, blank)
    BY <1>1
  <2> HIDE DEF blank
  <2>3. /\ pages' \in Seq([0 .. N - 1 -> Value \cup {Zero}])
        /\ Len(pages) \in Nat
        /\ Len(pages') = Len(pages) + 1
    <3> DEFINE PageSet == [0 .. N - 1 -> Value \cup {Zero}]
    <3>1. pages \in Seq(PageSet)
      BY DEF TableInv, TypeOK
    <3>2. blank \in PageSet
      BY <2>1
    <3> HIDE DEF PageSet
    <3>3. pages' \in Seq(PageSet) /\ Len(pages) \in Nat /\ Len(pages') = Len(pages) + 1
      BY <2>2, <3>1, <3>2
    <3> QED
      BY <3>3 DEF PageSet
  <2>4. p \in 1 .. Len(page_table) /\ page_table \in Seq(Nat) /\ Len(page_table) \in Nat
    BY <1>1, TableFacts
  <2>5. page_table' = [page_table EXCEPT ![p] = Len(pages')]
    BY <1>1
  <2> HIDE DEF p
  <2>6. /\ page_table' \in Seq(Nat)
        /\ Len(page_table') = Len(page_table)
        /\ page_table'[p] = Len(pages) + 1
        /\ \A i \in 1 .. Len(page_table) : i # p => page_table'[i] = page_table[i]
    BY <2>3, <2>4, <2>5
  <2>7. TypeOK'
    BY <1>1, <2>3, <2>6 DEF growth, TableInv, TypeOK, Goto, Labels
  <2>8. UNCHANGED <<page_count, deleted>> /\ pc' = [pc EXCEPT ![t] = "raise"] /\ page_idx' = page_idx
    BY <1>1 DEF Goto
  <2>9. /\ \A i \in 1 .. Len(page_table) : page_table'[i] <= Len(pages) + 1
        /\ \A i \in 1 .. page_count : page_table'[i] \notin deleted
        /\ \A d \in deleted : d \in 1 .. Len(pages) + 1
    <3> HIDE DEF InstallPage
    <3>1. \A i \in 1 .. Len(page_table) : page_table'[i] <= Len(pages) + 1
      <4>1. \A i \in 1 .. Len(page_table) : page_table[i] \in Nat /\ page_table[i] <= Len(pages)
        BY TableFacts
      <4>2. Len(pages) \in Nat /\ page_table'[p] = Len(pages) + 1
        BY <2>3, <2>6
      <4>3. ASSUME NEW i \in 1 .. Len(page_table) PROVE page_table'[i] <= Len(pages) + 1
        <5>1. CASE i = p
          BY <4>2, <5>1
        <5>2. CASE i # p
          <6>1. page_table'[i] = page_table[i]
            BY <2>6, <5>2
          <6> QED
            BY <4>1, <4>2, <6>1
        <5> QED
          BY <5>1, <5>2
      <4> QED
        BY <4>3
    <3>2. Len(pages) + 1 \notin deleted /\ \A d \in deleted : d \in 1 .. Len(pages) + 1
      <4>1. Len(pages) \in Nat /\ \A d \in deleted : d \in Nat /\ 1 <= d /\ d <= Len(pages)
        BY TableFacts
      <4> QED
        BY <4>1
    <3>3. \A i \in 1 .. page_count : i \in 1 .. Len(page_table) /\ page_table[i] \notin deleted
      BY <1>0, TableFacts DEF InUse
    <3>4. \A i \in 1 .. page_count : page_table'[i] \notin deleted
      BY <2>6, <3>2, <3>3
    <3> QED
      BY <3>1, <3>2, <3>4
  <2>10. TableRefersToPages'
    BY <2>3, <2>6, <2>8, <2>9, TableFacts DEF TableRefersToPages
  <2>11. p \in 1 .. page_count
    <3>1. pc[t] = "install" /\ page_idx[t] \in Nat
      BY TableFacts
    <3>2. page_idx[t] < page_count
      BY <1>1, <3>1 DEF TableInv, TableInUse
    <3> QED
      BY <3>1, <3>2, TableFacts DEF p
  <2>12. \A i \in 1 .. Len(page_table) : i > page_count =>
            page_table'[i] = NullPage \/ page_table'[i] \in deleted
    <3>1. \A i \in 1 .. Len(page_table) : i > page_count => i # p
      BY <2>11, TableFacts
    <3> QED
      BY <1>0, <2>6, <3>1 DEF InUse
  <2>13. InUse(page_count)'
    BY <1>0, <2>6, <2>8, <2>9, <2>12 DEF InUse
  <2>14. \A u \in Threads : /\ pc'[u] \notin Replacing
                            /\ pc'[u] = "install" => pc[u] = "install"
    BY <1>0, <2>8 DEF TableInv, TypeOK
  <2>15. TableInUse'
    BY <2>6, <2>8, <2>13, <2>14 DEF TableInv, TableInUse
  <2> QED
    BY <2>7, <2>10, <2>15 DEF TableInv
<1>2. CASE ~ (page_idx[t] < Len(page_table))
  <2>1. TypeOK'
    BY <1>2 DEF growth, TableInv, TypeOK, Goto, Labels
  <2> QED
    BY <1>0, <1>2, <2>1, StepBeside DEF Goto, growth, TableInv, TypeOK
<1> QED
  BY <1>1, <1>2

(* Writing an element puts it in its page. *)
LEMMA WriteKeepsTable ==
  ASSUME TableInv, VIInv', NEW t \in Threads, Write(t)
  PROVE  TableInv'
<1> USE DEF Write, members, growth
<1> DEFINE page == Page(page_idx[t])
           k == index[t] - page_idx[t] * N
           v == <<t, ops[t]>>
<1>0. /\ pc[t] = "write" /\ pc'[t] \in {"idle", "wild"}
      /\ \A u \in Threads : u # t => pc'[u] = pc[u]
      /\ UNCHANGED <<page_table, page_count, deleted, old_pages, new_table, page_idx>>
  BY DEF Goto, TableInv, TypeOK
<1>1. v \in Value
  BY DEF TableInv, TypeOK, Value
<1>2. CASE page # NullPage /\ k < N
  <2>1. pages' = [pages EXCEPT ![page][k] = v] /\ returned' = returned \cup {<<index[t], v>>}
    BY <1>2
  <2> HIDE DEF page, k, v
  <2>2. pages' = [pages EXCEPT ![page] = [pages[page] EXCEPT ![k] = v]]
    BY <2>1
  <2> DEFINE Contents == [0 .. N - 1 -> Value \cup {Zero}]
  <2>3. \A f \in Contents : [f EXCEPT ![k] = v] \in Contents
    BY <1>1
  <2>4. pages \in Seq(Contents)
    BY DEF TableInv, TypeOK
  <2> HIDE DEF Contents
  <2>5. pages' \in Seq(Contents) /\ Len(pages') = Len(pages)
    <3> DEFINE new == [pages[page] EXCEPT ![k] = v]
    <3>1. page \in 1 .. Len(pages) => new \in Contents
      BY <2>3, <2>4
    <3> HIDE DEF new
    <3> QED
      BY <2>2, <2>4, <3>1, UpdateKeepsSeq DEF new
  <2>6. returned' \subseteq Nat \X Value
    <3>1. returned \subseteq Nat \X Value /\ index[t] \in Nat
      BY DEF TableInv, TypeOK
    <3> HIDE DEF Write
    <3> QED
      BY <2>1, <1>1, <3>1
  <2>7. pc' \in [Threads -> Labels]
    BY DEF TableInv, TypeOK, Goto, Labels
  <2>8. TypeOK'
    BY <2>5, <2>6, <2>7 DEF TableInv, TypeOK, Contents
  <2> QED
    BY <1>0, <2>5, <2>8, StepBeside
<1>3. CASE ~ (page # NullPage /\ k < N)
  <2>1. TypeOK'
    BY <1>3 DEF TableInv, TypeOK, Goto, Labels
  <2> QED
    BY <1>0, <1>3, <2>1, StepBeside
<1> QED
  BY <1>2, <1>3

(* Clear empties the table's count and deletes what the table refers to. *)
LEMMA ClearKeepsTable ==
  ASSUME TableInv, VIInv', Quiet, ClearMembers, copying' \in [Threads -> Nat]
  PROVE  TableInv'
<1> USE DEF ClearMembers, Reset
<1>0. InUse(page_count) /\ \A u \in Threads : pc[u] = "idle"
  BY NobodyReplaces DEF Quiet
<1>1. {page_table[i] : i \in 1 .. page_count} \ {NullPage} \subseteq 1 .. Len(pages)
  BY <1>0, TableFacts DEF InUse, NullPage
<1>2. deleted' \subseteq 1 .. Len(pages)
  BY <1>1 DEF TableInv, TableRefersToPages
<1>3. TypeOK'
  <2>1. deleted' \subseteq Nat
    BY <1>2, TableFacts
  <2>2. clears' \in Nat
    BY DEF TableInv, TypeOK
  <2>3. /\ elt_count' \in Nat /\ capacity' \in Nat /\ page_count' \in Nat
        /\ returned' \subseteq Nat \X Value
        /\ UNCHANGED <<mutex, page_table, pages, pc, op, ops, page_idx, count, index, old_pages,
                       new_table>>
    BY DEF growth
  <2> QED
    BY <2>1, <2>2, <2>3 DEF TableInv, TypeOK
<1>4. TableRefersToPages'
  BY <1>2 DEF TableInv, TableRefersToPages
<1>5. \A i \in 1 .. Len(page_table) : page_table[i] = NullPage \/ page_table[i] \in deleted'
  <2> SUFFICES ASSUME NEW i \in 1 .. Len(page_table), page_table[i] # NullPage
               PROVE  page_table[i] \in deleted'
    OBVIOUS
  <2>1. CASE i > page_count
    BY <1>0, <2>1 DEF InUse
  <2>2. CASE ~ (i > page_count)
    <3>1. i \in 1 .. page_count
      BY <2>2, TableFacts
    <3> QED
      BY <3>1
  <2> QED
    BY <2>1, <2>2
<1>6. InUse(page_count)'
  BY <1>5, TableFacts DEF InUse
<1>7. TableInUse'
  BY <1>0, <1>6 DEF TableInUse
<1> QED
  BY <1>3, <1>4, <1>7 DEF TableInv

(* Every step keeps the table in order. *)
THEOREM TableNext == TableInv /\ [Next]_vars => TableInv'
<1> SUFFICES ASSUME TableInv, [Next]_vars PROVE TableInv'
  OBVIOUS
<1>0. VIInv'
  BY VectorNext DEF TableInv
<1>1. ASSUME NEW t \in Threads, Step(t) PROVE TableInv'
  <2> USE <1>0 DEF members, memory, growth
  <2>0. pc \in [Threads -> Labels] /\ page_idx \in [Threads -> Nat]
    BY DEF TableInv, TypeOK
  <2>1. ASSUME NEW o \in Ops, Start(t, o) PROVE TableInv'
    <3>1. PageOf(elt_count) \in Nat
      BY FirstOfPage DEF TableInv, TypeOK, PageOf
    <3>2. o \in {"Insert", "EmplaceBack"}
      BY ConstantsAssumption
    <3>3. copying' \in [Threads -> Nat]
      BY <2>1 DEF Start, TableInv, TypeOK
    <3>4. /\ op' \in [Threads -> {"Insert", "EmplaceBack"}]
          /\ ops' \in [Threads -> Nat]
          /\ page_idx' \in [Threads -> Nat]
          /\ pc' \in [Threads -> Labels]
          /\ UNCHANGED <<members, memory, count, index, growth, returned, clears>>
      <4>1. /\ pc \in [Threads -> Labels] /\ op \in [Threads -> {"Insert", "EmplaceBack"}]
            /\ ops \in [Threads -> Nat] /\ page_idx \in [Threads -> Nat]
        BY DEF TableInv, TypeOK
      <4>2. /\ op' = [op EXCEPT ![t] = o] /\ ops' = [ops EXCEPT ![t] = @ + 1]
            /\ page_idx' = [page_idx EXCEPT ![t] = PageOf(elt_count)]
            /\ pc' = [pc EXCEPT ![t] = "count"]
            /\ UNCHANGED <<members, memory, count, index, growth, returned, clears>>
        BY <2>1 DEF Start, Goto
      <4>3. "count" \in Labels
        BY DEF Labels
      <4> QED
        BY <3>1, <3>2, <4>1, <4>2, <4>3
    <3>5. TypeOK'
      BY <3>3, <3>4 DEF TableInv, TypeOK
    <3> QED
      BY <2>0, <2>1, <3>5, StepBeside DEF Start, Goto
  <2>2. CASE ReadCount(t)
    <3>1. TypeOK'
      BY <2>2 DEF ReadCount, TableInv, TypeOK, Goto, Labels
    <3> QED
      BY <2>0, <2>2, <3>1, StepBeside DEF ReadCount, Goto
  <2>3. CASE CheckCapacity(t)
    <3>1. TypeOK'
      BY <2>3 DEF CheckCapacity, TableInv, TypeOK, Goto, Labels
    <3> QED
      BY <2>0, <2>3, <3>1, StepBeside DEF CheckCapacity, Goto
  <2>4. CASE Lock(t)
    <3>1. TypeOK'
      BY <2>4 DEF Lock, TableInv, TypeOK, Goto, Labels
    <3> QED
      BY <2>0, <2>4, <3>1, StepBeside DEF Lock, Goto
  <2>5. CASE Recheck(t)
    <3>1. TypeOK'
      BY <2>5 DEF Recheck, Unlock, TableInv, TypeOK, Goto, Labels
    <3> QED
      BY <2>0, <2>5, <3>1, StepBeside DEF Recheck, Goto
  <2>6. CASE RaisePageCount(t)
    BY <2>6, RaisePageCountStep
  <2>11. CASE CopyTable(t)
    BY <2>11, CopyTableStep
  <2>12. CASE ExchangeTable(t)
    BY <2>12, ExchangeTableStep
  <2>7. CASE InstallPage(t)
    BY <2>7, InstallPageStep
  <2>8. CASE RaiseCapacity(t)
    <3>1. capacity + N \in Nat
      BY ConstantsAssumption DEF TableInv, TypeOK
    <3>2. TypeOK'
      BY <2>8, <3>1 DEF RaiseCapacity, Unlock, TableInv, TypeOK, Goto, Labels
    <3> QED
      BY <2>0, <2>8, <3>2, StepBeside DEF RaiseCapacity, Goto
  <2>9. CASE Bump(t)
    <3>1. TypeOK'
      <4>1. elt_count' \in Nat /\ index' \in [Threads -> Nat]
        BY <2>9 DEF Bump, NextIndex, TableInv, TypeOK
      <4>2. pc' \in [Threads -> Labels]
        BY <2>9 DEF Bump, TableInv, TypeOK, Goto, Labels
      <4>3. UNCHANGED <<mutex, page_table, capacity, page_count, pages, deleted, op, ops, copying,
                        page_idx, count, old_pages, new_table, returned, clears>>
        BY <2>9 DEF Bump, memory
      <4> QED
        BY <4>1, <4>2, <4>3 DEF TableInv, TypeOK
    <3> QED
      BY <2>0, <2>9, <3>1, StepBeside DEF Bump, Goto
  <2>10. CASE Write(t)
    BY <2>10, WriteKeepsTable
  <2> QED
    BY <1>1, <2>1, <2>2, <2>3, <2>4, <2>5, <2>6, <2>7, <2>8, <2>9, <2>10, <2>11, <2>12 DEF Step
<1>2. CASE Clear
  BY <1>0, <1>2, ClearKeepsTable DEF Clear, TableInv, TypeOK
<1>3. ASSUME NEW t \in Threads, NEW n \in Sources, CopyFrom(t, n) PROVE TableInv'
  <2>1. copying' \in [Threads -> Nat]
    BY <1>3, ConstantsAssumption DEF CopyFrom, TableInv, TypeOK
  <2> QED
    BY <1>0, <1>3, <2>1, ClearKeepsTable DEF CopyFrom
<1>4. CASE UNCHANGED vars
  <2>1. TypeOK'
    BY <1>4 DEF vars, members, memory, growth, TableInv, TypeOK
  <2> QED
    BY <1>0, <1>4, <2>1, TableUntouched DEF vars, members, memory, growth
<1> QED
  BY <1>1, <1>2, <1>3, <1>4 DEF Next

(* Every variable of the vector keeps its shape, whatever threads do. *)
THEOREM VectorTyping == Spec => []TypeOK
<1>1. TableInv => TypeOK
  BY DEF TableInv
<1> QED
  BY <1>1, TableInit, TableNext, PTL DEF Spec

(* No page that Clear deleted is in the table again: however inserts, copies and
   Clear follow each other, a page is deleted at most once and none is used after. *)
THEOREM DeletedPagesStayOut == Spec => []TablePagesAlive
<1>1. TableInv => TablePagesAlive
  BY DEF TableInv, TableInUse, InUse, TablePagesAlive
<1> QED
  BY <1>1, TableInit, TableNext, PTL DEF Spec

(* A step of a thread keeps every entry that leads to a page, or leads it to a new one. *)
LEMMA StepKeepsPages ==
  ASSUME TableInv, NEW t \in Threads, Step(t),
         NEW p \in 0 .. Len(page_table) - 1, Page(p) # NullPage
  PROVE  Page(p)' # NullPage
<1> DEFINE i == p + 1
<1>0. /\ i \in 1 .. Len(page_table) /\ p \in Nat /\ p = i - 1
      /\ page_table[i] \notin deleted /\ page_table[i] # NullPage
  BY TableFacts DEF Page
<1>1. CASE UNCHANGED <<page_table, deleted>>
  BY <1>1 DEF Page
<1>2. CASE ExchangeTable(t)
  <2>1. /\ pc[t] = "exchange" /\ page_table' = new_table[t] /\ UNCHANGED deleted
    BY <1>2 DEF ExchangeTable, memory
  <2>2. /\ InUse(old_pages[t]) /\ old_pages[t] <= page_count
        /\ Len(page_table') = page_count
        /\ \A j \in 1 .. page_count :
              page_table'[j] = IF j <= old_pages[t] THEN page_table[j] ELSE NullPage
    BY <2>1 DEF TableInv, TableInUse
  <2> HIDE DEF i
  <2>3. i <= old_pages[t] /\ i \in 1 .. page_count
    BY <1>0, <2>2, TableFacts DEF InUse
  <2>4. page_table'[i] = page_table[i] /\ p < Len(page_table')
    BY <1>0, <2>2, <2>3, TableFacts
  <2> QED
    BY <1>0, <2>1, <2>4 DEF Page, i
<1>3. CASE InstallPage(t) /\ page_idx[t] < Len(page_table)
  <2>1. Len(pages') = Len(pages) + 1 /\ Len(pages) \in Nat
    <3> DEFINE PageSet == [0 .. N - 1 -> Value \cup {Zero}]
               blank == [k \in 0 .. N - 1 |-> Zero]
    <3>1. pages \in Seq(PageSet)
      BY DEF TableInv, TypeOK
    <3>2. pages' = Append(pages, blank) /\ blank \in PageSet
      BY <1>3 DEF InstallPage
    <3> HIDE DEF PageSet, blank
    <3> QED
      BY <3>1, <3>2
  <2>2. page_table' = [page_table EXCEPT ![page_idx[t] + 1] = Len(pages')] /\ UNCHANGED deleted
    BY <1>3 DEF InstallPage
  <2>3. page_table \in Seq(Nat) /\ NullPage = 0 /\ Len(page_table') = Len(page_table)
    BY <2>2 DEF NullPage, TableInv, TypeOK
  <2>4. Len(pages') \notin deleted /\ Len(pages') # NullPage
    BY <2>1, TableFacts DEF NullPage
  <2> HIDE DEF i
  <2>5. page_table'[i] = page_table[i] \/ page_table'[i] = Len(pages')
    BY <1>0, <2>2, <2>3
  <2>6. p < Len(page_table')
    BY <1>0, <2>3, TableFacts
  <2> QED
    BY <1>0, <2>2, <2>4, <2>5, <2>6 DEF Page, i
<1> QED
  BY <1>1, <1>2, <1>3
  DEF Step, Start, ReadCount, CheckCapacity, Lock, Recheck, RaisePageCount, CopyTable, InstallPage,
      RaiseCapacity, Bump, Write, members, memory

(* Until the vector is cleared, an entry that led to a page leads to one after every step,
   those between which the table is replaced included: a thread that reads the old table
   or the new one finds the pages that were there. *)
THEOREM TablesKeepPages == Spec => TableKeepsPages
<1>1. ASSUME TableInv, [Next]_vars
      PROVE  [clears' = clears => \A p \in 0 .. Len(page_table) - 1 :
                                     Page(p) # NullPage => Page(p)' # NullPage]_vars
  <2>1. CASE UNCHANGED vars
    BY <2>1
  <2>2. ASSUME NEW t \in Threads, Step(t)
        PROVE  \A p \in 0 .. Len(page_table) - 1 : Page(p) # NullPage => Page(p)' # NullPage
    BY <1>1, <2>2, StepKeepsPages
  <2>3. CASE Clear \/ \E t \in Threads, n \in Sources : CopyFrom(t, n)
    <3>1. clears' = clears + 1
      BY <2>3 DEF Clear, CopyFrom, ClearMembers
    <3>2. clears' # clears
      BY <1>1, <3>1 DEF TableInv, TypeOK
    <3> QED
      BY <3>2
  <2> QED
    BY <1>1, <2>1, <2>2, <2>3 DEF Next
<1> QED
  BY <1>1, TableInit, TableNext, PTL DEF Spec, TableKeepsPages

-----------------------------------------------------------------------------
(* Going past the capacity *)

Wild == {t \in Threads : WritesWild(t)}

(* The threads that raised the capacity but not above their page: others had already
   gone past it.  What they take next may lie in their page and above the capacity. *)
Ahead == {t \in Threads : pc[t] = "bump" /\ page_idx[t] * N >= capacity}

(* Every index above the capacity is paid for by a thread that strays, and every thread
   that is ahead still has one coming. *)
OvershootPaid == elt_count + Cardinality(Ahead) <= capacity + Cardinality(Wild)

OvershootInv ==
  /\ VIInv
  /\ capacity \in Nat
  /\ \E k \in Nat : capacity = k * N
  /\ count \in [Threads -> Nat]
  /\ \A t \in Threads : pc[t] = "check" => page_idx[t] * N <= count[t]
  /\ OvershootPaid

(* A page that begins below a whole number of pages ends there at the latest. *)
LEMMA WholePages ==
  ASSUME NEW p \in Nat, NEW k \in Nat, p * N < k * N
  PROVE  (p + 1) * N <= k * N
<1> USE ConstantsAssumption
<1>1. ASSUME p >= k PROVE FALSE
  <2>1. PICK d \in Nat : p = k + d
    BY <1>1
  <2>2. p * N = k * N + d * N
    BY <2>1
  <2>3. d * N \in Nat /\ k * N \in Nat
    OBVIOUS
  <2> QED
    BY <2>2, <2>3
<1>2. PICK d \in Nat : k = (p + 1) + d
  BY <1>1
<1>3. k * N = (p + 1) * N + d * N
  BY <1>2
<1>4. d * N \in Nat /\ (p + 1) * N \in Nat
  OBVIOUS
<1> QED
  BY <1>3, <1>4

(* Sets of threads are finite. *)
LEMMA ThreadSets ==
  ASSUME NEW S, S \subseteq Threads
  PROVE  IsFiniteSet(S) /\ Cardinality(S) \in Nat
BY ConstantsAssumption, FS_Subset, FS_CardinalityType

(* A set of threads that lies in another with one thread more. *)
LEMMA AtMostOneMore ==
  ASSUME NEW S \in SUBSET Threads, NEW R \in SUBSET Threads, NEW t \in Threads,
         R \subseteq S \cup {t}
  PROVE  Cardinality(R) <= Cardinality(S) + 1
<1>1. IsFiniteSet(S) /\ Cardinality(S) \in Nat
  BY ThreadSets
<1>2. /\ IsFiniteSet(S \cup {t})
      /\ Cardinality(S \cup {t}) = Cardinality(S) \/ Cardinality(S \cup {t}) = Cardinality(S) + 1
  <2>1. CASE t \in S
    <3>1. S \cup {t} = S
      BY <2>1
    <3> QED
      BY <1>1, <3>1
  <2>2. CASE t \notin S
    BY <1>1, <2>2, FS_AddElement
  <2> QED
    BY <2>1, <2>2
<1>3. Cardinality(R) <= Cardinality(S \cup {t}) /\ Cardinality(R) \in Nat
  BY <1>2, FS_Subset, ThreadSets
<1> QED
  BY <1>1, <1>2, <1>3

(* A set of threads that lies in another without one thread of it. *)
LEMMA AtLeastOneLess ==
  ASSUME NEW S \in SUBSET Threads, NEW R \in SUBSET Threads, NEW t \in S,
         R \subseteq S \ {t}
  PROVE  Cardinality(R) + 1 <= Cardinality(S)
<1>1. IsFiniteSet(S) /\ Cardinality(S) \in Nat
  BY ThreadSets
<1>2. IsFiniteSet(S \ {t}) /\ Cardinality(S \ {t}) = Cardinality(S) - 1
  BY <1>1, FS_RemoveElement
<1>3. Cardinality(R) <= Cardinality(S \ {t}) /\ Cardinality(R) \in Nat
  BY <1>2, FS_Subset, ThreadSets
<1> QED
  BY <1>1, <1>2, <1>3

(* A set of threads that lies in another. *)
LEMMA NoMore ==
  ASSUME NEW S \in SUBSET Threads, NEW R \in SUBSET Threads, R \subseteq S
  PROVE  Cardinality(R) <= Cardinality(S)
BY ThreadSets, FS_Subset

(* A step that takes no index and lets nobody get ahead keeps the count paid. *)
LEMMA StillPaid ==
  ASSUME OvershootInv, UNCHANGED <<elt_count, capacity>>,
         Ahead' \subseteq Ahead, Wild \subseteq Wild'
  PROVE  OvershootPaid'
<1>1. /\ Ahead \in SUBSET Threads /\ Wild \in SUBSET Threads
      /\ Ahead' \in SUBSET Threads /\ Wild' \in SUBSET Threads
  BY DEF Ahead, Wild
<1>2. Cardinality(Ahead') <= Cardinality(Ahead) /\ Cardinality(Wild) <= Cardinality(Wild')
  BY <1>1, NoMore
<1>3. /\ Cardinality(Ahead) \in Nat /\ Cardinality(Wild) \in Nat
      /\ Cardinality(Ahead)' \in Nat /\ Cardinality(Wild)' \in Nat
  BY <1>1, ThreadSets
<1> QED
  BY <1>2, <1>3 DEF OvershootInv, VIInv, IndexTyping, OvershootPaid

(* Before a thread checks the capacity or grows it, it neither strays nor is ahead. *)
LEMMA InnerStepPaid ==
  ASSUME OvershootInv, NEW t \in Threads, NEW label \in Labels,
         Goto(t, label), pc[t] \notin {"write", "wild"},
         UNCHANGED <<elt_count, capacity, index>>,
         page_idx' \in [Threads -> Nat],
         \A u \in Threads : u # t => page_idx'[u] = page_idx[u],
         label = "bump" => page_idx'[t] * N < capacity
  PROVE  OvershootPaid'
<1>1. pc'[t] = label /\ \A u \in Threads : u # t => pc'[u] = pc[u]
  BY DEF Goto, OvershootInv, VIInv, IndexTyping
<1>2. label = "bump" => t \notin Ahead'
  <2> SUFFICES ASSUME label = "bump", page_idx'[t] * N >= capacity PROVE FALSE
    BY DEF Ahead
  <2>1. page_idx'[t] * N < capacity
    OBVIOUS
  <2>2. page_idx'[t] * N \in Int
    BY ConstantsAssumption
  <2> QED
    BY <2>1, <2>2 DEF OvershootInv
<1>3. Ahead' \subseteq Ahead
  BY <1>1, <1>2 DEF Ahead
<1>4. Wild \subseteq Wild'
  BY <1>1 DEF Wild, WritesWild
<1> QED
  BY <1>3, <1>4, StillPaid

(* The other parts of the invariant after a step of a thread that is not at the check. *)
LEMMA PaidBefore ==
  ASSUME OvershootInv, VIInv', OvershootPaid', NEW t \in Threads,
         UNCHANGED <<capacity, count, page_idx>>,
         \A u \in Threads : u # t => pc'[u] = pc[u],
         pc'[t] # "check"
  PROVE  OvershootInv'
BY DEF OvershootInv

(* Taking an index: a thread that is ahead pays with that, another one strays if the
   count was at the capacity. *)
LEMMA BumpPaid ==
  ASSUME OvershootInv, NEW t \in Threads, Bump(t)
  PROVE  OvershootPaid'
<1>1. /\ pc[t] = "bump" /\ pc'[t] = "write"
      /\ \A u \in Threads : u # t => pc'[u] = pc[u] /\ index'[u] = index[u]
      /\ index'[t] = elt_count /\ elt_count' = elt_count + 1 /\ elt_count \in Nat /\ capacity \in Nat
      /\ UNCHANGED <<capacity, page_idx>>
      /\ page_idx[t] \in Nat /\ page_idx[t] * N \in Nat
  BY ConstantsAssumption DEF Bump, NextIndex, members, Goto, OvershootInv, VIInv, IndexTyping
<1>2. /\ Ahead \in SUBSET Threads /\ Wild \in SUBSET Threads
      /\ Ahead' \in SUBSET Threads /\ Wild' \in SUBSET Threads
  BY DEF Ahead, Wild
<1>3. /\ Cardinality(Ahead) \in Nat /\ Cardinality(Wild) \in Nat
      /\ Cardinality(Ahead') \in Nat /\ Cardinality(Wild') \in Nat
  BY <1>2, ThreadSets
<1>4. Ahead' \subseteq Ahead \ {t} /\ Wild \subseteq Wild' \ {t}
  <2>1. t \notin Ahead' /\ t \notin Wild
    BY <1>1 DEF Ahead, Wild, WritesWild
  <2> QED
    BY <1>1, <2>1 DEF Ahead, Wild, WritesWild
<1>5. Cardinality(Ahead') <= Cardinality(Ahead) /\ Cardinality(Wild) <= Cardinality(Wild')
  BY <1>2, <1>4, NoMore
<1>6. elt_count + Cardinality(Ahead) <= capacity + Cardinality(Wild)
  BY DEF OvershootInv, OvershootPaid
<1>7. CASE t \in Ahead
  <2>1. Cardinality(Ahead') + 1 <= Cardinality(Ahead)
    BY <1>2, <1>4, <1>7, AtLeastOneLess
  <2> QED
    BY <1>1, <1>3, <1>5, <1>6, <2>1 DEF OvershootPaid
<1>8. CASE t \notin Ahead /\ elt_count >= capacity
  <2>1. page_idx[t] * N < capacity
    BY <1>1, <1>8 DEF Ahead
  <2>2. (page_idx[t] + 1) * N <= capacity
    <3>1. PICK k \in Nat : capacity = k * N
      BY DEF OvershootInv
    <3> QED
      BY <1>1, <2>1, <3>1, WholePages
  <2>3. (page_idx[t] + 1) * N = page_idx[t] * N + N /\ N \in Nat
    BY <1>1, ConstantsAssumption
  <2>4. index'[t] - page_idx'[t] * N >= N
    BY <1>1, <1>8, <2>2, <2>3
  <2>5. t \in Wild'
    BY <1>1, <2>4 DEF Wild, WritesWild
  <2>6. Cardinality(Wild) + 1 <= Cardinality(Wild')
    BY <1>2, <1>4, <2>5, AtLeastOneLess
  <2> QED
    BY <1>1, <1>3, <1>5, <1>6, <2>6 DEF OvershootPaid
<1>9. CASE elt_count < capacity
  <2>1. Ahead' = {}
    <3> SUFFICES ASSUME NEW u \in Ahead' PROVE FALSE
      OBVIOUS
    <3>1. u \in Threads /\ pc[u] = "bump" /\ page_idx[u] * N >= capacity
      BY <1>4, <1>2 DEF Ahead
    <3>2. page_idx[u] * N <= elt_count /\ page_idx[u] * N \in Nat
      BY <3>1, ConstantsAssumption DEF OvershootInv, VIInv, PageNotPastCount, IndexTyping
    <3> QED
      BY <1>1, <1>9, <3>1, <3>2
  <2>2. Cardinality(Ahead') = 0
    BY <2>1, FS_EmptySet
  <2> QED
    BY <1>1, <1>3, <1>9, <2>2 DEF OvershootPaid
<1> QED
  BY <1>1, <1>7, <1>8, <1>9

(* Raising the capacity by a page lets at most its thread get ahead. *)
LEMMA RaisePaid ==
  ASSUME OvershootInv, NEW t \in Threads, RaiseCapacity(t)
  PROVE  OvershootPaid' /\ \E k \in Nat : capacity' = k * N
<1>1. /\ pc[t] = "raise" /\ pc'[t] = "bump"
      /\ \A u \in Threads : u # t => pc'[u] = pc[u]
      /\ capacity' = capacity + N
      /\ UNCHANGED <<page_idx, elt_count, index>>
      /\ elt_count \in Nat /\ capacity \in Nat /\ N \in Nat \ {0}
      /\ \A u \in Threads : page_idx[u] * N \in Nat
  BY ConstantsAssumption DEF RaiseCapacity, Goto, OvershootInv, VIInv, IndexTyping
<1>2. /\ Ahead \in SUBSET Threads /\ Wild \in SUBSET Threads
      /\ Ahead' \in SUBSET Threads /\ Wild' \in SUBSET Threads
  BY DEF Ahead, Wild
<1>3. /\ Cardinality(Ahead) \in Nat /\ Cardinality(Wild) \in Nat
      /\ Cardinality(Ahead') \in Nat /\ Cardinality(Wild') \in Nat
  BY <1>2, ThreadSets
<1>4. Ahead' \subseteq Ahead \cup {t} /\ Wild \subseteq Wild'
  <2>1. ASSUME NEW u \in Ahead', u # t PROVE u \in Ahead
    BY <1>1, <2>1 DEF Ahead
  <2>2. ASSUME NEW u \in Wild PROVE u \in Wild'
    BY <1>1 DEF Wild, WritesWild
  <2> QED
    BY <2>1, <2>2
<1>5. Cardinality(Ahead') <= Cardinality(Ahead) + 1 /\ Cardinality(Wild) <= Cardinality(Wild')
  BY <1>2, <1>4, NoMore, AtMostOneMore
<1>6. elt_count + Cardinality(Ahead) <= capacity + Cardinality(Wild)
  BY DEF OvershootInv, OvershootPaid
<1>7. OvershootPaid'
  BY <1>1, <1>3, <1>5, <1>6 DEF OvershootPaid
<1>8. \E k \in Nat : capacity' = k * N
  <2>1. PICK k \in Nat : capacity = k * N
    BY DEF OvershootInv
  <2>2. capacity' = (k + 1) * N /\ k + 1 \in Nat
    BY <1>1, <2>1
  <2> QED
    BY <2>2
<1> QED
  BY <1>7, <1>8

(* A thread that writes either was within its page or goes on being counted. *)
LEMMA WritePaid ==
  ASSUME OvershootInv, NEW t \in Threads, Write(t)
  PROVE  OvershootPaid'
<1>1. /\ pc[t] = "write" /\ pc'[t] \in {"idle", "wild"}
      /\ index[t] - page_idx[t] * N >= N => pc'[t] = "wild"
      /\ \A u \in Threads : u # t => pc'[u] = pc[u]
      /\ UNCHANGED <<page_idx, elt_count, capacity, index>>
  <2>1. index[t] - page_idx[t] * N \in Int /\ N \in Int
    BY ConstantsAssumption DEF OvershootInv, VIInv, IndexTyping
  <2> QED
    BY <2>1 DEF Write, Goto, members, OvershootInv, VIInv, IndexTyping
<1>2. Ahead' \subseteq Ahead
  BY <1>1 DEF Ahead
<1>3. Wild \subseteq Wild'
  BY <1>1 DEF Wild, WritesWild
<1> QED
  BY <1>1, <1>2, <1>3, StillPaid

(* Clear runs while no thread is in the vector, so none is ahead of it. *)
LEMMA ClearPaid ==
  ASSUME Quiet, ClearMembers
  PROVE  OvershootPaid'
<1>1. /\ \A t \in Threads : pc'[t] = "idle"
      /\ elt_count' = 0 /\ capacity' = 0
  BY DEF Quiet, ClearMembers, Reset
<1>2. Ahead' = {}
  BY <1>1 DEF Ahead
<1>3. Cardinality(Ahead') = 0
  BY <1>2, FS_EmptySet
<1>4. Cardinality(Wild') \in Nat
  BY ThreadSets DEF Wild
<1> QED
  BY <1>1, <1>3, <1>4 DEF OvershootPaid

(* Nothing is inserted yet, so there is nothing to pay for. *)
THEOREM OvershootInit == Init => OvershootInv
<1> SUFFICES ASSUME Init PROVE OvershootInv
  OBVIOUS
<1>1. VIInv
  BY VectorInit
<1>2. capacity \in Nat /\ capacity = 0 * N
  BY ConstantsAssumption DEF Init
<1>3. count \in [Threads -> Nat] /\ \A t \in Threads : pc[t] = "idle"
  BY DEF Init
<1>4. Cardinality(Ahead) = 0
  <2>1. Ahead = {}
    BY <1>3 DEF Ahead
  <2> QED
    BY <2>1, FS_EmptySet
<1>5. Cardinality(Wild) \in Nat
  BY ThreadSets DEF Wild
<1>6. OvershootPaid
  BY <1>4, <1>5 DEF Init, OvershootPaid
<1> QED
  BY <1>1, <1>2, <1>3, <1>6 DEF OvershootInv

(* Every step keeps the count paid for. *)
THEOREM OvershootNext == OvershootInv /\ [Next]_vars => OvershootInv'
<1> SUFFICES ASSUME OvershootInv, [Next]_vars PROVE OvershootInv'
  OBVIOUS
<1>0. VIInv'
  BY VectorNext DEF OvershootInv
<1>1. ASSUME NEW t \in Threads, Step(t) PROVE OvershootInv'
  <2> USE DEF members, memory
  <2>0. /\ elt_count \in Nat /\ capacity \in Nat /\ count[t] \in Nat
        /\ page_idx \in [Threads -> Nat] /\ page_idx[t] * N \in Nat
        /\ pc \in [Threads -> Labels]
        /\ pc[t] \notin {"idle", "write", "wild"} => page_idx[t] * N <= elt_count
        /\ pc[t] = "check" => page_idx[t] * N <= count[t]
    BY ConstantsAssumption DEF OvershootInv, VIInv, IndexTyping, PageNotPastCount
  <2>1. ASSUME NEW o \in Ops, Start(t, o) PROVE OvershootInv'
    <3>1. page_idx' \in [Threads -> Nat] /\ \A u \in Threads : u # t => page_idx'[u] = page_idx[u]
      BY <2>0, <2>1, FirstOfPage DEF Start, PageOf
    <3>2. OvershootPaid'
      BY <2>1, <3>1, InnerStepPaid DEF Start, Labels
    <3> QED
      BY <1>0, <2>0, <2>1, <3>1, <3>2 DEF OvershootInv, Start, Goto
  <2>2. CASE ReadCount(t)
    <3>1. OvershootPaid'
      BY <2>0, <2>2, InnerStepPaid DEF ReadCount, Labels
    <3> QED
      BY <1>0, <2>0, <2>2, <3>1 DEF OvershootInv, ReadCount, Goto
  <2>3. CASE CheckCapacity(t)
    <3> DEFINE label == IF ~Full(count[t]) THEN "bump"
                        ELSE IF op[t] = "Insert" THEN "lock" ELSE "grow"
    <3>1. label \in Labels /\ label # "check"
      BY DEF Labels
    <3>2. label = "bump" => page_idx[t] * N < capacity
      BY <2>0, <2>3 DEF CheckCapacity, Full
    <3> HIDE DEF label
    <3>3. Goto(t, label)
      BY <2>3 DEF CheckCapacity, label
    <3>4. OvershootPaid'
      BY <2>0, <2>3, <3>1, <3>2, <3>3, InnerStepPaid DEF CheckCapacity
    <3> QED
      BY <1>0, <2>0, <2>3, <3>1, <3>3, <3>4, PaidBefore DEF CheckCapacity, Goto
  <2>4. CASE Lock(t)
    <3>1. OvershootPaid'
      BY <2>0, <2>4, InnerStepPaid DEF Lock, Labels
    <3> QED
      BY <1>0, <2>0, <2>4, <3>1, PaidBefore DEF Lock, Goto
  <2>5. CASE Recheck(t)
    <3>1. \/ Goto(t, "grow")
          \/ Goto(t, "bump") /\ page_idx[t] * N < capacity
      BY <2>0, <2>5 DEF Recheck, Full
    <3>2. OvershootPaid'
      BY <2>0, <2>5, <3>1, InnerStepPaid DEF Recheck, Labels
    <3> QED
      BY <1>0, <2>0, <2>5, <3>1, <3>2, PaidBefore DEF Recheck, Goto
  <2>6. CASE RaisePageCount(t)
    <3>1. Goto(t, "install") \/ Goto(t, "copy")
      BY <2>6 DEF RaisePageCount
    <3>2. OvershootPaid'
      BY <2>0, <2>6, <3>1, InnerStepPaid DEF RaisePageCount, Labels
    <3> QED
      BY <1>0, <2>0, <2>6, <3>1, <3>2, PaidBefore DEF RaisePageCount, Goto
  <2>11. CASE CopyTable(t)
    <3>1. OvershootPaid'
      BY <2>0, <2>11, InnerStepPaid DEF CopyTable, Labels
    <3> QED
      BY <1>0, <2>0, <2>11, <3>1, PaidBefore DEF CopyTable, Goto
  <2>12. CASE ExchangeTable(t)
    <3>1. OvershootPaid'
      BY <2>0, <2>12, InnerStepPaid DEF ExchangeTable, Labels
    <3> QED
      BY <1>0, <2>0, <2>12, <3>1, PaidBefore DEF ExchangeTable, Goto
  <2>7. CASE InstallPage(t)
    <3>1. Goto(t, "raise") \/ Goto(t, "wild")
      BY <2>7 DEF InstallPage
    <3>2. OvershootPaid'
      BY <2>0, <2>7, <3>1, InnerStepPaid DEF InstallPage, Labels
    <3> QED
      BY <1>0, <2>0, <2>7, <3>1, <3>2, PaidBefore DEF InstallPage, Goto
  <2>8. CASE RaiseCapacity(t)
    <3>1. capacity' \in Nat
      BY <2>0, <2>8, ConstantsAssumption DEF RaiseCapacity
    <3>2. OvershootPaid' /\ \E k \in Nat : capacity' = k * N
      BY <2>8, RaisePaid
    <3> QED
      BY <1>0, <2>0, <2>8, <3>1, <3>2 DEF OvershootInv, RaiseCapacity, Goto
  <2>9. CASE Bump(t)
    <3>1. OvershootPaid'
      BY <2>9, BumpPaid
    <3> QED
      BY <1>0, <2>0, <2>9, <3>1, PaidBefore DEF Bump, Goto
  <2>10. CASE Write(t)
    <3>1. OvershootPaid'
      BY <2>10, WritePaid
    <3>2. Goto(t, "idle") \/ Goto(t, "wild")
      BY <2>10 DEF Write
    <3> QED
      BY <1>0, <2>0, <2>10, <3>1, <3>2, PaidBefore DEF Write, Goto
  <2> QED
    BY <1>1, <2>1, <2>2, <2>3, <2>4, <2>5, <2>6, <2>7, <2>8, <2>9, <2>10, <2>11, <2>12 DEF Step
<1>2. ASSUME Quiet, ClearMembers PROVE OvershootInv'
  <2>1. capacity' = 0 * N /\ capacity' \in Nat
    BY <1>2, ConstantsAssumption DEF ClearMembers, Reset
  <2>2. OvershootPaid'
    BY <1>2, ClearPaid
  <2> QED
    BY <1>0, <1>2, <2>1, <2>2 DEF OvershootInv, Quiet, ClearMembers
<1>3. CASE UNCHANGED vars
  <2>1. Ahead' \subseteq Ahead /\ Wild \subseteq Wild' /\ UNCHANGED <<elt_count, capacity>>
    BY <1>3 DEF vars, members, Ahead, Wild, WritesWild
  <2>2. OvershootPaid'
    BY <2>1, StillPaid
  <2> QED
    BY <1>0, <1>3, <2>2 DEF OvershootInv, vars, members
<1> QED
  BY <1>1, <1>2, <1>3 DEF Next, Clear, CopyFrom

(* While no thread writes past the end of its page the count is within the capacity,
   and each thread that does has taken it past by one at most. *)
THEOREM OvershootIsBounded == Spec => []OvershootBounded
<1>1. OvershootInv => OvershootBounded
  <2> SUFFICES ASSUME OvershootInv PROVE OvershootBounded
    OBVIOUS
  <2>1. Cardinality(Ahead) \in Nat /\ Cardinality(Wild) \in Nat
    BY ThreadSets DEF Ahead, Wild
  <2>2. elt_count \in Nat /\ capacity \in Nat /\ elt_count + Cardinality(Ahead) <= capacity + Cardinality(Wild)
    BY DEF OvershootInv, VIInv, IndexTyping, OvershootPaid
  <2> QED
    BY <2>1, <2>2 DEF OvershootBounded, Wild
<1> QED
  BY <1>1, OvershootInit, OvershootNext, PTL DEF Spec

(* The page a thread computed never starts behind the index it is given, so the
   offset in it does not wrap. *)
THEOREM OffsetsDoNotWrap == Spec => []IndexNotBeforePage
<1>1. VIInv => IndexNotBeforePage
  BY DEF VIInv
<1> QED
  BY <1>1, VectorInit, VectorNext, PTL DEF Spec

-----------------------------------------------------------------------------
(* One thread *)

(* The pages that the capacity counts. *)
Built == capacity \div N

(* The capacity is made of whole pages; each of them is in the table, once. *)
BuiltPages ==
  /\ capacity = Built * N
  /\ Built <= page_count /\ Built <= Len(page_table)
  /\ \A p \in 1 .. Built : page_table[p] # NullPage /\ page_table[p] \notin deleted
  /\ \A p, q \in 1 .. Built : page_table[p] = page_table[q] => p = q

(* Where the only thread is in its operation, and what it has made sure of. *)
Progress(t) ==
  /\ pc[t] # "wild"
  /\ elt_count <= capacity
  /\ pc[t] \notin {"idle", "write"} => page_idx[t] = elt_count \div N
  /\ pc[t] = "check" => count[t] = elt_count
  /\ pc[t] \in {"lock"} \cup Growing => elt_count = capacity
  /\ pc[t] \in Replacing => old_pages[t] = Built /\ Built < page_count
  /\ pc[t] \in {"install", "raise"} => Built < page_count /\ Built < Len(page_table)
  /\ pc[t] = "raise" => /\ page_table[Built + 1] # NullPage /\ page_table[Built + 1] \notin deleted
                        /\ \A p \in 1 .. Built : page_table[p] # page_table[Built + 1]
  /\ pc[t] = "bump" => elt_count < capacity
  /\ pc[t] = "write" => index[t] + 1 = elt_count /\ page_idx[t] = index[t] \div N

(* What was inserted is there, and what was not is Zero. *)
Contents(t) ==
  /\ \A r \in returned : Elem(r[1]) = r[2]
  /\ \A i \in Nat : elt_count <= i /\ i < capacity => Elem(i) = Zero
  /\ pc[t] = "raise" => \A i \in Nat : i \div N = Built => Elem(i) = Zero
  /\ pc[t] = "write" => Elem(index[t]) = Zero

AloneInv(t) ==
  /\ VIInv
  /\ TableInv
  /\ BuiltPages
  /\ Progress(t)
  /\ Contents(t)

(* The page of an index and its place in it. *)
LEMMA PlaceOfIndex ==
  ASSUME NEW n \in Nat
  PROVE  /\ n \div N \in Nat /\ n % N \in 0 .. N - 1
         /\ n = ((n \div N) * N) + (n % N)
BY ConstantsAssumption

LEMMA MonotoneTimes ==
  ASSUME NEW a \in Nat, NEW b \in Nat, a <= b
  PROVE  a * N <= b * N
<1>1. PICK d \in Nat : b = a + d
  OBVIOUS
<1>2. b * N = a * N + d * N /\ d * N \in Nat /\ a * N \in Nat
  BY <1>1, ConstantsAssumption
<1> QED
  BY <1>2

(* An index below a number of pages lies in one of them. *)
LEMMA PageBelow ==
  ASSUME NEW n \in Nat, NEW b \in Nat, n < b * N
  PROVE  n \div N < b
<1> SUFFICES ASSUME b <= n \div N PROVE FALSE
  BY PlaceOfIndex
<1>1. n \div N \in Nat /\ (n \div N) * N <= n
  BY FirstOfPage
<1>2. b * N <= (n \div N) * N
  BY <1>1, MonotoneTimes
<1>3. b * N \in Nat /\ (n \div N) * N \in Nat
  BY <1>1, ConstantsAssumption
<1> QED
  BY <1>1, <1>2, <1>3

(* The index at the start of a page lies in that page. *)
LEMMA PageAt ==
  ASSUME NEW b \in Nat
  PROVE  (b * N) \div N = b
<1>1. b * N \in Nat
  BY ConstantsAssumption
<1> DEFINE q == (b * N) \div N
           m == (b * N) % N
<1>2. q \in Nat /\ m \in 0 .. N - 1 /\ b * N = q * N + m
  BY <1>1, PlaceOfIndex
<1> HIDE DEF q, m
<1>3. q * N \in Nat /\ N \in Nat \ {0}
  BY <1>2, ConstantsAssumption
<1>4. ASSUME q + 1 <= b PROVE FALSE
  <2>1. (q + 1) * N <= b * N /\ (q + 1) * N = q * N + N
    BY <1>2, <1>3, <1>4, MonotoneTimes
  <2> QED
    BY <1>1, <1>2, <1>3, <2>1
<1>5. ASSUME b + 1 <= q PROVE FALSE
  <2>1. (b + 1) * N <= q * N /\ (b + 1) * N = b * N + N
    BY <1>2, <1>3, <1>5, MonotoneTimes
  <2> QED
    BY <1>1, <1>2, <1>3, <2>1
<1>6. q = b
  BY <1>2, <1>4, <1>5
<1> QED
  BY <1>6 DEF q

(* Where an element of a built page is. *)
LEMMA ElemOfBuilt ==
  ASSUME TableInv, BuiltPages, NEW i \in Nat, i < capacity
  PROVE  /\ Built \in Nat /\ i \div N \in Nat /\ i \div N < Built
         /\ Page(i \div N) = page_table[(i \div N) + 1]
         /\ page_table[(i \div N) + 1] \in 1 .. Len(pages)
         /\ Elem(i) = pages[page_table[(i \div N) + 1]][i % N]
<1>1. Built \in Nat /\ i \div N \in Nat
  BY FirstOfPage DEF Built, TableInv, TypeOK
<1>2. i \div N < Built
  BY <1>1, PageBelow DEF BuiltPages
<1>3. (i \div N) + 1 \in 1 .. Built /\ i \div N < Len(page_table) /\ (i \div N) + 1 \in 1 .. Len(page_table)
  BY <1>1, <1>2, TableFacts DEF BuiltPages
<1>4. page_table[(i \div N) + 1] \in 1 .. Len(pages)
  BY <1>3, TableFacts DEF BuiltPages, NullPage
<1>5. Page(i \div N) = page_table[(i \div N) + 1]
  BY <1>3 DEF Page, BuiltPages
<1>6. page_table[(i \div N) + 1] # NullPage
  BY <1>3 DEF BuiltPages
<1> QED
  BY <1>1, <1>2, <1>4, <1>5, <1>6 DEF Elem

(* A step that changes neither the vector nor what the thread holds of it. *)
LEMMA SameVector ==
  ASSUME NEW t, AloneInv(t), VIInv', TableInv', Progress(t)',
         UNCHANGED <<page_table, elt_count, capacity, pages, deleted, returned>>,
         page_count <= page_count',
         pc'[t] \notin {"raise", "write"}
  PROVE  AloneInv(t)'
<1>1. \A i \in Nat : Elem(i)' = Elem(i)
  BY DEF Elem, Page
<1>2. \A r \in returned : Elem(r[1])' = Elem(r[1])
  BY DEF Elem, Page
<1>3. BuiltPages'
  <2>1. Built \in Nat /\ page_count \in Nat /\ page_count' \in Nat
    BY FirstOfPage DEF AloneInv, TableInv, TypeOK, Built
  <2> QED
    BY <2>1 DEF AloneInv, BuiltPages, Built
<1>4. Contents(t)'
  BY <1>1, <1>2 DEF AloneInv, Contents
<1> QED
  BY <1>3, <1>4 DEF AloneInv

(* When the pages that were built keep their entries and their elements, every element
   below the capacity stays what it was. *)
LEMMA ElemsStay ==
  ASSUME TableInv, TableInv', BuiltPages, UNCHANGED <<capacity, deleted>>,
         Built <= Len(page_table'),
         \A p \in 1 .. Built : page_table'[p] = page_table[p],
         \A q \in 1 .. Len(pages) : pages'[q] = pages[q],
         NEW i \in Nat, i < capacity
  PROVE  Elem(i)' = Elem(i)
<1>1. Built \in Nat /\ i \div N \in Nat /\ (i \div N) + 1 \in 1 .. Built
  BY ElemOfBuilt
<1>2. page_table'[(i \div N) + 1] = page_table[(i \div N) + 1]
  BY <1>1
<1>3. page_table[(i \div N) + 1] \in 1 .. Len(pages)
  BY ElemOfBuilt
<1>4. i \div N < Len(page_table')
  BY <1>1, ElemOfBuilt DEF TableInv, TypeOK
<1>5. Page(i \div N)' = page_table[(i \div N) + 1]
  BY <1>1, <1>2, <1>4 DEF Page, BuiltPages
<1>6. page_table[(i \div N) + 1] # NullPage
  BY <1>1 DEF BuiltPages
<1>7. Elem(i)' = pages'[page_table[(i \div N) + 1]][i % N]
  BY <1>5, <1>6 DEF Elem
<1> QED
  BY <1>3, <1>7, ElemOfBuilt

(* What the typing says of the only thread. *)
LEMMA AloneTyping ==
  ASSUME NEW t, Threads = {t}, AloneInv(t)
  PROVE  /\ pc \in [{t} -> Labels] /\ elt_count \in Nat /\ capacity \in Nat /\ page_count \in Nat
         /\ op \in [{t} -> {"Insert", "EmplaceBack"}]
         /\ page_idx \in [{t} -> Nat] /\ count \in [{t} -> Nat] /\ index \in [{t} -> Nat]
         /\ Built \in Nat
         /\ \A r \in returned : r[1] \in Nat /\ r[1] < elt_count
         /\ N \in Nat \ {0}
BY ConstantsAssumption, FirstOfPage
DEF AloneInv, TableInv, TypeOK, VIInv, IndexTyping, IndicesBelowCount, Built

(* The steps before the growth. *)
LEMMA StartAlone ==
  ASSUME NEW t, Threads = {t}, AloneInv(t), VIInv', TableInv',
         \/ \E o \in Ops : Start(t, o)
         \/ ReadCount(t) \/ CheckCapacity(t) \/ Lock(t) \/ Recheck(t)
  PROVE  AloneInv(t)'
<1> USE AloneTyping DEF members, memory, growth
<1>0. /\ UNCHANGED <<page_table, elt_count, capacity, page_count, pages, deleted, returned, index>>
      /\ pc'[t] \in {"count", "check", "lock", "recheck", "grow", "bump"}
      /\ Built' = Built
  BY DEF Start, ReadCount, CheckCapacity, Lock, Recheck, Goto, Built
<1>1. Progress(t)'
  <2>1. ASSUME NEW o \in Ops, Start(t, o) PROVE Progress(t)'
    BY <2>1 DEF Start, PageOf, Goto, AloneInv, Progress
  <2>2. CASE ReadCount(t)
    BY <2>2 DEF ReadCount, Goto, AloneInv, Progress
  <2>3. CASE CheckCapacity(t)
    <3> USE DEF CheckCapacity
    <3>1. /\ pc[t] = "check" /\ count[t] = elt_count
          /\ elt_count <= capacity /\ page_idx[t] = elt_count \div N
      BY <2>3 DEF AloneInv, Progress
    <3>0. count[t] \in Nat /\ capacity \in Nat /\ pc \in [Threads -> Labels] /\ t \in Threads
      BY AloneTyping
    <3>2. \/ pc'[t] = "bump" /\ count[t] < capacity
          \/ pc'[t] \in {"lock", "grow"} /\ count[t] >= capacity
      <4> HIDE AloneTyping DEF AloneInv
      <4> QED
        BY <2>3, <3>0 DEF Goto, Full
    <3>3. UNCHANGED <<page_idx, count, elt_count, capacity>>
      BY <2>3
    <3> QED
      BY <3>0, <3>1, <3>2, <3>3 DEF Progress
  <2>4. CASE Lock(t)
    BY <2>4 DEF Lock, Goto, AloneInv, Progress
  <2>5. CASE Recheck(t)
    BY <2>5 DEF Recheck, Full, Goto, AloneInv, Progress
  <2> QED
    BY <2>1, <2>2, <2>3, <2>4, <2>5
<1> QED
  BY <1>0, <1>1, SameVector

(* Where the thread is when it grows the table. *)
LEMMA GrowsAtBuilt ==
  ASSUME NEW t, Threads = {t}, AloneInv(t), pc[t] \in {"grow", "copy", "exchange"}
  PROVE  elt_count = capacity /\ page_idx[t] = Built /\ Built <= page_count
BY DEF AloneInv, Progress, BuiltPages, Built

(* The page count is raised when all of the pages it counts are built. *)
LEMMA RaisePageCountAlone ==
  ASSUME NEW t, Threads = {t}, AloneInv(t), VIInv', TableInv', RaisePageCount(t)
  PROVE  AloneInv(t)'
<1>0. /\ pc \in [{t} -> Labels] /\ Built \in Nat /\ page_count \in Nat
      /\ old_pages \in [{t} -> Nat]
  BY AloneTyping DEF AloneInv, TableInv, TypeOK
<1>1. /\ pc[t] = "grow" /\ elt_count = capacity /\ page_idx[t] = Built /\ Built <= page_count
      /\ page_idx[t] = elt_count \div N
      /\ UNCHANGED <<page_table, elt_count, capacity, pages, deleted, returned, page_idx>>
      /\ Built' = Built
  BY GrowsAtBuilt DEF RaisePageCount, memory, Built
<1>2. CASE page_idx[t] < page_count
  <2>1. pc'[t] = "install" /\ UNCHANGED page_count
    BY <1>0, <1>2 DEF RaisePageCount, Goto
  <2>2. page_count <= Len(page_table) /\ Len(page_table) \in Nat
    BY <1>1, NobodyReplaces, TableFacts DEF AloneInv, InUse
  <2>3. Built < page_count /\ Built < Len(page_table)
    BY <1>0, <1>1, <1>2, <2>2
  <2>4. Progress(t)'
    BY <1>1, <2>1, <2>3 DEF AloneInv, Progress
  <2> QED
    BY <1>0, <1>1, <2>1, <2>4, SameVector
<1>3. CASE ~ (page_idx[t] < page_count)
  <2>1. page_count = Built
    BY <1>0, <1>1, <1>3
  <2> DEFINE length == MaxOf(FirstTable, page_count * 2)
  <2>2. length \in Nat /\ Built < length
    BY <1>0, <2>1, ConstantsAssumption DEF MaxOf
  <2>3. page_count' = length /\ old_pages'[t] = Built /\ pc'[t] = "copy"
    BY <1>0, <1>3, <2>1 DEF RaisePageCount, Goto
  <2> HIDE DEF length
  <2>4. Progress(t)'
    BY <1>1, <2>2, <2>3 DEF AloneInv, Progress
  <2>5. page_count <= page_count'
    BY <1>0, <2>1, <2>2, <2>3
  <2> QED
    BY <1>1, <2>3, <2>4, <2>5, SameVector
<1> QED
  BY <1>2, <1>3

(* Filling the new table touches nothing that is in use. *)
LEMMA CopyTableAlone ==
  ASSUME NEW t, Threads = {t}, AloneInv(t), VIInv', TableInv', CopyTable(t)
  PROVE  AloneInv(t)'
<1>0. pc \in [{t} -> Labels] /\ page_count \in Nat
  BY AloneTyping
<1>1. /\ pc[t] = "copy" /\ pc'[t] = "exchange"
      /\ UNCHANGED <<page_table, elt_count, capacity, page_count, pages, deleted, returned, page_idx,
                     old_pages>>
      /\ Built' = Built
  BY <1>0 DEF CopyTable, Goto, members, memory, Built
<1>2. Progress(t)'
  BY <1>1 DEF AloneInv, Progress
<1> QED
  BY <1>0, <1>1, <1>2, SameVector

(* The new table has the pages that were built, and room for the next. *)
LEMMA ExchangeTableAlone ==
  ASSUME NEW t, Threads = {t}, AloneInv(t), VIInv', TableInv', ExchangeTable(t)
  PROVE  /\ AloneInv(t)'
         /\ \A i \in Nat : i < capacity => Elem(i)' = Elem(i)
<1>0. pc \in [{t} -> Labels] /\ Built \in Nat /\ page_count \in Nat /\ TableInv /\ BuiltPages
  BY AloneTyping DEF AloneInv
<1>1. /\ pc[t] = "exchange" /\ pc'[t] = "install"
      /\ elt_count = capacity /\ page_idx[t] = Built /\ page_idx[t] = elt_count \div N
      /\ old_pages[t] = Built /\ Built < page_count
      /\ page_table' = new_table[t]
      /\ UNCHANGED <<elt_count, capacity, page_count, pages, deleted, returned, page_idx>>
      /\ Built' = Built
  BY <1>0, GrowsAtBuilt DEF ExchangeTable, Goto, memory, Built, AloneInv, Progress
<1>2. /\ Len(page_table') = page_count
      /\ \A i \in 1 .. page_count :
            page_table'[i] = IF i <= old_pages[t] THEN page_table[i] ELSE NullPage
  BY <1>0, <1>1 DEF TableInv, TableInUse
<1>3. \A p \in 1 .. Built : page_table'[p] = page_table[p]
  <2>1. old_pages[t] = Built /\ \A p \in 1 .. Built : p \in 1 .. page_count /\ p <= Built
    <3>1. Built \in Nat /\ page_count \in Nat /\ Built < page_count /\ old_pages[t] = Built
      BY <1>0, <1>1
    <3> QED
      BY <3>1
  <2> QED
    BY <1>2, <2>1
<1>4. BuiltPages'
  <2>1. /\ Built' = Built /\ capacity' = capacity /\ deleted' = deleted
        /\ Built <= page_count' /\ Built <= Len(page_table')
    <3>1. /\ Built \in Nat /\ page_count \in Nat /\ Built < page_count
          /\ page_count' = page_count /\ Len(page_table') = page_count
      BY <1>0, <1>1, <1>2
    <3>2. Built' = Built /\ capacity' = capacity /\ deleted' = deleted
      BY <1>1
    <3>3. Built <= page_count' /\ Built <= Len(page_table')
      BY <3>1
    <3> QED
      BY <3>2, <3>3
  <2>2. capacity' = Built' * N
    BY <1>0, <2>1 DEF BuiltPages
  <2>3. \A p \in 1 .. Built : page_table'[p] # NullPage /\ page_table'[p] \notin deleted'
    BY <1>0, <1>3, <2>1 DEF BuiltPages
  <2>4. \A p, q \in 1 .. Built : page_table'[p] = page_table'[q] => p = q
    BY <1>0, <1>3 DEF BuiltPages
  <2> QED
    BY <2>1, <2>2, <2>3, <2>4 DEF BuiltPages
<1>5. Progress(t)'
  BY <1>1, <1>2 DEF AloneInv, Progress
<1>6. \A i \in Nat : i < capacity => Elem(i)' = Elem(i)
  <2>1. Built <= Len(page_table') /\ \A q \in 1 .. Len(pages) : pages'[q] = pages[q]
    BY <1>0, <1>1, <1>2
  <2> QED
    BY <1>0, <1>1, <1>3, <2>1, ElemsStay
<1>7. \A r \in returned : r[1] \in Nat /\ r[1] < capacity
  <2>1. \A r \in returned : r[1] \in Nat /\ r[1] < elt_count
    BY AloneTyping
  <2> QED
    BY <1>1, <2>1
<1>8. Contents(t)'
  BY <1>1, <1>6, <1>7 DEF AloneInv, Contents
<1> QED
  BY <1>4, <1>5, <1>6, <1>8 DEF AloneInv

(* The next page goes where nothing was, and is Zero throughout. *)
LEMMA InstallAlone ==
  ASSUME NEW t, Threads = {t}, AloneInv(t), VIInv', TableInv', InstallPage(t)
  PROVE  /\ AloneInv(t)'
         /\ \A i \in Nat : i < capacity => Elem(i)' = Elem(i)
<1>0. /\ pc \in [{t} -> Labels] /\ capacity \in Nat /\ Built \in Nat /\ N \in Nat \ {0} /\ page_count \in Nat
      /\ \A r \in returned : r[1] \in Nat /\ r[1] < elt_count
  BY AloneTyping
<1>1. /\ pc[t] = "install" /\ elt_count = capacity /\ page_idx[t] = elt_count \div N
      /\ Built < page_count /\ Built < Len(page_table) /\ BuiltPages /\ TableInv
  BY DEF InstallPage, AloneInv, Progress
<1>2. page_idx[t] = Built
  BY <1>1 DEF Built
<1> DEFINE blank == [i \in 0 .. N - 1 |-> Zero]
           b == Built + 1
<1>3. /\ pages' = Append(pages, blank)
      /\ page_table' = [page_table EXCEPT ![b] = Len(pages')]
      /\ pc' = [pc EXCEPT ![t] = "raise"]
      /\ UNCHANGED <<mutex, elt_count, capacity, page_count, deleted, page_idx, count, index, returned>>
  BY <1>1, <1>2 DEF InstallPage, Goto
<1>4. pages \in Seq([0 .. N - 1 -> Value \cup {Zero}]) /\ blank \in [0 .. N - 1 -> Value \cup {Zero}]
  BY <1>1 DEF TableInv, TypeOK
<1>5. \A i \in 0 .. N - 1 : blank[i] = Zero
  OBVIOUS
<1> HIDE DEF blank
<1>6. /\ Len(pages) \in Nat /\ Len(pages') = Len(pages) + 1
      /\ pages'[Len(pages) + 1] = blank
      /\ \A q \in 1 .. Len(pages) : pages'[q] = pages[q]
  BY <1>3, <1>4
<1>7. b \in 1 .. Len(page_table) /\ page_table \in Seq(Nat) /\ b - 1 = Built /\ b \notin 1 .. Built
  BY <1>0, <1>1, TableFacts
<1> HIDE DEF b
<1>8. /\ page_table'[b] = Len(pages) + 1
      /\ \A p \in 1 .. Len(page_table) : p # b => page_table'[p] = page_table[p]
      /\ Len(page_table') = Len(page_table) /\ Len(page_table) \in Nat
  BY <1>3, <1>6, <1>7
<1>9. \A p \in 1 .. Built : page_table'[p] = page_table[p] /\ page_table[p] <= Len(pages) /\ page_table[p] \in Nat
  <2>1. \A p \in 1 .. Built : p \in 1 .. Len(page_table) /\ p # b
    BY <1>0, <1>1, <1>7, TableFacts DEF BuiltPages
  <2> QED
    BY <1>1, <1>8, <2>1, TableFacts
<1>10. Built' = Built /\ pc'[t] = "raise"
  BY <1>0, <1>3 DEF Built
<1>11. BuiltPages'
  BY <1>1, <1>3, <1>8, <1>9, <1>10 DEF BuiltPages
<1>12. Progress(t)'
  <2>1. page_table'[Built + 1] = Len(pages) + 1
    BY <1>8 DEF b
  <2>2. page_table'[Built + 1] # NullPage /\ \A p \in 1 .. Built : page_table'[p] # page_table'[Built + 1]
    BY <1>6, <1>9, <2>1 DEF NullPage
  <2>3. page_table'[Built + 1] \notin deleted'
    BY <1>1, <1>3, <1>6, <2>1, TableFacts
  <2> QED
    BY <1>0, <1>1, <1>3, <1>8, <1>10, <2>2, <2>3 DEF Progress
<1>13. \A i \in Nat : i < capacity => Elem(i)' = Elem(i)
  <2>1. Built <= Len(page_table')
    BY <1>0, <1>1, <1>8
  <2> QED
    BY <1>1, <1>3, <1>6, <1>9, <2>1, ElemsStay
<1>14. \A i \in Nat : i \div N = Built => Elem(i)' = Zero
  <2> SUFFICES ASSUME NEW i \in Nat, i \div N = Built PROVE Elem(i)' = Zero
    OBVIOUS
  <2>0. page_table'[(i \div N) + 1] = Len(pages) + 1 /\ i \div N < Len(page_table')
    BY <1>1, <1>8 DEF b
  <2>3. Len(pages) + 1 \notin deleted'
    BY <1>1, <1>3, <1>6, TableFacts
  <2>1. Page(i \div N)' = Len(pages) + 1
    BY <2>0, <2>3 DEF Page
  <2>2. Elem(i)' = blank[i % N]
    BY <1>6, <2>1 DEF Elem, NullPage
  <2>4. i % N \in 0 .. N - 1
    BY PlaceOfIndex
  <2> QED
    BY <1>5, <2>2, <2>4
<1>15. Contents(t)'
  BY <1>0, <1>1, <1>3, <1>10, <1>13, <1>14 DEF AloneInv, Contents
<1> QED
  BY <1>11, <1>12, <1>13, <1>15 DEF AloneInv

(* Raising the capacity counts the page that was installed. *)
LEMMA RaiseAlone ==
  ASSUME NEW t, Threads = {t}, AloneInv(t), VIInv', TableInv', RaiseCapacity(t)
  PROVE  AloneInv(t)'
<1>0. /\ pc \in [{t} -> Labels] /\ capacity \in Nat /\ Built \in Nat /\ N \in Nat \ {0} /\ page_count \in Nat
      /\ page_idx \in [{t} -> Nat]
  BY AloneTyping
<1>1. /\ pc[t] = "raise" /\ elt_count = capacity /\ page_idx[t] = elt_count \div N
      /\ Built < page_count /\ Built < Len(page_table) /\ Len(page_table) \in Nat /\ BuiltPages
      /\ page_table[Built + 1] # NullPage /\ page_table[Built + 1] \notin deleted
      /\ \A p \in 1 .. Built : page_table[p] # page_table[Built + 1]
      /\ \A r \in returned : Elem(r[1]) = r[2]
      /\ \A i \in Nat : i \div N = Built => Elem(i) = Zero
  BY TableFacts DEF RaiseCapacity, AloneInv, Progress, Contents
<1>2. /\ capacity' = capacity + N /\ pc'[t] = "bump"
      /\ UNCHANGED <<elt_count, page_count, page_table, pages, deleted, page_idx, returned>>
  BY <1>0 DEF RaiseCapacity, Goto, memory
<1>3. capacity' = (Built + 1) * N
  BY <1>0, <1>1, <1>2 DEF BuiltPages
<1>4. Built' = Built + 1
  BY <1>0, <1>3, PageAt DEF Built
<1>5. BuiltPages'
  <2>0. capacity' = Built' * N
    BY <1>3, <1>4
  <2>1. /\ Built' <= page_count /\ Built' <= Len(page_table)
        /\ \A p \in 1 .. Built + 1 : p \in 1 .. Built \/ p = Built + 1
    <3>1. Built \in Nat /\ page_count \in Nat /\ Len(page_table) \in Nat
      BY <1>0, <1>1
    <3> QED
      BY <1>1, <1>4, <3>1
  <2>2. \A p \in 1 .. Built + 1 : page_table[p] # NullPage /\ page_table[p] \notin deleted
    BY <1>1, <2>1 DEF BuiltPages
  <2>3. \A p, q \in 1 .. Built + 1 : page_table[p] = page_table[q] => p = q
    BY <1>1, <2>1 DEF BuiltPages
  <2> QED
    BY <1>2, <1>4, <2>0, <2>1, <2>2, <2>3 DEF BuiltPages
<1>6. Progress(t)'
  BY <1>0, <1>1, <1>2 DEF Progress
<1>7. \A i \in Nat : Elem(i)' = Elem(i)
  BY <1>2 DEF Elem, Page
<1>8. \A r \in returned : Elem(r[1])' = Elem(r[1])
  BY <1>2 DEF Elem, Page
<1>9. ASSUME NEW i \in Nat, elt_count <= i, i < capacity' PROVE Elem(i) = Zero
  <2>1. i \div N \in Nat /\ i \div N < Built + 1
    BY <1>0, <1>3, <1>9, PageBelow, PlaceOfIndex
  <2>2. ~ (i \div N < Built)
    <3> SUFFICES ASSUME (i \div N) + 1 <= Built PROVE FALSE
      BY <1>0, <2>1
    <3>1. ((i \div N) + 1) * N <= Built * N
      BY <1>0, <2>1, MonotoneTimes
    <3>2. /\ ((i \div N) + 1) * N = ((i \div N) * N) + N
          /\ (i \div N) * N \in Nat /\ Built * N = capacity
      BY <1>0, <1>1, <2>1 DEF BuiltPages
    <3>3. i = ((i \div N) * N) + (i % N) /\ i % N \in 0 .. N - 1
      BY PlaceOfIndex
    <3> QED
      BY <1>0, <1>1, <1>9, <3>1, <3>2, <3>3
  <2>3. i \div N = Built
    BY <1>0, <2>1, <2>2
  <2> QED
    BY <1>1, <2>3
<1>10. Contents(t)'
  BY <1>1, <1>2, <1>7, <1>8, <1>9 DEF Contents
<1> QED
  BY <1>5, <1>6, <1>10 DEF AloneInv

(* The element that is given out is within the capacity, and still Zero. *)
LEMMA BumpAlone ==
  ASSUME NEW t, Threads = {t}, AloneInv(t), VIInv', TableInv', Bump(t)
  PROVE  AloneInv(t)'
<1>0. /\ pc \in [{t} -> Labels] /\ capacity \in Nat /\ elt_count \in Nat
      /\ index \in [{t} -> Nat]
  BY AloneTyping
<1>1. /\ pc[t] = "bump" /\ elt_count < capacity /\ page_idx[t] = elt_count \div N
      /\ BuiltPages
      /\ \A r \in returned : Elem(r[1]) = r[2]
      /\ \A i \in Nat : elt_count <= i /\ i < capacity => Elem(i) = Zero
  BY DEF Bump, AloneInv, Progress, Contents
<1>2. /\ index'[t] = elt_count /\ elt_count' = elt_count + 1 /\ pc'[t] = "write"
      /\ UNCHANGED <<capacity, page_count, page_table, pages, deleted, page_idx, returned>>
  BY <1>0 DEF Bump, NextIndex, Goto, memory
<1>3. BuiltPages' /\ Built' = Built
  BY <1>1, <1>2 DEF BuiltPages, Built
<1>4. Progress(t)'
  BY <1>0, <1>1, <1>2 DEF Progress
<1>5. \A i \in Nat : Elem(i)' = Elem(i)
  BY <1>2 DEF Elem, Page
<1>6. \A r \in returned : Elem(r[1])' = Elem(r[1])
  BY <1>2 DEF Elem, Page
<1>7. Elem(elt_count) = Zero
  BY <1>0, <1>1
<1>8. Elem(index[t])' = Zero
  BY <1>2, <1>7 DEF Elem, Page
<1>9. \A i \in Nat : elt_count + 1 <= i => elt_count <= i
  BY <1>0
<1>10. Contents(t)'
  BY <1>0, <1>1, <1>2, <1>5, <1>6, <1>8, <1>9 DEF Contents
<1> QED
  BY <1>3, <1>4, <1>10 DEF AloneInv

(* What writing an element does: the element is the one of the thread's index, and no
   other changes. *)
LEMMA WriteAlone ==
  ASSUME NEW t, Threads = {t}, AloneInv(t), VIInv', TableInv', Write(t)
  PROVE  /\ pc[t] = "write" /\ pc'[t] = "idle"
         /\ index[t] \in Nat /\ index[t] + 1 = elt_count
         /\ Elem(index[t]) = Zero
         /\ returned' = returned \cup {<<index[t], <<t, ops[t]>> >>}
         /\ \A i \in Nat : i < capacity =>
               Elem(i)' = IF i = index[t] THEN <<t, ops[t]>> ELSE Elem(i)
<1>0. /\ pc \in [{t} -> Labels] /\ capacity \in Nat /\ elt_count \in Nat /\ page_idx[t] \in Nat
      /\ index[t] \in Nat /\ N \in Nat \ {0}
  BY AloneTyping
<1>1. /\ pc[t] = "write" /\ elt_count <= capacity /\ page_idx[t] = index[t] \div N
      /\ index[t] + 1 = elt_count
      /\ BuiltPages /\ TableInv
      /\ Elem(index[t]) = Zero
  BY DEF Write, AloneInv, Progress, Contents
<1>2. index[t] < capacity
  BY <1>0, <1>1
<1> DEFINE x == index[t]
           p == page_idx[t]
           page == Page(p)
           k == x - p * N
           v == <<t, ops[t]>>
<1>3. /\ p \in Nat /\ p < Built /\ Built \in Nat
      /\ page = page_table[p + 1]
      /\ page \in 1 .. Len(pages)
  BY <1>0, <1>1, <1>2, ElemOfBuilt
<1>4. k = x % N /\ k \in 0 .. N - 1
  <2>1. /\ x % N \in 0 .. N - 1 /\ x = ((x \div N) * N) + (x % N)
        /\ (x \div N) * N \in Nat
    <3>1. x \in Nat
      BY <1>0
    <3> HIDE DEF x
    <3>2. x % N \in 0 .. N - 1 /\ x = ((x \div N) * N) + (x % N) /\ x \div N \in Nat
      BY <3>1, PlaceOfIndex
    <3>3. (x \div N) * N \in Nat
      BY <1>0, <3>2
    <3> QED
      BY <3>2, <3>3
  <2>2. p * N = (x \div N) * N /\ x \in Nat
    BY <1>0, <1>1
  <2> DEFINE first == (x \div N) * N
             rest == x % N
  <2>3. k = x - first
    BY <2>2
  <2>4. first \in Nat /\ rest \in 0 .. N - 1 /\ x = first + rest /\ N \in Nat
    BY <1>0, <2>1
  <2> HIDE DEF first, rest, k, x
  <2>5. k = rest
    BY <2>2, <2>3, <2>4
  <2> QED
    BY <2>4, <2>5 DEF rest
<1>5. page # NullPage /\ k < N
  <2>1. Len(pages) \in Nat
    BY <1>1, TableFacts
  <2> QED
    BY <1>0, <1>3, <1>4, <2>1 DEF NullPage
<1>6. /\ pages' = [pages EXCEPT ![page][k] = v]
      /\ returned' = returned \cup {<<x, v>>}
      /\ pc' = [pc EXCEPT ![t] = "idle"]
      /\ UNCHANGED <<page_table, elt_count, capacity, page_count, deleted>>
  <2> HIDE DEF page, k, v
  <2> QED
    BY <1>5 DEF Write, Goto, members, page, k, v
<1>7. pages \in Seq([0 .. N - 1 -> Value \cup {Zero}])
  BY <1>1 DEF TableInv, TypeOK
<1> HIDE DEF page, k, v
<1>8. /\ pages'[page][k] = v
      /\ \A j \in 0 .. N - 1 : j # k => pages'[page][j] = pages[page][j]
      /\ \A q \in 1 .. Len(pages) : q # page => pages'[q] = pages[q]
  <2>1. page \in DOMAIN pages /\ k \in DOMAIN pages[page] /\ DOMAIN pages[page] = 0 .. N - 1
    <3>1. pages[page] \in [0 .. N - 1 -> Value \cup {Zero}]
      BY <1>3, <1>7
    <3>2. DOMAIN pages = 1 .. Len(pages)
      BY <1>7
    <3> QED
      BY <1>3, <1>4, <3>1, <3>2
  <2>2. pages' = [pages EXCEPT ![page] = [pages[page] EXCEPT ![k] = v]]
    BY <1>6
  <2>3. pages'[page] = [pages[page] EXCEPT ![k] = v]
    BY <2>1, <2>2
  <2>4. \A q \in 1 .. Len(pages) : q # page => pages'[q] = pages[q]
    BY <1>7, <2>2
  <2>5. \A j \in 0 .. N - 1 : pages'[page][j] = IF j = k THEN v ELSE pages[page][j]
    BY <2>1, <2>3
  <2> QED
    BY <1>4, <2>4, <2>5
<1>9. ASSUME NEW i \in Nat, i < capacity
      PROVE  Elem(i)' = IF i = x THEN v ELSE Elem(i)
  <2> DEFINE e == page_table[(i \div N) + 1]
  <2>1. /\ i \div N \in Nat /\ i \div N < Built
        /\ Page(i \div N) = e /\ e \in 1 .. Len(pages)
        /\ Elem(i) = pages[e][i % N]
    BY <1>1, <1>9, ElemOfBuilt
  <2>2. e # NullPage
    BY <1>3, <2>1 DEF BuiltPages, NullPage
  <2>3. Page(i \div N)' = e
    BY <1>6, <2>1, <2>2 DEF Page
  <2> HIDE DEF e
  <2>4. Elem(i)' = pages'[e][i % N]
    BY <2>2, <2>3 DEF Elem
  <2>5. CASE i = x
    BY <1>1, <1>3, <1>4, <1>8, <2>4, <2>5 DEF e
  <2>6. CASE i # x
    <3>1. CASE e # page
      BY <1>8, <2>1, <2>4, <2>6, <3>1
    <3>2. CASE e = page
      <4>1. (i \div N) + 1 \in 1 .. Built /\ p + 1 \in 1 .. Built
        BY <1>3, <2>1
      <4>2. i \div N = p
        BY <1>1, <1>3, <2>1, <3>2, <4>1 DEF BuiltPages, e
      <4>3. i = ((i \div N) * N) + (i % N) /\ x = ((x \div N) * N) + (x % N)
        BY <1>0, PlaceOfIndex
      <4>4. i % N # k
        BY <1>1, <1>4, <2>6, <4>2, <4>3
      <4> QED
        BY <1>8, <2>1, <2>4, <2>6, <3>2, <4>4, PlaceOfIndex
    <3> QED
      BY <3>1, <3>2
  <2> QED
    BY <2>5, <2>6
<1>10. pc'[t] = "idle"
  BY <1>0, <1>6
<1> QED
  BY <1>0, <1>1, <1>6, <1>9, <1>10 DEF v

(* The element that was written is found from then on. *)
LEMMA WrittenAlone ==
  ASSUME NEW t, Threads = {t}, AloneInv(t), VIInv', TableInv', Write(t)
  PROVE  AloneInv(t)'
<1>0. /\ capacity \in Nat /\ elt_count \in Nat /\ pc \in [{t} -> Labels]
      /\ \A r \in returned : r[1] \in Nat /\ r[1] < elt_count
  BY AloneTyping
<1>1. /\ pc[t] = "write" /\ pc'[t] = "idle"
      /\ index[t] \in Nat /\ index[t] + 1 = elt_count
      /\ returned' = returned \cup {<<index[t], <<t, ops[t]>> >>}
      /\ \A i \in Nat : i < capacity =>
            Elem(i)' = IF i = index[t] THEN <<t, ops[t]>> ELSE Elem(i)
  BY WriteAlone
<1>2. /\ UNCHANGED <<page_table, elt_count, capacity, page_count, deleted>>
      /\ BuiltPages /\ elt_count <= capacity
      /\ \A r \in returned : Elem(r[1]) = r[2]
      /\ \A i \in Nat : elt_count <= i /\ i < capacity => Elem(i) = Zero
      /\ \A r \in returned : r[1] # index[t]
  BY <1>1 DEF Write, members, AloneInv, Progress, Contents, VIInv, IndicesUnique
<1>3. BuiltPages'
  BY <1>2 DEF BuiltPages, Built
<1>4. Progress(t)'
  BY <1>1, <1>2 DEF Progress
<1>5. ASSUME NEW r \in returned' PROVE Elem(r[1])' = r[2]
  <2>1. CASE r \in returned
    <3>1. r[1] \in Nat /\ r[1] < capacity /\ r[1] # index[t]
      BY <1>0, <1>2, <2>1
    <3>2. Elem(r[1])' = Elem(r[1])
      BY <1>1, <3>1
    <3> QED
      BY <1>2, <2>1, <3>2
  <2>2. CASE r = <<index[t], <<t, ops[t]>> >>
    <3>1. r[1] = index[t] /\ r[2] = <<t, ops[t]>> /\ r[1] \in Nat /\ r[1] < capacity
      BY <1>0, <1>1, <1>2, <2>2
    <3> QED
      BY <1>1, <3>1
  <2> QED
    BY <1>1, <2>1, <2>2
<1>6. \A i \in Nat : elt_count <= i /\ i < capacity => Elem(i)' = Zero
  BY <1>0, <1>1, <1>2
<1>7. Contents(t)'
  BY <1>1, <1>2, <1>5, <1>6 DEF Contents
<1> QED
  BY <1>3, <1>4, <1>7 DEF AloneInv

(* An empty vector satisfies the invariant of the only thread. *)
THEOREM AloneInit ==
  ASSUME NEW t, Threads = {t}, Init
  PROVE  AloneInv(t)
<1>1. VIInv /\ TableInv
  BY VectorInit, TableInit
<1>2. pc[t] = "idle" /\ elt_count = 0 /\ capacity = 0 /\ page_count = 0 /\ returned = {}
  BY DEF Init
<1>3. 0 * N = 0 /\ (0 * N) \div N = 0
  BY PageAt, ConstantsAssumption
<1>4. BuiltPages
  BY <1>2, <1>3 DEF BuiltPages, Built
<1>5. Progress(t) /\ Contents(t)
  BY <1>2 DEF Progress, Contents
<1> QED
  BY <1>1, <1>4, <1>5 DEF AloneInv

(* Clear leaves a vector that holds nothing. *)
LEMMA ClearAlone ==
  ASSUME NEW t, Threads = {t}, AloneInv(t), VIInv', TableInv', Quiet, ClearMembers
  PROVE  AloneInv(t)'
<1>1. pc'[t] = "idle" /\ elt_count' = 0 /\ capacity' = 0 /\ page_count' = 0 /\ returned' = {}
  BY DEF Quiet, ClearMembers, Reset
<1>2. 0 * N = 0 /\ (0 * N) \div N = 0
  BY PageAt, ConstantsAssumption
<1>3. BuiltPages'
  BY <1>1, <1>2 DEF BuiltPages, Built
<1>4. Progress(t)' /\ Contents(t)'
  BY <1>1 DEF Progress, Contents
<1> QED
  BY <1>3, <1>4 DEF AloneInv

(* Every step of the only thread keeps the invariant. *)
THEOREM AloneNext ==
  ASSUME NEW t, Threads = {t}, AloneInv(t), [Next]_vars
  PROVE  AloneInv(t)'
<1>1. VIInv' /\ TableInv'
  BY VectorNext, TableNext DEF AloneInv
<1>2. CASE Step(t)
  BY <1>1, <1>2, StartAlone, RaisePageCountAlone, CopyTableAlone, ExchangeTableAlone, InstallAlone, RaiseAlone, BumpAlone, WrittenAlone DEF Step
<1>3. CASE Quiet /\ ClearMembers
  BY <1>1, <1>3, ClearAlone
<1>4. CASE UNCHANGED vars
  <2> USE <1>4 DEF vars, members, memory, growth
  <2>1. BuiltPages' /\ Progress(t)'
    BY DEF AloneInv, BuiltPages, Progress, Built
  <2>2. Contents(t)'
    BY DEF AloneInv, Contents, Elem, Page, Built
  <2> QED
    BY <1>1, <2>1, <2>2 DEF AloneInv
<1> QED
  BY <1>2, <1>3, <1>4 DEF Next, Clear, CopyFrom

(* With one thread, whatever page size, first table, operations, copies and clears:
   no write goes astray, and every element is found under the index its insert
   returned. *)
THEOREM AloneFindsInserted ==
  ASSUME NEW t, Threads = {t}
  PROVE  Spec => []InsertedFound
<1>1. Init => AloneInv(t)
  BY AloneInit
<1>2. AloneInv(t) /\ [Next]_vars => AloneInv(t)'
  BY AloneNext
<1>3. AloneInv(t) => InsertedFound
  BY DEF AloneInv, Progress, Contents, InsertedFound
<1> QED
  BY <1>1, <1>2, <1>3, PTL DEF Spec

(* The only thread's vector is a sequence of values. *)
LEMMA ElemsIsSequence ==
  ASSUME NEW t, Threads = {t}, AloneInv(t)
  PROVE  /\ Elems \in Seq(Value \cup {Zero})
         /\ Len(Elems) = elt_count
         /\ \A i \in 1 .. elt_count : Elems[i] = Elem(i - 1)
<1>1. elt_count \in Nat /\ capacity \in Nat /\ elt_count <= capacity
  BY AloneTyping DEF AloneInv, Progress
<1>2. ASSUME NEW i \in Nat, i < elt_count PROVE Elem(i) \in Value \cup {Zero}
  <2>1. i < capacity /\ TableInv /\ BuiltPages
    BY <1>1, <1>2 DEF AloneInv
  <2> DEFINE e == page_table[(i \div N) + 1]
  <2>2. e \in 1 .. Len(pages) /\ Elem(i) = pages[e][i % N]
    BY <2>1, ElemOfBuilt
  <2>3. pages[e] \in [0 .. N - 1 -> Value \cup {Zero}] /\ i % N \in 0 .. N - 1
    <3>1. pages \in Seq([0 .. N - 1 -> Value \cup {Zero}])
      BY <2>1 DEF TableInv, TypeOK
    <3> HIDE DEF e
    <3>2. pages[e] \in [0 .. N - 1 -> Value \cup {Zero}]
      BY <2>2, <3>1
    <3>3. i % N \in 0 .. N - 1
      BY PlaceOfIndex
    <3> QED
      BY <3>2, <3>3
  <2> QED
    BY <2>2, <2>3
<1>3. \A i \in 1 .. elt_count : i - 1 \in Nat /\ i - 1 < elt_count
  BY <1>1
<1>4. Elems \in [1 .. elt_count -> Value \cup {Zero}]
  BY <1>2, <1>3 DEF Elems
<1> QED
  BY <1>1, <1>4 DEF Elems

(* A step that changes no element below the count changes nothing for the user. *)
LEMMA ElemsUnchanged ==
  ASSUME NEW t, Threads = {t}, AloneInv(t), elt_count' = elt_count,
         \A i \in Nat : i < elt_count => Elem(i)' = Elem(i)
  PROVE  Elems' = Elems
<1>1. elt_count \in Nat
  BY AloneTyping
<1>2. \A i \in 1 .. elt_count : i - 1 \in Nat /\ i - 1 < elt_count
  BY <1>1
<1>3. \A i \in 1 .. elt_count : Elem(i - 1)' = Elem(i - 1)
  BY <1>2
<1> QED
  BY <1>3 DEF Elems

(* What each step of the only thread is for the user of the vector. *)
LEMMA BumpAppends ==
  ASSUME NEW t, Threads = {t}, AloneInv(t), Bump(t)
  PROVE  Abstract!AppendZero
<1>0. elt_count \in Nat
  BY AloneTyping
<1>1. /\ elt_count' = elt_count + 1
      /\ UNCHANGED <<page_table, pages, deleted>>
      /\ Elem(elt_count) = Zero
  BY <1>0, AloneTyping DEF Bump, memory, AloneInv, Progress, Contents
<1>2. \A i \in 1 .. elt_count + 1 : Elem(i - 1)' = Elem(i - 1)
  BY <1>1 DEF Elem, Page
<1>3. Elems' = [i \in 1 .. elt_count + 1 |-> Elem(i - 1)]
  BY <1>1, <1>2 DEF Elems
<1>4. /\ Elems \in Seq(Value \cup {Zero})
      /\ Len(Elems) = elt_count
      /\ \A i \in 1 .. elt_count : Elems[i] = Elem(i - 1)
  BY ElemsIsSequence
<1>5. Elem((elt_count + 1) - 1) = Zero
  BY <1>0, <1>1
<1> DEFINE long == Append(Elems, Zero)
<1>6. /\ long \in Seq(Value \cup {Zero})
      /\ Len(long) = elt_count + 1
      /\ \A i \in 1 .. elt_count : long[i] = Elems[i]
      /\ long[elt_count + 1] = Zero
  BY <1>0, <1>4
<1> HIDE DEF long
<1>7. DOMAIN long = 1 .. elt_count + 1 /\ long = [i \in DOMAIN long |-> long[i]]
  BY <1>0, <1>6
<1>8. \A i \in 1 .. elt_count + 1 : long[i] = Elem(i - 1)
  <2> SUFFICES ASSUME NEW i \in 1 .. elt_count + 1 PROVE long[i] = Elem(i - 1)
    OBVIOUS
  <2>1. CASE i \in 1 .. elt_count
    BY <1>4, <1>6, <2>1
  <2>2. CASE i = elt_count + 1
    BY <1>5, <1>6, <2>2
  <2> QED
    BY <1>0, <2>1, <2>2
<1>9. Elems' = long
  BY <1>3, <1>7, <1>8
<1> QED
  BY <1>9 DEF Abstract!AppendZero, long

LEMMA WriteWrites ==
  ASSUME NEW t, Threads = {t}, AloneInv(t), VIInv', TableInv', Write(t)
  PROVE  \E i \in DOMAIN Elems : Abstract!Write(i)
<1>0. elt_count \in Nat /\ capacity \in Nat /\ elt_count <= capacity
  BY AloneTyping DEF AloneInv, Progress
<1> DEFINE v == <<t, ops[t]>>
           x == index[t] + 1
<1>1. /\ index[t] \in Nat /\ x = elt_count
      /\ Elem(index[t]) = Zero
      /\ \A i \in Nat : i < capacity => Elem(i)' = IF i = index[t] THEN v ELSE Elem(i)
  BY WriteAlone
<1>2. elt_count' = elt_count
  BY DEF Write, members
<1>3. v \in Value
  BY DEF AloneInv, TableInv, TypeOK, Value
<1>4. x \in 1 .. elt_count /\ x - 1 = index[t]
  BY <1>0, <1>1
<1> HIDE DEF v, x
<1>5. \A i \in 1 .. elt_count : i - 1 \in Nat /\ i - 1 < capacity /\ (i - 1 = index[t] <=> i = x)
  BY <1>0, <1>1, <1>4
<1>6. \A i \in 1 .. elt_count : Elem(i - 1)' = IF i = x THEN v ELSE Elem(i - 1)
  BY <1>1, <1>5
<1>7. Elems' = [i \in 1 .. elt_count |-> IF i = x THEN v ELSE Elem(i - 1)]
  BY <1>2, <1>6 DEF Elems
<1>8. Elems' = [Elems EXCEPT ![x] = v]
  BY <1>7 DEF Elems
<1>9. Elems'[x] = v /\ Elems[x] = Zero /\ x \in DOMAIN Elems
  BY <1>1, <1>4, <1>7 DEF Elems
<1>10. Abstract!Write(x)
  BY <1>3, <1>8, <1>9 DEF Abstract!Write
<1> QED
  BY <1>9, <1>10

LEMMA StepAppends ==
  ASSUME NEW t, Threads = {t}, AloneInv(t), [Next]_vars
  PROVE  [Abstract!Next]_Elems
<1>0. VIInv' /\ TableInv' /\ elt_count \in Nat /\ capacity \in Nat /\ elt_count <= capacity
  BY VectorNext, TableNext, AloneTyping DEF AloneInv, Progress
<1>1. CASE Bump(t)
  BY <1>1, BumpAppends DEF Abstract!Next
<1>2. CASE Write(t)
  BY <1>0, <1>2, WriteWrites DEF Abstract!Next
<1>3. CASE Quiet /\ ClearMembers
  <2>1. elt_count' = 0
    BY <1>3 DEF ClearMembers, Reset
  <2>2. Elems' = <<>>
    BY <2>1 DEF Elems
  <2> QED
    BY <2>2 DEF Abstract!Next, Abstract!Clear
<1>4. CASE ExchangeTable(t) \/ InstallPage(t)
  <2>1. \A i \in Nat : i < elt_count => Elem(i)' = Elem(i)
    <3>1. \A i \in Nat : i < capacity => Elem(i)' = Elem(i)
      BY <1>0, <1>4, ExchangeTableAlone, InstallAlone
    <3> QED
      BY <1>0, <3>1
  <2>2. elt_count' = elt_count
    BY <1>4 DEF ExchangeTable, InstallPage
  <2> QED
    BY <2>1, <2>2, ElemsUnchanged
<1>5. CASE UNCHANGED <<elt_count, page_table, pages, deleted>>
  <2>1. \A i \in Nat : i < elt_count => Elem(i)' = Elem(i)
    BY <1>5 DEF Elem, Page
  <2> QED
    BY <1>5, <2>1, ElemsUnchanged
<1> QED
  BY <1>1, <1>2, <1>3, <1>4, <1>5
  DEF Next, Step, Clear, CopyFrom, Start, ReadCount, CheckCapacity, Lock, Recheck, RaisePageCount,
      CopyTable, RaiseCapacity, vars, members, memory

(* With one thread the vector is the append-only sequence it promises: elements are
   appended, written once and found where they were put, through every growth of the
   table, until the vector is cleared. *)
THEOREM AloneIsAppendOnly ==
  ASSUME NEW t, Threads = {t}
  PROVE  Spec => AppendOnly
<1>1. Init => AloneInv(t) /\ Abstract!Init
  BY AloneInit DEF Init, Elems, Abstract!Init
<1>2. AloneInv(t) /\ [Next]_vars => AloneInv(t)'
  BY AloneNext
<1>3. AloneInv(t) /\ [Next]_vars => [Abstract!Next]_Elems
  BY StepAppends
<1> QED
  BY <1>1, <1>2, <1>3, PTL DEF Spec, AppendOnly, Abstract!Spec
=============================================================================
