----------------------------- MODULE StableVector -----------------------------
(***************************************************************************)
(* core/stable_vector.hpp: a vector whose elements never move, made of     *)
(* pages of N elements and a table of pages that is replaced by a longer   *)
(* one when it is full.  Old tables are kept, so a thread that still reads *)
(* one finds the pages it had.                                             *)
(*                                                                         *)
(* A thread takes one step per access to shared state, in the order of     *)
(* Insert, but for reads that no step of another thread can tell apart.    *)
(* EmplaceBack and EmplaceBackNoLock are the same steps without the mutex, *)
(* with the element written by their caller; InsertNoLock is Insert word   *)
(* for word.                                                               *)
(***************************************************************************)
EXTENDS Naturals, Sequences, FiniteSets

CONSTANTS
  Threads,
  N,            \* elements per page
  FirstTable,   \* entries of the first page table: 16 in the code
  Ops,          \* the operations in use: "Insert", "EmplaceBack"
  MaxOps,       \* bound on the operations of a thread
  Sources,      \* lengths of the vectors that operator= copies from
  MaxClears,    \* bound on Clear and operator=
  Zero,         \* an element of a page nobody has written
  NoThread

ASSUME ConstantsAssumption ==
  /\ IsFiniteSet(Threads)
  /\ N \in Nat \ {0}
  /\ FirstTable \in Nat \ {0}
  /\ Ops \subseteq {"Insert", "EmplaceBack"}
  /\ MaxOps \in Nat
  /\ MaxClears \in Nat
  /\ Sources \subseteq Nat
  /\ NoThread \notin Threads

(* EmplaceBack takes no lock, and page_count is no atomic: where it is in use there is
   one thread. *)
ASSUME LockAssumption == "EmplaceBack" \in Ops => \A t, u \in Threads : t = u

(* A value inserted is told apart by who inserts it and how many came before. *)
Value == Threads \X Nat

NullPage == 0

VARIABLES
  (* the members of the vector *)
  mutex,        \* the thread that holds it, or NoThread
  page_table,   \* the current table: index -> page, or NullPage
  elt_count,
  capacity,
  page_count,
  (* memory *)
  pages,        \* every page allocated, in order: its N elements
  deleted,      \* the pages that were deleted
  (* the threads *)
  pc, op, ops, copying, page_idx, count, index,
  old_pages, new_table,   \* what a thread remembers while it replaces the table
  (* what the operations returned: index and value *)
  returned,
  clears

members == <<mutex, page_table, elt_count, capacity, page_count>>
memory == <<pages, deleted>>
growth == <<old_pages, new_table>>
vars == <<members, memory, pc, op, ops, copying, page_idx, count, index, growth, returned, clears>>

MaxOf(a, b) == IF a >= b THEN a ELSE b

Init ==
  /\ mutex = NoThread
  /\ page_table = <<>>
  /\ elt_count = 0 /\ capacity = 0 /\ page_count = 0
  /\ pages = <<>> /\ deleted = {}
  /\ pc = [t \in Threads |-> "idle"]
  /\ op = [t \in Threads |-> "Insert"]
  /\ ops = [t \in Threads |-> 0]
  /\ copying = [t \in Threads |-> 0]
  /\ page_idx = [t \in Threads |-> 0]
  /\ count = [t \in Threads |-> 0]
  /\ index = [t \in Threads |-> 0]
  /\ old_pages = [t \in Threads |-> 0]
  /\ new_table = [t \in Threads |-> <<>>]
  /\ returned = {}
  /\ clears = 0

(* The page in entry p of the table; an entry past its end and one of a page that was
   deleted are as bad as a null one. *)
Page(p) ==
  IF p < Len(page_table) /\ page_table[p + 1] \notin deleted THEN page_table[p + 1] ELSE NullPage

Goto(t, label) == pc' = [pc EXCEPT ![t] = label]

-----------------------------------------------------------------------------
(* The steps of an operation *)

(* Mutation of PageOf: the page of the next index. *)
PageOfNext(n) == (n + 1) \div N

PageOf(n) == n \div N

(* page_idx is computed before anything is checked or locked. *)
Start(t, o) ==
  /\ pc[t] = "idle"
  /\ ops[t] < MaxOps
  /\ copying[t] = 0 \/ o = "EmplaceBack"
  /\ op' = [op EXCEPT ![t] = o]
  /\ ops' = [ops EXCEPT ![t] = @ + 1]
  /\ copying' = [copying EXCEPT ![t] = IF @ = 0 THEN 0 ELSE @ - 1]
  /\ page_idx' = [page_idx EXCEPT ![t] = PageOf(elt_count)]
  /\ Goto(t, "count")
  /\ UNCHANGED <<members, memory, count, index, growth, returned, clears>>

ReadCount(t) ==
  /\ pc[t] = "count"
  /\ count' = [count EXCEPT ![t] = elt_count]
  /\ Goto(t, "check")
  /\ UNCHANGED <<members, memory, op, ops, copying, page_idx, index, growth, returned, clears>>

(* Mutation of Full: > for >=. *)
FullLate(n) == n > capacity

Full(n) == n >= capacity

CheckCapacity(t) ==
  /\ pc[t] = "check"
  /\ Goto(t, IF ~Full(count[t]) THEN "bump"
             ELSE IF op[t] = "Insert" THEN "lock" ELSE "grow")
  /\ UNCHANGED <<members, memory, op, ops, copying, page_idx, count, index, growth, returned, clears>>

CanLock == mutex = NoThread

Lock(t) ==
  /\ pc[t] = "lock"
  /\ CanLock
  /\ mutex' = t
  /\ Goto(t, "recheck")
  /\ UNCHANGED <<page_table, elt_count, capacity, page_count, memory, op, ops, copying,
                 page_idx, count, index, growth, returned, clears>>

(* Mutation of Unlock: the mutex stays locked. *)
StayLocked == UNCHANGED mutex

Unlock == mutex' = NoThread

(* The second check, under the mutex; page_idx is not computed again. *)
Recheck(t) ==
  /\ pc[t] = "recheck"
  /\ IF Full(elt_count)
     THEN Goto(t, "grow") /\ UNCHANGED mutex
     ELSE Goto(t, "bump") /\ Unlock
  /\ UNCHANGED <<page_table, elt_count, capacity, page_count, memory, op, ops, copying,
                 page_idx, count, index, growth, returned, clears>>

(* page_count is raised before there is a table for it. *)
RaisePageCount(t) ==
  /\ pc[t] = "grow"
  /\ IF page_idx[t] < page_count
     THEN Goto(t, "install") /\ UNCHANGED <<page_count, old_pages>>
     ELSE /\ old_pages' = [old_pages EXCEPT ![t] = page_count]
          /\ page_count' = MaxOf(FirstTable, page_count * 2)
          /\ Goto(t, "copy")
  /\ UNCHANGED <<mutex, page_table, elt_count, capacity, memory, op, ops, copying, page_idx,
                 count, index, new_table, returned, clears>>

(* Mutation of NewTable: the old table is not copied. *)
EmptyTable(old) == [i \in 1 .. page_count |-> NullPage]

NewTable(old) == [i \in 1 .. page_count |-> IF i <= old THEN page_table[i] ELSE NullPage]

(* Mutation of CopyTable: readers are led to the new table before it is filled. *)
ExchangeThenCopy(t) ==
  /\ pc[t] = "copy"
  /\ page_table' = EmptyTable(old_pages[t])
  /\ new_table' = [new_table EXCEPT ![t] = NewTable(old_pages[t])]
  /\ Goto(t, "exchange")
  /\ UNCHANGED <<mutex, elt_count, capacity, page_count, memory, op, ops, copying, page_idx,
                 count, index, old_pages, returned, clears>>

(* A new table, with the entries of the current one. *)
CopyTable(t) ==
  /\ pc[t] = "copy"
  /\ new_table' = [new_table EXCEPT ![t] = NewTable(old_pages[t])]
  /\ Goto(t, "exchange")
  /\ UNCHANGED <<members, memory, op, ops, copying, page_idx, count, index, old_pages,
                 returned, clears>>

(* From here on every reader is led to the new table; the locals end. *)
ExchangeTable(t) ==
  /\ pc[t] = "exchange"
  /\ page_table' = new_table[t]
  /\ old_pages' = [old_pages EXCEPT ![t] = 0]
  /\ new_table' = [new_table EXCEPT ![t] = <<>>]
  /\ Goto(t, "install")
  /\ UNCHANGED <<mutex, elt_count, capacity, page_count, memory, op, ops, copying, page_idx,
                 count, index, returned, clears>>

(* Table entries are numbered from 1 here, from 0 in the code.  To write past the end of
   the table is undefined: the thread is not followed any further. *)
InstallPage(t) ==
  /\ pc[t] = "install"
  /\ IF page_idx[t] < Len(page_table)
     THEN /\ pages' = Append(pages, [i \in 0 .. N - 1 |-> Zero])
          /\ page_table' = [page_table EXCEPT ![page_idx[t] + 1] = Len(pages')]
          /\ Goto(t, "raise")
     ELSE Goto(t, "wild") /\ UNCHANGED <<pages, page_table>>
  /\ UNCHANGED <<mutex, elt_count, capacity, page_count, deleted, op, ops, copying,
                 page_idx, count, index, growth, returned, clears>>

RaiseCapacity(t) ==
  /\ pc[t] = "raise"
  /\ capacity' = capacity + N
  /\ IF op[t] = "Insert" THEN Unlock ELSE UNCHANGED mutex
  /\ Goto(t, "bump")
  /\ UNCHANGED <<page_table, elt_count, page_count, memory, op, ops, copying, page_idx,
                 count, index, growth, returned, clears>>

(* Mutations of NextIndex: one less; the count that was checked. *)
IndexBelow(t) == elt_count - 1
CheckedCount(t) == count[t]

(* ++elt_count - 1, one atomic increment. *)
NextIndex(t) == elt_count

Bump(t) ==
  /\ pc[t] = "bump"
  /\ index' = [index EXCEPT ![t] = NextIndex(t)]
  /\ elt_count' = elt_count + 1
  /\ Goto(t, "write")
  /\ UNCHANGED <<mutex, page_table, capacity, page_count, memory, op, ops, copying,
                 page_idx, count, growth, returned, clears>>

(* A write through a null page, or past the end of one, is undefined: the thread is
   not followed any further. *)
Write(t) ==
  LET page == Page(page_idx[t])
      elt_index == index[t] - page_idx[t] * N
      v == <<t, ops[t]>>
  IN /\ pc[t] = "write"
     /\ IF page # NullPage /\ elt_index < N
        THEN /\ pages' = [pages EXCEPT ![page][elt_index] = v]
             /\ returned' = returned \cup {<<index[t], v>>}
             /\ Goto(t, "idle")
        ELSE Goto(t, "wild") /\ UNCHANGED <<pages, returned>>
     /\ UNCHANGED <<members, deleted, op, ops, copying, page_idx, count, index, growth,
                    clears>>

-----------------------------------------------------------------------------
(* Clear deletes the pages of the table and keeps the table.  It takes no lock: it is
   called while no other operation is under way. *)
Quiet == \A t \in Threads : pc[t] = "idle" /\ copying[t] = 0

(* Mutations of Reset: the capacity stays; the page count stays. *)
ResetCount == elt_count' = 0 /\ page_count' = 0 /\ UNCHANGED capacity
ResetElements == elt_count' = 0 /\ capacity' = 0 /\ UNCHANGED page_count

Reset == elt_count' = 0 /\ capacity' = 0 /\ page_count' = 0

ClearMembers ==
  /\ deleted' = deleted \cup ({page_table[i] : i \in 1 .. page_count} \ {NullPage})
  /\ Reset
  /\ returned' = {}
  /\ clears' = clears + 1
  /\ UNCHANGED <<mutex, page_table, pages, pc, op, ops, page_idx, count, index, growth>>

Clear == clears < MaxClears /\ Quiet /\ ClearMembers /\ UNCHANGED copying

(* operator=: Clear, then EmplaceBackNoLock for each of the n elements of the other. *)
CopyFrom(t, n) ==
  /\ clears < MaxClears
  /\ Quiet
  /\ ClearMembers
  /\ copying' = [copying EXCEPT ![t] = n]

-----------------------------------------------------------------------------

Step(t) ==
  \/ \E o \in Ops : Start(t, o)
  \/ ReadCount(t) \/ CheckCapacity(t) \/ Lock(t) \/ Recheck(t)
  \/ RaisePageCount(t) \/ CopyTable(t) \/ ExchangeTable(t)
  \/ InstallPage(t) \/ RaiseCapacity(t)
  \/ Bump(t) \/ Write(t)

Next == (\E t \in Threads : Step(t)) \/ Clear \/ (\E t \in Threads, n \in Sources : CopyFrom(t, n))

Spec == Init /\ [][Next]_vars

(* A running thread keeps running, and a mutex that is free is eventually taken. *)
Fairness == \A t \in Threads : WF_vars(pc[t] # "idle" /\ Step(t))

FairSpec == Spec /\ Fairness

-----------------------------------------------------------------------------
(* Properties *)

(* Where a thread replaces the table, and where Insert holds the mutex. *)
Replacing == {"copy", "exchange"}
Growing == {"recheck", "grow", "install", "raise"} \cup Replacing

Labels == {"idle", "count", "check", "lock", "bump", "write", "wild"} \cup Growing

(* Every variable keeps its shape. *)
TypeOK ==
  /\ mutex \in Threads \cup {NoThread}
  /\ elt_count \in Nat /\ capacity \in Nat /\ page_count \in Nat
  /\ page_table \in Seq(Nat)
  /\ pages \in Seq([0 .. N - 1 -> Value \cup {Zero}])
  /\ deleted \subseteq Nat
  /\ pc \in [Threads -> Labels]
  /\ op \in [Threads -> {"Insert", "EmplaceBack"}]
  /\ ops \in [Threads -> Nat]
  /\ copying \in [Threads -> Nat]
  /\ page_idx \in [Threads -> Nat]
  /\ count \in [Threads -> Nat]
  /\ index \in [Threads -> Nat]
  /\ old_pages \in [Threads -> Nat]
  /\ new_table \in [Threads -> Seq(Nat)]
  /\ returned \subseteq Nat \X Value
  /\ clears \in Nat

(* The element that operator[] reads. *)
Elem(i) == LET page == Page(i \div N) IN IF page = NullPage THEN Zero ELSE pages[page][i % N]

(* No two inserts are given one index, however they interleave. *)
IndicesUnique ==
  /\ \A r, s \in returned : r[1] = s[1] => r = s
  /\ \A t \in Threads : pc[t] = "write" =>
        /\ \A r \in returned : r[1] # index[t]
        /\ \A u \in Threads : pc[u] = "write" /\ index[u] = index[t] => u = t

(* elt_index = index - page_idx * N never wraps: the index a thread is given lies in
   the page it computed or behind it. *)
IndexNotBeforePage ==
  \A t \in Threads : pc[t] = "write" => index[t] >= page_idx[t] * N

(* A thread that is writing past the end of the page it computed, or did. *)
WritesWild(t) ==
  \/ pc[t] = "wild"
  \/ pc[t] = "write" /\ index[t] - page_idx[t] * N >= N

(* Threads that checked before the last free elements went exceed the capacity, each of
   them once and with a write outside its page: while no thread writes past the end of
   its page, the count is within the capacity. *)
OvershootBounded ==
  elt_count <= capacity + Cardinality({t \in Threads : WritesWild(t)})

(* Only the thread that holds the mutex changes the table, the page count and the
   capacity. *)
GrowthExclusive ==
  \A t \in Threads : op[t] = "Insert" /\ pc[t] \in Growing => mutex = t

(* Between the steps that raise the page count, copy the table, exchange it and install
   a page, a reader without a lock always finds the pages there were: until the vector
   is cleared, an entry that led to a page leads to one. *)
TableKeepsPages ==
  [][clears' = clears =>
       \A p \in 0 .. Len(page_table) - 1 : Page(p) # NullPage => Page(p)' # NullPage]_vars

(* Clear deletes a page once: unless the table is being replaced, no page that it counts
   was deleted, and what is inserted after a Clear goes to new pages. *)
TablePagesAlive ==
  (\A t \in Threads : pc[t] \notin Replacing) =>
     \A i \in 1 .. page_count : page_table[i] \notin deleted

(* stable_vector_test.cpp: ASSERT_EQ(vec[idx] , 1.0f), the element is found under the
   index that its insert returned. *)
InsertedFound ==
  \A t \in Threads : pc[t] # "wild" /\ \A r \in returned : Elem(r[1]) = r[2]

(* Every operation that starts comes to its end: the mutex is always released. *)
InsertsFinish == \A t \in Threads : pc[t] = "count" ~> pc[t] \in {"idle", "wild"}

-----------------------------------------------------------------------------
(* With one thread the vector is an append-only sequence. *)
Elems == [i \in 1 .. elt_count |-> Elem(i - 1)]

Abstract == INSTANCE AppendOnlyVector WITH elems <- Elems

AppendOnly == Abstract!Spec
=============================================================================
