---------------------------- MODULE NativeStrings ----------------------------
(***************************************************************************)
(* NString and NScopedString (hosting/native_string.cpp): a pointer to a   *)
(* block of the task allocator, which nothing counts the copies of.  An    *)
(* NString has no destructor, an NScopedString frees its block.            *)
(*                                                                         *)
(* Both overloads of NScopedString::operator= fit an NString equally well, *)
(* so no program that uses them compiles; they are left out.               *)
(***************************************************************************)
CONSTANTS
  StringVars,   \* variables of type NString or NScopedString
  Blocks,       \* blocks of memory, which the allocator hands out again
  None          \* the null pointer

ASSUME StringAssumption == None \notin Blocks

VARIABLES
  heap,       \* the blocks that are allocated
  scope,      \* variable -> "out" (of scope), "plain" (NString), "scoped" (NScopedString)
  string,     \* variable -> NString::string, None when out of scope
  shared,     \* two owners had one pointer
  corrupted   \* a block was freed twice, or read after it was freed

strVars == <<heap, scope, string, shared, corrupted>>

StringsInit ==
  /\ heap = {}
  /\ scope = [v \in StringVars |-> "out"]
  /\ string = [v \in StringVars |-> None]
  /\ shared = FALSE
  /\ corrupted = FALSE

(* A use of p, by free or by a read, goes wrong. *)
Dead(p) == p # None /\ p \notin heap

(* What NStringToCoTaskMemAuto may return once p is freed. *)
NStringToCoTaskMemAuto(p) == Blocks \ (heap \ {p})

(* NString::New, for an NString or for the initializer of an NScopedString, and the
   strings that managed code makes for native code: both use one allocator. *)
Made(v, kind) ==
  /\ scope[v] = "out"
  /\ \E b \in NStringToCoTaskMemAuto(None) :
        heap' = heap \cup {b} /\ string' = [string EXCEPT ![v] = b]
  /\ scope' = [scope EXCEPT ![v] = kind]

New(v, kind) == Made(v, kind) /\ UNCHANGED <<shared, corrupted>>

(* NString::Assign frees the block it has. *)
Assign(v) ==
  /\ scope[v] = "plain"
  /\ \E b \in NStringToCoTaskMemAuto(string[v]) :
        /\ heap' = (heap \ {string[v]}) \cup {b}
        /\ string' = [string EXCEPT ![v] = b]
  /\ corrupted' = (corrupted \/ Dead(string[v]))
  /\ UNCHANGED <<scope, shared>>

(* Mutation of Free: the pointer stays. *)
FreeOnly(v) ==
  /\ scope[v] = "plain"
  /\ heap' = heap \ {string[v]}
  /\ corrupted' = (corrupted \/ Dead(string[v]))
  /\ UNCHANGED <<scope, string, shared>>

(* NString::Free resets the variable it is given, and no copy of it. *)
Free(v) ==
  /\ scope[v] = "plain"
  /\ heap' = heap \ {string[v]}
  /\ string' = [string EXCEPT ![v] = None]
  /\ corrupted' = (corrupted \/ Dead(string[v]))
  /\ UNCHANGED <<scope, shared>>

(* A copy of an NString, NScopedString(v), or the conversion of one to NString. *)
Copy(v, w, kind) ==
  /\ scope[v] # "out" /\ scope[w] = "out"
  /\ scope' = [scope EXCEPT ![w] = kind]
  /\ string' = [string EXCEPT ![w] = string[v]]
  /\ shared' = (shared \/ string[v] # None)
  /\ UNCHANGED <<heap, corrupted>>

(* The end of a variable's scope: ~NScopedString frees, an NString is forgotten. *)
Leave(v) ==
  /\ scope[v] # "out"
  /\ IF scope[v] = "scoped"
     THEN heap' = heap \ {string[v]} /\ corrupted' = (corrupted \/ Dead(string[v]))
     ELSE UNCHANGED <<heap, corrupted>>
  /\ scope' = [scope EXCEPT ![v] = "out"]
  /\ string' = [string EXCEPT ![v] = None]
  /\ UNCHANGED shared

(* operator std::string, operator== and every reader on the managed side. *)
Read(v) ==
  /\ scope[v] # "out"
  /\ corrupted' = (corrupted \/ Dead(string[v]))
  /\ UNCHANGED <<heap, scope, string, shared>>

StringStep ==
  \/ \E v \in StringVars : Assign(v) \/ Free(v) \/ Leave(v) \/ Read(v)
  \/ \E v \in StringVars, kind \in {"plain", "scoped"} : New(v, kind)
  \/ \E v, w \in StringVars, kind \in {"plain", "scoped"} : Copy(v, w, kind)

-----------------------------------------------------------------------------
(* Properties *)

(* Every variable keeps its shape. *)
StringsTypeOK ==
  /\ heap \subseteq Blocks
  /\ scope \in [StringVars -> {"out", "plain", "scoped"}]
  /\ string \in [StringVars -> Blocks \cup {None}]
  /\ shared \in BOOLEAN /\ corrupted \in BOOLEAN

(* As long as no pointer is copied to a second owner, every string has a block of its
   own, however strings are made, assigned, freed and left to their scopes, and nothing
   is freed twice or read after it was freed. *)
StringsOwned ==
  shared \/ /\ ~corrupted
            /\ \A v \in StringVars : string[v] # None =>
                  string[v] \in heap /\ \A w \in StringVars \ {v} : string[w] # string[v]
=============================================================================
