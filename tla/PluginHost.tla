----------------------------- MODULE PluginHost -----------------------------
(***************************************************************************)
(* What the context manager promises an application whose plugins have     *)
(* names of their own: a context is the home of the objects of its types,  *)
(* and an object lives until its home is closed or, if only a weak handle  *)
(* refers to it, until a collection.  Closing a home ends the objects that *)
(* live there and no others.                                               *)
(***************************************************************************)
CONSTANTS
  Homes, Framework,   \* the contexts, and the one that is never closed
  Objects, None

VARIABLES
  open,      \* the contexts that are open
  held,      \* contexts that an assembly of some context refers to
  home,      \* object -> where its type is defined, or None before it exists
  weak,      \* objects with a weak handle
  alive,
  isolated   \* the promise holds as long as this does

vars == <<open, held, home, weak, alive, isolated>>

Init ==
  /\ open = {} /\ held = {} /\ weak = {} /\ alive = {}
  /\ home = [o \in Objects |-> None]
  /\ isolated = TRUE

(* A new context is nobody's home. *)
Open(h) ==
  /\ h \notin open \cup held
  /\ \A o \in Objects : home[o] # h
  /\ open' = open \cup {h}
  /\ UNCHANGED <<held, home, weak, alive>>

Refer(h) ==
  /\ h \in open \cup {Framework}
  /\ held' = held \cup {h}
  /\ UNCHANGED <<open, home, weak, alive>>

(* Objects appear in open contexts and in those that a reference still leads to. *)
Create(o, h) ==
  /\ home[o] = None
  /\ h \in open \cup held \cup {Framework}
  /\ home' = [home EXCEPT ![o] = h]
  /\ weak' \in {weak, weak \cup {o}}
  /\ alive' = alive \cup {o}
  /\ UNCHANGED <<open, held>>

Collect(o) ==
  /\ o \in weak
  /\ alive' = alive \ {o}
  /\ UNCHANGED <<open, held, home, weak>>

Close(h) ==
  /\ h \in open
  /\ open' = open \ {h}
  /\ alive' = {o \in alive : home[o] # h}
  /\ UNCHANGED <<held, home, weak>>

Step ==
  \/ \E h \in Homes : Open(h) \/ Close(h)
  \/ \E h \in Homes \cup {Framework} : Refer(h) \/ \E o \in Objects : Create(o, h)
  \/ \E o \in Objects : Collect(o)

Next == isolated' => isolated /\ (Step \/ UNCHANGED <<open, held, home, weak, alive>>)

Spec == Init /\ [][Next]_vars
=============================================================================
