---------------------------- MODULE IsolationProofs ----------------------------
(* Contexts that share no assembly name do not disturb each other, for every set of
   names, hash function, number of contexts, slots and objects. *)
EXTENDS AssemblyLoaderProofs

(* A context that does not exist yet has no assemblies. *)
FreshContextsEmpty == \A a \in Alcs \ created : loaded[a] = {}

(* Handles are recorded for names that some context loaded. *)
HandlesOfLoaded ==
  \A i \in Ids : handles[i] # {} =>
     \E a \in Alcs \cup {Default} : \E n \in loaded[a] : Hash[n] = i

(* The list that an unload walks has only live handles, of the type that it is for. *)
HandlesOwned ==
  \A a \in LoadedContexts : \A n \in loaded[a] : \A s \in handles[Hash[n]] :
     /\ gc_handles[s] # None
     /\ objects[gc_handles[s]].type = [alc |-> a, name |-> n]

IsolationInv ==
  /\ FreshContextsEmpty
  /\ HandlesOfLoaded
  /\ OneContextPerName => HandlesOwned /\ HostedObjectExists

(* Before anything is loaded there are neither handles nor objects. *)
LEMMA IsolationInit == Init => IsolationInv
<1> SUFFICES ASSUME Init PROVE IsolationInv
  OBVIOUS
<1> USE DEF Init
<1>1. LoadedContexts = {}
  BY DEF LoadedContexts
<1>2. FreshContextsEmpty
  BY Fresh DEF FreshContextsEmpty
<1> QED
  BY <1>1, <1>2 DEF IsolationInv, HandlesOfLoaded, HandlesOwned, HostedObjectExists

(* What steps that leave contexts, handles and objects alone must keep. *)
LEMMA QuietSteps ==
  ASSUME IsolationInv,
         UNCHANGED <<contexts, handles, created, loaded, gc_handles, objects, destroyed>>
  PROVE  IsolationInv'
<1>1. UNCHANGED LoadedContexts
  BY DEF LoadedContexts
<1> QED
  BY <1>1 DEF IsolationInv, FreshContextsEmpty, HandlesOfLoaded, HandlesOwned,
              HostedObjectExists, OneContextPerName

(* A new context has no assemblies, and no type of it was there before. *)
LEMMA IsolatedCreateAsmContext ==
  ASSUME IInv, IsolationInv, NEW v \in CtxVars, NEW n \in CtxNames, NEW a \in Alcs,
         CreateAsmContext(v, n, a)
  PROVE  IsolationInv'
<1> USE DEF CreateAsmContext
<1>1. loaded[a] = {} /\ LoadedContexts' \subseteq LoadedContexts \cup {a}
  BY Hashes DEF IsolationInv, FreshContextsEmpty, LoadedContexts, IInv, TypeOK
<1>2. FreshContextsEmpty' /\ HandlesOfLoaded'
  BY DEF IsolationInv, FreshContextsEmpty, HandlesOfLoaded
<1>3. UNCHANGED <<OneContextPerName, loaded, handles, objects, gc_handles, destroyed>>
  BY DEF OneContextPerName, objectVars
<1>4. HandlesOwned => HandlesOwned'
  <2> HIDE DEF CreateAsmContext
  <2> SUFFICES ASSUME HandlesOwned, NEW b \in LoadedContexts', NEW m \in loaded'[b],
                      NEW s \in handles'[Hash[m]]
               PROVE  /\ gc_handles'[s] # None
                      /\ objects'[gc_handles'[s]].type = [alc |-> b, name |-> m]
    BY DEF HandlesOwned
  <2>1. b \in LoadedContexts /\ m \in loaded[b] /\ s \in handles[Hash[m]]
    BY <1>1, <1>3
  <2>2. gc_handles[s] # None /\ objects[gc_handles[s]].type = [alc |-> b, name |-> m]
    BY <2>1 DEF HandlesOwned
  <2> QED
    BY <1>3, <2>2
<1>5. ASSUME NEW o \in Objects, objects[o] # None PROVE objects[o].type.alc # a
  <2>1. objects[o].type.name \in loaded[objects[o].type.alc]
    BY <1>5 DEF IInv, KnownTypesLoaded
  <2> QED
    BY <1>1, <2>1
<1>6. HostedObjectExists => HostedObjectExists'
  BY <1>1, <1>3, <1>5 DEF HostedObjectExists
<1> QED
  BY <1>2, <1>3, <1>4, <1>6 DEF IsolationInv

(* The unload of a context frees only what HandlesOwned says is its own. *)
LEMMA IsolatedUnload ==
  ASSUME IInv, IsolationInv, NEW v \in CtxVars, UnloadAssemblyContext(v)
  PROVE  IsolationInv'
<1> DEFINE id == asm_contexts[v].context_id
           a == contexts[id]
<1> USE DEF UnloadAssemblyContext, UnloadAssemblyLoadContext, runtimeVars
<1>1. /\ id \in Ids
      /\ a \in LoadedContexts
      /\ a # Default
  BY Fresh DEF IInv, TypeOK, AsmContext, LoadedContexts
<1>2. LoadedContexts' \subseteq LoadedContexts \ {a}
  BY <1>1 DEF LoadedContexts, IInv, TypeOK, ContextsDistinct
<1>3. FreshContextsEmpty' /\ HandlesOfLoaded'
  BY DEF IsolationInv, FreshContextsEmpty, HandlesOfLoaded
<1>4. UNCHANGED <<OneContextPerName, loaded, handles, objects, destroyed>>
  BY DEF OneContextPerName
<1> SUFFICES ASSUME OneContextPerName PROVE HandlesOwned' /\ HostedObjectExists'
  BY <1>3, <1>4 DEF IsolationInv
<1>5. HandlesOwned /\ HostedObjectExists
  BY DEF IsolationInv
<1>6. \A s \in Slots : s \in FreedByUnload(a) =>
         gc_handles[s] # None /\ objects[gc_handles[s]].type.alc = a
  <2> SUFFICES ASSUME NEW s \in Slots, s \in FreedByUnload(a)
               PROVE  gc_handles[s] # None /\ objects[gc_handles[s]].type.alc = a
    OBVIOUS
  <2>1. PICK n \in loaded[a] : s \in handles[Hash[n]]
    BY DEF FreedByUnload
  <2>2. gc_handles[s] # None /\ objects[gc_handles[s]].type = [alc |-> a, name |-> n]
    BY <1>1, <1>5, <2>1 DEF HandlesOwned
  <2> QED
    BY <2>2
<1>7. \A s \in Slots :
         gc_handles[s] # None /\ objects[gc_handles[s]].type.alc # a
           => gc_handles'[s] = gc_handles[s]
  BY <1>6
<1>8. HandlesOwned'
  <2> SUFFICES ASSUME NEW b \in LoadedContexts', NEW n \in loaded'[b],
                      NEW s \in handles'[Hash[n]]
               PROVE  /\ gc_handles'[s] # None
                      /\ objects'[gc_handles'[s]].type = [alc |-> b, name |-> n]
    BY DEF HandlesOwned
  <2>1. b \in LoadedContexts /\ b # a
    BY <1>2
  <2>2. gc_handles[s] # None /\ objects[gc_handles[s]].type = [alc |-> b, name |-> n]
    BY <1>4, <1>5, <2>1 DEF HandlesOwned
  <2>3. s \in Slots
    <3>1. n \in Names
      BY <1>4, <2>1 DEF IInv, TypeOK, LoadedContexts
    <3> QED
      BY <1>4, <3>1, Hashes DEF IInv, TypeOK
  <2>4. objects[gc_handles[s]].type.alc = b
    BY <2>2
  <2>5. gc_handles'[s] = gc_handles[s]
    BY <1>7, <2>1, <2>2, <2>3, <2>4
  <2> QED
    BY <1>4, <2>2, <2>5
<1>9. HostedObjectExists'
  <2> SUFFICES ASSUME NEW o \in Objects, objects[o] # None, ~objects[o].weak,
                      objects[o].type.alc \in LoadedContexts' \cup {Default}
               PROVE  gc_handles'[objects[o].handle] = o
    BY <1>4 DEF HostedObjectExists
  <2>1. gc_handles[objects[o].handle] = o /\ objects[o].type.alc # a
    BY <1>1, <1>2, <1>5 DEF HostedObjectExists, OneContextPerName
  <2>2. objects[o].handle \in Slots /\ o # None
    BY Fresh DEF IInv, TypeOK, HostedObject
  <2> QED
    BY <1>7, <2>1, <2>2
<1> QED
  BY <1>8, <1>9

(* A load, failed or not, brings a name whose list is still empty. *)
LEMMA IsolatedLoad ==
  ASSUME IInv, IsolationInv,
         NEW c \in LoadedContexts, NEW n \in Names, n \notin loaded[c],
         loaded' = [loaded EXCEPT ![c] = @ \cup {n}],
         UNCHANGED <<contexts, handles, created, gc_handles, objects, destroyed>>
  PROVE  IsolationInv'
<1>1. c \in Alcs /\ c \in created /\ UNCHANGED LoadedContexts
  BY DEF IInv, ContextsDistinct, TypeOK, LoadedContexts
<1>2. \A a \in Alcs \cup {Default} :
         loaded'[a] = IF a = c THEN loaded[c] \cup {n} ELSE loaded[a]
  BY <1>1 DEF IInv, TypeOK
<1>3. FreshContextsEmpty'
  BY <1>1, <1>2 DEF IsolationInv, FreshContextsEmpty
<1>4. HandlesOfLoaded'
  BY <1>1, <1>2 DEF IsolationInv, HandlesOfLoaded
<1> SUFFICES ASSUME OneContextPerName' PROVE HandlesOwned' /\ HostedObjectExists'
  BY <1>3, <1>4 DEF IsolationInv
<1>5. OneContextPerName
  BY <1>2 DEF OneContextPerName
<1>6. HandlesOwned /\ HostedObjectExists
  BY <1>5 DEF IsolationInv
<1>7. handles[Hash[n]] = {}
  <2>1. SUFFICES ASSUME handles[Hash[n]] # {} PROVE FALSE
    OBVIOUS
  <2>2. PICK a \in Alcs \cup {Default} : \E m \in loaded[a] : Hash[m] = Hash[n]
    BY <2>1, Hashes DEF IsolationInv, HandlesOfLoaded
  <2>3. PICK m \in loaded[a] : Hash[m] = Hash[n]
    BY <2>2
  <2>4. m = n /\ a = c
    BY <1>1, <1>2, <2>3 DEF OneContextPerName
  <2> QED
    BY <2>3, <2>4
<1>8. HandlesOwned'
  <2> SUFFICES ASSUME NEW b \in LoadedContexts', NEW m \in loaded'[b],
                      NEW s \in handles'[Hash[m]]
               PROVE  /\ gc_handles'[s] # None
                      /\ objects'[gc_handles'[s]].type = [alc |-> b, name |-> m]
    BY DEF HandlesOwned
  <2>1. m \in loaded[b] /\ b \in LoadedContexts
    BY <1>1, <1>2, <1>7 DEF LoadedContexts, IInv, TypeOK
  <2> QED
    BY <1>6, <2>1 DEF HandlesOwned
<1>9. HostedObjectExists'
  BY <1>1, <1>6 DEF HostedObjectExists
<1> QED
  BY <1>8, <1>9

(* A new object gets a slot that is free, and so in no list of a loaded context, and the
   slot enters the list of the object's own type. *)
LEMMA IsolatedCreateObject ==
  ASSUME IInv, IsolationInv, NEW t \in Assembly, NEW weak \in BOOLEAN,
         NEW o \in Objects, NEW s \in Slots, CreateObject(t, weak, o, s)
  PROVE  IsolationInv'
<1> USE DEF CreateObject, RegisterHandle, runtimeVars
<1>1. t.name \in loaded[t.alc] /\ t.alc \in Alcs \cup {Default} /\ t.name \in Names
  BY DEF IInv, KnownTypesLoaded, Assembly
<1>2. Hash[t.name] \in Ids
  BY <1>1, Hashes
<1>3. \A i \in Ids : handles'[i] = IF i = Hash[t.name] THEN handles[i] \cup {s}
                                   ELSE handles[i]
  BY <1>2 DEF IInv, TypeOK
<1>4. FreshContextsEmpty' /\ HandlesOfLoaded'
  <2>1. FreshContextsEmpty'
    BY DEF IsolationInv, FreshContextsEmpty
  <2>2. HandlesOfLoaded'
    BY <1>1, <1>3 DEF IsolationInv, HandlesOfLoaded
  <2> QED
    BY <2>1, <2>2
<1>5. OneContextPerName' = OneContextPerName /\ LoadedContexts' = LoadedContexts
  BY DEF OneContextPerName, LoadedContexts
<1> SUFFICES ASSUME OneContextPerName PROVE HandlesOwned' /\ HostedObjectExists'
  BY <1>4, <1>5 DEF IsolationInv
<1>6. HandlesOwned /\ HostedObjectExists
  BY DEF IsolationInv
<1>7. /\ gc_handles'[s] = o /\ o # None
      /\ objects'[o].type = t /\ objects'[o].handle = s
  BY Fresh DEF IInv, TypeOK
<1>8. HandlesOwned'
  <2> SUFFICES ASSUME NEW b \in LoadedContexts', NEW m \in loaded'[b],
                      NEW r \in handles'[Hash[m]]
               PROVE  /\ gc_handles'[r] # None
                      /\ objects'[gc_handles'[r]].type = [alc |-> b, name |-> m]
    BY DEF HandlesOwned
  <2>1. /\ b \in LoadedContexts /\ b \in Alcs /\ m \in loaded[b] /\ m \in Names
        /\ Hash[m] \in Ids
    BY <1>5, Hashes DEF LoadedContexts, IInv, TypeOK
  <2>2. CASE r \in handles[Hash[m]]
    <3>1. /\ gc_handles[r] # None
          /\ objects[gc_handles[r]].type = [alc |-> b, name |-> m]
      BY <1>6, <2>1, <2>2 DEF HandlesOwned
    <3>2. r \in Slots /\ r # s
      BY <2>1, <2>2, <3>1 DEF IInv, TypeOK
    <3>3. gc_handles'[r] = gc_handles[r] /\ gc_handles[r] # o
      BY <3>1, <3>2 DEF IInv, HandlesRecorded
    <3>4. objects'[gc_handles[r]] = objects[gc_handles[r]]
      BY <3>1, <3>2, <3>3 DEF IInv, TypeOK
    <3> QED
      BY <3>1, <3>3, <3>4
  <2>3. CASE r \notin handles[Hash[m]]
    <3>1. r = s /\ Hash[m] = Hash[t.name]
      BY <1>3, <2>1, <2>3
    <3>2. m = t.name /\ b = t.alc
      BY <1>1, <2>1, <3>1 DEF OneContextPerName
    <3>3. t = [alc |-> b, name |-> m]
      BY <3>2 DEF Assembly
    <3> QED
      BY <1>7, <3>1, <3>3
  <2> QED
    BY <2>2, <2>3
<1>9. HostedObjectExists'
  <2> SUFFICES ASSUME NEW p \in Objects, objects'[p] # None, ~objects'[p].weak,
                      objects'[p].type.alc \in LoadedContexts \cup {Default}
               PROVE  gc_handles'[objects'[p].handle] = p
    BY <1>5 DEF HostedObjectExists
  <2>1. CASE p = o
    BY <1>7, <2>1
  <2>2. CASE p # o
    <3>1. objects'[p] = objects[p]
      BY <2>2 DEF IInv, TypeOK
    <3>2. gc_handles[objects[p].handle] = p
      BY <1>6, <3>1 DEF HostedObjectExists, OneContextPerName
    <3>3. objects[p].handle \in Slots /\ objects[p].handle # s
      BY <3>1, <3>2, Fresh DEF IInv, TypeOK, HostedObject
    <3> QED
      BY <3>1, <3>2, <3>3 DEF IInv, TypeOK
  <2> QED
    BY <2>1, <2>2
<1> QED
  BY <1>8, <1>9

(* Destroying an object by hand ends the discipline. *)
LEMMA IsolatedDestroy ==
  ASSUME IInv, IsolationInv, NEW o \in Objects, DestroyObject(o) \/ DestroyFreedHandle(o)
  PROVE  IsolationInv'
BY DEF DestroyObject, DestroyFreedHandle, IsolationInv, FreshContextsEmpty, HandlesOfLoaded,
       OneContextPerName, loaderVars, runtimeVars

(* Every step keeps the invariant. *)
LEMMA IsolationNext == IInv /\ IsolationInv /\ [Next]_vars => IsolationInv'
<1> SUFFICES ASSUME IInv, IsolationInv, [Next]_vars PROVE IsolationInv'
  OBVIOUS
<1> USE DEF loaderVars, runtimeVars, objectVars
<1>1. ASSUME NEW v \in CtxVars, ContextStep(v) PROVE IsolationInv'
  <2>1. ASSUME NEW n \in CtxNames, NEW a \in Alcs, CreateAsmContext(v, n, a)
        PROVE  IsolationInv'
    BY <2>1, IsolatedCreateAsmContext
  <2>2. ASSUME NEW n \in CtxNames, CreateDuplicateContext(v, n) PROVE IsolationInv'
    BY <2>2, QuietSteps DEF CreateDuplicateContext
  <2>3. CASE UnloadAssemblyContext(v)
    BY <2>3, IsolatedUnload
  <2>4. ASSUME NEW n \in AsmNames, LoadAssemblyNameTaken(v, n) \/ LoadAssembly(v, n)
        PROVE  IsolationInv'
    <3> DEFINE c == contexts[asm_contexts[v].context_id]
    <3>1. asm_contexts[v].context_id \in Ids /\ contexts[asm_contexts[v].context_id] # None
      BY <2>4 DEF LoadAssemblyNameTaken, LoadAssembly, IInv, TypeOK, AsmContext,
                  NativeContextsAgree
    <3>2. c \in LoadedContexts /\ n \in Names
      BY <3>1 DEF LoadedContexts, Names
    <3>3. /\ n \notin loaded[c]
          /\ loaded' = [loaded EXCEPT ![c] = @ \cup {n}]
          /\ UNCHANGED <<contexts, handles, created, gc_handles, objects, destroyed>>
      BY <2>4 DEF LoadAssemblyNameTaken, LoadAssembly
    <3> QED
      BY <3>2, <3>3, IsolatedLoad
  <2> QED
    BY <1>1, <2>1, <2>2, <2>3, <2>4 DEF ContextStep
<1>2. CASE TypeStep
  BY <1>2, QuietSteps DEF TypeStep, BindReference, GetTypeId, MemberType
<1>3. CASE ObjectStep
  <2>1. ASSUME NEW t \in Assembly, NEW weak \in BOOLEAN, NEW o \in Objects,
               NEW s \in Slots, CreateObject(t, weak, o, s)
        PROVE  IsolationInv'
    BY <2>1, IsolatedCreateObject
  <2>2. ASSUME NEW o \in Objects, DestroyObject(o) \/ DestroyFreedHandle(o)
        PROVE  IsolationInv'
    BY <2>2, IsolatedDestroy
  <2>3. ASSUME NEW o \in Objects, CollectObject(o) PROVE IsolationInv'
    BY <2>3, QuietSteps DEF CollectObject
  <2> QED
    BY <1>3, <2>1, <2>2, <2>3 DEF ObjectStep
<1>4. CASE UNCHANGED vars
  BY <1>4, QuietSteps DEF vars
<1> QED
  BY <1>1, <1>2, <1>3, <1>4 DEF Next

(* As long as no assembly name reaches two contexts and handles are left to the unload,
   the unload of a context never frees the handle of another context's object. *)
THEOREM ContextsAreIsolated == Spec => []IsolatedObjectsExist
<1>1. IsolationInv => IsolatedObjectsExist
  BY DEF IsolationInv, IsolatedObjectsExist
<1> QED
  BY <1>1, Invariance, IsolationInit, IsolationNext, PTL DEF Spec

-----------------------------------------------------------------------------
(* The refinement of PluginHost *)

(* Only objects that were made are collected. *)
CollectedWereMade == \A o \in collected : objects[o] # None

(* Nothing was collected before the first object, and nothing unmakes one. *)
LEMMA CollectedInit == Init => CollectedWereMade
BY DEF Init, CollectedWereMade

LEMMA CollectedNext == IInv /\ CollectedWereMade /\ [Next]_vars => CollectedWereMade'
<1> SUFFICES ASSUME IInv, CollectedWereMade, [Next]_vars PROVE CollectedWereMade'
  OBVIOUS
<1>1. CASE UNCHANGED <<collected, objects>>
  BY <1>1 DEF CollectedWereMade
<1>2. ASSUME NEW t \in Assembly, NEW weak \in BOOLEAN, NEW o \in Objects, NEW s \in Slots,
             CreateObject(t, weak, o, s)
      PROVE  CollectedWereMade'
  <2>1. collected' = collected /\ \A p \in Objects \ {o} : objects'[p] = objects[p]
    BY <1>2 DEF CreateObject, IInv, TypeOK
  <2>2. o \notin collected
    BY <1>2 DEF CreateObject, CollectedWereMade
  <2> QED
    BY <2>1, <2>2 DEF CollectedWereMade, IInv, TypeOK
<1>3. ASSUME NEW o \in Objects, CollectObject(o) PROVE CollectedWereMade'
  BY <1>3 DEF CollectObject, CollectedWereMade
<1>4. ASSUME NEW o \in Objects, DestroyObject(o) \/ DestroyFreedHandle(o)
      PROVE  CollectedWereMade'
  BY <1>1, <1>4 DEF DestroyObject, DestroyFreedHandle
<1>5. CASE (\E v \in CtxVars : ContextStep(v)) \/ TypeStep
  <2>1. CASE \E v \in CtxVars : ContextStep(v)
    BY <1>1, <2>1 DEF ContextStep, CreateAsmContext, CreateDuplicateContext, UnloadAssemblyContext,
       LoadAssemblyNameTaken, LoadAssembly, objectVars
  <2>2. CASE TypeStep
    BY <1>1, <2>2 DEF TypeStep, BindReference, GetTypeId, MemberType, objectVars
  <2> QED
    BY <1>5, <2>1, <2>2
<1> QED
  BY <1>1, <1>2, <1>3, <1>4, <1>5 DEF Next, ObjectStep, vars, objectVars

(* What the application sees is typed, and an object that is there was made. *)
LEMMA LiveObjectsMade ==
  ASSUME IInv
  PROVE  /\ \A o \in LiveObjects : /\ o \in Objects \ collected /\ objects[o] # None
                                   /\ gc_handles[objects[o].handle] = o
                                   /\ objects[o].handle \in Slots
         /\ \A s \in Slots : gc_handles[s] \notin collected \cup {None}
                              => gc_handles[s] \in LiveObjects
<1>1. ASSUME NEW o \in LiveObjects
      PROVE  /\ o \in Objects \ collected /\ objects[o] # None
             /\ gc_handles[objects[o].handle] = o
             /\ objects[o].handle \in Slots
  <2>1. PICK s \in Slots : o = Target(s) /\ o # None
    BY DEF LiveObjects
  <2>2. gc_handles[s] = o /\ o \in Objects \ collected
    BY <2>1 DEF Target, IInv, TypeOK
  <2> QED
    BY <2>1, <2>2 DEF IInv, HandlesRecorded
<1>2. \A s \in Slots : gc_handles[s] \notin collected \cup {None} => gc_handles[s] \in LiveObjects
  BY DEF LiveObjects, Target
<1> QED
  BY <1>1, <1>2

(* What the application sees comes from these variables. *)
LEMMA ViewKept ==
  /\ UNCHANGED contexts => UNCHANGED LoadedContexts
  /\ UNCHANGED bound => UNCHANGED HeldContexts
  /\ UNCHANGED objects => UNCHANGED <<HomeOf, WeakObjects>>
  /\ UNCHANGED <<gc_handles, collected>> => UNCHANGED LiveObjects
BY DEF LoadedContexts, HeldContexts, HomeOf, WeakObjects, LiveObjects, Target

(* Host::CreateAsmContext opens a home that nobody was or referred to. *)
LEMMA OpensHome ==
  ASSUME IInv, IsolationInv, NEW v \in CtxVars, NEW n \in CtxNames, NEW a \in Alcs,
         CreateAsmContext(v, n, a)
  PROVE  Plugins!Open(a)
<1> USE DEF CreateAsmContext
<1>1. loaded[a] = {} /\ a # None
  BY Fresh DEF IsolationInv, FreshContextsEmpty
<1>2. a \notin LoadedContexts \cup HeldContexts
  BY <1>1 DEF HeldContexts, IInv, KnownTypesLoaded, ContextsDistinct
<1>3. \A o \in Objects : HomeOf[o] # a
  BY <1>1 DEF HomeOf, IInv, KnownTypesLoaded
<1>4. LoadedContexts' = LoadedContexts \cup {a}
  <2>1. Hash[n] \in Ids /\ contexts[Hash[n]] = None
    BY Hashes DEF FreeId
  <2>2. \A i \in Ids : contexts'[i] = IF i = Hash[n] THEN a ELSE contexts[i]
    BY <2>1 DEF IInv, TypeOK
  <2> QED
    BY <1>1, <2>1, <2>2 DEF LoadedContexts
<1> QED
  BY <1>2, <1>3, <1>4, ViewKept DEF Plugins!Open, objectVars

(* What the unload of a context frees is of the context, as long as names are. *)
LEMMA FreedAreOwn ==
  ASSUME IInv, HandlesOwned, NEW a \in LoadedContexts, NEW s \in Slots
  PROVE  s \in FreedByUnload(a) <=> /\ Target(s) # None
                                    /\ objects[Target(s)].type.alc = a
<1>1. ASSUME s \in FreedByUnload(a)
      PROVE  Target(s) # None /\ objects[Target(s)].type.alc = a
  <2>1. PICK n \in loaded[a] : s \in handles[Hash[n]]
    BY <1>1 DEF FreedByUnload
  <2>2. objects[gc_handles[s]].type = [alc |-> a, name |-> n]
    BY <2>1 DEF HandlesOwned
  <2> QED
    BY <1>1, <2>2 DEF FreedByUnload, Target
<1>2. ASSUME Target(s) # None, objects[Target(s)].type.alc = a
      PROVE  s \in FreedByUnload(a)
  <2> DEFINE o == gc_handles[s]
  <2>1. o # None /\ o = Target(s) /\ o \in Objects
    BY <1>2 DEF Target, IInv, TypeOK
  <2>2. objects[o] # None /\ s \in handles[Hash[objects[o].type.name]]
    BY <2>1 DEF IInv, HandlesRecorded
  <2>3. objects[o].type.name \in loaded[a]
    BY <1>2, <2>1, <2>2 DEF IInv, KnownTypesLoaded
  <2> QED
    BY <1>2, <2>2, <2>3 DEF FreedByUnload
<1> QED
  BY <1>1, <1>2

(* Host::UnloadAssemblyContext closes the home of the objects of its types, and ends these
   and no others. *)
LEMMA ClosesHome ==
  ASSUME IInv, IsolationInv, OneContextPerName, NEW v \in CtxVars, UnloadAssemblyContext(v)
  PROVE  \E a \in Alcs : Plugins!Close(a)
<1> DEFINE id == asm_contexts[v].context_id
           a == contexts[id]
<1>1. /\ id \in Ids /\ a # None /\ a \in Alcs /\ a \in LoadedContexts
  BY DEF UnloadAssemblyContext, IInv, TypeOK, AsmContext, LoadedContexts
<1>2. /\ contexts' = [contexts EXCEPT ![id] = None]
      /\ gc_handles' = [s \in Slots |-> IF s \in FreedByUnload(a) THEN None ELSE gc_handles[s]]
      /\ UNCHANGED <<bound, objects, collected>>
  BY DEF UnloadAssemblyContext, UnloadAssemblyLoadContext, runtimeVars
<1>3. LoadedContexts' = LoadedContexts \ {a}
  <2>1. \A i \in Ids : contexts'[i] = IF i = id THEN None ELSE contexts[i]
    BY <1>1, <1>2 DEF IInv, TypeOK
  <2>2. \A i \in Ids : contexts[i] = a => i = id
    BY <1>1 DEF IInv, ContextsDistinct
  <2> QED
    BY <1>1, <2>1, <2>2 DEF LoadedContexts
<1>4. \A s \in Slots : s \in FreedByUnload(a) <=> /\ Target(s) # None
                                                /\ objects[Target(s)].type.alc = a
  BY <1>1, FreedAreOwn DEF IsolationInv
<1>5. \A s \in Slots :
         Target(s)' = IF Target(s) # None /\ objects[Target(s)].type.alc = a
                      THEN None ELSE Target(s)
  <2> SUFFICES ASSUME NEW s \in Slots
               PROVE  Target(s)' = IF Target(s) # None /\ objects[Target(s)].type.alc = a
                                   THEN None ELSE Target(s)
    OBVIOUS
  <2>1. gc_handles'[s] = IF s \in FreedByUnload(a) THEN None ELSE gc_handles[s]
    BY <1>2
  <2>2. None \notin collected
    BY Fresh DEF IInv, TypeOK
  <2>3. CASE s \in FreedByUnload(a)
    BY <1>2, <1>4, <2>1, <2>2, <2>3 DEF Target
  <2>4. CASE s \notin FreedByUnload(a)
    BY <1>2, <1>4, <2>1, <2>4 DEF Target
  <2> QED
    BY <2>3, <2>4
<1> HIDE DEF a
<1>6. \A o \in LiveObjects : HomeOf[o] = objects[o].type.alc
  BY LiveObjectsMade DEF HomeOf
<1>7. LiveObjects' = {o \in LiveObjects : HomeOf[o] # a}
  <2>1. ASSUME NEW o \in LiveObjects' PROVE o \in LiveObjects /\ HomeOf[o] # a
    <3>1. PICK s \in Slots : o = Target(s)' /\ o # None
      BY DEF LiveObjects
    <3>2. o = Target(s) /\ objects[o].type.alc # a
      BY <1>5, <3>1
    <3> QED
      BY <1>6, <3>1, <3>2 DEF LiveObjects
  <2>2. ASSUME NEW o \in LiveObjects, HomeOf[o] # a PROVE o \in LiveObjects'
    <3>1. PICK s \in Slots : o = Target(s) /\ o # None
      BY DEF LiveObjects
    <3>2. Target(s)' = o
      BY <1>5, <1>6, <2>2, <3>1
    <3> QED
      BY <3>1, <3>2 DEF LiveObjects
  <2> QED
    BY <2>1, <2>2
<1> QED
  BY <1>1, <1>2, <1>3, <1>7, ViewKept DEF Plugins!Close

(* A reference is bound to an assembly of an open context or of the framework. *)
LEMMA RefersToHome ==
  ASSUME IInv, NEW x \in Assembly, NEW n \in Names, NEW y \in Assembly, BindReference(x, n, y)
  PROVE  \E h \in Alcs \cup {Default} : Plugins!Refer(h)
<1> USE DEF BindReference
<1>1. y.alc \in LoadedContexts \cup {Default} /\ y.alc \in Alcs \cup {Default}
  <2>1. CASE n \in loaded[x.alc]
    BY <2>1 DEF Assembly
  <2>2. CASE n \notin loaded[x.alc]
    BY <2>2, ResolvedIsRegistered DEF IInv, Assembly
  <2> QED
    BY <2>1, <2>2
<1>2. HeldContexts' = HeldContexts \cup {y.alc}
  <2>1. bound' = bound \cup {<<x, y>>} /\ <<x, y>>[2] = y
    OBVIOUS
  <2>2. \A e \in bound' : e \in bound \/ e[2] = y
    BY <2>1
  <2>3. y.alc \in HeldContexts'
    BY <2>1 DEF HeldContexts
  <2> QED
    BY <2>1, <2>2, <2>3 DEF HeldContexts
<1> QED
  BY <1>1, <1>2, ViewKept DEF Plugins!Refer, objectVars

(* An object is made in a home that is open or that a reference leads to. *)
LEMMA CreatesObject ==
  ASSUME IInv, CollectedWereMade, NEW t \in Assembly, NEW weak \in BOOLEAN,
         NEW o \in Objects, NEW s \in Slots, CreateObject(t, weak, o, s)
  PROVE  \E h \in Alcs \cup {Default} : Plugins!Create(o, h)
<1> USE DEF CreateObject
<1>1. t.alc \in LoadedContexts \cup HeldContexts \cup {Default} /\ t.alc \in Alcs \cup {Default}
  <2>1. Anchored(t)
    BY DEF IInv, AcceptedTypesAnchored
  <2>2. Rooted(t) \/ HeldFromOutside(t.alc)
    BY <2>1, AnchoredIsHeld DEF IInv, TypeOK
  <2>3. HeldFromOutside(t.alc) => t.alc \in HeldContexts
    BY DEF HeldFromOutside, HeldContexts
  <2>4. t.alc \in Alcs \cup {Default}
    BY DEF Assembly
  <2> QED
    BY <2>2, <2>3, <2>4 DEF Rooted
<1>2. /\ objects' = [objects EXCEPT ![o] = [type |-> t, weak |-> weak, handle |-> s]]
      /\ objects \in [Objects -> HostedObject \cup {None}]
      /\ [type |-> t, weak |-> weak, handle |-> s] # None
  BY Fresh DEF IInv, TypeOK, HostedObject
<1>a. \A p \in Objects :
         objects'[p] = IF p = o THEN [type |-> t, weak |-> weak, handle |-> s] ELSE objects[p]
  BY <1>2
<1>3. HomeOf[o] = None /\ HomeOf' = [HomeOf EXCEPT ![o] = t.alc]
  <2> DEFINE r == [type |-> t, weak |-> weak, handle |-> s]
  <2>1. objects[o] = None /\ r # None /\ r.type = t
    BY <1>2
  <2> HIDE DEF r
  <2>2. \A p \in Objects : HomeOf'[p] = IF p = o THEN t.alc ELSE HomeOf[p]
    BY <1>a, <2>1 DEF HomeOf, r
  <2> QED
    BY <2>1, <2>2 DEF HomeOf
<1>4. WeakObjects' \in {WeakObjects, WeakObjects \cup {o}}
  <2>1. objects[o] = None
    OBVIOUS
  <2>2. \A p \in Objects : p \in WeakObjects' <=> (p \in WeakObjects \/ (p = o /\ weak))
    <3> DEFINE r == [type |-> t, weak |-> weak, handle |-> s]
    <3>1. r # None /\ r.weak = weak
      BY <1>2
    <3>2. \A p \in Objects : objects'[p] = IF p = o THEN r ELSE objects[p]
      BY <1>a
    <3> HIDE DEF r
    <3>3. ASSUME NEW p \in Objects PROVE p \in WeakObjects' <=> objects'[p] # None /\ objects'[p].weak
      BY DEF WeakObjects
    <3>4. ASSUME NEW p \in Objects PROVE p \in WeakObjects <=> objects[p] # None /\ objects[p].weak
      BY DEF WeakObjects
    <3> QED
      BY <2>1, <3>1, <3>2, <3>3, <3>4
  <2>3. WeakObjects \subseteq Objects /\ WeakObjects' \subseteq Objects
    BY DEF WeakObjects
  <2>4. CASE weak
    <3>1. WeakObjects' = WeakObjects \cup {o}
      BY <2>2, <2>3, <2>4
    <3> QED
      BY <3>1
  <2>5. CASE ~weak
    <3>1. WeakObjects' = WeakObjects
      BY <2>2, <2>3, <2>5
    <3> QED
      BY <3>1
  <2> QED
    BY <2>4, <2>5
<1>5. LiveObjects' = LiveObjects \cup {o}
  <2>1. o \notin collected /\ o # None /\ collected' = collected
    BY Fresh DEF CollectedWereMade
  <2>2. \A r \in Slots : gc_handles'[r] = IF r = s THEN o ELSE gc_handles[r]
    BY DEF IInv, TypeOK
  <2>3. \A r \in Slots : Target(r)' = IF r = s THEN o ELSE Target(r)
    BY <2>1, <2>2 DEF Target
  <2>4. Target(s) = None
    BY DEF Target
  <2> QED
    BY <2>1, <2>3, <2>4 DEF LiveObjects
<1> QED
  BY <1>1, <1>3, <1>4, <1>5, ViewKept DEF Plugins!Create, runtimeVars

(* A collection takes an object that has a weak handle. *)
LEMMA CollectsObject ==
  ASSUME IInv, NEW o \in Objects, CollectObject(o)
  PROVE  Plugins!Collect(o)
<1> USE DEF CollectObject
<1>1. o \in WeakObjects
  BY DEF WeakObjects
<1>2. LiveObjects' = LiveObjects \ {o}
  <2>1. \A r \in Slots : Target(r)' = IF gc_handles[r] = o THEN None ELSE Target(r)
    BY DEF Target
  <2>2. \A r \in Slots : Target(r) = o => gc_handles[r] = o
    BY Fresh DEF Target
  <2>3. \A r \in Slots : gc_handles[r] = o => Target(r) = o
    BY DEF Target
  <2> QED
    BY <2>1, <2>2, <2>3 DEF LiveObjects
<1> QED
  BY <1>1, <1>2, ViewKept DEF Plugins!Collect, loaderVars, runtimeVars

(* Names that reached two contexts stay where they are, and destroyed objects destroyed:
   the discipline is not taken up again. *)
LEMMA IsolationIsOnce == IInv /\ [Next]_vars /\ OneContextPerName' => OneContextPerName
<1> SUFFICES ASSUME IInv, [Next]_vars, OneContextPerName' PROVE OneContextPerName
  OBVIOUS
<1>1. \A a \in Alcs \cup {Default} : loaded[a] \subseteq loaded'[a]
  <2>1. ASSUME NEW c, NEW n, loaded' = [loaded EXCEPT ![c] = @ \cup {n}]
        PROVE  \A a \in Alcs \cup {Default} : loaded[a] \subseteq loaded'[a]
    BY <2>1 DEF IInv, TypeOK
  <2>2. ASSUME NEW v \in CtxVars, NEW n \in AsmNames,
               LoadAssemblyNameTaken(v, n) \/ LoadAssembly(v, n)
        PROVE  \E c : loaded' = [loaded EXCEPT ![c] = @ \cup {n}]
    BY <2>2, Zenon DEF LoadAssemblyNameTaken, LoadAssembly
  <2>3. CASE ~\E v \in CtxVars, n \in AsmNames :
               LoadAssemblyNameTaken(v, n) \/ LoadAssembly(v, n)
    <3>1. UNCHANGED loaded
      BY <2>3 DEF Next, ContextStep, TypeStep, ObjectStep, CreateAsmContext, CreateDuplicateContext,
         UnloadAssemblyContext, BindReference, GetTypeId, MemberType, CreateObject, DestroyObject,
         DestroyFreedHandle, CollectObject, runtimeVars, vars
    <3> QED
      BY <3>1
  <2> QED
    BY <2>1, <2>2, <2>3
<1>2. destroyed \subseteq destroyed'
  BY DEF Next, ContextStep, TypeStep, ObjectStep, CreateAsmContext, CreateDuplicateContext,
     UnloadAssemblyContext, LoadAssemblyNameTaken, LoadAssembly, BindReference, GetTypeId,
     MemberType, CreateObject, DestroyObject, DestroyFreedHandle, CollectObject, objectVars, vars
<1> QED
  BY <1>1, <1>2 DEF OneContextPerName

PluginView == <<LoadedContexts, HeldContexts, HomeOf, WeakObjects, LiveObjects>>

(* Every call does to the application's view what the promise allows, or nothing. *)
LEMMA StepKeepsPromise ==
  ASSUME IInv, IsolationInv, CollectedWereMade, OneContextPerName, OneContextPerName', Next
  PROVE  Plugins!Step \/ UNCHANGED PluginView
<1> USE DEF PluginView, Plugins!Step
<1>1. ASSUME NEW v \in CtxVars, ContextStep(v) PROVE Plugins!Step \/ UNCHANGED PluginView
  <2>1. ASSUME NEW n \in CtxNames, NEW a \in Alcs, CreateAsmContext(v, n, a)
        PROVE  Plugins!Open(a)
    BY <2>1, OpensHome
  <2>2. ASSUME NEW n \in CtxNames, CreateDuplicateContext(v, n) PROVE UNCHANGED PluginView
    BY <2>2, ViewKept DEF CreateDuplicateContext, loaderVars, objectVars
  <2>3. ASSUME UnloadAssemblyContext(v) PROVE \E a \in Alcs : Plugins!Close(a)
    BY <2>3, ClosesHome
  <2>4. ASSUME NEW n \in AsmNames, LoadAssemblyNameTaken(v, n) \/ LoadAssembly(v, n)
        PROVE  UNCHANGED PluginView
    BY <2>4, ViewKept DEF LoadAssemblyNameTaken, LoadAssembly, objectVars
  <2> QED
    BY <1>1, <2>1, <2>2, <2>3, <2>4 DEF ContextStep
<1>2. CASE TypeStep
  <2>1. ASSUME NEW x \in Assembly, NEW n \in Names, NEW y \in Assembly, BindReference(x, n, y)
        PROVE  \E h \in Alcs \cup {Default} : Plugins!Refer(h)
    BY <2>1, RefersToHome
  <2>2. ASSUME NEW n \in Names, NEW y \in Assembly, GetTypeId(n, y)
        PROVE  UNCHANGED PluginView
    BY <2>2, ViewKept DEF GetTypeId, runtimeVars, objectVars
  <2>3. ASSUME NEW t \in Assembly, NEW b \in Assembly, MemberType(t, b)
        PROVE  UNCHANGED PluginView
    BY <2>3, ViewKept DEF MemberType, loaderVars, runtimeVars, objectVars
  <2> QED
    BY <1>2, <2>1, <2>2, <2>3 DEF TypeStep
<1>3. CASE ObjectStep
  <2>1. ASSUME NEW t \in Assembly, NEW weak \in BOOLEAN, NEW o \in Objects, NEW s \in Slots,
               CreateObject(t, weak, o, s)
        PROVE  \E h \in Alcs \cup {Default} : Plugins!Create(o, h)
    BY <2>1, CreatesObject
  <2>2. ASSUME NEW o \in Objects, DestroyObject(o) \/ DestroyFreedHandle(o) PROVE FALSE
    BY <2>2 DEF DestroyObject, DestroyFreedHandle, OneContextPerName
  <2>3. ASSUME NEW o \in Objects, CollectObject(o) PROVE Plugins!Collect(o)
    BY <2>3, CollectsObject
  <2> QED
    BY <1>3, <2>1, <2>2, <2>3 DEF ObjectStep
<1> QED
  BY <1>1, <1>2, <1>3 DEF Next

(* The loader implements PluginHost: for any names, hash codes, contexts, slots and objects,
   what a call does to the objects of plugins with names of their own is to create or
   collect one, or to end those of the context that it unloads. *)
THEOREM LoaderImplementsPluginHost == Spec => KeepsPromise
<1>1. Init => Plugins!Init
  <2> SUFFICES ASSUME Init PROVE Plugins!Init
    OBVIOUS
  <2> USE DEF Init
  <2>1. LoadedContexts = {} /\ HeldContexts = {} /\ WeakObjects = {}
    BY DEF LoadedContexts, HeldContexts, WeakObjects
  <2>2. LiveObjects = {}
    BY DEF LiveObjects, Target
  <2>3. HomeOf = [o \in Objects |-> None]
    BY DEF HomeOf
  <2>4. OneContextPerName = TRUE
    BY ConstantsAssumption DEF OneContextPerName
  <2> QED
    BY <2>1, <2>2, <2>3, <2>4 DEF Plugins!Init
<1>2. IInv /\ IsolationInv /\ CollectedWereMade /\ [Next]_vars => [Plugins!Next]_(Plugins!vars)
  <2> SUFFICES ASSUME IInv, IsolationInv, CollectedWereMade, [Next]_vars
               PROVE  Plugins!Next \/ UNCHANGED Plugins!vars
    OBVIOUS
  <2>1. CASE UNCHANGED vars
    <3>1. UNCHANGED OneContextPerName
      BY <2>1 DEF vars, runtimeVars, objectVars, OneContextPerName
    <3> QED
      BY <2>1, <3>1, ViewKept DEF vars, loaderVars, runtimeVars, objectVars, Plugins!vars
  <2>2. CASE Next
    <3>1. ASSUME OneContextPerName' PROVE OneContextPerName
      BY <3>1, IsolationIsOnce
    <3>2. ASSUME OneContextPerName', OneContextPerName
          PROVE  Plugins!Step \/ UNCHANGED PluginView
      BY <2>2, <3>2, StepKeepsPromise
    <3> QED
      BY <3>1, <3>2 DEF Plugins!Next, PluginView
  <2> QED
    BY <2>1, <2>2
<1> QED
  BY <1>1, <1>2, Invariance, IsolationInit, IsolationNext, CollectedInit, CollectedNext, PTL
  DEF Spec, KeepsPromise, Plugins!Spec
=============================================================================
