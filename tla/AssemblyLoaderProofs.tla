------------------------- MODULE AssemblyLoaderProofs -------------------------
(* The safety of AssemblyLoader for every set of names, hash function, number of
   contexts, handle slots and objects: IInv is inductive. *)
EXTENDS AssemblyLoader, TLAPS

(* Hash and the records of the specification, in the form the steps use. *)
LEMMA Hashes ==
  /\ \A n \in Names : Hash[n] \in Ids
  /\ \A n \in CtxNames : Hash[n] \in Ids
BY ConstantsAssumption DEF Names

(* A load context that was not created yet is not loaded, so Add gives it to one id only. *)
LEMMA Fresh ==
  /\ None \notin Alcs
  /\ None \notin Objects
  /\ None \notin Assembly
  /\ None \notin HostedObject
  /\ Default \notin Alcs
  /\ NoId \notin Ids
BY ConstantsAssumption

(* Whatever assembly ResolveAssembly answers with is in the collection of a loaded
   context, and is registered when the call returns. *)
LEMMA ResolvedIsRegistered ==
  ASSUME TypeOK, RegisteredAreLoaded,
         NEW n \in Names, NEW y \in Assembly, y.name = n, ResolveAssembly(n, y)
  PROVE  /\ y.name \in loaded[y.alc]
         /\ y.alc \in LoadedContexts \cup {Default}
         /\ assemblies[Hash[n]] \in {None, y}
         /\ assemblies' = [assemblies EXCEPT ![Hash[n]] = y]
<1>1. Hash[n] \in Ids
  BY Hashes
<1>2. CASE assemblies[Hash[n]] = y /\ y # None /\ UNCHANGED assemblies
  <2>1. assemblies' = [assemblies EXCEPT ![Hash[n]] = y]
    BY <1>1, <1>2 DEF TypeOK
  <2> QED
    BY <1>1, <1>2, <2>1 DEF RegisteredAreLoaded
<1>3. CASE /\ assemblies[Hash[n]] = None
           /\ \E a \in LoadedContexts : n \in loaded[a] /\ y = [alc |-> a, name |-> n]
           /\ assemblies' = [assemblies EXCEPT ![Hash[n]] = y]
  BY <1>3
<1> QED
  BY <1>2, <1>3 DEF ResolveAssembly

(* The state the static constructor of AssemblyLoader leaves satisfies the invariant. *)
THEOREM InitIInv == Init => IInv
<1> SUFFICES ASSUME Init PROVE IInv
  OBVIOUS
<1> USE DEF Init
<1>1. \A i \in Ids : assemblies[i] # None =>
         assemblies[i] \in Assembly /\ assemblies[i].alc = Default
         /\ assemblies[i].name \in HostNames /\ Hash[assemblies[i].name] = i
  <2> TAKE i \in Ids
  <2>1. CASE \E n \in HostNames : Hash[n] = i
    <3> DEFINE m == CHOOSE n \in HostNames : Hash[n] = i
    <3>1. m \in HostNames /\ Hash[m] = i
      BY <2>1
    <3>2. assemblies[i] = [alc |-> Default, name |-> m]
      BY <2>1
    <3> QED
      BY <3>1, <3>2 DEF Assembly, Names
  <2>2. CASE ~ \E n \in HostNames : Hash[n] = i
    BY <2>2
  <2> QED
    BY <2>1, <2>2
<1>2. TypeOK
  <2>1. assemblies \in [Ids -> Assembly \cup {None}]
    BY <1>1
  <2>2. asm_contexts \in [CtxVars -> AsmContext]
    BY DEF AsmContext, NoContext
  <2>3. loaded \in [Alcs \cup {Default} -> SUBSET Names]
    BY DEF Names
  <2> QED
    BY <2>1, <2>2, <2>3 DEF TypeOK
<1>3. ContextsDistinct
  BY DEF ContextsDistinct, LoadedContexts
<1>4. NativeContextsAgree
  BY DEF NativeContextsAgree, NoContext
<1>5. RegisteredAreLoaded
  BY <1>1 DEF RegisteredAreLoaded
<1>6. KnownTypesLoaded /\ AcceptedTypesAnchored
  BY DEF KnownTypesLoaded, AcceptedTypesAnchored
<1>7. TypeByNameIsRegistered
  BY DEF TypeByNameIsRegistered
<1>8. HandlesRecorded /\ NoHandleOutlivesContext
  BY DEF HandlesRecorded, NoHandleOutlivesContext, Target
<1>9. UnfreedHandlesHold
  BY DEF UnfreedHandlesHold
<1> QED
  BY <1>2, <1>3, <1>4, <1>5, <1>6, <1>7, <1>8, <1>9 DEF IInv

(* A live handle belongs to a hosted object of a type. *)
LEMMA LiveTypes ==
  ASSUME TypeOK, HandlesRecorded, NEW s \in Slots, gc_handles[s] # None
  PROVE  /\ gc_handles[s] \in Objects
         /\ objects[gc_handles[s]] \in HostedObject
         /\ objects[gc_handles[s]].type \in Assembly
BY DEF TypeOK, HandlesRecorded, HostedObject

(* What a reference leads to stays within reach until a context is unloaded. *)
LEMMA AnchorsGrow ==
  ASSUME LoadedContexts \subseteq LoadedContexts', bound \subseteq bound', NEW t, Anchored(t)
  PROVE  Anchored(t)'
<1>1. \A x : Rooted(x) => Rooted(x)'
  BY DEF Rooted
<1>2. ASSUME NEW S \in SUBSET Assembly, ClosedSet(S)' PROVE ClosedSet(S)
  BY <1>1, <1>2 DEF ClosedSet
<1> QED
  BY <1>1, <1>2 DEF Anchored

(* A type that is within reach is of a loaded context, or a reference crosses into its
   context: without one, the assemblies of the other contexts would be closed. *)
LEMMA AnchoredIsHeld ==
  ASSUME bound \subseteq Assembly \X Assembly, NEW t \in Assembly, Anchored(t)
  PROVE  Rooted(t) \/ HeldFromOutside(t.alc)
<1> SUFFICES ASSUME ~Rooted(t), ~HeldFromOutside(t.alc) PROVE FALSE
  OBVIOUS
<1> DEFINE S == {x \in Assembly : x.alc # t.alc}
<1>1. ASSUME NEW x \in Assembly, Rooted(x) PROVE x \in S
  BY <1>1 DEF Rooted
<1>2. ASSUME NEW e \in bound, e[1] \in S PROVE e[2] \in S
  BY <1>2 DEF HeldFromOutside
<1>3. ClosedSet(S) /\ S \in SUBSET Assembly
  BY <1>1, <1>2 DEF ClosedSet
<1> QED
  BY <1>3 DEF Anchored

(* An action that changes neither the accepted types nor the handles keeps them anchored
   and held, unless it unloads a context. *)
LEMMA AnchorsKept ==
  ASSUME TypeOK, HandlesRecorded, AcceptedTypesAnchored, NoHandleOutlivesContext,
         UNCHANGED <<cached_types, gc_handles, collected, objects>>,
         LoadedContexts \subseteq LoadedContexts', bound \subseteq bound'
  PROVE  AcceptedTypesAnchored' /\ NoHandleOutlivesContext'
<1>1. AcceptedTypesAnchored'
  BY AnchorsGrow DEF AcceptedTypesAnchored
<1>2. NoHandleOutlivesContext'
  BY DEF NoHandleOutlivesContext, Target, Rooted, HeldFromOutside
<1> QED
  BY <1>1, <1>2

(* Until something frees it, a handle keeps its object: an action that frees nothing and
   unloads nothing preserves that. *)
LEMMA UnfreedKept ==
  ASSUME IInv, UNCHANGED <<gc_handles, objects>>, destroyed \subseteq destroyed',
         LoadedContexts' = created' => LoadedContexts = created
  PROVE  UnfreedHandlesHold'
BY DEF IInv, UnfreedHandlesHold, EverFreed

-----------------------------------------------------------------------------
(* One lemma per action of the specification. *)

(* Host::CreateAsmContext keeps the invariant. *)
LEMMA CreateAsmContextStep ==
  ASSUME IInv, NEW v \in CtxVars, NEW n \in CtxNames, NEW a \in Alcs,
         CreateAsmContext(v, n, a)
  PROVE  IInv'
<1> USE DEF CreateAsmContext, FreeId, objectVars
<1>0. Hash[n] \in Ids /\ a # None /\ Hash[n] # NoId
  BY Hashes, Fresh
<1>1. TypeOK'
  BY <1>0 DEF IInv, TypeOK, AsmContext
<1>2. contexts' = [contexts EXCEPT ![Hash[n]] = a] /\ contexts \in [Ids -> Alcs \cup {None}]
  BY DEF IInv, TypeOK
<1>3. LoadedContexts' = LoadedContexts \cup {a}
  BY <1>0, <1>2 DEF LoadedContexts
<1>4. ContextsDistinct'
  BY <1>0, <1>2, <1>3 DEF IInv, ContextsDistinct, LoadedContexts
<1>5. NativeContextsAgree'
  <2>1. /\ asm_contexts[v].context_id = NoId
        /\ asm_contexts[v].assemblies = {}
    BY DEF NoContext
  <2>2. /\ asm_contexts'[v].context_id = Hash[n]
        /\ asm_contexts'[v].assemblies = {}
        /\ \A w \in CtxVars \ {v} : asm_contexts'[w] = asm_contexts[w]
    BY <2>1 DEF IInv, TypeOK, AsmContext
  <2>3. \A w \in CtxVars : asm_contexts[w].context_id # NoId =>
           asm_contexts[w].context_id \in Ids /\ asm_contexts[w].context_id # Hash[n]
    BY DEF IInv, TypeOK, AsmContext, NativeContextsAgree
  <2> SUFFICES ASSUME NEW w \in CtxVars, asm_contexts'[w].context_id # NoId
               PROVE  LET id == asm_contexts'[w].context_id
                      IN /\ contexts'[id] # None
                         /\ \A i \in asm_contexts'[w].assemblies :
                               \E m \in loaded'[contexts'[id]] : Hash[m] = i
                         /\ \A u \in CtxVars : asm_contexts'[u].context_id = id => u = w
    BY DEF NativeContextsAgree
  <2>4. CASE w = v
    BY <1>0, <1>2, <2>2, <2>3, <2>4
  <2>5. CASE w # v
    BY <1>0, <1>2, <2>2, <2>3, <2>5 DEF IInv, NativeContextsAgree
  <2> QED
    BY <2>4, <2>5
<1>6. RegisteredAreLoaded'
  BY <1>3 DEF IInv, RegisteredAreLoaded
<1>7. KnownTypesLoaded'
  BY DEF IInv, KnownTypesLoaded
<1>8. AcceptedTypesAnchored' /\ NoHandleOutlivesContext'
  BY <1>3, AnchorsKept DEF IInv
<1>9. UnfreedHandlesHold'
  BY <1>3, UnfreedKept DEF IInv, ContextsDistinct
<1>10. TypeByNameIsRegistered'
  BY DEF IInv, TypeByNameIsRegistered
<1>11. HandlesRecorded'
  BY DEF IInv, HandlesRecorded
<1> QED
  BY <1>1, <1>4, <1>5, <1>6, <1>7, <1>8, <1>9, <1>10, <1>11 DEF IInv

(* Host::UnloadAssemblyContext keeps the invariant: what it takes back covers all it invalidates. *)
LEMMA UnloadAssemblyContextStep ==
  ASSUME IInv, NEW v \in CtxVars, UnloadAssemblyContext(v)
  PROVE  IInv'
<1> DEFINE id == asm_contexts[v].context_id
           a == contexts[id]
<1> USE DEF UnloadAssemblyContext, UnloadAssemblyLoadContext, Unregistered, ClearCaches,
           runtimeVars
<1>0. /\ id \in Ids
      /\ a \in Alcs
      /\ a \in LoadedContexts
      /\ loaded[a] \subseteq Names
  BY DEF IInv, TypeOK, AsmContext, LoadedContexts
<1>1. TypeOK'
  BY <1>0, Fresh DEF IInv, TypeOK, AsmContext, NoContext
<1>2. contexts' = [contexts EXCEPT ![id] = None] /\ contexts \in [Ids -> Alcs \cup {None}]
  BY DEF IInv, TypeOK
<1>3. LoadedContexts' = LoadedContexts \ {a}
  BY <1>0, <1>2 DEF IInv, ContextsDistinct, LoadedContexts
<1>4. ContextsDistinct'
  BY <1>0, <1>2, <1>3 DEF IInv, ContextsDistinct
<1>5. NativeContextsAgree'
  <2>1. /\ asm_contexts'[v].context_id = NoId
        /\ \A w \in CtxVars \ {v} : asm_contexts'[w] = asm_contexts[w]
    BY DEF IInv, TypeOK, NoContext
  <2>2. \A w \in CtxVars : asm_contexts[w].context_id \in Ids \cup {NoId}
    BY DEF IInv, TypeOK, AsmContext
  <2> SUFFICES ASSUME NEW w \in CtxVars, asm_contexts'[w].context_id # NoId
               PROVE  LET j == asm_contexts'[w].context_id
                      IN /\ contexts'[j] # None
                         /\ \A i \in asm_contexts'[w].assemblies :
                               \E m \in loaded'[contexts'[j]] : Hash[m] = i
                         /\ \A u \in CtxVars : asm_contexts'[u].context_id = j => u = w
    BY DEF NativeContextsAgree
  <2>3. w # v /\ asm_contexts'[w] = asm_contexts[w]
    BY <2>1
  <2>4. asm_contexts[w].context_id # id
    BY <2>3 DEF IInv, NativeContextsAgree
  <2> QED
    BY <1>2, <2>1, <2>2, <2>3, <2>4 DEF IInv, NativeContextsAgree
<1>6. RegisteredAreLoaded'
  <2> SUFFICES ASSUME NEW i \in Ids, assemblies'[i] # None
               PROVE  /\ Hash[assemblies'[i].name] = i
                      /\ assemblies'[i].name \in loaded'[assemblies'[i].alc]
                      /\ assemblies'[i].alc \in LoadedContexts' \cup {Default}
    BY DEF RegisteredAreLoaded
  <2>1. assemblies'[i] = assemblies[i] /\ ~ \E n \in loaded[a] : Hash[n] = i
    OBVIOUS
  <2>2. /\ Hash[assemblies[i].name] = i
        /\ assemblies[i].name \in loaded[assemblies[i].alc]
        /\ assemblies[i].alc \in LoadedContexts \cup {Default}
    BY <2>1 DEF IInv, RegisteredAreLoaded
  <2>3. assemblies[i].alc # a
    BY <2>1, <2>2
  <2> QED
    BY <1>3, <2>1, <2>2, <2>3
<1>7. KnownTypesLoaded'
  BY DEF IInv, KnownTypesLoaded
<1>8. AcceptedTypesAnchored' /\ TypeByNameIsRegistered'
  BY DEF AcceptedTypesAnchored, TypeByNameIsRegistered
<1>9. \A s \in Slots : gc_handles'[s] \in {None, gc_handles[s]}
  BY DEF IInv, TypeOK
<1>10. HandlesRecorded'
  BY <1>9 DEF IInv, HandlesRecorded
<1>11. NoHandleOutlivesContext'
  <2> SUFFICES ASSUME NEW s \in Slots, (Target(s) # None)'
               PROVE  (Rooted(objects[Target(s)].type) \/ HeldFromOutside(objects[Target(s)].type.alc))'
    BY DEF NoHandleOutlivesContext
  <2> DEFINE o == gc_handles[s]
  <2>1. /\ gc_handles'[s] = o
        /\ o # None
        /\ Target(s) = o
        /\ Target(s)' = o
        /\ s \notin FreedByUnload(a)
    BY <1>9 DEF Target
  <2>2. objects[o].type \in Assembly /\ s \in handles[Hash[objects[o].type.name]]
    BY <2>1, LiveTypes DEF IInv, HandlesRecorded
  <2>3. objects[o].type.name \in loaded[objects[o].type.alc]
    BY <2>1, LiveTypes DEF IInv, KnownTypesLoaded, HandlesRecorded
  <2>4. objects[o].type.alc # a
    BY <2>1, <2>2, <2>3 DEF FreedByUnload
  <2>5. Rooted(objects[o].type) \/ HeldFromOutside(objects[o].type.alc)
    BY <2>1 DEF IInv, NoHandleOutlivesContext
  <2> QED
    BY <1>3, <2>1, <2>4, <2>5 DEF Rooted, HeldFromOutside
<1>12. UnfreedHandlesHold'
  BY <1>0, <1>3 DEF IInv, ContextsDistinct, UnfreedHandlesHold, EverFreed
<1> QED
  BY <1>1, <1>4, <1>5, <1>6, <1>7, <1>8, <1>10, <1>11, <1>12 DEF IInv

(* A load that fails after LoadFromStream keeps the invariant. *)
LEMMA LoadAssemblyNameTakenStep ==
  ASSUME IInv, NEW v \in CtxVars, NEW n \in AsmNames, LoadAssemblyNameTaken(v, n)
  PROVE  IInv'
<1> DEFINE a == contexts[asm_contexts[v].context_id]
<1> USE DEF LoadAssemblyNameTaken, AddTaken, ReturnFailure, objectVars
<1>0. a \in Alcs /\ n \in Names
  BY DEF IInv, TypeOK, AsmContext, NativeContextsAgree, Names
<1>1. TypeOK'
  BY <1>0 DEF IInv, TypeOK
<1>2. \A b \in Alcs \cup {Default} : loaded[b] \subseteq loaded'[b]
  BY <1>0 DEF IInv, TypeOK
<1>3. LoadedContexts' = LoadedContexts
  BY DEF LoadedContexts
<1>4. ContextsDistinct' /\ TypeByNameIsRegistered' /\ HandlesRecorded'
  BY <1>3 DEF IInv, ContextsDistinct, TypeByNameIsRegistered, HandlesRecorded
<1>5. NativeContextsAgree'
  BY <1>2 DEF IInv, TypeOK, AsmContext, NativeContextsAgree
<1>6. RegisteredAreLoaded'
  BY <1>2, <1>3 DEF IInv, TypeOK, Assembly, RegisteredAreLoaded
<1>7. KnownTypesLoaded'
  BY <1>2 DEF IInv, TypeOK, Assembly, HostedObject, KnownTypesLoaded
<1>8. AcceptedTypesAnchored' /\ NoHandleOutlivesContext'
  BY <1>3, AnchorsKept DEF IInv
<1>9. UnfreedHandlesHold'
  BY <1>3, UnfreedKept DEF IInv
<1> QED
  BY <1>1, <1>4, <1>5, <1>6, <1>7, <1>8, <1>9 DEF IInv

(* AssemblyContext::LoadAssembly keeps the invariant. *)
LEMMA LoadAssemblyStep ==
  ASSUME IInv, NEW v \in CtxVars, NEW n \in AsmNames, LoadAssembly(v, n)
  PROVE  IInv'
<1> DEFINE id == asm_contexts[v].context_id
           asm == [alc |-> contexts[id], name |-> n]
<1> USE DEF LoadAssembly, objectVars
<1>0. /\ id \in Ids
      /\ contexts[id] \in Alcs
      /\ contexts[id] \in LoadedContexts
      /\ n \in Names
      /\ Hash[n] \in Ids
      /\ asm \in Assembly
      /\ asm # None
  BY Fresh, Hashes
  DEF IInv, TypeOK, AsmContext, NativeContextsAgree, Names, Assembly, LoadedContexts
<1>1. TypeOK'
  BY <1>0 DEF IInv, TypeOK, AsmContext
<1>2. /\ \A b \in Alcs \cup {Default} : loaded[b] \subseteq loaded'[b]
      /\ n \in loaded'[contexts[id]]
  BY <1>0 DEF IInv, TypeOK
<1>3. LoadedContexts' = LoadedContexts
  BY DEF LoadedContexts
<1>4. ContextsDistinct' /\ HandlesRecorded'
  BY <1>3 DEF IInv, ContextsDistinct, HandlesRecorded
<1>5. NativeContextsAgree'
  <2>1. \A w \in CtxVars : asm_contexts'[w].context_id = asm_contexts[w].context_id
    BY DEF IInv, TypeOK, AsmContext
  <2>2. \A w \in CtxVars : asm_contexts'[w].assemblies \subseteq
           asm_contexts[w].assemblies \cup (IF w = v THEN {Hash[n]} ELSE {})
    BY DEF IInv, TypeOK, AsmContext
  <2>3. \A w \in CtxVars : asm_contexts[w].context_id # NoId =>
           contexts[asm_contexts[w].context_id] \in Alcs
    BY DEF IInv, TypeOK, AsmContext, NativeContextsAgree
  <2> QED
    BY <1>2, <2>1, <2>2, <2>3 DEF IInv, NativeContextsAgree
<1>6. /\ assemblies' = [assemblies EXCEPT ![Hash[n]] = asm]
      /\ assemblies \in [Ids -> Assembly \cup {None}]
      /\ assemblies[Hash[n]] = None
  BY DEF IInv, TypeOK
<1>7. RegisteredAreLoaded'
  BY <1>0, <1>2, <1>3, <1>6 DEF IInv, Assembly, RegisteredAreLoaded
<1>8. KnownTypesLoaded'
  BY <1>0, <1>2 DEF IInv, TypeOK, Assembly, HostedObject, KnownTypesLoaded
<1>9. AcceptedTypesAnchored'
  BY <1>0, <1>3, AnchorsGrow DEF IInv, AcceptedTypesAnchored, Anchored, Rooted
<1>10. TypeByNameIsRegistered'
  <2> SUFFICES ASSUME NEW m \in Names, name_cache'[m] \in cached_types'
               PROVE  \/ assemblies'[Hash[m]] = name_cache'[m]
                      \/ \E x \in Assembly : <<x, name_cache'[m]>> \in bound
    BY DEF TypeByNameIsRegistered
  <2>1. Hash[m] \in Ids
    BY Hashes
  <2>2. CASE m = n
    BY <1>0, <1>6, <2>2 DEF IInv, TypeOK
  <2>3. CASE m # n
    <3>1. name_cache'[m] = name_cache[m]
      BY <2>3 DEF IInv, TypeOK
    <3>2. name_cache[m] # asm
      BY <1>0, <2>3 DEF IInv, KnownTypesLoaded
    <3>3. name_cache[m] \in cached_types
      BY <3>1, <3>2
    <3>4. name_cache[m] # None
      BY <3>3, Fresh DEF IInv, TypeOK
    <3> QED
      BY <1>0, <1>6, <2>1, <3>1, <3>3, <3>4 DEF IInv, TypeByNameIsRegistered
  <2> QED
    BY <2>2, <2>3
<1>11. NoHandleOutlivesContext'
  BY <1>3 DEF IInv, NoHandleOutlivesContext, Target, Rooted, HeldFromOutside
<1>12. UnfreedHandlesHold'
  BY <1>3, UnfreedKept DEF IInv
<1> QED
  BY <1>1, <1>4, <1>5, <1>7, <1>8, <1>9, <1>10, <1>11, <1>12 DEF IInv

(* What the registration of one more assembly disturbs when no context, no cached
   type and no object changes. *)
LEMMA RegistrationStep ==
  ASSUME IInv, NEW n \in Names, NEW y \in Assembly, y.name = n, ResolveAssembly(n, y)
  PROVE  /\ assemblies' \in [Ids -> Assembly \cup {None}]
         /\ \A i \in Ids : assemblies[i] # None => assemblies'[i] = assemblies[i]
         /\ \A i \in Ids : assemblies'[i] # None =>
               /\ Hash[assemblies'[i].name] = i
               /\ assemblies'[i].name \in loaded[assemblies'[i].alc]
               /\ assemblies'[i].alc \in LoadedContexts \cup {Default}
<1>1. Hash[n] \in Ids
  BY Hashes
<1>2. /\ y.name \in loaded[y.alc]
      /\ y.alc \in LoadedContexts \cup {Default}
      /\ assemblies[Hash[n]] \in {None, y}
      /\ assemblies' = [assemblies EXCEPT ![Hash[n]] = y]
  BY ResolvedIsRegistered DEF IInv
<1>3. assemblies \in [Ids -> Assembly \cup {None}]
  BY DEF IInv, TypeOK
<1> QED
  BY <1>1, <1>2, <1>3 DEF IInv, RegisteredAreLoaded

(* A reference that the runtime resolves, with the Resolving event, keeps the invariant. *)
LEMMA BindReferenceStep ==
  ASSUME IInv, NEW x \in Assembly, NEW n \in Names, NEW y \in Assembly,
         BindReference(x, n, y)
  PROVE  IInv'
<1> USE DEF BindReference, objectVars
<1>0. bound \subseteq bound'
  OBVIOUS
<1>1. /\ y.name \in loaded[y.alc]
      /\ assemblies' \in [Ids -> Assembly \cup {None}]
      /\ \A i \in Ids : assemblies[i] # None => assemblies'[i] = assemblies[i]
      /\ \A i \in Ids : assemblies'[i] # None =>
            /\ Hash[assemblies'[i].name] = i
            /\ assemblies'[i].name \in loaded[assemblies'[i].alc]
            /\ assemblies'[i].alc \in LoadedContexts \cup {Default}
  <2>1. CASE n \in loaded[x.alc]
    BY <2>1 DEF IInv, TypeOK, RegisteredAreLoaded
  <2>2. CASE n \notin loaded[x.alc]
    <3>1. ResolveAssembly(n, y) /\ y.name = n
      BY <2>2
    <3>2. y.name \in loaded[y.alc]
      BY <3>1, ResolvedIsRegistered DEF IInv
    <3> QED
      BY <3>1, <3>2, RegistrationStep
  <2> QED
    BY <2>1, <2>2
<1>2. TypeOK'
  <2>1. bound' \subseteq Assembly \X Assembly
    BY DEF IInv, TypeOK
  <2> QED
    BY <1>1, <2>1 DEF IInv, TypeOK
<1>3. LoadedContexts' = LoadedContexts
  BY DEF LoadedContexts
<1>4. ContextsDistinct' /\ NativeContextsAgree' /\ HandlesRecorded'
  BY <1>3 DEF IInv, ContextsDistinct, NativeContextsAgree, HandlesRecorded
<1>5. RegisteredAreLoaded'
  BY <1>1, <1>3 DEF RegisteredAreLoaded
<1>6. KnownTypesLoaded'
  BY <1>1 DEF IInv, KnownTypesLoaded
<1>7. AcceptedTypesAnchored' /\ NoHandleOutlivesContext'
  BY <1>0, <1>3, AnchorsKept DEF IInv
<1>8. TypeByNameIsRegistered'
  <2> SUFFICES ASSUME NEW m \in Names, name_cache[m] \in cached_types
               PROVE  \/ assemblies'[Hash[m]] = name_cache[m]
                      \/ \E z \in Assembly : <<z, name_cache[m]>> \in bound'
    BY DEF TypeByNameIsRegistered
  <2>1. Hash[m] \in Ids /\ name_cache[m] # None
    BY Hashes, Fresh DEF IInv, TypeOK
  <2> QED
    BY <1>0, <1>1, <2>1 DEF IInv, TypeByNameIsRegistered
<1>9. UnfreedHandlesHold'
  BY <1>3, UnfreedKept DEF IInv
<1> QED
  BY <1>2, <1>4, <1>5, <1>6, <1>7, <1>8, <1>9 DEF IInv

(* get_type_id keeps the invariant. *)
LEMMA GetTypeIdStep ==
  ASSUME IInv, NEW n \in Names, NEW y \in Assembly, GetTypeId(n, y)
  PROVE  IInv'
<1> USE DEF GetTypeId, objectVars, runtimeVars
<1>1. /\ y.name \in loaded[y.alc]
      /\ y.alc \in LoadedContexts \cup {Default}
      /\ Hash[n] \in Ids
      /\ assemblies' = [assemblies EXCEPT ![Hash[n]] = y]
  BY Hashes, ResolvedIsRegistered DEF IInv
<1>2. /\ assemblies' \in [Ids -> Assembly \cup {None}]
      /\ \A i \in Ids : assemblies[i] # None => assemblies'[i] = assemblies[i]
      /\ \A i \in Ids : assemblies'[i] # None =>
            /\ Hash[assemblies'[i].name] = i
            /\ assemblies'[i].name \in loaded[assemblies'[i].alc]
            /\ assemblies'[i].alc \in LoadedContexts \cup {Default}
  BY RegistrationStep
<1>3. TypeOK'
  BY <1>2 DEF IInv, TypeOK
<1>4. LoadedContexts' = LoadedContexts
  BY DEF LoadedContexts
<1>5. ContextsDistinct' /\ NativeContextsAgree' /\ HandlesRecorded'
  BY <1>4 DEF IInv, ContextsDistinct, NativeContextsAgree, HandlesRecorded
<1>6. RegisteredAreLoaded'
  BY <1>2, <1>4 DEF RegisteredAreLoaded
<1>7. KnownTypesLoaded'
  BY <1>1 DEF IInv, KnownTypesLoaded
<1>8. AcceptedTypesAnchored'
  BY <1>1, <1>4, AnchorsGrow DEF IInv, AcceptedTypesAnchored, Anchored, Rooted
<1>9. NoHandleOutlivesContext'
  BY <1>4 DEF IInv, NoHandleOutlivesContext, Target, Rooted, HeldFromOutside
<1>10. TypeByNameIsRegistered'
  <2> SUFFICES ASSUME NEW m \in Names, name_cache[m] \in cached_types'
               PROVE  \/ assemblies'[Hash[m]] = name_cache[m]
                      \/ \E z \in Assembly : <<z, name_cache[m]>> \in bound
    BY DEF TypeByNameIsRegistered
  <2>1. Hash[m] \in Ids /\ name_cache[m] # None
    BY Hashes, Fresh DEF IInv, TypeOK
  <2>2. CASE name_cache[m] = y
    <3>1. m = n
      BY <2>1, <2>2 DEF IInv, KnownTypesLoaded
    <3> QED
      BY <1>1, <2>2, <3>1 DEF IInv, TypeOK
  <2>3. CASE name_cache[m] # y
    BY <1>2, <2>1, <2>3 DEF IInv, TypeByNameIsRegistered
  <2> QED
    BY <2>2, <2>3
<1>11. UnfreedHandlesHold'
  BY <1>4, UnfreedKept DEF IInv
<1> QED
  BY <1>3, <1>5, <1>6, <1>7, <1>8, <1>9, <1>10, <1>11 DEF IInv

(* Caching the type of a member keeps the invariant. *)
LEMMA MemberTypeStep ==
  ASSUME IInv, NEW t \in Assembly, NEW b \in Assembly, MemberType(t, b)
  PROVE  IInv'
<1> USE DEF MemberType, objectVars, loaderVars, runtimeVars
<1>0. /\ b \in Assembly
      /\ b.name \in Names
      /\ b.name \in loaded[b.alc]
      /\ Anchored(b)
      /\ b # None
  <2>1. b.name \in loaded[b.alc]
    BY DEF IInv, KnownTypesLoaded
  <2>2. <<t, b>>[1] = t /\ <<t, b>>[2] = b
    OBVIOUS
  <2>3. Anchored(t)
    BY DEF IInv, AcceptedTypesAnchored
  <2>4. Anchored(b)
    BY <2>2, <2>3 DEF Anchored, ClosedSet
  <2> QED
    BY <2>1, <2>4, Fresh DEF Assembly
<1>1. TypeOK'
  BY <1>0 DEF IInv, TypeOK
<1>2. LoadedContexts' = LoadedContexts
  BY DEF LoadedContexts
<1>3. /\ ContextsDistinct' /\ NativeContextsAgree'
      /\ RegisteredAreLoaded' /\ HandlesRecorded'
  BY <1>2
  DEF IInv, ContextsDistinct, NativeContextsAgree, RegisteredAreLoaded, HandlesRecorded
<1>4. KnownTypesLoaded'
  BY <1>0 DEF IInv, TypeOK, KnownTypesLoaded
<1>5. AcceptedTypesAnchored'
  BY <1>0, <1>2, AnchorsGrow DEF IInv, AcceptedTypesAnchored
<1>6. NoHandleOutlivesContext'
  BY <1>2 DEF IInv, NoHandleOutlivesContext, Target, Rooted, HeldFromOutside
<1>7. TypeByNameIsRegistered'
  BY <1>0 DEF IInv, TypeOK, TypeByNameIsRegistered
<1>8. UnfreedHandlesHold'
  BY <1>2, UnfreedKept DEF IInv
<1> QED
  BY <1>1, <1>3, <1>4, <1>5, <1>6, <1>7, <1>8 DEF IInv

(* Making an object, whose handle is recorded for its assembly, keeps the invariant. *)
LEMMA CreateObjectStep ==
  ASSUME IInv, NEW t \in Assembly, NEW weak \in BOOLEAN,
         NEW o \in Objects, NEW s \in Slots, CreateObject(t, weak, o, s)
  PROVE  IInv'
<1> DEFINE new == [type |-> t, weak |-> weak, handle |-> s]
<1> USE DEF CreateObject, RegisterHandle, runtimeVars
<1>0. /\ Hash[t.name] \in Ids
      /\ new \in HostedObject
      /\ new # None
      /\ o # None
      /\ t.name \in loaded[t.alc]
      /\ Rooted(t) \/ HeldFromOutside(t.alc)
  <2>1. new \in HostedObject
    BY DEF HostedObject
  <2>2. new # None
    BY <2>1, Fresh
  <2>3. Rooted(t) \/ HeldFromOutside(t.alc)
    BY AnchoredIsHeld DEF IInv, TypeOK, AcceptedTypesAnchored
  <2> QED
    BY <2>1, <2>2, <2>3, Hashes, Fresh DEF IInv, Assembly, KnownTypesLoaded
<1>1. TypeOK'
  BY <1>0 DEF IInv, TypeOK
<1>2. LoadedContexts' = LoadedContexts
  BY DEF LoadedContexts
<1>3. /\ ContextsDistinct' /\ NativeContextsAgree' /\ RegisteredAreLoaded'
      /\ AcceptedTypesAnchored' /\ TypeByNameIsRegistered'
  BY <1>2, AnchorsGrow
  DEF IInv, ContextsDistinct, NativeContextsAgree, RegisteredAreLoaded,
      AcceptedTypesAnchored, TypeByNameIsRegistered
<1>4. KnownTypesLoaded'
  BY <1>0 DEF IInv, TypeOK, KnownTypesLoaded
<1>5. \A r \in Slots : gc_handles[r] # o
  BY <1>0 DEF IInv, HandlesRecorded
<1>6. /\ gc_handles'[s] = o
      /\ \A r \in Slots \ {s} : gc_handles'[r] = gc_handles[r]
      /\ objects'[o] = new
      /\ \A p \in Objects \ {o} : objects'[p] = objects[p]
      /\ \A i \in Ids : handles[i] \subseteq handles'[i]
      /\ s \in handles'[Hash[t.name]]
  BY <1>0 DEF IInv, TypeOK
<1>7. \A r \in Slots \ {s} : gc_handles[r] # None =>
         /\ objects'[gc_handles[r]] = objects[gc_handles[r]]
         /\ objects[gc_handles[r]] \in HostedObject
         /\ Hash[objects[gc_handles[r]].type.name] \in Ids
  BY <1>5, <1>6, LiveTypes, Hashes DEF IInv, HostedObject, Assembly
<1>8. HandlesRecorded'
  BY <1>0, <1>6, <1>7 DEF IInv, HandlesRecorded
<1>9. NoHandleOutlivesContext'
  <2> SUFFICES ASSUME NEW r \in Slots, (Target(r) # None)'
               PROVE  (Rooted(objects[Target(r)].type) \/ HeldFromOutside(objects[Target(r)].type.alc))'
    BY DEF NoHandleOutlivesContext
  <2>1. Target(r)' = gc_handles'[r] /\ gc_handles'[r] # None
        /\ gc_handles'[r] \notin collected
    BY DEF Target
  <2>2. CASE r = s
    BY <1>0, <1>2, <1>6, <2>1, <2>2 DEF Rooted, HeldFromOutside
  <2>3. CASE r # s
    BY <1>2, <1>6, <1>7, <2>1, <2>3
    DEF IInv, NoHandleOutlivesContext, Target, Rooted, HeldFromOutside
  <2> QED
    BY <2>2, <2>3
<1>10. UnfreedHandlesHold'
  <2> SUFFICES ASSUME NEW p \in Objects, objects'[p] # None,
                      ~EverFreed(objects[p].handle)'
               PROVE  gc_handles'[objects'[p].handle] = p
    BY DEF UnfreedHandlesHold
  <2>1. CASE p = o
    BY <1>6, <2>1
  <2>2. CASE p # o
    <3>1. objects'[p] = objects[p] /\ objects[p].handle \in Slots /\ p # None
      BY <1>6, <2>2, Fresh DEF IInv, TypeOK, HostedObject
    <3>2. \A q \in destroyed : objects[q] # None => objects'[q] = objects[q]
      BY <1>6 DEF IInv, TypeOK
    <3>3. ~EverFreed(objects[p].handle)
      BY <1>2, <3>1, <3>2 DEF EverFreed
    <3>4. gc_handles[objects[p].handle] = p
      BY <3>1, <3>3 DEF IInv, UnfreedHandlesHold
    <3> QED
      BY <1>6, <3>1, <3>4
  <2> QED
    BY <2>1, <2>2
<1> QED
  BY <1>1, <1>3, <1>4, <1>8, <1>9, <1>10 DEF IInv

(* destroy_object keeps the invariant. *)
LEMMA DestroyObjectStep ==
  ASSUME IInv, NEW o \in Objects, DestroyObject(o)
  PROVE  IInv'
<1> USE DEF DestroyObject, loaderVars, runtimeVars
<1>1. TypeOK'
  BY DEF IInv, TypeOK
<1>2. LoadedContexts' = LoadedContexts
  BY DEF LoadedContexts
<1>3. /\ ContextsDistinct' /\ NativeContextsAgree' /\ RegisteredAreLoaded'
      /\ KnownTypesLoaded' /\ AcceptedTypesAnchored' /\ TypeByNameIsRegistered'
  BY <1>2, AnchorsGrow
  DEF IInv, ContextsDistinct, NativeContextsAgree, RegisteredAreLoaded,
      KnownTypesLoaded, AcceptedTypesAnchored, TypeByNameIsRegistered
<1>4. \A s \in Slots : gc_handles'[s] \in {None, gc_handles[s]}
  BY DEF IInv, TypeOK
<1>5. HandlesRecorded'
  BY <1>4 DEF IInv, HandlesRecorded
<1>6. NoHandleOutlivesContext'
  BY <1>2, <1>4 DEF IInv, NoHandleOutlivesContext, Target, Rooted, HeldFromOutside
<1>7. UnfreedHandlesHold'
  <2> SUFFICES ASSUME NEW p \in Objects, objects[p] # None, ~EverFreed(objects[p].handle)'
               PROVE  gc_handles'[objects[p].handle] = p
    BY DEF UnfreedHandlesHold
  <2>1. objects[p].handle \in Slots /\ objects[p].handle # objects[o].handle
    BY DEF EverFreed, IInv, TypeOK, HostedObject
  <2>2. ~EverFreed(objects[p].handle)
    BY <1>2 DEF EverFreed
  <2> QED
    BY <2>1, <2>2 DEF IInv, TypeOK, UnfreedHandlesHold
<1> QED
  BY <1>1, <1>3, <1>5, <1>6, <1>7 DEF IInv

(* A collection keeps the invariant. *)
LEMMA CollectObjectStep ==
  ASSUME IInv, NEW o \in Objects, CollectObject(o)
  PROVE  IInv'
<1> USE DEF CollectObject, loaderVars, runtimeVars
<1>1. TypeOK'
  BY DEF IInv, TypeOK
<1>2. LoadedContexts' = LoadedContexts
  BY DEF LoadedContexts
<1>3. /\ ContextsDistinct' /\ NativeContextsAgree' /\ RegisteredAreLoaded'
      /\ KnownTypesLoaded' /\ AcceptedTypesAnchored' /\ TypeByNameIsRegistered'
      /\ HandlesRecorded'
  <2>1. AcceptedTypesAnchored'
    BY <1>2, AnchorsGrow DEF IInv, AcceptedTypesAnchored
  <2>2. ContextsDistinct' /\ NativeContextsAgree' /\ RegisteredAreLoaded'
    BY <1>2 DEF IInv, ContextsDistinct, NativeContextsAgree, RegisteredAreLoaded
  <2>3. KnownTypesLoaded' /\ TypeByNameIsRegistered' /\ HandlesRecorded'
    BY DEF IInv, KnownTypesLoaded, TypeByNameIsRegistered, HandlesRecorded
  <2> QED
    BY <2>1, <2>2, <2>3
<1>4. \A s \in Slots : Target(s)' \in {None, Target(s)}
  BY DEF Target
<1>5. NoHandleOutlivesContext'
  BY <1>2, <1>4 DEF IInv, NoHandleOutlivesContext, Rooted, HeldFromOutside
<1>6. UnfreedHandlesHold'
  BY <1>2, UnfreedKept DEF IInv
<1> QED
  BY <1>1, <1>3, <1>5, <1>6 DEF IInv

(* A step that only ends the process, with a handle that was freed already or without,
   or changes nothing. *)
LEMMA NoChangeStep ==
  ASSUME IInv, running' \in BOOLEAN,
         UNCHANGED <<loaderVars, cached_types, created, loaded, bound, asm_contexts,
                     name_cache, gc_handles, collected, objects>>,
         destroyed \subseteq destroyed', destroyed' \subseteq Objects
  PROVE  IInv'
<1> USE DEF loaderVars
<1>1. TypeOK'
  BY DEF IInv, TypeOK
<1>2. /\ ContextsDistinct' /\ NativeContextsAgree' /\ RegisteredAreLoaded'
      /\ KnownTypesLoaded' /\ HandlesRecorded'
  BY DEF IInv, ContextsDistinct, LoadedContexts, NativeContextsAgree,
         RegisteredAreLoaded, KnownTypesLoaded, HandlesRecorded
<1>3. AcceptedTypesAnchored' /\ TypeByNameIsRegistered' /\ NoHandleOutlivesContext'
  BY AnchorsKept DEF IInv, LoadedContexts, TypeByNameIsRegistered
<1>4. UnfreedHandlesHold'
  BY UnfreedKept DEF IInv, LoadedContexts
<1> QED
  BY <1>1, <1>2, <1>3, <1>4 DEF IInv

(* Every native call and every step of the runtime keeps the invariant. *)
THEOREM NextIInv == IInv /\ [Next]_vars => IInv'
<1> SUFFICES ASSUME IInv, [Next]_vars PROVE IInv'
  OBVIOUS
<1>1. CASE UNCHANGED vars
  BY <1>1, NoChangeStep DEF vars, runtimeVars, objectVars, IInv, TypeOK
<1>2. ASSUME NEW v \in CtxVars, ContextStep(v) PROVE IInv'
  <2>1. ASSUME NEW n \in CtxNames, NEW a \in Alcs, CreateAsmContext(v, n, a) PROVE IInv'
    BY <2>1, CreateAsmContextStep
  <2>2. ASSUME NEW n \in CtxNames, CreateDuplicateContext(v, n) PROVE IInv'
    BY <2>2, NoChangeStep DEF CreateDuplicateContext, objectVars, IInv, TypeOK
  <2>3. CASE UnloadAssemblyContext(v)
    BY <2>3, UnloadAssemblyContextStep
  <2>4. ASSUME NEW n \in AsmNames, LoadAssemblyNameTaken(v, n) PROVE IInv'
    BY <2>4, LoadAssemblyNameTakenStep
  <2>5. ASSUME NEW n \in AsmNames, LoadAssembly(v, n) PROVE IInv'
    BY <2>5, LoadAssemblyStep
  <2> QED
    BY <1>2, <2>1, <2>2, <2>3, <2>4, <2>5 DEF ContextStep
<1>3. CASE TypeStep
  BY <1>3, BindReferenceStep, GetTypeIdStep, MemberTypeStep DEF TypeStep
<1>4. CASE ObjectStep
  <2>1. ASSUME NEW o \in Objects, DestroyFreedHandle(o) PROVE IInv'
    BY <2>1, NoChangeStep DEF DestroyFreedHandle, IInv, TypeOK
  <2> QED
    BY <1>4, <2>1, CreateObjectStep, DestroyObjectStep, CollectObjectStep DEF ObjectStep
<1> QED
  BY <1>1, <1>2, <1>3, <1>4 DEF Next

-----------------------------------------------------------------------------

(* IInv holds of every behaviour of the specification. *)
THEOREM Invariance == Spec => []IInv
BY InitIInv, NextIInv, PTL DEF Spec

(* Every variable keeps its shape. *)
THEOREM Typing == Spec => []TypeOK
<1>1. IInv => TypeOK
  BY DEF IInv
<1> QED
  BY <1>1, Invariance, PTL

(* UnloadAssemblyLoadContext frees every handle to an object of the context it
   unloads, however the context's assemblies were loaded, resolved or failed to load,
   and whatever names collide: no handle outlives its context, but for objects of a
   context that another one refers to. *)
THEOREM HandlesFreed == Spec => []NoHandleOutlivesContext
<1>1. IInv => NoHandleOutlivesContext
  BY DEF IInv
<1> QED
  BY <1>1, Invariance, PTL

(* No assembly of an unloaded context stays registered, and no id of one of its types is
   accepted unless references lead to it from a context that is loaded. *)
THEOREM UnloadIsComplete == Spec => [](RegisteredAreLoaded /\ AcceptedTypesAnchored)
<1>1. IInv => RegisteredAreLoaded /\ AcceptedTypesAnchored
  BY DEF IInv
<1> QED
  BY <1>1, Invariance, PTL

(* An id that the managed side accepts is of a type of a loaded context, or references lead
   to it from one: CreateObject instantiates no plugin that is gone for everyone. *)
THEOREM AcceptedTypesStayAnchored == Spec => []AcceptedTypesAnchored
<1>1. IInv => AcceptedTypesAnchored
  BY DEF IInv
<1> QED
  BY <1>1, Invariance, PTL

(* AddHandle records every live handle under the assembly of its object's type, where
   UnloadAssemblyLoadContext looks for it, however the hash codes of names collide. *)
THEOREM HandlesAreRecorded == Spec => []HandlesRecorded
<1>1. IInv => HandlesRecorded
  BY DEF IInv
<1> QED
  BY <1>1, Invariance, PTL

(* A type found by name that the managed side accepts is the registered one. *)
THEOREM NoOldVersionByName == Spec => []TypeByNameIsRegistered
<1>1. IInv => TypeByNameIsRegistered
  BY DEF IInv
<1> QED
  BY <1>1, Invariance, PTL

(* The native contexts never lose touch with the managed ones. *)
THEOREM NativeContextsStayValid == Spec => []NativeContextsAgree
<1>1. IInv => NativeContextsAgree
  BY DEF IInv
<1> QED
  BY <1>1, Invariance, PTL

(* Without an unload nothing is taken back: accepted types stay accepted, registrations
   stay, and a slot is emptied only by destroy_object, of the object that its handle was
   made for or, if that handle had been freed before, of one that has taken its place. *)
THEOREM RevocationNeedsUnload == Spec => OnlyUnloadRevokes
<1> DEFINE Kept == /\ cached_types \subseteq cached_types'
                   /\ \A i \in Ids : assemblies[i] # None => assemblies'[i] = assemblies[i]
                   /\ \A s \in Slots : gc_handles[s] # None /\ gc_handles'[s] # gc_handles[s] =>
                         \E o \in destroyed' : /\ objects[o].handle = s
                                              /\ (o = gc_handles[s] \/ EverFreed(s))
           Revokes == LoadedContexts \subseteq {contexts'[i] : i \in Ids} => Kept
<1>1. IInv /\ [Next]_vars => [Revokes]_vars
  <2> SUFFICES ASSUME IInv, Next PROVE Revokes
    OBVIOUS
  <2> USE DEF loaderVars, runtimeVars, objectVars
  <2>1. ASSUME NEW v \in CtxVars, ContextStep(v) PROVE Revokes
    <3>1. ASSUME NEW n \in CtxNames, NEW a \in Alcs, CreateAsmContext(v, n, a)
          PROVE  Kept
      BY <3>1 DEF CreateAsmContext
    <3>2. ASSUME NEW n \in CtxNames, CreateDuplicateContext(v, n) PROVE Kept
      BY <3>2 DEF CreateDuplicateContext
    <3>3. CASE UnloadAssemblyContext(v)
      <4> DEFINE id == asm_contexts[v].context_id
      <4>1. /\ id \in Ids
            /\ contexts[id] # None
            /\ contexts' = [contexts EXCEPT ![id] = None]
            /\ contexts \in [Ids -> Alcs \cup {None}]
        BY <3>3
        DEF UnloadAssemblyContext, UnloadAssemblyLoadContext, IInv, TypeOK, AsmContext
      <4>2. contexts[id] \in LoadedContexts
        BY <4>1 DEF LoadedContexts
      <4>3. contexts[id] \notin {contexts'[i] : i \in Ids}
        BY <4>1 DEF IInv, ContextsDistinct
      <4> QED
        BY <4>2, <4>3
    <3>4. ASSUME NEW n \in AsmNames, LoadAssemblyNameTaken(v, n) PROVE Kept
      BY <3>4 DEF LoadAssemblyNameTaken, AddTaken
    <3>5. ASSUME NEW n \in AsmNames, LoadAssembly(v, n) PROVE Kept
      BY <3>5 DEF LoadAssembly, IInv, TypeOK
    <3> QED
      BY <2>1, <3>1, <3>2, <3>3, <3>4, <3>5 DEF ContextStep
  <2>2. CASE TypeStep
    <3>1. ASSUME NEW x \in Assembly, NEW n \in Names, NEW y \in Assembly,
                 BindReference(x, n, y)
          PROVE  Kept
      BY <3>1, RegistrationStep DEF BindReference
    <3>2. ASSUME NEW n \in Names, NEW y \in Assembly, GetTypeId(n, y) PROVE Kept
      BY <3>2, RegistrationStep DEF GetTypeId
    <3>3. ASSUME NEW t \in Assembly, NEW b \in Assembly, MemberType(t, b) PROVE Kept
      BY <3>3 DEF MemberType
    <3> QED
      BY <2>2, <3>1, <3>2, <3>3 DEF TypeStep
  <2>3. CASE ObjectStep
    <3>1. ASSUME NEW t \in Assembly, NEW weak \in BOOLEAN, NEW o \in Objects,
                 NEW s \in Slots, CreateObject(t, weak, o, s)
          PROVE  Kept
      BY <3>1 DEF CreateObject, IInv, TypeOK
    <3>2. ASSUME NEW o \in Objects, DestroyObject(o) PROVE Kept
      <4> DEFINE r == objects[o].handle
      <4>1. o \in destroyed' /\ \A s \in Slots : s # r => gc_handles'[s] = gc_handles[s]
        BY <3>2 DEF DestroyObject, IInv, TypeOK
      <4>2. o = gc_handles[r] \/ EverFreed(r)
        BY <3>2 DEF DestroyObject, IInv, UnfreedHandlesHold
      <4> QED
        BY <3>2, <4>1, <4>2 DEF DestroyObject
    <3>4. ASSUME NEW o \in Objects, DestroyFreedHandle(o) PROVE Kept
      BY <3>4 DEF DestroyFreedHandle
    <3>3. ASSUME NEW o \in Objects, CollectObject(o) PROVE Kept
      BY <3>3 DEF CollectObject
    <3> QED
      BY <2>3, <3>1, <3>2, <3>3, <3>4 DEF ObjectStep
  <2> QED
    BY <2>1, <2>2, <2>3 DEF Next
<1> QED
  BY <1>1, Invariance, PTL DEF Spec, OnlyUnloadRevokes
=============================================================================
