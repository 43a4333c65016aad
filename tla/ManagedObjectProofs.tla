-------------------------- MODULE ManagedObjectProofs --------------------------
(* What the method cache guarantees for every set of types, methods, contexts and
   objects, on top of the invariant of AssemblyLoader. *)
EXTENDS ManagedObject, AssemblyLoaderProofs

ObjIInv ==
  /\ IInv
  /\ ObjTypeOK
  /\ CachedMethodsWereLoaded
  /\ MisdirectionNeedsReload

(* Nothing ever leaves the Assemblies collection of a load context. *)
LEMMA LoadedGrows ==
  ASSUME IInv, Next
  PROVE  \A a \in Alcs \cup {Default} : loaded[a] \subseteq loaded'[a]
<1> USE DEF runtimeVars
<1>1. ASSUME NEW v \in CtxVars, ContextStep(v)
      PROVE  \A a \in Alcs \cup {Default} : loaded[a] \subseteq loaded'[a]
  <2>1. CASE UNCHANGED loaded
    BY <2>1
  <2>2. ASSUME NEW n \in AsmNames,
               loaded' = [loaded EXCEPT ![contexts[asm_contexts[v].context_id]] = @ \cup {n}]
        PROVE  \A a \in Alcs \cup {Default} : loaded[a] \subseteq loaded'[a]
    BY <2>2 DEF IInv, TypeOK
  <2> QED
    BY <1>1, <2>1, <2>2
    DEF ContextStep, CreateAsmContext, CreateDuplicateContext, UnloadAssemblyContext,
        LoadAssemblyNameTaken, LoadAssembly
<1>2. CASE TypeStep
  BY <1>2 DEF TypeStep, BindReference, GetTypeId, MemberType
<1>3. CASE ObjectStep
  BY <1>3 DEF ObjectStep, CreateObject, DestroyObject, DestroyFreedHandle,
      CollectObject
<1> QED
  BY <1>1, <1>2, <1>3 DEF Next

(* A call on a type that is in a context's collection, static or not: a MethodInfo of
   another type has the name of this one, so two contexts have loaded it. *)
LEMMA CallStep ==
  ASSUME ObjIInv, NEW t \in Assembly, NEW m \in Methods, NEW k \in {"instance", "static"},
         t.name \in loaded[t.alc], TryGetMethodInfo(t, m), Misdirects(k, t, m), UNCHANGED vars
  PROVE  ObjIInv'
<1> DEFINE key == <<t.name, m>>
<1>1. IInv' /\ TypeOK'
  BY NextIInv DEF ObjIInv, IInv
<1>2. /\ key \in Names \X Methods
      /\ t.alc \in Alcs \cup {Default}
      /\ t # None
  BY Fresh DEF Assembly
<1>3. UNCHANGED loaded
  BY DEF vars, runtimeVars
<1>4. /\ methods'[key] = IF methods[key] # None THEN methods[key] ELSE t
      /\ \A j \in Names \X Methods : j # key => methods'[j] = methods[j]
      /\ methods' \in [Names \X Methods -> Assembly \cup {None}]
  BY <1>2 DEF TryGetMethodInfo, ObjIInv, ObjTypeOK
<1>5. ObjTypeOK'
  BY <1>1, <1>4 DEF Misdirects, ObjIInv, ObjTypeOK
<1>6. CachedMethodsWereLoaded'
  BY <1>2, <1>3, <1>4 DEF ObjIInv, CachedMethodsWereLoaded
<1>7. MisdirectionNeedsReload'
  <2>1. CASE methods'[key] = t
    BY <1>3, <2>1 DEF Misdirects, ObjIInv, MisdirectionNeedsReload
  <2>2. CASE methods'[key] # t
    <3> DEFINE u == methods'[key]
    <3>1. u \in Assembly /\ u.name = t.name /\ t.name \in loaded[u.alc]
      BY <1>2, <1>3, <1>4, <1>6, <2>2 DEF CachedMethodsWereLoaded
    <3>2. u.alc # t.alc /\ u.alc \in Alcs \cup {Default}
      BY <2>2, <3>1 DEF Assembly
    <3>3. loaded[u.alc] \cap loaded[t.alc] # {}
      BY <3>1
    <3> QED
      BY <1>2, <1>3, <3>2, <3>3 DEF MisdirectionNeedsReload
  <2> QED
    BY <2>1, <2>2
<1> QED
  BY <1>1, <1>5, <1>6, <1>7 DEF ObjIInv

(* The initial state, with an empty method cache, satisfies the invariant. *)
THEOREM ObjInitIInv == ObjInit => ObjIInv
<1> SUFFICES ASSUME ObjInit PROVE ObjIInv
  OBVIOUS
<1>1. IInv
  BY InitIInv DEF ObjInit
<1> QED
  BY <1>1
  DEF ObjInit, ObjIInv, IInv, ObjTypeOK, CachedMethodsWereLoaded, MisdirectionNeedsReload

(* Every loader step and every call of a method keeps the invariant. *)
THEOREM ObjNextIInv == ObjIInv /\ [ObjNext]_allVars => ObjIInv'
<1> SUFFICES ASSUME ObjIInv, [ObjNext]_allVars PROVE ObjIInv'
  OBVIOUS
<1>1. CASE Next /\ UNCHANGED objVars
  <2>1. IInv'
    BY <1>1, NextIInv DEF ObjIInv
  <2>2. \A a \in Alcs \cup {Default} : loaded[a] \subseteq loaded'[a]
    BY <1>1, LoadedGrows DEF ObjIInv
  <2>3. ObjTypeOK'
    BY <1>1, <2>1 DEF ObjIInv, IInv, ObjTypeOK, objVars
  <2>4. CachedMethodsWereLoaded'
    BY <1>1, <2>2 DEF ObjIInv, ObjTypeOK, Assembly, CachedMethodsWereLoaded, objVars
  <2>5. MisdirectionNeedsReload'
    BY <1>1, <2>2 DEF ObjIInv, MisdirectionNeedsReload, objVars
  <2> QED
    BY <2>1, <2>3, <2>4, <2>5 DEF ObjIInv
<1>2. ASSUME NEW m \in Methods, NEW o \in Objects, InvokeMethod(o, m) PROVE ObjIInv'
  <2> DEFINE s == objects[o].handle
             t == objects[Target(s)].type
  <2>1. s \in Slots /\ gc_handles[s] # None /\ Target(s) = gc_handles[s]
    BY <1>2 DEF InvokeMethod, Target, ObjIInv, IInv, TypeOK, HostedObject
  <2>2. t \in Assembly /\ t.name \in loaded[t.alc]
    BY <2>1, LiveTypes, Fresh DEF ObjIInv, IInv, KnownTypesLoaded
  <2> QED
    BY <1>2, <2>2, CallStep DEF InvokeMethod
<1>3. ASSUME NEW m \in Methods, NEW t \in Assembly, InvokeStaticMethod(t, m)
      PROVE  ObjIInv'
  <2>1. t.name \in loaded[t.alc]
    BY <1>3 DEF InvokeStaticMethod, ObjIInv, IInv, KnownTypesLoaded
  <2> QED
    BY <1>3, <2>1, CallStep DEF InvokeStaticMethod
<1>4. CASE UNCHANGED allVars
  <2>1. IInv'
    BY <1>4, NextIInv DEF ObjIInv, allVars
  <2> QED
    BY <1>4, <2>1
    DEF ObjIInv, IInv, ObjTypeOK, CachedMethodsWereLoaded, MisdirectionNeedsReload,
        allVars, objVars, vars, runtimeVars
<1> QED
  BY <1>1, <1>2, <1>3, <1>4 DEF ObjNext, InvokeStep

(* The invariant of loader and method cache holds in every state. *)
THEOREM ObjInvariance == ObjSpec => []ObjIInv
BY ObjInitIInv, ObjNextIInv, PTL DEF ObjSpec

(* Without two contexts that have loaded an assembly of one name, no call ever gets the
   MethodInfo of another type than its own, for all the entries the cache keeps of
   contexts that are gone. *)
THEOREM CallsReachTheirType == ObjSpec => []MisdirectionNeedsReload
<1>1. ObjIInv => MisdirectionNeedsReload
  BY DEF ObjIInv
<1> QED
  BY <1>1, ObjInvariance, PTL

(* The cache never holds a MethodInfo under a name that its context has not loaded. *)
THEOREM CacheIsSound == ObjSpec => []CachedMethodsWereLoaded
<1>1. ObjIInv => CachedMethodsWereLoaded
  BY DEF ObjIInv
<1> QED
  BY <1>1, ObjInvariance, PTL
=============================================================================
