------------------------------ MODULE HostProofs ------------------------------
(* The life of the host and the registry of native objects, for every number of
   objects and handles. *)
EXTENDS Host, TLAPS

(* The first context that is opened starts the CLR, and a running CLR answers every
   later initialization with a code that LoadHost closes again: the one open context
   is the one that started it. *)
OpenedOnce == open_handles = IF clr_running THEN 1 ELSE 0

HostIInv ==
  /\ TypeOK
  /\ LoadedIsComplete
  /\ BoundIsInitialized
  /\ OpenedOnce

(* A process that has not loaded the host satisfies the invariant. *)
LEMMA HostInit == Init => HostIInv
<1> SUFFICES ASSUME Init PROVE HostIInv
  OBVIOUS
<1>1. RegistryTypeOK
  BY DEF Init, RegistryInit, RegistryTypeOK, TableStates
<1>2. TypeOK
  BY <1>1 DEF Init, TypeOK
<1>3. LoadedIsComplete /\ BoundIsInitialized /\ OpenedOnce
  BY DEF Init, RegistryInit, LoadedIsComplete, BoundIsInitialized, BoundToAsm, OpenedOnce
<1> QED
  BY <1>2, <1>3 DEF HostIInv

(* The actions of the object registry keep its shape. *)
LEMMA RegistryTyping ==
  ASSUME RegistryTypeOK, ObjectStep
  PROVE  RegistryTypeOK'
<1> USE DEF RegistryTypeOK, TableStates
<1>1. ASSUME NEW o \in NObjects, NEW h \in Handles \cup {None}, ConstructObject(o, h)
      PROVE  RegistryTypeOK'
  BY <1>1 DEF ConstructObject, RegisterObject
<1>2. ASSUME NEW o \in NObjects, NEW h \in Handles \cup {None}, WriteHandle(o, h)
      PROVE  RegistryTypeOK'
  BY <1>2 DEF WriteHandle
<1>3. ASSUME NEW o \in NObjects, NEW p \in NObjects, CopyObject(o, p) PROVE RegistryTypeOK'
  BY <1>3 DEF CopyObject
<1>4. ASSUME NEW o \in NObjects, DestroyNObject(o) PROVE RegistryTypeOK'
  BY <1>4, RegistryAssumption DEF DestroyNObject, UnregisterObject, Unregisters
<1>5. ASSUME NEW h \in Handles, InvokeNativeFunction(h) PROVE RegistryTypeOK'
  BY <1>5 DEF InvokeNativeFunction
<1> QED
  BY <1>1, <1>2, <1>3, <1>4, <1>5 DEF ObjectStep

(* Every call of the Host keeps the invariant. *)
LEMMA HostNext == HostIInv /\ [Next]_vars => HostIInv'
<1> SUFFICES ASSUME HostIInv, [Next]_vars PROVE HostIInv'
  OBVIOUS
<1> USE DEF LoadedIsComplete, BoundIsInitialized, BoundToAsm, OpenedOnce
<1>1. CASE HostStep /\ UNCHANGED registryVars
  <2>1. RegistryTypeOK' /\ UNCHANGED table
    BY <1>1 DEF HostIInv, TypeOK, RegistryTypeOK, registryVars, objectVars
  <2>2. CASE Instance \/ Destroy \/ UnloadHost
    <3>1. CASE Instance
      BY <2>1, <3>1 DEF HostIInv, TypeOK, Instance
    <3>2. CASE Destroy
      BY <2>1, <3>2 DEF HostIInv, TypeOK, Destroy
    <3>3. CASE UnloadHost
      BY <2>1, <3>3 DEF HostIInv, TypeOK, UnloadHost, Cleared
    <3> QED
      BY <2>2, <3>1, <3>2, <3>3
  <2>3. CASE LoadHostUnprepared
    <3> USE DEF LoadHostUnprepared
    <3>1. ended' \in {"config", "files", "libraries"} /\ rc' = "none"
      BY <2>3
    <3>2. TypeOK'
      BY <2>1, <2>3, <3>1 DEF HostIInv, TypeOK
    <3>3. LoadedIsComplete' /\ BoundIsInitialized' /\ OpenedOnce'
      BY <2>1, <2>3 DEF HostIInv
    <3> QED
      BY <3>2, <3>3 DEF HostIInv
  <2>4. CASE LoadHostFails
    <3>1. rc' \in SuccessCodes \cup {"Failure"}
      BY <2>4 DEF LoadHostFails, InitHostConfigCodes, SuccessCodes
    <3>2. CASE UNCHANGED <<clr_running, open_handles, entry>>
      <4>1. ended' \in {"init", "delegate", "entry"}
        BY <2>4 DEF LoadHostFails
      <4>2. UNCHANGED <<host, is_loaded, configured, managed_ready>> /\ coreclr' = TRUE
        BY <2>4 DEF LoadHostFails
      <4>3. TypeOK'
        BY <2>1, <3>1, <3>2, <4>1, <4>2 DEF HostIInv, TypeOK
      <4>4. LoadedIsComplete' /\ BoundIsInitialized' /\ OpenedOnce'
        BY <2>1, <3>2, <4>2 DEF HostIInv
      <4> QED
        BY <4>3, <4>4 DEF HostIInv
    <3>3. CASE /\ rc' = "Success"
               /\ ended' = "entry"
               /\ clr_running' = TRUE
               /\ open_handles' = open_handles + 1
               /\ entry' = FALSE
      <4>1. ~clr_running
        BY <2>4, <3>3 DEF LoadHostFails, InitHostConfigCodes, Accepted
      <4>2. open_handles' = 1
        BY <3>3, <4>1 DEF HostIInv
      <4>3. /\ UNCHANGED <<host, is_loaded, configured, managed_ready>>
            /\ coreclr' = TRUE
            /\ ~is_loaded
        BY <2>4 DEF LoadHostFails
      <4>4. TypeOK'
        <5>1. RegistryTypeOK' /\ open_handles' \in Nat /\ rc' \in SuccessCodes \cup {"Failure"}
          BY <2>1, <3>1, <4>2
        <5>2. /\ host' \in BOOLEAN /\ is_loaded' \in BOOLEAN /\ configured' \in BOOLEAN
              /\ managed_ready' \in BOOLEAN
          BY <4>3 DEF HostIInv, TypeOK
        <5> QED
          BY <3>3, <4>3, <5>1, <5>2 DEF TypeOK
      <4>5. LoadedIsComplete' /\ BoundIsInitialized' /\ OpenedOnce'
        BY <2>1, <3>3, <4>2, <4>3 DEF HostIInv
      <4> QED
        BY <4>4, <4>5 DEF HostIInv
    <3> QED
      BY <2>4, <3>2, <3>3 DEF LoadHostFails, Accepted
  <2>5. CASE LoadHost
    <3>1. ~clr_running
      BY <2>5 DEF LoadHost, InitHostConfigCodes, Accepted
    <3> QED
      BY <2>1, <2>5, <3>1 DEF HostIInv, TypeOK, LoadHost, Accepted, SuccessCodes
  <2> QED
    BY <1>1, <2>2, <2>3, <2>4, <2>5 DEF HostStep
<1>2. CASE CallEntryPoint \/ CallEntryPointThrows
  BY <1>2 DEF HostIInv, TypeOK, RegistryTypeOK, CallEntryPoint, CallEntryPointThrows,
              TableStates, hostVars, objectVars
<1>3. CASE ObjectStep /\ UNCHANGED hostVars
  <2>1. UNCHANGED table
    BY <1>3 DEF ObjectStep, ConstructObject, WriteHandle, CopyObject, DestroyNObject,
                InvokeNativeFunction
  <2>2. RegistryTypeOK'
    BY <1>3, RegistryTyping DEF HostIInv, TypeOK
  <2> QED
    BY <1>3, <2>1, <2>2 DEF HostIInv, TypeOK, hostVars
<1>4. CASE Unbind /\ UNCHANGED hostVars
  BY <1>4 DEF HostIInv, TypeOK, RegistryTypeOK, TableStates, Unbind, hostVars, objectVars
<1>5. CASE UNCHANGED vars
  BY <1>5 DEF HostIInv, TypeOK, RegistryTypeOK, vars, hostVars, registryVars, objectVars
<1> QED
  BY <1>1, <1>2, <1>3, <1>4, <1>5 DEF Next

(* The invariant holds in every state of the Host. *)
THEOREM HostInvariance == Spec => []HostIInv
BY HostInit, HostNext, PTL DEF Spec

(* The host, its table of functions and the registry of native objects keep their shape. *)
THEOREM HostTyping == Spec => []TypeOK
<1>1. HostIInv => TypeOK
  BY DEF HostIInv
<1> QED
  BY <1>1, HostInvariance, PTL

(* No sequence of loads, unloads and new hosts leaves a second hostfxr context open,
   although the code never closes the one it obtained its delegate from. *)
THEOREM OneContextOpen == Spec => []AtMostOneContextOpen
<1>1. HostIInv => AtMostOneContextOpen
  BY DEF HostIInv, OpenedOnce, AtMostOneContextOpen
<1> QED
  BY <1>1, HostInvariance, PTL

(* A host that counts as loaded has every piece of the chain that LoadHost builds, however
   often it was stopped half-way, unloaded and destroyed before. *)
THEOREM LoadedHostIsWhole == Spec => []LoadedIsComplete
<1>1. HostIInv => LoadedIsComplete
  BY DEF HostIInv
<1> QED
  BY <1>1, HostInvariance, PTL

(* Managed code is reachable only with the callbacks in place and a CLR running. *)
THEOREM BoundAfterEntryPoint == Spec => []BoundIsInitialized
<1>1. HostIInv => BoundIsInitialized
  BY DEF HostIInv
<1> QED
  BY <1>1, HostInvariance, PTL

-----------------------------------------------------------------------------

(* Without copies every proxy has one owner, which deletes it. *)
ProxiesOwned ==
  /\ \A o \in NObjects : proxy[o] = IF object_handle[o] = None THEN None ELSE o
  /\ \A o \in NObjects : object_handle[o] # None => o \in alive
  /\ deleted \subseteq born \ alive

RegistryIInv ==
  /\ RegistryTypeOK
  /\ RegisteredAlive
  /\ NoDeadObjectTouched
  /\ misused \/ ProxiesOwned
  /\ misused \/ table = "full" \/ \A h \in Handles : registered_objects[h] = None

(* The empty registry satisfies its invariant. *)
LEMMA RegistryInitIInv == Init => RegistryIInv
BY DEF Init, RegistryInit, RegistryIInv, RegistryTypeOK, TableStates, RegisteredAlive,
       NoDeadObjectTouched, ProxiesOwned

(* Every step keeps the invariant of the registry. *)
LEMMA RegistryNextIInv == RegistryIInv /\ [Next]_vars => RegistryIInv'
<1> SUFFICES ASSUME RegistryIInv, [Next]_vars PROVE RegistryIInv'
  OBVIOUS
<1> USE RegistryAssumption
    DEF RegistryIInv, RegistryTypeOK, TableStates, RegisteredAlive, NoDeadObjectTouched,
        BoundToAsm, NoProxy, Dangles, InvokesDead, Unregisters, ProxiesOwned
<1>1. CASE HostStep /\ UNCHANGED registryVars
  BY <1>1 DEF registryVars, objectVars
<1>2. CASE CallEntryPoint
  BY <1>2 DEF CallEntryPoint, objectVars
<1>3. CASE CallEntryPointThrows
  BY <1>3 DEF CallEntryPointThrows, objectVars
<1>4. ASSUME NEW o \in NObjects, NEW h \in Handles \cup {None}, ConstructObject(o, h)
      PROVE  RegistryIInv'
  BY <1>4 DEF ConstructObject, RegisterObject
<1>5. ASSUME NEW o \in NObjects, NEW h \in Handles \cup {None}, WriteHandle(o, h)
      PROVE  RegistryIInv'
  <2>1. RegistryTypeOK'
    BY <1>5 DEF WriteHandle
  <2>2. CASE misused'
    BY <1>5, <2>1, <2>2 DEF WriteHandle
  <2>3. CASE ~misused'
    <3>1. ~misused /\ h = object_handle[o]
      BY <1>5, <2>3 DEF WriteHandle
    <3>2. UNCHANGED registryVars
      BY <1>5, <2>3, <3>1 DEF WriteHandle, registryVars, objectVars
    <3> QED
      BY <2>1, <2>3, <3>1, <3>2 DEF registryVars, objectVars
  <2> QED
    BY <2>2, <2>3
<1>6. ASSUME NEW o \in NObjects, NEW p \in NObjects, CopyObject(o, p)
      PROVE  RegistryIInv'
  <2>1. RegistryTypeOK'
    BY <1>6 DEF CopyObject
  <2>2. UNCHANGED <<table, registered_objects, deleted, touched_dead>> /\ (misused => misused')
    BY <1>6 DEF CopyObject
  <2>3. CASE misused'
    BY <2>1, <2>2, <2>3
  <2>4. CASE ~misused'
    <3>1. UNCHANGED <<object_handle, proxy>> /\ ~misused
      <4>1. /\ ~misused
            /\ object_handle' = [object_handle EXCEPT ![o] = object_handle[p]]
            /\ proxy' = [proxy EXCEPT ![o] = proxy[p]]
            /\ object_handle'[o] = object_handle[o] /\ proxy'[o] = proxy[o]
        BY <1>6, <2>4 DEF CopyObject
      <4>2. object_handle[p] = object_handle[o] /\ proxy[p] = proxy[o]
        BY <4>1
      <4> QED
        BY <4>1, <4>2
    <3>2. alive' = alive \cup {o} /\ born' = born \cup {o} /\ (o \in alive \/ o \notin born)
      BY <1>6 DEF CopyObject
    <3>3. RegisteredAlive' /\ NoDeadObjectTouched'
      BY <2>2, <3>1, <3>2
    <3>4. ProxiesOwned'
      BY <2>2, <3>1, <3>2
    <3> QED
      BY <2>1, <2>2, <3>1, <3>3, <3>4
  <2> QED
    BY <2>3, <2>4
<1>7. ASSUME NEW o \in NObjects, DestroyNObject(o) PROVE RegistryIInv'
  BY <1>7 DEF DestroyNObject, UnregisterObject, Unregisters
<1>8. ASSUME NEW h \in Handles, InvokeNativeFunction(h) PROVE RegistryIInv'
  BY <1>8 DEF InvokeNativeFunction
<1>9. CASE Unbind
  BY <1>9 DEF Unbind, objectVars
<1>10. CASE UNCHANGED vars
  BY <1>10 DEF vars, registryVars, objectVars
<1> QED
  BY <1>1, <1>2, <1>3, <1>4, <1>5, <1>6, <1>7, <1>8, <1>9, <1>10
  DEF Next, ObjectStep

(* The registry leads a handle to a living NObject, or the application broke the
   discipline: a destructor takes its entry out before the storage is reused. *)
THEOREM RegistryLeadsToLive == Spec => []RegisteredAlive
<1>1. RegistryIInv => RegisteredAlive
  BY DEF RegistryIInv
<1> QED
  BY <1>1, RegistryInitIInv, RegistryNextIInv, PTL DEF Spec

(* As long as handles are not rewritten, NObjects not copied and a full table not bound
   again in part, managed code never reaches an NObject that was destroyed, whatever handles objects
   share, and however often the table is bound and unbound. *)
THEOREM NoDanglingCall == Spec => [](RegisteredAlive /\ NoDeadObjectTouched)
<1>1. RegistryIInv => RegisteredAlive /\ NoDeadObjectTouched
  BY DEF RegistryIInv
<1> QED
  BY <1>1, RegistryInitIInv, RegistryNextIInv, PTL DEF Spec
=============================================================================
