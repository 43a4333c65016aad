-------------------------- MODULE InternalCallsProofs --------------------------
(* Where uploaded function pointers end up, for every set of assemblies, hash function,
   number of contexts and of calls. *)
EXTENDS InternalCalls, AssemblyLoaderProofs

CallsIInv ==
  /\ IInv
  /\ CallsTypeOK
  /\ PointersLeadHome

(* Nothing is loaded and no call is set when the process starts. *)
LEMMA CallsInitIInv == CallsInit => CallsIInv
<1> SUFFICES ASSUME CallsInit PROVE CallsIInv
  OBVIOUS
<1>1. IInv
  BY InitIInv DEF CallsInit
<1>2. CallsTypeOK
  <2>1. <<>> \in Seq(Call) /\ TypeOK
    BY <1>1 DEF IInv
  <2>2. internal_calls \in [Assembly -> Seq(Call)]
    BY <2>1 DEF CallsInit
  <2> QED
    BY <2>1, <2>2 DEF CallsInit, CallsTypeOK
<1>3. PointersLeadHome
  BY DEF CallsInit, PointersLeadHome
<1> QED
  BY <1>1, <1>2, <1>3 DEF CallsIInv

(* An upload registers what it finds, and disturbs nothing else of the loader. *)
LEMMA UploadKeepsLoader ==
  ASSUME IInv, NEW x \in Assembly, NEW y \in Assembly, UploadInternalCalls(x, y)
  PROVE  /\ IInv'
         /\ assemblies[Hash[y.name]] \in {None, y}
         /\ assemblies'[Hash[y.name]] = y
         /\ y.alc \in LoadedContexts \cup {Default}
<1> USE DEF UploadInternalCalls, objectVars, runtimeVars
<1>1. y.name = x.name /\ y.name \in Names /\ Hash[y.name] \in Ids
  BY Hashes DEF Assembly
<1>2. /\ y.alc \in LoadedContexts \cup {Default}
      /\ assemblies[Hash[y.name]] \in {None, y}
      /\ assemblies' = [assemblies EXCEPT ![Hash[y.name]] = y]
  BY <1>1, ResolvedIsRegistered DEF IInv
<1>3. /\ assemblies' \in [Ids -> Assembly \cup {None}]
      /\ \A i \in Ids : assemblies[i] # None => assemblies'[i] = assemblies[i]
      /\ \A i \in Ids : assemblies'[i] # None =>
            /\ Hash[assemblies'[i].name] = i
            /\ assemblies'[i].name \in loaded[assemblies'[i].alc]
            /\ assemblies'[i].alc \in LoadedContexts \cup {Default}
  BY <1>1, RegistrationStep
<1>4. TypeOK' /\ LoadedContexts' = LoadedContexts
  BY <1>3 DEF IInv, TypeOK, LoadedContexts
<1>5. ContextsDistinct' /\ NativeContextsAgree' /\ HandlesRecorded'
  BY <1>4 DEF IInv, ContextsDistinct, NativeContextsAgree, HandlesRecorded
<1>6. RegisteredAreLoaded' /\ KnownTypesLoaded'
  BY <1>3, <1>4 DEF IInv, RegisteredAreLoaded, KnownTypesLoaded
<1>7. AcceptedTypesAnchored' /\ NoHandleOutlivesContext'
  BY <1>4, AnchorsKept DEF IInv
<1>8. TypeByNameIsRegistered'
  <2> SUFFICES ASSUME NEW m \in Names, name_cache[m] \in cached_types
               PROVE  \/ assemblies'[Hash[m]] = name_cache[m]
                      \/ \E z \in Assembly : <<z, name_cache[m]>> \in bound
    BY DEF TypeByNameIsRegistered
  <2>1. Hash[m] \in Ids /\ name_cache[m] # None
    BY Hashes, Fresh DEF IInv, TypeOK
  <2> QED
    BY <1>3, <2>1 DEF IInv, TypeByNameIsRegistered
<1>9. assemblies'[Hash[y.name]] = y
  BY <1>1, <1>2 DEF IInv, TypeOK
<1>10. UnfreedHandlesHold'
  BY <1>4, UnfreedKept DEF IInv
<1> QED
  BY <1>2, <1>4, <1>5, <1>6, <1>7, <1>8, <1>9, <1>10 DEF IInv

(* What an upload makes of a pointer: it stays, or leads to a function that the object
   was given for it. *)
LEMMA WrittenPointer ==
  ASSUME CallsTypeOK, NEW x \in Assembly, NEW y \in Assembly, NEW d \in Delegates
  PROVE  \/ Written(x, y, d) = pointers[<<y, d>>]
         \/ /\ Written(x, y, d) \in Pointer
            /\ Written(x, y, d).by = x
            /\ Given(x, d, Written(x, y, d).fn)
<1> DEFINE calls == internal_calls[x]
           i == CHOOSE k \in DOMAIN calls : LastCall(calls, d, k)
<1>1. CASE \E k \in DOMAIN calls : LastCall(calls, d, k)
  <2>1. i \in DOMAIN calls /\ calls[i].delegate = d
    BY <1>1 DEF LastCall
  <2>2. calls[i] \in Call
    BY <2>1 DEF CallsTypeOK
  <2>3. calls[i] = [delegate |-> d, fn |-> calls[i].fn] /\ calls[i].fn \in Functions
    BY <2>1, <2>2 DEF Call
  <2>4. Written(x, y, d) = [by |-> x, fn |-> calls[i].fn]
    BY <1>1 DEF Written
  <2> QED
    <3>1. Given(x, d, calls[i].fn)
      BY <2>1, <2>3 DEF Given
    <3>2. Written(x, y, d).fn = calls[i].fn /\ Written(x, y, d).by = x
      BY <2>4
    <3>3. Written(x, y, d) \in Pointer
      BY <2>3, <2>4 DEF Pointer
    <3> QED
      BY <3>1, <3>2, <3>3
<1>2. CASE ~\E k \in DOMAIN calls : LastCall(calls, d, k)
  BY <1>2 DEF Written
<1> QED
  BY <1>1, <1>2

(* A step of the loader leaves calls and pointers alone. *)
LEMMA LoaderKeepsCalls ==
  ASSUME CallsIInv, LoaderStep
  PROVE  CallsIInv'
<1>1. IInv'
  BY NextIInv DEF CallsIInv, LoaderStep
<1>2. CallsTypeOK'
  BY <1>1 DEF CallsIInv, CallsTypeOK, LoaderStep, IInv
<1>3. PointersLeadHome'
  BY DEF CallsIInv, PointersLeadHome, LoaderStep, Given
<1> QED
  BY <1>1, <1>2, <1>3 DEF CallsIInv

(* A call that is set is added to the calls of its object, which all stay. *)
LEMMA SetKeepsCalls ==
  ASSUME CallsIInv, NEW x \in Assembly, NEW d \in Delegates, NEW f \in Functions,
         SetInternalCall(x, d, f)
  PROVE  CallsIInv'
<1> DEFINE c == [delegate |-> d, fn |-> f]
<1> USE DEF SetInternalCall
<1>1. IInv' /\ TypeOK'
  BY NextIInv DEF CallsIInv, IInv
<1>2. c \in Call /\ internal_calls \in [Assembly -> Seq(Call)]
  BY DEF CallsIInv, CallsTypeOK, Call
<1>3. /\ internal_calls' \in [Assembly -> Seq(Call)]
      /\ \A z \in Assembly : \A i \in DOMAIN internal_calls[z] :
            /\ i \in DOMAIN internal_calls'[z]
            /\ internal_calls'[z][i] = internal_calls[z][i]
  BY <1>2
<1>4. CallsTypeOK'
  BY <1>1, <1>3 DEF CallsIInv, CallsTypeOK
<1>5. PointersLeadHome'
  <2> SUFFICES ASSUME NEW y \in Assembly, NEW e \in Delegates, pointers[<<y, e>>] # None
               PROVE  LET p == pointers[<<y, e>>]
                      IN /\ p.by.name = y.name
                         /\ Given(p.by, e, p.fn)'
    BY DEF PointersLeadHome
  <2> DEFINE p == pointers[<<y, e>>]
  <2>1. p \in Pointer /\ p.by \in Assembly
    BY DEF CallsIInv, CallsTypeOK, Pointer
  <2>2. /\ p.by.name = y.name
        /\ Given(p.by, e, p.fn)
    BY DEF CallsIInv, PointersLeadHome
  <2> QED
    BY <1>3, <2>1, <2>2 DEF Given
<1> QED
  BY <1>1, <1>4, <1>5 DEF CallsIInv

(* An upload writes functions of its own object, into a namesake. *)
LEMMA UploadKeepsCalls ==
  ASSUME CallsIInv, NEW x \in Assembly, NEW y \in Assembly, UploadInternalCalls(x, y)
  PROVE  CallsIInv'
<1> USE DEF UploadInternalCalls
<1>1. IInv' /\ TypeOK'
  BY UploadKeepsLoader DEF CallsIInv, IInv
<1>2. \A e \in Assembly \X Delegates :
         \/ pointers'[e] = pointers[e]
         \/ /\ e[1] = y
            /\ pointers'[e] \in Pointer
            /\ pointers'[e].by = x
            /\ Given(x, e[2], pointers'[e].fn)
  <2> TAKE e \in Assembly \X Delegates
  <2>1. e[1] \in Assembly /\ e[2] \in Delegates /\ e = <<e[1], e[2]>>
    OBVIOUS
  <2>2. CASE e[1] = y /\ e[2] \in HasDelegate[y.name]
    <3>1. pointers'[e] = Written(x, y, e[2])
      BY <2>2
    <3> QED
      BY <2>1, <2>2, <3>1, WrittenPointer DEF CallsIInv
  <2>3. CASE ~(e[1] = y /\ e[2] \in HasDelegate[y.name])
    BY <2>3
  <2> QED
    BY <2>2, <2>3
<1>3. CallsTypeOK'
  <2>1. \A e \in Assembly \X Delegates : pointers'[e] \in Pointer \cup {None}
    BY <1>2 DEF CallsIInv, CallsTypeOK
  <2>2. pointers' \in [Assembly \X Delegates -> Pointer \cup {None}]
    BY <2>1
  <2> QED
    BY <1>1, <2>2 DEF CallsIInv, CallsTypeOK
<1>4. PointersLeadHome'
  <2> SUFFICES ASSUME NEW z \in Assembly, NEW d \in Delegates, pointers'[<<z, d>>] # None
               PROVE  /\ pointers'[<<z, d>>].by.name = z.name
                      /\ Given(pointers[<<z, d>>].by, d, pointers[<<z, d>>].fn)'
    BY DEF PointersLeadHome
  <2>0. UNCHANGED internal_calls
    OBVIOUS
  <2>1. CASE pointers'[<<z, d>>] = pointers[<<z, d>>]
    <3>1. /\ pointers[<<z, d>>].by.name = z.name
          /\ Given(pointers[<<z, d>>].by, d, pointers[<<z, d>>].fn)
      BY <2>1 DEF CallsIInv, PointersLeadHome
    <3> QED
      BY <2>0, <2>1, <3>1 DEF Given
  <2>2. CASE pointers'[<<z, d>>] # pointers[<<z, d>>]
    <3>1. /\ z = y
          /\ pointers'[<<z, d>>].by = x
          /\ Given(x, d, pointers'[<<z, d>>].fn)
      BY <1>2, <2>2
    <3> QED
      BY <2>0, <3>1 DEF Given
  <2> QED
    BY <2>1, <2>2
<1> QED
  BY <1>1, <1>3, <1>4 DEF CallsIInv

(* Every step keeps the invariant. *)
LEMMA CallsNextIInv == CallsIInv /\ [CallsNext]_allVars => CallsIInv'
<1> SUFFICES ASSUME CallsIInv, [CallsNext]_allVars PROVE CallsIInv'
  OBVIOUS
<1>1. ASSUME NEW x \in Assembly, UploadDanglingCalls(x) PROVE CallsIInv'
  <2>1. IInv' /\ TypeOK'
    BY <1>1, NextIInv DEF UploadDanglingCalls, CallsIInv, IInv
  <2> QED
    BY <1>1, <2>1 DEF UploadDanglingCalls, CallsIInv, CallsTypeOK, PointersLeadHome, Given
<1>2. CASE UNCHANGED allVars
  <2>1. IInv' /\ TypeOK'
    BY <1>2, NextIInv DEF allVars, CallsIInv, IInv
  <2>2. UNCHANGED callVars
    BY <1>2 DEF allVars
  <2>3. CallsTypeOK' /\ PointersLeadHome'
    BY <2>1, <2>2 DEF callVars, CallsIInv, CallsTypeOK, PointersLeadHome, Given
  <2> QED
    BY <2>1, <2>3 DEF CallsIInv
<1> QED
  BY <1>1, <1>2, LoaderKeepsCalls, SetKeepsCalls, UploadKeepsCalls DEF CallsNext, CallStep

-----------------------------------------------------------------------------

(* The invariant holds in every state. *)
THEOREM CallsInvariance == CallsSpec => []CallsIInv
BY CallsInitIInv, CallsNextIInv, PTL DEF CallsSpec

(* Whatever is loaded, unloaded and uploaded, a pointer of a plugin leads to a function
   that an Assembly object of the plugin's name was given for it. *)
THEOREM PointersAreHome == CallsSpec => []PointersLeadHome
<1>1. CallsIInv => PointersLeadHome
  BY DEF CallsIInv
<1> QED
  BY <1>1, CallsInvariance, PTL

(* Which step changes a pointer, and to what. *)
LEMMA OnlyUploadsWrite ==
  ASSUME CallsIInv, CallsNext, NEW y \in Assembly, NEW d \in Delegates,
         pointers'[<<y, d>>] # pointers[<<y, d>>]
  PROVE  \E x \in Assembly : UploadInternalCalls(x, y) /\ pointers'[<<y, d>>].by = x
<1>1. PICK x \in Assembly, z \in Assembly : UploadInternalCalls(x, z)
  BY DEF CallsNext, CallStep, LoaderStep, SetInternalCall, UploadDanglingCalls
<1>2. z = y /\ pointers'[<<y, d>>] = Written(x, y, d)
  BY <1>1 DEF UploadInternalCalls
<1>3. Written(x, y, d) # pointers[<<y, d>>] /\ CallsTypeOK
  BY <1>2 DEF CallsIInv
<1>4. pointers'[<<y, d>>].by = x
  BY <1>2, <1>3, WrittenPointer
<1> QED
  BY <1>1, <1>2, <1>4

(* An upload only writes into a version of the plugin that is registered and loaded,
   even when the context of its own object is gone. *)
THEOREM UploadsReachLoaded == CallsSpec => WritesReachLoaded
<1> DEFINE Reaches == \A y \in Assembly : Changes(y) =>
                         /\ assemblies'[Hash[y.name]] = y
                         /\ y.alc \in LoadedContexts \cup {Default}
<1>1. CallsIInv /\ [CallsNext]_allVars => [Reaches]_allVars
  <2> SUFFICES ASSUME CallsIInv, CallsNext, NEW y \in Assembly, Changes(y)
               PROVE  /\ assemblies'[Hash[y.name]] = y
                      /\ y.alc \in LoadedContexts \cup {Default}
    OBVIOUS
  <2>1. PICK x \in Assembly : UploadInternalCalls(x, y)
    BY OnlyUploadsWrite DEF Changes
  <2> QED
    BY <2>1, UploadKeepsLoader DEF CallsIInv
<1> QED
  BY <1>1, CallsInvariance, PTL DEF CallsSpec, WritesReachLoaded

(* An object whose own assembly is registered writes into no other version. *)
THEOREM StaleObjectsOnly == CallsSpec => OnlyStaleObjectsMisroute
<1> DEFINE Stale == \A y \in Assembly, d \in Delegates :
                       LET p == pointers'[<<y, d>>]
                       IN p # pointers[<<y, d>>] /\ p.by # y => assemblies[Hash[y.name]] # p.by
<1>1. CallsIInv /\ [CallsNext]_allVars => [Stale]_allVars
  <2> SUFFICES ASSUME CallsIInv, CallsNext, NEW y \in Assembly, NEW d \in Delegates,
                      pointers'[<<y, d>>] # pointers[<<y, d>>], pointers'[<<y, d>>].by # y
               PROVE  assemblies[Hash[y.name]] # pointers'[<<y, d>>].by
    OBVIOUS
  <2>1. PICK x \in Assembly : UploadInternalCalls(x, y) /\ pointers'[<<y, d>>].by = x
    BY OnlyUploadsWrite
  <2>2. assemblies[Hash[y.name]] \in {None, y}
    BY <2>1, UploadKeepsLoader DEF CallsIInv
  <2> QED
    BY <2>1, <2>2, Fresh
<1> QED
  BY <1>1, CallsInvariance, PTL DEF CallsSpec, OnlyStaleObjectsMisroute

(* An upload takes every call of its object that the type has a field for, the last one
   on each field. *)
LEMMA UploadTakesLast ==
  ASSUME CallsTypeOK, NEW x \in Assembly, NEW y \in Assembly, UploadInternalCalls(x, y),
         NEW i \in DOMAIN internal_calls[x],
         internal_calls[x][i].delegate \in HasDelegate[y.name],
         \A j \in DOMAIN internal_calls[x] :
            internal_calls[x][j].delegate = internal_calls[x][i].delegate => j <= i
  PROVE  pointers'[<<y, internal_calls[x][i].delegate>>] = [by |-> x, fn |-> internal_calls[x][i].fn]
<1> DEFINE calls == internal_calls[x]
           d == calls[i].delegate
           k == CHOOSE j \in DOMAIN calls : LastCall(calls, d, j)
<1>1. calls \in Seq(Call) /\ \A j \in DOMAIN calls : j \in Nat
  BY DEF CallsTypeOK
<1>2. calls[i] \in Call /\ d \in Delegates
  <2>1. calls[i] \in Call
    BY <1>1
  <2> QED
    BY <2>1 DEF Call
<1>3. LastCall(calls, d, i)
  BY DEF LastCall
<1>4. k \in DOMAIN calls /\ LastCall(calls, d, k)
  BY <1>3
<1>5. k = i
  <2>1. k <= i /\ i <= k
    BY <1>3, <1>4 DEF LastCall
  <2> HIDE DEF k, calls
  <2> QED
    BY <1>1, <1>4, <2>1 DEF calls
<1>6. Written(x, y, d) = [by |-> x, fn |-> calls[i].fn]
  BY <1>3, <1>5 DEF Written
<1>7. pointers'[<<y, d>>] = Written(x, y, d)
  BY <1>2 DEF UploadInternalCalls
<1> QED
  BY <1>6, <1>7

(* One upload is one version of the functions: a type that it changes has all of them
   from the one Assembly object, the function set last for each field. *)
THEOREM UploadsAreWhole == CallsSpec => UploadIsWhole
<1> DEFINE Whole == \A y \in Assembly : Changes(y) =>
                       \E x \in native_assemblies :
                          \A i \in DOMAIN internal_calls[x] :
                             LET c == internal_calls[x][i]
                             IN /\ c.delegate \in HasDelegate[y.name]
                                /\ \A j \in DOMAIN internal_calls[x] :
                                      internal_calls[x][j].delegate = c.delegate => j <= i
                                => pointers'[<<y, c.delegate>>] = [by |-> x, fn |-> c.fn]
<1>1. CallsIInv /\ [CallsNext]_allVars => [Whole]_allVars
  <2> SUFFICES ASSUME CallsIInv, CallsNext, NEW y \in Assembly, Changes(y)
               PROVE  \E x \in native_assemblies :
                         \A i \in DOMAIN internal_calls[x] :
                            LET c == internal_calls[x][i]
                            IN /\ c.delegate \in HasDelegate[y.name]
                               /\ \A j \in DOMAIN internal_calls[x] :
                                     internal_calls[x][j].delegate = c.delegate => j <= i
                               => pointers'[<<y, c.delegate>>] = [by |-> x, fn |-> c.fn]
    OBVIOUS
  <2>1. PICK x \in Assembly : UploadInternalCalls(x, y)
    BY OnlyUploadsWrite DEF Changes
  <2>2. x \in native_assemblies /\ CallsTypeOK
    BY <2>1 DEF UploadInternalCalls, CallsIInv
  <2>3. \A i \in DOMAIN internal_calls[x] :
           LET c == internal_calls[x][i]
           IN /\ c.delegate \in HasDelegate[y.name]
              /\ \A j \in DOMAIN internal_calls[x] :
                    internal_calls[x][j].delegate = c.delegate => j <= i
              => pointers'[<<y, c.delegate>>] = [by |-> x, fn |-> c.fn]
    BY <2>1, <2>2, UploadTakesLast
  <2> QED
    BY <2>2, <2>3
<1> QED
  BY <1>1, CallsInvariance, PTL DEF CallsSpec, UploadIsWhole
=============================================================================
