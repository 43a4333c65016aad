---------------------------- MODULE AssemblyLoader ----------------------------
(***************************************************************************)
(* The life of a plugin: a native AssemblyContext (hosting/assembly.cpp,   *)
(* hosting/host.cpp) drives a collectible AssemblyLoadContext through the  *)
(* managed AssemblyLoader, types of the loaded assemblies are cached on    *)
(* both sides, and HostedObjects keep managed objects alive through GC     *)
(* handles until their context is unloaded.                                *)
(*                                                                         *)
(* The API is called by one native thread at a time, so one action is one  *)
(* whole native call with every managed call it makes.  The types of an    *)
(* assembly are cached together; one type stands for all of them, so a     *)
(* type is the assembly that defines it.                                   *)
(***************************************************************************)
EXTENDS Naturals, FiniteSets

CONSTANTS
  CtxNames,      \* names passed to Host::CreateAsmContext
  AsmNames,      \* simple names of the plugin assemblies on disk
  HostNames,     \* simple names of the assemblies of DotOther's own context
  References,    \* References[n]: the assemblies that members of assembly n mention
  Hash,          \* string.GetHashCode of every name, the key of three dictionaries
  Ids,           \* the hash codes in use
  Alcs,          \* identities of AssemblyLoadContext instances
  Slots,         \* entries of the runtime's GC handle table
  Objects,       \* identities of managed objects
  CtxVars,       \* AssemblyContext variables of the application
  Default,       \* DotOther's own load context
  None, NoId     \* no entry; the -1 of the native side

Names == AsmNames \cup HostNames

(* An assembly instance: the context it was loaded into and its name. *)
Assembly == [alc : Alcs \cup {Default}, name : Names]

(* A HostedObject: the type it was made from, the kind of its handle, the handle. *)
HostedObject == [type : Assembly, weak : BOOLEAN, handle : Slots]

ASSUME ConstantsAssumption ==
  /\ Hash \in [CtxNames \cup Names -> Ids]
  /\ References \in [AsmNames -> SUBSET Names]
  /\ \A m, n \in HostNames : Hash[m] = Hash[n] => m = n
  /\ Default \notin Alcs
  /\ NoId \notin Ids
  /\ None \notin Alcs \cup Objects \cup Assembly \cup HostedObject

VARIABLES
  (* AssemblyLoader.cs *)
  contexts,          \* id -> AssemblyLoadContext, or None
  assemblies,        \* id -> Assembly, or None
  handles,           \* id -> the GC handles recorded for assemblies of that id
  (* InteropInterface.cs: the types of cached_types, whose ids the native side has *)
  cached_types,
  (* the .NET runtime *)
  created,           \* the load contexts created so far
  loaded,            \* load context -> names in its Assemblies collection
  bound,             \* <<x, y>>: a reference of assembly x was resolved to y
  gc_handles,        \* slot -> object, or None for a free slot
  collected,         \* objects whose only handle was weak and that are gone
  running,           \* FALSE once an unhandled exception ended the process or a double
                     \* free broke gc_handles: what happens then is not modelled
  (* the native side *)
  asm_contexts,      \* variable -> AssemblyContext
  name_cache,        \* name -> type, TypeCache::name_cache
  objects,           \* object -> what its HostedObject was made from, or None
  destroyed          \* objects the application passed to destroy_object

loaderVars == <<contexts, assemblies, handles>>
runtimeVars == <<created, loaded, bound, running>>
objectVars == <<gc_handles, collected, objects, destroyed>>
vars == <<loaderVars, cached_types, runtimeVars, asm_contexts, name_cache, objectVars>>

-----------------------------------------------------------------------------

AsmContext == [context_id : Ids \cup {NoId}, assemblies : SUBSET Ids]

NoContext == [context_id |-> NoId, assemblies |-> {}]

(* contexts.Values *)
LoadedContexts == {contexts[i] : i \in Ids} \ {None}

(* GCHandle.Target: null for a free slot and for a collected object. *)
Target(s) == IF gc_handles[s] \in collected THEN None ELSE gc_handles[s]

(* dotother_asm_context holds DotOther.Managed when the loader starts, and
   CacheDotOtherAssemblies registers it. *)
Init ==
  /\ contexts = [i \in Ids |-> None]
  /\ assemblies = [i \in Ids |->
                     IF \E n \in HostNames : Hash[n] = i
                     THEN [alc |-> Default, name |-> CHOOSE n \in HostNames : Hash[n] = i]
                     ELSE None]
  /\ handles = [i \in Ids |-> {}]
  /\ cached_types = {}
  /\ created = {}
  /\ loaded = [a \in Alcs \cup {Default} |-> IF a = Default THEN HostNames ELSE {}]
  /\ bound = {}
  /\ gc_handles = [s \in Slots |-> None]
  /\ collected = {}
  /\ running = TRUE
  /\ asm_contexts = [v \in CtxVars |-> NoContext]
  /\ name_cache = [n \in Names |-> None]
  /\ objects = [o \in Objects |-> None]
  /\ destroyed = {}

-----------------------------------------------------------------------------
(* Contexts *)

(* Mutation of FreeId: the indexer instead of contexts.Add takes any id. *)
AnyId(id) == TRUE

(* contexts.Add(id, _) succeeds. *)
FreeId(id) == contexts[id] = None

(* Host::CreateAsmContext into a variable that holds no context. *)
CreateAsmContext(v, n, a) ==
  /\ asm_contexts[v] = NoContext
  /\ FreeId(Hash[n])
  /\ a \notin created
  /\ created' = created \cup {a}
  /\ contexts' = [contexts EXCEPT ![Hash[n]] = a]
  /\ asm_contexts' = [asm_contexts EXCEPT ![v].context_id = Hash[n]]
  /\ UNCHANGED <<assemblies, handles, cached_types, loaded, bound,
                 running, name_cache, objectVars>>

(* contexts.Add throws for an id that is in use; nothing catches the exception
   on its way out of an UnmanagedCallersOnly method, which ends the process. *)
CreateDuplicateContext(v, n) ==
  /\ asm_contexts[v] = NoContext
  /\ ~FreeId(Hash[n])
  /\ running' = FALSE
  /\ UNCHANGED <<loaderVars, cached_types, created, loaded, bound, asm_contexts,
                 name_cache, objectVars>>

(* Mutations of FreedByUnload: only the handles of assemblies that are registered as the context's are
   freed; every handle is freed. *)
FreedOfRegistered(a) ==
  {s \in Slots : \E n \in loaded[a] : s \in handles[Hash[n]]
                                      /\ assemblies[Hash[n]] = [alc |-> a, name |-> n]}
FreedOfAll(a) == Slots

(* The handles that UnloadAssemblyLoadContext frees: the list of every assembly of
   the context is walked, whoever owns the slot by now. *)
FreedByUnload(a) ==
  {s \in Slots : /\ Target(s) # None
                 /\ \E n \in loaded[a] : s \in handles[Hash[n]]}

(* Mutation of Unregistered: only ids that an unload has handles for are unregistered. *)
UnregisteredWithHandles(a) == {Hash[n] : n \in {m \in loaded[a] : handles[Hash[m]] # {}}}

(* The ids that the Unloading handler removes from assemblies. *)
Unregistered(a) == {Hash[n] : n \in loaded[a]}

(* Mutation of ClearCaches: the caches are kept. *)
KeepCaches == UNCHANGED cached_types

ClearCaches == cached_types' = {}

(* AssemblyLoader.UnloadAssemblyLoadContext with the Unloading handler. *)
UnloadAssemblyLoadContext(id) ==
  /\ gc_handles' = [s \in Slots |-> IF s \in FreedByUnload(contexts[id]) THEN None
                                   ELSE gc_handles[s]]
  /\ ClearCaches
  /\ contexts' = [contexts EXCEPT ![id] = None]
  /\ assemblies' = [i \in Ids |-> IF i \in Unregistered(contexts[id]) THEN None
                                  ELSE assemblies[i]]

(* Host::UnloadAssemblyContext on a context that is loaded: the managed unload, then
   the reset of the native AssemblyContext. *)
UnloadAssemblyContext(v) ==
  LET id == asm_contexts[v].context_id
  IN /\ id # NoId
     /\ contexts[id] # None
     /\ UnloadAssemblyLoadContext(id)
     /\ asm_contexts' = [asm_contexts EXCEPT ![v] = NoContext]
     /\ UNCHANGED <<handles, runtimeVars, name_cache, collected, objects, destroyed>>

-----------------------------------------------------------------------------
(* Assemblies *)

(* Mutation of AddTaken: the indexer replaces the assembly that has the id. *)
ReplaceTaken(a, n) == assemblies' = [assemblies EXCEPT ![Hash[n]] = [alc |-> a, name |-> n]]

(* assemblies.Add(id, _) throws for an id that is taken. *)
AddTaken(a, n) == UNCHANGED assemblies

(* Mutation of ReturnFailure: the assembly is listed under the id -1. *)
ListFailure(v) == asm_contexts' = [asm_contexts EXCEPT ![v].assemblies = @ \cup {NoId}]

(* AssemblyContext::LoadAssembly returns before it lists an assembly with the id -1. *)
ReturnFailure(v) == UNCHANGED asm_contexts

(* LoadFromStream puts the assembly into the context before assemblies.Add finds
   that its id is taken; the call fails and the assembly stays. *)
LoadAssemblyNameTaken(v, n) ==
  LET id == asm_contexts[v].context_id IN
  /\ id # NoId
  /\ n \notin loaded[contexts[id]]
  /\ assemblies[Hash[n]] # None
  /\ loaded' = [loaded EXCEPT ![contexts[id]] = @ \cup {n}]
  /\ AddTaken(contexts[id], n)
  /\ ReturnFailure(v)
  /\ UNCHANGED <<contexts, handles, cached_types, created, bound, running,
                 name_cache, objectVars>>

(* AssemblyContext::LoadAssembly: load, read the types, cache each of them.  The calls
   that fail before LoadFromStream returns (no such file, no such context, a name that
   the context has already) change nothing but last_load_status, which the native side
   reads after a success only. *)
LoadAssembly(v, n) ==
  LET id == asm_contexts[v].context_id
      asm == [alc |-> contexts[id], name |-> n]
  IN /\ id # NoId
     /\ n \notin loaded[contexts[id]]
     /\ assemblies[Hash[n]] = None
     /\ loaded' = [loaded EXCEPT ![contexts[id]] = @ \cup {n}]
     /\ assemblies' = [assemblies EXCEPT ![Hash[n]] = asm]
     /\ asm_contexts' = [asm_contexts EXCEPT ![v].assemblies = @ \cup {Hash[n]}]
     /\ cached_types' = cached_types \cup {asm}
     /\ name_cache' = [name_cache EXCEPT ![n] = asm]
     /\ UNCHANGED <<contexts, handles, created, bound, running, objectVars>>

(* Mutation of ResolveAssembly: contexts that were unloaded are searched too. *)
ResolveAmongCreated(n, y) ==
  \/ /\ assemblies[Hash[n]] = y
     /\ y # None
     /\ UNCHANGED assemblies
  \/ /\ assemblies[Hash[n]] = None
     /\ \E a \in created : n \in loaded[a] /\ y = [alc |-> a, name |-> n]
     /\ assemblies' = [assemblies EXCEPT ![Hash[n]] = y]

(* Mutation of ResolveAssembly: the table is not asked. *)
ResolveInContexts(n, y) ==
  /\ \E a \in LoadedContexts : n \in loaded[a] /\ y = [alc |-> a, name |-> n]
  /\ assemblies' = [assemblies EXCEPT ![Hash[n]] = y]

(* AssemblyLoader.ResolveAssembly(_, n) returns y: the registered assembly, or else
   the first one of that name in any loaded context, which gets registered.  The
   order of contexts.Values is left open. *)
ResolveAssembly(n, y) ==
  \/ /\ assemblies[Hash[n]] = y
     /\ y # None
     /\ UNCHANGED assemblies
  \/ /\ assemblies[Hash[n]] = None
     /\ \E a \in LoadedContexts : n \in loaded[a] /\ y = [alc |-> a, name |-> n]
     /\ assemblies' = [assemblies EXCEPT ![Hash[n]] = y]

(* The runtime needs assembly n for code of x: x's own context is asked first, then
   its Resolving event, whose answer must have the name asked for. *)
BindReference(x, n, y) ==
  /\ x.alc \in LoadedContexts
  /\ x.name \in loaded[x.alc]
  /\ n \in References[x.name]
  /\ y.name = n
  /\ \A z \in Assembly : <<x, z>> \in bound => z.name # n
  /\ IF n \in loaded[x.alc]
     THEN y = [alc |-> x.alc, name |-> n] /\ UNCHANGED assemblies
     ELSE ResolveAssembly(n, y)
  /\ bound' = bound \cup {<<x, y>>}
  /\ UNCHANGED <<contexts, handles, cached_types, created, loaded,
                 running, asm_contexts, name_cache, objectVars>>

-----------------------------------------------------------------------------
(* Types *)

(* get_type_id: InteropInterface.FindType resolves the assembly of an assembly
   qualified name; the application makes a Type of the id. *)
GetTypeId(n, y) ==
  /\ y.name = n
  /\ ResolveAssembly(n, y)
  /\ cached_types' = cached_types \cup {y}
  /\ UNCHANGED <<contexts, handles, runtimeVars, asm_contexts,
                 name_cache, objectVars>>

(* Field::GetType, Method::GetReturnType, Method::ParamTypes: a member of t mentions a
   type of an assembly that t's assembly is bound to; both sides cache that type. *)
MemberType(t, b) ==
  /\ t \in cached_types
  /\ <<t, b>> \in bound
  /\ cached_types' = cached_types \cup {b}
  /\ name_cache' = [name_cache EXCEPT ![b.name] = b]
  /\ UNCHANGED <<loaderVars, runtimeVars, asm_contexts, objectVars>>

-----------------------------------------------------------------------------
(* Objects *)

(* Mutation of RegisterHandle: a new list takes the place of the one that is there. *)
RegisterOnlyHandle(t, s) == handles' = [handles EXCEPT ![Hash[t.name]] = {s}]

(* AssemblyLoader.RegisterHandle appends to the list of the assembly's id. *)
RegisterHandle(t, s) == handles' = [handles EXCEPT ![Hash[t.name]] = @ \cup {s}]

(* Type::NewInstance and, with a weak handle, create_object: the runtime picks a free
   slot and RegisterHandle records it under the id of the type's assembly.  A type id
   that cached_types does not know yields a null handle and changes nothing. *)
CreateObject(t, weak, o, s) ==
  /\ t \in cached_types
  /\ objects[o] = None
  /\ gc_handles[s] = None
  /\ gc_handles' = [gc_handles EXCEPT ![s] = o]
  /\ RegisterHandle(t, s)
  /\ objects' = [objects EXCEPT ![o] = [type |-> t, weak |-> weak, handle |-> s]]
  /\ UNCHANGED <<contexts, assemblies, cached_types, runtimeVars,
                 asm_contexts, name_cache, collected, destroyed>>

(* destroy_object on the handle of o's HostedObject: the slot is free again, and handles
   keeps it.  Free asks nobody whether the object in the slot is still o: if the handle
   was freed before and the slot given away, another object loses its handle. *)
DestroyObject(o) ==
  /\ objects[o] # None
  /\ gc_handles[objects[o].handle] # None
  /\ gc_handles' = [gc_handles EXCEPT ![objects[o].handle] = None]
  /\ destroyed' = destroyed \cup {o}
  /\ UNCHANGED <<loaderVars, cached_types, runtimeVars, asm_contexts, name_cache,
                 collected, objects>>

(* destroy_object on a handle that was freed and not given away since: the runtime's
   table of handles lists the slot as free twice. *)
DestroyFreedHandle(o) ==
  /\ objects[o] # None
  /\ gc_handles[objects[o].handle] = None
  /\ running' = FALSE
  /\ destroyed' = destroyed \cup {o}
  /\ UNCHANGED <<loaderVars, cached_types, created, loaded, bound, asm_contexts,
                 name_cache, gc_handles, collected, objects>>

(* A collection takes an object that only a weak handle refers to; its slot stays
   allocated.  UnloadAssemblyContext asks for one before it unloads. *)
CollectObject(o) ==
  /\ objects[o] # None
  /\ objects[o].weak
  /\ o \notin collected
  /\ gc_handles[objects[o].handle] = o
  /\ collected' = collected \cup {o}
  /\ UNCHANGED <<loaderVars, cached_types, runtimeVars, asm_contexts, name_cache,
                 gc_handles, objects, destroyed>>

-----------------------------------------------------------------------------

ContextStep(v) ==
  \/ \E n \in CtxNames, a \in Alcs : CreateAsmContext(v, n, a)
  \/ \E n \in CtxNames : CreateDuplicateContext(v, n)
  \/ UnloadAssemblyContext(v)
  \/ \E n \in AsmNames : LoadAssemblyNameTaken(v, n) \/ LoadAssembly(v, n)

TypeStep ==
  \/ \E x \in Assembly, n \in Names, y \in Assembly : BindReference(x, n, y)
  \/ \E n \in Names, y \in Assembly : GetTypeId(n, y)
  \/ \E t, b \in Assembly : MemberType(t, b)

ObjectStep ==
  \/ \E t \in Assembly, weak \in BOOLEAN, o \in Objects, s \in Slots :
        CreateObject(t, weak, o, s)
  \/ \E o \in Objects : DestroyObject(o) \/ DestroyFreedHandle(o) \/ CollectObject(o)

Next == running /\ ((\E v \in CtxVars : ContextStep(v)) \/ TypeStep \/ ObjectStep)

Spec == Init /\ [][Next]_vars
-----------------------------------------------------------------------------
(* Properties *)

(* Every variable keeps its shape. *)
TypeOK ==
  /\ contexts \in [Ids -> Alcs \cup {None}]
  /\ assemblies \in [Ids -> Assembly \cup {None}]
  /\ handles \in [Ids -> SUBSET Slots]
  /\ cached_types \subseteq Assembly
  /\ created \subseteq Alcs
  /\ loaded \in [Alcs \cup {Default} -> SUBSET Names]
  /\ bound \subseteq Assembly \X Assembly
  /\ gc_handles \in [Slots -> Objects \cup {None}]
  /\ collected \subseteq Objects
  /\ running \in BOOLEAN
  /\ asm_contexts \in [CtxVars -> AsmContext]
  /\ name_cache \in [Names -> Assembly \cup {None}]
  /\ objects \in [Objects -> HostedObject \cup {None}]
  /\ destroyed \subseteq Objects

(* The application or the host can get at x without following a reference. *)
Rooted(x) == x.alc \in LoadedContexts \cup {Default}

(* S has every rooted assembly, and what the references of its members were bound to. *)
ClosedSet(S) ==
  /\ \A x \in Assembly : Rooted(x) => x \in S
  /\ \A e \in bound : e[1] \in S => e[2] \in S

(* References lead to t from an assembly of a context that is loaded, if t is not of
   such a context itself. *)
Anchored(t) == Rooted(t) \/ \A S \in SUBSET Assembly : ClosedSet(S) => t \in S

(* An assembly of another context was bound to one of context a. *)
HeldFromOutside(a) == \E e \in bound : e[1].alc # a /\ e[2].alc = a

(* The id table never names an assembly of an unloaded context, and never a name of
   another id: the Unloading handler removes what LoadAssembly and ResolveAssembly
   registered, whatever failed loads and late resolutions happened in between. *)
RegisteredAreLoaded ==
  \A i \in Ids : assemblies[i] # None =>
     /\ Hash[assemblies[i].name] = i
     /\ assemblies[i].name \in loaded[assemblies[i].alc]
     /\ assemblies[i].alc \in LoadedContexts \cup {Default}

(* No id that the managed side still accepts leads to a type of an unloaded context,
   unless references lead to it from a context that is loaded: CreateObject cannot
   instantiate a plugin that is gone for everyone. *)
AcceptedTypesAnchored == \A t \in cached_types : Anchored(t)

(* Every object that a GC handle keeps alive is recorded for the assembly of its
   type, where the unload of its context will look for it. *)
HandlesRecorded ==
  \A s \in Slots : gc_handles[s] # None =>
     LET o == objects[gc_handles[s]]
     IN o # None /\ o.handle = s /\ s \in handles[Hash[o.type.name]]

(* Unloading a context leaves no handle to an object of its types, weak or not, that
   would keep the collectible context in memory: a type of an unloaded context has a
   live object only if an assembly of another context was bound to that context, which
   lets objects of it be made after the unload. *)
NoHandleOutlivesContext ==
  \A s \in Slots : Target(s) # None =>
     LET t == objects[Target(s)].type
     IN Rooted(t) \/ HeldFromOutside(t.alc)

(* The native AssemblyContexts agree with the managed loader: their ids are of loaded
   contexts, no two share one, and each assembly they list is in their context. *)
NativeContextsAgree ==
  \A v \in CtxVars : asm_contexts[v].context_id # NoId =>
     LET id == asm_contexts[v].context_id
     IN /\ contexts[id] # None
        /\ \A i \in asm_contexts[v].assemblies :
              \E n \in loaded[contexts[id]] : Hash[n] = i
        /\ \A w \in CtxVars : asm_contexts[w].context_id = id => w = v

(* A type that Assembly::GetType finds by name and that the managed side accepts is
   the one of the assembly registered under that name, or one that a reference was
   bound to: a plugin that was reloaded is not instantiated in its old version unless
   some assembly refers to that version. *)
TypeByNameIsRegistered ==
  \A n \in Names : name_cache[n] \in cached_types =>
     \/ assemblies[Hash[n]] = name_cache[n]
     \/ \E x \in Assembly : <<x, name_cache[n]>> \in bound

(* A handle with slot s may have been freed: some context was unloaded, or the handle
   was passed to destroy_object. *)
EverFreed(s) ==
  \/ LoadedContexts # created
  \/ \E o \in destroyed : objects[o] # None /\ objects[o].handle = s

(* Only the unload of a context takes anything back: without one, registrations and the
   accepted types stay, and a handle is freed only by destroy_object.  The object that
   loses it is the one whose HostedObject was passed, unless that handle was freed before:
   until something frees a handle, no other object can be in its slot. *)
OnlyUnloadRevokes ==
  [][LoadedContexts \subseteq {contexts'[i] : i \in Ids} =>
       /\ cached_types \subseteq cached_types'
       /\ \A i \in Ids : assemblies[i] # None => assemblies'[i] = assemblies[i]
       /\ \A s \in Slots : gc_handles[s] # None /\ gc_handles'[s] # gc_handles[s] =>
             \E o \in destroyed' : /\ objects[o].handle = s
                                  /\ (o = gc_handles[s] \/ EverFreed(s))]_vars

(* hosted_object.hpp: managed_handle is "the .NET object existing in the managed
   runtime".  While the context of its type is loaded and nobody passed its handle to
   destroy_object, the handle of a HostedObject refers to its object. *)
HostedObjectExists ==
  \A o \in Objects :
     /\ objects[o] # None
     /\ \A p \in destroyed : objects[p].handle # objects[o].handle
     /\ ~objects[o].weak
     /\ objects[o].type.alc \in LoadedContexts \cup {Default}
     => gc_handles[objects[o].handle] = o

(* The use under which contexts do not disturb each other: no assembly name, and no
   hash of one, ever reached two contexts, and handles were left to the unload.
   (`loaded` and `destroyed` only grow: it held in every earlier state, too.) *)
OneContextPerName ==
  /\ destroyed = {}
  /\ \A a, b \in Alcs \cup {Default} : \A m \in loaded[a], n \in loaded[b] :
        Hash[m] = Hash[n] => m = n /\ a = b

(* Contexts that share no assembly name leave each other's objects alone: the unload of
   one frees no handle to an object of another. *)
IsolatedObjectsExist == OneContextPerName => HostedObjectExists

(* The application's view of the loader: what references hold on to, where the type of an
   object is defined, which objects a weak handle refers to, and which are there. *)
HeldContexts == {e[2].alc : e \in bound}
HomeOf == [o \in Objects |-> IF objects[o] = None THEN None ELSE objects[o].type.alc]
WeakObjects == {o \in Objects : objects[o] # None /\ objects[o].weak}
LiveObjects == {Target(s) : s \in Slots} \ {None}

(* The loader keeps the promise of PluginHost under that use: an object dies of a
   collection, if its handle is weak, or of the unload of the context of its type, and
   of nothing else that the two sides do to each other's tables. *)
Plugins == INSTANCE PluginHost WITH
  Homes <- Alcs, Framework <- Default,
  open <- LoadedContexts, held <- HeldContexts, home <- HomeOf,
  weak <- WeakObjects, alive <- LiveObjects, isolated <- OneContextPerName

KeepsPromise == Plugins!Spec

-----------------------------------------------------------------------------
(* What the safety properties need to be inductive. *)

(* Load contexts are fresh objects: no two ids share one. *)
ContextsDistinct ==
  /\ LoadedContexts \subseteq created
  /\ \A i, j \in Ids : contexts[i] # None /\ contexts[i] = contexts[j] => i = j

(* A type that anyone knows of is in the Assemblies collection of its context, where
   UnloadAssemblyLoadContext walks; names are cached under themselves. *)
KnownTypesLoaded ==
  /\ \A t \in cached_types : t.name \in loaded[t.alc]
  /\ \A e \in bound : e[2].name \in loaded[e[2].alc]
  /\ \A o \in Objects : objects[o] # None =>
        objects[o].type.name \in loaded[objects[o].type.alc]
  /\ \A n \in Names : name_cache[n] # None => name_cache[n].name = n

(* Until something frees it, a handle has the object in its slot that it was made for. *)
UnfreedHandlesHold ==
  \A o \in Objects :
     objects[o] # None /\ ~EverFreed(objects[o].handle) => gc_handles[objects[o].handle] = o

IInv ==
  /\ TypeOK
  /\ ContextsDistinct
  /\ NativeContextsAgree
  /\ RegisteredAreLoaded
  /\ KnownTypesLoaded
  /\ AcceptedTypesAnchored
  /\ TypeByNameIsRegistered
  /\ HandlesRecorded
  /\ NoHandleOutlivesContext
  /\ UnfreedHandlesHold

=============================================================================
