# Verification of DotOther

DotOther hosts the .NET runtime in a C++ program: native code loads plugin
assemblies into collectible load contexts, looks at their types, makes managed
objects and calls their methods; managed code calls registered native objects.
This directory models that core in TLA+, checks the models with TLC and proves
the main safety properties with TLAPS.  Paths below are relative to `src/`.

## 1. The system

| component | state it keeps | operations |
|---|---|---|
| Host (`Native/hosting/host.cpp`) | the singleton, its configuration, the resolved hostfxr functions, the managed entry point | Instance, LoadHost, CallEntryPoint, UnloadHost, Destroy, CreateAsmContext, UnloadAssemblyContext |
| function table (`Native/hosting/interop_interface.*`) | some 50 pointers to managed functions | bound by CallEntryPoint, dropped by Unbind, asked with BoundToAsm |
| native object registry (`interop_interface.cpp`, `native_object.cpp`, `object_proxy.hpp`) | handle -> NObject; each NObject has a handle and a proxy | make, copy, destroy; Register, Unregister, InvokeNativeFunction, GetRegisteredObject |
| assembly loader (`Managed/Source/AssemblyLoader.cs`, `Native/hosting/assembly.cpp`) | contexts, assemblies and GC handles by hash code; native AssemblyContext | create, unload, load, resolve, RegisterHandle |
| type reflection (`InteropInterface.cs`, `Set.cs`, `type.cpp`, `type_cache.cpp`, `method.cpp`, `field.cpp`) | five id tables in managed code; mirrors in a StableVector and two caches in native code | fetch members, the type and the attributes of a member, find by name |
| managed objects (`ManagedObject.cs`, `hosted_object.*`) | GC handles, the cache of MethodInfos | CreateObject, DestroyObject, InvokeMethod(Ret), InvokeStaticMethod(Ret), fields and properties |
| internal calls (`InternalCallManager.cs`, `assembly.cpp`) | names and function pointers, static delegate fields of plugins | SetInternalCall, UploadInternalCalls |
| StableVector (`Native/core/stable_vector.hpp`) | pages, the page table, atomic counts | Insert, EmplaceBack, Clear, copy |
| marshalling (`Marshalling.cs`, `NativeTypes.cs`, `utilities.hpp`, `native_string.cpp`) | blocks of memory that NStrings point to | codes of arguments, choice of an overload, reads and writes at addresses, New, Assign, Free of strings |
| echo (`Native/reflection/`) | TypeDatabase | compile-time reflection; ObjectProxy calls an NObject's methods by name |

**How they interact.**  Native code calls managed code through the function
table, whose entries Host resolves; managed code calls back through the four
hooks that the entry point receives.  A plugin's life crosses the boundary
all the time: native AssemblyContext, Type and HostedObject hold nothing but ids and
handles which the managed tables must still know.  The runtime adds callbacks of its
own: Resolving when a reference is bound, Unloading when a context goes, and
collections at any time.

**What is hard.**
* One unload must take back everything that leads to a context (id table, accepted
  types, GC handles), although failed loads, late bindings and objects destroyed
  early have left entries in the wrong places.
* All tables are keyed by hash codes of names: two contexts, or two names, can meet
  in one entry.
* Caches that outlive an unload: name_cache, the method cache, native ids.
* Host: partial initialisation, partial binding, a CLR that can not be restarted.
* Values cross as untyped addresses with a code that is lost for lvalues, and strings as
  pointers that anybody may copy and anybody may free.
* StableVector: unlocked reads of a count that is used after the lock.

`PROJECT.json` lists each hazard at its line with the properties that cover it.

## 2. The modules

| module | models | state and actions |
|---|---|---|
| `AssemblyLoader` | contexts, assemblies, types and objects of plugins | One action per native call, with all the managed calls it makes: `CreateAsmContext`, `CreateDuplicateContext`, `LoadAssembly`, `LoadAssemblyNameTaken`, `UnloadAssemblyContext`, `GetTypeId`, `MemberType`, `CreateObject`, `DestroyObject` (of whatever object is in the slot, be the handle stale or not), `DestroyFreedHandle` (of a slot that is free: the runtime's own table is broken, and nothing follows).  The runtime's own steps are `BindReference` (a reference is resolved, with the Resolving event) and `CollectObject`. |
| `PluginHost` | the abstract specification of AssemblyLoader: contexts as homes of objects | `Open`, `Refer`, `Create`, `Collect`, `Close` |
| `ManagedObject` | method calls and the method cache, on top of AssemblyLoader | `InvokeMethod`, `InvokeStaticMethod`; `misdirected` remembers that a call got the MethodInfo of another type. |
| `InternalCalls` | internal calls, on top of AssemblyLoader | `SetInternalCall`, `UploadInternalCalls` (with RegisterInternalCall for each call), `UploadDanglingCalls` (undefined behaviour: a name that moved); `pointers` holds the function pointer fields of plugins and who wrote them. |
| `TypeReflection` | the native mirrors of types and members over the five id tables of managed code | `LoadAssembly`, `GetTypeId`, `BaseObject`, `GetEltType`, `GetMemberType` (return types and field types), `ParamTypes`, `FieldAttributes`, `MethodAttributes` (which may overrun its vector), `AttributeType`, `InitType` (a Type that the application makes of an id), `Unload`; the runtime's `BindReference`; `CacheTypes` is TypeCache::CacheType with Type::Init and its four fetches. |
| `ObjectRegistry` | NObject with its proxy, and the registry | `ConstructObject`, `WriteHandle`, `CopyObject`, `DestroyNObject`, `InvokeNativeFunction`, `Unbind` |
| `NativeStrings` | NString and NScopedString | `New`, `Assign`, `Free`, `Copy`, `Leave`, `Read`; `heap` is the blocks that are allocated, `shared` remembers that a pointer got a second owner, `corrupted` that a dead block was used |
| `Marshalling` | the calls and the fields of one object, on top of NativeStrings | `Invoke` (InvokeMethod, InvokeMethodRet and their static variants, with FindSuitableMethod, the method cache and MarshalParameterArray), `SetMember`, `GetMember`; what goes wrong is remembered in `misread` (arguments) and `lost` (fields) |
| `Host` | Host, composed with the registry, whose operations depend on the table Host binds | `Instance`, `LoadHostUnprepared`, `LoadHostFails`, `LoadHost`, `CallEntryPoint`, `CallEntryPointThrows`, `UnloadHost`, `Destroy` |
| `AppendOnlyVector` | the abstract specification of a StableVector | a sequence that is appended to, written and cleared |
| `StableVector` | the vector | One action per access to shared memory, but for reads that no step of another thread can tell apart: `Start` (page_idx), `ReadCount`, `CheckCapacity`, `Lock`, `Recheck`, `RaisePageCount`, `CopyTable`, `ExchangeTable`, `InstallPage`, `RaiseCapacity`, `Bump`, `Write`; `Clear`, `CopyFrom`. |

`MC*` modules define the constants of the TLC instances.  `*Proofs` modules hold
the theorems.

**What is abstracted.**  In AssemblyLoader one type stands for all the types of an
assembly, which are fetched and cached together; names are model values, and
`Hash` gives their hash codes.  last_load_status is left out, since native code
reads it only after a success, which has just set it; so the branch for
FILE_LOAD_FAILED of `AssemblyContext::LoadAssembly` is dead.  A duplicate context
name ends the process (`running`), as an exception that leaves an
UnmanagedCallersOnly method does, and a handle that is freed twice ends what is modelled:
the runtime's table of handles is then broken.  An AssemblyContext is one of `CtxVars`, and
is not copied: a copy has the same `context_id`, a public member, and goes stale when the
other is unloaded, after which the id may be that of a new context with the same hash code;
`NativeContextsAgree` says nothing of copies.  In StableVector three steps hold more than
one access.  `Recheck` reads count and capacity, but under the mutex only the count can
change; `CopyTable` copies entries that only the holder of the mutex writes; `Write` loads
the table, then the entry, and stores the element: an entry that leads to a page leads to
the same one in every later table, so these may happen together at the store, and a null
entry of a table that was replaced meanwhile is what the vector had just before.  A write outside a page is
undefined behaviour: the thread stops at the label "wild"; in TypeReflection and in
Marshalling nothing follows a corrupted memory (`overrun`, `Running`).  A value in
Marshalling has no bits: a type is its layout, a kind and a number of bytes, and reading
with one what was written with another gives the value, its bits, a part of it, or bytes
beyond it.  The key of the method cache is the name with the codes, and the object of
the calls stands for its type; the caching across reloads is ManagedObject's.  The string that a static call makes
of its result, which it then fails to return, stays allocated (`ForgetsString`).  Operations whose only
guard fails (unknown id, null handle) change nothing and are no actions.  In
TypeReflection an id is the element itself (identity hash codes do not collide),
attributes are made anew for each mirror (and once for all members, whose ids nothing keeps), and an assembly has a context of its own.
References between plugins are those of the members, the bases and the attributes: `bound`
holds those the runtime has bound, when a query needed them or before, and what they lead
to from a loaded assembly is reached (`Reached`) although its context may be unloaded.  To
which of the versions of a name an assembly refers is fixed by the constants, since it
binds a name once.  `name_cache` is what was cached last under a name, which
is how it is written as an operator.  TypeReflection stands beside
AssemblyLoader, where one type stands for all those of an assembly: `LoadAssembly`,
`GetTypeId` and `Unload` are the same calls in both.

**Definitions that begin "Mutation of"** are faulty variants of the operator that
follows them, one for each property that they break; no specification uses them.

## 3. The runs

| run | question | bounds |
|---|---|---|
| `AssemblyLoader` | does an unload take back what it must, does nothing else take anything back, are contexts that share no name isolated, and do they then keep the promise of PluginHost? | 2 contexts ever made, 2 assemblies, one reference, 2 objects, 2 handles, 2 native contexts |
| `HostedObject` | does a HostedObject exist even if contexts share a name? **Violated.** | as `AssemblyLoader` |
| `MethodCache` | when can a call get the method of another type, and is a name still looked up right if two plugin names have one hash code? | 1 method, 1 object, 1 handle, a host assembly that one plugin refers to |
| `StaleMethod` | does a call on a fresh object reach its method? **Violated.** | 2 objects |
| `Reflection` | do mirrors and tables agree until an unload, and how can anything of an unloaded assembly come back? | 2 versions of a class with a method, a field, a property and attributes; another plugin, whose class has a method of the first version's class as its return type and is the base of the second; 2 framework types, 4 mirrors |
| `Host` | is a bound table usable, at most one hostfxr context open, the registry free of dead objects? | 3 objects, 2 handles |
| `HostReload` | does LoadHost accept what hostfxr calls success? **Violated.** | as `Host` |
| `InternalCalls` | where do uploaded function pointers end up? | 2 contexts, 1 plugin name, 2 function pointers and a third one that the plugin lacks, 2 functions, 2 calls on an object |
| `Marshalling` | do arguments arrive, does the cache answer as a lookup would, do fields give back what was written, and is each string freed once? | 10 overloads of one name, calls by name and by one signature, 1 argument of 8 kinds, 6 kinds of results and of fields (a bool and an object among them), 2 string variables over 2 blocks, `MaxCached` = `MaxWritten` = 1 |
| `SequentialVector` | does the vector implement the append-only sequence? | 6 operations, pages of 2, 2 clears |
| `ConcurrentVector` | what holds under concurrency, and does every insert end? | 3 threads, 2 inserts each, pages of 2 |
| `ConcurrentInsert` | is an element found at the index its insert returned? **Violated.** | 2 threads |

Why the bounds are enough: two contexts and one shared name are what every
interference between contexts needs; two handles let a slot be used again by another
object; pages of two elements put a page boundary between any three inserts, a first
table of one or two entries (16 in the code) makes the table grow within the
bound, and three threads let one fill the page that another has computed while a
third replaces the table.  Four mirrors are the two versions of the class with two
references resolved between and after, or all three plugins with one.  Two calls on one object are what a repeated
delegate, a name that moves and an upload in part need.  One cached method and one
written field are enough for Marshalling: a lookup reads one entry of the cache and a
read one field, so no property relates two of them, while the arguments, the strings
and the kind of the call vary freely; a second argument is read like the first.  Two
strings over two blocks give every way to share, exchange and reuse a block (the
allocator hands a freed block out again).  String variables and blocks are
interchangeable, so the run uses their symmetry.  `MaxOps` and `MaxClears` bound
the operations of StableVector, `MaxTypes` the mirrors, `MaxCalls` the calls of an
object, `MaxArgs` the arguments of a call, `MaxCached` the cached methods and
`MaxWritten` the written fields; nothing else is bounded by a guard.

**Deadlock** is not checked where the system may stop: the process of
AssemblyLoader may have ended (`running`) or used up its identities,
TypeReflection may have used up its mirrors, InternalCalls ends with an upload of names
that moved (`wild`), Marshalling with a string freed twice, and the threads of
StableVector finish their operations.  Host never stops.

**Fairness.**  Only `InsertsFinish` needs it: a thread inside an operation keeps
taking steps (the operating system schedules running threads), including
the one that takes a free mutex: weak fairness suffices because each thread
takes the mutex at most `MaxOps` times.

**Refinement.**  `KeepsPromise` says that AssemblyLoader implements PluginHost: a context
is the home of the objects of its types, an unload ends the objects that live there
and no others, and nothing but an unload or a collection ends an object.  The mapping
takes the loaded contexts for `open`, those that an assembly refers to for `held`, and
the discipline below for `isolated`, since contexts that share a name do not keep the
promise (`HostedObject`).  `AppendOnly` is the refinement of AppendOnlyVector by
StableVector for one thread.

**Disciplines.**  `OneContextPerName` (a condition of `IsolatedObjectsExist` and
`KeepsPromise`), `misused` (in `RegisteredAlive` and `NoDeadObjectTouched`) and `shared`
(in `StringsOwned`) are restrictions on the application, not on the code: names and hash
codes that reach one context only, and handles that are left to the unload instead of being
passed to destroy_object, which on a stale handle takes another object; NObjects that are not copied, handles that are not
rewritten, a bound table that is not bound again in part; NStrings that are not copied.
`HostedObject` shows why the first is needed; `PROJECT.json` notes the hazards that a
discipline excludes, which no property covers.  All of them only ever go from kept to broken, so
a state that satisfies them has a history that did.

## 4. What the code does differently

* A failed load leaves its assembly in the context; unloading that context frees
  the handles of the context that owns the name (`HostedObject`).
* A reloaded plugin gets the MethodInfos of its old version (`StaleMethod`).
* A second LoadHost in one process is refused on Success_HostAlreadyInitialized
  (`HostReload`).
* `Insert` uses a page index from before the lock (`ConcurrentInsert`).

## 5. The proofs

The theorems hold for all values of the constants under the named assumptions:
`ConstantsAssumption` of AssemblyLoader (hash codes are a function, host names do
not collide among themselves, the special values are distinct) and of StableVector
(page and table sizes are positive, there are finitely many threads), `LockAssumption`
(where EmplaceBack, which takes no lock, is in use, there is one thread),
`RegistryAssumption`, `DeclaresAssumption`, `CallsAssumption` and `PointerAssumption`
(shapes and distinct values), `ReflectionAssumption` (the shape of the types'
description; the id of an attribute is not that of a type or a member),
`ReferencesAssumption`, `StringAssumption` and `MarshallingAssumption` (fields,
arguments and overloads).  TLC evaluates them on every run.

Every invariant and action property of the passing runs is a theorem; two of them,
`InsertedFound` and `AppendOnly` of StableVector, under the further assumption that
there is one thread, which is what their run has and what they mean.  Few are inductive
by themselves, so each module has its own strengthening:

* `AssemblyLoaderProofs`: `IInv` is inductive, and gives type correctness and six
  safety properties.  The properties are not inductive one by one: that an unload
  frees all handles of its types needs `HandlesRecorded` (each live handle is
  recorded under the hash of its type's assembly) and `KnownTypesLoaded` (every type
  anyone knows of is in the Assemblies collection the unload walks, also after
  failed loads); that it unregisters all ids needs `RegisteredAreLoaded`
  to know each entry's name under its own hash; `ContextsDistinct` keeps one id from
  unloading another id's context.  `OnlyUnloadRevokes` needs `UnfreedHandlesHold`: until
  something frees a handle, its slot has the object it was made for; a stale handle, which
  an unload or a first destroy_object has freed, may take another object with it.
* `IsolationProofs`: contexts that share no name leave each other's objects alone
  (`IsolatedObjectsExist`).  `HandlesOwned` is the strengthening: the list an unload
  walks has live handles of its own type only, since a slot is not used again before the
  unload that freed it took its context out of the walk.  On top of it
  `LoaderImplementsPluginHost` is the refinement, action by action: a native
  call maps to the step of PluginHost it stands for or to a stutter.  PluginHost
  promises only while `OneContextPerName` holds, which is never regained (`IsolationIsOnce`).
* `InternalCallsProofs`: function pointers are written into loaded, registered versions
  only, into another version only by objects that are unregistered, and lead to
  functions given for them.  `UploadsAreWhole` compares the pointers before and after an
  upload: the last call that names a delegate decides, and none of another object is left.
* `ManagedObjectProofs`: the method cache only holds types that were loaded under
  the name; from that, a misdirected call implies two contexts with one name.
* `TypeReflectionProofs`: what an unload took from the five tables comes back
  through an old mirror only if bound references lead to it from a loaded assembly
  (`AcceptedAreReached`), for any types and any references between plugins.  It needs
  ids of a kind to lead to elements of that kind, and what a type inherits from to be bound
  when its assembly is loaded (`InheritedBound`), so that a query for a base or a member
  never leaves what is reached.  `ReferencesAssumption` says only that an assembly defines
  the types it lists and that the framework refers to itself.  `MirrorsInv` gives the
  rest: the mirrors made since the last unload have the name of their element
  (`NamedIn`) and members that the tables accept (`KnownIn`), and a reference that was
  resolved leads to the mirror it means (`RefsIn`).  The vector only grows and a mirror keeps its
  handle and name, so a reference stays right when others are added; an unload only moves the
  boundary behind which null types are excused.  A name has a last mirror because a
  non-empty set of indices has a largest one (by well-foundedness), which is
  what `GetType` returns.
* `HostProofs`: one open hostfxr context, bound tables, and, unless `misused`, a
  registry without dead objects (`RegistryIInv`: without copies every proxy has one
  owner, and without a full table the registry is empty).
* `StableVectorProofs`, for any number of threads and any page size: indices are unique
  and never lie before the page computed, and growth is exclusive (`VIInv` bounds every
  page index and index by the element count).  `TableInv` says what the
  table refers to; with it no deleted page comes back, and no step but Clear takes a
  page from an index.  `OvershootBounded` needs an account of those still to come
  (`OvershootInv`): a thread that raised the capacity but not above its own page
  (`Ahead`) will take the count one further, and it can only be there because another
  thread already strays (`Wild`).  While the table is replaced its old
  entries are the ones in use (`TableInUse`), and the new one, once filled, has them all;
  there is one such thread at a time, by the mutex or by `LockAssumption`.  For one thread `AloneInv` follows the operation label by label:
  the pages below the capacity exist and differ, what is beyond the count is zero, and
  what was returned is in place; the refinement of AppendOnlyVector follows step by step.
* `MarshallingProofs`: strings are freed once and not read after that unless a pointer
  is copied.  `StringsIInv` adds that a variable out of scope is null and that a field
  keeps a pointer or null; each pointer then leads to an allocated block of its own.  A
  cached method is the one its key finds: the cache only grows by the lookup's answer, and
  the first overload that fits exists because the indices are well-founded.
  `ArgumentsArrive` and `ReadsBackWrites` come from `MarshalInv`: a method that is called
  accepts the codes of its arguments, cached or not (`CachedIsFound` with `FoundFits`), and
  the tables agree (`CodesAgree`, a case analysis over native types and codes); a
  field only keeps what has its layout or, as bits, its size (`FieldsKept`), and what it
  keeps comes back for every type but pointers, objects, bools and arrays (`ReturnsKept`).

Model-checked only: `InsertsFinish`, since liveness is outside the prover's reach.  Not
stated for several threads is what an insert that stayed within its page promises:
`InsertedFound` is false there (`ConcurrentInsert`).

## 6. Not modelled, and the plan

Not modelled: logging (one variable, the log sink, which LoadHost sets) and string
conversion; the compile-time part of echo and TypeDatabase; the list of .NET core types;
attribute values, and the queries that keep no state (sizes, names of members,
accessibility, derivation, HasAttribute); copies of an AssemblyContext; NArray and the arguments of constructors, which
go through the same operators as those of methods; the call of an internal call by plugin
code (a pointer that nobody set is null).

Hazards that the list leaves to a reader: CreateObject runs the constructor twice
(`ManagedObject.cs:147`); a weak handle whose object was collected, and the strings of
log messages and exceptions, are never freed (`AssemblyLoader.cs:134`,
`DotOtherHost.cs:49`); two elements with one identity hash share an id (`Set.cs:33`);
EmplaceBack grows the table without the mutex (`stable_vector.hpp:137`; nothing calls it
concurrently), and operator= loses the elements when a vector is assigned to itself (`:34`);
TypeDatabase::Get returns a reference into a vector that grows (`type_database.hpp:54`).

Next, proofs: which elements are found when several threads insert, that is, those of
inserts that stayed within their page, until one that strays writes over them; TLC comes
first, as a property of `ConcurrentVector` in the place of a shallower one.
