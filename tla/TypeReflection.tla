---------------------------- MODULE TypeReflection ----------------------------
(***************************************************************************)
(* Type reflection across the boundary.  InteropInterface.cs keeps five    *)
(* tables of the types, methods, fields, properties and attributes whose   *)
(* ids it gave to native code; TypeCache keeps, in a StableVector that     *)
(* only grows, mirrors of types with the ids of their members, and each    *)
(* mirror resolves the types it refers to once, when they are first asked  *)
(* for.  An unload empties the five tables and leaves the mirrors, and the *)
(* assemblies that references of loaded ones are bound to stay in memory.  *)
(*                                                                         *)
(* An id is RuntimeHelpers.GetHashCode of an element; it is taken to be    *)
(* the element itself, so no two elements share one.  The API is called by *)
(* one native thread at a time, and one action is one native call.         *)
(* TypeCache::id_cache, which nothing reads, is left out.                  *)
(***************************************************************************)
EXTENDS Naturals, Sequences, Functions

CONSTANTS
  Types, Methods, Fields, Properties, Attributes,   \* the elements
  Names,         \* full names of types
  Asms,          \* assemblies, each loaded into a context of its own and unloaded with it
  Core,          \* owner of the framework's elements, which are never unloaded
  TypesOf,       \* TypesOf[a]: the types of assembly a, in the order of GetTypes
  Owner,         \* Owner[e]: the assembly that defines e, or Core
  NameOf,        \* NameOf[t]: the full name of t
  Declared,      \* Declared[t][k]: the members of t of kind k, in order
  Failing,       \* Failing[t]: the kinds whose fetch throws for t
  BaseOf, EltOf, \* the base and the element type of a type, or NullId
  TypeOf,        \* the return type of a method, the type of a field
  ParamsOf,      \* the parameter types of a method
  AttributesOf,  \* what GetCustomAttributes makes for a method or a field; nothing if it throws
  Unresolvable,  \* the methods and fields whose types throw whoever is loaded
  NullId, NoId,  \* the ids 0 and -1
  NoName,        \* the empty name, which FullName has for an unknown id
  MaxTypes       \* bound on the number of mirrors

MemberKinds == {"methods", "fields", "properties", "attributes"}
Kinds == MemberKinds \cup {"types"}

Elements == Types \cup Methods \cup Fields \cup Properties

(* GetCustomAttributes makes new objects each time: the i-th mirror has its own, and 0
   stands for those of all members and of the types that are no mirrors. *)
AttributeIds == Attributes \X Nat

ElementsOf == [types |-> Types, methods |-> Methods, fields |-> Fields,
               properties |-> Properties, attributes |-> Attributes]

ASSUME ReflectionAssumption ==
  /\ Core \notin Asms
  /\ NoName \notin Names
  /\ {NullId, NoId} \cap (Elements \cup AttributeIds) = {}
  /\ NullId # NoId
  /\ Elements \cap AttributeIds = {}
  /\ TypesOf \in [Asms -> Seq(Types)]
  /\ Owner \in [Elements \cup Attributes -> Asms \cup {Core}]
  /\ NameOf \in [Types -> Names]
  /\ DOMAIN Declared = Types
  /\ \A t \in Types, k \in MemberKinds : Declared[t][k] \in Seq(ElementsOf[k])
  /\ Failing \in [Types -> SUBSET MemberKinds]
  /\ BaseOf \in [Types -> Types \cup {NullId}]
  /\ EltOf \in [Types -> Types \cup {NullId}]
  /\ TypeOf \in [Methods \cup Fields -> Types]
  /\ ParamsOf \in [Methods -> Seq(Types)]
  /\ AttributesOf \in [Methods \cup Fields -> Seq(Attributes)]
  /\ Unresolvable \subseteq Methods \cup Fields
  /\ MaxTypes \in Nat

(* What a type is made of: its base, its element type, its members with the inherited
   ones, its attributes. *)
Parts(t) == ({BaseOf[t], EltOf[t]} \ {NullId})
              \cup UNION {Range(Declared[t][k]) : k \in MemberKinds}

(* The signature of a method or a field, which the runtime resolves as a whole. *)
Signature(k, m) == {TypeOf[m]} \cup IF k = "methods" THEN Range(ParamsOf[m]) ELSE {}

(* The references from the assembly of e to the assemblies of es, as pairs. *)
Foreign(e, es) == {Owner[e]} \X ({Owner[x] : x \in es} \ {Owner[e], Core})

(* The references that the types of assembly a inherit and are made through. *)
Inherited(a) == UNION {Foreign(t, Parts(t)) : t \in {u \in Types : Owner[u] = a}}

(* An assembly defines the types it lists, and the framework refers to itself only.  To
   which of the assemblies of one name a reference leads is fixed by these constants: an
   assembly binds a name once. *)
ASSUME ReferencesAssumption ==
  /\ \A a \in Asms : \A j \in DOMAIN TypesOf[a] : Owner[TypesOf[a][j]] = a
  /\ \A t \in Types : Owner[t] = Core => Foreign(t, Parts(t)) = {}
  /\ \A k \in {"methods", "fields"} : \A m \in ElementsOf[k] : Owner[m] = Core =>
        Foreign(m, Signature(k, m)) = {} /\ Foreign(m, Range(AttributesOf[m])) = {}

VARIABLES
  cached,       \* kind -> the ids that InteropInterface.cached_<kind> holds
  present,      \* the assemblies that are loaded
  gone,         \* the assemblies that were unloaded
  bound,        \* the references <<a, b>> that the runtime has bound
  types,        \* TypeCache::types, the mirrors
  unloaded_at,  \* how many mirrors there were at the last unload
  overrun       \* ids were written past the end of a vector

vars == <<cached, present, gone, bound, types, unloaded_at, overrun>>

-----------------------------------------------------------------------------
(* A member and a type as native code has them.  References to other types are
   indices in types, 0 for nullptr. *)
Member(id) == [handle |-> id, type |-> 0, params |-> <<>>]

Init ==
  /\ cached = [k \in Kinds |-> {}]
  /\ present = {}
  /\ gone = {}
  /\ bound = {}
  /\ types = <<>>
  /\ unloaded_at = 0
  /\ overrun = FALSE

(* The ids of the members of kind k that a fetch for the i-th mirror returns. *)
DeclaredIds(t, k, i) ==
  IF k = "attributes" THEN [j \in DOMAIN Declared[t][k] |-> <<Declared[t][k][j], i>>]
  ELSE Declared[t][k]

(* GetTypeMethods and its like, called for the count and then for the ids.  An id that
   cached_types does not know, or a fetch that throws, leaves count as it was, and
   that many handles stay 0. *)
Fetch(known, h, k, i, count) ==
  IF h \in known /\ k \notin Failing[h] THEN DeclaredIds(h, k, i)
  ELSE [j \in 1..count |-> NullId]

(* Type::Init: the four fetches, in this order, share count. *)
MembersFetched(known, h, i) ==
  LET m == Fetch(known, h, "methods", i, 0)
      f == Fetch(known, h, "fields", i, Len(m))
      p == Fetch(known, h, "properties", i, Len(f))
      a == Fetch(known, h, "attributes", i, Len(p))
  IN [methods |-> m, fields |-> f, properties |-> p, attributes |-> a]

(* InteropInterface.GetFullTypeName *)
FullName(known, h) == IF h \in known THEN NameOf[h] ELSE NoName

(* A mirror of the type with id h, initialised and cached as the i-th one. *)
Mirror(known, h, i) ==
  LET ids == MembersFetched(known, h, i)
  IN [handle |-> h, name |-> FullName(known, h), base_type |-> 0, elt_type |-> 0,
      members |-> [k \in MemberKinds |-> [j \in DOMAIN ids[k] |-> Member(ids[k][j])]]]

(* Mutation of GetType: an entry that is there is kept. *)
GetFirst(n) ==
  LET named == {i \in DOMAIN types : types[i].name = n}
  IN IF named = {} THEN 0 ELSE CHOOSE i \in named : \A j \in named : i <= j

(* TypeCache::name_cache and its lookup: the mirror cached last under the name. *)
GetType(n) ==
  LET named == {i \in DOMAIN types : types[i].name = n}
  IN IF named = {} THEN 0 ELSE CHOOSE i \in named : \A j \in named : j <= i

(* What cached_<k> holds after new ids were given out; Set.Add keeps what is there.
   Mutation of Registered: GetTypeProperties adds nothing. *)
RegisteredButProperties(k, ids) == IF k = "properties" THEN cached[k] ELSE cached[k] \cup ids

Registered(k, ids) == cached[k] \cup ids

(* Mutation of Inserted: the index after it. *)
InsertedBefore == Len(types) + 2

(* The index of the mirror that TypeCache inserts next. *)
Inserted == Len(types) + 1

(* TypeCache::CacheType of each id in hs, when cached_types holds known: references is
   what types becomes, apart from the new mirrors. *)
CacheTypes(references, hs, known) ==
  LET ids(k) == UNION {Range(MembersFetched(known, hs[j], Len(types) + j)[k]) : j \in DOMAIN hs}
  IN /\ Len(types) + Len(hs) <= MaxTypes
     /\ types' = references \o [j \in DOMAIN hs |-> Mirror(known, hs[j], Len(types) + j)]
     /\ cached' = [k \in Kinds |-> IF k = "types" THEN known
                                   ELSE Registered(k, ids(k) \ {NullId})]

(* Mutation of WithId: the id is returned and not added. *)
WithoutId(id) == cached["types"]

(* cached_types.Add of an id that a query returns, if there is one. *)
WithId(id) == Registered("types", {id} \cap Types)

-----------------------------------------------------------------------------
(* An assembly is reached if it is loaded, or bound references lead to it from a loaded
   one: the runtime keeps it. *)
Reached(b) ==
  \/ b = Core
  \/ \A S \in SUBSET Asms :
        present \subseteq S /\ (\A e \in bound : e[1] \in S => e[2] \in S) => b \in S

(* References that are bound or can be: a loaded assembly is found by its name. *)
Bindable == bound \cup (Asms \X present)

(* What an element e mentions is asked for: a reference that cannot be bound makes the
   runtime throw, and then the query has no answer. *)
Bind(e, es, answers) == bound' = IF answers THEN bound \cup Foreign(e, es) ELSE bound

(* The runtime needs b for code of a, before a query or without one. *)
BindReference(a, b) ==
  /\ a # Core
  /\ Reached(a)
  /\ b \in present
  /\ \E k \in {"methods", "fields"} : \E m \in ElementsOf[k] :
        <<a, b>> \in Foreign(m, Signature(k, m) \cup Range(AttributesOf[m]))
  /\ bound' = bound \cup {<<a, b>>}
  /\ UNCHANGED <<cached, present, gone, types, unloaded_at, overrun>>

(* AssemblyContext::LoadAssembly reads the types of a and caches them; what they inherit
   from is there. *)
LoadAssembly(a) ==
  /\ a \notin present \cup gone
  /\ \A e \in Inherited(a) : Reached(e[2])
  /\ present' = present \cup {a}
  /\ bound' = bound \cup Inherited(a)
  /\ CacheTypes(types, TypesOf[a], Registered("types", Range(TypesOf[a])))
  /\ UNCHANGED <<gone, unloaded_at, overrun>>

(* InteropInterface.GetTypeId of a type that can be found. *)
GetTypeId(t) ==
  /\ Owner[t] \in present \cup {Core}
  /\ cached' = [cached EXCEPT !["types"] = Registered("types", {t})]
  /\ UNCHANGED <<present, gone, bound, types, unloaded_at, overrun>>

(* Type::Init of a Type that the application made of the id of t. *)
InitType(t) ==
  /\ t \in cached["types"]
  /\ cached' = [k \in Kinds |->
                  IF k = "types" THEN cached[k]
                  ELSE Registered(k, Range(MembersFetched(cached["types"], t, 0)[k]) \ {NullId})]
  /\ UNCHANGED <<present, gone, bound, types, unloaded_at, overrun>>

(* A reference from a mirror is resolved once: the mirror of the type that the managed
   side names, or of -1 if it does not answer, stays for good. *)
ResolveTo(references, id) ==
  /\ CacheTypes(references, <<id>>, WithId(id))
  /\ UNCHANGED <<present, gone, unloaded_at, overrun>>

(* The signature of a member of kind k with id h is known and can be resolved. *)
Answers(k, h) ==
  h \in cached[k] \ Unresolvable /\ Foreign(h, Signature(k, h)) \subseteq Bindable

(* What GetBaseType, GetElementType, and GetMethodReturnType or GetFieldType answer; -1 is
   what the native side has put there before.  GetElementType reports an exception for a
   type that has none, after it has set the id to 0. *)
BaseId(h) == IF h \in cached["types"] THEN BaseOf[h] ELSE NoId
EltId(h) == IF h \in cached["types"] THEN EltOf[h] ELSE NoId
MemberTypeId(k, h) == IF Answers(k, h) THEN TypeOf[h] ELSE NoId

(* Type::BaseObject *)
BaseObject(i) ==
  /\ types[i].base_type = 0
  /\ ResolveTo([types EXCEPT ![i].base_type = Inserted], BaseId(types[i].handle))
  /\ UNCHANGED bound

(* Type::GetEltType *)
GetEltType(i) ==
  /\ types[i].elt_type = 0
  /\ ResolveTo([types EXCEPT ![i].elt_type = Inserted], EltId(types[i].handle))
  /\ UNCHANGED bound

(* Method::GetReturnType, Field::GetType of the j-th member of kind k. *)
GetMemberType(i, k, j) ==
  LET m == types[i].members[k][j]
  IN /\ m.type = 0
     /\ ResolveTo([types EXCEPT ![i].members[k][j].type = Inserted],
                  MemberTypeId(k, m.handle))
     /\ Bind(m.handle, Signature(k, m.handle), Answers(k, m.handle))

(* Method::ParamTypes: nothing is kept of a call without an answer. *)
ParamTypes(i, j) ==
  LET m == types[i].members["methods"][j]
  IN /\ m.params = <<>>
     /\ Answers("methods", m.handle)
     /\ Bind(m.handle, Signature("methods", m.handle), TRUE)
     /\ CacheTypes([types EXCEPT ![i].members["methods"][j].params =
                       [p \in DOMAIN ParamsOf[m.handle] |-> Len(types) + p]],
                   ParamsOf[m.handle], Registered("types", Range(ParamsOf[m.handle])))
     /\ UNCHANGED <<present, gone, unloaded_at, overrun>>

(* Attribute::GetType caches a type under the id of the attribute, which is none of a
   type. *)
AttributeType(i, j) ==
  /\ CacheTypes(types, <<types[i].members["attributes"][j].handle>>, cached["types"])
  /\ UNCHANGED <<present, gone, bound, unloaded_at, overrun>>

(* GetFieldAttributes and GetMethodAttributes, called for the count and then for the ids. *)
MakesAttributes(k, h) ==
  h \in cached[k] /\ Foreign(h, Range(AttributesOf[h])) \subseteq Bindable
Made(k, h) == IF MakesAttributes(k, h) THEN AttributesOf[h] ELSE <<>>
AddAttributes(k, h) ==
  /\ cached' = [cached EXCEPT !["attributes"] =
                  Registered("attributes", {<<a, 0>> : a \in Range(Made(k, h))})]
  /\ Bind(h, Range(AttributesOf[h]), MakesAttributes(k, h))

(* Field::Attributes, of which nothing is kept. *)
FieldAttributes(i, j) ==
  /\ AddAttributes("fields", types[i].members["fields"][j].handle)
  /\ UNCHANGED <<present, gone, types, unloaded_at, overrun>>

(* Method::Attributes: handles{ count } has one element, whatever count is. *)
MethodAttributes(i, j) ==
  LET h == types[i].members["methods"][j].handle
  IN /\ AddAttributes("methods", h)
     /\ overrun' = (Len(Made("methods", h)) > 1)
     /\ UNCHANGED <<present, gone, types, unloaded_at>>

(* Mutation of ClearTables: one of the five calls is missing. *)
ClearAllButMethods == cached' = [k \in Kinds |-> IF k = "methods" THEN cached[k] ELSE {}]

ClearTables == cached' = [k \in Kinds |-> {}]

(* AssemblyLoader.UnloadAssemblyLoadContext of the context that holds a. *)
Unload(a) ==
  /\ a \in present
  /\ present' = present \ {a}
  /\ gone' = gone \cup {a}
  /\ ClearTables
  /\ unloaded_at' = Len(types)
  /\ UNCHANGED <<bound, types, overrun>>

Resolve(i) ==
  \/ BaseObject(i)
  \/ GetEltType(i)
  \/ \E k \in {"methods", "fields"} : \E j \in DOMAIN types[i].members[k] : GetMemberType(i, k, j)
  \/ \E j \in DOMAIN types[i].members["methods"] : ParamTypes(i, j) \/ MethodAttributes(i, j)
  \/ \E j \in DOMAIN types[i].members["fields"] : FieldAttributes(i, j)
  \/ \E j \in DOMAIN types[i].members["attributes"] : AttributeType(i, j)

(* Once memory is overrun nothing is known of the process. *)
Next ==
  /\ ~overrun
  /\ \/ \E a \in Asms : LoadAssembly(a) \/ Unload(a)
     \/ \E a, b \in Asms : BindReference(a, b)
     \/ \E t \in Types : GetTypeId(t) \/ InitType(t)
     \/ \E i \in DOMAIN types : Resolve(i)

Spec == Init /\ [][Next]_vars
-----------------------------------------------------------------------------
(* Properties *)

Indices == 0..Len(types)

(* Every variable keeps its shape, and no reference leads out of the vector. *)
TypeOK ==
  /\ \A k \in Kinds : cached[k] \subseteq IF k = "attributes" THEN AttributeIds ELSE ElementsOf[k]
  /\ present \subseteq Asms
  /\ gone \subseteq Asms
  /\ bound \subseteq Asms \X Asms
  /\ unloaded_at \in Indices
  /\ overrun \in BOOLEAN
  /\ \A i \in DOMAIN types :
        /\ types[i].name \in Names \cup {NoName}
        /\ types[i].base_type \in Indices
        /\ types[i].elt_type \in Indices
        /\ \A k \in MemberKinds : \A j \in DOMAIN types[i].members[k] :
              LET m == types[i].members[k][j]
              IN m.type \in Indices /\ \A p \in DOMAIN m.params : m.params[p] \in Indices

OwnerOf(k, e) == Owner[IF k = "attributes" THEN e[1] ELSE e]

(* The five tables lead to elements of loaded assemblies, or of such as bound references
   lead to from a loaded one: native code may ask with ids from before an unload, and the
   unloaded types come back only through an assembly that still holds them. *)
AcceptedAreReached ==
  \A k \in Kinds : \A e \in cached[k] : Reached(OwnerOf(k, e))

(* Every member id that native code got since the last unload is accepted by the table it
   is asked of; an id 0 stands for a kind of members whose fetch threw. *)
MembersKnown ==
  \A i \in (unloaded_at + 1)..Len(types), k \in MemberKinds :
     \A j \in DOMAIN types[i].members[k] :
        LET h == types[i].members[k][j].handle
        IN \/ h \in cached[k]
           \/ h = NullId /\ k \in Failing[types[i].handle]

(* A member whose signature may have been asked for in vain. *)
MayHaveNoType(k, h) ==
  h \in {NullId} \cup Unresolvable \/ Foreign(h, Signature(k, h)) # {}

(* References are resolved to what they mean, with a complete mirror.  One that is the
   null type for good was unresolvable, or needed an assembly that may not have been
   loaded, or was first asked for through a mirror from before an unload. *)
ResolvedTypesMatch ==
  \A i \in DOMAIN types :
     LET Leads(r, id) == types[r].handle = id /\ (id \in Types => types[r].name = NameOf[id])
         Null(r) == types[r].handle = NoId
         Old == i <= unloaded_at
     IN /\ \A r \in {types[i].base_type} \ {0} :
              \/ types[i].handle \in Types /\ Leads(r, BaseOf[types[i].handle])
              \/ Null(r) /\ (Old \/ types[i].handle \notin Types)
        /\ \A r \in {types[i].elt_type} \ {0} :
              \/ types[i].handle \in Types /\ Leads(r, EltOf[types[i].handle])
              \/ Null(r) /\ (Old \/ types[i].handle \notin Types)
        /\ \A k \in {"methods", "fields"} : \A j \in DOMAIN types[i].members[k] :
              LET m == types[i].members[k][j]
              IN m.type # 0 => \/ m.handle # NullId /\ Leads(m.type, TypeOf[m.handle])
                               \/ Null(m.type) /\ (Old \/ MayHaveNoType(k, m.handle))
        /\ \A j \in DOMAIN types[i].members["methods"] :
              LET m == types[i].members["methods"][j]
              IN \A p \in DOMAIN m.params : Leads(m.params[p], ParamsOf[m.handle][p])

(* A type that was cached since the last unload is found by its name in a mirror that the
   managed side accepts, though mirrors of unloaded versions have the same name. *)
FoundByName ==
  \A i \in (unloaded_at + 1)..Len(types) : types[i].handle \in Types =>
     LET r == GetType(types[i].name)
     IN r # 0 /\ types[r].handle \in cached["types"] /\ NameOf[types[r].handle] = types[i].name

-----------------------------------------------------------------------------
(* What AcceptedAreReached needs to be inductive: ids of a kind lead to elements of that
   kind, and what a type inherits from was bound when its assembly was loaded. *)
InheritedBound ==
  \A a \in present \cup gone : Inherited(a) \subseteq bound

IInv ==
  /\ DOMAIN cached = Kinds
  /\ \A k \in Kinds \ {"attributes"} : cached[k] \subseteq ElementsOf[k]
  /\ present \subseteq Asms /\ gone \subseteq Asms
  /\ bound \subseteq (present \cup gone) \X (present \cup gone)
  /\ InheritedBound
  /\ AcceptedAreReached
=============================================================================
