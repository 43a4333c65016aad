------------------------- MODULE TypeReflectionProofs -------------------------
(* Whatever old ids queries are made with, the tables lead only to assemblies that are
   loaded or still referred to by such, and a reference that a mirror has resolved stays
   what it means: for any types, members and references, and any number of mirrors. *)
EXTENDS TypeReflection, WellFoundedInduction, TLAPS

(* S has the assemblies P and what the references B of its members are bound to. *)
ClosedIn(S, P, B) == P \subseteq S /\ \A e \in B : e[1] \in S => e[2] \in S

(* The assemblies that the references B lead to from P. *)
ReachedFrom(P, B) == {b \in Asms : \A S \in SUBSET Asms : ClosedIn(S, P, B) => b \in S}

(* What is reached is closed, and grows with P and B. *)
LEMMA ReachedFromCloses ==
  ASSUME NEW P \in SUBSET Asms, NEW B \in SUBSET (Asms \X Asms)
  PROVE  ClosedIn(ReachedFrom(P, B), P, B)
BY DEF ClosedIn, ReachedFrom

LEMMA ReachedFromGrows ==
  ASSUME NEW P, NEW B, NEW P1, NEW B1, P \subseteq P1, B \subseteq B1
  PROVE  ReachedFrom(P, B) \subseteq ReachedFrom(P1, B1)
BY DEF ClosedIn, ReachedFrom

LEMMA ReachedFromIsIn ==
  ASSUME NEW P \in SUBSET Asms, NEW B, NEW G \in SUBSET Asms, B \subseteq (P \cup G) \X (P \cup G)
  PROVE  ReachedFrom(P, B) \subseteq P \cup G
<1>1. ClosedIn(P \cup G, P, B) /\ P \cup G \in SUBSET Asms
  BY DEF ClosedIn
<1> QED
  BY <1>1 DEF ReachedFrom

(* What IInv says of the assemblies. *)
Books ==
  /\ present \subseteq Asms /\ gone \subseteq Asms
  /\ bound \subseteq (present \cup gone) \X (present \cup gone)
  /\ InheritedBound

LEMMA ReachedIsFrom ==
  ASSUME Books
  PROVE  \A b : Reached(b) <=> b \in ReachedFrom(present, bound) \cup {Core}
<1>1. \A b : Reached(b) <=> b = Core \/ \A S \in SUBSET Asms : ClosedIn(S, present, bound) => b \in S
  BY DEF Reached, ClosedIn
<1>2. ClosedIn(Asms, present, bound)
  BY DEF Books, ClosedIn
<1> QED
  BY <1>1, <1>2 DEF ReachedFrom

LEMMA ReachedIsFromNext ==
  ASSUME Books'
  PROVE  \A b : Reached(b)' <=> b \in ReachedFrom(present', bound') \cup {Core}
<1>1. \A b : Reached(b)'
             <=> b = Core \/ \A S \in SUBSET Asms : ClosedIn(S, present', bound') => b \in S
  BY DEF Reached, ClosedIn
<1>2. ClosedIn(Asms, present', bound')
  BY DEF Books, ClosedIn
<1> QED
  BY <1>1, <1>2 DEF ReachedFrom

(* The tables c hold elements of assemblies in P only. *)
AcceptedIn(c, P) ==
  /\ DOMAIN c = Kinds
  /\ \A k \in Kinds \ {"attributes"} : c[k] \subseteq ElementsOf[k]
  /\ \A k \in Kinds : \A e \in c[k] : OwnerOf(k, e) \in P \cup {Core}

(* P has what the types of its assemblies inherit from. *)
HasInherited(P) == \A a \in P : \A e \in Inherited(a) : e[2] \in P

LEMMA IInvIsAccepted ==
  IInv <=> Books /\ AcceptedIn(cached, ReachedFrom(present, bound))
<1>1. CASE Books
  BY <1>1, ReachedIsFrom DEF IInv, Books, AcceptedIn, AcceptedAreReached
<1>2. CASE ~Books
  BY <1>2 DEF IInv, Books
<1> QED
  BY <1>1, <1>2

LEMMA IInvIsAcceptedNext ==
  ASSUME Books', AcceptedIn(cached', ReachedFrom(present', bound'))
  PROVE  IInv'
BY ReachedIsFromNext DEF IInv, Books, AcceptedIn, AcceptedAreReached

(* What was accepted and reached is so in a next state with more references, and what is
   reached there has all that its types inherit from. *)
LEMMA GrownAccepted ==
  ASSUME IInv, Books', present \subseteq present', bound \subseteq bound'
  PROVE  /\ AcceptedIn(cached, ReachedFrom(present', bound'))
         /\ HasInherited(ReachedFrom(present', bound'))
<1> DEFINE Q == ReachedFrom(present', bound')
<1>1. AcceptedIn(cached, ReachedFrom(present, bound))
  BY IInvIsAccepted
<1>2. ReachedFrom(present, bound) \subseteq Q
  BY ReachedFromGrows
<1>3. /\ present' \in SUBSET Asms /\ gone' \in SUBSET Asms
      /\ bound' \in SUBSET (Asms \X Asms)
      /\ bound' \subseteq (present' \cup gone') \X (present' \cup gone')
  BY DEF Books
<1>4. ClosedIn(Q, present', bound')
  BY <1>3, ReachedFromCloses
<1>5. Q \subseteq present' \cup gone'
  BY <1>3, ReachedFromIsIn
<1> HIDE DEF Q
<1>6. \A a \in Q : Inherited(a) \subseteq bound'
  BY <1>5 DEF Books, InheritedBound
<1>7. HasInherited(Q)
  <2> SUFFICES ASSUME NEW a \in Q, NEW e \in Inherited(a) PROVE e[2] \in Q
    BY DEF HasInherited
  <2>1. e \in bound'
    BY <1>6
  <2>2. e[1] = a
    BY DEF Inherited, Foreign
  <2> QED
    BY <1>4, <2>1, <2>2 DEF ClosedIn
<1> QED
  BY <1>1, <1>2, <1>7 DEF AcceptedIn, Q

(* The elements es that an accepted e mentions are asked for: an answer leads to what is
   reached from then on. *)
LEMMA BindReaches ==
  ASSUME IInv, NEW e, NEW es, NEW answers \in BOOLEAN,
         answers => Reached(Owner[e]) /\ Foreign(e, es) \subseteq Bindable,
         Owner[e] = Core => Foreign(e, es) = {},
         \A x \in es : Owner[x] \in Asms \cup {Core},
         Bind(e, es, answers), present' = present, gone' = gone
  PROVE  /\ Books'
         /\ bound \subseteq bound'
         /\ answers => \A x \in es : Owner[x] \in ReachedFrom(present', bound') \cup {Core}
<1>1. Books
  BY IInvIsAccepted
<1>2. CASE ~answers
  <2>1. bound' = bound
    BY <1>2 DEF Bind
  <2> QED
    BY <1>1, <1>2, <2>1 DEF Books, InheritedBound
<1>3. CASE answers
  <2> DEFINE Q == ReachedFrom(present', bound')
  <2>1. bound' = bound \cup Foreign(e, es)
    BY <1>3 DEF Bind
  <2>2. Owner[e] \in ReachedFrom(present, bound) \cup {Core}
    BY <1>1, <1>3, ReachedIsFrom
  <2>3. ReachedFrom(present, bound) \subseteq present \cup gone
    BY <1>1, ReachedFromIsIn DEF Books
  <2>4. Foreign(e, es) \subseteq (present \cup gone) \X (present \cup gone)
    <3> SUFFICES ASSUME NEW r \in Foreign(e, es)
                 PROVE  r \in (present \cup gone) \X (present \cup gone)
      OBVIOUS
    <3>1. r \in bound \/ r \in Asms \X present
      BY <1>3 DEF Bindable
    <3>2. r[1] \in present \cup gone
      BY <2>2, <2>3 DEF Foreign
    <3> QED
      BY <1>1, <3>1, <3>2 DEF Books
  <2>5. Books'
    BY <1>1, <2>1, <2>4 DEF Books, InheritedBound
  <2>6. ReachedFrom(present, bound) \subseteq Q
    BY <2>1, ReachedFromGrows
  <2>7. ClosedIn(Q, present', bound')
    <3>1. present' \in SUBSET Asms /\ bound' \in SUBSET (Asms \X Asms)
      BY <2>5 DEF Books
    <3> QED
      BY <3>1, ReachedFromCloses
  <2> HIDE DEF Q
  <2>8. ASSUME NEW x \in es PROVE Owner[x] \in Q \cup {Core}
    <3>1. CASE Owner[x] \in {Owner[e], Core}
      BY <2>2, <2>6, <3>1
    <3>2. CASE Owner[x] \notin {Owner[e], Core}
      <4>1. <<Owner[e], Owner[x]>> \in Foreign(e, es)
        BY <3>2 DEF Foreign
      <4>2. Owner[e] \in Q
        BY <2>2, <2>6, <4>1
      <4> QED
        BY <2>1, <2>7, <4>1, <4>2 DEF ClosedIn
    <3> QED
      BY <3>1, <3>2
  <2> QED
    BY <2>1, <2>5, <2>8 DEF Q
<1> QED
  BY <1>2, <1>3

(* A list of members comes from one fetch. *)
LEMMA ListIsFetched ==
  ASSUME NEW known, NEW h, NEW i, NEW k \in MemberKinds
  PROVE  \E c : MembersFetched(known, h, i)[k] = Fetch(known, h, k, i, c)
<1> DEFINE m == Fetch(known, h, "methods", i, 0)
           f == Fetch(known, h, "fields", i, Len(m))
           p == Fetch(known, h, "properties", i, Len(f))
           a == Fetch(known, h, "attributes", i, Len(p))
<1>1. MembersFetched(known, h, i)
        = [methods |-> m, fields |-> f, properties |-> p, attributes |-> a]
  BY DEF MembersFetched
<1> HIDE DEF m, f, p, a
<1>2. k \in {"methods", "fields", "properties", "attributes"}
  BY DEF MemberKinds
<1>3. CASE k = "methods"
  <2>1. MembersFetched(known, h, i)[k] = m
    BY <1>1, <1>3
  <2> QED
    BY <2>1, <1>3 DEF m
<1>4. CASE k = "fields"
  <2>1. MembersFetched(known, h, i)[k] = f
    BY <1>1, <1>4
  <2> QED
    BY <2>1, <1>4 DEF f
<1>5. CASE k = "properties"
  <2>1. MembersFetched(known, h, i)[k] = p
    BY <1>1, <1>5
  <2> QED
    BY <2>1, <1>5 DEF p
<1>6. CASE k = "attributes"
  <2>1. MembersFetched(known, h, i)[k] = a
    BY <1>1, <1>6
  <2> QED
    BY <2>1, <1>6 DEF a
<1> QED
  BY <1>2, <1>3, <1>4, <1>5, <1>6

(* The ids that a fetch gives out are 0, or of members of a known type, which are owned
   like the type, by the framework, or by what the type inherits from. *)
LEMMA FetchedIds ==
  ASSUME NEW known \in SUBSET Types, NEW h, NEW i, NEW k \in MemberKinds,
         NEW id \in Range(MembersFetched(known, h, i)[k]) \ {NullId}
  PROVE  /\ h \in known
         /\ \E x \in Parts(h) : OwnerOf(k, id) = Owner[x]
         /\ k # "attributes" => id \in ElementsOf[k]
<1>1. PICK c : MembersFetched(known, h, i)[k] = Fetch(known, h, k, i, c)
  BY ListIsFetched
<1>2. h \in known /\ id \in Range(DeclaredIds(h, k, i))
  BY <1>1 DEF Fetch, Range
<1>3. h \in Types /\ Declared[h][k] \in Seq(ElementsOf[k])
  BY <1>2, ReflectionAssumption
<1>4. Range(Declared[h][k]) \subseteq Parts(h)
  BY DEF Parts
<1>5. CASE k = "attributes"
  <2>1. PICK j \in DOMAIN Declared[h][k] : id = <<Declared[h][k][j], i>>
    BY <1>2, <1>5 DEF DeclaredIds, Range
  <2>2. Declared[h][k][j] \in Range(Declared[h][k])
    BY DEF Range
  <2> QED
    BY <1>2, <1>4, <1>5, <2>1, <2>2 DEF OwnerOf
<1>6. CASE k # "attributes"
  <2>1. PICK j \in DOMAIN Declared[h][k] : id = Declared[h][k][j]
    BY <1>2, <1>6 DEF DeclaredIds, Range
  <2>2. id \in Range(Declared[h][k]) /\ id \in ElementsOf[k]
    BY <1>3, <2>1 DEF Range
  <2> QED
    BY <1>2, <1>4, <1>6, <2>2 DEF OwnerOf
<1> QED
  BY <1>5, <1>6

(* What a type is made of is of the assemblies that its own has inherited from. *)
LEMMA PartsOwned ==
  ASSUME NEW P, HasInherited(P), NEW t \in Types, Owner[t] \in P \cup {Core},
         NEW x \in Parts(t)
  PROVE  Owner[x] \in P \cup {Core}
<1>1. CASE Owner[x] \in {Owner[t], Core}
  BY <1>1
<1>2. CASE Owner[x] \notin {Owner[t], Core}
  <2>1. <<Owner[t], Owner[x]>> \in Foreign(t, Parts(t))
    BY <1>2 DEF Foreign
  <2>2. Owner[t] # Core
    BY <2>1, ReferencesAssumption
  <2>3. <<Owner[t], Owner[x]>> \in Inherited(Owner[t])
    BY <2>1 DEF Inherited
  <2> QED
    BY <2>2, <2>3 DEF HasInherited
<1> QED
  BY <1>1, <1>2

(* Hence so are the ids that a fetch gives out. *)
LEMMA FetchedOwned ==
  ASSUME NEW P, HasInherited(P), NEW known \in SUBSET Types,
         \A t \in known : Owner[t] \in P \cup {Core},
         NEW h, NEW i, NEW k \in MemberKinds,
         NEW id \in Range(MembersFetched(known, h, i)[k]) \ {NullId}
  PROVE  /\ OwnerOf(k, id) \in P \cup {Core}
         /\ k # "attributes" => id \in ElementsOf[k]
<1>1. /\ h \in known
      /\ \E x \in Parts(h) : OwnerOf(k, id) = Owner[x]
      /\ k # "attributes" => id \in ElementsOf[k]
  BY FetchedIds
<1> QED
  BY <1>1, PartsOwned

(* Caching types, of which only known ones lead anywhere, accepts no element but those of
   the assemblies that the known types are of and inherit from. *)
LEMMA CacheTypesAccepted ==
  ASSUME NEW P, HasInherited(P), NEW references, NEW hs, NEW known \in SUBSET Types,
         AcceptedIn(cached, P),
         \A t \in known : Owner[t] \in P \cup {Core},
         CacheTypes(references, hs, known)
  PROVE  AcceptedIn(cached', P)
<1> DEFINE ids(k) == UNION {Range(MembersFetched(known, hs[j], Len(types) + j)[k]) :
                              j \in DOMAIN hs}
<1>1. cached' = [k \in Kinds |-> IF k = "types" THEN known
                                 ELSE Registered(k, ids(k) \ {NullId})]
  BY DEF CacheTypes
<1>2. DOMAIN cached' = Kinds
  BY <1>1
<1>3. ASSUME NEW k \in Kinds, NEW e \in cached'[k]
      PROVE  /\ OwnerOf(k, e) \in P \cup {Core}
             /\ k # "attributes" => e \in ElementsOf[k]
  <2>1. CASE k = "types"
    <3>1. e \in known
      BY <1>1, <1>3, <2>1
    <3> QED
      BY <2>1, <3>1 DEF OwnerOf, ElementsOf
  <2>2. CASE k # "types"
    <3>1. k \in MemberKinds
      BY <2>2 DEF Kinds
    <3>2. e \in cached[k] \/ e \in ids(k) \ {NullId}
      BY <1>1, <1>3, <2>2 DEF Registered
    <3>3. CASE e \in cached[k]
      BY <3>3 DEF AcceptedIn
    <3>4. CASE e \in ids(k) \ {NullId}
      <4>1. PICK j \in DOMAIN hs :
               e \in Range(MembersFetched(known, hs[j], Len(types) + j)[k]) \ {NullId}
        BY <3>4
      <4> QED
        BY <3>1, <4>1, FetchedOwned
    <3> QED
      BY <3>2, <3>3, <3>4
  <2> QED
    BY <2>1, <2>2
<1> QED
  BY <1>2, <1>3 DEF AcceptedIn

(* A call that caches types, of which the known ones are reached, keeps the invariant. *)
LEMMA CachingIInv ==
  ASSUME IInv, Books', present \subseteq present', bound \subseteq bound',
         NEW references, NEW hs, NEW known,
         known \subseteq Types,
         \A t \in known \ cached["types"] :
            Owner[t] \in ReachedFrom(present', bound') \cup {Core},
         CacheTypes(references, hs, known)
  PROVE  IInv'
<1> DEFINE Q == ReachedFrom(present', bound')
<1>1. AcceptedIn(cached, Q) /\ HasInherited(Q)
  BY GrownAccepted
<1>2. \A t \in known : Owner[t] \in Q \cup {Core}
  BY <1>1 DEF AcceptedIn, OwnerOf, Kinds
<1> HIDE DEF Q
<1>3. AcceptedIn(cached', Q)
  BY <1>1, <1>2, CacheTypesAccepted
<1> QED
  BY <1>3, IInvIsAcceptedNext DEF Q

(* Accepted elements are of reached assemblies. *)
LEMMA AcceptedReached ==
  ASSUME IInv, NEW k \in Kinds \ {"attributes"}, NEW e \in cached[k]
  PROVE  e \in ElementsOf[k] /\ Reached(Owner[e])
BY DEF IInv, AcceptedAreReached, OwnerOf

(* Resolving a reference to the type with an id that is of a reached assembly, or of
   none, keeps the invariant. *)
LEMMA ResolveToIInv ==
  ASSUME IInv, Books', bound \subseteq bound', NEW references, NEW id,
         id \in Types => Owner[id] \in ReachedFrom(present', bound') \cup {Core},
         ResolveTo(references, id)
  PROVE  IInv'
<1> DEFINE known == WithId(id)
<1>1. known = cached["types"] \cup ({id} \cap Types)
  BY DEF WithId, Registered
<1>2. known \subseteq Types
  BY <1>1 DEF IInv, Kinds, ElementsOf
<1>3. CacheTypes(references, <<id>>, known) /\ present' = present
  BY DEF ResolveTo
<1>4. \A t \in known \ cached["types"] : t = id /\ id \in Types
  BY <1>1
<1> HIDE DEF known
<1> QED
  BY <1>2, <1>3, <1>4, CachingIInv

(* The base and the element type of an accepted type are of reached assemblies. *)
LEMMA PartReached ==
  ASSUME IInv, UNCHANGED <<present, gone, bound>>, NEW t \in cached["types"],
         NEW u \in {BaseOf[t], EltOf[t]} \cap Types
  PROVE  Owner[u] \in ReachedFrom(present', bound') \cup {Core}
<1>1. t \in Types /\ Reached(Owner[t]) /\ Books
  BY AcceptedReached, IInvIsAccepted DEF Kinds, ElementsOf
<1>2. Books'
  BY <1>1 DEF Books, InheritedBound
<1>3. HasInherited(ReachedFrom(present', bound'))
  BY <1>2, GrownAccepted
<1>4. Owner[t] \in ReachedFrom(present', bound') \cup {Core}
  BY <1>1, ReachedIsFrom
<1>5. u \in Parts(t)
  BY ReflectionAssumption DEF Parts, Elements
<1> QED
  BY <1>1, <1>3, <1>4, <1>5, PartsOwned

(* A query for the signature of a member of kind k with id h. *)
LEMMA SignatureReached ==
  ASSUME IInv, NEW k \in {"methods", "fields"}, NEW h, NEW answers \in BOOLEAN,
         answers => Answers(k, h),
         Bind(h, Signature(k, h), answers), present' = present, gone' = gone
  PROVE  /\ Books'
         /\ bound \subseteq bound'
         /\ answers => \A t \in Signature(k, h) :
                          t \in Types /\ Owner[t] \in ReachedFrom(present', bound') \cup {Core}
<1>1. CASE ~answers
  <2>1. bound' = bound
    BY <1>1 DEF Bind
  <2>2. Books
    BY IInvIsAccepted
  <2> QED
    BY <1>1, <2>1, <2>2 DEF Books, InheritedBound
<1>2. CASE answers
  <2>1. h \in cached[k] /\ Foreign(h, Signature(k, h)) \subseteq Bindable
    BY <1>2 DEF Answers
  <2>2. h \in ElementsOf[k] /\ Reached(Owner[h])
    BY <2>1, AcceptedReached DEF Kinds, MemberKinds
  <2>3. Signature(k, h) \subseteq Types
    BY <2>2, ReflectionAssumption DEF Signature, ElementsOf, Range
  <2>4. \A t \in Types : Owner[t] \in Asms \cup {Core}
    BY ReflectionAssumption DEF Elements
  <2>5. Owner[h] = Core => Foreign(h, Signature(k, h)) = {}
    BY <2>2, ReferencesAssumption
  <2> QED
    BY <1>2, <2>1, <2>2, <2>3, <2>4, <2>5, BindReaches
<1> QED
  BY <1>1, <1>2

(* New attributes of a member are of reached assemblies. *)
LEMMA AddAttributesIInv ==
  ASSUME IInv, NEW k \in {"methods", "fields"}, NEW h,
         AddAttributes(k, h), present' = present, gone' = gone
  PROVE  IInv'
<1> DEFINE made == Made(k, h)
           answers == MakesAttributes(k, h)
           Q == ReachedFrom(present', bound')
<1>1. cached' = [cached EXCEPT !["attributes"] =
                   cached["attributes"] \cup {<<a, 0>> : a \in Range(made)}]
  BY DEF AddAttributes, Registered
<1>2. /\ Books' /\ bound \subseteq bound'
      /\ answers => \A a \in Range(AttributesOf[h]) : Owner[a] \in Q \cup {Core}
  <2>1. CASE answers
    <3>1. h \in cached[k] /\ Foreign(h, Range(AttributesOf[h])) \subseteq Bindable
      BY <2>1 DEF MakesAttributes
    <3>2. h \in ElementsOf[k] /\ Reached(Owner[h])
      BY <3>1, AcceptedReached DEF Kinds, MemberKinds
    <3>3. AttributesOf[h] \in Seq(Attributes)
      BY <3>2, ReflectionAssumption DEF ElementsOf
    <3>4. \A a \in Range(AttributesOf[h]) : Owner[a] \in Asms \cup {Core}
      BY <3>3, ReflectionAssumption DEF Range
    <3>5. Owner[h] = Core => Foreign(h, Range(AttributesOf[h])) = {}
      BY <3>2, ReferencesAssumption
    <3>6. Bind(h, Range(AttributesOf[h]), TRUE)
      BY <2>1 DEF AddAttributes, Bind
    <3> QED
      BY <3>1, <3>2, <3>4, <3>5, <3>6, BindReaches
  <2>2. CASE ~answers
    <3>1. bound' = bound
      BY <2>2 DEF AddAttributes, Bind
    <3>2. Books
      BY IInvIsAccepted
    <3> QED
      BY <2>2, <3>1, <3>2 DEF Books, InheritedBound
  <2> QED
    BY <2>1, <2>2
<1>3. \A a \in Range(made) : Owner[a] \in Q \cup {Core}
  <2>1. CASE answers
    BY <1>2, <2>1 DEF Made
  <2>2. CASE ~answers
    BY <2>2 DEF Made, Range
  <2> QED
    BY <2>1, <2>2
<1>4. AcceptedIn(cached, Q)
  BY <1>2, GrownAccepted
<1> HIDE DEF made, answers, Q
<1>5. DOMAIN cached' = Kinds /\ \A q \in Kinds \ {"attributes"} : cached'[q] = cached[q]
  BY <1>1, <1>4 DEF AcceptedIn
<1>6. \A e \in cached'["attributes"] : Owner[e[1]] \in Q \cup {Core}
  <2>1. cached'["attributes"] = cached["attributes"] \cup {<<a, 0>> : a \in Range(made)}
    BY <1>1, <1>4 DEF AcceptedIn, Kinds, MemberKinds
  <2> QED
    BY <1>3, <1>4, <2>1 DEF AcceptedIn, OwnerOf, Kinds, MemberKinds
<1>7. AcceptedIn(cached', Q)
  BY <1>4, <1>5, <1>6 DEF AcceptedIn, OwnerOf
<1> QED
  BY <1>2, <1>7, IInvIsAcceptedNext DEF Q

(* Nothing is known before the first load. *)
THEOREM InitIInv == Init => IInv
BY DEF Init, IInv, InheritedBound, AcceptedAreReached, Kinds

LEMMA LoadAssemblyIInv ==
  ASSUME IInv, NEW a \in Asms, LoadAssembly(a)
  PROVE  IInv'
<1> DEFINE known == cached["types"] \cup Range(TypesOf[a])
<1>1. Books
  BY IInvIsAccepted
<1>2. /\ present' = present \cup {a} /\ gone' = gone
      /\ bound' = bound \cup Inherited(a)
      /\ \A e \in Inherited(a) : Reached(e[2])
      /\ CacheTypes(types, TypesOf[a], known)
  BY DEF LoadAssembly, Registered
<1>3. Inherited(a) \subseteq {a} \X (present \cup gone)
  <2> SUFFICES ASSUME NEW e \in Inherited(a) PROVE e \in {a} \X (present \cup gone)
    OBVIOUS
  <2>1. PICK t \in Types : Owner[t] = a /\ e \in Foreign(t, Parts(t))
    BY DEF Inherited
  <2>2. e = <<e[1], e[2]>> /\ e[1] = a /\ e[2] # Core
    BY <2>1 DEF Foreign
  <2>3. e[2] \in ReachedFrom(present, bound)
    BY <1>1, <1>2, <2>2, ReachedIsFrom
  <2>4. e[2] \in present \cup gone
    BY <1>1, <2>3, ReachedFromIsIn DEF Books
  <2> QED
    BY <2>2, <2>4
<1>4. Books'
  BY <1>1, <1>2, <1>3 DEF Books, InheritedBound
<1>5. Range(TypesOf[a]) \subseteq Types /\ \A t \in Range(TypesOf[a]) : Owner[t] = a
  <2>1. TypesOf[a] \in Seq(Types)
    BY ReflectionAssumption
  <2> QED
    BY <2>1, ReferencesAssumption DEF Range
<1>6. a \in ReachedFrom(present', bound')
  BY <1>2 DEF ReachedFrom, ClosedIn
<1>7. known \subseteq Types
  BY <1>5 DEF IInv, Kinds, ElementsOf
<1>8. \A t \in known \ cached["types"] : Owner[t] \in ReachedFrom(present', bound') \cup {Core}
  BY <1>5, <1>6
<1> HIDE DEF known
<1> QED
  BY <1>2, <1>4, <1>7, <1>8, CachingIInv

LEMMA GetTypeIdIInv ==
  ASSUME IInv, NEW t \in Types, GetTypeId(t)
  PROVE  IInv'
<1> DEFINE Q == ReachedFrom(present', bound')
<1>1. /\ cached' = [cached EXCEPT !["types"] = cached["types"] \cup {t}]
      /\ present' = present /\ gone' = gone /\ bound' = bound
      /\ Owner[t] \in present \cup {Core}
  BY DEF GetTypeId, Registered
<1>2. Books /\ Books'
  BY <1>1, IInvIsAccepted DEF Books, InheritedBound
<1>3. AcceptedIn(cached, Q)
  BY <1>1, <1>2, GrownAccepted
<1>4. Owner[t] \in Q \cup {Core}
  BY <1>1, <1>2 DEF ReachedFrom, ClosedIn, Books
<1> HIDE DEF Q
<1>5. DOMAIN cached' = Kinds /\ "types" \in Kinds
  BY <1>1, <1>3 DEF AcceptedIn, Kinds
<1>6. ASSUME NEW k \in Kinds
      PROVE  cached'[k] = IF k = "types" THEN cached[k] \cup {t} ELSE cached[k]
  BY <1>1, <1>3, <1>5 DEF AcceptedIn
<1>7. AcceptedIn(cached', Q)
  BY <1>3, <1>4, <1>5, <1>6 DEF AcceptedIn, OwnerOf, ElementsOf
<1> QED
  BY <1>2, <1>7, IInvIsAcceptedNext DEF Q

LEMMA InitTypeIInv ==
  ASSUME IInv, NEW t \in Types, InitType(t)
  PROVE  IInv'
<1> DEFINE Q == ReachedFrom(present', bound')
           known == cached["types"]
<1>1. /\ cached' = [k \in Kinds |->
                      IF k = "types" THEN cached[k]
                      ELSE cached[k] \cup (Range(MembersFetched(known, t, 0)[k]) \ {NullId})]
      /\ present' = present /\ gone' = gone /\ bound' = bound
  BY DEF InitType, Registered
<1>2. Books /\ Books'
  BY <1>1, IInvIsAccepted DEF Books, InheritedBound
<1>3. AcceptedIn(cached, Q) /\ HasInherited(Q)
  BY <1>1, <1>2, GrownAccepted
<1> HIDE DEF Q
<1>4. known \in SUBSET Types /\ \A u \in known : Owner[u] \in Q \cup {Core}
  BY <1>3 DEF AcceptedIn, OwnerOf, Kinds, ElementsOf
<1> HIDE DEF known
<1>5. ASSUME NEW k \in Kinds, NEW e \in cached'[k]
      PROVE  /\ OwnerOf(k, e) \in Q \cup {Core}
             /\ k # "attributes" => e \in ElementsOf[k]
  <2>1. CASE e \in cached[k]
    BY <1>3, <2>1 DEF AcceptedIn
  <2>2. CASE e \notin cached[k]
    <3>1. k \in MemberKinds /\ e \in Range(MembersFetched(known, t, 0)[k]) \ {NullId}
      BY <1>1, <1>5, <2>2 DEF Kinds
    <3> QED
      BY <1>3, <1>4, <3>1, FetchedOwned
  <2> QED
    BY <2>1, <2>2
<1>6. DOMAIN cached' = Kinds
  BY <1>1
<1>7. AcceptedIn(cached', Q)
  BY <1>5, <1>6 DEF AcceptedIn
<1> QED
  BY <1>2, <1>7, IInvIsAcceptedNext DEF Q

LEMMA BindReferenceIInv ==
  ASSUME IInv, NEW a, NEW b, BindReference(a, b)
  PROVE  IInv'
<1>1. /\ a # Core /\ Reached(a) /\ b \in present
      /\ bound' = bound \cup {<<a, b>>}
      /\ cached' = cached /\ present' = present /\ gone' = gone
  BY DEF BindReference
<1>2. Books
  BY IInvIsAccepted
<1>3. a \in ReachedFrom(present, bound)
  BY <1>1, <1>2, ReachedIsFrom
<1>4. a \in present \cup gone
  BY <1>2, <1>3, ReachedFromIsIn DEF Books
<1>5. Books'
  BY <1>1, <1>2, <1>4 DEF Books, InheritedBound
<1>6. AcceptedIn(cached, ReachedFrom(present', bound'))
  BY <1>1, <1>5, GrownAccepted
<1> QED
  BY <1>1, <1>5, <1>6, IInvIsAcceptedNext

LEMMA UnloadIInv ==
  ASSUME IInv, NEW a \in Asms, Unload(a)
  PROVE  IInv'
<1>1. /\ a \in present /\ present' = present \ {a} /\ gone' = gone \cup {a}
      /\ bound' = bound /\ cached' = [k \in Kinds |-> {}]
  BY DEF Unload, ClearTables
<1> QED
  BY <1>1 DEF IInv, InheritedBound, AcceptedAreReached

LEMMA ResolveIInv ==
  ASSUME IInv, NEW i \in DOMAIN types, Resolve(i)
  PROVE  IInv'
<1>1. CASE BaseObject(i) \/ GetEltType(i)
  <2>1. PICK id, references :
           /\ ResolveTo(references, id)
           /\ UNCHANGED bound
           /\ \/ id = BaseId(types[i].handle)
              \/ id = EltId(types[i].handle)
    BY <1>1, Zenon DEF BaseObject, GetEltType
  <2>2. UNCHANGED <<present, gone, bound>>
    BY <2>1 DEF ResolveTo
  <2>3. Books'
    BY <2>2, IInvIsAccepted DEF Books, InheritedBound
  <2>4. id \in Types => Owner[id] \in ReachedFrom(present', bound') \cup {Core}
    <3> SUFFICES ASSUME id \in Types
                 PROVE  Owner[id] \in ReachedFrom(present', bound') \cup {Core}
      OBVIOUS
    <3>1. types[i].handle \in cached["types"]
          /\ id \in {BaseOf[types[i].handle], EltOf[types[i].handle]} \cap Types
      BY <2>1, ReflectionAssumption DEF BaseId, EltId, Elements
    <3> QED
      BY <2>2, <3>1, PartReached
  <2> QED
    BY <2>1, <2>2, <2>3, <2>4, ResolveToIInv
<1>2. ASSUME NEW k \in {"methods", "fields"}, NEW j \in DOMAIN types[i].members[k],
             GetMemberType(i, k, j)
      PROVE  IInv'
  <2> DEFINE h == types[i].members[k][j].handle
             id == MemberTypeId(k, h)
             answers == Answers(k, h)
  <2>1. PICK references : ResolveTo(references, id) /\ Bind(h, Signature(k, h), answers)
    BY <1>2, Zenon DEF GetMemberType
  <2>2. present' = present /\ gone' = gone
    BY <2>1 DEF ResolveTo
  <2>3. answers \in BOOLEAN
    BY DEF Answers
  <2>4. /\ Books' /\ bound \subseteq bound'
        /\ answers => \A t \in Signature(k, h) :
                         t \in Types /\ Owner[t] \in ReachedFrom(present', bound') \cup {Core}
    BY <2>1, <2>2, <2>3, SignatureReached
  <2>5. id \in Types => answers /\ id \in Signature(k, h)
    BY ReflectionAssumption DEF MemberTypeId, Signature, Elements
  <2> HIDE DEF id, answers
  <2> QED
    BY <2>1, <2>4, <2>5, ResolveToIInv
<1>3. ASSUME NEW j \in DOMAIN types[i].members["methods"], ParamTypes(i, j) PROVE IInv'
  <2> DEFINE h == types[i].members["methods"][j].handle
             known == cached["types"] \cup Range(ParamsOf[h])
  <2>1. /\ Answers("methods", h) /\ Bind(h, Signature("methods", h), TRUE)
        /\ present' = present /\ gone' = gone
        /\ \E references : CacheTypes(references, ParamsOf[h], known)
    BY <1>3 DEF ParamTypes, Registered
  <2>2. /\ Books' /\ bound \subseteq bound'
        /\ \A t \in Signature("methods", h) :
              t \in Types /\ Owner[t] \in ReachedFrom(present', bound') \cup {Core}
    BY <2>1, SignatureReached
  <2>3. Range(ParamsOf[h]) \subseteq Signature("methods", h)
    BY DEF Signature
  <2>4. known \subseteq Types
    BY <2>2, <2>3 DEF IInv, Kinds, ElementsOf
  <2>5. \A t \in known \ cached["types"] :
           Owner[t] \in ReachedFrom(present', bound') \cup {Core}
    BY <2>2, <2>3
  <2>6. PICK references : CacheTypes(references, ParamsOf[h], known)
    BY <2>1
  <2> HIDE DEF known
  <2> QED
    BY <2>1, <2>2, <2>4, <2>5, <2>6, CachingIInv
<1>4. ASSUME NEW j \in DOMAIN types[i].members["attributes"], AttributeType(i, j) PROVE IInv'
  <2>1. /\ \E hs : CacheTypes(types, hs, cached["types"])
        /\ UNCHANGED <<present, gone, bound>>
    BY <1>4 DEF AttributeType
  <2>2. Books'
    BY <2>1, IInvIsAccepted DEF Books, InheritedBound
  <2>3. cached["types"] \subseteq Types
    BY DEF IInv, Kinds, ElementsOf
  <2> QED
    BY <2>1, <2>2, <2>3, CachingIInv
<1>5. ASSUME NEW j \in DOMAIN types[i].members["methods"], MethodAttributes(i, j) PROVE IInv'
  <2>1. PICK h : AddAttributes("methods", h)
    BY <1>5 DEF MethodAttributes
  <2> QED
    BY <1>5, <2>1, AddAttributesIInv DEF MethodAttributes
<1>6. ASSUME NEW j \in DOMAIN types[i].members["fields"], FieldAttributes(i, j) PROVE IInv'
  <2>1. PICK h : AddAttributes("fields", h)
    BY <1>6 DEF FieldAttributes
  <2> QED
    BY <1>6, <2>1, AddAttributesIInv DEF FieldAttributes
<1> QED
  BY <1>1, <1>2, <1>3, <1>4, <1>5, <1>6 DEF Resolve

(* Every call of the API keeps the invariant. *)
THEOREM StepIInv == IInv /\ [Next]_vars => IInv'
<1> SUFFICES ASSUME IInv, [Next]_vars PROVE IInv'
  OBVIOUS
<1>1. CASE UNCHANGED vars
  BY <1>1 DEF vars, IInv, InheritedBound, AcceptedAreReached, Reached
<1> QED
  BY <1>1, LoadAssemblyIInv, UnloadIInv, BindReferenceIInv, GetTypeIdIInv, InitTypeIInv,
     ResolveIInv DEF Next

(* The five tables lead only to elements of the framework and of assemblies that are
   loaded or still referred to by such, however many mirrors of unloaded types are still
   asked about. *)
THEOREM UnloadIsFinal == Spec => []AcceptedAreReached
<1>1. IInv => AcceptedAreReached
  BY DEF IInv
<1> QED
  BY InitIInv, StepIInv, <1>1, PTL DEF Spec
-----------------------------------------------------------------------------
(* The mirrors: what each leads to, from when it was made to the end. *)

Ids == Elements \cup AttributeIds \cup {NullId, NoId}

MemberSet == [handle : Ids, type : Nat, params : Seq(Nat)]

MirrorSet == [handle : Ids, name : Names \cup {NoName}, base_type : Nat, elt_type : Nat,
              members : [MemberKinds -> Seq(MemberSet)]]

(* Mirror n is of the same type as m and has the same members: all that may differ is
   which references are resolved. *)
SameMirror(m, n) ==
  /\ n.handle = m.handle
  /\ n.name = m.name
  /\ \A k \in MemberKinds :
        /\ DOMAIN n.members[k] = DOMAIN m.members[k]
        /\ \A j \in DOMAIN m.members[k] : n.members[k][j].handle = m.members[k][j].handle

(* Among the mirrors ts, the r-th is a complete one of the type with an id. *)
LeadsIn(ts, r, id) ==
  /\ r \in DOMAIN ts
  /\ ts[r].handle = id
  /\ id \in Types => ts[r].name = NameOf[id]

(* The r-th is the null type, for good. *)
NullIn(ts, r) == r \in DOMAIN ts /\ ts[r].handle = NoId

(* The base type or the element type of a mirror of h, where of is the table of them. *)
TypeRefIn(ts, h, of, r, old) ==
  r # 0 => \/ h \in Types /\ LeadsIn(ts, r, of[h])
           \/ NullIn(ts, r) /\ (old \/ h \notin Types)

(* The return type of a method, the type of a field. *)
MemberRefIn(ts, k, m, old) ==
  m.type # 0 => \/ m.handle # NullId /\ LeadsIn(ts, m.type, TypeOf[m.handle])
                \/ NullIn(ts, m.type) /\ (old \/ MayHaveNoType(k, m.handle))

(* The parameter types of a method. *)
ParamRefsIn(ts, m) == \A p \in DOMAIN m.params : LeadsIn(ts, m.params[p], ParamsOf[m.handle][p])

(* Everything that the mirror m refers to among ts; old says that m was made before the
   last unload. *)
RefsIn(ts, m, old) ==
  /\ TypeRefIn(ts, m.handle, BaseOf, m.base_type, old)
  /\ TypeRefIn(ts, m.handle, EltOf, m.elt_type, old)
  /\ \A k \in MemberKinds : \A j \in DOMAIN m.members[k] :
        /\ k \in {"methods", "fields"} => MemberRefIn(ts, k, m.members[k][j], old)
        /\ k = "methods" => ParamRefsIn(ts, m.members[k][j])
        /\ k \notin {"methods", "fields"} => m.members[k][j].type = 0
        /\ k # "methods" => m.members[k][j].params = <<>>

(* A mirror made since the last unload is of a type that the managed side accepts, under
   its name, or of no type and without a name. *)
NamedIn(m, known) ==
  \/ m.handle \in known /\ m.name = NameOf[m.handle]
  \/ m.handle \notin Types /\ m.name = NoName

(* The j-th member of kind k of a mirror is accepted by its table c. *)
KnownIn(m, k, j, c) ==
  \/ m.members[k][j].handle \in c
  \/ m.members[k][j].handle = NullId /\ k \in Failing[m.handle]

(* The invariant of the mirrors. *)
MirrorsInv ==
  /\ types \in Seq(MirrorSet)
  /\ unloaded_at \in 0..Len(types)
  /\ gone \subseteq Asms
  /\ overrun \in BOOLEAN
  /\ cached["attributes"] \subseteq AttributeIds
  /\ \A i \in DOMAIN types : \A j \in DOMAIN types[i].members["attributes"] :
        types[i].members["attributes"][j].handle \notin Types
  /\ \A i \in DOMAIN types : i > unloaded_at => NamedIn(types[i], cached["types"])
  /\ \A i \in DOMAIN types, k \in MemberKinds : \A j \in DOMAIN types[i].members[k] :
        i > unloaded_at => KnownIn(types[i], k, j, cached[k])
  /\ \A i \in DOMAIN types : RefsIn(types, types[i], i <= unloaded_at)

(* A nonempty set of indices has a largest one. *)
LEMMA HasLargest ==
  ASSUME NEW n \in Nat, NEW S \in SUBSET (0..n), S # {}
  PROVE  \E i \in S : \A j \in S : j <= i
<1> DEFINE T == {x \in 0..n : n - x \in S}
           R == OpToRel(<, Nat)
<1>1. IsWellFoundedOn(R, Nat)
  BY NatLessThanWellFounded
<1>2. T \subseteq Nat
  OBVIOUS
<1>3. T # {}
  <2>1. PICK i \in S : TRUE
    OBVIOUS
  <2>2. i \in 0..n
    BY <2>1
  <2>3. n - i \in 0..n /\ n - (n - i) = i
    BY <2>2
  <2> QED
    BY <2>1, <2>3
<1>4. \A a, b \in Nat : a < b => <<a, b>> \in R
  BY DEF OpToRel
<1> HIDE DEF R
<1>5. PICK x \in T : \A y \in T : ~ (<<y, x>> \in R)
  <2> HIDE DEF T
  <2> QED
    BY <1>1, <1>2, <1>3, WFMin
<1>6. \A y \in T : ~(y < x)
  BY <1>2, <1>4, <1>5
<1>7. ASSUME NEW j \in S PROVE j <= n - x
  <2>1. j \in 0..n
    OBVIOUS
  <2>2. n - j \in 0..n /\ n - (n - j) = j
    BY <2>1
  <2>3. ~(n - j < x)
    BY <1>6, <2>2
  <2> QED
    BY <1>5, <2>1, <2>3
<1> QED
  BY <1>5, <1>7

(* What the lookup by a name returns: the last mirror of that name. *)
LEMMA LastOfName ==
  ASSUME types \in Seq(MirrorSet), NEW i \in DOMAIN types
  PROVE  /\ GetType(types[i].name) \in DOMAIN types
         /\ types[GetType(types[i].name)].name = types[i].name
         /\ i <= GetType(types[i].name)
<1> DEFINE named == {j \in DOMAIN types : types[j].name = types[i].name}
<1>1. Len(types) \in Nat /\ DOMAIN types = 1..Len(types)
  OBVIOUS
<1>2. named \subseteq 0..Len(types) /\ i \in named
  BY <1>1
<1>3. GetType(types[i].name)
        = IF named = {} THEN 0 ELSE CHOOSE r \in named : \A j \in named : j <= r
  BY DEF GetType
<1>4. \A j \in named : j \in DOMAIN types /\ types[j].name = types[i].name
  OBVIOUS
<1> HIDE DEF named
<1>5. \E r \in named : \A j \in named : j <= r
  BY <1>1, <1>2, HasLargest
<1>6. GetType(types[i].name) = CHOOSE r \in named : \A j \in named : j <= r
  BY <1>2, <1>3
<1>7. GetType(types[i].name) \in named /\ \A j \in named : j <= GetType(types[i].name)
  BY <1>5, <1>6
<1> QED
  BY <1>2, <1>4, <1>7

LEMMA MirrorsInvFoundByName == MirrorsInv /\ IInv => FoundByName
<1> SUFFICES ASSUME MirrorsInv, IInv, NEW i \in (unloaded_at + 1)..Len(types),
                    types[i].handle \in Types
             PROVE  LET r == GetType(types[i].name)
                    IN r # 0 /\ types[r].handle \in cached["types"]
                       /\ NameOf[types[r].handle] = types[i].name
  BY DEF FoundByName
<1> DEFINE r == GetType(types[i].name)
<1>1. types \in Seq(MirrorSet) /\ unloaded_at \in 0..Len(types)
  BY DEF MirrorsInv
<1>2. Len(types) \in Nat /\ DOMAIN types = 1..Len(types)
  BY <1>1
<1>3. i \in DOMAIN types /\ i > unloaded_at
  BY <1>1, <1>2
<1>4. r \in DOMAIN types /\ types[r].name = types[i].name /\ i <= r
  BY <1>1, <1>3, LastOfName
<1> HIDE DEF r
<1>5. r # 0 /\ r > unloaded_at
  BY <1>1, <1>2, <1>3, <1>4
<1>6. NamedIn(types[i], cached["types"]) /\ NamedIn(types[r], cached["types"])
  BY <1>3, <1>4, <1>5 DEF MirrorsInv
<1>7. types[i].name = NameOf[types[i].handle]
  BY <1>6 DEF NamedIn
<1>8. types[r].name # NoName
  BY <1>4, <1>7, ReflectionAssumption
<1>9. types[r].handle \in cached["types"] /\ types[r].name = NameOf[types[r].handle]
  BY <1>6, <1>8 DEF NamedIn
<1> QED
  BY <1>4, <1>5, <1>9 DEF r

LEMMA MirrorsInvMembersKnown == MirrorsInv => MembersKnown
<1> SUFFICES ASSUME MirrorsInv, NEW i \in (unloaded_at + 1)..Len(types), NEW k \in MemberKinds,
                    NEW j \in DOMAIN types[i].members[k]
             PROVE  KnownIn(types[i], k, j, cached[k])
  BY DEF MembersKnown, KnownIn
<1>1. types \in Seq(MirrorSet) /\ unloaded_at \in 0..Len(types)
  BY DEF MirrorsInv
<1>2. i \in DOMAIN types /\ i > unloaded_at
  BY <1>1
<1> QED
  BY <1>2 DEF MirrorsInv

LEMMA MirrorsInvResolved == MirrorsInv => ResolvedTypesMatch
<1> SUFFICES ASSUME MirrorsInv PROVE ResolvedTypesMatch
  OBVIOUS
<1>a. "methods" \in MemberKinds /\ "fields" \in MemberKinds
  BY DEF MemberKinds
<1>1. ASSUME NEW i \in DOMAIN types
      PROVE  /\ \A r \in {types[i].base_type} \ {0} :
                  \/ /\ types[i].handle \in Types
                     /\ types[r].handle = BaseOf[types[i].handle]
                     /\ BaseOf[types[i].handle] \in Types
                           => types[r].name = NameOf[BaseOf[types[i].handle]]
                  \/ types[r].handle = NoId /\ (i <= unloaded_at \/ types[i].handle \notin Types)
             /\ \A r \in {types[i].elt_type} \ {0} :
                  \/ /\ types[i].handle \in Types
                     /\ types[r].handle = EltOf[types[i].handle]
                     /\ EltOf[types[i].handle] \in Types
                           => types[r].name = NameOf[EltOf[types[i].handle]]
                  \/ types[r].handle = NoId /\ (i <= unloaded_at \/ types[i].handle \notin Types)
  <2>1. RefsIn(types, types[i], i <= unloaded_at)
    BY DEF MirrorsInv
  <2> QED
    BY <2>1 DEF RefsIn, TypeRefIn, LeadsIn, NullIn
<1>2. ASSUME NEW i \in DOMAIN types, NEW k \in {"methods", "fields"},
             NEW j \in DOMAIN types[i].members[k], types[i].members[k][j].type # 0
      PROVE  LET m == types[i].members[k][j]
             IN \/ /\ m.handle # NullId
                   /\ types[m.type].handle = TypeOf[m.handle]
                   /\ TypeOf[m.handle] \in Types => types[m.type].name = NameOf[TypeOf[m.handle]]
                \/ /\ types[m.type].handle = NoId
                   /\ i <= unloaded_at \/ MayHaveNoType(k, m.handle)
  <2>1. RefsIn(types, types[i], i <= unloaded_at)
    BY DEF MirrorsInv
  <2>2. MemberRefIn(types, k, types[i].members[k][j], i <= unloaded_at)
    BY <1>a, <2>1 DEF RefsIn
  <2> QED
    BY <1>2, <2>2 DEF MemberRefIn, LeadsIn, NullIn
<1>3. ASSUME NEW i \in DOMAIN types, NEW j \in DOMAIN types[i].members["methods"],
             NEW p \in DOMAIN types[i].members["methods"][j].params
      PROVE  LET m == types[i].members["methods"][j]
             IN /\ types[m.params[p]].handle = ParamsOf[m.handle][p]
                /\ ParamsOf[m.handle][p] \in Types
                      => types[m.params[p]].name = NameOf[ParamsOf[m.handle][p]]
  <2>1. RefsIn(types, types[i], i <= unloaded_at)
    BY DEF MirrorsInv
  <2>2. ParamRefsIn(types, types[i].members["methods"][j])
    BY <1>a, <2>1 DEF RefsIn
  <2> QED
    BY <2>2 DEF ParamRefsIn, LeadsIn
<1> QED
  BY <1>1, <1>2, <1>3 DEF ResolvedTypesMatch

(* The indices in a mirror are those of mirrors. *)
LEMMA MirrorsInvTypeOK == MirrorsInv /\ IInv => TypeOK
<1> SUFFICES ASSUME MirrorsInv, IInv PROVE TypeOK
  OBVIOUS
<1>1. types \in Seq(MirrorSet) /\ unloaded_at \in Indices
  BY DEF MirrorsInv, Indices
<1>2. Len(types) \in Nat /\ DOMAIN types = 1..Len(types)
  BY <1>1
<1>3. \A r \in DOMAIN types : r \in Indices
  BY <1>2 DEF Indices
<1>4. 0 \in Indices
  BY <1>2 DEF Indices
<1>5. ASSUME NEW k \in Kinds
      PROVE  cached[k] \subseteq IF k = "attributes" THEN AttributeIds ELSE ElementsOf[k]
  BY DEF MirrorsInv, IInv
<1>6. ASSUME NEW i \in DOMAIN types
      PROVE  /\ types[i].name \in Names \cup {NoName}
             /\ types[i].base_type \in Indices
             /\ types[i].elt_type \in Indices
  <2>1. types[i] \in MirrorSet
    BY <1>1
  <2>2. RefsIn(types, types[i], i <= unloaded_at)
    BY DEF MirrorsInv
  <2>3. types[i].name \in Names \cup {NoName}
    BY <2>1 DEF MirrorSet
  <2>4. /\ types[i].base_type # 0 => types[i].base_type \in DOMAIN types
        /\ types[i].elt_type # 0 => types[i].elt_type \in DOMAIN types
    BY <2>2 DEF RefsIn, TypeRefIn, LeadsIn, NullIn
  <2> QED
    BY <1>3, <1>4, <2>3, <2>4
<1>7. ASSUME NEW i \in DOMAIN types, NEW k \in MemberKinds, NEW j \in DOMAIN types[i].members[k]
      PROVE  LET m == types[i].members[k][j]
             IN m.type \in Indices /\ \A p \in DOMAIN m.params : m.params[p] \in Indices
  <2> DEFINE m == types[i].members[k][j]
  <2>1. RefsIn(types, types[i], i <= unloaded_at)
    BY DEF MirrorsInv
  <2>2. m.type # 0 => m.type \in DOMAIN types
    BY <2>1 DEF RefsIn, MemberRefIn, LeadsIn, NullIn
  <2>3. \A p \in DOMAIN m.params : m.params[p] \in DOMAIN types
    <3>1. CASE k = "methods"
      BY <2>1, <3>1 DEF RefsIn, ParamRefsIn, LeadsIn
    <3>2. CASE k # "methods"
      <4>1. m.params = <<>>
        BY <2>1, <3>2 DEF RefsIn
      <4> QED
        BY <4>1
    <3> QED
      BY <3>1, <3>2
  <2> QED
    BY <1>3, <1>4, <2>2, <2>3
<1> QED
  BY <1>1, <1>5, <1>6, <1>7 DEF TypeOK, MirrorsInv, IInv

(* The ids that a table can hold, besides which 0 is fetched. *)
IdsOf(k) == IF k = "attributes" THEN AttributeIds ELSE ElementsOf[k]

LEMMA IdsAreIds ==
  ASSUME NEW k \in MemberKinds
  PROVE  /\ IdsOf(k) \subseteq Ids
         /\ NullId \in Ids /\ NoId \in Ids /\ Types \subseteq Ids
         /\ NullId \notin IdsOf(k)
         /\ NullId \notin Types /\ NoId \notin Types
         /\ AttributeIds \cap Types = {}
BY ReflectionAssumption DEF IdsOf, Ids, Elements, ElementsOf, MemberKinds

(* The ids that are not 0 in a fetch for a type that is known and whose fetch does not throw. *)
LEMMA DeclaredIdsShape ==
  ASSUME NEW h \in Types, NEW k \in MemberKinds, NEW i \in Nat
  PROVE  DeclaredIds(h, k, i) \in Seq(IdsOf(k))
<1>1. Declared[h][k] \in Seq(ElementsOf[k])
  BY ReflectionAssumption
<1>2. CASE k = "attributes"
  <2> DEFINE d == Declared[h][k]
  <2>1. d \in Seq(Attributes)
    BY <1>1, <1>2 DEF ElementsOf
  <2>2. Len(d) \in Nat /\ DOMAIN d = 1..Len(d) /\ \A j \in 1..Len(d) : d[j] \in Attributes
    BY <2>1
  <2>3. DeclaredIds(h, k, i) = [j \in 1..Len(d) |-> <<d[j], i>>]
    BY <1>2, <2>2 DEF DeclaredIds
  <2>4. \A j \in 1..Len(d) : <<d[j], i>> \in IdsOf(k)
    BY <1>2, <2>2 DEF IdsOf, AttributeIds
  <2> HIDE DEF d
  <2> QED
    BY <2>2, <2>3, <2>4
<1>3. CASE k # "attributes"
  BY <1>1, <1>3 DEF DeclaredIds, IdsOf
<1> QED
  BY <1>2, <1>3

(* A fetch returns a list, of count zeros for a type that is not known. *)
LEMMA FetchShape ==
  ASSUME NEW known \in SUBSET Types, NEW h, NEW k \in MemberKinds, NEW i \in Nat, NEW c \in Nat
  PROVE  /\ Fetch(known, h, k, i, c) \in Seq(IdsOf(k) \cup {NullId})
         /\ Len(Fetch(known, h, k, i, c)) \in Nat
         /\ h \notin known => Len(Fetch(known, h, k, i, c)) = c
<1> DEFINE s == Fetch(known, h, k, i, c)
<1>1. CASE h \in known /\ k \notin Failing[h]
  <2>1. s = DeclaredIds(h, k, i)
    BY <1>1 DEF Fetch
  <2>2. h \in Types
    BY <1>1
  <2>3. DeclaredIds(h, k, i) \in Seq(IdsOf(k))
    BY <2>2, DeclaredIdsShape
  <2> HIDE DEF s
  <2>4. s \in Seq(IdsOf(k) \cup {NullId}) /\ Len(s) \in Nat
    BY <2>1, <2>3
  <2> QED
    BY <1>1, <2>4 DEF s
<1>2. CASE ~(h \in known /\ k \notin Failing[h])
  <2>1. s = [j \in 1..c |-> NullId]
    BY <1>2 DEF Fetch
  <2> HIDE DEF s
  <2>2. s \in Seq(IdsOf(k) \cup {NullId}) /\ Len(s) = c
    BY <2>1
  <2> QED
    BY <2>2 DEF s
<1> QED
  BY <1>1, <1>2

(* An id that a fetch for a known type returns is 0 only if the fetch threw. *)
LEMMA FetchedZero ==
  ASSUME NEW known \in SUBSET Types, NEW h \in known, NEW k \in MemberKinds, NEW i \in Nat,
         NEW c \in Nat, NEW j \in DOMAIN Fetch(known, h, k, i, c),
         Fetch(known, h, k, i, c)[j] = NullId
  PROVE  k \in Failing[h]
<1> SUFFICES ASSUME k \notin Failing[h] PROVE FALSE
  OBVIOUS
<1> DEFINE d == DeclaredIds(h, k, i)
<1>1. Fetch(known, h, k, i, c) = d
  BY DEF Fetch
<1>2. d \in Seq(IdsOf(k))
  BY DeclaredIdsShape
<1>3. NullId \notin IdsOf(k)
  BY IdsAreIds
<1> HIDE DEF d
<1>4. j \in DOMAIN d /\ d[j] = NullId
  BY <1>1
<1>5. d[j] \in IdsOf(k)
  BY <1>2, <1>4
<1> QED
  BY <1>3, <1>4, <1>5

(* The four lists of a mirror: the count that a fetch starts with is a length. *)
LEMMA MembersShape ==
  ASSUME NEW known \in SUBSET Types, NEW h, NEW i \in Nat, NEW k \in MemberKinds
  PROVE  LET s == MembersFetched(known, h, i)[k]
         IN /\ s \in Seq(IdsOf(k) \cup {NullId})
            /\ h \notin known => s = <<>>
            /\ h \in known => \A j \in DOMAIN s : s[j] = NullId => k \in Failing[h]
<1> DEFINE m == Fetch(known, h, "methods", i, 0)
           f == Fetch(known, h, "fields", i, Len(m))
           p == Fetch(known, h, "properties", i, Len(f))
           a == Fetch(known, h, "attributes", i, Len(p))
<1>a. /\ "methods" \in MemberKinds
      /\ "fields" \in MemberKinds
      /\ "properties" \in MemberKinds
      /\ "attributes" \in MemberKinds
  BY DEF MemberKinds
<1>1. MembersFetched(known, h, i)
        = [methods |-> m, fields |-> f, properties |-> p, attributes |-> a]
  BY DEF MembersFetched
<1>2. Len(m) \in Nat /\ (h \notin known => Len(m) = 0)
  BY <1>a, FetchShape
<1> HIDE DEF m
<1>3. Len(f) \in Nat /\ (h \notin known => Len(f) = 0)
  BY <1>a, <1>2, FetchShape
<1> HIDE DEF f
<1>4. Len(p) \in Nat /\ (h \notin known => Len(p) = 0)
  BY <1>a, <1>3, FetchShape
<1> HIDE DEF p
<1>5. ASSUME NEW c \in Nat, MembersFetched(known, h, i)[k] = Fetch(known, h, k, i, c),
             h \notin known => c = 0
      PROVE  LET s == MembersFetched(known, h, i)[k]
             IN /\ s \in Seq(IdsOf(k) \cup {NullId})
                /\ h \notin known => s = <<>>
                /\ h \in known => \A j \in DOMAIN s : s[j] = NullId => k \in Failing[h]
  <2> DEFINE s == Fetch(known, h, k, i, c)
  <2>1. s \in Seq(IdsOf(k) \cup {NullId})
    BY FetchShape
  <2>2. h \notin known => Len(s) = c
    BY FetchShape
  <2>3. ASSUME h \in known, NEW j \in DOMAIN s, s[j] = NullId PROVE k \in Failing[h]
    BY <2>3, FetchedZero
  <2> HIDE DEF s
  <2>4. h \notin known => s = <<>>
    BY <1>5, <2>1, <2>2
  <2> QED
    BY <1>5, <2>1, <2>3, <2>4 DEF s
<1>6. CASE k = "methods"
  <2>1. MembersFetched(known, h, i)[k] = Fetch(known, h, k, i, 0)
    BY <1>1, <1>6 DEF m
  <2> QED
    BY <1>5, <2>1
<1>7. CASE k = "fields"
  <2>1. MembersFetched(known, h, i)[k] = Fetch(known, h, k, i, Len(m))
    BY <1>1, <1>7 DEF f
  <2> QED
    BY <1>2, <1>5, <2>1
<1>8. CASE k = "properties"
  <2>1. MembersFetched(known, h, i)[k] = Fetch(known, h, k, i, Len(f))
    BY <1>1, <1>8 DEF p
  <2> QED
    BY <1>3, <1>5, <2>1
<1>9. CASE k = "attributes"
  <2>1. MembersFetched(known, h, i)[k] = Fetch(known, h, k, i, Len(p))
    BY <1>1, <1>9 DEF a
  <2> QED
    BY <1>4, <1>5, <2>1
<1> QED
  BY <1>6, <1>7, <1>8, <1>9 DEF MemberKinds

(* What a new mirror is. *)
LEMMA MirrorShape ==
  ASSUME NEW known \in SUBSET Types, NEW h \in Ids, NEW i \in Nat
  PROVE  LET m == Mirror(known, h, i)
         IN /\ m \in MirrorSet
            /\ m.handle = h
            /\ m.name = FullName(known, h)
            /\ m.base_type = 0
            /\ m.elt_type = 0
            /\ \A k \in MemberKinds :
                  /\ DOMAIN m.members[k] = DOMAIN MembersFetched(known, h, i)[k]
                  /\ \A j \in DOMAIN m.members[k] :
                        m.members[k][j] = Member(MembersFetched(known, h, i)[k][j])
<1> DEFINE ids == MembersFetched(known, h, i)
           ms == [k \in MemberKinds |-> [j \in DOMAIN ids[k] |-> Member(ids[k][j])]]
           m == Mirror(known, h, i)
<1>1. m = [handle |-> h, name |-> FullName(known, h), base_type |-> 0, elt_type |-> 0,
           members |-> ms]
  BY DEF Mirror
<1>2. FullName(known, h) \in Names \cup {NoName}
  BY ReflectionAssumption DEF FullName
<1>3. ASSUME NEW k \in MemberKinds
      PROVE  [j \in DOMAIN ids[k] |-> Member(ids[k][j])] \in Seq(MemberSet)
  <2> DEFINE s == ids[k]
  <2>1. s \in Seq(IdsOf(k) \cup {NullId})
    BY MembersShape
  <2>2. IdsOf(k) \cup {NullId} \subseteq Ids
    BY IdsAreIds
  <2> HIDE DEF s
  <2>3. Len(s) \in Nat /\ DOMAIN s = 1..Len(s) /\ \A j \in 1..Len(s) : s[j] \in Ids
    BY <2>1, <2>2
  <2>4. \A j \in 1..Len(s) : Member(s[j]) \in MemberSet
    BY <2>3 DEF Member, MemberSet
  <2>5. [j \in 1..Len(s) |-> Member(s[j])] \in Seq(MemberSet)
    BY <2>3, <2>4
  <2> QED
    BY <2>3, <2>5 DEF s
<1>4. ms \in [MemberKinds -> Seq(MemberSet)]
  BY <1>3
<1>5. \A k \in MemberKinds : /\ DOMAIN ms[k] = DOMAIN ids[k]
                             /\ \A j \in DOMAIN ms[k] : ms[k][j] = Member(ids[k][j])
  OBVIOUS
<1> HIDE DEF ms, ids, m
<1>6. m \in MirrorSet
  BY <1>1, <1>2, <1>4 DEF MirrorSet
<1>7. /\ m.handle = h
      /\ m.name = FullName(known, h)
      /\ m.base_type = 0
      /\ m.elt_type = 0
      /\ m.members = ms
  BY <1>1
<1> QED
  BY <1>5, <1>6, <1>7 DEF ids, m

LEMMA ConcatShape ==
  ASSUME NEW S, NEW a \in Seq(S), NEW b \in Seq(S)
  PROVE  /\ a \o b \in Seq(S)
         /\ Len(a \o b) = Len(a) + Len(b)
         /\ \A i \in 1..Len(a) : (a \o b)[i] = a[i]
         /\ \A j \in 1..Len(b) : (a \o b)[Len(a) + j] = b[j]
OBVIOUS

(* Caching keeps the mirrors, with the new references, and adds one of each id. *)
LEMMA CachedMirrors ==
  ASSUME types \in Seq(MirrorSet),
         NEW references \in Seq(MirrorSet), Len(references) = Len(types),
         NEW hs \in Seq(Ids), NEW known \in SUBSET Types,
         CacheTypes(references, hs, known)
  PROVE  /\ types' \in Seq(MirrorSet)
         /\ Len(types') = Len(types) + Len(hs)
         /\ \A i \in DOMAIN types : types'[i] = references[i]
         /\ \A j \in DOMAIN hs : types'[Len(types) + j] = Mirror(known, hs[j], Len(types) + j)
<1> DEFINE new == [j \in DOMAIN hs |-> Mirror(known, hs[j], Len(types) + j)]
<1>1. types' = references \o new
  BY DEF CacheTypes
<1>2. /\ Len(hs) \in Nat
      /\ DOMAIN hs = 1..Len(hs)
      /\ \A j \in DOMAIN hs : hs[j] \in Ids
      /\ Len(types) \in Nat
      /\ DOMAIN types = 1..Len(types)
  OBVIOUS
<1>3. \A j \in DOMAIN hs : Mirror(known, hs[j], Len(types) + j) \in MirrorSet
  <2> TAKE j \in DOMAIN hs
  <2>1. Len(types) + j \in Nat /\ hs[j] \in Ids
    BY <1>2
  <2> QED
    BY <2>1, MirrorShape
<1>4. new \in Seq(MirrorSet) /\ Len(new) = Len(hs) /\ DOMAIN new = DOMAIN hs
  <2>1. new = [j \in 1..Len(hs) |-> Mirror(known, hs[j], Len(types) + j)]
    BY <1>2
  <2>2. \A j \in 1..Len(hs) : Mirror(known, hs[j], Len(types) + j) \in MirrorSet
    BY <1>2, <1>3
  <2>3. new \in [1..Len(hs) -> MirrorSet]
    BY <2>1, <2>2
  <2> HIDE DEF new
  <2> QED
    BY <1>2, <2>3
<1>5. \A j \in DOMAIN hs : new[j] = Mirror(known, hs[j], Len(types) + j)
  OBVIOUS
<1> HIDE DEF new
<1>6. types' \in Seq(MirrorSet) /\ Len(types') = Len(types) + Len(hs)
  BY <1>1, <1>4, ConcatShape
<1>7. ASSUME NEW i \in DOMAIN types PROVE types'[i] = references[i]
  <2>1. i \in 1..Len(references)
    BY <1>2
  <2> QED
    BY <1>1, <1>4, <2>1, ConcatShape
<1>8. ASSUME NEW j \in DOMAIN hs
      PROVE  types'[Len(types) + j] = Mirror(known, hs[j], Len(types) + j)
  <2>1. j \in 1..Len(new)
    BY <1>2, <1>4
  <2>2. types'[Len(references) + j] = new[j]
    BY <1>1, <1>4, <2>1, ConcatShape
  <2> QED
    BY <1>5, <2>2
<1> QED
  BY <1>6, <1>7, <1>8

(* Caching gives out the ids of the members of the new mirrors, and no table loses one. *)
LEMMA CachedGrows ==
  ASSUME NEW references, NEW hs, NEW known, cached["types"] \subseteq known,
         CacheTypes(references, hs, known)
  PROVE  /\ cached'["types"] = known
         /\ \A k \in Kinds : cached[k] \subseteq cached'[k]
         /\ \A k \in MemberKinds : \A j \in DOMAIN hs :
               Range(MembersFetched(known, hs[j], Len(types) + j)[k]) \ {NullId}
                  \subseteq cached'[k]
         /\ \A k \in MemberKinds : \A e \in cached'[k] :
               \/ e \in cached[k]
               \/ \E j \in DOMAIN hs :
                     e \in Range(MembersFetched(known, hs[j], Len(types) + j)[k]) \ {NullId}
<1> DEFINE ids(k) == UNION {Range(MembersFetched(known, hs[j], Len(types) + j)[k]) :
                              j \in DOMAIN hs}
<1>1. cached' = [k \in Kinds |-> IF k = "types" THEN known
                                 ELSE cached[k] \cup (ids(k) \ {NullId})]
  BY DEF CacheTypes, Registered
<1>2. "types" \in Kinds /\ \A k \in MemberKinds : k \in Kinds /\ k # "types"
  BY DEF Kinds, MemberKinds
<1>3. cached'["types"] = known
  BY <1>1, <1>2
<1>4. \A k \in MemberKinds : cached'[k] = cached[k] \cup (ids(k) \ {NullId})
  BY <1>1, <1>2
<1>5. \A k \in Kinds : cached[k] \subseteq cached'[k]
  BY <1>3, <1>4 DEF Kinds
<1>6. ASSUME NEW k \in MemberKinds, NEW j \in DOMAIN hs
      PROVE  Range(MembersFetched(known, hs[j], Len(types) + j)[k]) \ {NullId} \subseteq cached'[k]
  BY <1>4
<1>7. ASSUME NEW k \in MemberKinds, NEW e \in cached'[k], e \notin cached[k]
      PROVE  \E j \in DOMAIN hs :
               e \in Range(MembersFetched(known, hs[j], Len(types) + j)[k]) \ {NullId}
  BY <1>4, <1>7
<1> QED
  BY <1>3, <1>5, <1>6, <1>7

(* A new mirror has its name if the managed side knows its type. *)
LEMMA NewMirrorNamed ==
  ASSUME NEW known \in SUBSET Types, NEW h \in Ids, h \in Types => h \in known, NEW i \in Nat
  PROVE  NamedIn(Mirror(known, h, i), known)
<1> DEFINE m == Mirror(known, h, i)
<1>1. m.handle = h /\ m.name = FullName(known, h)
  BY MirrorShape
<1> HIDE DEF m
<1>2. NamedIn(m, known)
  BY <1>1 DEF NamedIn, FullName
<1> QED
  BY <1>2 DEF m

(* It has the ids of its members, 0 if their fetch threw, and no reference. *)
LEMMA NewMirrorMember ==
  ASSUME NEW known \in SUBSET Types, NEW h \in Ids, NEW i \in Nat, NEW k \in MemberKinds,
         NEW j \in DOMAIN Mirror(known, h, i).members[k]
  PROVE  /\ Mirror(known, h, i).members[k][j].type = 0
         /\ Mirror(known, h, i).members[k][j].params = <<>>
         /\ Mirror(known, h, i).members[k][j].handle \in Range(MembersFetched(known, h, i)[k])
         /\ Mirror(known, h, i).members[k][j].handle \in IdsOf(k) \cup {NullId}
         /\ Mirror(known, h, i).members[k][j].handle = NullId => k \in Failing[h]
<1> DEFINE m == Mirror(known, h, i)
           s == MembersFetched(known, h, i)[k]
<1>1. /\ DOMAIN m.members[k] = DOMAIN s
      /\ \A q \in DOMAIN m.members[k] : m.members[k][q] = Member(s[q])
  BY MirrorShape
<1>2. /\ s \in Seq(IdsOf(k) \cup {NullId})
      /\ h \notin known => s = <<>>
      /\ h \in known => \A q \in DOMAIN s : s[q] = NullId => k \in Failing[h]
  BY MembersShape
<1>3. j \in DOMAIN s
  BY <1>1
<1>4. m.members[k][j] = Member(s[j])
  BY <1>1
<1> HIDE DEF s, m
<1>5. /\ m.members[k][j].type = 0
      /\ m.members[k][j].params = <<>>
      /\ m.members[k][j].handle = s[j]
  BY <1>4 DEF Member
<1>6. h \in known
  <2>1. s # <<>>
    BY <1>3
  <2> QED
    BY <1>2, <2>1
<1>7. s[j] \in IdsOf(k) \cup {NullId} /\ s[j] \in Range(s)
  BY <1>2, <1>3 DEF Range
<1>8. s[j] = NullId => k \in Failing[h]
  BY <1>2, <1>3, <1>6
<1> QED
  BY <1>5, <1>7, <1>8 DEF m, s

(* The mirrors us go on from ts: of each the type and the name are kept. *)
Later(ts, us) ==
  \A r \in DOMAIN ts : r \in DOMAIN us /\ us[r].handle = ts[r].handle /\ us[r].name = ts[r].name

(* A reference that is right stays right when mirrors are added or an assembly unloaded. *)
LEMMA RefsLater ==
  ASSUME NEW ts, NEW us, Later(ts, us), NEW m, NEW old \in BOOLEAN, NEW new \in BOOLEAN,
         old => new, RefsIn(ts, m, old)
  PROVE  RefsIn(us, m, new)
<1>1. \A r, id : LeadsIn(ts, r, id) => LeadsIn(us, r, id)
  BY DEF LeadsIn, Later
<1>2. \A r : NullIn(ts, r) => NullIn(us, r)
  BY DEF NullIn, Later
<1>3. \A h, of, r : TypeRefIn(ts, h, of, r, old) => TypeRefIn(us, h, of, r, new)
  BY <1>1, <1>2 DEF TypeRefIn
<1>4. \A q, x : MemberRefIn(ts, q, x, old) => MemberRefIn(us, q, x, new)
  BY <1>1, <1>2 DEF MemberRefIn
<1>5. \A x : ParamRefsIn(ts, x) => ParamRefsIn(us, x)
  BY <1>1 DEF ParamRefsIn
<1> QED
  BY <1>3, <1>4, <1>5 DEF RefsIn

(* A new mirror refers to nothing. *)
LEMMA NewRefs ==
  ASSUME NEW known \in SUBSET Types, NEW h \in Ids, h \in Types => h \in known, NEW i \in Nat,
         NEW ts, NEW old \in BOOLEAN
  PROVE  RefsIn(ts, Mirror(known, h, i), old)
<1> DEFINE m == Mirror(known, h, i)
<1>1. m.base_type = 0 /\ m.elt_type = 0
  BY MirrorShape
<1>2. ASSUME NEW k \in MemberKinds, NEW j \in DOMAIN m.members[k]
      PROVE  m.members[k][j].type = 0 /\ m.members[k][j].params = <<>>
  BY <1>2, NewMirrorMember
<1> HIDE DEF m
<1>3. ASSUME NEW k \in MemberKinds, NEW j \in DOMAIN m.members[k]
      PROVE  MemberRefIn(ts, k, m.members[k][j], old) /\ ParamRefsIn(ts, m.members[k][j])
  BY <1>2 DEF MemberRefIn, ParamRefsIn
<1> QED
  BY <1>1, <1>2, <1>3 DEF RefsIn, TypeRefIn, m

(* The mirrors go on when types are cached. *)
LEMMA CachedLater ==
  ASSUME types \in Seq(MirrorSet),
         NEW references \in Seq(MirrorSet), Len(references) = Len(types),
         \A i \in DOMAIN types : SameMirror(types[i], references[i]),
         NEW hs \in Seq(Ids), NEW known \in SUBSET Types,
         CacheTypes(references, hs, known)
  PROVE  Later(types, types')
<1>1. /\ types' \in Seq(MirrorSet)
      /\ Len(types') = Len(types) + Len(hs)
      /\ \A i \in DOMAIN types : types'[i] = references[i]
  BY CachedMirrors
<1>2. Len(hs) \in Nat /\ Len(types) \in Nat
  OBVIOUS
<1>3. ASSUME NEW r \in DOMAIN types
      PROVE  r \in DOMAIN types' /\ types'[r].handle = types[r].handle /\ types'[r].name = types[r].name
  <2>1. r \in DOMAIN types'
    <3>1. r \in 1..Len(types) /\ DOMAIN types' = 1..Len(types')
      BY <1>1
    <3>2. r \in 1..Len(types')
      BY <1>1, <1>2, <3>1
    <3> QED
      BY <3>1, <3>2
  <2>2. SameMirror(types[r], types'[r])
    BY <1>1
  <2> QED
    BY <2>1, <2>2 DEF SameMirror
<1> QED
  BY <1>3 DEF Later

(* A mirror keeps its name while the table of types grows. *)
LEMMA NamedLater ==
  ASSUME NEW m, NEW n, SameMirror(m, n), NEW c, NEW d, c \subseteq d, NamedIn(m, c)
  PROVE  NamedIn(n, d)
BY DEF SameMirror, NamedIn

(* Caching types keeps the invariant of the mirrors, if the new references are right and
   lead to the new mirrors or to older ones. *)
LEMMA CacheStep ==
  ASSUME MirrorsInv, DOMAIN cached = Kinds,
         NEW references \in Seq(MirrorSet), Len(references) = Len(types),
         \A i \in DOMAIN types : SameMirror(types[i], references[i]),
         NEW hs \in Seq(Ids), NEW known \in SUBSET Types, cached["types"] \subseteq known,
         \A j \in DOMAIN hs : hs[j] \in Types => hs[j] \in known,
         CacheTypes(references, hs, known),
         \A i \in DOMAIN types : RefsIn(types', references[i], i <= unloaded_at),
         UNCHANGED <<unloaded_at, overrun>>, gone' \subseteq Asms
  PROVE  MirrorsInv'
<1>1. types \in Seq(MirrorSet) /\ unloaded_at \in 0..Len(types) /\ overrun \in BOOLEAN
  BY DEF MirrorsInv
<1>2. /\ types' \in Seq(MirrorSet)
      /\ Len(types') = Len(types) + Len(hs)
      /\ \A i \in DOMAIN types : types'[i] = references[i]
      /\ \A j \in DOMAIN hs : types'[Len(types) + j] = Mirror(known, hs[j], Len(types) + j)
  BY <1>1, CachedMirrors
<1>3. Len(types) \in Nat /\ DOMAIN types = 1..Len(types)
      /\ Len(hs) \in Nat /\ DOMAIN hs = 1..Len(hs) /\ DOMAIN types' = 1..Len(types')
      /\ \A j \in DOMAIN hs : hs[j] \in Ids
  BY <1>1, <1>2
<1>4. /\ cached'["types"] = known
      /\ \A k \in Kinds : cached[k] \subseteq cached'[k]
      /\ \A k \in MemberKinds : \A j \in DOMAIN hs :
            Range(MembersFetched(known, hs[j], Len(types) + j)[k]) \ {NullId} \subseteq cached'[k]
      /\ \A k \in MemberKinds : \A e \in cached'[k] :
            \/ e \in cached[k]
            \/ \E j \in DOMAIN hs :
                  e \in Range(MembersFetched(known, hs[j], Len(types) + j)[k]) \ {NullId}
  BY CachedGrows
<1>5. "attributes" \in MemberKinds /\ MemberKinds \subseteq Kinds /\ "types" \in Kinds
  BY DEF MemberKinds, Kinds
<1>6. ASSUME NEW i \in DOMAIN types', i \notin DOMAIN types
      PROVE  \E j \in DOMAIN hs : i = Len(types) + j
  <2>1. i - Len(types) \in DOMAIN hs /\ i = Len(types) + (i - Len(types))
    BY <1>2, <1>3, <1>6
  <2> QED
    BY <2>1
<1>7. unloaded_at' \in 0..Len(types') /\ overrun' \in BOOLEAN /\ unloaded_at' = unloaded_at
  BY <1>1, <1>2, <1>3
<1>8. cached'["attributes"] \subseteq AttributeIds
  <2> SUFFICES ASSUME NEW e \in cached'["attributes"], e \notin cached["attributes"]
               PROVE  e \in AttributeIds
    BY DEF MirrorsInv
  <2>1. PICK j \in DOMAIN hs :
          e \in Range(MembersFetched(known, hs[j], Len(types) + j)["attributes"]) \ {NullId}
    BY <1>4, <1>5
  <2> DEFINE s == MembersFetched(known, hs[j], Len(types) + j)["attributes"]
  <2>2. Len(types) + j \in Nat
    BY <1>3
  <2>3. s \in Seq(IdsOf("attributes") \cup {NullId})
    BY <1>5, <2>2, MembersShape
  <2> HIDE DEF s
  <2>4. s \in Seq(AttributeIds \cup {NullId})
    BY <2>3 DEF IdsOf
  <2>5. PICK x \in DOMAIN s : e = s[x] /\ e # NullId
    BY <2>1 DEF Range, s
  <2> QED
    BY <2>4, <2>5
<1>9. ASSUME NEW i \in DOMAIN types, i \in DOMAIN types'
      PROVE  /\ \A j \in DOMAIN types'[i].members["attributes"] :
                    types'[i].members["attributes"][j].handle \notin Types
             /\ i > unloaded_at => NamedIn(types'[i], cached'["types"])
             /\ \A k \in MemberKinds : \A j \in DOMAIN types'[i].members[k] :
                    i > unloaded_at => KnownIn(types'[i], k, j, cached'[k])
             /\ RefsIn(types', types'[i], i <= unloaded_at)
  <2> DEFINE m == types[i]
             n == types'[i]
  <2>1. SameMirror(m, n) /\ RefsIn(types', n, i <= unloaded_at)
    BY <1>2
  <2>2. /\ \A j \in DOMAIN m.members["attributes"] : m.members["attributes"][j].handle \notin Types
        /\ i > unloaded_at => NamedIn(m, cached["types"])
        /\ \A k \in MemberKinds : \A j \in DOMAIN m.members[k] :
              i > unloaded_at => KnownIn(m, k, j, cached[k])
    BY DEF MirrorsInv
  <2> HIDE DEF m, n
  <2>3. \A j \in DOMAIN n.members["attributes"] : n.members["attributes"][j].handle \notin Types
    BY <1>5, <2>1, <2>2 DEF SameMirror
  <2>4. i > unloaded_at => NamedIn(n, cached'["types"])
    BY <1>4, <1>5, <2>1, <2>2, NamedLater
  <2>5. ASSUME NEW k \in MemberKinds, NEW j \in DOMAIN n.members[k], i > unloaded_at
        PROVE  KnownIn(n, k, j, cached'[k])
    <3>1. j \in DOMAIN m.members[k]
      BY <2>1 DEF SameMirror
    <3>2. KnownIn(m, k, j, cached[k]) /\ cached[k] \subseteq cached'[k]
      BY <1>4, <1>5, <2>2, <2>5, <3>1
    <3> QED
      BY <2>1, <3>1, <3>2 DEF SameMirror, KnownIn
  <2> QED
    BY <2>1, <2>3, <2>4, <2>5 DEF n
<1>10. ASSUME NEW i \in DOMAIN types', i \notin DOMAIN types
       PROVE  /\ \A j \in DOMAIN types'[i].members["attributes"] :
                    types'[i].members["attributes"][j].handle \notin Types
              /\ NamedIn(types'[i], cached'["types"])
              /\ \A k \in MemberKinds : \A j \in DOMAIN types'[i].members[k] :
                    KnownIn(types'[i], k, j, cached'[k])
              /\ RefsIn(types', types'[i], i <= unloaded_at)
  <2>1. PICK j \in DOMAIN hs : i = Len(types) + j
    BY <1>6, <1>10
  <2> DEFINE m == Mirror(known, hs[j], i)
             ids == MembersFetched(known, hs[j], i)
  <2>2. types'[i] = m /\ i \in Nat /\ hs[j] \in Ids /\ (hs[j] \in Types => hs[j] \in known)
    BY <1>2, <1>3, <2>1
  <2>3. NamedIn(m, known)
    BY <2>2, NewMirrorNamed
  <2>4. m.handle = hs[j]
    BY <2>2, MirrorShape
  <2>5. RefsIn(types', m, i <= unloaded_at)
    <3>1. (i <= unloaded_at) \in BOOLEAN
      OBVIOUS
    <3> QED
      BY <2>2, <3>1, NewRefs
  <2>6. \A k \in MemberKinds : Range(ids[k]) \ {NullId} \subseteq cached'[k]
    BY <1>4, <2>1
  <2>7. ASSUME NEW k \in MemberKinds, NEW q \in DOMAIN m.members[k]
        PROVE  /\ m.members[k][q].handle \in Range(ids[k])
               /\ m.members[k][q].handle \in IdsOf(k) \cup {NullId}
               /\ m.members[k][q].handle = NullId => k \in Failing[hs[j]]
    BY <2>2, NewMirrorMember
  <2> HIDE DEF m, ids
  <2>8. ASSUME NEW k \in MemberKinds, NEW q \in DOMAIN m.members[k]
        PROVE  KnownIn(m, k, q, cached'[k])
    BY <2>4, <2>6, <2>7 DEF KnownIn
  <2>9. ASSUME NEW q \in DOMAIN m.members["attributes"]
        PROVE  m.members["attributes"][q].handle \notin Types
    <3>1. m.members["attributes"][q].handle \in AttributeIds \cup {NullId}
      BY <1>5, <2>7 DEF IdsOf
    <3> QED
      BY <1>5, <3>1, IdsAreIds
  <2> QED
    BY <1>4, <2>2, <2>3, <2>5, <2>8, <2>9
<1> QED
  BY <1>2, <1>7, <1>8, <1>9, <1>10 DEF MirrorsInv

(* A mirror in a vector is replaced by itself with another reference. *)
LEMMA ReplaceMirror ==
  ASSUME types \in Seq(MirrorSet), NEW i \in DOMAIN types, NEW n \in MirrorSet,
         SameMirror(types[i], n), NEW references, references = [types EXCEPT ![i] = n]
  PROVE  /\ references \in Seq(MirrorSet)
         /\ Len(references) = Len(types)
         /\ references[i] = n
         /\ \A x \in DOMAIN types : x # i => references[x] = types[x]
         /\ \A x \in DOMAIN types : SameMirror(types[x], references[x])
<1>1. Len(types) \in Nat /\ DOMAIN types = 1..Len(types)
  OBVIOUS
<1>2. types \in [1..Len(types) -> MirrorSet]
  OBVIOUS
<1>3. references \in [1..Len(types) -> MirrorSet]
  BY <1>1, <1>2
<1>4. references \in Seq(MirrorSet) /\ Len(references) = Len(types)
  BY <1>1, <1>3
<1>5. references[i] = n /\ \A x \in DOMAIN types : x # i => references[x] = types[x]
  BY <1>1, <1>2
<1>6. \A m : SameMirror(m, m)
  BY DEF SameMirror
<1>7. ASSUME NEW x \in DOMAIN types PROVE SameMirror(types[x], references[x])
  BY <1>5, <1>6
<1> QED
  BY <1>4, <1>5, <1>7

(* The new mirrors lead to the types with the ids that were cached. *)
LEMMA LeadsToNew ==
  ASSUME types \in Seq(MirrorSet),
         NEW references \in Seq(MirrorSet), Len(references) = Len(types),
         NEW hs \in Seq(Ids), NEW known \in SUBSET Types,
         \A j \in DOMAIN hs : hs[j] \in Types => hs[j] \in known,
         CacheTypes(references, hs, known), NEW j \in DOMAIN hs
  PROVE  LeadsIn(types', Len(types) + j, hs[j])
<1>1. /\ types' \in Seq(MirrorSet)
      /\ Len(types') = Len(types) + Len(hs)
      /\ types'[Len(types) + j] = Mirror(known, hs[j], Len(types) + j)
  BY CachedMirrors
<1>2. /\ Len(hs) \in Nat
      /\ Len(types) \in Nat
      /\ j \in 1..Len(hs)
      /\ hs[j] \in Ids
  OBVIOUS
<1>3. Len(types) + j \in Nat /\ Len(types) + j \in DOMAIN types'
  BY <1>1, <1>2
<1>4. /\ Mirror(known, hs[j], Len(types) + j).handle = hs[j]
      /\ Mirror(known, hs[j], Len(types) + j).name = FullName(known, hs[j])
  BY DEF Mirror
<1>5. hs[j] \in Types => FullName(known, hs[j]) = NameOf[hs[j]]
  BY DEF FullName
<1> QED
  BY <1>1, <1>3, <1>4, <1>5 DEF LeadsIn

(* A reference is resolved, or those of the parameters of a method. *)
LEMMA ResolveStep ==
  ASSUME MirrorsInv, IInv, NEW i \in DOMAIN types, NEW n \in MirrorSet, SameMirror(types[i], n),
         NEW hs \in Seq(Ids), NEW known \in SUBSET Types, cached["types"] \subseteq known,
         \A j \in DOMAIN hs : hs[j] \in Types => hs[j] \in known,
         CacheTypes([types EXCEPT ![i] = n], hs, known),
         UNCHANGED <<gone, unloaded_at, overrun>>,
         /\ RefsIn(types', types[i], i <= unloaded_at)
         /\ \A j \in DOMAIN hs : LeadsIn(types', Len(types) + j, hs[j])
         => RefsIn(types', n, i <= unloaded_at)
  PROVE  MirrorsInv'
<1> DEFINE references == [types EXCEPT ![i] = n]
<1>1. types \in Seq(MirrorSet)
  BY DEF MirrorsInv
<1>2. CacheTypes(references, hs, known)
  OBVIOUS
<1>3. /\ references \in Seq(MirrorSet)
      /\ Len(references) = Len(types)
      /\ references[i] = n
      /\ \A x \in DOMAIN types : x # i => references[x] = types[x]
      /\ \A x \in DOMAIN types : SameMirror(types[x], references[x])
  BY <1>1, ReplaceMirror
<1> HIDE DEF references
<1>4. Later(types, types')
  BY <1>1, <1>2, <1>3, CachedLater
<1>5. \A j \in DOMAIN hs : LeadsIn(types', Len(types) + j, hs[j])
  BY <1>1, <1>2, <1>3, LeadsToNew
<1>6. ASSUME NEW x \in DOMAIN types PROVE RefsIn(types', types[x], x <= unloaded_at)
  <2> DEFINE old == x <= unloaded_at
  <2>1. RefsIn(types, types[x], old)
    BY DEF MirrorsInv
  <2>2. old \in BOOLEAN
    OBVIOUS
  <2> HIDE DEF old
  <2>3. RefsIn(types', types[x], old)
    BY <1>4, <2>1, <2>2, RefsLater
  <2> QED
    BY <2>3 DEF old
<1>7. RefsIn(types', n, i <= unloaded_at)
  BY <1>5, <1>6
<1>8. ASSUME NEW x \in DOMAIN types PROVE RefsIn(types', references[x], x <= unloaded_at)
  <2>1. CASE x = i
    BY <1>3, <1>7, <2>1
  <2>2. CASE x # i
    BY <1>3, <1>6, <2>2
  <2> QED
    BY <2>1, <2>2
<1>9. DOMAIN cached = Kinds /\ gone' \subseteq Asms
  BY DEF IInv, MirrorsInv
<1> QED
  BY <1>2, <1>3, <1>8, <1>9, CacheStep

(* The same for one reference to the type that the managed side answers. *)
LEMMA ResolveToStep ==
  ASSUME MirrorsInv, IInv, NEW i \in DOMAIN types, NEW n \in MirrorSet, SameMirror(types[i], n),
         NEW id \in Ids, ResolveTo([types EXCEPT ![i] = n], id),
         RefsIn(types', types[i], i <= unloaded_at) /\ LeadsIn(types', Inserted, id)
         => RefsIn(types', n, i <= unloaded_at)
  PROVE  MirrorsInv'
<1> DEFINE known == WithId(id)
           hs == <<id>>
<1>1. known = cached["types"] \cup ({id} \cap Types)
  BY DEF WithId, Registered
<1>2. cached["types"] \subseteq Types
  BY DEF IInv, Kinds, ElementsOf
<1>3. CacheTypes([types EXCEPT ![i] = n], hs, known) /\ UNCHANGED <<gone, unloaded_at, overrun>>
  BY DEF ResolveTo
<1>4. hs \in Seq(Ids) /\ DOMAIN hs = {1} /\ hs[1] = id
  OBVIOUS
<1> HIDE DEF hs, known
<1>5. known \in SUBSET Types /\ cached["types"] \subseteq known
  BY <1>1, <1>2
<1>6. \A j \in DOMAIN hs : hs[j] \in Types => hs[j] \in known
  BY <1>1, <1>4
<1>7. ASSUME RefsIn(types', types[i], i <= unloaded_at),
             \A j \in DOMAIN hs : LeadsIn(types', Len(types) + j, hs[j])
      PROVE  RefsIn(types', n, i <= unloaded_at)
  <2>1. LeadsIn(types', Inserted, id)
    BY <1>4, <1>7 DEF Inserted
  <2> QED
    BY <1>7, <2>1
<1> QED
  BY <1>3, <1>4, <1>5, <1>6, <1>7, ResolveStep

(* Mirror n has the members of m, but for v. *)
Updated(m, n, k, j, v) ==
  \A q \in MemberKinds : \A x \in DOMAIN m.members[q] :
     n.members[q][x] = IF q = k /\ x = j THEN v ELSE m.members[q][x]

(* A member with another reference or other parameters. *)
LEMMA UpdateMember ==
  ASSUME NEW m \in MirrorSet, NEW k \in MemberKinds, NEW j \in DOMAIN m.members[k],
         NEW v \in MemberSet, v.handle = m.members[k][j].handle,
         NEW n, n = [m EXCEPT !.members[k][j] = v]
  PROVE  /\ n \in MirrorSet
         /\ SameMirror(m, n)
         /\ n.base_type = m.base_type
         /\ n.elt_type = m.elt_type
         /\ Updated(m, n, k, j, v)
<1> DEFINE ms == m.members
           list == ms[k]
           list2 == [list EXCEPT ![j] = v]
           ms2 == [ms EXCEPT ![k] = list2]
<1>1. ms \in [MemberKinds -> Seq(MemberSet)]
  BY DEF MirrorSet
<1>2. n = [m EXCEPT !.members = ms2]
  OBVIOUS
<1>3. list \in Seq(MemberSet)
  BY <1>1
<1> HIDE DEF list
<1>4. list \in [1..Len(list) -> MemberSet] /\ Len(list) \in Nat /\ DOMAIN list = 1..Len(list)
  BY <1>3
<1>5. list2 \in [1..Len(list) -> MemberSet] /\ DOMAIN list2 = DOMAIN list
  BY <1>4
<1>6. j \in DOMAIN list
  BY DEF list
<1>7. \A x \in DOMAIN list : list2[x] = IF x = j THEN v ELSE list[x]
  BY <1>4, <1>6
<1>8. list2 \in Seq(MemberSet)
  BY <1>4, <1>5
<1> HIDE DEF list2, ms
<1>9. ms2 \in [MemberKinds -> Seq(MemberSet)]
  BY <1>1, <1>8
<1>10. \A q \in MemberKinds : ms2[q] = IF q = k THEN list2 ELSE ms[q]
  BY <1>1
<1> HIDE DEF ms2
<1>11. /\ n.handle = m.handle
       /\ n.name = m.name
       /\ n.base_type = m.base_type
       /\ n.elt_type = m.elt_type
       /\ n.members = ms2
  BY <1>2 DEF MirrorSet
<1>12. n \in MirrorSet
  BY <1>2, <1>9 DEF MirrorSet
<1>13. ASSUME NEW q \in MemberKinds
       PROVE  /\ DOMAIN n.members[q] = DOMAIN ms[q]
              /\ \A x \in DOMAIN ms[q] : n.members[q][x] = IF q = k /\ x = j THEN v ELSE ms[q][x]
  <2>1. CASE q = k
    <3>1. n.members[q] = list2 /\ ms[q] = list
      BY <1>10, <1>11, <2>1 DEF list
    <3> QED
      BY <1>5, <1>7, <2>1, <3>1
  <2>2. CASE q # k
    <3>1. n.members[q] = ms[q]
      BY <1>10, <1>11, <2>2
    <3> QED
      BY <2>2, <3>1
  <2> QED
    BY <2>1, <2>2
<1>14. v.handle = ms[k][j].handle
  BY DEF ms
<1>15. SameMirror(m, n)
  BY <1>11, <1>13, <1>14 DEF SameMirror, ms
<1> QED
  BY <1>11, <1>12, <1>13, <1>15 DEF ms, Updated

(* A type that a mirror from after the last unload is of is known. *)
LEMMA NewerIsKnown ==
  ASSUME MirrorsInv, NEW i \in DOMAIN types, types[i].handle \in Types,
         types[i].handle \notin cached["types"]
  PROVE  i <= unloaded_at
<1>1. types \in Seq(MirrorSet) /\ unloaded_at \in 0..Len(types)
  BY DEF MirrorsInv
<1>2. i \in Nat /\ unloaded_at \in Nat
  BY <1>1
<1>3. i > unloaded_at => NamedIn(types[i], cached["types"])
  BY DEF MirrorsInv
<1> QED
  BY <1>2, <1>3 DEF NamedIn

LEMMA BaseObjectMirrors ==
  ASSUME MirrorsInv, IInv, NEW i \in DOMAIN types, BaseObject(i)
  PROVE  MirrorsInv'
<1> DEFINE h == types[i].handle
           id == BaseId(h)
           n == [types[i] EXCEPT !.base_type = Inserted]
           old == i <= unloaded_at
<1>1. types \in Seq(MirrorSet)
  BY DEF MirrorsInv
<1>2. types[i] \in MirrorSet /\ Inserted \in Nat
  BY <1>1 DEF Inserted
<1>3. n \in MirrorSet /\ n.handle = h /\ n.name = types[i].name /\ n.base_type = Inserted
      /\ n.elt_type = types[i].elt_type /\ n.members = types[i].members
  BY <1>2 DEF MirrorSet
<1>4. ResolveTo([types EXCEPT ![i] = n], id)
  BY DEF BaseObject
<1>5. cached["types"] \subseteq Types
  BY DEF IInv, Kinds, ElementsOf
<1>6. id \in Ids
  <2>1. BaseOf[h] \in Types \cup {NullId} \/ h \notin cached["types"]
    BY <1>5, ReflectionAssumption
  <2> QED
    BY <2>1 DEF BaseId, Ids, Elements
<1>7. ASSUME LeadsIn(types', Inserted, id) PROVE TypeRefIn(types', h, BaseOf, Inserted, old)
  <2>1. CASE h \in cached["types"]
    BY <1>5, <1>7, <2>1 DEF BaseId, TypeRefIn
  <2>2. CASE h \notin cached["types"]
    <3>1. old \/ h \notin Types
      BY <2>2, NewerIsKnown
    <3>2. NullIn(types', Inserted)
      BY <1>7, <2>2 DEF BaseId, LeadsIn, NullIn
    <3> QED
      BY <3>1, <3>2 DEF TypeRefIn
  <2> QED
    BY <2>1, <2>2
<1> HIDE DEF n, id, old
<1>8. SameMirror(types[i], n)
  BY <1>3 DEF SameMirror
<1>9. ASSUME RefsIn(types', types[i], old), LeadsIn(types', Inserted, id)
      PROVE  RefsIn(types', n, old)
  <2>1. TypeRefIn(types', n.handle, BaseOf, n.base_type, old)
    BY <1>3, <1>7, <1>9
  <2> QED
    BY <1>3, <1>9, <2>1 DEF RefsIn
<1> QED
  BY <1>3, <1>4, <1>6, <1>8, <1>9, ResolveToStep DEF old

LEMMA GetEltTypeMirrors ==
  ASSUME MirrorsInv, IInv, NEW i \in DOMAIN types, GetEltType(i)
  PROVE  MirrorsInv'
<1> DEFINE h == types[i].handle
           id == EltId(h)
           n == [types[i] EXCEPT !.elt_type = Inserted]
           old == i <= unloaded_at
<1>1. types \in Seq(MirrorSet)
  BY DEF MirrorsInv
<1>2. types[i] \in MirrorSet /\ Inserted \in Nat
  BY <1>1 DEF Inserted
<1>3. n \in MirrorSet /\ n.handle = h /\ n.name = types[i].name /\ n.elt_type = Inserted
      /\ n.base_type = types[i].base_type /\ n.members = types[i].members
  BY <1>2 DEF MirrorSet
<1>4. ResolveTo([types EXCEPT ![i] = n], id)
  BY DEF GetEltType
<1>5. cached["types"] \subseteq Types
  BY DEF IInv, Kinds, ElementsOf
<1>6. id \in Ids
  <2>1. EltOf[h] \in Types \cup {NullId} \/ h \notin cached["types"]
    BY <1>5, ReflectionAssumption
  <2> QED
    BY <2>1 DEF EltId, Ids, Elements
<1>7. ASSUME LeadsIn(types', Inserted, id) PROVE TypeRefIn(types', h, EltOf, Inserted, old)
  <2>1. CASE h \in cached["types"]
    BY <1>5, <1>7, <2>1 DEF EltId, TypeRefIn
  <2>2. CASE h \notin cached["types"]
    <3>1. old \/ h \notin Types
      BY <2>2, NewerIsKnown
    <3>2. NullIn(types', Inserted)
      BY <1>7, <2>2 DEF EltId, LeadsIn, NullIn
    <3> QED
      BY <3>1, <3>2 DEF TypeRefIn
  <2> QED
    BY <2>1, <2>2
<1> HIDE DEF n, id, old
<1>8. SameMirror(types[i], n)
  BY <1>3 DEF SameMirror
<1>9. ASSUME RefsIn(types', types[i], old), LeadsIn(types', Inserted, id)
      PROVE  RefsIn(types', n, old)
  <2>1. TypeRefIn(types', n.handle, EltOf, n.elt_type, old)
    BY <1>3, <1>7, <1>9
  <2> QED
    BY <1>3, <1>9, <2>1 DEF RefsIn
<1> QED
  BY <1>3, <1>4, <1>6, <1>8, <1>9, ResolveToStep DEF old

(* What a mirror refers to, when one of its members has changed. *)
LEMMA RefsOfUpdated ==
  ASSUME NEW ts, NEW m \in MirrorSet, NEW old, RefsIn(ts, m, old),
         NEW k \in MemberKinds, NEW j \in DOMAIN m.members[k],
         NEW v \in MemberSet, v.handle = m.members[k][j].handle,
         k \in {"methods", "fields"} => MemberRefIn(ts, k, v, old),
         k = "methods" => ParamRefsIn(ts, v),
         k \notin {"methods", "fields"} => v.type = 0,
         k # "methods" => v.params = <<>>,
         NEW n, n = [m EXCEPT !.members[k][j] = v]
  PROVE  RefsIn(ts, n, old)
<1>1. /\ SameMirror(m, n)
      /\ n.base_type = m.base_type
      /\ n.elt_type = m.elt_type
      /\ Updated(m, n, k, j, v)
  BY UpdateMember
<1>2. ASSUME NEW q \in MemberKinds, NEW x \in DOMAIN n.members[q]
      PROVE  /\ q \in {"methods", "fields"} => MemberRefIn(ts, q, n.members[q][x], old)
             /\ q = "methods" => ParamRefsIn(ts, n.members[q][x])
             /\ q \notin {"methods", "fields"} => n.members[q][x].type = 0
             /\ q # "methods" => n.members[q][x].params = <<>>
  <2>1. x \in DOMAIN m.members[q]
    BY <1>1 DEF SameMirror
  <2>2. CASE q = k /\ x = j
    <3>1. n.members[q][x] = v
      BY <1>1, <2>1, <2>2 DEF Updated
    <3> QED
      BY <2>2, <3>1
  <2>3. CASE ~(q = k /\ x = j)
    <3>1. n.members[q][x] = m.members[q][x]
      BY <1>1, <2>1, <2>3 DEF Updated
    <3> QED
      BY <2>1, <3>1 DEF RefsIn
  <2> QED
    BY <2>2, <2>3
<1> QED
  BY <1>1, <1>2 DEF RefsIn, SameMirror

LEMMA GetMemberTypeMirrors ==
  ASSUME MirrorsInv, IInv, NEW i \in DOMAIN types, NEW k \in {"methods", "fields"},
         NEW j \in DOMAIN types[i].members[k], GetMemberType(i, k, j)
  PROVE  MirrorsInv'
<1> DEFINE mm == types[i].members[k][j]
           h == mm.handle
           id == MemberTypeId(k, h)
           v == [mm EXCEPT !.type = Inserted]
           n == [types[i] EXCEPT !.members[k][j] = v]
           old == i <= unloaded_at
<1>1. types \in Seq(MirrorSet) /\ unloaded_at \in 0..Len(types) /\ k \in MemberKinds
  BY DEF MirrorsInv, MemberKinds
<1>2. types[i] \in MirrorSet /\ Inserted \in Nat /\ i \in Nat /\ unloaded_at \in Nat
  BY <1>1 DEF Inserted
<1>3. mm \in MemberSet
  <2>1. types[i].members[k] \in Seq(MemberSet)
    BY <1>1, <1>2 DEF MirrorSet
  <2> QED
    BY <2>1
<1>4. v \in MemberSet /\ v.handle = h /\ v.type = Inserted /\ v.params = mm.params
  BY <1>2, <1>3 DEF MemberSet
<1>5. ResolveTo([types EXCEPT ![i] = n], id)
  BY DEF GetMemberType
<1>6. cached[k] \subseteq Methods \cup Fields
  BY DEF IInv, Kinds, MemberKinds, ElementsOf
<1>7. id \in Ids /\ NullId \notin cached[k]
  <2>1. h \in cached[k] => TypeOf[h] \in Types
    BY <1>6, ReflectionAssumption
  <2>2. NullId \notin Methods \cup Fields
    BY ReflectionAssumption DEF Elements
  <2> QED
    BY <1>6, <2>1, <2>2 DEF MemberTypeId, Answers, Ids, Elements
<1>8. i > unloaded_at => KnownIn(types[i], k, j, cached[k])
  BY <1>1 DEF MirrorsInv
<1>9. n \in MirrorSet /\ SameMirror(types[i], n)
  <2> HIDE DEF v
  <2> QED
    BY <1>1, <1>2, <1>4, UpdateMember
<1>10. ASSUME LeadsIn(types', Inserted, id) PROVE MemberRefIn(types', k, v, old)
  <2>1. CASE Answers(k, h)
    <3>1. id = TypeOf[h] /\ h # NullId
      BY <1>7, <2>1 DEF MemberTypeId, Answers
    <3> HIDE DEF id, v
    <3> QED
      BY <1>4, <1>10, <3>1 DEF MemberRefIn
  <2>2. CASE ~Answers(k, h)
    <3>1. old \/ MayHaveNoType(k, h)
      BY <1>2, <1>8, <2>2 DEF KnownIn, Answers, MayHaveNoType
    <3>2. NullIn(types', Inserted)
      BY <1>10, <2>2 DEF MemberTypeId, LeadsIn, NullIn
    <3> HIDE DEF v, old
    <3> QED
      BY <1>4, <3>1, <3>2 DEF MemberRefIn
  <2> QED
    BY <2>1, <2>2
<1>11. ASSUME RefsIn(types', types[i], old), LeadsIn(types', Inserted, id)
       PROVE  RefsIn(types', n, old)
  <2>1. MemberRefIn(types', k, v, old)
    BY <1>10, <1>11
  <2>2. /\ k = "methods" => ParamRefsIn(types', mm)
        /\ k # "methods" => mm.params = <<>>
    BY <1>1, <1>11 DEF RefsIn
  <2> HIDE DEF v, old, mm
  <2>3. /\ k = "methods" => ParamRefsIn(types', v)
        /\ k # "methods" => v.params = <<>>
    BY <1>4, <2>2 DEF ParamRefsIn
  <2> QED
    BY <1>1, <1>2, <1>4, <1>11, <2>1, <2>3, RefsOfUpdated DEF mm
<1> HIDE DEF n, id, old
<1> QED
  BY <1>5, <1>7, <1>9, <1>11, ResolveToStep DEF old

LEMMA ParamTypesMirrors ==
  ASSUME MirrorsInv, IInv, NEW i \in DOMAIN types, NEW j \in DOMAIN types[i].members["methods"],
         ParamTypes(i, j)
  PROVE  MirrorsInv'
<1> DEFINE mm == types[i].members["methods"][j]
           h == mm.handle
           hs == ParamsOf[h]
           known == cached["types"] \cup Range(hs)
           params == [p \in DOMAIN hs |-> Len(types) + p]
           v == [mm EXCEPT !.params = params]
           n == [types[i] EXCEPT !.members["methods"][j] = v]
           old == i <= unloaded_at
<1>1. types \in Seq(MirrorSet) /\ "methods" \in MemberKinds
  BY DEF MirrorsInv, MemberKinds
<1>2. types[i] \in MirrorSet /\ Len(types) \in Nat
  BY <1>1
<1>3. mm \in MemberSet
  <2>1. types[i].members["methods"] \in Seq(MemberSet)
    BY <1>1, <1>2 DEF MirrorSet
  <2> QED
    BY <2>1
<1>4. /\ h \in cached["methods"]
      /\ CacheTypes([types EXCEPT ![i] = n], hs, known)
      /\ UNCHANGED <<gone, unloaded_at, overrun>>
  BY DEF ParamTypes, Answers, Registered
<1>5. h \in Methods
  BY <1>4 DEF IInv, Kinds, MemberKinds, ElementsOf
<1>6. hs \in Seq(Types)
  BY <1>5, ReflectionAssumption
<1> HIDE DEF hs
<1>7. Len(hs) \in Nat /\ DOMAIN hs = 1..Len(hs) /\ \A p \in DOMAIN hs : hs[p] \in Types
  BY <1>6
<1>8. hs \in Seq(Ids)
  <2>1. Types \subseteq Ids
    BY <1>1, IdsAreIds
  <2> QED
    BY <1>6, <2>1
<1>9. /\ known \in SUBSET Types
      /\ cached["types"] \subseteq known
      /\ \A p \in DOMAIN hs : hs[p] \in Types => hs[p] \in known
  BY <1>7 DEF Range, IInv, Kinds, ElementsOf
<1>10. params \in Seq(Nat) /\ DOMAIN params = DOMAIN hs
       /\ \A p \in DOMAIN hs : params[p] = Len(types) + p
  <2>1. params = [p \in 1..Len(hs) |-> Len(types) + p]
    BY <1>7
  <2>2. \A p \in 1..Len(hs) : Len(types) + p \in Nat
    BY <1>2, <1>7
  <2>3. params \in [1..Len(hs) -> Nat]
    BY <2>1, <2>2
  <2>4. \A p \in DOMAIN hs : params[p] = Len(types) + p
    OBVIOUS
  <2> HIDE DEF params
  <2> QED
    BY <1>7, <2>3, <2>4
<1> HIDE DEF params
<1>11. v \in MemberSet /\ v.handle = h /\ v.type = mm.type /\ v.params = params
  BY <1>3, <1>10 DEF MemberSet
<1> HIDE DEF v
<1>12. n \in MirrorSet /\ SameMirror(types[i], n)
  BY <1>1, <1>2, <1>11, UpdateMember
<1>13. ASSUME \A p \in DOMAIN hs : LeadsIn(types', Len(types) + p, hs[p])
       PROVE  ParamRefsIn(types', v)
  <2>1. ASSUME NEW p \in DOMAIN v.params PROVE LeadsIn(types', v.params[p], ParamsOf[v.handle][p])
    <3>1. p \in DOMAIN hs /\ v.params[p] = Len(types) + p
      BY <1>10, <1>11
    <3>2. ParamsOf[v.handle][p] = hs[p]
      BY <1>11 DEF hs
    <3> QED
      BY <1>13, <3>1, <3>2
  <2> QED
    BY <2>1 DEF ParamRefsIn
<1>14. ASSUME RefsIn(types', types[i], old),
              \A p \in DOMAIN hs : LeadsIn(types', Len(types) + p, hs[p])
       PROVE  RefsIn(types', n, old)
  <2>1. ParamRefsIn(types', v)
    BY <1>13, <1>14
  <2>2. MemberRefIn(types', "methods", mm, old)
    BY <1>1, <1>14 DEF RefsIn
  <2> HIDE DEF old, mm
  <2>3. MemberRefIn(types', "methods", v, old)
    BY <1>11, <2>2 DEF MemberRefIn
  <2> QED
    BY <1>1, <1>2, <1>11, <1>14, <2>1, <2>3, RefsOfUpdated DEF mm
<1> HIDE DEF known, n, old
<1> QED
  BY <1>4, <1>8, <1>9, <1>12, <1>14, ResolveStep DEF old

(* What is cached besides, with no new reference: the types of a loaded assembly, and the
   mirror under the id of an attribute. *)
LEMMA CacheMoreMirrors ==
  ASSUME MirrorsInv, IInv, NEW hs \in Seq(Ids), NEW known \in SUBSET Types,
         cached["types"] \subseteq known, \A j \in DOMAIN hs : hs[j] \in Types => hs[j] \in known,
         CacheTypes(types, hs, known), UNCHANGED <<gone, unloaded_at, overrun>>
  PROVE  MirrorsInv'
<1>1. types \in Seq(MirrorSet)
  BY DEF MirrorsInv
<1>2. \A x \in DOMAIN types : SameMirror(types[x], types[x])
  BY DEF SameMirror
<1>3. Later(types, types')
  BY <1>1, <1>2, CachedLater
<1>4. ASSUME NEW x \in DOMAIN types PROVE RefsIn(types', types[x], x <= unloaded_at)
  <2> DEFINE old == x <= unloaded_at
  <2>1. RefsIn(types, types[x], old)
    BY DEF MirrorsInv
  <2>2. old \in BOOLEAN
    OBVIOUS
  <2> HIDE DEF old
  <2>3. RefsIn(types', types[x], old)
    BY <1>3, <2>1, <2>2, RefsLater
  <2> QED
    BY <2>3 DEF old
<1>5. DOMAIN cached = Kinds /\ gone' \subseteq Asms
  BY DEF IInv, MirrorsInv
<1> QED
  BY <1>1, <1>2, <1>4, <1>5, CacheStep

(* More ids in the tables, and no new mirror. *)
LEMMA TablesGrowMirrors ==
  ASSUME MirrorsInv, UNCHANGED <<types, unloaded_at>>,
         \A k \in Kinds : cached[k] \subseteq cached'[k],
         cached'["attributes"] \subseteq AttributeIds,
         gone' \subseteq Asms, overrun' \in BOOLEAN
  PROVE  MirrorsInv'
<1>1. MemberKinds \subseteq Kinds /\ "types" \in Kinds
  BY DEF Kinds
<1>2. ASSUME NEW i \in DOMAIN types, i > unloaded_at
      PROVE  /\ NamedIn(types[i], cached'["types"])
             /\ \A k \in MemberKinds : \A j \in DOMAIN types[i].members[k] :
                   KnownIn(types[i], k, j, cached'[k])
  <2>1. NamedIn(types[i], cached["types"])
    BY <1>2 DEF MirrorsInv
  <2>2. ASSUME NEW k \in MemberKinds, NEW j \in DOMAIN types[i].members[k]
        PROVE  KnownIn(types[i], k, j, cached'[k])
    <3>1. KnownIn(types[i], k, j, cached[k])
      BY <1>2 DEF MirrorsInv
    <3> QED
      BY <1>1, <3>1 DEF KnownIn
  <2> QED
    BY <1>1, <2>1, <2>2 DEF NamedIn
<1>3. /\ types \in Seq(MirrorSet)
      /\ unloaded_at \in 0..Len(types)
      /\ \A i \in DOMAIN types : \A j \in DOMAIN types[i].members["attributes"] :
            types[i].members["attributes"][j].handle \notin Types
      /\ \A i \in DOMAIN types : RefsIn(types, types[i], i <= unloaded_at)
  BY DEF MirrorsInv
<1> QED
  BY <1>2, <1>3 DEF MirrorsInv

LEMMA AddAttributesMirrors ==
  ASSUME MirrorsInv, IInv, NEW k \in {"methods", "fields"}, NEW h,
         AddAttributes(k, h), UNCHANGED <<types, unloaded_at, gone>>, overrun' \in BOOLEAN
  PROVE  MirrorsInv'
<1> DEFINE made == {<<a, 0>> : a \in Range(Made(k, h))}
<1>1. cached' = [cached EXCEPT !["attributes"] = cached["attributes"] \cup made]
  BY DEF AddAttributes, Registered
<1>2. made \subseteq AttributeIds
  <2>1. CASE h \in cached[k]
    <3>1. h \in Methods \cup Fields
      BY <2>1 DEF IInv, Kinds, MemberKinds, ElementsOf
    <3>2. AttributesOf[h] \in Seq(Attributes)
      BY <3>1, ReflectionAssumption
    <3>3. Range(Made(k, h)) \subseteq Attributes
      BY <2>1, <3>2 DEF Made, Range
    <3> QED
      BY <3>3 DEF AttributeIds
  <2>2. CASE h \notin cached[k]
    BY <2>2 DEF Made, MakesAttributes, Range
  <2> QED
    BY <2>1, <2>2
<1> HIDE DEF made
<1>3. DOMAIN cached = Kinds /\ "attributes" \in Kinds
  BY DEF IInv, Kinds, MemberKinds
<1>4. \A q \in Kinds : cached'[q] = IF q = "attributes" THEN cached[q] \cup made ELSE cached[q]
  BY <1>1, <1>3
<1>5. /\ \A q \in Kinds : cached[q] \subseteq cached'[q]
      /\ cached'["attributes"] \subseteq AttributeIds
  BY <1>2, <1>3, <1>4 DEF MirrorsInv
<1>6. gone' \subseteq Asms
  BY DEF MirrorsInv
<1> QED
  BY <1>5, <1>6, TablesGrowMirrors

(* There is no mirror before the first load. *)
THEOREM InitMirrors == Init => MirrorsInv
<1> SUFFICES ASSUME Init PROVE MirrorsInv
  OBVIOUS
<1>1. types = <<>> /\ unloaded_at = 0 /\ gone = {} /\ overrun = FALSE /\ cached["attributes"] = {}
  BY DEF Init, Kinds, MemberKinds
<1>2. types \in Seq(MirrorSet) /\ DOMAIN types = {} /\ Len(types) = 0
  BY <1>1
<1>3. unloaded_at \in 0..Len(types)
  BY <1>1, <1>2
<1>4. \A i \in DOMAIN types : FALSE
  BY <1>2
<1>5. gone \subseteq Asms /\ overrun \in BOOLEAN /\ cached["attributes"] \subseteq AttributeIds
  BY <1>1
<1> QED
  BY <1>2, <1>3, <1>4, <1>5, Zenon DEF MirrorsInv

(* Every call of the API keeps the mirrors right. *)
THEOREM StepMirrors == MirrorsInv /\ IInv /\ [Next]_vars => MirrorsInv'
<1> SUFFICES ASSUME MirrorsInv, IInv, [Next]_vars PROVE MirrorsInv'
  OBVIOUS
<1>a. /\ types \in Seq(MirrorSet)
      /\ unloaded_at \in 0..Len(types)
      /\ gone \subseteq Asms
      /\ overrun \in BOOLEAN
      /\ cached["attributes"] \subseteq AttributeIds
  BY DEF MirrorsInv
<1>b. cached["types"] \in SUBSET Types /\ DOMAIN cached = Kinds
  BY DEF IInv, Kinds, ElementsOf
<1>c. Types \subseteq Ids /\ AttributeIds \subseteq Ids /\ NullId \in Ids
  BY DEF Ids, Elements
<1>1. ASSUME NEW a \in Asms, LoadAssembly(a) PROVE MirrorsInv'
  <2> DEFINE hs == TypesOf[a]
             known == cached["types"] \cup Range(hs)
  <2>1. hs \in Seq(Types)
    BY ReflectionAssumption
  <2>2. CacheTypes(types, hs, known) /\ UNCHANGED <<gone, unloaded_at, overrun>>
    BY <1>1 DEF LoadAssembly, Registered
  <2> HIDE DEF hs
  <2>3. known \in SUBSET Types /\ \A j \in DOMAIN hs : hs[j] \in known
    BY <1>b, <2>1 DEF Range
  <2>4. hs \in Seq(Ids)
    BY <1>c, <2>1
  <2>5. cached["types"] \subseteq known
    OBVIOUS
  <2> HIDE DEF known
  <2> QED
    BY <2>2, <2>3, <2>4, <2>5, CacheMoreMirrors
<1>2. ASSUME NEW a \in Asms, Unload(a) PROVE MirrorsInv'
  <2>1. /\ types' = types
        /\ overrun' = overrun
        /\ unloaded_at' = Len(types)
        /\ gone' \subseteq Asms
        /\ cached' = [k \in Kinds |-> {}]
    BY <1>2, <1>a DEF Unload, ClearTables
  <2>2. cached'["attributes"] = {}
    BY <2>1 DEF Kinds, MemberKinds
  <2>3. \A i \in DOMAIN types : ~(i > Len(types)) /\ i <= Len(types)
    BY <1>a
  <2>4. ASSUME NEW i \in DOMAIN types PROVE RefsIn(types, types[i], TRUE)
    <3> DEFINE old == i <= unloaded_at
    <3>1. RefsIn(types, types[i], old) /\ old \in BOOLEAN
      BY DEF MirrorsInv
    <3> HIDE DEF old
    <3>2. Later(types, types)
      BY DEF Later
    <3> QED
      BY <3>1, <3>2, RefsLater
  <2>5. \A i \in DOMAIN types : RefsIn(types, types[i], i <= Len(types))
    <3> TAKE i \in DOMAIN types
    <3>1. (i <= Len(types)) = TRUE
      BY <2>3
    <3> QED
      BY <2>4, <3>1
  <2>6. \A i \in DOMAIN types : \A j \in DOMAIN types[i].members["attributes"] :
           types[i].members["attributes"][j].handle \notin Types
    BY DEF MirrorsInv
  <2>7. Len(types) \in 0..Len(types)
    BY <1>a
  <2> QED
    BY <1>a, <2>1, <2>2, <2>3, <2>5, <2>6, <2>7 DEF MirrorsInv
<1>3. ASSUME NEW t \in Types, GetTypeId(t) PROVE MirrorsInv'
  <2>1. /\ cached' = [cached EXCEPT !["types"] = cached["types"] \cup {t}]
        /\ UNCHANGED <<types, unloaded_at, gone, overrun>>
    BY <1>3 DEF GetTypeId, Registered
  <2>2. "types" \in Kinds /\ "attributes" \in Kinds
    BY DEF Kinds, MemberKinds
  <2>3. \A k \in Kinds : cached'[k] = IF k = "types" THEN cached[k] \cup {t} ELSE cached[k]
    BY <1>b, <2>1, <2>2
  <2>4. cached'["attributes"] = cached["attributes"]
    BY <2>2, <2>3
  <2>5. \A k \in Kinds : cached[k] \subseteq cached'[k]
    BY <2>3
  <2> QED
    BY <1>a, <2>1, <2>4, <2>5, TablesGrowMirrors
<1>4. ASSUME NEW i \in DOMAIN types, Resolve(i) PROVE MirrorsInv'
  <2>1. CASE BaseObject(i)
    BY <2>1, BaseObjectMirrors
  <2>2. CASE GetEltType(i)
    BY <2>2, GetEltTypeMirrors
  <2>3. ASSUME NEW k \in {"methods", "fields"}, NEW j \in DOMAIN types[i].members[k],
               GetMemberType(i, k, j)
        PROVE  MirrorsInv'
    BY <2>3, GetMemberTypeMirrors
  <2>4. ASSUME NEW j \in DOMAIN types[i].members["methods"], ParamTypes(i, j) PROVE MirrorsInv'
    BY <2>4, ParamTypesMirrors
  <2>5. ASSUME NEW j \in DOMAIN types[i].members["attributes"], AttributeType(i, j)
        PROVE  MirrorsInv'
    <3> DEFINE id == types[i].members["attributes"][j].handle
               hs == <<id>>
    <3>1. CacheTypes(types, hs, cached["types"]) /\ UNCHANGED <<gone, unloaded_at, overrun>>
      BY <2>5 DEF AttributeType
    <3>2. id \notin Types
      BY <2>5 DEF MirrorsInv
    <3>3. id \in Ids
      <4>1. types[i].members["attributes"] \in Seq(MemberSet)
        <5>1. types[i] \in MirrorSet /\ "attributes" \in MemberKinds
          BY <1>a DEF MemberKinds
        <5>2. types[i].members \in [MemberKinds -> Seq(MemberSet)]
          BY <5>1 DEF MirrorSet
        <5> QED
          BY <5>1, <5>2
      <4>2. types[i].members["attributes"][j] \in MemberSet
        BY <2>5, <4>1
      <4> QED
        BY <4>2 DEF MemberSet
    <3> HIDE DEF id
    <3>4. hs \in Seq(Ids) /\ \A q \in DOMAIN hs : hs[q] = id
      BY <3>3
    <3> HIDE DEF hs
    <3> QED
      BY <1>b, <3>1, <3>2, <3>4, CacheMoreMirrors
  <2>6. ASSUME NEW j \in DOMAIN types[i].members["methods"], MethodAttributes(i, j)
        PROVE  MirrorsInv'
    <3>1. PICK h : /\ AddAttributes("methods", h)
                   /\ overrun' = (Len(Made("methods", h)) > 1)
                   /\ UNCHANGED <<gone, types, unloaded_at>>
      BY <2>6 DEF MethodAttributes
    <3>2. overrun' \in BOOLEAN
      BY <3>1
    <3> QED
      BY <3>1, <3>2, AddAttributesMirrors
  <2>7. ASSUME NEW j \in DOMAIN types[i].members["fields"], FieldAttributes(i, j)
        PROVE  MirrorsInv'
    <3>1. PICK h : AddAttributes("fields", h) /\ UNCHANGED <<gone, types, unloaded_at, overrun>>
      BY <2>7 DEF FieldAttributes
    <3> QED
      BY <1>a, <3>1, AddAttributesMirrors
  <2> QED
    BY <1>4, <2>1, <2>2, <2>3, <2>4, <2>5, <2>6, <2>7 DEF Resolve
<1>5. ASSUME NEW t \in Types, InitType(t) PROVE MirrorsInv'
  <2> DEFINE ids(k) == Range(MembersFetched(cached["types"], t, 0)[k]) \ {NullId}
  <2>1. /\ cached' = [k \in Kinds |-> IF k = "types" THEN cached[k] ELSE cached[k] \cup ids(k)]
        /\ UNCHANGED <<types, unloaded_at, gone, overrun>>
    BY <1>5 DEF InitType, Registered
  <2>2. "attributes" \in Kinds /\ "attributes" \in MemberKinds
    BY DEF Kinds, MemberKinds
  <2>3. ids("attributes") \subseteq AttributeIds
    <3>1. MembersFetched(cached["types"], t, 0)["attributes"]
            \in Seq(IdsOf("attributes") \cup {NullId})
      BY <1>b, <2>2, MembersShape
    <3> QED
      BY <3>1 DEF IdsOf, Range
  <2> HIDE DEF ids
  <2>4. cached'["attributes"] \subseteq AttributeIds
    BY <1>a, <2>1, <2>2, <2>3
  <2>5. \A k \in Kinds : cached[k] \subseteq cached'[k]
    BY <2>1
  <2> QED
    BY <1>a, <2>1, <2>4, <2>5, TablesGrowMirrors
<1>6. ASSUME NEW a, NEW b, BindReference(a, b) PROVE MirrorsInv'
  <2>1. UNCHANGED <<types, unloaded_at, gone, overrun, cached>>
    BY <1>6 DEF BindReference
  <2> QED
    BY <1>a, <2>1, TablesGrowMirrors
<1>7. CASE UNCHANGED vars
  <2>1. UNCHANGED <<types, unloaded_at, gone, overrun, cached>>
    BY <1>7 DEF vars
  <2> QED
    BY <1>a, <2>1, TablesGrowMirrors
<1> QED
  BY <1>1, <1>2, <1>3, <1>4, <1>5, <1>6, <1>7 DEF Next

LEMMA SpecMirrors == Spec => [](MirrorsInv /\ IInv)
<1>1. MirrorsInv /\ IInv /\ [Next]_vars => (MirrorsInv /\ IInv)'
  BY StepMirrors, StepIInv
<1> QED
  BY InitMirrors, InitIInv, <1>1, PTL DEF Spec

(* The types of all variables: no reference of a mirror ever leads out of the vector. *)
THEOREM ReflectionTyping == Spec => []TypeOK
BY SpecMirrors, MirrorsInvTypeOK, PTL

(* Every member id that native code got since the last unload is one that the managed
   side still accepts. *)
THEOREM MembersStayKnown == Spec => []MembersKnown
BY SpecMirrors, MirrorsInvMembersKnown, PTL

(* What a mirror resolved once, under whatever ids and however many unloads ago, is the
   type it means, or the null type for one of the reasons there are. *)
THEOREM ReferencesMatch == Spec => []ResolvedTypesMatch
BY SpecMirrors, MirrorsInvResolved, PTL

(* A lookup by the name of a type that was cached since the last unload finds a mirror that
   the managed side accepts. *)
THEOREM NamesAreFound == Spec => []FoundByName
BY SpecMirrors, MirrorsInvFoundByName, PTL
=============================================================================
