--------------------------- MODULE MarshallingProofs ---------------------------
(* The strings and the method cache of Marshalling, for any variables and blocks, any
   methods and overloads, any arguments and fields. *)
EXTENDS Marshalling, WellFoundedInduction, TLAPS

-----------------------------------------------------------------------------
(* Strings *)

(* A variable that is out of scope points nowhere, and what a field keeps of an NString is
   a pointer. *)
StringsIInv ==
  /\ StringsTypeOK
  /\ StringsOwned
  /\ \A v \in StringVars : scope[v] = "out" => string[v] = None
  /\ DOMAIN field = Fields
  /\ \A f \in Fields : field[f].block \in Blocks \cup {None}

(* No strings, no violations. *)
LEMMA StringsInitIInv == Init => StringsIInv
<1> SUFFICES ASSUME Init PROVE StringsIInv
  OBVIOUS
<1> USE DEF Init, StringsInit
<1>1. StringsTypeOK /\ StringsOwned
  BY DEF StringsTypeOK, StringsOwned
<1>2. \A f \in Fields : field[f].block = None
  BY DEF Unwritten
<1> QED
  BY <1>1, <1>2 DEF StringsIInv

(* A new string gets a block that no variable points to. *)
LEMMA MadeOwned ==
  ASSUME StringsIInv, NEW v \in StringVars, NEW kind \in {"plain", "scoped"}, Made(v, kind),
         UNCHANGED shared, corrupted' \in BOOLEAN, ~shared => ~corrupted'
  PROVE  /\ StringsTypeOK' /\ StringsOwned'
         /\ \A w \in StringVars : scope'[w] = "out" => string'[w] = None
<1> USE StringAssumption DEF StringsIInv, StringsTypeOK, StringsOwned
<1>1. PICK b \in Blocks \ heap : heap' = heap \cup {b} /\ string' = [string EXCEPT ![v] = b]
  BY DEF Made, NStringToCoTaskMemAuto
<1>2. scope[v] = "out" /\ scope' = [scope EXCEPT ![v] = kind]
  BY DEF Made
<1>3. StringsTypeOK'
  BY <1>1, <1>2
<1>4. StringsOwned'
  BY <1>1
<1> QED
  BY <1>1, <1>2, <1>3, <1>4

(* A variable that gets a pointer, which counts as shared unless it is null. *)
LEMMA PointerOwned ==
  ASSUME StringsIInv, NEW v \in StringVars, NEW p \in Blocks \cup {None},
         NEW kind \in {"plain", "scoped"},
         scope[v] = "out", scope' = [scope EXCEPT ![v] = kind],
         string' = [string EXCEPT ![v] = p], UNCHANGED heap,
         shared' = (shared \/ p # None), corrupted' \in BOOLEAN, ~shared => ~corrupted'
  PROVE  /\ StringsTypeOK' /\ StringsOwned'
         /\ \A w \in StringVars : scope'[w] = "out" => string'[w] = None
<1> USE StringAssumption DEF StringsIInv, StringsTypeOK, StringsOwned
<1>1. StringsTypeOK'
  OBVIOUS
<1>2. StringsOwned'
  OBVIOUS
<1> QED
  BY <1>1, <1>2

(* Unless pointers are shared, a variable in scope can be read. *)
LEMMA ReadOwned ==
  ASSUME StringsIInv, NEW v \in StringVars
  PROVE  ~shared => ~corrupted /\ ~Dead(string[v])
BY DEF StringsIInv, StringsOwned, Dead

(* The operations of the string types. *)
LEMMA StringStepOwned ==
  ASSUME StringsIInv, StringStep, UNCHANGED field
  PROVE  StringsIInv'
<1> SUFFICES /\ StringsTypeOK' /\ StringsOwned'
             /\ \A w \in StringVars : scope'[w] = "out" => string'[w] = None
  BY DEF StringsIInv
<1> USE DEF StringsIInv
<1>1. ASSUME NEW v \in StringVars, NEW kind \in {"plain", "scoped"}, New(v, kind)
      PROVE  /\ StringsTypeOK' /\ StringsOwned'
             /\ \A w \in StringVars : scope'[w] = "out" => string'[w] = None
  BY <1>1, MadeOwned DEF New, StringsTypeOK, StringsOwned
<1>2. ASSUME NEW v \in StringVars, NEW w \in StringVars, NEW kind \in {"plain", "scoped"},
             Copy(v, w, kind)
      PROVE  /\ StringsTypeOK' /\ StringsOwned'
             /\ \A u \in StringVars : scope'[u] = "out" => string'[u] = None
  <2>1. string[v] \in Blocks \cup {None}
    BY DEF StringsTypeOK
  <2> QED
    BY <1>2, <2>1, PointerOwned DEF Copy, StringsTypeOK, StringsOwned
<1>3. ASSUME NEW v \in StringVars, Assign(v)
      PROVE  /\ StringsTypeOK' /\ StringsOwned'
             /\ \A u \in StringVars : scope'[u] = "out" => string'[u] = None
  <2>1. PICK b \in Blocks \ (heap \ {string[v]}) :
           heap' = (heap \ {string[v]}) \cup {b} /\ string' = [string EXCEPT ![v] = b]
    BY <1>3 DEF Assign, NStringToCoTaskMemAuto
  <2>2. /\ scope[v] = "plain" /\ UNCHANGED <<scope, shared>>
        /\ corrupted' = (corrupted \/ Dead(string[v]))
    BY <1>3 DEF Assign
  <2>3. StringsTypeOK'
    BY <2>1, <2>2 DEF StringsTypeOK, Dead
  <2>4. StringsOwned'
    BY <2>1, <2>2, ReadOwned, StringAssumption DEF StringsOwned, StringsTypeOK
  <2> QED
    BY <2>1, <2>2, <2>3, <2>4 DEF StringsTypeOK
<1>4. ASSUME NEW v \in StringVars, Free(v)
      PROVE  /\ StringsTypeOK' /\ StringsOwned'
             /\ \A u \in StringVars : scope'[u] = "out" => string'[u] = None
  BY <1>4, ReadOwned, StringAssumption DEF Free, StringsOwned, StringsTypeOK, Dead
<1>5. ASSUME NEW v \in StringVars, Leave(v)
      PROVE  /\ StringsTypeOK' /\ StringsOwned'
             /\ \A u \in StringVars : scope'[u] = "out" => string'[u] = None
  BY <1>5, ReadOwned, StringAssumption DEF Leave, StringsOwned, StringsTypeOK, Dead
<1>6. ASSUME NEW v \in StringVars, Read(v)
      PROVE  /\ StringsTypeOK' /\ StringsOwned'
             /\ \A u \in StringVars : scope'[u] = "out" => string'[u] = None
  BY <1>6, ReadOwned DEF Read, StringsOwned, StringsTypeOK, Dead
<1> QED
  BY <1>1, <1>2, <1>3, <1>4, <1>5, <1>6 DEF StringStep

(* A string that is passed to managed code, or a result string, keeps ownership. *)
LEMMA PassesStringOwned ==
  ASSUME StringsIInv, NEW called, PassesString(called)
  PROVE  corrupted' \in BOOLEAN /\ (~shared => ~corrupted')
<1>1. corrupted \in BOOLEAN /\ (~shared => ~corrupted)
  BY DEF StringsIInv, StringsTypeOK, StringsOwned
<1>2. CASE called
  <2>1. PICK w \in StringVars : corrupted' = (corrupted \/ Dead(string[w]))
    BY <1>2 DEF PassesString
  <2> QED
    BY <1>1, <2>1, ReadOwned DEF Dead
<1>3. CASE ~called
  BY <1>1, <1>3 DEF PassesString
<1> QED
  BY <1>2, <1>3

(* A result string gets a block of its own, or stays null. *)
LEMMA ReceivesStringOwned ==
  ASSUME StringsIInv, ReceivesString,
         UNCHANGED shared, corrupted' \in BOOLEAN, ~shared => ~corrupted'
  PROVE  /\ StringsTypeOK' /\ StringsOwned'
         /\ \A w \in StringVars : scope'[w] = "out" => string'[w] = None
<1>1. ASSUME NEW v \in StringVars, Made(v, "plain")
      PROVE  /\ StringsTypeOK' /\ StringsOwned'
             /\ \A w \in StringVars : scope'[w] = "out" => string'[w] = None
  BY <1>1, MadeOwned
<1>2. ASSUME NEW v \in StringVars, scope[v] = "out", scope' = [scope EXCEPT ![v] = "plain"],
             UNCHANGED <<heap, string>>
      PROVE  /\ StringsTypeOK' /\ StringsOwned'
             /\ \A w \in StringVars : scope'[w] = "out" => string'[w] = None
  BY <1>2 DEF StringsIInv, StringsTypeOK, StringsOwned
<1> QED
  BY <1>1, <1>2 DEF ReceivesString

(* A call passes strings and may receive one. *)
LEMMA InvokeOwned ==
  ASSUME StringsIInv, NEW n, NEW args, NEW static, Invoke(n, args, static)
  PROVE  StringsIInv'
<1>1. UNCHANGED <<field, shared>>
  BY DEF Invoke
<1>2. \E c : PassesString(c)
  BY DEF Invoke
<1>3. corrupted' \in BOOLEAN /\ (~shared => ~corrupted')
  BY <1>2, PassesStringOwned
<1>4. ReceivesString \/ ForgetsString \/ UNCHANGED <<heap, scope, string>>
  BY DEF Invoke
<1>5. /\ StringsTypeOK' /\ StringsOwned'
      /\ \A w \in StringVars : scope'[w] = "out" => string'[w] = None
  <2>1. CASE ReceivesString
    BY <1>1, <1>3, <2>1, ReceivesStringOwned
  <2>2. CASE UNCHANGED <<heap, scope, string>>
    BY <1>1, <1>3, <2>2 DEF StringsIInv, StringsTypeOK, StringsOwned
  <2>3. CASE ForgetsString
    <3>1. heap' \subseteq Blocks /\ heap \subseteq heap' /\ UNCHANGED <<scope, string>>
      BY <2>3 DEF ForgetsString, NStringToCoTaskMemAuto, StringsIInv, StringsTypeOK
    <3> QED
      BY <1>1, <1>3, <3>1 DEF StringsIInv, StringsTypeOK, StringsOwned
  <2> QED
    BY <1>4, <2>1, <2>2, <2>3
<1> QED
  BY <1>1, <1>5 DEF StringsIInv

(* A field keeps a pointer of a string variable, which is then shared, or none. *)
LEMMA SetMemberOwned ==
  ASSUME StringsIInv, NEW f \in Fields, NEW t, SetMember(f, t)
  PROVE  StringsIInv'
<1>1. UNCHANGED <<heap, scope, string>>
  BY DEF SetMember
<1>2. PICK b : /\ field' = [field EXCEPT ![f] = IF Keeps(t, FieldType[f])
                                                THEN [type |-> t, block |-> b] ELSE Unwritten]
               /\ b \in Blocks \cup {None}
               /\ corrupted' \in BOOLEAN /\ (~shared' => ~shared /\ ~corrupted')
               /\ shared' \in BOOLEAN
  <2>1. CASE t = "NString" /\ FieldType[f] = "NString"
    <3>1. PICK w \in StringVars :
             /\ field' = [field EXCEPT ![f] = IF Keeps(t, FieldType[f])
                                              THEN [type |-> t, block |-> string[w]]
                                              ELSE Unwritten]
             /\ shared' = (shared \/ string[w] # None)
             /\ UNCHANGED corrupted
      BY <2>1 DEF SetMember
    <3>2. string[w] \in Blocks \cup {None}
      BY DEF StringsIInv, StringsTypeOK
    <3>3. /\ corrupted' \in BOOLEAN /\ (~shared' => ~shared /\ ~corrupted')
          /\ shared' \in BOOLEAN
      <4>1. shared \in BOOLEAN /\ corrupted \in BOOLEAN /\ (~shared => ~corrupted)
        BY DEF StringsIInv, StringsTypeOK, StringsOwned
      <4> QED
        BY <3>1, <4>1, Zenon
    <3> QED
      BY <3>1, <3>2, <3>3
  <2>2. CASE ~(t = "NString" /\ FieldType[f] = "NString")
    <3>1. PassesString(t = "NString") /\ UNCHANGED shared
      BY <2>2 DEF SetMember
    <3>2. field' = [field EXCEPT ![f] = IF Keeps(t, FieldType[f])
                                        THEN [type |-> t, block |-> None] ELSE Unwritten]
      BY <2>2 DEF SetMember
    <3> QED
      BY <3>1, <3>2, PassesStringOwned DEF StringsIInv, StringsTypeOK
  <2> QED
    BY <2>1, <2>2
<1>3. DOMAIN field' = Fields /\ \A g \in Fields : field'[g].block \in Blocks \cup {None}
  BY <1>2 DEF StringsIInv, Unwritten
<1>4. StringsTypeOK' /\ StringsOwned'
  BY <1>1, <1>2 DEF StringsIInv, StringsTypeOK, StringsOwned
<1> QED
  BY <1>1, <1>3, <1>4 DEF StringsIInv

(* Reading a field makes a string, or shares the pointer of the field. *)
LEMMA GetMemberOwned ==
  ASSUME StringsIInv, NEW f \in Fields, NEW t, GetMember(f, t)
  PROVE  StringsIInv'
<1>1. UNCHANGED <<field, corrupted>>
  BY DEF GetMember
<1>2. corrupted \in BOOLEAN /\ (~shared => ~corrupted)
  BY DEF StringsIInv, StringsTypeOK, StringsOwned
<1>3. CASE ReceivesString /\ UNCHANGED shared
  BY <1>1, <1>2, <1>3, ReceivesStringOwned DEF StringsIInv
<1>4. ASSUME NEW v \in StringVars, scope[v] = "out", scope' = [scope EXCEPT ![v] = "plain"],
             string' = [string EXCEPT ![v] = field[f].block],
             shared' = (shared \/ field[f].block # None), UNCHANGED heap
      PROVE  StringsIInv'
  <2>1. field[f].block \in Blocks \cup {None}
    BY DEF StringsIInv
  <2> QED
    BY <1>1, <1>2, <1>4, <2>1, PointerOwned DEF StringsIInv
<1>5. CASE UNCHANGED <<heap, scope, string, shared>>
  BY <1>1, <1>5 DEF StringsIInv, StringsTypeOK, StringsOwned
<1>6. \/ ReceivesString /\ UNCHANGED shared
      \/ \E v \in StringVars :
            /\ scope[v] = "out"
            /\ scope' = [scope EXCEPT ![v] = "plain"]
            /\ string' = [string EXCEPT ![v] = field[f].block]
            /\ shared' = (shared \/ field[f].block # None)
            /\ UNCHANGED heap
      \/ UNCHANGED <<heap, scope, string, shared>>
  <2>1. CASE FieldType[f] = "string"
    BY <2>1 DEF GetMember
  <2>2. CASE FieldType[f] = "NString"
    BY <2>2 DEF GetMember
  <2>3. CASE FieldType[f] \notin {"string", "NString"}
    BY <2>3 DEF GetMember
  <2> QED
    BY <2>1, <2>2, <2>3
<1> QED
  BY <1>3, <1>4, <1>5, <1>6

(* Every step keeps the ownership of strings. *)
LEMMA StringsNextIInv == StringsIInv /\ [Next]_vars => StringsIInv'
<1> SUFFICES ASSUME StringsIInv, [Next]_vars PROVE StringsIInv'
  OBVIOUS
<1>1. CASE StringStep /\ UNCHANGED marshalVars
  BY <1>1, StringStepOwned DEF marshalVars
<1>2. CASE CallStep
  BY <1>2, InvokeOwned DEF CallStep
<1>3. CASE MemberStep
  BY <1>3, SetMemberOwned, GetMemberOwned DEF MemberStep
<1>4. CASE UNCHANGED vars
  BY <1>4 DEF vars, strVars, marshalVars, StringsIInv, StringsTypeOK, StringsOwned
<1> QED
  BY <1>1, <1>2, <1>3, <1>4 DEF Next

(* NString::New, Assign and Free, the destructor of NScopedString and the strings that
   managed code makes: unless a pointer is copied, each block is freed once and never read
   after that, whatever calls and fields strings pass through. *)
THEOREM StringsAreOwned == Spec => []StringsOwned
<1>1. StringsIInv => StringsOwned
  BY DEF StringsIInv
<1> QED
  BY <1>1, StringsInitIInv, StringsNextIInv, PTL DEF Spec

-----------------------------------------------------------------------------
(* The method cache *)

(* A set of positions in a sequence has a first one. *)
LEMMA FirstExists ==
  ASSUME NEW T, T \subseteq Nat, T # {}
  PROVE  \E i \in T : \A j \in T : i <= j
<1>1. PICK i \in T : \A j \in T : ~(<<j, i>> \in OpToRel(<, Nat))
  BY WFMin, NatLessThanWellFounded
<1>2. \A j \in T : ~(j < i)
  BY <1>1 DEF OpToRel
<1> QED
  BY <1>2

(* What FindSuitableMethod finds is a method of the kind that it looks for. *)
LEMMA FoundIsOfKind ==
  ASSUME NEW n, NEW codes, NEW static,
         FindSuitableMethod(n, codes, static) # 0
  PROVE  Methods[FindSuitableMethod(n, codes, static)].static = static
<1> DEFINE fits == {i \in DOMAIN Methods :
                      LET m == Methods[i] IN
                      /\ m.static = static
                      /\ Len(m.params) = Len(codes)
                      /\ \/ n = Signature(m)
                         \/ n = Name(m) /\ \A j \in DOMAIN codes : ParamCode(m.params[j]) = codes[j]}
           i == CHOOSE k \in fits : \A j \in fits : k <= j
<1>1. FindSuitableMethod(n, codes, static) = IF fits = {} THEN 0 ELSE i
  BY DEF FindSuitableMethod
<1>2. fits # {}
  BY <1>1
<1>3. fits \subseteq Nat
  BY MarshallingAssumption
<1> HIDE DEF fits
<1>4. \E k \in fits : \A j \in fits : k <= j
  BY <1>2, <1>3, FirstExists
<1>5. i \in fits
  BY <1>4
<1>6. FindSuitableMethod(n, codes, static) = i
  BY <1>1, <1>2
<1> HIDE DEF i
<1> QED
  BY <1>5, <1>6 DEF fits

(* A call leaves the cached methods alone and adds what it found. *)
LEMMA InvokeCaches ==
  ASSUME CachedIsFound, NEW n, NEW args, NEW static, Invoke(n, args, static)
  PROVE  CachedIsFound'
<1> DEFINE codes == [j \in DOMAIN args |-> GetManagedType(args[j])]
           key == MethodKey(n, codes)
           i == TryGetMethodInfo(n, codes, static)
<1>1. i # 0 /\ methods' = Cached(key, i)
  BY DEF Invoke
<1> HIDE DEF codes
<1>2. key[1] = n /\ key[2] = codes
  BY DEF MethodKey
<1>3. i = IF key \in DOMAIN methods THEN methods[key] ELSE FindSuitableMethod(n, codes, static)
  BY DEF TryGetMethodInfo
<1>4. i = FindSuitableMethod(n, codes, Methods[i].static)
  <2>1. CASE key \in DOMAIN methods
    BY <1>2, <1>3, <2>1 DEF CachedIsFound
  <2>2. CASE key \notin DOMAIN methods
    <3>1. i = FindSuitableMethod(n, codes, static)
      BY <1>3, <2>2
    <3>2. Methods[i].static = static
      BY <1>1, <3>1, FoundIsOfKind
    <3> QED
      BY <3>1, <3>2
  <2> QED
    BY <2>1, <2>2
<1> HIDE DEF key, i
<1>5. SUFFICES ASSUME NEW k \in DOMAIN methods'
               PROVE  methods'[k] = FindSuitableMethod(k[1], k[2], Methods[methods'[k]].static)
  BY DEF CachedIsFound
<1>6. k \in DOMAIN methods \cup {key} /\ methods'[k] = IF k = key THEN i ELSE methods[k]
  BY <1>1, <1>5 DEF Cached
<1>7. CASE k = key
  BY <1>2, <1>4, <1>6, <1>7
<1>8. CASE k # key
  BY <1>6, <1>8 DEF CachedIsFound
<1> QED
  BY <1>7, <1>8

(* Nothing else writes to the cache. *)
LEMMA CacheNext == CachedIsFound /\ [Next]_vars => CachedIsFound'
<1> SUFFICES ASSUME CachedIsFound, [Next]_vars PROVE CachedIsFound'
  OBVIOUS
<1>1. CASE UNCHANGED methods
  BY <1>1 DEF CachedIsFound
<1>2. CASE CallStep
  BY <1>2, InvokeCaches DEF CallStep
<1>3. CASE MemberStep
  <2>1. UNCHANGED methods
    BY <1>3 DEF MemberStep, SetMember, GetMember
  <2> QED
    BY <1>1, <2>1
<1> QED
  BY <1>1, <1>2, <1>3 DEF Next, vars, marshalVars

(* TryGetMethodInfo: a call gets from the cache what FindSuitableMethod would have found
   for its name and codes among the methods of one kind, for any overloads. *)
THEOREM CacheAnswersAsLookup == Spec => []CachedIsFound
<1>1. Init => CachedIsFound
  BY DEF Init, CachedIsFound
<1> QED
  BY <1>1, CacheNext, PTL DEF Spec

-----------------------------------------------------------------------------
(* Arguments *)

(* What FindSuitableMethod finds takes as many arguments as there are codes, and has the
   signature or accepts the codes. *)
LEMMA FoundFits ==
  ASSUME NEW n, NEW codes, NEW static, NEW i, i = FindSuitableMethod(n, codes, static), i # 0
  PROVE  /\ i \in DOMAIN Methods
         /\ Len(Methods[i].params) = Len(codes)
         /\ \/ n = Signature(Methods[i])
            \/ \A j \in DOMAIN codes : ParamCode(Methods[i].params[j]) = codes[j]
<1> DEFINE fits == {k \in DOMAIN Methods :
                      LET m == Methods[k] IN
                      /\ m.static = static
                      /\ Len(m.params) = Len(codes)
                      /\ \/ n = Signature(m)
                         \/ n = Name(m) /\ \A j \in DOMAIN codes : ParamCode(m.params[j]) = codes[j]}
<1>1. i = IF fits = {} THEN 0 ELSE CHOOSE k \in fits : \A j \in fits : k <= j
  BY DEF FindSuitableMethod
<1>2. fits # {}
  BY <1>1
<1>3. fits \subseteq Nat
  BY MarshallingAssumption
<1>4. \A k \in fits : /\ k \in DOMAIN Methods
                      /\ Len(Methods[k].params) = Len(codes)
                      /\ \/ n = Signature(Methods[k])
                         \/ \A j \in DOMAIN codes : ParamCode(Methods[k].params[j]) = codes[j]
  OBVIOUS
<1> HIDE DEF fits
<1>5. \E k \in fits : \A j \in fits : k <= j
  BY <1>2, <1>3, FirstExists
<1>6. i \in fits
  BY <1>1, <1>2, <1>5
<1> QED
  BY <1>4, <1>6

(* A call gets a method, cached or not, that FindSuitableMethod found for its codes. *)
LEMMA TriedIsFound ==
  ASSUME CachedIsFound, NEW n, NEW codes, NEW static,
         NEW i, i = TryGetMethodInfo(n, codes, static), i # 0
  PROVE  \E s : i = FindSuitableMethod(n, codes, s)
<1> DEFINE key == MethodKey(n, codes)
<1>1. key[1] = n /\ key[2] = codes
  BY DEF MethodKey
<1>2. i = IF key \in DOMAIN methods THEN methods[key] ELSE FindSuitableMethod(n, codes, static)
  BY DEF TryGetMethodInfo
<1> HIDE DEF key
<1>3. CASE key \in DOMAIN methods
  BY <1>1, <1>2, <1>3 DEF CachedIsFound
<1>4. CASE key \notin DOMAIN methods
  BY <1>2, <1>4
<1> QED
  BY <1>3, <1>4

(* A name is not the signature of a method. *)
LEMMA NameIsNoSignature ==
  ASSUME NEW m PROVE Name(m) # Signature(m)
<1>1. Len(Name(m)) = 1 /\ Len(Signature(m)) = 2
  BY DEF Name, Signature
<1> QED
  BY <1>1

(* Layouts by the code that native types and parameters have. *)
LEMMA CodedLayouts ==
  /\ NativeLayout["uint8_t"] = <<"unsigned", 1>> /\ NativeCodes["uint8_t"] = "Byte"
  /\ NativeLayout["uint16_t"] = <<"unsigned", 2>> /\ NativeCodes["uint16_t"] = "UShort"
  /\ NativeLayout["uint32_t"] = <<"unsigned", 4>> /\ NativeCodes["uint32_t"] = "UInt"
  /\ NativeLayout["uint64_t"] = <<"unsigned", 8>> /\ NativeCodes["uint64_t"] = "ULong"
  /\ NativeLayout["char8_t"] = <<"unsigned", 1>> /\ NativeCodes["char8_t"] = "SByte"
  /\ NativeLayout["int16_t"] = <<"signed", 2>> /\ NativeCodes["int16_t"] = "Short"
  /\ NativeLayout["int32_t"] = <<"signed", 4>> /\ NativeCodes["int32_t"] = "Int"
  /\ NativeLayout["int64_t"] = <<"signed", 8>> /\ NativeCodes["int64_t"] = "Long"
  /\ NativeLayout["float"] = <<"float", 4>> /\ NativeCodes["float"] = "Float"
  /\ NativeLayout["double"] = <<"float", 8>> /\ NativeCodes["double"] = "Double"
  /\ NativeLayout["bool"] = <<"bool", 1>> /\ NativeCodes["bool"] = "Bool"
BY DEF NativeLayout, NativeCodes

LEMMA ParameterLayouts ==
  /\ ManagedLayout["byte"] = <<"unsigned", 1>> /\ type_converters["byte"] = "Byte"
  /\ ManagedLayout["ushort"] = <<"unsigned", 2>> /\ type_converters["ushort"] = "UShort"
  /\ ManagedLayout["uint"] = <<"unsigned", 4>> /\ type_converters["uint"] = "UInt"
  /\ ManagedLayout["ulong"] = <<"unsigned", 8>> /\ type_converters["ulong"] = "ULong"
  /\ ManagedLayout["sbyte"] = <<"signed", 1>> /\ type_converters["sbyte"] = "SByte"
  /\ ManagedLayout["short"] = <<"signed", 2>> /\ type_converters["short"] = "Short"
  /\ ManagedLayout["int"] = <<"signed", 4>> /\ type_converters["int"] = "Int"
  /\ ManagedLayout["long"] = <<"signed", 8>> /\ type_converters["long"] = "Long"
  /\ ManagedLayout["float"] = <<"float", 4>> /\ type_converters["float"] = "Float"
  /\ ManagedLayout["double"] = <<"float", 8>> /\ type_converters["double"] = "Double"
  /\ ManagedLayout["bool"] = <<"bool", 1>> /\ type_converters["bool"] = "Bool"
  /\ ManagedLayout["NBool32"] = <<"unsigned", 4>> /\ type_converters["NBool32"] = "Bool"
BY DEF ManagedLayout, type_converters

(* A parameter of the layout of the argument gets its value. *)
LEMMA SameLayoutArrives ==
  ASSUME NEW t, NEW p, p \notin Addresses, ManagedLayout[p] = NativeLayout[t],
         NEW kind \in {"unsigned", "signed", "float", "bool"}, NEW bytes \in Nat,
         NativeLayout[t] = <<kind, bytes>>
  PROVE  MarshalPointer(t, p) = "value"
<1> DEFINE have == NativeLayout[t]
           want == ManagedLayout[p]
<1>1. MarshalPointer(t, p) =
        IF p \in Addresses THEN IF t = "pointer" THEN "value" ELSE "beyond"
        ELSE IF want[2] > have[2] THEN "beyond"
        ELSE IF {have[1], want[1]} = {"array"} THEN IF MarshalArray(t, p) THEN "value" ELSE "bits"
        ELSE IF want = have \/ {have[1], want[1]} = {"object"} THEN "value"
        ELSE IF want[2] = have[2] THEN "bits" ELSE "part"
  BY DEF MarshalPointer
<1>2. want = have /\ have[1] = kind /\ have[2] = bytes /\ want[1] = kind /\ want[2] = bytes
  OBVIOUS
<1> HIDE DEF have, want
<1>3. ~(want[2] > have[2])
  BY <1>2
<1>4. {have[1], want[1]} # {"array"}
  BY <1>2
<1> QED
  BY <1>1, <1>2, <1>3, <1>4

(* The tables agree: an argument and a parameter with one code have one layout, but for
   the two exceptions. *)
LEMMA CodesAgree ==
  ASSUME NEW a \in Arguments, NEW p \in DOMAIN ManagedLayout,
         GetManagedType(a) = ParamCode(p), GetManagedType(a) # "Unknown",
         MarshalPointer(a.type, p) # "value"
  PROVE  <<a.type, p>> \in {<<"bool", "NBool32">>, <<"char8_t", "sbyte">>}
<1> DEFINE t == a.type
<1>1. CASE t = "pointer"
  <2>1. ParamCode(p) = "Pointer"
    BY <1>1 DEF GetManagedType
  <2>2. p \in Addresses
    <3> SUFFICES ASSUME p \notin Addresses PROVE FALSE
      OBVIOUS
    <3>1. p \in DOMAIN type_converters /\ type_converters[p] = "Pointer"
      BY <2>1 DEF ParamCode
    <3> QED
      BY <3>1 DEF type_converters
  <2> QED
    BY <1>1, <2>2 DEF MarshalPointer
<1>2. CASE t # "pointer"
  <2>1. t \in DOMAIN NativeCodes /\ GetManagedType(a) = NativeCodes[t]
    BY <1>2 DEF GetManagedType
  <2>2. t \in {"uint8_t", "uint16_t", "uint32_t", "uint64_t", "char8_t", "int16_t", "int32_t",
               "int64_t", "float", "double", "bool"}
    BY <2>1 DEF NativeCodes
  <2>3. NativeCodes[t] # "Pointer"
    BY <2>2, CodedLayouts
  <2>4. p \notin Addresses /\ p \in DOMAIN type_converters /\ type_converters[p] = NativeCodes[t]
    BY <2>1, <2>3 DEF ParamCode
  <2>5. p \in {"sbyte", "byte", "short", "ushort", "int", "uint", "long", "ulong", "float",
               "double", "bool", "NBool32"}
    BY <2>4 DEF type_converters
  <2>6. ASSUME ManagedLayout[p] = NativeLayout[t] PROVE FALSE
    <3>1. PICK kind \in {"unsigned", "signed", "float", "bool"}, bytes \in Nat :
             NativeLayout[t] = <<kind, bytes>>
      BY <2>2, CodedLayouts
    <3> QED
      BY <2>4, <2>6, <3>1, SameLayoutArrives
  <2> HIDE DEF t
  <2>7. CASE t \in {"uint8_t", "uint16_t", "uint32_t", "uint64_t"}
    <3>1. /\ t = "uint8_t" => p = "byte"
          /\ t = "uint16_t" => p = "ushort"
          /\ t = "uint32_t" => p = "uint"
          /\ t = "uint64_t" => p = "ulong"
      BY <2>4, <2>5, CodedLayouts, ParameterLayouts
    <3> QED
      <4>1. CASE t = "uint8_t"
        BY <2>6, <3>1, <4>1, CodedLayouts, ParameterLayouts
      <4>2. CASE t = "uint16_t"
        BY <2>6, <3>1, <4>2, CodedLayouts, ParameterLayouts
      <4>3. CASE t = "uint32_t"
        BY <2>6, <3>1, <4>3, CodedLayouts, ParameterLayouts
      <4>4. CASE t = "uint64_t"
        BY <2>6, <3>1, <4>4, CodedLayouts, ParameterLayouts
      <4> QED
        BY <2>7, <4>1, <4>2, <4>3, <4>4
  <2>8. CASE t \in {"int16_t", "int32_t", "int64_t"}
    <3>1. /\ t = "int16_t" => p = "short"
          /\ t = "int32_t" => p = "int"
          /\ t = "int64_t" => p = "long"
      BY <2>4, <2>5, CodedLayouts, ParameterLayouts
    <3> QED
      <4>1. CASE t = "int16_t"
        BY <2>6, <3>1, <4>1, CodedLayouts, ParameterLayouts
      <4>2. CASE t = "int32_t"
        BY <2>6, <3>1, <4>2, CodedLayouts, ParameterLayouts
      <4>3. CASE t = "int64_t"
        BY <2>6, <3>1, <4>3, CodedLayouts, ParameterLayouts
      <4> QED
        BY <2>8, <4>1, <4>2, <4>3
  <2>9. CASE t \in {"float", "double"}
    <3>1. /\ t = "float" => p = "float"
          /\ t = "double" => p = "double"
      BY <2>4, <2>5, CodedLayouts, ParameterLayouts
    <3> QED
      BY <2>6, <2>9, <3>1, CodedLayouts, ParameterLayouts
  <2>10. CASE t = "char8_t"
    <3>1. p = "sbyte"
      BY <2>4, <2>5, <2>10, CodedLayouts, ParameterLayouts
    <3> QED
      BY <2>10, <3>1 DEF t
  <2>11. CASE t = "bool"
    <3>1. p = "bool" \/ p = "NBool32"
      BY <2>4, <2>5, <2>11, CodedLayouts, ParameterLayouts
    <3> QED
      BY <2>6, <2>11, <3>1, CodedLayouts, ParameterLayouts DEF t
  <2> QED
    BY <2>2, <2>7, <2>8, <2>9, <2>10, <2>11
<1> QED
  BY <1>1, <1>2

(* Fields keep what has their layout or, as bits, their size. *)
FieldsKept ==
  /\ DOMAIN field = Fields
  /\ \A f \in Fields : field[f].type # "none" =>
        field[f].type \in DOMAIN NativeLayout /\ Keeps(field[f].type, FieldType[f])

(* The size of a native variable is that of its layout, unless it is a pointer. *)
LEMMA NativeShapes ==
  ASSUME NEW t \in DOMAIN NativeLayout
  PROVE  /\ NativeLayout[t][2] \in Nat
         /\ t # "pointer" => Bytes(t) = NativeLayout[t][2]
         /\ t = "pointer" => Bytes(t) = 8 /\ NativeLayout[t] = <<"pointee", 0>>
<1>1. t \in {"char8_t", "uint8_t", "int8_t", "uint16_t", "int16_t", "uint32_t", "int32_t",
             "uint64_t", "int64_t", "float", "double", "bool", "NString", "HostedObject",
             "int32_ts", "bools", "objects", "pointer"}
  BY DEF NativeLayout
<1>2. t \in {"char8_t", "uint8_t", "int8_t", "uint16_t", "int16_t", "uint32_t", "int32_t",
             "uint64_t", "int64_t"} => NativeLayout[t][2] \in Nat
  BY DEF NativeLayout
<1>3. t \in {"float", "double", "bool", "NString", "HostedObject", "int32_ts", "bools",
             "objects", "pointer"} => NativeLayout[t][2] \in Nat
  BY DEF NativeLayout
<1>4. NativeLayout["pointer"] = <<"pointee", 0>>
  BY DEF NativeLayout
<1> QED
  BY <1>1, <1>2, <1>3, <1>4 DEF Bytes

(* The types whose values come back have the size of their layout, and none is empty. *)
LEMMA ReturnableShapes ==
  ASSUME NEW p \in DOMAIN ManagedLayout \ ({"pointer", "class", "bool"} \cup DOMAIN ManagedElement)
  PROVE  /\ SizeOf(p) = ManagedLayout[p][2]
         /\ ManagedLayout[p][2] \in Nat \ {0}
         /\ ManagedLayout[p][1] \notin {"array", "object"}
         /\ p \in Addresses => ManagedLayout[p][2] = 8
<1>1. p \in {"sbyte", "byte", "ushort", "short", "uint", "int", "ulong", "long", "float",
             "double", "NBool32", "string", "NString", "IntPtr"}
  BY DEF ManagedLayout, ManagedElement
<1>2. CASE p \in {"sbyte", "byte", "ushort", "short", "uint", "int", "ulong", "long"}
  BY <1>2 DEF SizeOf, ManagedLayout, Addresses
<1>3. CASE p \in {"float", "double", "NBool32", "string", "NString", "IntPtr"}
  BY <1>3 DEF SizeOf, ManagedLayout, Addresses
<1> QED
  BY <1>1, <1>2, <1>3

(* What a field keeps comes back, for all types but pointers, objects, bools and arrays:
   it has the size of the field. *)
LEMMA ReturnsKept ==
  ASSUME NEW t \in DOMAIN NativeLayout, NEW p \in DOMAIN ManagedLayout, Keeps(t, p),
         MarshalReturn(p, t) # "value"
  PROVE  p \in {"pointer", "class", "bool"} \cup DOMAIN ManagedElement
<1> SUFFICES ASSUME p \notin {"pointer", "class", "bool"} \cup DOMAIN ManagedElement
             PROVE  FALSE
  OBVIOUS
<1> DEFINE have == NativeLayout[t]
           want == ManagedLayout[p]
<1>1. MarshalPointer(t, p) =
        IF p \in Addresses THEN IF t = "pointer" THEN "value" ELSE "beyond"
        ELSE IF want[2] > have[2] THEN "beyond"
        ELSE IF {have[1], want[1]} = {"array"} THEN IF MarshalArray(t, p) THEN "value" ELSE "bits"
        ELSE IF want = have \/ {have[1], want[1]} = {"object"} THEN "value"
        ELSE IF want[2] = have[2] THEN "bits" ELSE "part"
  BY DEF MarshalPointer
<1>2. MarshalPointer(t, p) \in {"value", "bits"}
  BY DEF Keeps
<1>3. /\ SizeOf(p) = want[2] /\ want[2] \in Nat \ {0}
      /\ want[1] \notin {"array", "object"}
      /\ p \in Addresses => want[2] = 8
  BY ReturnableShapes
<1>4. /\ have[2] \in Nat
      /\ t # "pointer" => Bytes(t) = have[2]
      /\ t = "pointer" => Bytes(t) = 8 /\ have = <<"pointee", 0>>
  BY NativeShapes
<1> HIDE DEF have, want
<1>5. Bytes(t) = SizeOf(p)
  <2>1. CASE p \in Addresses
    <3>1. t = "pointer"
      BY <1>1, <1>2, <2>1
    <3> QED
      BY <1>3, <1>4, <2>1, <3>1
  <2>2. CASE p \notin Addresses
    <3>1. {have[1], want[1]} # {"array"} /\ {have[1], want[1]} # {"object"}
      BY <1>3
    <3>2. want[2] = have[2]
      BY <1>1, <1>2, <2>2, <3>1
    <3>3. t # "pointer"
      BY <1>3, <1>4, <3>2
    <3> QED
      BY <1>3, <1>4, <3>2, <3>3
  <2> QED
    BY <2>1, <2>2
<1>6. ~(SizeOf(p) > Bytes(t)) /\ ~(SizeOf(p) < Bytes(t))
  BY <1>3, <1>5
<1> QED
  BY <1>6 DEF MarshalReturn

(* All that the calls and the fields keep to, with the strings and the cache. *)
MarshalInv ==
  /\ TypeOK
  /\ StringsIInv
  /\ CachedIsFound
  /\ FieldsKept
  /\ ArgumentsArrive
  /\ ReadsBackWrites

LEMMA MarshalInitInv == Init => MarshalInv
<1> SUFFICES ASSUME Init PROVE MarshalInv
  OBVIOUS
<1>1. StringsIInv
  BY StringsInitIInv
<1>2. /\ methods = <<>>
      /\ misread = {}
      /\ field = [f \in Fields |-> Unwritten]
      /\ lost = {}
  BY DEF Init
<1>3. CachedIsFound
  BY <1>2 DEF CachedIsFound
<1>4. FieldsKept
  BY <1>2 DEF FieldsKept, Unwritten
<1>5. ArgumentsArrive /\ ReadsBackWrites
  BY <1>2 DEF ArgumentsArrive, ReadsBackWrites
<1>6. DOMAIN methods = {}
  BY <1>2
<1>7. \A f \in Fields : field[f] = Unwritten
  BY <1>2
<1>8. \A f \in Fields : field[f].type = "none" /\ field[f].block = None
  BY <1>7 DEF Unwritten
<1>9. TypeOK
  BY <1>1, <1>2, <1>6, <1>8 DEF TypeOK, StringsIInv
<1> QED
  BY <1>1, <1>3, <1>4, <1>5, <1>9 DEF MarshalInv

(* A call reads its arguments as what they are. *)
LEMMA InvokeArrives ==
  ASSUME MarshalInv, NEW n \in Names, NEW c \in Nat, NEW args \in [1..c -> Arguments],
         NEW static, Invoke(n, args, static)
  PROVE  /\ ArgumentsArrive'
         /\ \A r \in misread' : r[1] \in DOMAIN NativeLayout /\ r[2] \in DOMAIN ManagedLayout
         /\ \A k \in DOMAIN methods' : /\ k[1] \in Names
                                       /\ Len(k[2]) = Len(Methods[methods'[k]].params)
<1> DEFINE codes == [j \in DOMAIN args |-> GetManagedType(args[j])]
           key == MethodKey(n, codes)
           i == TryGetMethodInfo(n, codes, static)
           m == Methods[i]
<1>1. i # 0 /\ methods' = Cached(key, i) /\ MarshalParameterArray(n, args, m)
  BY DEF Invoke
<1>2. /\ DOMAIN args = 1..c
      /\ DOMAIN codes = 1..c
      /\ Len(codes) = c
      /\ \A j \in 1..c : codes[j] = GetManagedType(args[j]) /\ args[j] \in Arguments
  OBVIOUS
<1> HIDE DEF codes
<1>3. CachedIsFound
  BY DEF MarshalInv
<1>4. key[1] = n /\ key[2] = codes
  BY DEF MethodKey
<1>5. PICK s : i = FindSuitableMethod(n, codes, s)
  BY <1>1, <1>3, TriedIsFound
<1> HIDE DEF i, key
<1>6. /\ i \in DOMAIN Methods
      /\ Len(m.params) = Len(codes)
      /\ \/ n = Signature(m)
         \/ \A j \in DOMAIN codes : ParamCode(m.params[j]) = codes[j]
  BY <1>1, <1>5, FoundFits
<1>7. m.params \in Seq(DOMAIN ManagedLayout)
  <2> DEFINE R == [name : STRING, params : Seq(DOMAIN ManagedLayout), static : BOOLEAN,
                   returns : DOMAIN ManagedLayout \cup {"void"}]
  <2>1. Methods \in Seq(R)
    BY MarshallingAssumption
  <2>2. \A r \in R : r.params \in Seq(DOMAIN ManagedLayout)
    OBVIOUS
  <2> HIDE DEF R
  <2>3. m \in R
    BY <1>6, <2>1
  <2> QED
    BY <2>2, <2>3
<1> HIDE DEF m
<1>8. \A j \in 1..c : m.params[j] \in DOMAIN ManagedLayout
  BY <1>2, <1>6, <1>7
<1>9. \A a \in Arguments : a.type \in DOMAIN NativeLayout
  BY MarshallingAssumption
<1>10. ASSUME NEW r \in misread', r \notin misread
       PROVE  /\ r \in {<<"bool", "NBool32">>, <<"char8_t", "sbyte">>}
              /\ r[1] \in DOMAIN NativeLayout /\ r[2] \in DOMAIN ManagedLayout
  <2>1. PICK j \in DOMAIN args : /\ r = <<args[j].type, m.params[j]>>
                                 /\ n = Name(m)
                                 /\ GetManagedType(args[j]) # "Unknown"
                                 /\ MarshalPointer(args[j].type, m.params[j]) # "value"
    BY <1>1, <1>10 DEF MarshalParameterArray
  <2>2. n # Signature(m)
    BY <2>1, NameIsNoSignature
  <2>3. GetManagedType(args[j]) = ParamCode(m.params[j])
    BY <1>2, <1>6, <2>2
  <2>4. args[j] \in Arguments /\ m.params[j] \in DOMAIN ManagedLayout
    BY <1>2, <1>8
  <2>5. r \in {<<"bool", "NBool32">>, <<"char8_t", "sbyte">>}
    BY <2>1, <2>3, <2>4, CodesAgree
  <2>6. r[1] = args[j].type /\ r[2] = m.params[j]
    BY <2>1
  <2> QED
    BY <1>9, <2>4, <2>5, <2>6
<1>11. ArgumentsArrive'
  BY <1>10 DEF MarshalInv, ArgumentsArrive
<1>12. \A r \in misread' : r[1] \in DOMAIN NativeLayout /\ r[2] \in DOMAIN ManagedLayout
  BY <1>10 DEF MarshalInv, TypeOK
<1>13. ASSUME NEW k \in DOMAIN methods'
       PROVE  k[1] \in Names /\ Len(k[2]) = Len(Methods[methods'[k]].params)
  <2>1. k \in DOMAIN methods \cup {key} /\ methods'[k] = IF k = key THEN i ELSE methods[k]
    BY <1>1, <1>13 DEF Cached
  <2>2. CASE k = key
    BY <1>4, <1>6, <2>1, <2>2 DEF m
  <2>3. CASE k # key
    BY <2>1, <2>3 DEF MarshalInv, TypeOK
  <2> QED
    BY <2>2, <2>3
<1> QED
  BY <1>11, <1>12, <1>13

(* A call keeps the invariant. *)
LEMMA InvokeInv ==
  ASSUME MarshalInv, NEW n \in Names, NEW c \in Nat, NEW args \in [1..c -> Arguments],
         NEW static \in BOOLEAN, Invoke(n, args, static)
  PROVE  MarshalInv'
<1>1. UNCHANGED <<field, lost>>
  BY DEF Invoke
<1>2. StringsIInv' /\ CachedIsFound'
  BY InvokeOwned, InvokeCaches DEF MarshalInv
<1>3. /\ ArgumentsArrive'
      /\ \A r \in misread' : r[1] \in DOMAIN NativeLayout /\ r[2] \in DOMAIN ManagedLayout
      /\ \A k \in DOMAIN methods' : /\ k[1] \in Names
                                    /\ Len(k[2]) = Len(Methods[methods'[k]].params)
  BY InvokeArrives
<1>4. FieldsKept' /\ ReadsBackWrites'
  BY <1>1 DEF MarshalInv, FieldsKept, ReadsBackWrites
<1>5. /\ StringsTypeOK'
      /\ \A f \in Fields : field'[f].type \in DOMAIN NativeLayout \cup {"none"}
                           /\ field'[f].block \in Blocks \cup {None}
      /\ lost' \subseteq DOMAIN ManagedLayout
  BY <1>1, <1>2 DEF MarshalInv, TypeOK, StringsIInv
<1>6. TypeOK'
  BY <1>1, <1>3, <1>5 DEF TypeOK
<1> QED
  BY <1>2, <1>3, <1>4, <1>6 DEF MarshalInv

(* A field keeps a value only if it keeps its bits. *)
LEMMA SetMemberInv ==
  ASSUME MarshalInv, NEW f \in Fields, NEW t \in Results, SetMember(f, t)
  PROVE  MarshalInv'
<1>1. UNCHANGED <<methods, misread, lost>>
  BY DEF SetMember
<1>2. StringsIInv'
  BY SetMemberOwned DEF MarshalInv
<1>3. PICK b : field' = [field EXCEPT ![f] = IF Keeps(t, FieldType[f])
                                             THEN [type |-> t, block |-> b] ELSE Unwritten]
  <2>1. CASE t = "NString" /\ FieldType[f] = "NString"
    BY <2>1 DEF SetMember
  <2>2. CASE ~(t = "NString" /\ FieldType[f] = "NString")
    BY <2>2 DEF SetMember
  <2> QED
    BY <2>1, <2>2
<1>4. DOMAIN field = Fields /\ DOMAIN field' = Fields
  BY <1>3 DEF MarshalInv, FieldsKept
<1>5. t \in DOMAIN NativeLayout
  BY MarshallingAssumption
<1>6. ASSUME NEW g \in Fields
      PROVE  /\ field'[g].type # "none" => /\ field'[g].type \in DOMAIN NativeLayout
                                           /\ Keeps(field'[g].type, FieldType[g])
  <2>1. CASE g = f /\ Keeps(t, FieldType[f])
    <3>1. field'[g] = [type |-> t, block |-> b]
      BY <1>3, <1>4, <2>1
    <3> QED
      BY <1>5, <2>1, <3>1
  <2>2. CASE g = f /\ ~Keeps(t, FieldType[f])
    <3>1. field'[g] = Unwritten
      BY <1>3, <1>4, <2>2
    <3> QED
      BY <3>1 DEF Unwritten
  <2>3. CASE g # f
    <3>1. field'[g] = field[g]
      BY <1>3, <1>4, <2>3
    <3> QED
      BY <3>1 DEF MarshalInv, FieldsKept
  <2> QED
    BY <2>1, <2>2, <2>3
<1>7. FieldsKept'
  BY <1>4, <1>6 DEF FieldsKept
<1>8. CachedIsFound' /\ ArgumentsArrive' /\ ReadsBackWrites'
  BY <1>1 DEF MarshalInv, CachedIsFound, ArgumentsArrive, ReadsBackWrites
<1>9. TypeOK'
  BY <1>1, <1>2, <1>6 DEF MarshalInv, TypeOK, StringsIInv
<1> QED
  BY <1>2, <1>7, <1>8, <1>9 DEF MarshalInv

(* What is read from a field is what was written. *)
LEMMA GetMemberInv ==
  ASSUME MarshalInv, NEW f \in Fields, NEW t \in Results, GetMember(f, t)
  PROVE  MarshalInv'
<1> DEFINE p == FieldType[f]
<1>1. UNCHANGED <<methods, misread, field>>
  BY DEF GetMember
<1>2. StringsIInv'
  BY GetMemberOwned DEF MarshalInv
<1>3. lost' = IF field[f].type = t /\ MarshalReturn(p, t) # "value"
              THEN lost \cup {p} ELSE lost
  BY DEF GetMember
<1>4. t \in DOMAIN NativeLayout /\ p \in DOMAIN ManagedLayout /\ "none" \notin DOMAIN NativeLayout
  BY MarshallingAssumption DEF NativeLayout
<1> HIDE DEF p
<1>5. ASSUME field[f].type = t, MarshalReturn(p, t) # "value"
      PROVE  p \in {"pointer", "class", "bool"} \cup DOMAIN ManagedElement
  <2>1. Keeps(t, p)
    BY <1>4, <1>5 DEF MarshalInv, FieldsKept, p
  <2> QED
    BY <1>4, <1>5, <2>1, ReturnsKept
<1>6. ReadsBackWrites'
  BY <1>3, <1>5 DEF MarshalInv, ReadsBackWrites
<1>7. lost' \subseteq DOMAIN ManagedLayout
  BY <1>3, <1>4 DEF MarshalInv, TypeOK
<1>8. CachedIsFound' /\ ArgumentsArrive' /\ FieldsKept'
  BY <1>1 DEF MarshalInv, CachedIsFound, ArgumentsArrive, FieldsKept
<1>9. TypeOK'
  BY <1>1, <1>2, <1>7 DEF MarshalInv, TypeOK, StringsIInv
<1> QED
  BY <1>2, <1>6, <1>8, <1>9 DEF MarshalInv

LEMMA MarshalNextInv == MarshalInv /\ [Next]_vars => MarshalInv'
<1> SUFFICES ASSUME MarshalInv, [Next]_vars PROVE MarshalInv'
  OBVIOUS
<1>1. StringsIInv'
  BY StringsNextIInv DEF MarshalInv
<1>2. ASSUME UNCHANGED marshalVars PROVE MarshalInv'
  <2>1. TypeOK'
    BY <1>1, <1>2 DEF marshalVars, MarshalInv, TypeOK, StringsIInv
  <2>2. CachedIsFound' /\ FieldsKept' /\ ArgumentsArrive' /\ ReadsBackWrites'
    BY <1>2 DEF marshalVars, MarshalInv, CachedIsFound, FieldsKept, ArgumentsArrive, ReadsBackWrites
  <2> QED
    BY <1>1, <2>1, <2>2 DEF MarshalInv
<1>3. CASE CallStep
  <2>1. PICK n \in Names, c \in 0..MaxArgs, static \in BOOLEAN :
          \E args \in [1..c -> Arguments] : Invoke(n, args, static)
    BY <1>3 DEF CallStep
  <2>2. PICK args \in [1..c -> Arguments] : Invoke(n, args, static)
    BY <2>1
  <2>3. c \in Nat
    BY <2>1, MarshallingAssumption
  <2> QED
    BY <2>2, <2>3, InvokeInv
<1>4. CASE MemberStep
  BY <1>4, SetMemberInv, GetMemberInv DEF MemberStep
<1> QED
  BY <1>2, <1>3, <1>4 DEF Next, vars

LEMMA SpecMarshalInv == Spec => []MarshalInv
BY MarshalInitInv, MarshalNextInv, PTL DEF Spec

(* The types of all variables. *)
THEOREM MarshallingTyping == Spec => []TypeOK
<1>1. MarshalInv => TypeOK
  BY DEF MarshalInv
<1> QED
  BY SpecMarshalInv, <1>1, PTL

(* GetManagedType, type_converters and MarshalPointer agree on every argument that is
   accepted by its code, for any overloads, through the cache or not. *)
THEOREM ArgumentsAreRead == Spec => []ArgumentsArrive
<1>1. MarshalInv => ArgumentsArrive
  BY DEF MarshalInv
<1> QED
  BY SpecMarshalInv, <1>1, PTL

(* A field gives back what was written to it to a read with the same native type, for any
   fields and any native types, unless the field is a pointer, an object, a bool or an
   array. *)
THEOREM WritesAreReadBack == Spec => []ReadsBackWrites
<1>1. MarshalInv => ReadsBackWrites
  BY DEF MarshalInv
<1> QED
  BY SpecMarshalInv, <1>1, PTL
=============================================================================
