----------------------------- MODULE Marshalling -----------------------------
(***************************************************************************)
(* Values on their way between C++ and .NET: the codes that native calls   *)
(* attach to their arguments (core/utilities.hpp), the choice of a method  *)
(* by those codes and the cache of the choices (InteropInterface.cs,       *)
(* ManagedObject.cs), and what is read and written at the addresses passed *)
(* (Marshalling.cs).  The calls are those of one hosted object and its     *)
(* type; that the object exists is a matter of AssemblyLoader.             *)
(*                                                                         *)
(* A value has no bits here: what can go wrong with it shows in the layout *)
(* <<kind, bytes>> of its type on either side, on a 64-bit platform where  *)
(* long is int32_t or int64_t.                                             *)
(***************************************************************************)
EXTENDS NativeStrings, Naturals, Sequences, FiniteSets

CONSTANTS
  Names,        \* the names that calls give, Name or Signature of a method
  Methods,      \* the methods of the type and its bases in the order of reflection:
                \* records of name, params, static and returns
  Arguments,    \* the arguments that calls pass: records of type and lvalue
  Results,      \* the types of the variables that calls return into
  FieldType,    \* FieldType[f]: the type of field f; a property is its backing field
  MaxArgs,      \* bound on the arguments of a call
  MaxCached,    \* bound on the cached methods
  MaxWritten    \* bound on the fields that keep what was written

Fields == DOMAIN FieldType

(* Types on the native side.  int32_ts, bools and objects are structs of a pointer to
   elements and their number; a layout with 0 bytes says nothing of what is pointed at. *)
NativeLayout ==
  [char8_t |-> <<"unsigned", 1>>, uint8_t |-> <<"unsigned", 1>>, int8_t |-> <<"signed", 1>>,
   uint16_t |-> <<"unsigned", 2>>, int16_t |-> <<"signed", 2>>,
   uint32_t |-> <<"unsigned", 4>>, int32_t |-> <<"signed", 4>>,
   uint64_t |-> <<"unsigned", 8>>, int64_t |-> <<"signed", 8>>,
   float |-> <<"float", 4>>, double |-> <<"float", 8>>, bool |-> <<"bool", 1>>,
   NString |-> <<"string", 16>>, HostedObject |-> <<"object", 16>>,
   int32_ts |-> <<"array", 16>>, bools |-> <<"array", 16>>, objects |-> <<"array", 16>>,
   pointer |-> <<"pointee", 0>>]

(* Types on the managed side, as MarshalPointer reads them. *)
ManagedLayout ==
  [sbyte |-> <<"signed", 1>>, byte |-> <<"unsigned", 1>>,
   ushort |-> <<"unsigned", 2>>, short |-> <<"signed", 2>>,
   uint |-> <<"unsigned", 4>>, int |-> <<"signed", 4>>,
   ulong |-> <<"unsigned", 8>>, long |-> <<"signed", 8>>,
   float |-> <<"float", 4>>, double |-> <<"float", 8>>,
   bool |-> <<"bool", 1>>, NBool32 |-> <<"unsigned", 4>>,
   string |-> <<"string", 16>>, NString |-> <<"string", 16>>, class |-> <<"object", 8>>,
   int_array |-> <<"array", 16>>, bool_array |-> <<"array", 16>>, class_array |-> <<"array", 16>>,
   pointer |-> <<"address", 8>>, IntPtr |-> <<"address", 8>>]

Addresses == {"pointer", "IntPtr"}
NativeElement == [int32_ts |-> "int32_t", bools |-> "bool", objects |-> "HostedObject"]
ManagedElement == [int_array |-> "int", bool_array |-> "bool", class_array |-> "class"]

(* The bytes of a native variable; Marshal.SizeOf, which takes a bool for a BOOL. *)
Bytes(t) == IF t = "pointer" THEN 8 ELSE NativeLayout[t][2]
SizeOf(p) == IF p = "bool" THEN 4 ELSE ManagedLayout[p][2]

ASSUME MarshallingAssumption ==
  /\ Methods \in Seq([name : STRING, params : Seq(DOMAIN ManagedLayout), static : BOOLEAN,
                      returns : DOMAIN ManagedLayout \cup {"void"}])
  /\ Arguments \subseteq [type : DOMAIN NativeLayout, lvalue : BOOLEAN]
  /\ Results \subseteq DOMAIN NativeLayout
  /\ FieldType \in [Fields -> DOMAIN ManagedLayout]
  /\ MaxArgs \in Nat /\ MaxCached \in Nat /\ MaxWritten \in Nat

VARIABLES
  methods,    \* <<name, codes>> -> the method that is cached for them
  misread,    \* <<t, p>>: an argument of native type t that was accepted for a parameter
              \* of type p by its code, and did not arrive
  field,      \* field -> the native type whose value it keeps, or "none", and if it is an
              \* NString the block that it points to
  lost        \* types of fields that kept a value, were read with the native type it was
              \* written with, and did not give it back

marshalVars == <<methods, misread, field, lost>>
vars == <<strVars, marshalVars>>

Unwritten == [type |-> "none", block |-> None]

Init ==
  /\ StringsInit
  /\ methods = <<>>
  /\ misread = {}
  /\ field = [f \in Fields |-> Unwritten]
  /\ lost = {}

(* Once memory is corrupted nothing is known of the process. *)
Running == ~corrupted

-----------------------------------------------------------------------------
(* Codes and the choice of a method *)

(* util::GetManagedType: an lvalue argument deduces a reference, which is none of the
   types that have a code. *)
NativeCodes ==
  [uint8_t |-> "Byte", uint16_t |-> "UShort", uint32_t |-> "UInt", uint64_t |-> "ULong",
   char8_t |-> "SByte", int16_t |-> "Short", int32_t |-> "Int", int64_t |-> "Long",
   float |-> "Float", double |-> "Double", bool |-> "Bool"]

GetManagedType(a) ==
  IF a.type = "pointer" THEN "Pointer"
  ELSE IF ~a.lvalue /\ a.type \in DOMAIN NativeCodes THEN NativeCodes[a.type]
  ELSE "Unknown"

(* InteropInterface.type_converters.  Mutation: int and uint are exchanged. *)
TypeConvertersSwapped ==
  [sbyte |-> "SByte", byte |-> "Byte", short |-> "Short", ushort |-> "UShort",
   int |-> "UInt", uint |-> "Int", long |-> "Long", ulong |-> "ULong",
   float |-> "Float", double |-> "Double", bool |-> "Bool", NBool32 |-> "Bool"]

type_converters ==
  [sbyte |-> "SByte", byte |-> "Byte", short |-> "Short", ushort |-> "UShort",
   int |-> "Int", uint |-> "UInt", long |-> "Long", ulong |-> "ULong",
   float |-> "Float", double |-> "Double", bool |-> "Bool", NBool32 |-> "Bool"]

ParamCode(p) ==
  IF p \in Addresses THEN "Pointer"
  ELSE IF p \in DOMAIN type_converters THEN type_converters[p] ELSE "Unknown"

(* A name and the string that MethodInfo.ToString makes; a call may give either. *)
Name(m) == <<m.name>>
Signature(m) == <<m.name, m.params>>

(* Mutation of FindSuitableMethod: the number of arguments is not compared. *)
FindSuitableMethodAnyArity(n, codes, static) ==
  LET fits == {i \in DOMAIN Methods :
                 /\ Methods[i].static = static
                 /\ n = Name(Methods[i])
                 /\ \A j \in DOMAIN codes : ParamCode(Methods[i].params[j]) = codes[j]}
  IN IF fits = {} THEN 0 ELSE CHOOSE i \in fits : \A j \in fits : i <= j

(* FindSuitableMethod: the first method of the kind that has the signature, or the name
   and the codes; a signature is not compared with the codes. *)
FindSuitableMethod(n, codes, static) ==
  LET fits == {i \in DOMAIN Methods :
                 LET m == Methods[i] IN
                 /\ m.static = static
                 /\ Len(m.params) = Len(codes)
                 /\ \/ n = Signature(m)
                    \/ n = Name(m) /\ \A j \in DOMAIN codes : ParamCode(m.params[j]) = codes[j]}
  IN IF fits = {} THEN 0 ELSE CHOOSE i \in fits : \A j \in fits : i <= j

(* MethodKey.  Mutation: the types of the arguments are not compared. *)
MethodKeyCount(n, codes) == <<n, [j \in DOMAIN codes |-> "Unknown"]>>

MethodKey(n, codes) == <<n, codes>>

(* TryGetMethodInfo: the cached method, of either kind, or the one that is found. *)
TryGetMethodInfo(n, codes, static) ==
  LET key == MethodKey(n, codes)
  IN IF key \in DOMAIN methods THEN methods[key] ELSE FindSuitableMethod(n, codes, static)

Cached(key, i) == [k \in DOMAIN methods \cup {key} |-> IF k = key THEN i ELSE methods[k]]

-----------------------------------------------------------------------------
(* Values *)

(* Array elements: values are read SizeOf apart, objects as HostedObjects. *)
MarshalArray(t, p) ==
  LET e == NativeElement[t]
      q == ManagedElement[p]
  IN IF q = "class" THEN e = "HostedObject"
     ELSE NativeLayout[e][1] = ManagedLayout[q][1] /\ Bytes(e) = SizeOf(q)

(* DotOtherMarshal.MarshalPointer of a parameter of type p, given the address of a
   variable of type t, or the pointer itself if t is one: "value", "bits" that mean
   something else, a part of them ("part"), or bytes that are not of the variable
   ("beyond"). *)
MarshalPointer(t, p) ==
  LET have == NativeLayout[t]
      want == ManagedLayout[p]
  IN IF p \in Addresses THEN IF t = "pointer" THEN "value" ELSE "beyond"
     ELSE IF want[2] > have[2] THEN "beyond"
     ELSE IF {have[1], want[1]} = {"array"} THEN IF MarshalArray(t, p) THEN "value" ELSE "bits"
     ELSE IF want = have \/ {have[1], want[1]} = {"object"} THEN "value"
     ELSE IF want[2] = have[2] THEN "bits" ELSE "part"

(* DotOtherMarshal.MarshalReturn of a value of type p into a variable of type t.  A
   boxed pointer is no IntPtr, an object has no size and a bool cannot be pinned: all
   three throw.  CopyArrayToBuffer copies the address of its buffer for each element.
   Mutation: strings are pinned like the rest. *)
MarshalReturnPinned(p, t) ==
  IF p \in {"pointer", "class", "bool", "string"} THEN "throws"
  ELSE IF p \in DOMAIN ManagedElement THEN "bits"
  ELSE CASE SizeOf(p) > Bytes(t) -> "beyond"
         [] SizeOf(p) < Bytes(t) -> "part"
         [] OTHER -> "value"

MarshalReturn(p, t) ==
  IF p \in {"pointer", "class", "bool"} THEN "throws"
  ELSE IF p \in DOMAIN ManagedElement THEN "bits"
  ELSE CASE SizeOf(p) > Bytes(t) -> "beyond"
         [] SizeOf(p) < Bytes(t) -> "part"
         [] OTHER -> "value"

-----------------------------------------------------------------------------
(* Calls.  HostedObject frees the NString of the name when a call is over, so the name
   leaves no trace. *)

(* Some string is passed if one is called for, and read. *)
PassesString(called) ==
  IF called THEN \E w \in StringVars : /\ scope[w] # "out"
                                      /\ corrupted' = (corrupted \/ Dead(string[w]))
  ELSE UNCHANGED corrupted

(* A variable of type NString for the result: it gets a string of its own or, when the
   callee threw or returned null, stays null. *)
ReceivesString ==
  \E v \in StringVars :
     \/ Made(v, "plain")
     \/ /\ scope[v] = "out"
        /\ scope' = [scope EXCEPT ![v] = "plain"]
        /\ UNCHANGED <<heap, string>>

(* The string that a static call makes of its result, if it is not null, is nobody's. *)
ForgetsString ==
  /\ heap' \in {heap} \cup {heap \cup {b} : b \in NStringToCoTaskMemAuto(None)}
  /\ UNCHANGED <<scope, string>>

(* MarshalParameterArray: what the accepted arguments are to the parameters of m. *)
MarshalParameterArray(n, args, m) ==
  misread' = misread \cup
    {<<args[j].type, m.params[j]>> : j \in
        {j \in DOMAIN args : /\ n = Name(m)
                             /\ GetManagedType(args[j]) # "Unknown"
                             /\ MarshalPointer(args[j].type, m.params[j]) # "value"}}

(* Native code takes strings, and only strings, into variables of type NString: anything
   else overruns the variable or leaves no pointer in it. *)
Takes(t, p) == t = "NString" <=> p \in {"string", "NString"}

(* InvokeMethod, InvokeMethodRet and their static variants, with a result variable of
   type t or none.  A method that is not found is reported, and so is a static call of an
   instance method, after its arguments were read; a static method answers the call of an
   instance.  InvokeStaticMethodRet writes the result to IntPtr.Zero: the exception is
   reported, and the variable stays as it is. *)
Invoke(n, args, static) ==
  LET codes == [j \in DOMAIN args |-> GetManagedType(args[j])]
      i == TryGetMethodInfo(n, codes, static)
      m == Methods[i]
  IN /\ Running
     /\ i # 0
     /\ methods' = Cached(MethodKey(n, codes), i)
     /\ Cardinality(DOMAIN methods') <= MaxCached
     /\ MarshalParameterArray(n, args, m)
     /\ PassesString(\E j \in DOMAIN args : args[j].type = "NString")
     /\ \E t \in Results \cup {"void"} :
           /\ t # "void" => Takes(t, m.returns)
           /\ CASE t = "NString" /\ ~static -> ReceivesString
                [] t = "NString" /\ static /\ m.static /\ m.returns = "string" -> ForgetsString
                [] OTHER -> UNCHANGED <<heap, scope, string>>
     /\ UNCHANGED <<field, lost, shared>>

Scalars == {"signed", "unsigned", "float"}

(* A value of type t keeps its bits in a field of type p. *)
Keeps(t, p) ==
  \/ MarshalPointer(t, p) = "value"
  \/ MarshalPointer(t, p) = "bits" /\ {NativeLayout[t][1], ManagedLayout[p][1]} \subseteq Scalars

(* ManagedObject.SetField, SetProperty: a field of type string gets a copy of a string w,
   one of type NString its pointer. *)
SetMember(f, t) ==
  LET p == FieldType[f]
      Sets(b) == field' = [field EXCEPT ![f] = IF Keeps(t, p) THEN [type |-> t, block |-> b]
                                               ELSE Unwritten]
  IN /\ Running
     /\ IF t = "NString" /\ p = "NString"
        THEN \E w \in StringVars : /\ scope[w] # "out"
                                  /\ Sets(string[w])
                                  /\ shared' = (shared \/ string[w] # None)
                                  /\ UNCHANGED corrupted
        ELSE PassesString(t = "NString") /\ Sets(None) /\ UNCHANGED shared
     /\ Cardinality({g \in Fields : field'[g] # Unwritten}) <= MaxWritten
     /\ UNCHANGED <<heap, scope, string, methods, misread, lost>>

(* ManagedObject.GetField, GetProperty into a variable of type t. *)
GetMember(f, t) ==
  LET p == FieldType[f]
  IN /\ Running
     /\ Takes(t, p)
     /\ lost' = IF field[f].type = t /\ MarshalReturn(p, t) # "value"
                THEN lost \cup {p} ELSE lost
     /\ CASE p = "string" -> ReceivesString /\ UNCHANGED shared
          [] p = "NString" ->
               \E v \in StringVars :
                  /\ scope[v] = "out"
                  /\ scope' = [scope EXCEPT ![v] = "plain"]
                  /\ string' = [string EXCEPT ![v] = field[f].block]
                  /\ shared' = (shared \/ field[f].block # None)
                  /\ UNCHANGED heap
          [] OTHER -> UNCHANGED <<heap, scope, string, shared>>
     /\ UNCHANGED <<methods, misread, field, corrupted>>

(* The private members of HostedObject, with the NString of the name that each makes. *)
CallStep ==
  \E n \in Names, c \in 0..MaxArgs, static \in BOOLEAN :
     \E args \in [1..c -> Arguments] : Invoke(n, args, static)
MemberStep ==
  \E f \in Fields, t \in Results : SetMember(f, t) \/ GetMember(f, t)

Next ==
  \/ Running /\ StringStep /\ UNCHANGED marshalVars
  \/ CallStep
  \/ MemberStep

Spec == Init /\ [][Next]_vars

-----------------------------------------------------------------------------
(* Properties *)

(* Every variable keeps its shape. *)
TypeOK ==
  /\ StringsTypeOK
  /\ \A k \in DOMAIN methods : /\ k[1] \in Names
                               /\ Len(k[2]) = Len(Methods[methods[k]].params)
  /\ \A r \in misread : r[1] \in DOMAIN NativeLayout /\ r[2] \in DOMAIN ManagedLayout
  /\ \A f \in Fields : field[f].type \in DOMAIN NativeLayout \cup {"none"}
                       /\ field[f].block \in Blocks \cup {None}
  /\ lost \subseteq DOMAIN ManagedLayout

(* GetManagedType, type_converters and MarshalPointer agree: an argument that has a code
   and is accepted by it is read as what it is, whatever overloads there are and whatever
   was cached before.  The exceptions are a bool for an NBool32, of which three bytes are
   not its own, and a char8_t for an sbyte, which has another sign. *)
ArgumentsArrive == misread \subseteq {<<"bool", "NBool32">>, <<"char8_t", "sbyte">>}

(* The cache answers as a lookup of its kind would have: for a name and codes it holds
   the method that FindSuitableMethod chooses among the methods of one kind. *)
CachedIsFound ==
  \A k \in DOMAIN methods :
     methods[k] = FindSuitableMethod(k[1], k[2], Methods[methods[k]].static)

(* What native code writes to a field, or to a property in front of one, it reads back
   with the same type, be it of the type of the field or of its size only (host_tests.cpp
   writes a float to the Int32 behind MyNum).  What cannot come back through MarshalReturn
   is a pointer, an object, a bool and an array. *)
ReadsBackWrites == lost \subseteq {"pointer", "class", "bool"} \cup DOMAIN ManagedElement
=============================================================================
