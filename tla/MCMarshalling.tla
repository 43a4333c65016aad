---------------------------- MODULE MCMarshalling ----------------------------
(* An instance of Marshalling for TLC: one overloaded name. *)
EXTENDS Marshalling, TLC

Method(p, static, returns) ==
  [name |-> "f", params |-> <<p>>, static |-> static, returns |-> returns]
MCMethods ==
  <<Method("string", FALSE, "string"), Method("string", TRUE, "string"), Method("class", FALSE, "class"),
    Method("uint", FALSE, "void"), Method("int", TRUE, "int"), Method("int", FALSE, "int"),
    Method("NBool32", FALSE, "NBool32"), Method("bool", FALSE, "bool"),
    Method("sbyte", FALSE, "void"), Method("IntPtr", FALSE, "IntPtr")>>

(* Calls by name, and by the signature of f(bool). *)
MCNames == {Name(MCMethods[1]), Signature(MCMethods[8])}

Rvalue(t) == [type |-> t, lvalue |-> FALSE]
MCArguments ==
  {Rvalue(t) : t \in {"int32_t", "uint32_t", "bool", "char8_t", "pointer", "NString", "HostedObject"}}
    \cup {[type |-> "int32_t", lvalue |-> TRUE]}

MCResults == {"int32_t", "float", "bool", "HostedObject", "NString", "int32_ts"}

MCFieldType == [number |-> "int", flag |-> "bool", link |-> "class", title |-> "string",
                label |-> "NString", list |-> "int_array"]

Symmetry == Permutations(StringVars) \cup Permutations(Blocks)
=============================================================================
