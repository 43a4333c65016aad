--------------------------- MODULE MCTypeReflection ---------------------------
(* An instance of TypeReflection for TLC: two versions of a plugin with one class, another
   plugin whose class refers to the first and is the base of the second, and two types
   of the framework. *)
EXTENDS TypeReflection

CONSTANTS O, R, X1, X2, Y, mo, m1, m2, my, f1, f2, p1, p2, at, at1, a1, a2, a3,
          NameO, NameR, NameX, NameY

MCTypes == {O, R, X1, X2, Y}
MCMethods == {mo, m1, m2, my}
MCFields == {f1, f2}
MCProperties == {p1, p2}
MCTypesOf == [a \in Asms |-> CASE a = a1 -> <<X1>> [] a = a2 -> <<X2>> [] OTHER -> <<Y>>]
MCOwner == [e \in Elements \cup Attributes |->
              CASE e \in {X1, m1, f1, p1, at1} -> a1
                [] e \in {X2, m2, f2, p2} -> a2
                [] e \in {Y, my} -> a3
                [] OTHER -> Core]
MCNameOf == [t \in Types |-> CASE t = O -> NameO [] t = R -> NameR [] t = Y -> NameY
                             [] OTHER -> NameX]

(* Class(m, f, p): a class with these members and the attribute at. *)
Class(m, f, p) == [methods |-> <<m>>, fields |-> <<f>>, properties |-> <<p>>,
                   attributes |-> <<at>>]
MCDeclared == [t \in Types |->
                 CASE t = X1 -> Class(m1, f1, p1)
                   [] t = X2 -> Class(m2, f2, p2)
                   [] t = O -> [Class(m1, f1, p1) EXCEPT !.methods = <<mo>>, !.fields = <<>>,
                                                         !.properties = <<>>, !.attributes = <<>>]
                   [] t = Y -> [k \in MemberKinds |-> IF k = "methods" THEN <<my>> ELSE <<>>]
                   [] OTHER -> [k \in MemberKinds |-> <<>>]]

(* An attribute of the second version cannot be constructed. *)
MCFailing == [t \in Types |-> IF t = X2 THEN {"attributes"} ELSE {}]
MCBaseOf == [t \in Types |-> CASE t = X2 -> Y [] t \in {X1, Y} -> O [] OTHER -> NullId]
MCEltOf == [t \in Types |-> IF t = R THEN O ELSE NullId]
MCTypeOf == [m \in Methods \cup Fields |->
               CASE m \in {m1, my} -> X1 [] m = f1 -> R [] m = m2 -> R [] OTHER -> O]
MCParamsOf == [m \in Methods |-> CASE m = m1 -> <<O, X1>> [] m = m2 -> <<X2>> [] OTHER -> <<>>]
(* A method of the second version has an attribute twice. *)
MCAttributesOf == [m \in Methods \cup Fields |->
                     CASE m \in {f1, my} -> <<at1>> [] m = m2 -> <<at, at>> [] OTHER -> <<>>]
MCUnresolvable == {f2}
=============================================================================
