----------------------------- MODULE ManagedObject -----------------------------
(***************************************************************************)
(* Calls of managed methods from native code: ManagedObject.InvokeMethod,  *)
(* InvokeStaticMethod and the cache of MethodInfos that both fill, on top  *)
(* of the life of contexts, types and handles.  The cache is keyed by the  *)
(* full name of the type, the method and its argument types, and nothing   *)
(* is ever removed from it.                                                *)
(***************************************************************************)
EXTENDS AssemblyLoader

CONSTANTS
  Methods,      \* method names with their argument types
  Declares      \* Declares[n]: the methods that the type of assembly n defines itself

ASSUME DeclaresAssumption == Declares \in [Names -> SUBSET Methods]

VARIABLES
  methods,        \* <<type name, method>> -> the type whose MethodInfo is cached, or None
  misdirected     \* the kinds of call that got the MethodInfo of another type: "instance"
                  \* calls throw TargetException then, "static" ones run its code

objVars == <<methods, misdirected>>
allVars == <<vars, objVars>>

ObjInit ==
  /\ Init
  /\ methods = [k \in Names \X Methods |-> None]
  /\ misdirected = {}

(* Mutation: the method of the namesake in the default context is cached. *)
TryGetMethodInfoByName(t, m) ==
  LET key == <<t.name, m>> IN
  /\ m \in Declares[t.name]
  /\ methods' = IF methods[key] # None THEN methods
                ELSE [methods EXCEPT ![key] = [alc |-> Default, name |-> t.name]]

(* TryGetMethodInfo finds method m for type t: the cached MethodInfo of the key, or else
   the one of t itself, which is cached. *)
TryGetMethodInfo(t, m) ==
  LET key == <<t.name, m>> IN
  /\ m \in Declares[t.name]
  /\ methods' = IF methods[key] # None THEN methods ELSE [methods EXCEPT ![key] = t]

(* The call of kind k on type t is made with a MethodInfo of another type. *)
Misdirects(k, t, m) ==
  misdirected' = IF methods'[<<t.name, m>>] = t THEN misdirected ELSE misdirected \cup {k}

(* InvokeMethod and InvokeMethodRet through the handle of a HostedObject.  A handle
   whose slot is free has a null target, and a method that is not found is reported;
   neither changes anything. *)
InvokeMethod(o, m) ==
  /\ objects[o] # None
  /\ Target(objects[o].handle) # None
  /\ LET t == objects[Target(objects[o].handle)].type
     IN TryGetMethodInfo(t, m) /\ Misdirects("instance", t, m)
  /\ UNCHANGED vars

(* InvokeStaticMethod and InvokeStaticMethodRet on a type id. *)
InvokeStaticMethod(t, m) ==
  /\ t \in cached_types
  /\ TryGetMethodInfo(t, m)
  /\ Misdirects("static", t, m)
  /\ UNCHANGED vars

InvokeStep ==
  \E m \in Methods :
     \/ \E o \in Objects : InvokeMethod(o, m)
     \/ \E t \in Assembly : InvokeStaticMethod(t, m)

ObjNext == (Next /\ UNCHANGED objVars) \/ (running /\ InvokeStep)

ObjSpec == ObjInit /\ [][ObjNext]_allVars

-----------------------------------------------------------------------------
(* Properties *)

(* Every variable keeps its shape. *)
ObjTypeOK ==
  /\ TypeOK
  /\ methods \in [Names \X Methods -> Assembly \cup {None}]
  /\ misdirected \subseteq {"instance", "static"}

(* host_tests.cpp: obj.Invoke<void>("Test") on a fresh object of a loaded assembly must
   not fail, and the exception callback is FAIL(): no call on an object that exists is
   answered with the method of a type it is not of. *)
InstanceCallsSucceed == "instance" \notin misdirected

(* A call, static or not, misses the method that a lookup on its own type would find
   only after two contexts have loaded an assembly of one name. *)
MisdirectionNeedsReload ==
  misdirected # {} =>
     \E a, b \in Alcs \cup {Default} : a # b /\ loaded[a] \cap loaded[b] # {}

(* The MethodInfo that is cached for a name is one that was usable when it was cached,
   and a context that loaded that name loaded it. *)
CachedMethodsWereLoaded ==
  \A k \in Names \X Methods : methods[k] # None =>
     /\ methods[k].name = k[1]
     /\ k[1] \in loaded[methods[k].alc]
=============================================================================
