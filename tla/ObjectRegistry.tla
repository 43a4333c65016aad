---------------------------- MODULE ObjectRegistry ----------------------------
(***************************************************************************)
(* The native objects that managed code can call: NObject registers itself *)
(* with InteropInterface (hosting/native_object.cpp,                       *)
(* hosting/interop_interface.cpp) when it is constructed and unregisters   *)
(* when it is destroyed, both by handle and both only while the function   *)
(* table is fully bound.                                                   *)
(***************************************************************************)
CONSTANTS
  NObjects,     \* identities of NObject instances
  Handles,      \* object handles other than 0
  None          \* no object; the handle 0

ASSUME RegistryAssumption == None \notin NObjects \cup Handles

VARIABLES
  table,               \* InteropInterface::interop, one of TableStates
  registered_objects,  \* handle -> NObject, or None
  alive,               \* the NObjects that exist
  born,                \* the NObjects ever constructed
  object_handle,       \* NObject -> its handle, or None for 0
  proxy,               \* NObject -> whose proxy its pointer leads to, or None
  deleted,             \* the NObjects whose proxies were deleted
  touched_dead,        \* a registered object or a proxy was used after its end
  misused              \* the handle or the proxy of an object was rewritten or copied, or
                       \* a table that was bound in full was bound again in part

(* Every entry of the function table is null, or some are, or none is. *)
TableStates == {"null", "partial", "full"}

objectVars == <<alive, born, object_handle, proxy, deleted, touched_dead>>
registryVars == <<table, registered_objects, objectVars, misused>>

RegistryInit ==
  /\ table = "null"
  /\ registered_objects = [h \in Handles |-> None]
  /\ alive = {} /\ born = {} /\ deleted = {}
  /\ object_handle = [o \in NObjects |-> None]
  /\ proxy = [o \in NObjects |-> None]
  /\ touched_dead = FALSE
  /\ misused = FALSE

BoundToAsm == table = "full"

(* A handle that is taken is left to its first owner. *)
RegisterObject(h, o) ==
  registered_objects' = IF BoundToAsm /\ h # None /\ registered_objects[h] = None
                        THEN [registered_objects EXCEPT ![h] = o]
                        ELSE registered_objects

(* NObject(handle) makes a proxy of its own and registers; NObject(0), and NObject(), do
   neither. *)
ConstructObject(o, h) ==
  /\ o \notin born
  /\ born' = born \cup {o}
  /\ alive' = alive \cup {o}
  /\ object_handle' = [object_handle EXCEPT ![o] = h]
  /\ proxy' = [proxy EXCEPT ![o] = IF h = None THEN None ELSE o]
  /\ RegisterObject(h, o)
  /\ UNCHANGED <<table, deleted, touched_dead, misused>>

(* object_handle is a public member, and writable through the proxy. *)
WriteHandle(o, h) ==
  /\ o \in alive
  /\ object_handle' = [object_handle EXCEPT ![o] = h]
  /\ misused' = (misused \/ h # object_handle[o])
  /\ UNCHANGED <<table, registered_objects, alive, born, proxy, deleted, touched_dead>>

(* NObject has the copies that the compiler makes: the constructor, and operator=, which
   ObjectProxy::operator= calls for the targets. *)
CopyObject(o, p) ==
  /\ p \in alive
  /\ o \in alive \/ o \notin born
  /\ born' = born \cup {o}
  /\ alive' = alive \cup {o}
  /\ object_handle' = [object_handle EXCEPT ![o] = object_handle[p]]
  /\ proxy' = [proxy EXCEPT ![o] = proxy[p]]
  /\ misused' = (misused \/ object_handle'[o] # object_handle[o] \/ proxy'[o] # proxy[o])
  /\ UNCHANGED <<table, registered_objects, deleted, touched_dead>>

(* A proxy is a reference to the object that made it; nothing, or a deleted one, is
   behind the pointer of o. *)
NoProxy(o) == proxy[o] \in deleted \cup {None}

(* The proxy of o cannot be asked for its type name. *)
Dangles(o) == o \notin alive \/ NoProxy(o)

(* Whether a method of o that is called by name runs on a destroyed object: the call goes
   through the proxy to its target. *)
InvokesDead(o) == Dangles(o) \/ proxy[o] \notin alive

(* The entry of the handle is erased, whoever owns it. *)
Unregisters(h) == BoundToAsm /\ h # None /\ registered_objects[h] # None
UnregisterObject(h) ==
  registered_objects' = IF Unregisters(h) THEN [registered_objects EXCEPT ![h] = None]
                        ELSE registered_objects

(* Mutation: the handle is reset before UnregisterObject reads it. *)
DestroyHandleFirst(o) ==
  /\ o \in alive
  /\ alive' = alive \ {o}
  /\ object_handle' = [object_handle EXCEPT ![o] = None]
  /\ proxy' = [proxy EXCEPT ![o] = None]
  /\ deleted' = deleted \cup ({proxy[o]} \ {None})
  /\ UNCHANGED <<table, born, touched_dead, registered_objects, misused>>

(* ~NObject: UnregisterObject looks through the proxy of the object it finds, for the
   log; then the proxy is deleted. *)
DestroyNObject(o) ==
  LET h == object_handle[o] IN
  /\ o \in alive
  /\ alive' = alive \ {o}
  /\ UnregisterObject(h)
  /\ object_handle' = [object_handle EXCEPT ![o] = None]
  /\ proxy' = [proxy EXCEPT ![o] = None]
  /\ deleted' = deleted \cup ({proxy[o]} \ {None})
  /\ touched_dead' = (\/ touched_dead
                      \/ Unregisters(h) /\ Dangles(registered_objects[h])
                      \/ proxy[o] \in deleted)
  /\ UNCHANGED <<table, born, misused>>

(* Managed code names a handle: InvokeNativeFunction calls a method of the object
   registered for it. *)
InvokeNativeFunction(h) ==
  /\ registered_objects[h] # None
  /\ touched_dead' = (touched_dead \/ InvokesDead(registered_objects[h]))
  /\ UNCHANGED <<table, registered_objects, alive, born, object_handle, proxy, deleted, misused>>

(* Mutation: the function table is dropped, the registry is kept. *)
UnbindTable ==
  /\ table' = "null"
  /\ UNCHANGED <<registered_objects, objectVars, misused>>

(* InteropInterface::Unbind; the next use makes a new, empty instance. *)
Unbind ==
  /\ table' = "null"
  /\ registered_objects' = [h \in Handles |-> None]
  /\ UNCHANGED <<objectVars, misused>>

ObjectStep ==
  \/ \E o \in NObjects, h \in Handles \cup {None} : ConstructObject(o, h) \/ WriteHandle(o, h)
  \/ \E o, p \in NObjects : CopyObject(o, p)
  \/ \E o \in NObjects : DestroyNObject(o)
  \/ \E h \in Handles : InvokeNativeFunction(h)

-----------------------------------------------------------------------------
(* Properties *)

(* Every variable keeps its shape. *)
RegistryTypeOK ==
  /\ table \in TableStates
  /\ registered_objects \in [Handles -> NObjects \cup {None}]
  /\ alive \subseteq born /\ born \subseteq NObjects
  /\ object_handle \in [NObjects -> Handles \cup {None}]
  /\ proxy \in [NObjects -> NObjects \cup {None}]
  /\ deleted \subseteq NObjects
  /\ touched_dead \in BOOLEAN
  /\ misused \in BOOLEAN

(* What the registry holds is alive, has the handle it is registered for and a proxy to
   be called through, however objects share handles and whenever the table is bound and
   unbound, unless the application rewrites or copies what an object points to or binds
   the table again in part. *)
RegisteredAlive ==
  misused \/ \A h \in Handles : registered_objects[h] # None =>
     LET r == registered_objects[h]
     IN r \in alive /\ object_handle[r] = h /\ ~NoProxy(r)

(* Likewise, no destroyed NObject is looked at by UnregisterObject or called by
   InvokeNativeFunction, and no proxy is deleted twice. *)
NoDeadObjectTouched == misused \/ ~touched_dead
=============================================================================
