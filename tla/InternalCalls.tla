----------------------------- MODULE InternalCalls -----------------------------
(***************************************************************************)
(* Internal calls: native functions that plugins call through static       *)
(* function pointers of their types.  A native Assembly object collects    *)
(* names and functions (SetInternalCall) and sends them all at once        *)
(* (UploadInternalCalls); managed code looks each one up by the name of    *)
(* the assembly, as the context of the object may be gone by then, and     *)
(* writes the pointer into the type it finds.                              *)
(***************************************************************************)
EXTENDS AssemblyLoader, Sequences

CONSTANTS
  Delegates,     \* names of static function pointer fields
  HasDelegate,   \* HasDelegate[n]: the ones the type of assembly n has
  Short,         \* those whose full name a std::string keeps inside itself
  Functions,     \* native functions
  MaxCalls       \* bound on the calls of one Assembly object

ASSUME CallsAssumption ==
  /\ HasDelegate \in [Names -> SUBSET Delegates]
  /\ Short \subseteq Delegates
  /\ MaxCalls \in Nat

VARIABLES
  native_assemblies,  \* the native Assembly objects, by what they were made for
  internal_calls,     \* Assembly object -> the calls set on it, in order
  pointers,           \* <<assembly, delegate>> -> who wrote which function, or None
  wild                \* names were read through a pointer that dangles

callVars == <<native_assemblies, internal_calls, pointers, wild>>
allVars == <<vars, callVars>>

Call == [delegate : Delegates, fn : Functions]
Pointer == [by : Assembly, fn : Functions]
ASSUME PointerAssumption == None \notin Pointer

CallsInit ==
  /\ Init
  /\ native_assemblies = {}
  /\ internal_calls = [x \in Assembly |-> <<>>]
  /\ pointers = [e \in Assembly \X Delegates |-> None]
  /\ wild = FALSE

(* A step of AssemblyLoader.  A load that succeeds makes an Assembly object: it is the
   only step that both puts an assembly into a context and registers it. *)
LoaderStep ==
  /\ Next
  /\ native_assemblies' = native_assemblies \cup
       {x \in Assembly : /\ x.name \in loaded'[x.alc] \ loaded[x.alc]
                         /\ assemblies'[Hash[x.name]] = x}
  /\ UNCHANGED <<internal_calls, pointers, wild>>

(* Assembly::SetInternalCall; the null pointer, which is refused, changes nothing. *)
SetInternalCall(x, d, f) ==
  /\ x \in native_assemblies
  /\ Len(internal_calls[x]) < MaxCalls
  /\ internal_calls' = [internal_calls EXCEPT ![x] = Append(@, [delegate |-> d, fn |-> f])]
  /\ UNCHANGED <<vars, native_assemblies, pointers, wild>>

(* The capacity of internal_call_names with n elements: it doubles. *)
Capacity(n) == CHOOSE c \in {2^k : k \in 0..n} : c >= n /\ \A k \in 0..n : 2^k >= n => c <= 2^k

(* A name that lies inside its std::string has moved with it since c_str was kept: the
   vector has grown. *)
Dangles(x) ==
  \E i \in DOMAIN internal_calls[x] :
     /\ internal_calls[x][i].delegate \in Short
     /\ Capacity(i) # Capacity(Len(internal_calls[x]))

(* Mutations of LastCall: a field takes the last call, whatever it is for; the first call
   on a field counts. *)
AnyLastCall(calls, d, i) == i = Len(calls)
FirstCall(calls, d, i) ==
  calls[i].delegate = d /\ \A j \in DOMAIN calls : calls[j].delegate = d => j >= i

(* SetInternalCalls registers the calls one by one: the last one on d stays. *)
LastCall(calls, d, i) ==
  calls[i].delegate = d /\ \A j \in DOMAIN calls : calls[j].delegate = d => j <= i

(* What the pointer d of y becomes when x sends its calls to y; a call on a delegate that
   y does not have is reported and dropped. *)
Written(x, y, d) ==
  IF \E i \in DOMAIN internal_calls[x] : LastCall(internal_calls[x], d, i)
  THEN [by |-> x,
        fn |-> internal_calls[x][CHOOSE i \in DOMAIN internal_calls[x] :
                                    LastCall(internal_calls[x], d, i)].fn]
  ELSE pointers[<<y, d>>]

(* Assembly::UploadInternalCalls.  RegisterInternalCall finds the type by the name of the
   assembly: FindType asks ResolveAssembly, which may register what it finds.  If nothing
   of that name is found, nothing changes. *)
UploadInternalCalls(x, y) ==
  /\ x \in native_assemblies
  /\ internal_calls[x] # <<>>
  /\ ~Dangles(x)
  /\ y.name = x.name
  /\ ResolveAssembly(x.name, y)
  /\ pointers' = [e \in Assembly \X Delegates |->
                    IF e[1] = y /\ e[2] \in HasDelegate[y.name] THEN Written(x, y, e[2])
                    ELSE pointers[e]]
  /\ UNCHANGED <<contexts, handles, cached_types, runtimeVars, asm_contexts, name_cache,
                 objectVars, native_assemblies, internal_calls, wild>>

(* The same with a name that dangles: managed code reads freed memory, and anything may
   happen. *)
UploadDanglingCalls(x) ==
  /\ x \in native_assemblies
  /\ Dangles(x)
  /\ wild' = TRUE
  /\ UNCHANGED <<vars, native_assemblies, internal_calls, pointers>>

CallStep ==
  \/ \E x \in Assembly, d \in Delegates, f \in Functions : SetInternalCall(x, d, f)
  \/ \E x, y \in Assembly : UploadInternalCalls(x, y)
  \/ \E x \in Assembly : UploadDanglingCalls(x)

CallsNext == ~wild /\ (LoaderStep \/ (running /\ CallStep))

CallsSpec == CallsInit /\ [][CallsNext]_allVars

-----------------------------------------------------------------------------
(* Properties *)

(* Every variable keeps its shape. *)
CallsTypeOK ==
  /\ TypeOK
  /\ native_assemblies \subseteq Assembly
  /\ internal_calls \in [Assembly -> Seq(Call)]
  /\ pointers \in [Assembly \X Delegates -> Pointer \cup {None}]
  /\ wild \in BOOLEAN

Changes(y) == \E d \in Delegates : pointers'[<<y, d>>] # pointers[<<y, d>>]

(* A function pointer is only ever written into an assembly that is registered and whose
   context is loaded, although the Assembly object it comes from may be of a context
   that is long gone. *)
WritesReachLoaded ==
  [][\A y \in Assembly : Changes(y) =>
       /\ assemblies'[Hash[y.name]] = y
       /\ y.alc \in LoadedContexts \cup {Default}]_allVars

(* An Assembly object whose assembly is registered never writes into another version of
   it: a pointer of a namesake is written by objects that were unregistered only. *)
OnlyStaleObjectsMisroute ==
  [][\A y \in Assembly, d \in Delegates :
       LET p == pointers'[<<y, d>>]
       IN p # pointers[<<y, d>>] /\ p.by # y => assemblies[Hash[y.name]] # p.by]_allVars

(* Some call on x asks for d to lead to f. *)
Given(x, d, f) ==
  \E i \in DOMAIN internal_calls[x] : internal_calls[x][i] = [delegate |-> d, fn |-> f]

(* A pointer that was written stays written, and leads to the function that some Assembly
   object of that name was given for it. *)
PointersLeadHome ==
  \A y \in Assembly, d \in Delegates :
     LET p == pointers[<<y, d>>]
     IN p # None => p.by.name = y.name /\ Given(p.by, d, p.fn)

(* One upload is one version: when it changes a pointer, every other pointer of the type
   that the object has a call for is its own as well, with the function set last. *)
UploadIsWhole ==
  [][\A y \in Assembly : Changes(y) =>
       \E x \in native_assemblies :
          \A i \in DOMAIN internal_calls[x] :
             LET c == internal_calls[x][i]
             IN /\ c.delegate \in HasDelegate[y.name]
                /\ \A j \in DOMAIN internal_calls[x] :
                      internal_calls[x][j].delegate = c.delegate => j <= i
                => pointers'[<<y, c.delegate>>] = [by |-> x, fn |-> c.fn]]_allVars
=============================================================================
