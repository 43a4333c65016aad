--------------------------------- MODULE Host ---------------------------------
(***************************************************************************)
(* hosting/host.cpp: the life of the Host singleton, from the hostfxr      *)
(* library through the CLR to the bound function table, together with the  *)
(* registry of native objects whose owner the function table decides       *)
(* about.                                                                  *)
(***************************************************************************)
EXTENDS ObjectRegistry, Naturals

VARIABLES
  host,            \* Host::instance exists
  is_loaded,
  configured,      \* config has its callbacks and paths
  entry,           \* host_calls.entry # nullptr
  coreclr,         \* the hostfxr functions are resolved
  managed_ready,   \* DotOtherHost.EntryPoint ran: managed code has its callbacks
  (* the process *)
  clr_running,     \* a runtime delegate was obtained, which starts the CLR for good
  open_handles,    \* hostfxr contexts initialized and not closed
  (* the last LoadHost *)
  rc,              \* what hostfxr_initialize_for_runtime_config returned
  ended            \* the step at which it returned

hostVars == <<host, is_loaded, configured, entry, coreclr, managed_ready, clr_running,
              open_handles, rc, ended>>
vars == <<registryVars, hostVars>>

SuccessCodes == {"Success", "HostAlreadyInitialized"}

Init ==
  /\ RegistryInit
  /\ host = FALSE /\ is_loaded = FALSE /\ configured = FALSE
  /\ entry = FALSE /\ coreclr = FALSE
  /\ managed_ready = FALSE /\ clr_running = FALSE
  /\ open_handles = 0
  /\ rc = "none"
  /\ ended = "none"

(* Host::Instance(config); a second call keeps the first configuration. *)
Instance ==
  /\ ~host
  /\ host' = TRUE
  /\ configured' = TRUE
  /\ UNCHANGED <<is_loaded, entry, coreclr, managed_ready, clr_running, open_handles,
                 rc, ended>>

(* Mutation: the destructor closes a context, open or not. *)
DestroyAndClose ==
  /\ host
  /\ host' = FALSE /\ is_loaded' = FALSE /\ configured' = FALSE
  /\ entry' = FALSE /\ coreclr' = FALSE
  /\ open_handles' = open_handles - 1
  /\ UNCHANGED <<managed_ready, clr_running, rc, ended>>

(* Host::Destroy deletes the object and does nothing else. *)
Destroy ==
  /\ host
  /\ host' = FALSE /\ is_loaded' = FALSE /\ configured' = FALSE
  /\ entry' = FALSE /\ coreclr' = FALSE
  /\ UNCHANGED <<managed_ready, clr_running, open_handles, rc, ended>>

(* hostfxr_initialize_for_runtime_config: once the CLR runs, a compatible
   configuration is answered with Success_HostAlreadyInitialized. *)
InitHostConfigCodes ==
  {IF clr_running THEN "HostAlreadyInitialized" ELSE "Success", "Failure"}

(* The failures of LoadHost before the CLR is involved: nulled callbacks, files that do
   not exist, hostfxr not found. *)
LoadHostUnprepared ==
  /\ host /\ ~is_loaded
  /\ \/ ~configured /\ ended' = "config"
     \/ configured /\ ended' \in {"files", "libraries"}
  /\ rc' = "none"
  /\ UNCHANGED <<host, is_loaded, configured, entry, coreclr, managed_ready,
                 clr_running, open_handles>>

(* Mutation of Accepted: every success code, as hostfxr.h has it. *)
AcceptedToo(code) == code \in SuccessCodes

(* if (rc != 0) is a failure. *)
Accepted(code) == code = "Success"

(* InitializeHost fails: on a code other than 0, whose context is closed; on a missing
   delegate, likewise; on a missing entry point, whose context stays open.  LoadHost
   then calls UnloadHost, which returns at once because is_loaded is false. *)
LoadHostFails ==
  /\ host /\ ~is_loaded /\ configured
  /\ coreclr' = TRUE
  /\ rc' \in InitHostConfigCodes
  /\ \/ /\ ~Accepted(rc')
        /\ ended' = "init"
        /\ UNCHANGED <<clr_running, open_handles, entry>>
     \/ /\ Accepted(rc')
        /\ ended' = "delegate"
        /\ UNCHANGED <<clr_running, open_handles, entry>>
     \/ /\ Accepted(rc')
        /\ ended' = "entry"
        /\ clr_running' = TRUE
        /\ open_handles' = open_handles + 1
        /\ entry' = FALSE
  /\ UNCHANGED <<host, is_loaded, configured, managed_ready>>

LoadHost ==
  /\ host /\ ~is_loaded /\ configured
  /\ rc' \in InitHostConfigCodes /\ Accepted(rc')
  /\ coreclr' = TRUE
  /\ clr_running' = TRUE
  /\ open_handles' = open_handles + 1
  /\ entry' = TRUE
  /\ is_loaded' = TRUE
  /\ ended' = "loaded"
  /\ UNCHANGED <<host, configured, managed_ready>>

Cleared == is_loaded' = FALSE /\ entry' = FALSE /\ configured' = FALSE /\ coreclr' = FALSE

(* Host::UnloadHost closes its member host_fxr, which no one ever set. *)
UnloadHost ==
  /\ host /\ is_loaded
  /\ Cleared
  /\ UNCHANGED <<host, managed_ready, clr_running, open_handles, rc, ended>>

(* Mutation: the managed entry point is not called. *)
BindOnly ==
  /\ host /\ is_loaded /\ entry
  /\ table' = "full"
  /\ UNCHANGED <<registered_objects, objectVars, misused, hostVars>>

(* Host::CallEntryPoint: every entry of the function table is looked up again; if all
   are found, the managed entry point gets the callbacks. *)
CallEntryPoint ==
  /\ host /\ is_loaded /\ entry
  /\ table' = "full"
  /\ managed_ready' = TRUE
  /\ UNCHANGED <<registered_objects, objectVars, misused, host, is_loaded, configured, entry,
                 coreclr, clr_running, open_handles, rc, ended>>

(* Some entry is not found and overwritten with null: CallEntryPoint throws. *)
CallEntryPointThrows ==
  /\ host /\ is_loaded /\ entry
  /\ table' = "partial"
  /\ misused' = (misused \/ BoundToAsm)
  /\ UNCHANGED <<registered_objects, objectVars, hostVars>>

-----------------------------------------------------------------------------

HostStep ==
  \/ Instance \/ Destroy
  \/ LoadHostUnprepared \/ LoadHostFails \/ LoadHost \/ UnloadHost

Next ==
  \/ HostStep /\ UNCHANGED registryVars
  \/ CallEntryPoint
  \/ CallEntryPointThrows
  \/ (ObjectStep \/ Unbind) /\ UNCHANGED hostVars

Spec == Init /\ [][Next]_vars

-----------------------------------------------------------------------------
(* Properties *)

(* Every variable keeps its shape. *)
TypeOK ==
  /\ RegistryTypeOK
  /\ host \in BOOLEAN /\ is_loaded \in BOOLEAN /\ configured \in BOOLEAN
  /\ entry \in BOOLEAN /\ coreclr \in BOOLEAN /\ managed_ready \in BOOLEAN
  /\ clr_running \in BOOLEAN
  /\ open_handles \in Nat
  /\ rc \in SuccessCodes \cup {"Failure", "none"}
  /\ ended \in {"none", "config", "files", "libraries", "init", "delegate", "entry", "loaded"}

(* A host that is loaded has all that CallEntryPoint and the managed side use: the
   entry point, the hostfxr functions, the callbacks and a running CLR. *)
LoadedIsComplete ==
  is_loaded => host /\ entry /\ coreclr /\ configured /\ clr_running

(* A bound table, and only that, lets the application call managed code: the managed
   side has its callbacks by then, and a CLR to run in. *)
BoundIsInitialized == (BoundToAsm => managed_ready) /\ (table # "null" => clr_running)

(* However often the host is loaded, unloaded, destroyed and made again, no more than
   one hostfxr context stays open. *)
AtMostOneContextOpen == open_handles <= 1

(* hostfxr.h: "Both Success_HostAlreadyInitialized and
   Success_DifferentRuntimeProperties codes are considered successful
   initializations"; LoadHost does not fail on one. *)
SuccessIsNotFailure == ended = "init" => rc \notin SuccessCodes
=============================================================================
