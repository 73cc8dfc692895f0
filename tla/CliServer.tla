------------------------------ MODULE CliServer ------------------------------
(***************************************************************************)
(* The older server of src/subfile-cli (subfile_server/mod.rs).  Its      *)
(* initialize_subfile_server_context validates the entries, reads the     *)
(* package version and read_subfile's every entry, each with `?`, and     *)
(* init_server unwraps the result; unlike the subfile-exchange server it  *)
(* never checks the local files against their chunk hashes.  Its          *)
(* handle_request and file_service take the same decisions in the same    *)
(* order as SubfileServer's, so its answers are ServerRequests' Answer;   *)
(* /operator is a stub that takes no lock, like /health.                  *)
(***************************************************************************)
EXTENDS Integers, ServerRequests

CONSTANTS
    IntactValues,   \* whether the local files match their chunk hashes
    StoreFailures,  \* validate_subfile_entries or a read_subfile may fail
    Reqs,           \* the requests the run sends
    RequestSpace,   \* the requests clients may send
    NoReq           \* model value: the context mutex is free

VARIABLES
    intact,   \* the local files match the manifest (never checked here)
    phase,    \* where init_server is: "read", "serving" or "panicked"
    ctx,      \* holder of the ServerContext mutex
    req       \* each request: its progress, its headers, its answer

vars == <<intact, phase, ctx, req>>

Init ==
    /\ intact \in IntactValues
    /\ phase = "read"
    /\ ctx = NoReq
    /\ req \in [Reqs -> [pc : {"idle"}, msg : RequestSpace, status : {"none"}]]

(* initialize_subfile_server_context and the unwrap of init_server:       *)
(* validate_subfile_entries, package_version and each read_subfile, any   *)
(* of whose errors panics; otherwise the server binds its port.           *)
ReadSubfiles ==
    /\ phase = "read"
    /\ \/ phase' = "serving"
       \/ StoreFailures /\ phase' = "panicked"
    /\ UNCHANGED <<intact, ctx, req>>

(* hyper hands a client's request to handle_request once init_server has *)
(* bound the port.                                                        *)
Arrive(r) ==
    /\ phase = "serving"
    /\ req[r].pc = "idle"
    /\ req' = [req EXCEPT ![r].pc = "waiting"]
    /\ UNCHANGED <<intact, phase, ctx>>

(* context.lock().await in status, version or file_service (/operator is *)
(* a stub here and takes no lock, like /health).                          *)
Acquire(r) ==
    /\ req[r].pc = "waiting"
    /\ Locks(req[r].msg)
    /\ ctx = NoReq
    /\ ctx' = r
    /\ req' = [req EXCEPT ![r].pc = "handling"]
    /\ UNCHANGED <<intact, phase>>

(* handle_request returns with file_service's answer (the same decision   *)
(* order as the subfile-exchange server's); the context guard, if held,  *)
(* drops.                                                                  *)
Respond(r) ==
    /\ req[r].pc \in {"waiting", "handling"}
    /\ req[r].pc = "waiting" => ~Locks(req[r].msg)
    /\ req' = [req EXCEPT ![r].pc = "answered", ![r].status = Answer(req[r].msg)]
    /\ ctx' = IF req[r].pc = "handling" THEN NoReq ELSE ctx
    /\ UNCHANGED <<intact, phase>>

Next ==
    \/ ReadSubfiles
    \/ \E r \in Reqs : Arrive(r) \/ Acquire(r) \/ Respond(r)
    \/ phase \in {"serving", "panicked"} /\ UNCHANGED vars

Spec == Init /\ [][Next]_vars

-----------------------------------------------------------------------------
(* Properties.                                                            *)

(* The server answers requests only when its local files match their    *)
(* chunk hashes (spec section 4.4.1, step 3: startup verification).      *)
VerifiedBeforeServing == phase = "serving" => intact

(* The server contract of spec section 4.4, under the same mapping as     *)
(* SubfileServer's: a request holding the context is still waiting.       *)
CC == INSTANCE ServerContract WITH
        serving <- (phase = "serving"),
        reqA <- [r \in Reqs |->
                   [pc |-> IF req[r].pc = "handling" THEN "waiting" ELSE req[r].pc,
                    msg |-> req[r].msg,
                    status |-> req[r].status]]

(* handle_request of the cli server implements the contract: each request *)
(* is answered once, after the port is bound, with the status the spec    *)
(* prescribes for its headers.                                            *)
ContractSpec == CC!Spec

=============================================================================
