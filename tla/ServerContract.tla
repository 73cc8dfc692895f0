--------------------------- MODULE ServerContract ---------------------------
(***************************************************************************)
(* What the subfile server promises its clients (spec sections 4.4.2,     *)
(* 4.4.3 and 6.1), with no mutex and no startup verification: once the   *)
(* server is up, every request that arrives is answered in one step, and  *)
(* the answer is a function of the request alone.                         *)
(*                                                                         *)
(* SubfileServer instantiates this module with a refinement mapping; a    *)
(* request it is handling under the context mutex is, to a client, still  *)
(* waiting for its answer.                                                *)
(***************************************************************************)
EXTENDS Integers

CONSTANTS
    ServerToken,    \* a free-query token is configured
    Reqs,           \* the requests
    RequestSpace    \* the requests clients may send

VARIABLES
    serving,  \* the server has bound its port
    reqA      \* each request: progress, headers, answer

(* The answer the contract prescribes for a request (section 4.4.4's     *)
(* state machine: auth, manifest lookup, file_name, then the range; an    *)
(* invalid range syntax is a 400).                                        *)
ContractStatus(m) ==
    IF m.route # "file" THEN "200"
    ELSE IF ServerToken /\ m.auth # "bearer" THEN "401"
    ELSE IF m.id = "unknown" THEN "404"
    ELSE IF ~m.fileName THEN "406"
    ELSE IF m.range = "malformed" THEN "400"
    ELSE IF m.range = "valid" THEN "206"
    ELSE "200"

Init ==
    /\ serving = FALSE
    /\ reqA \in [Reqs -> [pc : {"idle"}, msg : RequestSpace, status : {"none"}]]

(* The server binds its port.                                             *)
Start ==
    /\ ~serving
    /\ serving' = TRUE
    /\ UNCHANGED reqA

(* A request reaches a running server.                                    *)
Arrive(r) ==
    /\ serving
    /\ reqA[r].pc = "idle"
    /\ reqA' = [reqA EXCEPT ![r].pc = "waiting"]
    /\ UNCHANGED serving

(* The request is answered with the status the contract prescribes.       *)
Answer(r) ==
    /\ reqA[r].pc = "waiting"
    /\ reqA' = [reqA EXCEPT ![r].pc = "answered",
                            ![r].status = ContractStatus(reqA[r].msg)]
    /\ UNCHANGED serving

Next == Start \/ \E r \in Reqs : Arrive(r) \/ Answer(r)

Spec == Init /\ [][Next]_<<serving, reqA>>

=============================================================================
