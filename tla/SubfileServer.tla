---------------------------- MODULE SubfileServer ----------------------------
(***************************************************************************)
(* The subfile server of subfile-exchange (src/subfile-exchange/src/       *)
(* subfile_server/mod.rs).  init_server first runs                        *)
(* initialize_subfile_server_context: it reads each configured subfile    *)
(* and verifies every chunk of every chunk file against its hash, and      *)
(* any error or failed verification aborts the process.  Then hyper       *)
(* serves concurrent requests; /status, /version, /operator and the       *)
(* /subfiles/id/ file service lock the shared ServerContext, and          *)
(* file_service keeps it locked until the response is built.  What a      *)
(* handler answers a request is in ServerRequests.                        *)
(***************************************************************************)
EXTENDS Integers, Sequences, ServerRequests

CONSTANTS
    FileSizes,      \* total_bytes of each served chunk file, in order
    ChunkSize,      \* their chunk_size
    Damages,        \* the sets of chunks whose local bytes may be bad
    StoreFailures,  \* read_subfile (an IPFS cat) may fail
    Reqs,           \* the requests the run sends
    RequestSpace,   \* the requests clients may send
    NoReq           \* model value: the context mutex is free

Files == 1..Len(FileSizes)
NumHashes(f) == (FileSizes[f] + ChunkSize - 1) \div ChunkSize

(* Mutant: the loop bound without the + 1, an attempt to stop the         *)
(* chunk_hashes[i] panic on exact multiples.                              *)
LoopBoundFloor(f) == FileSizes[f] \div ChunkSize

(* The bound of the verification loop: 0..(total_bytes / chunk_size + 1). *)
LoopBound(f) == FileSizes[f] \div ChunkSize + 1

(* The chunks of the served files: chunk i of file f is covered by        *)
(* chunk_hashes[i].                                                       *)
Chunks == UNION {{f} \X (0..(NumHashes(f) - 1)) : f \in Files}

ASSUME ServerAssumption ==
    /\ FileSizes \in Seq(Nat) /\ Len(FileSizes) >= 1
    /\ ChunkSize \in Nat \ {0}
    /\ Damages \subseteq SUBSET Chunks /\ Damages # {}
    /\ ServerToken \in BOOLEAN
    /\ StoreFailures \in BOOLEAN
    /\ RequestSpace \subseteq RequestRec /\ RequestSpace # {}
    /\ NoReq \notin Reqs

Phases == {"read", "verify", "serving", "panicked"}
ReqStates == {"idle", "waiting", "handling", "answered"}

VARIABLES
    damaged,  \* the chunks whose read_chunk fails or whose bytes do not verify
    phase,    \* where init_server is
    vf,       \* the chunk file being verified
    vi,       \* the chunk index being verified
    ctx,      \* holder of the ServerContext mutex
    req       \* each request: its progress, its headers, its answer

vars == <<damaged, phase, vf, vi, ctx, req>>
startVars == <<damaged, phase, vf, vi>>

TypeOK ==
    /\ damaged \subseteq Chunks
    /\ phase \in Phases
    /\ vf \in Files
    /\ vi \in Nat
    /\ ctx \in Reqs \cup {NoReq}
    /\ req \in [Reqs -> [pc : ReqStates, msg : RequestRec, status : Statuses]]

Init ==
    /\ damaged \in Damages
    /\ phase = "read"
    /\ vf = 1
    /\ vi = 0
    /\ ctx = NoReq
    /\ req \in [Reqs -> [pc : {"idle"}, msg : RequestSpace, status : {"none"}]]

-----------------------------------------------------------------------------
(* Startup: initialize_subfile_server_context; init_server's expect       *)
(* turns its Err into a panic.                                            *)

(* read_subfile (manifest and chunk files from IPFS) and `?`.             *)
ReadSubfile ==
    /\ phase = "read"
    /\ \/ phase' = "verify"
       \/ StoreFailures /\ phase' = "panicked"
    /\ UNCHANGED <<damaged, vf, vi, ctx, req>>

(* Mutant: the bound check is off by one and rejects the last chunk.   *)
VerifyChunkOffByOne ==
    /\ phase = "verify"
    /\ vi < LoopBound(vf)
    /\ \/ vi + 1 >= NumHashes(vf) /\ phase' = "panicked" /\ UNCHANGED vi
       \/ vi + 1 < NumHashes(vf) /\ <<vf, vi>> \notin damaged /\ vi' = vi + 1 /\ UNCHANGED phase
       \/ vi + 1 < NumHashes(vf) /\ <<vf, vi>> \in damaged /\ phase' = "panicked" /\ UNCHANGED vi
    /\ UNCHANGED <<damaged, vf, ctx, req>>

(* One index of the verification loop: chunk_hashes[i] (a panic when i  *)
(* is out of bounds), read_chunk and verify_chunk (a panic when the local *)
(* bytes do not match; read_chunk's `?` error also ends in init_server's *)
(* panic, so a chunk that cannot be read counts as damaged).               *)
VerifyChunk ==
    /\ phase = "verify"
    /\ vi < LoopBound(vf)
    /\ \/ vi >= NumHashes(vf) /\ phase' = "panicked" /\ UNCHANGED vi
       \/ vi < NumHashes(vf) /\ <<vf, vi>> \notin damaged /\ vi' = vi + 1 /\ UNCHANGED phase
       \/ vi < NumHashes(vf) /\ <<vf, vi>> \in damaged /\ phase' = "panicked" /\ UNCHANGED vi
    /\ UNCHANGED <<damaged, vf, ctx, req>>

(* Mutant: the loop moves past the last chunk file.                      *)
NextFileOverrun ==
    /\ phase = "verify"
    /\ vi = LoopBound(vf)
    /\ vf' = vf + 1 /\ vi' = 0
    /\ UNCHANGED <<damaged, phase, ctx, req>>

(* The loop over chunk files moves on; after the last, the server binds.  *)
NextFile ==
    /\ phase = "verify"
    /\ vi = LoopBound(vf)
    /\ IF vf < Len(FileSizes)
         THEN vf' = vf + 1 /\ vi' = 0 /\ UNCHANGED phase
         ELSE phase' = "serving" /\ UNCHANGED <<vf, vi>>
    /\ UNCHANGED <<damaged, ctx, req>>

-----------------------------------------------------------------------------
(* Serving: handle_request.                                               *)

(* A client's request reaches handle_request.                             *)
Arrive(r) ==
    /\ phase = "serving"
    /\ req[r].pc = "idle"
    /\ req' = [req EXCEPT ![r].pc = "waiting"]
    /\ UNCHANGED <<startVars, ctx>>

(* context.lock().await, for a route that takes it.                       *)
Acquire(r) ==
    /\ req[r].pc = "waiting"
    /\ Locks(req[r].msg)
    /\ ctx = NoReq
    /\ ctx' = r
    /\ req' = [req EXCEPT ![r].pc = "handling"]
    /\ UNCHANGED startVars

(* The handler returns; the context guard, if held, is dropped.           *)
Respond(r) ==
    /\ req[r].pc \in {"waiting", "handling"}
    /\ req[r].pc = "waiting" => ~Locks(req[r].msg)
    /\ req' = [req EXCEPT ![r].pc = "answered", ![r].status = Answer(req[r].msg)]
    /\ ctx' = IF req[r].pc = "handling" THEN NoReq ELSE ctx
    /\ UNCHANGED startVars

-----------------------------------------------------------------------------
(* The process has exited, or hyper waits for connections.              *)
Idle == phase \in {"serving", "panicked"}

StartStep == ReadSubfile \/ VerifyChunk \/ NextFile

Next ==
    \/ StartStep
    \/ \E r \in Reqs : Arrive(r) \/ Acquire(r) \/ Respond(r)
    \/ Idle /\ UNCHANGED vars

Spec == Init /\ [][Next]_vars

(* Startup runs to completion: initialize_subfile_server_context awaits   *)
(* only IPFS cats, which time out after 10 s, and local reads.  No       *)
(* property here is about requests, and clients are not obliged to send. *)
FairSpec == Spec /\ WF_vars(StartStep)

-----------------------------------------------------------------------------
(* Properties.                                                            *)

(* No content (200 or 206) is served to a request without the exact       *)
(* bearer token while a free-query token is configured (file_service's   *)
(* auth check, spec section 4).                                           *)
ContentOnlyWhenAuthorized ==
    \A r \in Reqs :
        /\ req[r].msg.route = "file"
        /\ req[r].status \in {"200", "206"}
        => (ServerToken => req[r].msg.auth = "bearer")

(* The server answers requests only when every chunk of every served    *)
(* file matches its hash: the verification loop reaches each chunk index  *)
(* of each chunk file before the port is bound, so whichever chunk is    *)
(* bad, startup rejects it (spec section 4.4.1, step 3).                  *)
VerifiedBeforeServing == phase = "serving" => damaged = {}

(* Once the manifests are read, a server whose local files match them    *)
(* finishes startup verification and serves (spec section 4, startup).    *)
IntactServerStarts ==
    (damaged = {} /\ phase = "verify") ~> (phase = "serving")

(* The range request request_chunk sends (client mod.rs:447-457): a       *)
(* file_hash header, not file_name, and a Content-Range.                  *)
DownloaderRequest(tok) ==
    [route |-> "file", auth |-> tok, id |-> "served", fileName |-> FALSE,
     range |-> "valid"]

(* A range request built by the downloader is answered 206 by a server    *)
(* that has the manifest (tests/file_transfer.rs asserts the download     *)
(* succeeds).                                                             *)
DownloaderRequestsServed ==
    \A r \in Reqs :
        req[r].pc = "answered" /\ req[r].msg = DownloaderRequest(req[r].msg.auth)
        => req[r].status = "206"

-----------------------------------------------------------------------------
(* Refinement of the server contract (ServerContract).  The server is up  *)
(* once init_server binds; a request holding the context mutex has not    *)
(* been answered yet, so to its client it is still waiting.               *)

ContractView(r) ==
    [pc |-> IF req[r].pc = "handling" THEN "waiting" ELSE req[r].pc,
     msg |-> req[r].msg,
     status |-> req[r].status]

C == INSTANCE ServerContract WITH
        serving <- (phase = "serving"),
        reqA <- [r \in Reqs |-> ContractView(r)]

(* handle_request, with the startup verification and the context mutex,   *)
(* implements the contract of spec section 4.4: each request is answered  *)
(* once, with the status the spec prescribes for its headers, and only    *)
(* after the server has bound its port.                                   *)
ContractSpec == C!Spec

=============================================================================
