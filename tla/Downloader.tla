----------------------------- MODULE Downloader -----------------------------
(***************************************************************************)
(* The download engine of subfile-exchange (src/subfile-exchange/src/      *)
(* subfile_client/mod.rs): SubfileDownloader::download_subfile walks the   *)
(* manifest's files one at a time; for each, download_chunk_file fetches   *)
(* the chunk file, probes the static endpoints (check_availability),       *)
(* creates the output file and spawns one tokio task per chunk index.  A   *)
(* task (download_chunk_and_write_to_file) requests its range from one     *)
(* endpoint, verifies the body against the chunk hash, retries up to       *)
(* max_retry times, and writes the verified bytes under the file's mutex   *)
(* with a seek followed by a write.  A failing task blocklists the URL it  *)
(* queried.  The main task then awaits the handles in index order.  No     *)
(* request has a timeout, so one that is never answered hangs its task.    *)
(*                                                                         *)
(* Data is abstracted: the byte at offset p of every source file is the    *)
(* value p, so a byte written at the wrong offset is visible, and a        *)
(* response body is the byte range it carries (or garbage).                *)
(***************************************************************************)
EXTENDS Integers, Sequences, FiniteSets

CONSTANTS
    Endpoints,      \* the static indexer endpoints (args.indexer_endpoints)
    Behaviour,      \* what each endpoint does: one of EndpointKinds
    FileSizes,      \* total_bytes of each file of the manifest, in order
    ChunkSize,      \* chunk_size of the chunk files
    MaxRetries,     \* the values chunk_max_retry (args.max_retry) is run with
    AuthTokens,     \* the values free_query_auth_token is run with: Some = TRUE
    StoreFailures,  \* an IPFS cat may fail or time out
    IOFailures,     \* a local create, write or metadata call may fail
    NoTask          \* model value: the file mutex is free

(* honest: advertises the manifest and serves the requested range;        *)
(* failing: advertises it but answers every range request with an error;  *)
(* corrupt: advertises it but returns bytes that do not verify;           *)
(* unreachable: fails the availability probe; stalling: advertises it but *)
(* never answers a range request; flaky: any of these, and its probes may *)
(* never answer either.  reqwest has no default timeout and the code sets *)
(* none, so a request that is never answered is awaited forever.          *)
EndpointKinds == {"honest", "failing", "corrupt", "unreachable", "stalling", "flaky"}

ASSUME DownloaderAssumption ==
    /\ Endpoints # {}
    /\ Behaviour \in [Endpoints -> EndpointKinds]
    /\ FileSizes \in Seq(Nat) /\ Len(FileSizes) >= 1
    /\ ChunkSize \in Nat \ {0}
    /\ MaxRetries \subseteq Nat /\ MaxRetries # {}
    /\ AuthTokens \subseteq BOOLEAN /\ AuthTokens # {}
    /\ StoreFailures \in BOOLEAN
    /\ IOFailures \in BOOLEAN

Files == 1..Len(FileSizes)
Min(a, b) == IF a <= b THEN a ELSE b

(* ChunkFile::new: ceil(total_bytes / chunk_size) chunk hashes.           *)
NumHashes(f) == (FileSizes[f] + ChunkSize - 1) \div ChunkSize

(* The byte range [first, last] that chunk_hashes[i] is the digest of.    *)
ChunkRange(f, i) ==
    <<i * ChunkSize, Min((i + 1) * ChunkSize, FileSizes[f]) - 1>>

(* The bound of the chunk loop: 0..(total_bytes / chunk_size + 1).        *)
LoopBound(f) == FileSizes[f] \div ChunkSize + 1

MaxSize == LET m == CHOOSE f \in Files : \A g \in Files : FileSizes[g] <= FileSizes[f]
           IN FileSizes[m]
(* One task per index of each file's spawn loop.                          *)
Tasks == UNION {{f} \X (0..(LoopBound(f) - 1)) : f \in Files}
Pos == 0..(MaxSize + ChunkSize)
Hole == -1                  \* a byte never written since File::create

ASSUME NoTaskAssumption == NoTask \notin Tasks

(* What one range request can return from an endpoint of kind k:         *)
(* "chunk" = 2xx with Content-Range and the requested bytes as body;      *)
(* "hang" = send().await never completes.                                 *)
Responses(k) ==
    CASE k = "honest"      -> {"chunk"}
      [] k = "failing"     -> {"transport"}
      [] k = "corrupt"     -> {"garbage"}
      [] k = "unreachable" -> {"transport"}
      [] k = "stalling"    -> {"hang"}
      [] k = "flaky"       -> {"chunk", "garbage", "transport", "hang"}

(* Whether check_endpoint_availability can succeed / fail for kind k.    *)
ProbeOutcomes(k) ==
    CASE k = "unreachable" -> {FALSE}
      [] k = "flaky"       -> {TRUE, FALSE}
      [] OTHER             -> {TRUE}

(* Whether /status or /operator of an endpoint of kind k may never answer. *)
ProbeHangs(k) == k = "flaky"

(* The URL a task requests and its wrapper inserts into the blocklist on   *)
(* failure: the endpoint followed by /subfiles/id/<manifest hash>.         *)
QueryEndpoint(e) == <<e, "/subfiles/id/">>

MainStates == {"fetch_manifest", "fetch_chunk_file", "probe", "spawn", "join",
               "done", "failed", "panicked"}
TaskStates == {"none", "req", "hung", "sleep", "lock", "seek", "write", "ok", "err",
               "panicked"}
TaskEnded == {"none", "ok", "err", "panicked"}

VARIABLES
    hasAuthToken, \* free_query_auth_token is Some(_); fixed by SubfileDownloader::new
    maxRetry,     \* chunk_max_retry; fixed by SubfileDownloader::new
    main,         \* where download_subfile / download_chunk_file is
    cur,          \* the manifest entry being downloaded
    idx,          \* the chunk index of the spawn loop or of the join loop
    chunkFailed,  \* failed is non-empty for the current file
    incomplete,   \* incomplete_files (as file indices)
    completed,    \* files whose download_chunk_file returned Ok
    blocklist,    \* indexer_blocklist: endpoint URLs and query URLs
    probing,      \* endpoints whose availability check is in flight
    stalled,      \* endpoints whose availability check will never return
    query,        \* query_endpoints returned by check_availability
    task,         \* the DownloadRangeRequest and progress of each task
    fileLock,     \* holder of each output file's tokio Mutex
    cursor,       \* the file handle's position
    out           \* the bytes of each output file

vars == <<hasAuthToken, maxRetry, main, cur, idx, chunkFailed, incomplete, completed, blocklist,
          probing, stalled, query, task, fileLock, cursor, out>>
mainVars == <<main, cur, idx, chunkFailed, incomplete, completed>>

TaskRec == [pc : TaskStates, ep : Endpoints, attempts : Nat,
            start : Int, end : Int]

TypeOK ==
    /\ hasAuthToken \in BOOLEAN
    /\ maxRetry \in Nat
    /\ main \in MainStates
    /\ cur \in Files
    /\ idx \in Nat
    /\ chunkFailed \in BOOLEAN
    /\ incomplete \subseteq Files
    /\ completed \subseteq Files
    /\ blocklist \subseteq Endpoints \cup {QueryEndpoint(e) : e \in Endpoints}
    /\ probing \subseteq Endpoints
    /\ stalled \subseteq Endpoints
    /\ query \subseteq Endpoints
    /\ task \in [Tasks -> TaskRec]
    /\ fileLock \in [Files -> Tasks \cup {NoTask}]
    /\ cursor \in [Files -> Int]
    /\ out \in [Files -> [Pos -> Int]]

Init ==
    /\ hasAuthToken \in AuthTokens
    /\ maxRetry \in MaxRetries
    /\ main = "fetch_manifest"
    /\ cur = 1
    /\ idx = 0
    /\ chunkFailed = FALSE
    /\ incomplete = {}
    /\ completed = {}
    /\ blocklist = {}
    /\ probing = {}
    /\ stalled = {}
    /\ query = {}
    /\ task = [t \in Tasks |-> [pc |-> "none", ep |-> CHOOSE e \in Endpoints : TRUE,
                                attempts |-> 0, start |-> 0, end |-> 0]]
    /\ fileLock = [f \in Files |-> NoTask]
    /\ cursor = [f \in Files |-> 0]
    /\ out = [f \in Files |-> [p \in Pos |-> Hole]]

-----------------------------------------------------------------------------
(* The main task: download_subfile and download_chunk_file.               *)

(* Mutant: the next entry is taken even after the last one.             *)
FinishFileOverrun(ok) ==
    /\ completed' = IF ok THEN completed \cup {cur} ELSE completed
    /\ incomplete' = IF ok THEN incomplete ELSE incomplete \cup {cur}
    /\ main' = "fetch_chunk_file" /\ cur' = cur + 1
    /\ idx' = 0
    /\ chunkFailed' = FALSE

(* download_chunk_file returns Ok (ok) or Err for file cur; the loop of   *)
(* download_subfile moves to the next entry or returns.                   *)
FinishFile(ok) ==
    /\ completed' = IF ok THEN completed \cup {cur} ELSE completed
    /\ incomplete' = IF ok THEN incomplete ELSE incomplete \cup {cur}
    /\ IF cur < Len(FileSizes)
         THEN main' = "fetch_chunk_file" /\ cur' = cur + 1
         ELSE /\ main' = IF incomplete' = {} THEN "done" ELSE "failed"
              /\ cur' = cur
    /\ idx' = 0
    /\ chunkFailed' = FALSE

(* fetch_subfile_from_ipfs for the manifest; `?` returns its error.       *)
FetchSubfile ==
    /\ main = "fetch_manifest"
    /\ \/ main' = "fetch_chunk_file"
       \/ StoreFailures /\ main' = "failed"
    /\ UNCHANGED <<hasAuthToken, maxRetry, cur, idx, chunkFailed, incomplete, completed, blocklist,
                   probing, stalled, query, task, fileLock, cursor, out>>

(* check_availability's snapshot of the blocklist filters the static     *)
(* endpoints by membership: only an endpoint URL itself excludes one.     *)
UnblockedEndpoints == Endpoints \ blocklist

(* fetch_chunk_file_from_ipfs, then check_availability snapshots the      *)
(* blocklist and starts one probe per endpoint not in it.                 *)
FetchChunkFile ==
    /\ main = "fetch_chunk_file"
    /\ \/ /\ main' = "probe"
          /\ probing' = UnblockedEndpoints
          /\ query' = {}
          /\ UNCHANGED <<hasAuthToken, maxRetry, cur, idx, chunkFailed, incomplete, completed>>
       \/ /\ StoreFailures
          /\ FinishFile(FALSE)
          /\ UNCHANGED <<probing, query>>
    /\ UNCHANGED <<hasAuthToken, maxRetry, blocklist, stalled, task, fileLock, cursor, out>>

(* check_endpoint_availability(e): /status must list the manifest and     *)
(* /operator must parse; any failure blocklists e.  A request that is     *)
(* never answered leaves the probe, and buffer_unordered's collect, in    *)
(* flight forever.                                                        *)
CheckEndpointAvailability(e) ==
    /\ main = "probe"
    /\ e \in probing \ stalled
    /\ \/ /\ probing' = probing \ {e}
          /\ \E ok \in ProbeOutcomes(Behaviour[e]) :
               IF ok THEN query' = query \cup {e} /\ UNCHANGED blocklist
                     ELSE blocklist' = blocklist \cup {e} /\ UNCHANGED query
          /\ UNCHANGED stalled
       \/ /\ ProbeHangs(Behaviour[e])
          /\ stalled' = stalled \cup {e}
          /\ UNCHANGED <<probing, query, blocklist>>
    /\ UNCHANGED <<hasAuthToken, maxRetry, mainVars, task, fileLock, cursor, out>>

(* All probes are collected: File::create(...).unwrap() truncates the     *)
(* output file, or panics.                                                *)
CreateOutputFile ==
    /\ main = "probe"
    /\ probing = {}
    /\ \/ /\ main' = "spawn"
          /\ out' = [out EXCEPT ![cur] = [p \in Pos |-> Hole]]
          /\ cursor' = [cursor EXCEPT ![cur] = 0]
       \/ IOFailures /\ main' = "panicked" /\ UNCHANGED <<hasAuthToken, maxRetry, out, cursor>>
    /\ UNCHANGED <<hasAuthToken, maxRetry, cur, idx, chunkFailed, incomplete, completed, blocklist,
                   probing, stalled, query, task, fileLock>>

(* Mutant: end = min(start + chunk_size, total_bytes), without the - 1.  *)
DownloadRangeRequestInclusiveEnd(e) ==
    [pc |-> "req", ep |-> e, attempts |-> 0,
     start |-> idx * ChunkSize,
     end |-> Min(idx * ChunkSize + ChunkSize, FileSizes[cur])]

(* download_range_request for chunk idx of file cur and endpoint e: the   *)
(* inclusive byte range [start, end] of the DownloadRangeRequest.         *)
DownloadRangeRequest(e) ==
    [pc |-> "req", ep |-> e, attempts |-> 0,
     start |-> idx * ChunkSize,
     end |-> Min(idx * ChunkSize + ChunkSize, FileSizes[cur]) - 1]

(* One iteration of the spawn loop: download_range_request picks an      *)
(* endpoint (an Err if there is none), computes start and end and reads   *)
(* chunk_hashes[i] (a panic when i is out of bounds); tokio::spawn starts *)
(* the task.                                                              *)
SpawnChunkTask ==
    /\ main = "spawn"
    /\ idx < LoopBound(cur)
    /\ \/ query = {} /\ FinishFile(FALSE) /\ UNCHANGED task
       \/ /\ query # {}
          /\ idx >= NumHashes(cur)
          /\ main' = "panicked"
          /\ UNCHANGED <<hasAuthToken, maxRetry, cur, idx, chunkFailed, incomplete, completed, task>>
       \/ /\ query # {}
          /\ idx < NumHashes(cur)
          /\ \E e \in query :
               task' = [task EXCEPT ![<<cur, idx>>] = DownloadRangeRequest(e)]
          /\ main' = IF idx + 1 = LoopBound(cur) THEN "join" ELSE "spawn"
          /\ idx' = IF idx + 1 = LoopBound(cur) THEN 0 ELSE idx + 1
          /\ UNCHANGED <<hasAuthToken, maxRetry, cur, chunkFailed, incomplete, completed>>
    /\ UNCHANGED <<hasAuthToken, maxRetry, blocklist, probing, stalled, query, fileLock, cursor, out>>

(* Mutant: an Err handle is not pushed to failed.                        *)
JoinChunkTaskIgnoringErrors ==
    LET t == <<cur, idx>> IN
    /\ main = "join"
    /\ idx < LoopBound(cur)
    /\ \/ /\ task[t].pc \in {"ok", "err"}
          /\ fileLock[cur] = NoTask
          /\ idx' = idx + 1
          /\ UNCHANGED <<hasAuthToken, maxRetry, main, cur, chunkFailed, incomplete, completed>>
       \/ task[t].pc = "panicked" /\ FinishFile(FALSE)
    /\ UNCHANGED <<hasAuthToken, maxRetry, blocklist, probing, stalled, query, task, fileLock, cursor, out>>

(* Mutant: the handle is not awaited; a task still running counts as Ok. *)
JoinChunkTaskNotAwaited ==
    LET t == <<cur, idx>> IN
    /\ main = "join"
    /\ idx < LoopBound(cur)
    /\ \/ /\ task[t].pc \in {"req", "sleep", "lock", "seek", "write", "ok"}
          /\ fileLock[cur] = NoTask
          /\ \/ idx' = idx + 1 /\ UNCHANGED <<hasAuthToken, maxRetry, main, cur, chunkFailed, incomplete, completed>>
             \/ IOFailures /\ FinishFile(FALSE)
       \/ /\ task[t].pc = "err"
          /\ idx' = idx + 1
          /\ chunkFailed' = TRUE
          /\ UNCHANGED <<hasAuthToken, maxRetry, main, cur, incomplete, completed>>
       \/ task[t].pc = "panicked" /\ FinishFile(FALSE)
    /\ UNCHANGED <<hasAuthToken, maxRetry, blocklist, probing, stalled, query, task, fileLock, cursor, out>>

(* handle.await? for chunk idx: a JoinError returns Err at once; an Ok    *)
(* locks the file to read its metadata (whose error is returned by `?`); *)
(* an Err is pushed to failed.                                            *)
JoinChunkTask ==
    LET t == <<cur, idx>> IN
    /\ main = "join"
    /\ idx < LoopBound(cur)
    /\ \/ /\ task[t].pc = "ok"
          /\ fileLock[cur] = NoTask
          /\ \/ idx' = idx + 1 /\ UNCHANGED <<hasAuthToken, maxRetry, main, cur, chunkFailed, incomplete, completed>>
             \/ IOFailures /\ FinishFile(FALSE)
       \/ /\ task[t].pc = "err"
          /\ idx' = idx + 1
          /\ chunkFailed' = TRUE
          /\ UNCHANGED <<hasAuthToken, maxRetry, main, cur, incomplete, completed>>
       \/ task[t].pc = "panicked" /\ FinishFile(FALSE)
    /\ UNCHANGED <<hasAuthToken, maxRetry, blocklist, probing, stalled, query, task, fileLock, cursor, out>>

(* After the join loop: Err("Failed chunks") if any chunk failed.         *)
FinishChunkFile ==
    /\ main = "join"
    /\ idx = LoopBound(cur)
    /\ FinishFile(~chunkFailed)
    /\ UNCHANGED <<hasAuthToken, maxRetry, blocklist, probing, stalled, query, task, fileLock, cursor, out>>

-----------------------------------------------------------------------------
(* A chunk task: download_chunk_and_write_to_file and the spawn wrapper.  *)

(* A failing task returns Err; the wrapper inserts the URL it queried,     *)
(* request.query_endpoint, into the blocklist, which check_availability    *)
(* compares with the bare endpoints.                                       *)
FailTask(t) ==
    /\ task' = [task EXCEPT ![t].pc = "err"]
    /\ blocklist' = blocklist \cup {QueryEndpoint(task[t].ep)}

(* Mutant: a body that fails verify_chunk loops without counting.        *)
RequestChunkNoCount(t) ==
    LET r == task[t] IN
    /\ r.pc = "req"
    /\ \/ /\ ~hasAuthToken
          /\ task' = [task EXCEPT ![t].pc = "panicked"]
          /\ UNCHANGED blocklist
       \/ /\ hasAuthToken
          /\ \E resp \in Responses(Behaviour[r.ep]) :
               LET verified == resp = "chunk" /\ <<r.start, r.end>> = ChunkRange(t[1], t[2]) IN
               \/ verified /\ task' = [task EXCEPT ![t].pc = "lock"] /\ UNCHANGED blocklist
               \/ resp = "hang" /\ task' = [task EXCEPT ![t].pc = "hung"] /\ UNCHANGED blocklist
               \/ resp = "garbage" /\ task' = [task EXCEPT ![t].pc = "sleep"] /\ UNCHANGED blocklist
               \/ /\ resp = "transport"
                  /\ r.attempts + 1 >= maxRetry
                  /\ FailTask(t)
               \/ /\ resp = "transport"
                  /\ r.attempts + 1 < maxRetry
                  /\ task' = [task EXCEPT ![t] = [r EXCEPT !.attempts = r.attempts + 1, !.pc = "sleep"]]
                  /\ UNCHANGED blocklist
    /\ UNCHANGED <<hasAuthToken, maxRetry, mainVars, probing, stalled, query, fileLock, cursor, out>>

(* One attempt: request_chunk (whose auth_token.expect panics without a   *)
(* token; its send().await may never complete), then verify_chunk; a      *)
(* failure counts an attempt and either gives up at max_retry or sleeps   *)
(* and loops.                                                             *)
RequestChunk(t) ==
    LET r == task[t] IN
    /\ r.pc = "req"
    /\ \/ /\ ~hasAuthToken
          /\ task' = [task EXCEPT ![t].pc = "panicked"]
          /\ UNCHANGED blocklist
       \/ /\ hasAuthToken
          /\ \E resp \in Responses(Behaviour[r.ep]) :
               LET verified == resp = "chunk" /\ <<r.start, r.end>> = ChunkRange(t[1], t[2]) IN
               \/ verified /\ task' = [task EXCEPT ![t].pc = "lock"] /\ UNCHANGED blocklist
               \/ resp = "hang" /\ task' = [task EXCEPT ![t].pc = "hung"] /\ UNCHANGED blocklist
               \/ /\ resp \in {"chunk", "garbage", "transport"} /\ ~verified
                  /\ r.attempts + 1 >= maxRetry
                  /\ FailTask(t)
               \/ /\ resp \in {"chunk", "garbage", "transport"} /\ ~verified
                  /\ r.attempts + 1 < maxRetry
                  /\ task' = [task EXCEPT ![t] = [r EXCEPT !.attempts = r.attempts + 1, !.pc = "sleep"]]
                  /\ UNCHANGED blocklist
    /\ UNCHANGED <<hasAuthToken, maxRetry, mainVars, probing, stalled, query, fileLock, cursor, out>>

(* tokio::time::sleep(1s) between attempts, then the loop requests again. *)
RetryAfterSleep(t) ==
    /\ task[t].pc = "sleep"
    /\ task' = [task EXCEPT ![t].pc = "req"]
    /\ UNCHANGED <<hasAuthToken, maxRetry, mainVars, blocklist, probing, stalled, query, fileLock, cursor, out>>

(* Mutant: the seek and write are done without taking the file mutex.   *)
AcquireFileLockUnguarded(t) ==
    /\ task[t].pc = "lock"
    /\ fileLock' = [fileLock EXCEPT ![t[1]] = t]
    /\ task' = [task EXCEPT ![t].pc = "seek"]
    /\ UNCHANGED <<hasAuthToken, maxRetry, mainVars, blocklist, probing, stalled, query, cursor, out>>

(* request.file.lock().await                                              *)
AcquireFileLock(t) ==
    /\ task[t].pc = "lock"
    /\ fileLock[t[1]] = NoTask
    /\ fileLock' = [fileLock EXCEPT ![t[1]] = t]
    /\ task' = [task EXCEPT ![t].pc = "seek"]
    /\ UNCHANGED <<hasAuthToken, maxRetry, mainVars, blocklist, probing, stalled, query, cursor, out>>

(* file_lock.seek(SeekFrom::Start(request.start)); when it fails, `?`     *)
(* drops the guard and returns Err.                                       *)
SeekChunk(t) ==
    /\ task[t].pc = "seek"
    /\ \/ /\ cursor' = [cursor EXCEPT ![t[1]] = task[t].start]
          /\ task' = [task EXCEPT ![t].pc = "write"]
          /\ UNCHANGED <<fileLock, blocklist>>
       \/ /\ IOFailures
          /\ fileLock' = [fileLock EXCEPT ![t[1]] = NoTask]
          /\ FailTask(t)
          /\ UNCHANGED cursor
    /\ UNCHANGED <<hasAuthToken, maxRetry, mainVars, probing, stalled, query, out>>

(* The file after writing the first n bytes of the body of t at the       *)
(* cursor; the body is the source bytes start..end.                       *)
Written(t, n) ==
    LET f == t[1]  c == cursor[t[1]] IN
    [p \in Pos |-> IF c <= p /\ p < c + n THEN task[t].start + (p - c)
                   ELSE out[f][p]]

(* write_all(&data) and drop(file_lock); then Ok.  When write_all fails   *)
(* after n < len bytes, `?` drops the guard and returns Err.              *)
WriteChunk(t) ==
    LET f == t[1]  len == task[t].end - task[t].start + 1 IN
    /\ task[t].pc = "write"
    /\ fileLock' = [fileLock EXCEPT ![f] = NoTask]
    /\ \/ /\ out' = [out EXCEPT ![f] = Written(t, len)]
          /\ cursor' = [cursor EXCEPT ![f] = cursor[f] + len]
          /\ task' = [task EXCEPT ![t].pc = "ok"]
          /\ UNCHANGED blocklist
       \/ /\ IOFailures
          /\ \E n \in 0..(len - 1) :
               /\ out' = [out EXCEPT ![f] = Written(t, n)]
               /\ cursor' = [cursor EXCEPT ![f] = cursor[f] + n]
          /\ FailTask(t)
    /\ UNCHANGED <<hasAuthToken, maxRetry, mainVars, probing, stalled, query>>

-----------------------------------------------------------------------------
Terminated ==
    /\ main \in {"done", "failed", "panicked"}
    /\ \A t \in Tasks : task[t].pc \in TaskEnded

(* The download waits forever on a request that is never answered.       *)
Hung ==
    \/ stalled # {}
    \/ \E t \in Tasks : task[t].pc = "hung"

MainStep ==
    \/ FetchSubfile
    \/ FetchChunkFile
    \/ \E e \in Endpoints : CheckEndpointAvailability(e)
    \/ CreateOutputFile
    \/ SpawnChunkTask
    \/ JoinChunkTask
    \/ FinishChunkFile

TaskStep(t) ==
    \/ RequestChunk(t)
    \/ RetryAfterSleep(t)
    \/ AcquireFileLock(t)
    \/ SeekChunk(t)
    \/ WriteChunk(t)

Next ==
    \/ MainStep
    \/ \E t \in Tasks : TaskStep(t)
    \/ (Terminated \/ Hung) /\ UNCHANGED vars

Spec == Init /\ [][Next]_vars

(* The tokio runtime polls every ready task: each task and the main task  *)
(* keep running while they can.  A request that never returns is not a    *)
(* fairness matter: it is the explicit "hung" outcome (or a stalled probe) *)
(* after which nothing can be ready again.                                 *)
FairSpec == Spec /\ WF_vars(MainStep) /\ \A t \in Tasks : WF_vars(TaskStep(t))

-----------------------------------------------------------------------------
(* Properties.                                                            *)

(* Whatever tasks interleave, every byte on disk is the source byte of    *)
(* its own offset: the seek and the write of a chunk happen under the     *)
(* file mutex, and only bodies that pass verify_chunk are written.        *)
OutputMatchesSource ==
    \A f \in Files : \A p \in Pos : out[f][p] \in {Hole, p}

(* The strengthening of OutputMatchesSource that is inductive: a task     *)
(* between seek and write holds the file mutex and the cursor is at its   *)
(* chunk's start; no task of a file exists before that file is created.  *)
LockHeldWhileWriting ==
    \A t \in Tasks : task[t].pc \in {"seek", "write"} => fileLock[t[1]] = t

CursorAtChunkStart ==
    \A t \in Tasks : task[t].pc = "write" => cursor[t[1]] = task[t].start

IdleAheadOfMain ==
    \A t \in Tasks :
        (t[1] > cur \/ (t[1] = cur /\ main \in {"fetch_manifest", "fetch_chunk_file", "probe"}))
           => task[t].pc = "none"

IInv ==
    /\ TypeOK
    /\ OutputMatchesSource
    /\ LockHeldWhileWriting
    /\ CursorAtChunkStart
    /\ IdleAheadOfMain

(* When download_chunk_file returns Ok for a file, the output file holds  *)
(* exactly the source: every byte below total_bytes written, none beyond. *)
CompletedFilesIntact ==
    \A f \in completed : \A p \in Pos :
        out[f][p] = IF p < FileSizes[f] THEN p ELSE Hole

(* A file reported complete is never written again: no chunk task of it  *)
(* is still running detached, and File::create is never called on it     *)
(* again, while the later entries of the manifest are downloaded.         *)
CompletedFilesFrozen ==
    [][\A f \in completed : out'[f] = out[f]]_vars

(* The strengthening under which CompletedFilesIntact is inductive: a     *)
(* spawned task carries its chunk's range; a task that returned Ok wrote  *)
(* it; nothing is written at or past total_bytes; the join loop has seen  *)
(* only Ok tasks below idx, whose bytes are on disk, unless a chunk       *)
(* failed; and a completed file lies behind the main task with all its    *)
(* tasks Ok.                                                              *)
TaskRange ==
    \A t \in Tasks :
        task[t].pc # "none" => <<task[t].start, task[t].end>> = ChunkRange(t[1], t[2])

OkWritten ==
    \A t \in Tasks : task[t].pc = "ok" =>
        \A p \in Pos : task[t].start <= p /\ p <= task[t].end => out[t[1]][p] = p

BeyondUnwritten ==
    \A f \in Files : \A p \in Pos : p >= FileSizes[f] => out[f][p] = Hole

JoinedOk ==
    main = "join" /\ ~chunkFailed =>
        /\ idx <= LoopBound(cur)
        /\ \A t \in Tasks : t[1] = cur /\ t[2] < idx => task[t].pc = "ok"

JoinedWritten ==
    main = "join" /\ ~chunkFailed =>
        \A p \in Pos : p < Min(idx * ChunkSize, FileSizes[cur]) => out[cur][p] = p

CompletedBehind ==
    \A f \in completed : f < cur \/ main \in {"done", "failed"}

CompletedTasksOk ==
    \A t \in Tasks : t[1] \in completed => task[t].pc = "ok"

CInv ==
    /\ IInv
    /\ TaskRange
    /\ OkWritten
    /\ BeyondUnwritten
    /\ JoinedOk
    /\ JoinedWritten
    /\ CompletedBehind
    /\ CompletedTasksOk
    /\ CompletedFilesIntact

(* The setting of the honest runs: every endpoint serves, no IPFS cat or *)
(* local file call fails, free_query_auth_token is Some, and no file's    *)
(* total_bytes is a multiple of chunk_size (so the spawn loop never reads *)
(* past chunk_hashes).                                                    *)
HonestSetting ==
    /\ \A e \in Endpoints : Behaviour[e] = "honest"
    /\ ~StoreFailures /\ ~IOFailures
    /\ AuthTokens = {TRUE}
    /\ \A f \in Files : FileSizes[f] % ChunkSize # 0

(* The strengthening under which SucceedsIfServed is inductive in that    *)
(* setting: no endpoint is blocklisted, every probe answers, no task      *)
(* fails or panics, so no chunk fails and no file is incomplete.          *)
ServedInv ==
    /\ CInv
    /\ hasAuthToken
    /\ blocklist = {}
    /\ main \notin {"failed", "panicked"}
    /\ incomplete = {}
    /\ ~chunkFailed
    /\ stalled = {}
    /\ \A t \in Tasks : task[t].pc \notin {"err", "panicked", "hung"}
    /\ main = "probe" => query \cup probing = Endpoints
    /\ main \in {"spawn", "join"} => query = Endpoints

(* download_subfile, run against endpoints that all serve the manifest,   *)
(* ends with Ok (spec section 8, scenarios 1-4 and 6).                    *)
SucceedsIfServed == Terminated => main = "done"

(* The download always ends (spec section 5: implementations SHOULD give *)
(* each request a deadline "to avoid hung tasks").  The code sets no      *)
(* timeout on its reqwest client, so an endpoint that never answers hangs *)
(* the download.                                                          *)
Termination == <>Terminated

(* The download ends or waits on a request that is never answered: the    *)
(* retry loop is bounded by max_retry (also when it is 0), every task      *)
(* releases the file mutex, and the main task joins every handle.          *)
TerminatesUnlessHung == <>(Terminated \/ Hung)

(* When the next file is probed, an endpoint whose chunk task failed is  *)
(* not probed again (spec 4.6.3: the chunk's endpoint is added to the     *)
(* blocklist and future probes exclude it; the wrapper's comment: "add    *)
(* the URL to the indexer_blocklist").                                    *)
FailedEndpointsNotReprobed ==
    [][main = "fetch_chunk_file" /\ main' = "probe" =>
         \A t \in Tasks : task[t].pc = "err" => task[t].ep \notin probing']_vars

=============================================================================
