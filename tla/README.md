# TLA+ models of subfile-exchange

This directory holds TLA+ specifications of the download engine, the
server and the publisher of `src/subfile-exchange`, and of the older server
of `src/subfile-cli`. It also holds the TLC configurations that model-check
them, and TLAPS proofs of the download engine's output integrity, of the
server's authorization, startup verification and refinement of its
contract, and of the publisher's all-or-nothing manifest.

## The system

A publisher splits files into chunks, hashes each chunk and publishes to
IPFS:

- a chunk file per file (`total_bytes`, `chunk_size`, `chunk_hashes`);
- a manifest (the subfile) listing the chunk files.

The **server** (`subfile_server/mod.rs`) works in two stages:

- **Startup.** It reads the configured manifests from IPFS and verifies every
  chunk of every local file against its hash. Any error aborts the process.
- **Serving.** It answers `/status`, `/operator`, `/health`, `/version` and the
  range service `/subfiles/id/<hash>`. The handlers share one `ServerContext`
  behind a tokio `Mutex`. `file_service` holds that mutex until its response is
  built.

The **downloader** (`subfile_client/mod.rs`) works through the manifest's files
one at a time. For each file it:

1. fetches the file's chunk file;
2. probes the static endpoints in parallel (`check_availability`), skipping the
   blocklist and blocklisting every endpoint that fails a probe;
3. creates (truncates) the output file;
4. spawns one tokio task per chunk index, each given a randomly chosen endpoint.

Each task then:

- requests its byte range (`request_chunk`) and verifies it;
- on failure, retries the same endpoint up to `max_retry` attempts, with a
  one-second sleep between them;
- once verified, takes the file's mutex, seeks and writes the chunk;
- on final failure, inserts the URL it queried (the endpoint followed by
  `/subfiles/id/<hash>`) into the blocklist. `check_availability` compares the
  blocklist with the bare endpoints, so this entry never excludes an endpoint.

No request has a timeout: the `reqwest` client is built without one. A range
request or a probe that is never answered is awaited forever.

The main task joins the handles in index order. A file with any failed chunk
is reported incomplete.

## Inventory

| Part | Source | Status |
|---|---|---|
| Download engine and chunk tasks | `subfile_client/mod.rs` | modelled: `Downloader` |
| Availability prober | `subfile_client/mod.rs` 66-105, 265-327 | modelled inside `Downloader` |
| Server startup verification | `subfile_server/mod.rs` 37-158 | modelled: `SubfileServer` |
| Server request handling | `subfile_server/mod.rs` 161-307 | modelled: `SubfileServer` |
| Server contract | spec section 4.4 | abstract: `ServerContract`, refined by `SubfileServer` and `CliServer` |
| IPFS reads | `subfile/subfile_reader.rs` | modelled: `Publication` (and a step that may fail in the others) |
| Publisher | `publisher.rs` | modelled: `Publication` |
| S3 object store | `subfile/remote_object_store.rs` | not modelled: I/O only, on no path modelled here |
| `subfile-cli` server | `subfile-cli/src/subfile_server/mod.rs` | modelled: `CliServer` |
| `torrent_leecher` | `util/librqbit/mod.rs` | not modelled: module declarations only |
| Hasher, `range.rs` | not under `src/` | spec-modelled: `NumHashes`, `ChunkRange` |

## Modules

### `Downloader.tla`

**Data abstraction.** The byte at offset `p` of every source file is the
value `p`, and `Hole` (-1) is a byte never written since `File::create`. A
range response is one of:

- `"chunk"`: 2xx with a `Content-Range` header, carrying the requested bytes;
- `"garbage"`: a body that fails `verify_chunk`;
- `"transport"`: an error;
- `"hang"`: no answer ever (a `stalling` endpoint, or a `flaky` one).

A response verifies only if it is a chunk **and** the requested range is the
range the hash covers (`ChunkRange`). An endpoint's `Behaviour` says which
responses and probe outcomes it can produce; a `flaky` endpoint can produce
all of them, and its probes may also never answer (`ProbeHangs`).

**State.**

- Main task: `main`, `cur`, `idx`, `chunkFailed`, `incomplete`, `completed`.
- Shared: `blocklist` (endpoint URLs from failed probes, query URLs
  `QueryEndpoint(e)` from failed tasks); `probing` (probes in flight);
  `stalled` (probes that will never return); `query` (the `query_endpoints`
  snapshot).
- Per task: `task[<<file, index>>]`, the `DownloadRangeRequest` plus `pc` and
  `attempts`.
- Per output file: `fileLock` (the mutex holder), `cursor` and `out`.
- Configuration: `hasAuthToken` (`free_query_auth_token` is `Some`) and
  `maxRetry` (`chunk_max_retry`), each chosen once from the run's constants.

**Actions.** Each action is one `await`-delimited step of the code.

| Action | Code it models |
|---|---|
| `FetchSubfile` | `fetch_subfile_from_ipfs` |
| `FetchChunkFile` | the chunk-file fetch, then `check_availability`'s blocklist snapshot (`UnblockedEndpoints`) |
| `CheckEndpointAvailability(e)` | one probe: it succeeds, fails and blocklists `e`, or never answers |
| `CreateOutputFile` | `File::create().unwrap()` |
| `SpawnChunkTask` | one iteration of the spawn loop with `download_range_request`, including the `chunk_hashes[i]` panic and the "no endpoint" `Err` |
| `JoinChunkTask` | `handle.await?`, the metadata lock, pushing to `failed` |
| `FinishChunkFile` | the "Failed chunks" check |
| `RequestChunk(t)` | `request_chunk`, `verify_chunk` and the retry counter; a request never answered leaves the task `"hung"` |
| `RetryAfterSleep(t)` | the sleep between attempts |
| `AcquireFileLock(t)` | taking the file mutex |
| `SeekChunk(t)` | `seek`, including its `?` error |
| `WriteChunk(t)` | `write_all`, including a partial write and `?` |
| `FailTask(t)` | the wrapper's blocklist insertion of `QueryEndpoint(ep)` |

`FinishFile` is shared: it is `download_subfile`'s loop moving to the next
entry or returning.

### `SubfileServer.tla`

**State.**

- Startup: `phase`, `vf`, `vi` (the verification loop) and `damaged`, the
  chunks `<<file, index>>` of the local files that do not read or do not
  match their hash. `Init` chooses it from `Damages`; the serve run allows
  every subset of `Chunks`.
- Serving: `ctx` (the `ServerContext` mutex holder) and `req` (each request's
  progress, its abstract headers and its answer).

**Actions.**

| Action | Code it models |
|---|---|
| `ReadSubfile` | `read_subfile` |
| `VerifyChunk` | one index of the verification loop: the `chunk_hashes[i]` panic, the `read_chunk` error or hash mismatch of a damaged chunk, or moving on |
| `NextFile` | moving to the next chunk file, or binding the server after the last |
| `Arrive(r)` | a request arriving |
| `Acquire(r)` | `context.lock()` |
| `Respond(r)` | the handler returns and drops the guard |
| `Idle` | the server waiting for connections |

`FileService`, `Answer`, `Authorized`, `Locks` and the request abstraction
`RequestRec` are in `ServerRequests.tla`, which both servers EXTEND.
`FileService` is `file_service`'s decision order:

1. auth (401);
2. manifest (404);
3. `file_name` header (406);
4. `Content-Range` parse error (`Err`, so no response);
5. otherwise 206 or 200.

`Answer` covers the routes the properties are about: `/status`, `/operator`,
`/health`, `/version` and the range service. The unknown-route 404 and `/`
are left out; no property distinguishes them.

`DownloaderRequest` is the request `request_chunk` builds: a `file_hash`
header, and no `file_name` header.

**Refinement.** `ContractView` maps a request in `"handling"` (holding the
context mutex) to `"waiting"`, and the contract's `serving` to
`phase = "serving"`. `ContractSpec` is `ServerContract`'s `Spec` under that
mapping: startup steps other than the bind are stutters, `Acquire` is a
stutter, `Respond` is the contract's `Answer`.

### `ServerContract.tla`

What the server promises a client (spec section 4.4), without the mutex
or the startup loop. Variables: `serving` and `reqA`. Actions: `Start`,
`Arrive(r)`, `Answer(r)`. `ContractStatus` is the spec's decision order:
401, 404, 406, then 400 for an unparsable `Content-Range`, then 206 or 200.

### `CliServer.tla`

The server of `subfile-cli`. That crate has no `Cargo.toml`, and its
`lib.rs` declares modules that are absent, but its server file is complete.
Its `handle_request` and `file_service` take the same decisions in the same
order as `subfile-exchange`'s. So its `Respond` answers with
`ServerRequests`' `Answer`, and `/operator` is a stub that takes no lock.
Its startup is `ReadSubfiles`:
`validate_subfile_entries`, `package_version` and `read_subfile`, each with
`?`, then `unwrap`. Nothing checks the local files.

### `Publication.tla`

`publish` and `read_subfile`, sharing a content-addressed store.

**Data abstraction.** The chunk file of the k-th configured file is named
`k`. A manifest is the sequence of the chunk files it lists. Both are
deterministic in the code, so this is exact up to hash collisions.

**State.** `chunkStore` and `manifestStore` (what IPFS holds); `pub` (a
publisher run: `pc`, the next file `i`, `root_hashes` as `roots`); `runs`;
`okHashes` (hashes a run returned `Ok`); `rd` (a `read_subfile` of one of
them).

**Actions.**

| Action | Code it models |
|---|---|
| `StartPublish` | the operator (re)running `publish` |
| `PublishFile` | one iteration of `hash_and_publish_files`: `write_chunk_file`'s `?`, the add's `?`, the push |
| `PublishManifest` | `construct_subfile_manifest` and `publish_subfile_manifest` |
| `StartRead` | `read_subfile` of a returned hash |
| `ReadManifest` | `fetch_subfile_from_ipfs` |
| `ReadChunkFile` | one `fetch_chunk_file_from_ipfs` |
| `ReadDone` | `read_subfile` returning |

An add may succeed, fail without storing, or store the content and still
return `Err` (a lost reply, `LostReplies`). A cat may find the content,
find it absent, or fail.

### MC modules

`MCPublication_retry.cfg` uses two files and three publisher runs, with
every failure allowed, so a failed run is followed by a retry over a store
that already holds some of its content. `MCCliServer.tla` uses two
requests. `MCDownloader.tla` and `MCSubfileServer.tla` give the model values: two
endpoints, two requests, and the manifests below.

- `<<3, 1>>` with chunk size 2. The first file has a short last chunk. The
  second file is one byte, so the last entry of the manifest is taken through
  both branches of `FinishFile`.
- `<<4>>` with chunk size 2. The size is an exact multiple of the chunk size.
- `<<3, 4>>` (the flaky run). The first file downloads. The spawn loop then
  panics on the second, while the tasks it already spawned keep running
  detached.

Two endpoints are enough for a task on each of two endpoints, one endpoint
failing or never answering while the other serves, and a failed endpoint
being probed again for the next file. The flaky run uses `max_retry` 0 and
2: 0 makes one attempt (the counter is incremented before it is compared),
and 2 makes a retry after a sleep. The
tasks of a file are its indices `0..total_bytes / chunk_size`, every index the
spawn loop can reach (`Tasks`). For the size 4 this includes the extra index of
the loop bound.

## Runs

| Run | Expect | Checks | Shows |
|---|---|---|---|
| `downloader_flaky` | pass | TypeOK, OutputMatchesSource, CompletedFilesIntact, CompletedFilesFrozen, TerminatesUnlessHung | flaky endpoints (including requests and probes never answered), store and I/O failures, `max_retry` 0 or 2, with and without a token: output holds only source bytes, files reported Ok are complete and never written again, and the download ends unless it waits on an unanswered request, even after the spawn loop panics and leaves detached tasks writing |
| `downloader_honest` | pass | SucceedsIfServed | honest endpoints and off-boundary sizes: the download returns Ok |
| `downloader_exact` | violation | SucceedsIfServed | exact-multiple size: `chunk_hashes[i]` out of bounds (mod.rs:361) |
| `downloader_failover` | violation | SucceedsIfServed | one failing endpoint: its chunks are retried only against it, so the file fails |
| `downloader_hang` | violation | Termination | an endpoint that never answers a range request hangs its task and the join loop: no request timeout (mod.rs:449-458); spec section 5 says a request SHOULD have a deadline to avoid hung tasks |
| `downloader_reprobe` | violation | FailedEndpointsNotReprobed | after a chunk fails on an endpoint, the next file probes it again: the wrapper blocklists the query URL (mod.rs:222, 354), `check_availability` filters bare endpoints (mod.rs:78) |
| `server_serve` | pass | TypeOK, ContentOnlyWhenAuthorized, VerifiedBeforeServing, IntactServerStarts, ContractSpec | with any set of damaged chunks and every well-formed request: the server starts when no chunk is damaged, binds only when none is, serves content only to the bearer token, and implements `ServerContract` |
| `server_exact` | violation | IntactServerStarts | startup verification indexes `chunk_hashes` out of bounds for exact-multiple sizes (server mod.rs:132) |
| `server_downloader_request` | violation | DownloaderRequestsServed | the downloader's range request is answered 406: `file_hash` vs `file_name` (mod.rs:451, server mod.rs:282). `tests/file_transfer.rs` asserts that this download succeeds |
| `server_badrange` | violation | ContractSpec | an unparsable `Content-Range` gets no response (`?` at server mod.rs:290); the spec says 400 |
| `cli_unverified` | violation | VerifiedBeforeServing | the `subfile-cli` server serves local files that do not match their hashes: its startup never verifies them (cli mod.rs:99) |
| `publication_retry` | pass | TypeOK, NoPartialManifest, PublishedReadable | after failed runs and lost replies, every stored manifest lists every file, and a returned hash is always readable |

Every property of a passing run has a mutant in `PROJECT.json`: a plausible
bug in the mapped code that TLC catches with the run's own configuration.
For example, the file mutex not being taken breaks `OutputMatchesSource`.

## Fairness

**`Downloader`.** The tokio runtime polls every ready task, so the model has:

- weak fairness on the main task's step;
- weak fairness on each chunk task's step.

Fairness only says that a ready step is taken. A request that is never
answered is not a fairness matter: it is an explicit outcome (`"hung"`, or a
probe in `stalled`) after which the task or the probe is never ready again.
So `TerminatesUnlessHung` says the download ends or is hung: the file mutex
is released on every path and retries are bounded by `max_retry`. The stronger
`Termination` is what spec section 5 recommends (a per-request deadline
"to avoid hung tasks"), and the `downloader_hang` run shows
the code does not meet it.

**`SubfileServer`.**

- Startup is weakly fair.
- `Acquire` is strongly fair, because tokio's `Mutex` is FIFO-fair, so a
  waiter is served once the holder releases.
- `Respond` is weakly fair.
- Request arrival has no fairness: clients need not send.

**`Publication`.** No fairness: the properties are safety properties, and
the operator need not re-run the publisher.

## Proofs (checked by tlapm)

### `DownloaderProofs.tla`

The proofs hold for every endpoint set, manifest, chunk size and retry bound
allowed by `DownloaderAssumption` and `NoTaskAssumption`.

- **`TypeCorrect`**: `Spec => []TypeOK`. It is proved from `InitTypeOK` and
  `NextTypeOK`, with one step per action. Lemmas about updating a task's
  record (`PcUpdate`, `RetryUpdate`, `WrittenType`) carry the record-`EXCEPT`
  reasoning that the SMT backend cannot do, using Zenon.
- **`OutputCorrect`**: `Spec => []OutputMatchesSource`. `OutputMatchesSource`
  alone is not inductive. A write stores `start + (p - cursor)` at offset `p`,
  which is `p` only when the cursor is at the chunk's start. The cursor may
  only be moved by the holder of the file mutex. The inductive invariant
  `IInv` therefore adds:
  - `LockHeldWhileWriting`: a task between seek and write holds its file's
    mutex;
  - `CursorAtChunkStart`: a task about to write finds the cursor at its
    start;
  - `IdleAheadOfMain`: no task of a file exists before that file is created.
    This is why `CreateOutputFile`'s truncation and cursor reset cannot
    disturb a writer.

  TLC checked `IInv` as an invariant of the flaky run before it was proved.
  `NextIInv` has one step per action and, under each action, one step per
  conjunct the action can disturb.

### `ServerProofs.tla`

The proofs hold for every manifest, chunk size and request set allowed by
`ServerAssumption`. The inductive invariant `SInv` is `TypeOK` plus
`StatusIsAnswer`: every answered request carries `Answer` of its headers.

- **`ServerTypeCorrect`**: `Spec => []TypeOK`.
- **`ContentAuthorized`**: `Spec => []ContentOnlyWhenAuthorized`, from
  `StatusIsAnswer` and `file_service` checking auth first.
- **`VerifiedServing`**: `Spec => []VerifiedBeforeServing`: the server binds
  only when no chunk is damaged, whichever chunks are. The strengthening
  `StartVerified` says that during verification every damaged chunk lies at
  or ahead of the loop's position `<<vf, vi>>`: a damaged chunk the loop
  reaches panics, so the loop only passes undamaged ones. The lemma
  `HashesWithinLoop` (`NumHashes(f) <= LoopBound(f)`) shows that the loop
  reaches every chunk hash of a file before it moves on, so when it moves past
  the last file no damaged chunk is left.
- **`ServerRefinesContract`**: if no request has a malformed range, then
  `Spec => ContractSpec`. `Init` maps to the contract's `Init`. Every step
  maps to a contract step or a stutter. `AnswerIsContractStatus` shows the
  code's decision order gives the spec's status on well-formed ranges.

### `PublicationProofs.tla`

For every number of files and runs, and every failure flag. The
inductive invariant `PInv` is `TypeOK` and `NoPartialManifest` plus:

- `RootsCollected`: `root_hashes` holds the first `i - 1` chunk file
  hashes, in order, all of them stored;
- `ManifestComplete`: once a manifest is stored, every chunk file is;
- `ReaderSound`: the reader holds a returned hash, with its index in range.

Then **`NoPartialManifestHolds`** and **`PublishedReadableHolds`** follow.

- **`PublicationTypeCorrect`**: `Spec => []TypeOK`, since `PInv` implies
  `TypeOK`.

### `DownloaderCompletionProofs.tla`

This module extends `DownloaderProofs` and uses the same assumptions. Its
inductive invariant `CInv` is `IInv` plus the following conjuncts, which are
defined in `Downloader.tla`:

- `TaskRange`: a spawned task carries `ChunkRange` of its index. This links
  a task's writes to the chunk the join loop counts.
- `OkWritten`: a task that returned Ok has its whole range on disk. `IInv`
  is needed here, because another task's write could otherwise overwrite
  those bytes.
- `BeyondUnwritten`: nothing is written at or past `total_bytes`. Without it,
  the `Hole` half of `CompletedFilesIntact` is not preserved.
- `JoinedOk` and `JoinedWritten`: while no chunk has failed, the join loop
  has seen only Ok tasks below `idx`, and the bytes below
  `min(idx * chunk_size, total_bytes)` are on disk. The lemma
  `LoopBoundCovers` (`LoopBound(f) * chunk_size > total_bytes`) closes the
  gap at the end of the loop.
- `CompletedBehind` and `CompletedTasksOk`: a completed file lies behind the
  main task, and all its tasks are Ok. A later `File::create` therefore
  never hits it, and no task of it is still running.

TLC checked `CInv` as an invariant of the flaky run before it was proved.

- **`CompletedIntact`**: `Spec => []CompletedFilesIntact`.
- **`CompletedFrozen`**: `Spec => CompletedFilesFrozen`, the action
  property. The proof rests on `FrozenStep`, which shows that under `CInv`
  no step changes `out[f]` for a completed `f`. The only writers are a
  task's `WriteChunk` and `CreateOutputFile`. Neither can touch a completed
  file, by `CompletedTasksOk` and `CompletedBehind`.
- **`ServedSucceeds`**: if `HonestSetting` holds, then
  `Spec => []SucceedsIfServed`. `HonestSetting` requires:
  - every endpoint is honest;
  - nothing fails;
  - the downloader has a token;
  - no file size is a multiple of `chunk_size`.

  The `downloader_failover` and `downloader_exact` violations show that the
  first and the last hypotheses are needed; without a token every task panics
  in `request_chunk`.

  The strengthening `ServedInv` adds the following to `CInv`:
  - nothing is blocklisted;
  - no task errs, panics or hangs, and no probe is stalled;
  - every probe has answered before the spawn loop starts.

  TLC checked `ServedInv` on the honest run before it was proved. The lemma
  `DivRoundUp` shows that, for a size that is not a multiple of the chunk
  size, the spawn loop's index stays below the number of chunk hashes.

### `CliServerProofs.tla`

- **`CliRefinesContract`**: if `CliAssumption` holds and no request has a
  malformed range, then `Spec => ContractSpec` for the `subfile-cli` server, under the same
  mapping as `SubfileServer`. The invariant `CliTypeOK` states that request
  headers never change. `CliAnswerIsContractStatus` shows that its
  `handle_request` takes the contract's decisions.

### What only TLC checks, and why

- **Liveness properties.** These are `TerminatesUnlessHung` and
  `IntactServerStarts`. They hold only under the fairness assumptions above,
  and proving them would need reasoning about `ENABLED` and the fairness
  conditions, which these proofs do not do.
- **The properties of the violation runs.** They are false of the code.

## Not modelled

- **Byte contents and hashing.** Data is abstracted as described above.
  `verify_chunk` is exact in the model, so a hash collision is not
  represented.
- **`chunks_to_download`.** The download path never calls it.
- **The S3 store and TLS.** These are out of scope for the reasons given in
  the inventory. TLS is commented out in the code.
- **`torrent_leecher`.** It holds only module declarations.
- **Timing.** IPFS timeouts are folded into failing fetches. HTTP requests
  have no timeout in the code; one that is never answered is the `"hang"`
  outcome, with no clock.
