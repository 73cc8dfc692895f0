----------------------------- MODULE Publication -----------------------------
(***************************************************************************)
(* Publishing a subfile and reading it back through the content store    *)
(* (src/subfile-exchange/src/publisher.rs and subfile/subfile_reader.rs). *)
(*                                                                         *)
(* SubfilePublisher::publish builds the chunk file of each configured     *)
(* file, adds it to IPFS and collects its hash, and only then builds the  *)
(* manifest from those hashes and adds it; every `?` returns the first    *)
(* error.  The operator re-runs the publisher after a failure.            *)
(* read_subfile, used by the server at startup and (its two fetches) by   *)
(* the downloader, cats the manifest and then each chunk file it lists.   *)
(*                                                                         *)
(* The store is content addressed and content is deterministic: the      *)
(* chunk file of the k-th configured file is named by k, and a manifest   *)
(* by the sequence of the chunk files it lists.                           *)
(***************************************************************************)
EXTENDS Naturals, Sequences

CONSTANTS
    NumFiles,       \* the number of configured file_names
    MaxRuns,        \* how many times the operator runs the publisher
    ReadFailures,   \* ChunkFile::new may fail (a file missing or unreadable)
    StoreFailures,  \* an add or a cat may fail (connection error, timeout)
    LostReplies     \* an add may store the content and still return Err

ASSUME PublicationAssumption ==
    /\ NumFiles \in Nat \ {0}
    /\ MaxRuns \in Nat
    /\ {ReadFailures, StoreFailures, LostReplies} \subseteq BOOLEAN

FileIdx == 1..NumFiles

(* The hash IPFS assigns the chunk file of the k-th configured file:      *)
(* ChunkFile::new is deterministic, so the same file always yields the    *)
(* same chunk file and the same hash.                                     *)
ChunkFileHash(k) == k

(* The manifest construct_subfile_manifest serializes: the collected      *)
(* FileMetaInfo entries in order (the configured metadata is fixed).      *)
SubfileManifest(roots) == roots

(* What an add does to the store and reports: stored and Ok, not stored  *)
(* and Err, or stored with the reply lost (Err).                          *)
AddOutcomes ==
    {"ok"} \cup (IF StoreFailures THEN {"failed"} ELSE {})
           \cup (IF LostReplies THEN {"lost"} ELSE {})

(* What cat_all(hash, 10 s) returns: the content when the store has it,  *)
(* or an error (timeout, transport) when the store cannot deliver.        *)
CatOutcomes(present) ==
    (IF present THEN {"found"} ELSE {"missing"})
        \cup (IF StoreFailures THEN {"failed"} ELSE {})

PubStates == {"idle", "files", "ok", "err"}
ReadStates == {"idle", "manifest", "chunks", "ok", "err", "missing"}

VARIABLES
    chunkStore,     \* chunk files the store holds
    manifestStore,  \* manifests the store holds
    pub,            \* the publisher run: pc, next file, root_hashes
    runs,           \* publisher runs started
    okHashes,       \* manifest hashes a run returned as Ok
    rd              \* a read_subfile of a returned hash

vars == <<chunkStore, manifestStore, pub, runs, okHashes, rd>>
pubVars == <<chunkStore, manifestStore, pub, runs, okHashes>>

TypeOK ==
    /\ chunkStore \subseteq FileIdx
    /\ manifestStore \subseteq Seq(FileIdx)
    /\ pub \in [pc : PubStates, i : 1..NumFiles + 1, roots : Seq(FileIdx)]
    /\ runs \in 0..MaxRuns
    /\ okHashes \subseteq manifestStore
    /\ rd \in [pc : ReadStates, h : Seq(FileIdx), j : Nat, got : Seq(FileIdx)]

Init ==
    /\ chunkStore = {}
    /\ manifestStore = {}
    /\ pub = [pc |-> "idle", i |-> 1, roots |-> <<>>]
    /\ runs = 0
    /\ okHashes = {}
    /\ rd = [pc |-> "idle", h |-> <<>>, j |-> 1, got |-> <<>>]

-----------------------------------------------------------------------------
(* The publisher.                                                         *)

(* The operator runs publish(); hash_and_publish_files starts with an     *)
(* empty root_hashes.                                                     *)
StartPublish ==
    /\ pub.pc \in {"idle", "ok", "err"}
    /\ runs < MaxRuns
    /\ pub' = [pc |-> "files", i |-> 1, roots |-> <<>>]
    /\ runs' = runs + 1
    /\ UNCHANGED <<chunkStore, manifestStore, okHashes, rd>>

(* Mutant: the error of add is dropped and the hash recorded anyway.     *)
PublishFileIgnoringAddError ==
    /\ pub.pc = "files"
    /\ pub.i <= NumFiles
    /\ \/ ReadFailures /\ pub' = [pub EXCEPT !.pc = "err"]
                       /\ UNCHANGED chunkStore
       \/ \E o \in AddOutcomes :
            /\ chunkStore' = IF o = "failed" THEN chunkStore
                             ELSE chunkStore \cup {ChunkFileHash(pub.i)}
            /\ pub' = [pub EXCEPT !.i = pub.i + 1,
                                  !.roots = Append(pub.roots, ChunkFileHash(pub.i))]
    /\ UNCHANGED <<manifestStore, runs, okHashes, rd>>

(* Mutant: a file whose add fails is skipped and the loop goes on.       *)
PublishFileSkipOnError ==
    /\ pub.pc = "files"
    /\ pub.i <= NumFiles
    /\ \/ ReadFailures /\ pub' = [pub EXCEPT !.pc = "err"]
                       /\ UNCHANGED chunkStore
       \/ \E o \in AddOutcomes :
            /\ chunkStore' = IF o = "failed" THEN chunkStore
                             ELSE chunkStore \cup {ChunkFileHash(pub.i)}
            /\ pub' = IF o = "ok"
                        THEN [pub EXCEPT !.i = pub.i + 1,
                                         !.roots = Append(pub.roots, ChunkFileHash(pub.i))]
                        ELSE [pub EXCEPT !.i = pub.i + 1]
    /\ UNCHANGED <<manifestStore, runs, okHashes, rd>>

(* Mutant: the loop runs one index past the configured files.           *)
PublishFileOverrun ==
    /\ pub.pc = "files"
    /\ pub.i <= NumFiles + 1
    /\ \/ ReadFailures /\ pub' = [pub EXCEPT !.pc = "err"]
                       /\ UNCHANGED chunkStore
       \/ \E o \in AddOutcomes :
            /\ chunkStore' = IF o = "failed" THEN chunkStore
                             ELSE chunkStore \cup {ChunkFileHash(pub.i)}
            /\ pub' = IF o = "ok"
                        THEN [pub EXCEPT !.i = pub.i + 1,
                                         !.roots = Append(pub.roots, ChunkFileHash(pub.i))]
                        ELSE [pub EXCEPT !.pc = "err"]
    /\ UNCHANGED <<manifestStore, runs, okHashes, rd>>

(* One iteration of hash_and_publish_files: write_chunk_file (its `?`),  *)
(* the add of hash_and_publish_file (its `?`), and root_hashes.push.      *)
PublishFile ==
    /\ pub.pc = "files"
    /\ pub.i <= NumFiles
    /\ \/ ReadFailures /\ pub' = [pub EXCEPT !.pc = "err"]
                       /\ UNCHANGED chunkStore
       \/ \E o \in AddOutcomes :
            /\ chunkStore' = IF o = "failed" THEN chunkStore
                             ELSE chunkStore \cup {ChunkFileHash(pub.i)}
            /\ pub' = IF o = "ok"
                        THEN [pub EXCEPT !.i = pub.i + 1,
                                         !.roots = Append(pub.roots, ChunkFileHash(pub.i))]
                        ELSE [pub EXCEPT !.pc = "err"]
    /\ UNCHANGED <<manifestStore, runs, okHashes, rd>>

(* After the last file: construct_subfile_manifest (serializing this     *)
(* plain struct cannot fail) and publish_subfile_manifest's add; publish  *)
(* returns its hash or its error.                                         *)
PublishManifest ==
    /\ pub.pc = "files"
    /\ pub.i = NumFiles + 1
    /\ \E o \in AddOutcomes :
         /\ manifestStore' = IF o = "failed" THEN manifestStore
                             ELSE manifestStore \cup {SubfileManifest(pub.roots)}
         /\ okHashes' = IF o = "ok" THEN okHashes \cup {SubfileManifest(pub.roots)}
                        ELSE okHashes
         /\ pub' = [pub EXCEPT !.pc = IF o = "ok" THEN "ok" ELSE "err"]
    /\ UNCHANGED <<chunkStore, runs, rd>>

-----------------------------------------------------------------------------
(* read_subfile of a hash a publisher run returned.                       *)

(* read_subfile starts with the manifest hash it is given.               *)
StartRead ==
    /\ rd.pc \in {"idle", "ok", "err", "missing"}
    /\ \E h \in okHashes : rd' = [pc |-> "manifest", h |-> h, j |-> 1, got |-> <<>>]
    /\ UNCHANGED pubVars

(* fetch_subfile_from_ipfs: cat the manifest, parse it, `?`.              *)
ReadManifest ==
    /\ rd.pc = "manifest"
    /\ \E o \in CatOutcomes(rd.h \in manifestStore) :
         rd' = [rd EXCEPT !.pc = IF o = "found" THEN "chunks"
                                 ELSE IF o = "missing" THEN "missing"
                                 ELSE "err"]
    /\ UNCHANGED pubVars

(* One iteration over manifest.files: fetch_chunk_file_from_ipfs, `?`,   *)
(* chunk_files.push.                                                      *)
ReadChunkFile ==
    /\ rd.pc = "chunks"
    /\ rd.j <= Len(rd.h)
    /\ \E o \in CatOutcomes(rd.h[rd.j] \in chunkStore) :
         rd' = IF o = "found"
                 THEN [rd EXCEPT !.j = rd.j + 1, !.got = Append(rd.got, rd.h[rd.j])]
               ELSE IF o = "missing" THEN [rd EXCEPT !.pc = "missing"]
               ELSE [rd EXCEPT !.pc = "err"]
    /\ UNCHANGED pubVars

(* After the last entry read_subfile returns the Subfile.                *)
ReadDone ==
    /\ rd.pc = "chunks"
    /\ rd.j = Len(rd.h) + 1
    /\ rd' = [rd EXCEPT !.pc = "ok"]
    /\ UNCHANGED pubVars

-----------------------------------------------------------------------------
(* Every run has ended, and the reader has nothing to do.                 *)
Done ==
    /\ pub.pc \in {"idle", "ok", "err"} /\ runs = MaxRuns
    /\ rd.pc \in {"idle", "ok", "err", "missing"}
    /\ UNCHANGED vars

Next ==
    \/ StartPublish \/ PublishFile \/ PublishManifest
    \/ StartRead \/ ReadManifest \/ ReadChunkFile \/ ReadDone
    \/ Done

Spec == Init /\ [][Next]_vars

-----------------------------------------------------------------------------
(* Properties.                                                            *)

(* The manifest listing every configured file, in order.                  *)
FullManifest == [k \in FileIdx |-> ChunkFileHash(k)]

(* No partial manifest is ever published (spec section 4.3): whatever    *)
(* runs failed before, and whatever adds stored content yet reported an   *)
(* error, every manifest in the store lists every configured file in      *)
(* order; so every hash a run returns names the same manifest.            *)
NoPartialManifest ==
    \A m \in manifestStore : m = FullManifest

(* A manifest a publisher run returned is readable: read_subfile of it    *)
(* never finds the manifest or one of its chunk files absent from the     *)
(* store, because publish adds every chunk file before the manifest.     *)
PublishedReadable ==
    rd.pc # "missing"

=============================================================================
