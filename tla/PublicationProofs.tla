------------------------- MODULE PublicationProofs -------------------------
(***************************************************************************)
(* Proofs about publishing and reading subfiles, for every number of      *)
(* configured files, every number of publisher runs and every failure    *)
(* mode of the store that PublicationAssumption admits.                  *)
(***************************************************************************)
EXTENDS Publication, SequenceTheorems, TLAPS

USE PublicationAssumption

PubRec == [pc : PubStates, i : 1..NumFiles + 1, roots : Seq(FileIdx)]
RdRec == [pc : ReadStates, h : Seq(FileIdx), j : Nat, got : Seq(FileIdx)]

-----------------------------------------------------------------------------
(* Lemmas about the updates of the publisher's and the reader's records. *)

(* Setting the publisher's pc leaves its index and root_hashes.           *)
LEMMA PubPcStep ==
  ASSUME NEW p \in PubRec, NEW x \in PubStates, NEW q,
         q = [p EXCEPT !.pc = x]
  PROVE  q \in PubRec /\ q.pc = x /\ q.i = p.i /\ q.roots = p.roots
  BY Zenon DEF PubRec

(* Pushing a hash onto root_hashes and moving to the next file.           *)
LEMMA PubAdvanceStep ==
  ASSUME NEW p \in PubRec, NEW q, p.i + 1 \in 1..NumFiles + 1,
         Append(p.roots, p.i) \in Seq(FileIdx),
         q = [p EXCEPT !.i = p.i + 1, !.roots = Append(p.roots, p.i)]
  PROVE  q \in PubRec /\ q.pc = p.pc /\ q.i = p.i + 1
         /\ q.roots = Append(p.roots, p.i)
  BY Zenon DEF PubRec

(* Setting the reader's pc leaves its hash, index and chunk files.        *)
LEMMA RdPcStep ==
  ASSUME NEW r \in RdRec, NEW x \in ReadStates, NEW q,
         q = [r EXCEPT !.pc = x]
  PROVE  q \in RdRec /\ q.pc = x /\ q.h = r.h /\ q.j = r.j
  BY Zenon DEF RdRec

(* Pushing a fetched chunk file and moving to the next entry.             *)
LEMMA RdAdvanceStep ==
  ASSUME NEW r \in RdRec, NEW q, r.j + 1 \in Nat,
         Append(r.got, r.h[r.j]) \in Seq(FileIdx),
         q = [r EXCEPT !.j = r.j + 1, !.got = Append(r.got, r.h[r.j])]
  PROVE  q \in RdRec /\ q.pc = r.pc /\ q.h = r.h /\ q.j = r.j + 1
  BY Zenon DEF RdRec

-----------------------------------------------------------------------------
(* The inductive invariant.  NoPartialManifest is not inductive alone: a *)
(* manifest add stores root_hashes, so root_hashes must hold the first    *)
(* i - 1 chunk file hashes, in order, all of them already stored           *)
(* (RootsCollected).  PublishedReadable needs that a stored manifest's    *)
(* chunk files are stored (ManifestComplete), that the store only grows,  *)
(* and that the reader holds a returned hash (ReaderSound).               *)

RootsCollected ==
    /\ Len(pub.roots) = pub.i - 1
    /\ \A k \in 1..Len(pub.roots) : pub.roots[k] = k
    /\ 1..(pub.i - 1) \subseteq chunkStore

ManifestComplete == manifestStore # {} => FileIdx \subseteq chunkStore

ReaderSound ==
    /\ rd.pc # "missing"
    /\ rd.pc # "idle" => rd.h \in okHashes
    /\ rd.pc = "manifest" => rd.j = 1
    /\ rd.pc = "chunks" => rd.j \in 1..Len(rd.h) + 1

PInv ==
    /\ TypeOK
    /\ RootsCollected
    /\ NoPartialManifest
    /\ ManifestComplete
    /\ ReaderSound

(* Before publish runs, the store is empty and the reader idle.          *)
LEMMA InitPInv == Init => PInv
<1> SUFFICES ASSUME Init PROVE PInv
  OBVIOUS
<1>1. TypeOK
  BY DEF Init, TypeOK, PubStates, ReadStates, FileIdx
<1>2. QED
  BY <1>1 DEF Init, PInv, RootsCollected, NoPartialManifest,
              ManifestComplete, ReaderSound

(* A step of the publisher leaves the reader's conjuncts true.            *)
LEMMA PubStepReader ==
  ASSUME PInv, UNCHANGED rd, okHashes \subseteq okHashes'
  PROVE  ReaderSound'
  BY DEF PInv, ReaderSound

(* A step of the reader leaves the publisher's conjuncts true.            *)
LEMMA ReadStepPub ==
  ASSUME PInv, UNCHANGED pubVars
  PROVE  RootsCollected' /\ NoPartialManifest' /\ ManifestComplete'
         /\ chunkStore' \subseteq FileIdx /\ manifestStore' \subseteq Seq(FileIdx)
         /\ pub' \in PubRec /\ runs' \in 0..MaxRuns /\ okHashes' \subseteq manifestStore'
  BY DEF PInv, TypeOK, pubVars, RootsCollected, NoPartialManifest,
         ManifestComplete, PubRec

(* The reader's hash, once it holds one, is the full manifest.            *)
LEMMA ReaderHashFull ==
  ASSUME PInv, rd.pc # "idle"
  PROVE  /\ rd.h = FullManifest
         /\ rd.h \in manifestStore
         /\ FileIdx \subseteq chunkStore
  BY DEF PInv, TypeOK, ReaderSound, NoPartialManifest, ManifestComplete

-----------------------------------------------------------------------------

(* PInv is inductive.                                                     *)
LEMMA NextPInv == PInv /\ [Next]_vars => PInv'
<1> SUFFICES ASSUME PInv, [Next]_vars PROVE PInv'
  OBVIOUS
<1>0. pub \in PubRec /\ rd \in RdRec
  BY DEF PInv, TypeOK, PubRec, RdRec
<1>1. CASE StartPublish
  <2>1. TypeOK'
    BY <1>1 DEF PInv, TypeOK, StartPublish, PubStates
  <2>2. RootsCollected'
    BY <1>1 DEF StartPublish, RootsCollected
  <2>3. QED
    BY <1>1, <2>1, <2>2, PubStepReader
       DEF PInv, StartPublish, NoPartialManifest, ManifestComplete
<1>2. CASE PublishFile
  <2>0. pub.pc = "files" /\ pub.i \in FileIdx
    BY <1>2 DEF PublishFile, PInv, TypeOK, FileIdx
  <2>1. CASE ReadFailures /\ pub' = [pub EXCEPT !.pc = "err"]
                          /\ UNCHANGED chunkStore
    <3>1. pub' \in PubRec /\ pub'.i = pub.i /\ pub'.roots = pub.roots
      BY <1>0, <2>1, PubPcStep DEF PubStates
    <3>2. TypeOK'
      BY <1>2, <3>1, <2>1 DEF PublishFile, PInv, TypeOK, PubRec
    <3>3. RootsCollected'
      BY <2>1, <3>1 DEF PInv, RootsCollected
    <3>4. QED
      BY <1>2, <2>1, <3>2, <3>3, PubStepReader
         DEF PInv, PublishFile, NoPartialManifest, ManifestComplete
  <2>2. CASE \E o \in AddOutcomes :
               /\ chunkStore' = IF o = "failed" THEN chunkStore
                                ELSE chunkStore \cup {ChunkFileHash(pub.i)}
               /\ pub' = IF o = "ok"
                           THEN [pub EXCEPT !.i = pub.i + 1,
                                            !.roots = Append(pub.roots, ChunkFileHash(pub.i))]
                           ELSE [pub EXCEPT !.pc = "err"]
    <3>1. PICK o \in AddOutcomes :
               /\ chunkStore' = IF o = "failed" THEN chunkStore
                                ELSE chunkStore \cup {ChunkFileHash(pub.i)}
               /\ pub' = IF o = "ok"
                           THEN [pub EXCEPT !.i = pub.i + 1,
                                            !.roots = Append(pub.roots, ChunkFileHash(pub.i))]
                           ELSE [pub EXCEPT !.pc = "err"]
      BY <2>2
    <3>2. chunkStore \subseteq chunkStore' /\ chunkStore' \subseteq FileIdx
      BY <2>0, <3>1 DEF PInv, TypeOK, ChunkFileHash
    <3>3. UNCHANGED <<manifestStore, runs, okHashes, rd>>
      BY <1>2 DEF PublishFile
    <3>4. CASE o = "ok"
      <4>1. pub.roots \in Seq(FileIdx) /\ pub.i \in FileIdx
        BY <2>0, <1>0 DEF PubRec
      <4>2. Append(pub.roots, pub.i) \in Seq(FileIdx) /\ pub.i + 1 \in 1..NumFiles + 1
        BY <4>1 DEF FileIdx
      <4>3. pub' = [pub EXCEPT !.i = pub.i + 1, !.roots = Append(pub.roots, pub.i)]
        BY <3>1, <3>4 DEF ChunkFileHash
      <4>4. pub' \in PubRec /\ pub'.i = pub.i + 1 /\ pub'.roots = Append(pub.roots, pub.i)
        BY <1>0, <4>2, <4>3, PubAdvanceStep
      <4>5. chunkStore' = chunkStore \cup {pub.i}
        BY <3>1, <3>4 DEF ChunkFileHash
      <4>6. TypeOK'
        BY <3>2, <3>3, <4>4 DEF PInv, TypeOK, PubRec
      <4>7. RootsCollected'
        <5>1. Len(pub.roots) = pub.i - 1 /\ \A k \in 1..Len(pub.roots) : pub.roots[k] = k
          BY DEF PInv, RootsCollected
        <5>a. /\ Len(Append(pub.roots, pub.i)) = Len(pub.roots) + 1
              /\ \A k \in 1..Len(pub.roots) : Append(pub.roots, pub.i)[k] = pub.roots[k]
              /\ Append(pub.roots, pub.i)[Len(pub.roots) + 1] = pub.i
          BY <4>1, AppendProperties
        <5>2. Len(pub'.roots) = pub'.i - 1
          BY <4>1, <4>4, <5>1, <5>a DEF FileIdx
        <5>3. \A k \in 1..Len(pub'.roots) : pub'.roots[k] = k
          <6> SUFFICES ASSUME NEW k \in 1..Len(pub'.roots) PROVE pub'.roots[k] = k
            OBVIOUS
          <6>1. CASE k \in 1..Len(pub.roots)
            BY <6>1, <4>4, <5>1, <5>a
          <6>2. CASE k = Len(pub.roots) + 1
            BY <6>2, <4>1, <4>4, <5>1, <5>a DEF FileIdx
          <6>3. QED
            BY <6>1, <6>2, <4>1, <4>4, <5>a
        <5>4. 1..(pub'.i - 1) \subseteq chunkStore'
          BY <4>4, <4>5, <2>0 DEF PInv, RootsCollected, FileIdx
        <5>5. QED
          BY <5>2, <5>3, <5>4 DEF RootsCollected
      <4>8. QED
        BY <3>2, <3>3, <4>6, <4>7, PubStepReader
           DEF PInv, NoPartialManifest, ManifestComplete
    <3>5. CASE o # "ok"
      <4>1. pub' = [pub EXCEPT !.pc = "err"]
        BY <3>1, <3>5
      <4>2. pub' \in PubRec /\ pub'.i = pub.i /\ pub'.roots = pub.roots
        BY <1>0, <4>1, PubPcStep DEF PubStates
      <4>3. TypeOK'
        BY <3>2, <3>3, <4>2 DEF PInv, TypeOK, PubRec
      <4>4. RootsCollected'
        BY <3>2, <4>2 DEF PInv, RootsCollected
      <4>5. QED
        BY <3>2, <3>3, <4>3, <4>4, PubStepReader
           DEF PInv, NoPartialManifest, ManifestComplete
    <3>6. QED
      BY <3>4, <3>5
  <2>3. QED
    BY <1>2, <2>1, <2>2 DEF PublishFile
<1>3. CASE PublishManifest
  <2>1. PICK o \in AddOutcomes :
          /\ manifestStore' = IF o = "failed" THEN manifestStore
                              ELSE manifestStore \cup {SubfileManifest(pub.roots)}
          /\ okHashes' = IF o = "ok" THEN okHashes \cup {SubfileManifest(pub.roots)}
                         ELSE okHashes
          /\ pub' = [pub EXCEPT !.pc = IF o = "ok" THEN "ok" ELSE "err"]
    BY <1>3 DEF PublishManifest
  <2>2. pub.i = NumFiles + 1 /\ UNCHANGED <<chunkStore, runs, rd>>
    BY <1>3 DEF PublishManifest
  <2>3. pub.roots = FullManifest
    <3>1. Len(pub.roots) = NumFiles /\ \A k \in 1..Len(pub.roots) : pub.roots[k] = k
      BY <2>2 DEF PInv, RootsCollected
    <3>2. pub.roots \in Seq(FileIdx)
      BY <1>0 DEF PubRec
    <3>3. QED
      BY <3>1, <3>2 DEF FullManifest, FileIdx, ChunkFileHash
  <2>4. FileIdx \subseteq chunkStore
    BY <2>2 DEF PInv, RootsCollected, FileIdx
  <2>5. pub' \in PubRec /\ pub'.i = pub.i /\ pub'.roots = pub.roots
    BY <1>0, <2>1, PubPcStep DEF PubStates
  <2>6. /\ manifestStore' \subseteq manifestStore \cup {FullManifest}
        /\ okHashes \subseteq okHashes'
        /\ okHashes' \subseteq manifestStore'
    BY <2>1, <2>3 DEF SubfileManifest, PInv, TypeOK
  <2>7. FullManifest \in Seq(FileIdx)
    BY <2>3, <1>0 DEF PubRec
  <2>8. TypeOK'
    BY <2>2, <2>5, <2>6, <2>7 DEF PInv, TypeOK, PubRec
  <2>9. RootsCollected'
    BY <2>2, <2>5 DEF PInv, RootsCollected
  <2>10. NoPartialManifest' /\ ManifestComplete'
    BY <2>2, <2>4, <2>6 DEF PInv, NoPartialManifest, ManifestComplete
  <2>11. QED
    BY <2>2, <2>6, <2>8, <2>9, <2>10, PubStepReader DEF PInv
<1>4. CASE StartRead
  <2>1. PICK h \in okHashes : rd' = [pc |-> "manifest", h |-> h, j |-> 1, got |-> <<>>]
    BY <1>4 DEF StartRead
  <2>2. h \in Seq(FileIdx)
    BY DEF PInv, TypeOK
  <2>3. QED
    BY <1>4, <2>1, <2>2, ReadStepPub
       DEF StartRead, PInv, TypeOK, ReaderSound, ReadStates, pubVars
<1>5. CASE ReadManifest
  <2>1. rd.pc = "manifest" /\ UNCHANGED pubVars
    BY <1>5 DEF ReadManifest
  <2>2. rd.h \in manifestStore
    BY <2>1, ReaderHashFull
  <2>3. PICK o \in CatOutcomes(TRUE) :
          rd' = [rd EXCEPT !.pc = IF o = "found" THEN "chunks"
                                  ELSE IF o = "missing" THEN "missing"
                                  ELSE "err"]
    BY <1>5, <2>2 DEF ReadManifest
  <2>4. o \in {"found", "failed"}
    BY DEF CatOutcomes
  <2>5. PICK x \in {"chunks", "err"} : rd' = [rd EXCEPT !.pc = x]
    BY <2>3, <2>4
  <2>6. rd' \in RdRec /\ rd'.pc = x /\ rd'.h = rd.h /\ rd'.j = rd.j
    BY <1>0, <2>5, RdPcStep DEF ReadStates
  <2>7. rd.j = 1 /\ rd.h \in okHashes
    BY <2>1 DEF PInv, ReaderSound
  <2>8. QED
    BY <2>1, <2>6, <2>7, ReadStepPub DEF PInv, TypeOK, ReaderSound, RdRec, pubVars
<1>6. CASE ReadChunkFile
  <2>1. rd.pc = "chunks" /\ rd.j <= Len(rd.h) /\ UNCHANGED pubVars
    BY <1>6 DEF ReadChunkFile
  <2>2. rd.h = FullManifest /\ FileIdx \subseteq chunkStore
    BY <2>1, ReaderHashFull
  <2>3. rd.j \in 1..Len(rd.h) /\ rd.h[rd.j] \in FileIdx /\ rd.h[rd.j] \in chunkStore
    BY <2>1, <2>2 DEF PInv, ReaderSound, FullManifest, FileIdx, ChunkFileHash
  <2>4. PICK o \in CatOutcomes(TRUE) :
          rd' = IF o = "found"
                  THEN [rd EXCEPT !.j = rd.j + 1, !.got = Append(rd.got, rd.h[rd.j])]
                ELSE IF o = "missing" THEN [rd EXCEPT !.pc = "missing"]
                ELSE [rd EXCEPT !.pc = "err"]
    BY <1>6, <2>3 DEF ReadChunkFile
  <2>5. rd.h \in okHashes
    BY <2>1 DEF PInv, ReaderSound
  <2>6. CASE o = "found"
    <3>1. rd.got \in Seq(FileIdx)
      BY <1>0 DEF RdRec
    <3>2. Append(rd.got, rd.h[rd.j]) \in Seq(FileIdx) /\ rd.j + 1 \in Nat
      BY <2>3, <3>1
    <3>3. rd' \in RdRec /\ rd'.pc = "chunks" /\ rd'.h = rd.h /\ rd'.j = rd.j + 1
      BY <1>0, <2>1, <2>4, <2>6, <3>2, RdAdvanceStep
    <3>4. rd'.j \in 1..Len(rd'.h) + 1
      BY <2>3, <3>3
    <3>5. QED
      BY <2>1, <2>5, <3>3, <3>4, ReadStepPub
         DEF PInv, TypeOK, ReaderSound, RdRec, pubVars
  <2>7. CASE o # "found"
    <3>1. o = "failed"
      BY <2>7 DEF CatOutcomes
    <3>2. rd' = [rd EXCEPT !.pc = "err"]
      BY <2>4, <3>1
    <3>3. rd' \in RdRec /\ rd'.pc = "err" /\ rd'.h = rd.h
      BY <1>0, <3>2, RdPcStep DEF ReadStates
    <3>4. QED
      BY <2>1, <2>5, <3>3, ReadStepPub DEF PInv, TypeOK, ReaderSound, RdRec, pubVars
  <2>8. QED
    BY <2>6, <2>7
<1>7. CASE ReadDone
  <2>1. rd.pc = "chunks" /\ UNCHANGED pubVars
        /\ rd' = [rd EXCEPT !.pc = "ok"]
    BY <1>7 DEF ReadDone
  <2>2. rd' \in RdRec /\ rd'.pc = "ok" /\ rd'.h = rd.h
    BY <1>0, <2>1, RdPcStep DEF ReadStates
  <2>3. QED
    BY <2>1, <2>2, ReadStepPub DEF PInv, TypeOK, ReaderSound, RdRec, pubVars
<1>8. CASE Done \/ UNCHANGED vars
  <2>1. UNCHANGED vars
    BY <1>8 DEF Done
  <2>2. QED
    BY <2>1 DEF vars, PInv, TypeOK, RootsCollected, NoPartialManifest,
                ManifestComplete, ReaderSound
<1>9. QED
  BY <1>1, <1>2, <1>3, <1>4, <1>5, <1>6, <1>7, <1>8 DEF Next

-----------------------------------------------------------------------------
(* Theorems.                                                              *)

(* publish never stores a partial manifest, for any number of files, any *)
(* number of re-runs, and any mix of failed adds, lost replies and        *)
(* unreadable files: hash_and_publish_files returns at the first error,   *)
(* so every manifest the store holds lists every configured file.         *)
THEOREM NoPartialManifestHolds == Spec => []NoPartialManifest
<1>1. PInv => NoPartialManifest
  BY DEF PInv
<1>2. QED
  BY InitPInv, NextPInv, <1>1, PTL DEF Spec

(* read_subfile of a hash that publish returned never finds the manifest *)
(* or a chunk file it lists absent from the store: publish adds every     *)
(* chunk file before the manifest, and the store only grows.              *)
THEOREM PublishedReadableHolds == Spec => []PublishedReadable
<1>1. PInv => PublishedReadable
  BY DEF PInv, ReaderSound, PublishedReadable
<1>2. QED
  BY InitPInv, NextPInv, <1>1, PTL DEF Spec

(* The store, publish's progress, its run counter and read_subfile's     *)
(* state keep their types: in particular every hash publish returned is  *)
(* a manifest in the store, and the reader's index stays a natural.      *)
THEOREM PublicationTypeCorrect == Spec => []TypeOK
<1>1. PInv => TypeOK
  BY DEF PInv
<1>2. QED
  BY InitPInv, NextPInv, <1>1, PTL DEF Spec

=============================================================================
