--------------------- MODULE DownloaderCompletionProofs ---------------------
(***************************************************************************)
(* Proofs that a file download_chunk_file reports as Ok is on disk        *)
(* exactly, and stays so while the later entries of the manifest are      *)
(* downloaded and detached chunk tasks keep running; and that against     *)
(* honest endpoints the download returns Ok.  They rest on the inductive  *)
(* invariant IInv of DownloaderProofs and its strengthenings CInv and     *)
(* ServedInv of Downloader.                                               *)
(***************************************************************************)
EXTENDS DownloaderProofs

USE DownloaderAssumption, NoTaskAssumption

-----------------------------------------------------------------------------
(* Arithmetic of the spawn loop.                                          *)

(* The pair of a file and an index of its spawn loop is a task.           *)
LEMMA TaskMember ==
  ASSUME NEW f \in Files, NEW i \in 0..(LoopBound(f) - 1)
  PROVE  <<f, i>> \in Tasks
  BY DEF Tasks

(* The quotient of a natural number by a positive one is natural.        *)
LEMMA DivNat ==
  ASSUME NEW x \in Nat, NEW c \in Nat \ {0}
  PROVE  x \div c \in Nat
  BY SMT

(* The spawn and join loops run over at least one index, and their       *)
(* chunks reach past total_bytes.                                         *)
LEMMA LoopBoundCovers ==
  ASSUME NEW f \in Files
  PROVE  /\ LoopBound(f) \in Nat \ {0}
         /\ LoopBound(f) * ChunkSize > FileSizes[f]
<1>1. FileSizes[f] \in Nat /\ ChunkSize \in Nat \ {0}
  BY DEF Files
<1>2. FileSizes[f] < (FileSizes[f] \div ChunkSize + 1) * ChunkSize
  BY <1>1, SMT
<1>3. FileSizes[f] \div ChunkSize \in Nat
  BY <1>1, DivNat
<1>4. QED
  BY <1>2, <1>3 DEF LoopBound

(* The range of chunk i of file f ends before total_bytes.               *)
LEMMA ChunkRangeInFile ==
  ASSUME NEW f \in Files, NEW i \in Nat
  PROVE  /\ ChunkRange(f, i)[1] = i * ChunkSize
         /\ ChunkRange(f, i)[2] = Min((i + 1) * ChunkSize, FileSizes[f]) - 1
         /\ ChunkRange(f, i)[2] < FileSizes[f]
  BY DEF ChunkRange, Min, Files

-----------------------------------------------------------------------------
(* What a task's step changes in its record.                              *)

(* Moving a task to another pc keeps its byte range and the other tasks. *)
LEMMA PcStepRange ==
  ASSUME TypeOK, NEW t \in Tasks, NEW s, task' = [task EXCEPT ![t].pc = s]
  PROVE  /\ task'[t].pc = s
         /\ task'[t].start = task[t].start
         /\ task'[t].end = task[t].end
         /\ \A u \in Tasks \ {t} : task'[u] = task[u]
<1>1. task[t] \in TaskRec
  BY DEF TypeOK
<1>2. task'[t] = [task[t] EXCEPT !.pc = s]
  BY DEF TypeOK
<1>3. [task[t] EXCEPT !.pc = s].pc = s
      /\ [task[t] EXCEPT !.pc = s].start = task[t].start
      /\ [task[t] EXCEPT !.pc = s].end = task[t].end
  BY <1>1, Zenon DEF TaskRec
<1>4. QED
  BY <1>2, <1>3 DEF TypeOK

(* Counting an attempt and sleeping keeps the task's byte range.         *)
LEMMA RetryStepRange ==
  ASSUME TypeOK, NEW t \in Tasks,
         task' = [task EXCEPT ![t] = [task[t] EXCEPT !.attempts = task[t].attempts + 1,
                                                      !.pc = "sleep"]]
  PROVE  /\ task'[t].pc = "sleep"
         /\ task'[t].start = task[t].start
         /\ task'[t].end = task[t].end
         /\ \A u \in Tasks \ {t} : task'[u] = task[u]
<1>1. task[t] \in TaskRec
  BY DEF TypeOK
<1> DEFINE r2 == [task[t] EXCEPT !.attempts = task[t].attempts + 1, !.pc = "sleep"]
<1>2. task'[t] = r2
  BY DEF TypeOK
<1>3. r2.pc = "sleep" /\ r2.start = task[t].start /\ r2.end = task[t].end
  BY <1>1, Zenon DEF TaskRec
<1>4. QED
  BY <1>2, <1>3 DEF TypeOK

-----------------------------------------------------------------------------
(* The conjuncts CInv adds to IInv.                                       *)
CRest ==
    /\ TaskRange
    /\ OkWritten
    /\ BeyondUnwritten
    /\ JoinedOk
    /\ JoinedWritten
    /\ CompletedBehind
    /\ CompletedTasksOk
    /\ CompletedFilesIntact

(* A step of a running chunk task keeps CInv when it keeps the task's     *)
(* range, writes its own range only when it returns Ok, writes nothing   *)
(* but source bytes, and nothing at or past total_bytes.                 *)
LEMMA TaskStepC ==
  ASSUME CInv, IInv', NEW t \in Tasks,
         task[t].pc \in {"req", "sleep", "lock", "seek", "write"},
         task'[t].pc # "none",
         task'[t].start = task[t].start, task'[t].end = task[t].end,
         \A u \in Tasks \ {t} : task'[u] = task[u],
         UNCHANGED <<main, cur, idx, chunkFailed, incomplete, completed>>,
         task'[t].pc = "ok" =>
            \A p \in Pos : task[t].start <= p /\ p <= task[t].end => out'[t[1]][p] = p,
         \A g \in Files \ {t[1]} : out'[g] = out[g],
         \A p \in Pos : out[t[1]][p] = p => out'[t[1]][p] = p,
         \A p \in Pos : p >= FileSizes[t[1]] => out'[t[1]][p] = out[t[1]][p]
  PROVE  CInv'
<1>0. t[1] \in Files /\ task[t].pc # "ok" /\ task[t].pc # "none"
  BY TaskIndex
<1>1. TaskRange'
  <2> SUFFICES ASSUME NEW u \in Tasks, task'[u].pc # "none"
               PROVE  <<task'[u].start, task'[u].end>> = ChunkRange(u[1], u[2])
    BY DEF TaskRange
  <2>1. CASE u = t
    BY <1>0, <2>1 DEF CInv, TaskRange
  <2>2. CASE u # t
    BY <2>2 DEF CInv, TaskRange
  <2>3. QED
    BY <2>1, <2>2
<1>2. OkWritten'
  <2> SUFFICES ASSUME NEW u \in Tasks, task'[u].pc = "ok", NEW p \in Pos,
                      task'[u].start <= p, p <= task'[u].end
               PROVE  out'[u[1]][p] = p
    BY DEF OkWritten
  <2>1. CASE u = t
    BY <2>1
  <2>2. CASE u # t
    <3>1. out[u[1]][p] = p
      BY <2>2 DEF CInv, OkWritten
    <3>2. u[1] \in Files
      BY TaskIndex
    <3>3. QED
      BY <3>1, <3>2
  <2>3. QED
    BY <2>1, <2>2
<1>3. BeyondUnwritten'
  BY <1>0 DEF CInv, BeyondUnwritten
<1>4. JoinedOk'
  <2>1. \A u \in Tasks : u[1] = cur /\ u[2] < idx /\ main = "join" /\ ~chunkFailed => u # t
    BY <1>0 DEF CInv, JoinedOk
  <2>2. QED
    BY <2>1 DEF CInv, JoinedOk
<1>5. JoinedWritten'
  BY <1>0 DEF CInv, JoinedWritten, IInv, TypeOK
<1>6. CompletedBehind'
  BY DEF CInv, CompletedBehind
<1>7. t[1] \notin completed
  BY <1>0 DEF CInv, CompletedTasksOk
<1>8. CompletedTasksOk'
  <2> SUFFICES ASSUME NEW u \in Tasks, u[1] \in completed PROVE task'[u].pc = "ok"
    BY DEF CompletedTasksOk
  <2>1. u # t
    BY <1>7
  <2>2. QED
    BY <2>1 DEF CInv, CompletedTasksOk
<1>9. CompletedFilesIntact'
  <2> SUFFICES ASSUME NEW f \in completed, NEW p \in Pos
               PROVE  out'[f][p] = IF p < FileSizes[f] THEN p ELSE Hole
    BY DEF CompletedFilesIntact
  <2>1. f \in Files \ {t[1]}
    BY <1>7 DEF CInv, IInv, TypeOK
  <2>2. out'[f] = out[f]
    BY <2>1
  <2>3. QED
    BY <2>2 DEF CInv, CompletedFilesIntact
<1>10. QED
  BY <1>1, <1>2, <1>3, <1>4, <1>5, <1>6, <1>8, <1>9 DEF CInv

(* download_chunk_file returning keeps CInv when the file it reports as   *)
(* Ok has all its tasks Ok and exactly the source on disk.               *)
LEMMA FinishFileC ==
  ASSUME CInv, IInv', NEW ok \in BOOLEAN, FinishFile(ok), UNCHANGED <<task, out>>,
         main \notin {"done", "failed"},
         ok => /\ \A t \in Tasks : t[1] = cur => task[t].pc = "ok"
               /\ \A p \in Pos : out[cur][p] = IF p < FileSizes[cur] THEN p ELSE Hole
  PROVE  CInv'
<1>1. main' \in {"fetch_chunk_file", "done", "failed"}
  BY DEF FinishFile
<1>2. \A f \in completed' : f \in completed \/ (ok /\ f = cur)
  BY DEF FinishFile
<1>3. cur \in Nat /\ completed \subseteq Nat /\ \A f \in completed : f < cur
  BY DEF CInv, IInv, TypeOK, Files, CompletedBehind
<1>4. TaskRange' /\ OkWritten' /\ BeyondUnwritten'
  BY DEF CInv, TaskRange, OkWritten, BeyondUnwritten
<1>5. JoinedOk' /\ JoinedWritten'
  BY <1>1 DEF JoinedOk, JoinedWritten
<1>6. CompletedBehind'
  <2> SUFFICES ASSUME NEW f \in completed', ~(main' \in {"done", "failed"})
               PROVE  f < cur'
    BY DEF CompletedBehind
  <2>1. cur < Len(FileSizes) /\ cur' = cur + 1
    BY DEF FinishFile
  <2>2. f \in completed \/ f = cur
    BY <1>2
  <2>3. f \in Nat /\ f <= cur
    <3>1. CASE f \in completed
      BY <1>3, <3>1
    <3>2. CASE f = cur
      BY <1>3, <3>2
    <3>3. QED
      BY <2>2, <3>1, <3>2
  <2>4. QED
    BY <1>3, <2>1, <2>3
<1>7. CompletedTasksOk'
  BY <1>2 DEF CInv, CompletedTasksOk
<1>8. CompletedFilesIntact'
  BY <1>2 DEF CInv, CompletedFilesIntact
<1>9. QED
  BY <1>4, <1>5, <1>6, <1>7, <1>8 DEF CInv

(* A step of the main task that touches neither the tasks, the files nor *)
(* the completed entries, and does not enter the join loop, keeps CInv.  *)
LEMMA MainQuietC ==
  ASSUME CInv, IInv', UNCHANGED <<task, out, cur, completed>>,
         main \notin {"done", "failed"}, main' # "join"
  PROVE  CInv'
<1>1. TaskRange' /\ OkWritten' /\ BeyondUnwritten' /\ CompletedTasksOk'
      /\ CompletedFilesIntact'
  BY DEF CInv, TaskRange, OkWritten, BeyondUnwritten, CompletedTasksOk,
     CompletedFilesIntact
<1>2. JoinedOk' /\ JoinedWritten'
  BY DEF JoinedOk, JoinedWritten
<1>3. CompletedBehind'
  BY DEF CInv, CompletedBehind
<1>4. QED
  BY <1>1, <1>2, <1>3 DEF CInv

(* File::create truncates only the file of the current entry, which is   *)
(* not complete and has no task yet.                                      *)
LEMMA CreateOutputFileC ==
  ASSUME CInv, IInv', CreateOutputFile
  PROVE  CInv'
<1>1. CASE IOFailures /\ main' = "panicked" /\ UNCHANGED out
  BY <1>1, MainQuietC DEF CreateOutputFile
<1>2. CASE main' = "spawn" /\ out' = [out EXCEPT ![cur] = [p \in Pos |-> Hole]]
  <2>1. \A f \in completed : f # cur
    BY DEF CreateOutputFile, CInv, CompletedBehind, IInv, TypeOK, Files
  <2>2. \A t \in Tasks : t[1] = cur => task[t].pc = "none"
    BY DEF CreateOutputFile, CInv, IInv, IdleAheadOfMain
  <2>3. cur \in Files /\ out \in [Files -> [Pos -> Int]]
    BY DEF CInv, IInv, TypeOK
  <2>4. \A f \in Files \ {cur} : out'[f] = out[f]
    BY <1>2, <2>3
  <2>5. \A p \in Pos : out'[cur][p] = Hole
    BY <1>2, <2>3
  <2>6. TaskRange' /\ CompletedTasksOk'
    BY DEF CreateOutputFile, CInv, TaskRange, CompletedTasksOk
  <2>7. OkWritten'
    <3> SUFFICES ASSUME NEW u \in Tasks, task'[u].pc = "ok", NEW p \in Pos,
                        task'[u].start <= p, p <= task'[u].end
                 PROVE  out'[u[1]][p] = p
      BY DEF OkWritten
    <3>1. u[1] \in Files \ {cur} /\ task[u] = task'[u]
      BY <2>2, TaskIndex DEF CreateOutputFile
    <3>2. QED
      BY <3>1, <2>4 DEF CInv, OkWritten
  <2>8. BeyondUnwritten'
    BY <2>4, <2>5 DEF CInv, BeyondUnwritten
  <2>9. JoinedOk' /\ JoinedWritten'
    BY <1>2 DEF JoinedOk, JoinedWritten
  <2>10. CompletedBehind'
    BY DEF CreateOutputFile, CInv, CompletedBehind
  <2>11. CompletedFilesIntact'
    <3>1. completed \subseteq Files
      BY DEF CInv, IInv, TypeOK
    <3>2. QED
      BY <2>1, <2>4, <3>1 DEF CreateOutputFile, CInv, CompletedFilesIntact
  <2>12. QED
    BY <2>6, <2>7, <2>8, <2>9, <2>10, <2>11 DEF CInv
<1>3. QED
  BY <1>1, <1>2 DEF CreateOutputFile

(* One iteration of the spawn loop gives the new task its chunk's range;  *)
(* entering the join loop, nothing has been joined yet.                   *)
LEMMA SpawnChunkTaskC ==
  ASSUME CInv, IInv', SpawnChunkTask
  PROVE  CInv'
<1>0. cur \in Files /\ idx \in Nat /\ main = "spawn" /\ idx < LoopBound(cur)
  BY DEF SpawnChunkTask, CInv, IInv, TypeOK
<1>1. CASE query = {} /\ FinishFile(FALSE) /\ UNCHANGED task
  BY <1>0, <1>1, FinishFileC DEF SpawnChunkTask
<1>2. CASE main' = "panicked" /\ UNCHANGED <<cur, completed, task>>
  BY <1>0, <1>2, MainQuietC DEF SpawnChunkTask
<1>3. CASE /\ \E e \in query : task' = [task EXCEPT ![<<cur, idx>>] = DownloadRangeRequest(e)]
           /\ main' = IF idx + 1 = LoopBound(cur) THEN "join" ELSE "spawn"
           /\ idx' = IF idx + 1 = LoopBound(cur) THEN 0 ELSE idx + 1
           /\ UNCHANGED <<cur, chunkFailed, completed>>
  <2> DEFINE t == <<cur, idx>>
  <2>1. t \in Tasks /\ t[1] = cur /\ t[2] = idx
    <3>1. idx \in 0..(LoopBound(cur) - 1)
      BY <1>0, LoopBoundCovers
    <3>2. QED
      BY <1>0, <3>1, TaskMember
  <2>2. PICK e \in query : task' = [task EXCEPT ![t] = DownloadRangeRequest(e)]
    BY <1>3
  <2>3. task \in [Tasks -> TaskRec]
    BY DEF CInv, IInv, TypeOK
  <2>4. /\ task'[t].pc = "req"
        /\ task'[t].start = idx * ChunkSize
        /\ task'[t].end = Min(idx * ChunkSize + ChunkSize, FileSizes[cur]) - 1
        /\ \A u \in Tasks \ {t} : task'[u] = task[u]
    BY <2>1, <2>2, <2>3 DEF DownloadRangeRequest
  <2>5. UNCHANGED out
    BY DEF SpawnChunkTask
  <2>6. TaskRange'
    <3>1. (idx + 1) * ChunkSize = idx * ChunkSize + ChunkSize
      BY <1>0
    <3>2. <<task'[t].start, task'[t].end>> = ChunkRange(t[1], t[2])
      BY <2>1, <2>4, <3>1 DEF ChunkRange
    <3>3. QED
      BY <2>4, <3>2 DEF CInv, TaskRange
  <2>7. OkWritten' /\ BeyondUnwritten'
    BY <2>4, <2>5 DEF CInv, OkWritten, BeyondUnwritten
  <2>8. JoinedOk' /\ JoinedWritten'
    <3>1. CASE idx + 1 = LoopBound(cur)
      <4>1. idx' = 0 /\ 0 <= LoopBound(cur)
        BY <1>0, <1>3, <3>1
      <4>2. \A u \in Tasks : u[2] \in Nat
        BY TaskIndex
      <4>3. Min(idx' * ChunkSize, FileSizes[cur]) = 0
        BY <4>1, <1>0 DEF Min, Files
      <4>4. QED
        BY <1>3, <4>1, <4>2, <4>3 DEF JoinedOk, JoinedWritten, Pos
    <3>2. CASE idx + 1 # LoopBound(cur)
      BY <1>3, <3>2 DEF JoinedOk, JoinedWritten
    <3>3. QED
      BY <3>1, <3>2
  <2>9. \A f \in completed : f < cur
    BY <1>0 DEF CInv, CompletedBehind
  <2>10. CompletedBehind'
    BY <1>3, <2>9 DEF CompletedBehind
  <2>11. CompletedTasksOk'
    <3> SUFFICES ASSUME NEW u \in Tasks, u[1] \in completed PROVE task'[u].pc = "ok"
      BY <1>3 DEF CompletedTasksOk
    <3>1. u # t
      BY <2>1, <2>9, <1>0 DEF CInv, IInv, TypeOK, Files
    <3>2. QED
      BY <2>4, <3>1 DEF CInv, CompletedTasksOk
  <2>12. CompletedFilesIntact'
    BY <1>3, <2>5 DEF CInv, CompletedFilesIntact
  <2>13. QED
    BY <2>6, <2>7, <2>8, <2>10, <2>11, <2>12 DEF CInv
<1>4. QED
  BY <1>1, <1>2, <1>3 DEF SpawnChunkTask

(* Joining an Ok task extends the prefix known to be on disk by its      *)
(* chunk; joining an Err marks the file failed; a JoinError or the error *)
(* of the metadata read returns Err.                                      *)
LEMMA JoinChunkTaskC ==
  ASSUME CInv, IInv', JoinChunkTask
  PROVE  CInv'
<1> DEFINE t == <<cur, idx>>
<1>0. /\ cur \in Files /\ idx \in Nat /\ main = "join" /\ idx < LoopBound(cur)
      /\ t \in Tasks /\ t[1] = cur /\ t[2] = idx
      /\ UNCHANGED <<task, out>>
  <2>1. cur \in Files /\ idx \in Nat /\ main = "join" /\ idx < LoopBound(cur)
    BY DEF JoinChunkTask, CInv, IInv, TypeOK
  <2>2. idx \in 0..(LoopBound(cur) - 1)
    BY <2>1, LoopBoundCovers
  <2>3. QED
    BY <2>1, <2>2, TaskMember DEF JoinChunkTask
<1>1. CASE FinishFile(FALSE)
  BY <1>0, <1>1, FinishFileC
<1>2. CASE /\ task[t].pc = "ok"
           /\ idx' = idx + 1
           /\ UNCHANGED <<main, cur, chunkFailed, incomplete, completed>>
  <2>1. JoinedOk'
    <3> SUFFICES ASSUME ~chunkFailed
                 PROVE  /\ idx + 1 <= LoopBound(cur)
                        /\ \A u \in Tasks : u[1] = cur /\ u[2] < idx + 1 => task[u].pc = "ok"
      BY <1>0, <1>2 DEF JoinedOk
    <3>1. idx + 1 <= LoopBound(cur)
      BY <1>0, LoopBoundCovers
    <3>2. ASSUME NEW u \in Tasks, u[1] = cur, u[2] < idx + 1 PROVE task[u].pc = "ok"
      <4>1. u[2] \in Nat /\ u = <<u[1], u[2]>>
        BY TaskIndex
      <4>2. CASE u[2] < idx
        BY <1>0, <3>2, <4>2 DEF CInv, JoinedOk
      <4>3. CASE u[2] = idx
        BY <1>2, <3>2, <4>1, <4>3
      <4>4. QED
        BY <1>0, <3>2, <4>1, <4>2, <4>3
    <3>3. QED
      BY <3>1, <3>2
  <2>2. JoinedWritten'
    <3> SUFFICES ASSUME ~chunkFailed, NEW p \in Pos,
                        p < Min((idx + 1) * ChunkSize, FileSizes[cur])
                 PROVE  out[cur][p] = p
      BY <1>0, <1>2 DEF JoinedWritten
    <3>1. CASE p < Min(idx * ChunkSize, FileSizes[cur])
      BY <1>0, <3>1 DEF CInv, JoinedWritten
    <3>2. CASE ~(p < Min(idx * ChunkSize, FileSizes[cur]))
      <4>1. <<task[t].start, task[t].end>> = ChunkRange(cur, idx)
        BY <1>0, <1>2 DEF CInv, TaskRange
      <4>2. task[t].start = idx * ChunkSize
            /\ task[t].end = Min((idx + 1) * ChunkSize, FileSizes[cur]) - 1
        BY <1>0, <4>1 DEF ChunkRange
      <4>3. p \in Int /\ FileSizes[cur] \in Nat /\ idx * ChunkSize \in Nat
            /\ (idx + 1) * ChunkSize \in Nat
        BY <1>0 DEF Pos, Files
      <4>4. task[t].start <= p /\ p <= task[t].end
        BY <3>2, <4>2, <4>3 DEF Min
      <4>5. QED
        BY <1>0, <1>2, <4>4 DEF CInv, OkWritten
    <3>3. QED
      BY <3>1, <3>2
  <2>3. QED
    BY <1>0, <1>2, <2>1, <2>2 DEF CInv, TaskRange, OkWritten, BeyondUnwritten,
       CompletedBehind, CompletedTasksOk, CompletedFilesIntact
<1>3. CASE /\ idx' = idx + 1
           /\ chunkFailed' = TRUE
           /\ UNCHANGED <<main, cur, incomplete, completed>>
  BY <1>0, <1>3 DEF CInv, TaskRange, OkWritten, BeyondUnwritten, JoinedOk,
     JoinedWritten, CompletedBehind, CompletedTasksOk, CompletedFilesIntact
<1>4. QED
  BY <1>1, <1>2, <1>3 DEF JoinChunkTask

(* At the end of the join loop without a failed chunk, every task of the  *)
(* file returned Ok and the prefix on disk reaches total_bytes.           *)
LEMMA FinishChunkFileC ==
  ASSUME CInv, IInv', FinishChunkFile
  PROVE  CInv'
<1>0. cur \in Files /\ main = "join" /\ idx = LoopBound(cur) /\ chunkFailed \in BOOLEAN
      /\ UNCHANGED <<task, out>>
  BY DEF FinishChunkFile, CInv, IInv, TypeOK
<1>1. ASSUME ~chunkFailed
      PROVE  /\ \A t \in Tasks : t[1] = cur => task[t].pc = "ok"
             /\ \A p \in Pos : out[cur][p] = IF p < FileSizes[cur] THEN p ELSE Hole
  <2>1. \A t \in Tasks : t[1] = cur => task[t].pc = "ok"
    <3> SUFFICES ASSUME NEW t \in Tasks, t[1] = cur PROVE task[t].pc = "ok"
      OBVIOUS
    <3>1. t[2] < idx
      BY <1>0, TaskIndex, LoopBoundCovers
    <3>2. QED
      BY <1>0, <1>1, <3>1 DEF CInv, JoinedOk
  <2>2. Min(idx * ChunkSize, FileSizes[cur]) = FileSizes[cur]
    <3>1. FileSizes[cur] \in Nat /\ idx * ChunkSize > FileSizes[cur]
      <4>1. FileSizes[cur] \in Nat
        BY <1>0 DEF Files
      <4>2. LoopBound(cur) * ChunkSize > FileSizes[cur]
        BY <1>0, LoopBoundCovers
      <4>3. QED
        BY <1>0, <4>1, <4>2
    <3>2. idx * ChunkSize \in Int
      BY <1>0, LoopBoundCovers
    <3>3. QED
      BY <3>1, <3>2 DEF Min
  <2>3. ASSUME NEW p \in Pos PROVE out[cur][p] = IF p < FileSizes[cur] THEN p ELSE Hole
    <3>1. CASE p < FileSizes[cur]
      BY <1>0, <1>1, <2>2, <3>1 DEF CInv, JoinedWritten
    <3>2. CASE ~(p < FileSizes[cur])
      <4>1. p >= FileSizes[cur]
        BY <3>2, <1>0 DEF Pos, Files
      <4>2. QED
        BY <1>0, <3>2, <4>1 DEF CInv, BeyondUnwritten
    <3>3. QED
      BY <3>1, <3>2
  <2>4. QED
    BY <2>1, <2>3
<1>2. QED
  BY <1>0, <1>1, FinishFileC DEF FinishChunkFile

(* write_all of the first n bytes of a task's verified body at its       *)
(* chunk's start writes source bytes, inside the chunk, and nothing at or *)
(* past total_bytes.                                                      *)
LEMMA WrittenFacts ==
  ASSUME CInv, NEW t \in Tasks, task[t].pc = "write",
         NEW n \in Int, n <= task[t].end - task[t].start + 1
  PROVE  /\ \A p \in Pos : Written(t, n)[p] = p \/ Written(t, n)[p] = out[t[1]][p]
         /\ \A p \in Pos : task[t].start <= p /\ p < task[t].start + n => Written(t, n)[p] = p
         /\ \A p \in Pos : p >= FileSizes[t[1]] => Written(t, n)[p] = out[t[1]][p]
<1>1. cursor[t[1]] = task[t].start /\ task[t].start \in Int /\ task[t].end \in Int
  BY DEF CInv, IInv, CursorAtChunkStart, TypeOK, TaskRec
<1>2. task[t].end < FileSizes[t[1]]
  <2>1. t[1] \in Files /\ t[2] \in Nat
    BY TaskIndex
  <2>2. <<task[t].start, task[t].end>> = ChunkRange(t[1], t[2])
    BY DEF CInv, TaskRange
  <2>3. task[t].end = ChunkRange(t[1], t[2])[2]
    BY <2>2
  <2>4. QED
    BY <2>1, <2>3, ChunkRangeInFile
<1>3. \A p \in Pos : Written(t, n)[p] = IF task[t].start <= p /\ p < task[t].start + n
                                         THEN p ELSE out[t[1]][p]
  BY <1>1 DEF Written, Pos
<1>4. \A p \in Pos : Written(t, n)[p] = p \/ Written(t, n)[p] = out[t[1]][p]
  BY <1>3
<1>5. \A p \in Pos : task[t].start <= p /\ p < task[t].start + n => Written(t, n)[p] = p
  BY <1>3
<1>6. ASSUME NEW p \in Pos, p >= FileSizes[t[1]] PROVE Written(t, n)[p] = out[t[1]][p]
  <2>0. FileSizes[t[1]] \in Nat
    BY TaskIndex DEF Files
  <2>1. task[t].start + n <= FileSizes[t[1]]
    BY <1>1, <1>2, <2>0
  <2>2. p \in Int
    BY DEF Pos
  <2>3. ~(p < task[t].start + n)
    BY <1>1, <1>6, <2>0, <2>1, <2>2
  <2>4. QED
    BY <1>3, <2>3
<1>7. QED
  BY <1>4, <1>5, <1>6

(* The steps of a chunk task that write nothing and do not return Ok.     *)
LEMMA TaskQuietC ==
  ASSUME CInv, IInv', NEW t \in Tasks,
         task[t].pc \in {"req", "sleep", "lock", "seek", "write"},
         task'[t].pc \notin {"none", "ok"},
         task'[t].start = task[t].start, task'[t].end = task[t].end,
         \A u \in Tasks \ {t} : task'[u] = task[u],
         UNCHANGED <<main, cur, idx, chunkFailed, incomplete, completed, out>>
  PROVE  CInv'
  BY TaskStepC

(* write_all returns Ok after writing the whole chunk, or Err after a     *)
(* prefix of it; either way only the task's own chunk is written.        *)
LEMMA WriteChunkC ==
  ASSUME CInv, IInv', NEW t \in Tasks, WriteChunk(t)
  PROVE  CInv'
<1> DEFINE f == t[1]
           len == task[t].end - task[t].start + 1
<1>0. /\ f \in Files /\ task[t].pc = "write" /\ len \in Int
      /\ out \in [Files -> [Pos -> Int]] /\ TypeOK
  <2>1. TypeOK
    BY DEF CInv, IInv
  <2>2. task[t] \in TaskRec
    BY <2>1 DEF TypeOK
  <2>3. len \in Int
    BY <2>2 DEF TaskRec
  <2>4. QED
    BY <2>1, <2>3, TaskIndex DEF WriteChunk, TypeOK
<1>1. UNCHANGED <<main, cur, idx, chunkFailed, incomplete, completed>>
  BY DEF WriteChunk, mainVars
<1>2. ASSUME NEW n \in Int, n <= len, out' = [out EXCEPT ![f] = Written(t, n)]
      PROVE  /\ out'[f] = Written(t, n)
             /\ \A g \in Files \ {f} : out'[g] = out[g]
             /\ \A p \in Pos : out[f][p] = p => out'[f][p] = p
             /\ \A p \in Pos : p >= FileSizes[f] => out'[f][p] = out[f][p]
  <2>1. out'[f] = Written(t, n) /\ \A g \in Files \ {f} : out'[g] = out[g]
    BY <1>0, <1>2
  <2>2. QED
    BY <1>0, <1>2, <2>1, WrittenFacts
<1>3. CASE out' = [out EXCEPT ![f] = Written(t, len)] /\ task' = [task EXCEPT ![t].pc = "ok"]
  <2>1. /\ task'[t].pc = "ok"
        /\ task'[t].start = task[t].start /\ task'[t].end = task[t].end
        /\ \A u \in Tasks \ {t} : task'[u] = task[u]
    BY <1>0, <1>3, PcStepRange, Zenon
  <2>2. \A p \in Pos : task[t].start <= p /\ p <= task[t].end => out'[f][p] = p
    <3>1. task[t].start \in Int /\ task[t].end \in Int
      BY <1>0 DEF TypeOK, TaskRec
    <3>2. \A p \in Pos : task[t].start <= p /\ p <= task[t].end => p < task[t].start + len
      BY <3>1 DEF Pos
    <3>3. QED
      BY <1>0, <1>2, <1>3, <3>2, WrittenFacts
  <2>3. /\ \A g \in Files \ {f} : out'[g] = out[g]
        /\ \A p \in Pos : out[f][p] = p => out'[f][p] = p
        /\ \A p \in Pos : p >= FileSizes[f] => out'[f][p] = out[f][p]
    <3>1. out' = [out EXCEPT ![f] = Written(t, len)]
      BY <1>3
    <3>2. len \in Int /\ len <= len
      BY <1>0
    <3>3. QED
      BY <1>2, <3>1, <3>2, Zenon
  <2>4. QED
    BY <1>0, <1>1, <2>1, <2>2, <2>3, TaskStepC
<1>4. CASE /\ \E n \in 0..(len - 1) : out' = [out EXCEPT ![f] = Written(t, n)]
           /\ task' = [task EXCEPT ![t].pc = "err"]
  <2>1. /\ task'[t].pc = "err"
        /\ task'[t].start = task[t].start /\ task'[t].end = task[t].end
        /\ \A u \in Tasks \ {t} : task'[u] = task[u]
    BY <1>0, <1>4, PcStepRange, Zenon
  <2>2. PICK n \in 0..(len - 1) : out' = [out EXCEPT ![f] = Written(t, n)]
    BY <1>4
  <2>3. n \in Int /\ n <= len
    BY <1>0
  <2>4. /\ \A g \in Files \ {f} : out'[g] = out[g]
        /\ \A p \in Pos : out[f][p] = p => out'[f][p] = p
        /\ \A p \in Pos : p >= FileSizes[f] => out'[f][p] = out[f][p]
    BY <1>2, <2>2, <2>3
  <2>5. QED
    BY <1>0, <1>1, <2>1, <2>4, TaskStepC
<1>5. QED
  BY <1>3, <1>4 DEF WriteChunk, FailTask

(* CInv is inductive.                                                     *)
LEMMA NextCInv == CInv /\ [Next]_vars => CInv'
<1> SUFFICES ASSUME CInv, [Next]_vars PROVE CInv'
  OBVIOUS
<1>0. IInv' /\ TypeOK
  BY NextIInv DEF CInv, IInv
<1>1. CASE FetchSubfile
  BY <1>0, <1>1, MainQuietC DEF FetchSubfile
<1>2. CASE FetchChunkFile
  <2>1. CASE main' = "probe" /\ UNCHANGED <<cur, completed>>
    BY <1>0, <1>2, <2>1, MainQuietC DEF FetchChunkFile
  <2>2. CASE FinishFile(FALSE)
    BY <1>0, <1>2, <2>2, FinishFileC DEF FetchChunkFile
  <2>3. QED
    BY <1>2, <2>1, <2>2 DEF FetchChunkFile
<1>3. ASSUME NEW e \in Endpoints, CheckEndpointAvailability(e) PROVE CInv'
  BY <1>0, <1>3, MainQuietC DEF CheckEndpointAvailability, mainVars
<1>4. CASE CreateOutputFile
  BY <1>0, <1>4, CreateOutputFileC
<1>5. CASE SpawnChunkTask
  BY <1>0, <1>5, SpawnChunkTaskC
<1>6. CASE JoinChunkTask
  BY <1>0, <1>6, JoinChunkTaskC
<1>7. CASE FinishChunkFile
  BY <1>0, <1>7, FinishChunkFileC
<1>8. ASSUME NEW t \in Tasks, RequestChunk(t) PROVE CInv'
  <2>1. \/ \E s \in {"panicked", "lock", "hung", "err"} : task' = [task EXCEPT ![t].pc = s]
        \/ task' = [task EXCEPT ![t] = [task[t] EXCEPT !.attempts = task[t].attempts + 1,
                                                      !.pc = "sleep"]]
    BY <1>8 DEF RequestChunk, FailTask
  <2>2. /\ task'[t].pc \in {"panicked", "lock", "hung", "err", "sleep"}
        /\ task'[t].start = task[t].start /\ task'[t].end = task[t].end
        /\ \A u \in Tasks \ {t} : task'[u] = task[u]
    <3>1. CASE \E s \in {"panicked", "lock", "hung", "err"} : task' = [task EXCEPT ![t].pc = s]
      <4>1. PICK s \in {"panicked", "lock", "hung", "err"} : task' = [task EXCEPT ![t].pc = s]
        BY <3>1
      <4>2. QED
        BY <1>0, <4>1, PcStepRange
    <3>2. CASE task' = [task EXCEPT ![t] = [task[t] EXCEPT !.attempts = task[t].attempts + 1,
                                                          !.pc = "sleep"]]
      BY <1>0, <3>2, RetryStepRange
    <3>3. QED
      BY <2>1, <3>1, <3>2
  <2>3. QED
    BY <1>0, <1>8, <2>2, TaskQuietC DEF RequestChunk, mainVars
<1>9. ASSUME NEW t \in Tasks, RetryAfterSleep(t) PROVE CInv'
  <2>1. /\ task'[t].pc = "req"
        /\ task'[t].start = task[t].start /\ task'[t].end = task[t].end
        /\ \A u \in Tasks \ {t} : task'[u] = task[u]
    BY <1>0, <1>9, PcStepRange, Zenon DEF RetryAfterSleep
  <2>2. QED
    BY <1>0, <1>9, <2>1, TaskQuietC DEF RetryAfterSleep, mainVars
<1>10. ASSUME NEW t \in Tasks, AcquireFileLock(t) PROVE CInv'
  <2>1. /\ task'[t].pc = "seek"
        /\ task'[t].start = task[t].start /\ task'[t].end = task[t].end
        /\ \A u \in Tasks \ {t} : task'[u] = task[u]
    BY <1>0, <1>10, PcStepRange, Zenon DEF AcquireFileLock
  <2>2. QED
    BY <1>0, <1>10, <2>1, TaskQuietC DEF AcquireFileLock, mainVars
<1>11. ASSUME NEW t \in Tasks, SeekChunk(t) PROVE CInv'
  <2>1. task' = [task EXCEPT ![t].pc = "write"] \/ task' = [task EXCEPT ![t].pc = "err"]
    BY <1>11 DEF SeekChunk, FailTask
  <2>2. /\ task'[t].pc \in {"write", "err"}
        /\ task'[t].start = task[t].start /\ task'[t].end = task[t].end
        /\ \A u \in Tasks \ {t} : task'[u] = task[u]
    BY <1>0, <2>1, PcStepRange, Zenon
  <2>3. QED
    BY <1>0, <1>11, <2>2, TaskQuietC DEF SeekChunk, mainVars
<1>12. ASSUME NEW t \in Tasks, WriteChunk(t) PROVE CInv'
  BY <1>0, <1>12, WriteChunkC
<1>13. CASE UNCHANGED vars
  BY <1>13 DEF vars, CInv, IInv, TypeOK, OutputMatchesSource, LockHeldWhileWriting,
     CursorAtChunkStart, IdleAheadOfMain, TaskRange, OkWritten, BeyondUnwritten,
     JoinedOk, JoinedWritten, CompletedBehind, CompletedTasksOk, CompletedFilesIntact
<1>14. QED
  BY <1>1, <1>2, <1>3, <1>4, <1>5, <1>6, <1>7, <1>8, <1>9, <1>10, <1>11,
     <1>12, <1>13 DEF Next, MainStep, TaskStep

(* Before download_subfile starts, no task exists and no file is written. *)
LEMMA InitCInv == Init => CInv
<1> SUFFICES ASSUME Init PROVE CInv
  OBVIOUS
<1>1. IInv
  BY InitIInv
<1>2. \A t \in Tasks : task[t].pc = "none"
  BY DEF Init
<1>3. \A f \in Files : \A p \in Pos : out[f][p] = Hole
  BY DEF Init
<1>4. QED
  BY <1>1, <1>2, <1>3 DEF Init, CInv, TaskRange, OkWritten, BeyondUnwritten, JoinedOk,
     JoinedWritten, CompletedBehind, CompletedTasksOk, CompletedFilesIntact

(* download_chunk_file reports a file as Ok only when every byte below   *)
(* total_bytes is on disk and holds the source byte, and nothing lies    *)
(* beyond; this stays true to the end of download_subfile, whatever the *)
(* chunk tasks of the later entries and their retries do.               *)
THEOREM CompletedIntact == Spec => []CompletedFilesIntact
<1>1. CInv => CompletedFilesIntact
  BY DEF CInv
<1>2. QED
  BY InitCInv, NextCInv, <1>1, PTL DEF Spec

(* No step writes a completed file: File::create truncates only the file *)
(* of the current entry, and a chunk task writes only when it has not    *)
(* returned, while every task of a completed file returned Ok.            *)
LEMMA FrozenStep ==
  ASSUME CInv, Next
  PROVE  \A f \in completed : out'[f] = out[f]
<1>0. TypeOK /\ completed \subseteq Files /\ out \in [Files -> [Pos -> Int]]
  BY DEF CInv, IInv, TypeOK
<1>1. CASE CreateOutputFile
  <2>1. \A f \in completed : f # cur
    BY <1>0, <1>1 DEF CreateOutputFile, CInv, CompletedBehind, TypeOK, Files
  <2>2. QED
    BY <1>0, <1>1, <2>1 DEF CreateOutputFile
<1>2. ASSUME NEW t \in Tasks, WriteChunk(t)
      PROVE  \A f \in completed : out'[f] = out[f]
  <2>1. t[1] \notin completed
    BY <1>2 DEF WriteChunk, CInv, CompletedTasksOk
  <2>2. \E n \in Int : out' = [out EXCEPT ![t[1]] = Written(t, n)]
    <3>1. task[t].end - task[t].start + 1 \in Int
      BY <1>0 DEF TypeOK, TaskRec
    <3>2. QED
      BY <1>2, <3>1 DEF WriteChunk
  <2>3. QED
    BY <1>0, <2>1, <2>2
<1>3. CASE ~CreateOutputFile /\ ~\E t \in Tasks : WriteChunk(t)
  BY <1>3 DEF Next, MainStep, TaskStep, FetchSubfile, FetchChunkFile,
     CheckEndpointAvailability, SpawnChunkTask, JoinChunkTask, FinishChunkFile,
     RequestChunk, RetryAfterSleep, AcquireFileLock, SeekChunk, vars
<1>4. QED
  BY <1>1, <1>2, <1>3

(* Once download_chunk_file has reported a file as Ok, no later step of  *)
(* download_subfile or of a detached chunk task changes its bytes.       *)
THEOREM CompletedFrozen == Spec => CompletedFilesFrozen
<1>1. CInv /\ [Next]_vars => [\A f \in completed : out'[f] = out[f]]_vars
  BY FrozenStep DEF vars
<1>2. QED
  BY InitCInv, NextCInv, <1>1, PTL DEF Spec, CompletedFilesFrozen

-----------------------------------------------------------------------------
(* A download from endpoints that all serve the manifest succeeds.        *)

(* An honest endpoint answers every range request with the chunk and     *)
(* every probe with success.                                              *)
LEMMA HonestAnswers ==
  /\ Responses("honest") = {"chunk"}
  /\ ProbeOutcomes("honest") = {TRUE}
  /\ ~ProbeHangs("honest")
  BY DEF Responses, ProbeOutcomes, ProbeHangs

(* Rounding up a quotient whose division leaves a remainder.             *)
LEMMA DivRoundUp ==
  ASSUME NEW x \in Nat, NEW c \in Nat \ {0}, x % c # 0
  PROVE  (x + c - 1) \div c = x \div c + 1
<1> DEFINE q == x \div c
<1>1. q \in Int /\ q * c <= x /\ x < q * c + c
  BY SMT
<1>2. x % c = x - q * c
  BY SMT
<1>3. q * c < x
  BY <1>1, <1>2
<1>4. ASSUME NEW k \in Int, k * c < x, x < k * c + c
      PROVE  (x + c - 1) \div c = k + 1
  BY <1>4, SMT
<1>5. QED
  BY <1>1, <1>3, <1>4

(* When total_bytes is not a multiple of chunk_size, the spawn loop's     *)
(* bound is the number of chunk hashes: chunk_hashes[i] is never read    *)
(* out of bounds.                                                         *)
LEMMA LoopWithinHashes ==
  ASSUME NEW f \in Files, FileSizes[f] % ChunkSize # 0
  PROVE  LoopBound(f) = NumHashes(f)
<1>1. FileSizes[f] \in Nat
  BY DEF Files
<1>2. (FileSizes[f] + ChunkSize - 1) \div ChunkSize = FileSizes[f] \div ChunkSize + 1
  BY <1>1, DivRoundUp
<1>3. QED
  BY <1>2 DEF LoopBound, NumHashes

(* The conjuncts ServedInv adds to CInv.                                  *)
SRest ==
    /\ hasAuthToken
    /\ blocklist = {}
    /\ main \notin {"failed", "panicked"}
    /\ incomplete = {}
    /\ ~chunkFailed
    /\ stalled = {}
    /\ \A t \in Tasks : task[t].pc \notin {"err", "panicked", "hung"}
    /\ main = "probe" => query \cup probing = Endpoints
    /\ main \in {"spawn", "join"} => query = Endpoints

(* A task step that leaves the task out of err, panicked and hung and     *)
(* touches neither the blocklist nor the main task's state keeps SRest.   *)
LEMMA TaskStepServed ==
  ASSUME SRest, NEW t \in Tasks, task'[t].pc \notin {"err", "panicked", "hung"},
         \A u \in Tasks \ {t} : task'[u] = task[u],
         UNCHANGED <<hasAuthToken, main, chunkFailed, incomplete, blocklist, probing, stalled,
                     query>>
  PROVE  SRest'
  BY DEF SRest

(* In the honest setting no step fails a probe, a chunk, a file or the   *)
(* download.                                                              *)
LEMMA NextServed ==
  ASSUME HonestSetting, ServedInv, [Next]_vars
  PROVE  ServedInv'
<1>0. CInv'
  BY NextCInv DEF ServedInv
<1>1. /\ \A e \in Endpoints : /\ Responses(Behaviour[e]) = {"chunk"}
                              /\ ProbeOutcomes(Behaviour[e]) = {TRUE}
                              /\ ~ProbeHangs(Behaviour[e])
      /\ ~StoreFailures /\ ~IOFailures
  BY HonestAnswers DEF HonestSetting
<1>2. SRest /\ CInv /\ TypeOK
  BY DEF ServedInv, SRest, CInv, IInv
<1> SUFFICES SRest'
  BY <1>0 DEF ServedInv, SRest
<1>3. CASE FetchSubfile
  BY <1>1, <1>2, <1>3 DEF FetchSubfile, SRest
<1>4. CASE FetchChunkFile
  <2>1. /\ main' = "probe" /\ probing' = Endpoints \ blocklist /\ query' = {}
        /\ UNCHANGED <<hasAuthToken, chunkFailed, incomplete, blocklist, stalled, task>>
    BY <1>1, <1>4 DEF FetchChunkFile, UnblockedEndpoints
  <2>2. QED
    BY <1>2, <2>1 DEF SRest
<1>5. ASSUME NEW e \in Endpoints, CheckEndpointAvailability(e) PROVE SRest'
  <2>1. query' = query \cup {e} /\ UNCHANGED <<blocklist, stalled>>
    <3>1. ProbeOutcomes(Behaviour[e]) = {TRUE} /\ ~ProbeHangs(Behaviour[e])
      BY <1>1
    <3>2. QED
      BY <1>5, <3>1, Zenon DEF CheckEndpointAvailability
  <2>2. QED
    BY <1>2, <1>5, <2>1 DEF CheckEndpointAvailability, SRest, mainVars
<1>6. CASE CreateOutputFile
  BY <1>1, <1>2, <1>6 DEF CreateOutputFile, SRest
<1>7. CASE SpawnChunkTask
  <2>1. cur \in Files /\ idx \in Nat /\ idx < LoopBound(cur) /\ main = "spawn"
    BY <1>2, <1>7 DEF SpawnChunkTask, TypeOK
  <2>2. idx < NumHashes(cur) /\ NumHashes(cur) \in Int /\ query # {}
    BY <2>1, LoopWithinHashes, LoopBoundCovers, <1>2 DEF HonestSetting, SRest
  <2>3. <<cur, idx>> \in Tasks
    BY <2>1, LoopBoundCovers, TaskMember
  <2>0. /\ \E e \in query : task' = [task EXCEPT ![<<cur, idx>>] = DownloadRangeRequest(e)]
        /\ main' = IF idx + 1 = LoopBound(cur) THEN "join" ELSE "spawn"
        /\ UNCHANGED <<query, chunkFailed, incomplete>>
    <3>1. ~(query = {}) /\ ~(idx >= NumHashes(cur))
      BY <2>1, <2>2
    <3>2. QED
      BY <1>7, <3>1 DEF SpawnChunkTask
  <2>4. PICK e \in query : task' = [task EXCEPT ![<<cur, idx>>] = DownloadRangeRequest(e)]
    BY <2>0
  <2>5. \A u \in Tasks : task'[u].pc \notin {"err", "panicked", "hung"}
    BY <1>2, <2>3, <2>4 DEF SRest, TypeOK, DownloadRangeRequest
  <2>6. main' \in {"spawn", "join"} /\ UNCHANGED <<query, chunkFailed, incomplete>>
    BY <2>0
  <2>7. QED
    BY <1>2, <1>7, <2>5, <2>6 DEF SpawnChunkTask, SRest
<1>8. CASE JoinChunkTask
  <2>0. cur \in Files /\ idx \in Nat /\ idx < LoopBound(cur)
    BY <1>2, <1>8 DEF JoinChunkTask, TypeOK
  <2>1. <<cur, idx>> \in Tasks
    <3>1. LoopBound(cur) \in Nat \ {0}
      BY <2>0, LoopBoundCovers
    <3>2. idx \in 0..(LoopBound(cur) - 1)
      BY <2>0, <3>1
    <3>3. QED
      BY <2>0, <3>2, TaskMember
  <2>2. task[<<cur, idx>>].pc \notin {"err", "panicked"}
    BY <1>2, <2>1 DEF SRest
  <2>3. UNCHANGED <<main, chunkFailed, incomplete>>
    BY <1>1, <1>8, <2>2 DEF JoinChunkTask
  <2>4. QED
    BY <1>2, <1>8, <2>3 DEF JoinChunkTask, SRest
<1>9. CASE FinishChunkFile
  <2>1. FinishFile(TRUE)
    BY <1>2, <1>9 DEF FinishChunkFile, SRest
  <2>2. incomplete' = {} /\ main' \in {"fetch_chunk_file", "done"}
    BY <1>2, <2>1 DEF FinishFile, SRest
  <2>3. QED
    BY <1>2, <1>9, <2>1, <2>2 DEF FinishChunkFile, FinishFile, SRest
<1>10. ASSUME NEW t \in Tasks, RequestChunk(t) PROVE SRest'
  <2>1. task[t].pc = "req" /\ task[t].ep \in Endpoints /\ hasAuthToken
    BY <1>2, <1>10 DEF RequestChunk, TypeOK, TaskRec, SRest
  <2>2. Responses(Behaviour[task[t].ep]) = {"chunk"}
    BY <1>1, <2>1
  <2>3. <<task[t].start, task[t].end>> = ChunkRange(t[1], t[2])
    BY <1>2, <2>1 DEF CInv, TaskRange
  <2>4. task' = [task EXCEPT ![t].pc = "lock"] /\ UNCHANGED blocklist
    BY <1>10, <2>1, <2>2, <2>3, Zenon DEF RequestChunk
  <2>5. task'[t].pc = "lock" /\ \A u \in Tasks \ {t} : task'[u] = task[u]
    BY <1>2, <2>4, PcStep, Zenon
  <2>6. QED
    BY <1>2, <1>10, <2>4, <2>5, TaskStepServed DEF RequestChunk, mainVars
<1>11. ASSUME NEW t \in Tasks, RetryAfterSleep(t) PROVE SRest'
  <2>1. task'[t].pc = "req" /\ \A u \in Tasks \ {t} : task'[u] = task[u]
    BY <1>2, <1>11, PcStep, Zenon DEF RetryAfterSleep
  <2>2. QED
    BY <1>2, <1>11, <2>1, TaskStepServed DEF RetryAfterSleep, mainVars
<1>12. ASSUME NEW t \in Tasks, AcquireFileLock(t) PROVE SRest'
  <2>1. task'[t].pc = "seek" /\ \A u \in Tasks \ {t} : task'[u] = task[u]
    BY <1>2, <1>12, PcStep, Zenon DEF AcquireFileLock
  <2>2. QED
    BY <1>2, <1>12, <2>1, TaskStepServed DEF AcquireFileLock, mainVars
<1>13. ASSUME NEW t \in Tasks, SeekChunk(t) PROVE SRest'
  <2>1. task' = [task EXCEPT ![t].pc = "write"] /\ UNCHANGED blocklist
    BY <1>1, <1>13 DEF SeekChunk
  <2>2. task'[t].pc = "write" /\ \A u \in Tasks \ {t} : task'[u] = task[u]
    BY <1>2, <2>1, PcStep, Zenon
  <2>3. QED
    BY <1>2, <1>13, <2>1, <2>2, TaskStepServed DEF SeekChunk, mainVars
<1>14. ASSUME NEW t \in Tasks, WriteChunk(t) PROVE SRest'
  <2>1. task' = [task EXCEPT ![t].pc = "ok"] /\ UNCHANGED blocklist
    BY <1>1, <1>14 DEF WriteChunk
  <2>2. task'[t].pc = "ok" /\ \A u \in Tasks \ {t} : task'[u] = task[u]
    BY <1>2, <2>1, PcStep, Zenon
  <2>3. QED
    BY <1>2, <1>14, <2>1, <2>2, TaskStepServed DEF WriteChunk, mainVars
<1>15. CASE UNCHANGED vars
  BY <1>2, <1>15 DEF vars, SRest
<1>16. QED
  BY <1>3, <1>4, <1>5, <1>6, <1>7, <1>8, <1>9, <1>10, <1>11, <1>12, <1>13,
     <1>14, <1>15 DEF Next, MainStep, TaskStep

(* The honest setting starts with a token and an empty blocklist.       *)
LEMMA InitServed ==
  ASSUME HonestSetting, Init
  PROVE  ServedInv
<1>1. CInv
  BY InitCInv
<1>2. hasAuthToken
  BY DEF HonestSetting, Init
<1>3. \A t \in Tasks : task[t].pc = "none"
  BY DEF Init
<1>4. QED
  BY <1>1, <1>2, <1>3 DEF Init, ServedInv

(* Against endpoints that all serve the manifest, with an auth token,     *)
(* without IPFS or local file failures and with no file size a multiple *)
(* of chunk_size, download_subfile never returns Err nor panics: when it  *)
(* and its chunk tasks have stopped, it has returned Ok (spec section 8,  *)
(* scenarios 1 and 3; the sizes of scenarios 2 and 6 are multiples of    *)
(* chunk_size, where the spawn loop panics).                              *)
THEOREM ServedSucceeds ==
  ASSUME HonestSetting
  PROVE  Spec => []SucceedsIfServed
<1>1. Init => ServedInv
  BY InitServed
<1>2. ServedInv /\ [Next]_vars => ServedInv'
  BY NextServed
<1>3. ServedInv => SucceedsIfServed
  BY DEF ServedInv, SucceedsIfServed, Terminated
<1>4. QED
  BY <1>1, <1>2, <1>3, PTL DEF Spec

=============================================================================
