-------------------------- MODULE DownloaderProofs --------------------------
(***************************************************************************)
(* Proofs about the download engine, for every endpoint set, manifest,    *)
(* chunk size and retry bound that DownloaderAssumption admits.           *)
(***************************************************************************)
EXTENDS Downloader, TLAPS

USE DownloaderAssumption, NoTaskAssumption

-----------------------------------------------------------------------------
(* A task is a pair of a file and an index of that file's spawn loop.     *)
LEMMA TaskIndex ==
  ASSUME NEW t \in Tasks
  PROVE  /\ t = <<t[1], t[2]>>
         /\ t[1] \in Files
         /\ t[2] \in 0..(LoopBound(t[1]) - 1)
  BY DEF Tasks

-----------------------------------------------------------------------------
(* Lemmas about the updates of a task's record.                           *)

(* Moving a task to another pc keeps its record well formed.              *)
LEMMA PcUpdate ==
  ASSUME NEW r \in TaskRec, NEW s \in TaskStates
  PROVE  [r EXCEPT !.pc = s] \in TaskRec
  BY DEF TaskRec

LEMMA TaskPcUpdate ==
  ASSUME NEW tk \in [Tasks -> TaskRec], NEW t, NEW s \in TaskStates
  PROVE  [tk EXCEPT ![t].pc = s] \in [Tasks -> TaskRec]
  BY PcUpdate

(* Counting an attempt and sleeping keeps the record well formed.         *)
LEMMA RetryUpdate ==
  ASSUME NEW tk \in [Tasks -> TaskRec], NEW t \in Tasks
  PROVE  [tk EXCEPT ![t] = [tk[t] EXCEPT !.attempts = tk[t].attempts + 1, !.pc = "sleep"]]
           \in [Tasks -> TaskRec]
  <1>1. tk[t] \in TaskRec /\ tk[t].attempts + 1 \in Nat
    BY DEF TaskRec
  <1>2. [tk[t] EXCEPT !.attempts = tk[t].attempts + 1, !.pc = "sleep"] \in TaskRec
    BY <1>1, Zenon DEF TaskRec, TaskStates
  <1>3. QED
    BY <1>2

-----------------------------------------------------------------------------
(* Type correctness.                                                      *)

LEMMA InitTypeOK == Init => TypeOK
<1> SUFFICES ASSUME Init PROVE TypeOK
  OBVIOUS
<1>1. (CHOOSE e \in Endpoints : TRUE) \in Endpoints
  OBVIOUS
<1>2. task \in [Tasks -> TaskRec]
  BY <1>1 DEF Init, TaskRec, TaskStates
<1>3. out \in [Files -> [Pos -> Int]]
  BY DEF Init, Hole
<1>4. cur \in Files
  BY DEF Init, Files
<1>5. fileLock \in [Files -> Tasks \cup {NoTask}] /\ cursor \in [Files -> Int]
  BY DEF Init
<1>6. hasAuthToken \in BOOLEAN /\ main \in MainStates
  BY DEF Init, MainStates
<1>7. QED
  BY <1>2, <1>3, <1>4, <1>5, <1>6 DEF Init, TypeOK

(* FinishFile keeps the main task's variables well typed.                 *)
LEMMA FinishFileTypeOK ==
  ASSUME TypeOK, NEW ok \in BOOLEAN, FinishFile(ok)
  PROVE  /\ main' \in MainStates /\ cur' \in Files /\ idx' \in Nat
         /\ chunkFailed' \in BOOLEAN
         /\ incomplete' \subseteq Files /\ completed' \subseteq Files
<1>1. cur' \in Files
  BY DEF FinishFile, TypeOK, Files
<1>2. main' \in MainStates
  BY DEF FinishFile, MainStates
<1>3. QED
  BY <1>1, <1>2 DEF FinishFile, TypeOK


(* A chunk written, whole or in part, leaves the file's bytes integers.   *)
LEMMA WrittenType ==
  ASSUME TypeOK, NEW t \in Tasks, NEW n \in Int
  PROVE  Written(t, n) \in [Pos -> Int]
<1>1. t[1] \in Files /\ task[t].start \in Int /\ cursor[t[1]] \in Int
  BY DEF TypeOK, Tasks, TaskRec
<1>2. out[t[1]] \in [Pos -> Int]
  BY <1>1 DEF TypeOK
<1>3. \A p \in Pos : p \in Int
  BY DEF Pos
<1>4. QED
  BY <1>1, <1>2, <1>3 DEF Written

LEMMA NextTypeOK == TypeOK /\ [Next]_vars => TypeOK'
<1> SUFFICES ASSUME TypeOK, [Next]_vars PROVE TypeOK'
  OBVIOUS
<1>1. CASE FetchSubfile
  BY <1>1 DEF FetchSubfile, TypeOK, MainStates
<1>2. CASE FetchChunkFile
  <2>1. CASE main' = "probe" /\ probing' = UnblockedEndpoints /\ query' = {}
              /\ UNCHANGED <<hasAuthToken, maxRetry, cur, idx, chunkFailed, incomplete, completed>>
    BY <1>2, <2>1 DEF FetchChunkFile, TypeOK, MainStates, UnblockedEndpoints
  <2>2. CASE FinishFile(FALSE) /\ UNCHANGED <<probing, query>>
    BY <1>2, <2>2, FinishFileTypeOK DEF FetchChunkFile, TypeOK
  <2>3. QED
    BY <1>2, <2>1, <2>2 DEF FetchChunkFile
<1>3. ASSUME NEW e \in Endpoints, CheckEndpointAvailability(e)
      PROVE TypeOK'
  BY <1>3 DEF CheckEndpointAvailability, TypeOK, mainVars
<1>4. CASE CreateOutputFile
  <2>1. [p \in Pos |-> Hole] \in [Pos -> Int]
    BY DEF Hole
  <2>2. out' \in [Files -> [Pos -> Int]] /\ cursor' \in [Files -> Int]
    <3>1. CASE out' = [out EXCEPT ![cur] = [p \in Pos |-> Hole]]
               /\ cursor' = [cursor EXCEPT ![cur] = 0]
      <4>1. cur \in Files /\ out \in [Files -> [Pos -> Int]] /\ cursor \in [Files -> Int]
        BY DEF TypeOK
      <4>2. QED
        BY <3>1, <4>1, <2>1
    <3>2. CASE UNCHANGED <<out, cursor>>
      BY <3>2 DEF TypeOK
    <3>3. QED
      BY <1>4, <3>1, <3>2 DEF CreateOutputFile
  <2>3. main' \in MainStates
    BY <1>4 DEF CreateOutputFile, MainStates
  <2>4. QED
    BY <1>4, <2>2, <2>3 DEF CreateOutputFile, TypeOK
<1>5. CASE SpawnChunkTask
  <2>1. CASE query = {} /\ FinishFile(FALSE) /\ UNCHANGED task
    BY <1>5, <2>1, FinishFileTypeOK DEF SpawnChunkTask, TypeOK
  <2>2. CASE main' = "panicked"
              /\ UNCHANGED <<hasAuthToken, cur, idx, chunkFailed, incomplete, completed, task>>
    BY <1>5, <2>2 DEF SpawnChunkTask, TypeOK, MainStates
  <2>3. CASE /\ \E e \in query :
                  task' = [task EXCEPT ![<<cur, idx>>] = DownloadRangeRequest(e)]
             /\ main' = IF idx + 1 = LoopBound(cur) THEN "join" ELSE "spawn"
             /\ idx' = IF idx + 1 = LoopBound(cur) THEN 0 ELSE idx + 1
             /\ UNCHANGED <<hasAuthToken, cur, chunkFailed, incomplete, completed>>
    <3>1. PICK e \in query :
            task' = [task EXCEPT ![<<cur, idx>>] = DownloadRangeRequest(e)]
      BY <2>3
    <3>2. FileSizes[cur] \in Nat /\ e \in Endpoints
      BY DEF TypeOK, Files
    <3>3. DownloadRangeRequest(e) \in TaskRec
      BY <3>2 DEF TypeOK, TaskRec, TaskStates, Min, DownloadRangeRequest
    <3>4. task' \in [Tasks -> TaskRec]
      BY <3>1, <3>3 DEF TypeOK
    <3>5. QED
      BY <1>5, <2>3, <3>4 DEF SpawnChunkTask, TypeOK, MainStates
  <2>4. QED
    BY <1>5, <2>1, <2>2, <2>3 DEF SpawnChunkTask
<1>6. CASE JoinChunkTask
  <2>1. CASE idx' = idx + 1 /\ UNCHANGED <<hasAuthToken, main, cur, chunkFailed, incomplete, completed>>
    BY <1>6, <2>1 DEF JoinChunkTask, TypeOK
  <2>2. CASE FinishFile(FALSE)
    BY <1>6, <2>2, FinishFileTypeOK DEF JoinChunkTask, TypeOK
  <2>3. CASE idx' = idx + 1 /\ chunkFailed' = TRUE
              /\ UNCHANGED <<hasAuthToken, main, cur, incomplete, completed>>
    BY <1>6, <2>3 DEF JoinChunkTask, TypeOK
  <2>4. QED
    BY <1>6, <2>1, <2>2, <2>3 DEF JoinChunkTask
<1>7. CASE FinishChunkFile
  BY <1>7, FinishFileTypeOK DEF FinishChunkFile, TypeOK
<1>0. ASSUME NEW t \in Tasks, NEW s \in TaskStates
      PROVE  [task EXCEPT ![t].pc = s] \in [Tasks -> TaskRec]
  BY TaskPcUpdate, Zenon DEF TypeOK
<1>8. ASSUME NEW t \in Tasks, RequestChunk(t) PROVE TypeOK'
  <2>0. [task EXCEPT ![t] = [task[t] EXCEPT !.attempts = task[t].attempts + 1,
                                            !.pc = "sleep"]] \in [Tasks -> TaskRec]
    BY RetryUpdate, Zenon DEF TypeOK
  <2>1. task' \in [Tasks -> TaskRec]
    <3>1. \/ task' = [task EXCEPT ![t].pc = "panicked"]
          \/ task' = [task EXCEPT ![t].pc = "lock"]
          \/ task' = [task EXCEPT ![t].pc = "hung"]
          \/ task' = [task EXCEPT ![t].pc = "err"]
          \/ task' = [task EXCEPT ![t] = [task[t] EXCEPT !.attempts = task[t].attempts + 1,
                                                        !.pc = "sleep"]]
      BY <1>8 DEF RequestChunk, FailTask
    <3>2. /\ [task EXCEPT ![t].pc = "panicked"] \in [Tasks -> TaskRec]
          /\ [task EXCEPT ![t].pc = "lock"] \in [Tasks -> TaskRec]
          /\ [task EXCEPT ![t].pc = "hung"] \in [Tasks -> TaskRec]
          /\ [task EXCEPT ![t].pc = "err"] \in [Tasks -> TaskRec]
      BY <1>0 DEF TaskStates
    <3>3. QED
      BY <3>1, <3>2, <2>0
  <2>2. blocklist' \subseteq Endpoints \cup {QueryEndpoint(e) : e \in Endpoints}
    BY <1>8 DEF RequestChunk, FailTask, TypeOK, TaskRec
  <2>3. QED
    BY <1>8, <2>1, <2>2 DEF RequestChunk, TypeOK, mainVars
<1>9. ASSUME NEW t \in Tasks, RetryAfterSleep(t) PROVE TypeOK'
  BY <1>9, <1>0 DEF RetryAfterSleep, TypeOK, TaskStates, mainVars
<1>10. ASSUME NEW t \in Tasks, AcquireFileLock(t) PROVE TypeOK'
  BY <1>10, <1>0 DEF AcquireFileLock, TypeOK, TaskStates, mainVars
<1>11. ASSUME NEW t \in Tasks, SeekChunk(t) PROVE TypeOK'
  <2>1. task[t].start \in Int /\ task[t].ep \in Endpoints
    BY DEF TypeOK, TaskRec
  <2>2. task' \in [Tasks -> TaskRec]
    <3>1. task' = [task EXCEPT ![t].pc = "write"] \/ task' = [task EXCEPT ![t].pc = "err"]
      BY <1>11 DEF SeekChunk, FailTask
    <3>2. /\ [task EXCEPT ![t].pc = "write"] \in [Tasks -> TaskRec]
          /\ [task EXCEPT ![t].pc = "err"] \in [Tasks -> TaskRec]
      BY <1>0 DEF TaskStates
    <3>3. QED
      BY <3>1, <3>2
  <2>3. QED
    BY <1>11, <2>1, <2>2 DEF SeekChunk, FailTask, TypeOK, mainVars
<1>12. ASSUME NEW t \in Tasks, WriteChunk(t) PROVE TypeOK'
  <2>1. task[t].start \in Int /\ task[t].end \in Int /\ cursor[t[1]] \in Int
    BY DEF TypeOK, TaskRec, Tasks
  <2>2. task' \in [Tasks -> TaskRec]
    <3>1. task' = [task EXCEPT ![t].pc = "ok"] \/ task' = [task EXCEPT ![t].pc = "err"]
      BY <1>12 DEF WriteChunk, FailTask
    <3>2. /\ [task EXCEPT ![t].pc = "ok"] \in [Tasks -> TaskRec]
          /\ [task EXCEPT ![t].pc = "err"] \in [Tasks -> TaskRec]
      BY <1>0 DEF TaskStates
    <3>3. QED
      BY <3>1, <3>2
  <2>3. blocklist' \subseteq Endpoints \cup {QueryEndpoint(e) : e \in Endpoints}
    BY <1>12 DEF WriteChunk, FailTask, TypeOK, TaskRec
  <2>4. out' \in [Files -> [Pos -> Int]] /\ cursor' \in [Files -> Int]
    <3>1. PICK n \in Int : /\ out' = [out EXCEPT ![t[1]] = Written(t, n)]
                           /\ cursor' = [cursor EXCEPT ![t[1]] = cursor[t[1]] + n]
      <4>1. task[t].end - task[t].start + 1 \in Int
        BY <2>1
      <4>2. \/ /\ out' = [out EXCEPT ![t[1]] = Written(t, task[t].end - task[t].start + 1)]
               /\ cursor' = [cursor EXCEPT ![t[1]] = cursor[t[1]] + (task[t].end - task[t].start + 1)]
            \/ \E n \in 0..((task[t].end - task[t].start + 1) - 1) :
               /\ out' = [out EXCEPT ![t[1]] = Written(t, n)]
               /\ cursor' = [cursor EXCEPT ![t[1]] = cursor[t[1]] + n]
        BY <1>12, Zenon DEF WriteChunk
      <4>3. QED
        BY <4>1, <4>2
    <3>2. Written(t, n) \in [Pos -> Int]
      BY WrittenType
    <3>3. t[1] \in Files
      BY DEF Tasks
    <3>4. QED
      BY <3>1, <3>2, <3>3, <2>1 DEF TypeOK
  <2>5. QED
    BY <1>12, <2>2, <2>3, <2>4 DEF WriteChunk, TypeOK, mainVars
<1>13. CASE (Terminated \/ Hung) /\ UNCHANGED vars
  BY <1>13 DEF vars, TypeOK
<1>14. CASE UNCHANGED vars
  BY <1>14 DEF vars, TypeOK
<1>15. QED
  BY <1>1, <1>2, <1>3, <1>4, <1>5, <1>6, <1>7, <1>8, <1>9, <1>10, <1>11,
     <1>12, <1>13, <1>14 DEF Next, MainStep, TaskStep

(* Every reachable state of the download engine is well typed: the       *)
(* variables of download_subfile, the tasks' DownloadRangeRequests, the   *)
(* file mutexes and the output files.                                     *)
THEOREM TypeCorrect == Spec => []TypeOK
  BY InitTypeOK, NextTypeOK, PTL DEF Spec


-----------------------------------------------------------------------------
(* The output files hold only source bytes.                               *)

(* What a task's move to another pc changes: its pc, and nothing else.    *)
LEMMA PcUpdateFacts ==
  ASSUME NEW tk \in [Tasks -> TaskRec], NEW t \in Tasks, NEW s
  PROVE  LET tk2 == [tk EXCEPT ![t].pc = s] IN
         /\ tk2[t].pc = s
         /\ tk2[t].start = tk[t].start
         /\ \A u \in Tasks \ {t} : tk2[u] = tk[u]
<1> DEFINE tk2 == [tk EXCEPT ![t].pc = s]
<1>1. \A u \in Tasks \ {t} : tk2[u] = tk[u]
  OBVIOUS
<1>2. tk2[t] = [tk[t] EXCEPT !.pc = s]
  BY Zenon
<1>3. tk[t] \in TaskRec
  OBVIOUS
<1>4. [tk[t] EXCEPT !.pc = s].pc = s /\ [tk[t] EXCEPT !.pc = s].start = tk[t].start
  BY <1>3, Zenon DEF TaskRec
<1>5. QED
  BY <1>1, <1>2, <1>4

LEMMA RetryUpdateFacts ==
  ASSUME NEW tk \in [Tasks -> TaskRec], NEW t \in Tasks
  PROVE  LET tk2 == [tk EXCEPT ![t] = [tk[t] EXCEPT !.attempts = tk[t].attempts + 1,
                                                     !.pc = "sleep"]] IN
         /\ tk2[t].pc = "sleep"
         /\ \A u \in Tasks \ {t} : tk2[u] = tk[u]
  BY Zenon DEF TaskRec

(* The same facts about the step of a task that moves it to pc s.        *)
LEMMA PcStep ==
  ASSUME TypeOK, NEW t \in Tasks, NEW s, task' = [task EXCEPT ![t].pc = s]
  PROVE  /\ task'[t].pc = s
         /\ task'[t].start = task[t].start
         /\ \A u \in Tasks \ {t} : task'[u] = task[u]
<1>1. task \in [Tasks -> TaskRec]
  BY DEF TypeOK
<1>2. QED
  BY <1>1, PcUpdateFacts, Zenon

LEMMA RetryStep ==
  ASSUME TypeOK, NEW t \in Tasks,
         task' = [task EXCEPT ![t] = [task[t] EXCEPT !.attempts = task[t].attempts + 1,
                                                      !.pc = "sleep"]]
  PROVE  /\ task'[t].pc = "sleep"
         /\ \A u \in Tasks \ {t} : task'[u] = task[u]
<1>1. task \in [Tasks -> TaskRec]
  BY DEF TypeOK
<1>2. QED
  BY <1>1, RetryUpdateFacts, Zenon

LEMMA InitIInv == Init => IInv
<1> SUFFICES ASSUME Init PROVE IInv
  OBVIOUS
<1>1. TypeOK
  BY InitTypeOK
<1>2. OutputMatchesSource
  BY DEF Init, OutputMatchesSource, Hole
<1>3. \A t \in Tasks : task[t].pc = "none"
  BY DEF Init
<1>4. QED
  BY <1>1, <1>2, <1>3 DEF IInv, LockHeldWhileWriting, CursorAtChunkStart, IdleAheadOfMain

(* Moving to the next manifest entry keeps the tasks of the files ahead   *)
(* idle.                                                                  *)
LEMMA FinishFileIdle ==
  ASSUME IInv, NEW ok \in BOOLEAN, FinishFile(ok), UNCHANGED task
  PROVE  IdleAheadOfMain'
<1> SUFFICES ASSUME NEW t \in Tasks,
                    t[1] > cur' \/ (t[1] = cur' /\ main' \in {"fetch_manifest", "fetch_chunk_file", "probe"})
             PROVE  task'[t].pc = "none"
  BY DEF IdleAheadOfMain
<1>1. t[1] \in Files /\ cur \in Files
  BY DEF IInv, TypeOK, Tasks
<1>2. t[1] > cur
  <2>1. CASE cur < Len(FileSizes)
    <3>1. cur' = cur + 1
      BY <2>1 DEF FinishFile
    <3>2. QED
      BY <1>1, <3>1 DEF Files
  <2>2. CASE ~(cur < Len(FileSizes))
    <3>1. cur' = cur /\ main' \in {"done", "failed"}
      BY <2>2 DEF FinishFile
    <3>2. QED
      BY <1>1, <3>1
  <2>3. QED
    BY <2>1, <2>2
<1>3. QED
  BY <1>2 DEF IInv, IdleAheadOfMain

(* A step of the main task that only moves main, cur and idx.             *)
LEMMA MainOnlyIInv ==
  ASSUME IInv, UNCHANGED <<task, fileLock, cursor, out>>, TypeOK',
         IdleAheadOfMain'
  PROVE  IInv'
  BY DEF IInv, OutputMatchesSource, LockHeldWhileWriting, CursorAtChunkStart


(* A step of one busy task leaves the tasks of the files ahead idle.      *)
LEMMA TaskStepIdle ==
  ASSUME IInv, NEW t \in Tasks, task[t].pc # "none", task'[t].pc # "none",
         UNCHANGED <<main, cur>>, \A u \in Tasks \ {t} : task'[u] = task[u]
  PROVE  IdleAheadOfMain'
  BY DEF IInv, IdleAheadOfMain

(* A step of one task that does not enter seek or write, nor touches the  *)
(* mutexes, the cursors or the files.                                     *)
LEMMA TaskStepQuiet ==
  ASSUME IInv, NEW t \in Tasks, task[t].pc # "none",
         task'[t].pc \notin {"none", "seek", "write"},
         UNCHANGED <<main, cur, fileLock, cursor, out>>,
         \A u \in Tasks \ {t} : task'[u] = task[u], TypeOK'
  PROVE  IInv'
<1>1. IdleAheadOfMain'
  BY TaskStepIdle
<1>2. QED
  BY <1>1 DEF IInv, OutputMatchesSource, LockHeldWhileWriting, CursorAtChunkStart


LEMMA NextIInv == IInv /\ [Next]_vars => IInv'
<1> SUFFICES ASSUME IInv, [Next]_vars PROVE IInv'
  OBVIOUS
<1>0. TypeOK /\ TypeOK'
  BY NextTypeOK DEF IInv
<1>1. CASE FetchSubfile
  <2>1. IdleAheadOfMain'
    BY <1>1 DEF FetchSubfile, IInv, IdleAheadOfMain
  <2>2. QED
    BY <1>0, <1>1, <2>1, MainOnlyIInv DEF FetchSubfile
<1>2. CASE FetchChunkFile
  <2>1. IdleAheadOfMain'
    <3>1. CASE main' = "probe" /\ UNCHANGED <<cur, task>>
      BY <1>2, <3>1 DEF FetchChunkFile, IInv, IdleAheadOfMain
    <3>2. CASE FinishFile(FALSE) /\ UNCHANGED task
      BY <3>2, FinishFileIdle
    <3>3. QED
      BY <1>2, <3>1, <3>2 DEF FetchChunkFile
  <2>2. QED
    BY <1>0, <1>2, <2>1, MainOnlyIInv DEF FetchChunkFile
<1>3. ASSUME NEW e \in Endpoints, CheckEndpointAvailability(e) PROVE IInv'
  <2>1. IdleAheadOfMain'
    BY <1>3 DEF CheckEndpointAvailability, mainVars, IInv, IdleAheadOfMain
  <2>2. QED
    BY <1>0, <1>3, <2>1, MainOnlyIInv DEF CheckEndpointAvailability
<1>4. CASE CreateOutputFile
  <2>1. OutputMatchesSource'
    <3>1. CASE out' = [out EXCEPT ![cur] = [p \in Pos |-> Hole]]
      BY <1>0, <3>1 DEF IInv, TypeOK, OutputMatchesSource
    <3>2. CASE UNCHANGED out
      BY <3>2 DEF IInv, OutputMatchesSource
    <3>3. QED
      BY <1>4, <3>1, <3>2 DEF CreateOutputFile
  <2>2. CursorAtChunkStart'
    <3>1. \A t \in Tasks : t[1] = cur => task[t].pc = "none"
      BY <1>4 DEF CreateOutputFile, IInv, IdleAheadOfMain
    <3>2. QED
      BY <1>0, <1>4, <3>1 DEF CreateOutputFile, IInv, TypeOK, CursorAtChunkStart, Tasks
  <2>3. IdleAheadOfMain'
    BY <1>4 DEF CreateOutputFile, IInv, IdleAheadOfMain
  <2>4. QED
    BY <1>0, <1>4, <2>1, <2>2, <2>3 DEF CreateOutputFile, IInv, LockHeldWhileWriting
<1>5. CASE SpawnChunkTask
  <2>1. CASE query = {} /\ FinishFile(FALSE) /\ UNCHANGED task
    <3>1. IdleAheadOfMain'
      BY <2>1, FinishFileIdle
    <3>2. UNCHANGED <<task, fileLock, cursor, out>>
      BY <1>5, <2>1 DEF SpawnChunkTask
    <3>3. QED
      BY <1>0, <3>1, <3>2, MainOnlyIInv
  <2>2. CASE main' = "panicked" /\ UNCHANGED <<cur, task>>
    <3>1. IdleAheadOfMain'
      BY <2>2 DEF IInv, IdleAheadOfMain
    <3>2. UNCHANGED <<task, fileLock, cursor, out>>
      BY <1>5, <2>2 DEF SpawnChunkTask
    <3>3. QED
      BY <1>0, <3>1, <3>2, MainOnlyIInv
  <2>3. CASE /\ \E e \in query :
                  task' = [task EXCEPT ![<<cur, idx>>] = DownloadRangeRequest(e)]
             /\ main' \in {"join", "spawn"}
             /\ UNCHANGED cur
    <3>0. PICK e \in query : task' = [task EXCEPT ![<<cur, idx>>] = DownloadRangeRequest(e)]
      BY <2>3
    <3>1. \A u \in Tasks : task'[u] = task[u] \/ task'[u].pc = "req"
      BY <1>0, <3>0 DEF TypeOK, DownloadRangeRequest
    <3>2. \A u \in Tasks : u[1] > cur => task'[u] = task[u]
      BY <1>0, <3>0 DEF TypeOK, Tasks, Files
    <3>3. IdleAheadOfMain'
      BY <2>3, <3>2 DEF IInv, IdleAheadOfMain
    <3>4. UNCHANGED <<fileLock, cursor, out>>
      BY <1>5, <2>3 DEF SpawnChunkTask
    <3>5. QED
      BY <3>1, <3>3, <3>4, <1>0 DEF IInv, OutputMatchesSource,
         LockHeldWhileWriting, CursorAtChunkStart
  <2>4. QED
    BY <1>5, <2>1, <2>2, <2>3 DEF SpawnChunkTask
<1>6. CASE JoinChunkTask
  <2>1. CASE UNCHANGED <<main, cur>>
    <3>1. IdleAheadOfMain'
      BY <1>6, <2>1 DEF JoinChunkTask, IInv, IdleAheadOfMain
    <3>2. QED
      BY <1>0, <1>6, <3>1, MainOnlyIInv DEF JoinChunkTask
  <2>2. CASE FinishFile(FALSE)
    <3>1. IdleAheadOfMain'
      BY <2>2, <1>6, FinishFileIdle DEF JoinChunkTask
    <3>2. QED
      BY <1>0, <1>6, <3>1, MainOnlyIInv DEF JoinChunkTask
  <2>3. QED
    BY <1>6, <2>1, <2>2 DEF JoinChunkTask
<1>7. CASE FinishChunkFile
  <2>1. chunkFailed \in BOOLEAN
    BY <1>0 DEF TypeOK
  <2>2. QED
    BY <1>0, <1>7, <2>1, FinishFileIdle, MainOnlyIInv DEF FinishChunkFile
<1>8. ASSUME NEW t \in Tasks, RequestChunk(t) PROVE IInv'
  <2>1. task \in [Tasks -> TaskRec]
    BY <1>0 DEF TypeOK
  <2>2. task'[t].pc \in {"panicked", "lock", "hung", "err", "sleep"}
        /\ \A u \in Tasks \ {t} : task'[u] = task[u]
    <3>1. \/ \E s \in {"panicked", "lock", "hung", "err"} : task' = [task EXCEPT ![t].pc = s]
          \/ task' = [task EXCEPT ![t] = [task[t] EXCEPT !.attempts = task[t].attempts + 1,
                                                        !.pc = "sleep"]]
      BY <1>8 DEF RequestChunk, FailTask
    <3>2. QED
      BY <1>0, <3>1, PcStep, RetryStep, Zenon
  <2>3. QED
    BY <1>0, <1>8, <2>2, TaskStepQuiet DEF RequestChunk, mainVars
<1>9. ASSUME NEW t \in Tasks, RetryAfterSleep(t) PROVE IInv'
  <2>1. task'[t].pc = "req" /\ \A u \in Tasks \ {t} : task'[u] = task[u]
    BY <1>0, <1>9, PcStep, Zenon DEF RetryAfterSleep
  <2>2. QED
    BY <1>0, <1>9, <2>1, TaskStepQuiet DEF RetryAfterSleep, mainVars
<1>10. ASSUME NEW t \in Tasks, AcquireFileLock(t) PROVE IInv'
  <2>1. task'[t].pc = "seek" /\ \A u \in Tasks \ {t} : task'[u] = task[u]
    BY <1>0, <1>10, PcStep, Zenon DEF AcquireFileLock
  <2>2. t[1] \in Files
    BY DEF Tasks
  <2>3. LockHeldWhileWriting'
    <3>1. \A u \in Tasks \ {t} : task[u].pc \in {"seek", "write"} => u[1] # t[1]
      BY <1>10 DEF AcquireFileLock, IInv, LockHeldWhileWriting
    <3>2. QED
      BY <1>0, <1>10, <2>1, <2>2, <3>1 DEF AcquireFileLock, IInv, TypeOK, LockHeldWhileWriting
  <2>4. IdleAheadOfMain'
    BY <1>10, <2>1, TaskStepIdle DEF AcquireFileLock, mainVars
  <2>5. QED
    BY <1>10, <2>1, <2>3, <2>4, <1>0 DEF AcquireFileLock, IInv, OutputMatchesSource,
       CursorAtChunkStart
<1>11. ASSUME NEW t \in Tasks, SeekChunk(t) PROVE IInv'
  <2>1. t[1] \in Files
    BY DEF Tasks
  <2>2. \A u \in Tasks \ {t} : task[u].pc \in {"seek", "write"} => u[1] # t[1]
    BY <1>11 DEF SeekChunk, IInv, LockHeldWhileWriting
  <2>3. CASE /\ cursor' = [cursor EXCEPT ![t[1]] = task[t].start]
             /\ task' = [task EXCEPT ![t].pc = "write"]
             /\ UNCHANGED fileLock
    <3>1. task'[t].pc = "write" /\ task'[t].start = task[t].start
          /\ \A u \in Tasks \ {t} : task'[u] = task[u]
      BY <1>0, <2>3, PcStep, Zenon
    <3>2. CursorAtChunkStart'
      BY <1>0, <2>1, <2>2, <2>3, <3>1 DEF IInv, TypeOK, CursorAtChunkStart
    <3>3. LockHeldWhileWriting'
      BY <1>11, <2>3, <3>1 DEF SeekChunk, IInv, LockHeldWhileWriting
    <3>4. IdleAheadOfMain'
      BY <1>11, <3>1, TaskStepIdle DEF SeekChunk, mainVars
    <3>5. QED
      BY <1>11, <1>0, <3>2, <3>3, <3>4 DEF SeekChunk, IInv, OutputMatchesSource
  <2>4. CASE /\ fileLock' = [fileLock EXCEPT ![t[1]] = NoTask]
             /\ task' = [task EXCEPT ![t].pc = "err"]
             /\ UNCHANGED cursor
    <3>1. task'[t].pc = "err" /\ \A u \in Tasks \ {t} : task'[u] = task[u]
      BY <1>0, <2>4, PcStep, Zenon
    <3>2. LockHeldWhileWriting'
      BY <1>0, <2>1, <2>2, <2>4, <3>1 DEF IInv, TypeOK, LockHeldWhileWriting
    <3>3. CursorAtChunkStart'
      BY <2>4, <3>1 DEF IInv, CursorAtChunkStart
    <3>4. IdleAheadOfMain'
      BY <1>11, <3>1, TaskStepIdle DEF SeekChunk, mainVars
    <3>5. QED
      BY <1>11, <1>0, <3>2, <3>3, <3>4 DEF SeekChunk, IInv, OutputMatchesSource
  <2>5. QED
    BY <1>11, <2>3, <2>4 DEF SeekChunk, FailTask
<1>12. ASSUME NEW t \in Tasks, WriteChunk(t) PROVE IInv'
  <2> DEFINE f == t[1]
  <2>1. task'[t].pc \in {"ok", "err"} /\ \A u \in Tasks \ {t} : task'[u] = task[u]
    <3>1. task' = [task EXCEPT ![t].pc = "ok"] \/ task' = [task EXCEPT ![t].pc = "err"]
      BY <1>12 DEF WriteChunk, FailTask
    <3>2. QED
      BY <1>0, <3>1, PcStep, Zenon
  <2>2. f \in Files /\ cursor[f] = task[t].start /\ task[t].start \in Int
    BY <1>12 DEF WriteChunk, IInv, CursorAtChunkStart, TypeOK, TaskRec, Tasks
  <2>3. \A u \in Tasks \ {t} : task[u].pc \in {"seek", "write"} => u[1] # f
    BY <1>12 DEF WriteChunk, IInv, LockHeldWhileWriting
  <2>4. \A n \in Int : \A p \in Pos : Written(t, n)[p] \in {Hole, p}
    <3>1. \A p \in Pos : p \in Int /\ out[f][p] \in {Hole, p}
      BY <2>2 DEF IInv, OutputMatchesSource, Pos
    <3>2. QED
      BY <2>2, <3>1 DEF Written
  <2>5. \E n \in Int : /\ out' = [out EXCEPT ![f] = Written(t, n)]
                      /\ cursor' = [cursor EXCEPT ![f] = cursor[f] + n]
    <3>1. task[t].end - task[t].start + 1 \in Int
      BY <1>0 DEF TypeOK, TaskRec
    <3>2. QED
      BY <1>12, <3>1 DEF WriteChunk
  <2>6. OutputMatchesSource'
    BY <2>4, <2>5, <2>2 DEF IInv, TypeOK, OutputMatchesSource
  <2>7. fileLock' = [fileLock EXCEPT ![f] = NoTask]
    BY <1>12 DEF WriteChunk
  <2>10. LockHeldWhileWriting'
    BY <1>0, <2>1, <2>3, <2>7, TaskIndex DEF IInv, TypeOK, LockHeldWhileWriting
  <2>11. CursorAtChunkStart'
    <3>1. PICK n \in Int : cursor' = [cursor EXCEPT ![f] = cursor[f] + n]
      BY <2>5
    <3>2. \A u \in Tasks : task'[u].pc = "write" => u # t /\ u[1] # f
      BY <2>1, <2>3
    <3>3. \A u \in Tasks : u[1] # f => cursor'[u[1]] = cursor[u[1]]
      BY <1>0, <3>1 DEF TypeOK, Tasks
    <3>4. QED
      BY <2>1, <3>2, <3>3 DEF IInv, CursorAtChunkStart
  <2>8. IdleAheadOfMain'
    BY <1>12, <2>1, TaskStepIdle DEF WriteChunk, mainVars
  <2>9. QED
    BY <1>0, <2>6, <2>10, <2>11, <2>8 DEF IInv
<1>13. CASE UNCHANGED vars
  BY <1>13 DEF vars, IInv, TypeOK, OutputMatchesSource, LockHeldWhileWriting,
     CursorAtChunkStart, IdleAheadOfMain
<1>14. QED
  BY <1>1, <1>2, <1>3, <1>4, <1>5, <1>6, <1>7, <1>8, <1>9, <1>10, <1>11,
     <1>12, <1>13 DEF Next, MainStep, TaskStep

(* Whatever the interleaving of the chunk tasks, their retries, partial   *)
(* writes and the main task's truncation of the next file, every byte of  *)
(* every output file is either unwritten or the source byte of its        *)
(* offset (download_chunk_and_write_to_file's seek and write_all under    *)
(* the file mutex).                                                       *)
THEOREM OutputCorrect == Spec => []OutputMatchesSource
<1>1. IInv => OutputMatchesSource
  BY DEF IInv
<1>2. QED
  BY InitIInv, NextIInv, <1>1, PTL DEF Spec

=============================================================================
