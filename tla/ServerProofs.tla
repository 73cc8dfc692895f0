---------------------------- MODULE ServerProofs ----------------------------
(***************************************************************************)
(* Proofs about the subfile server, for every manifest, chunk size and    *)
(* request space that ServerAssumption admits: type correctness, that     *)
(* content is served only to authorized requests, and that the server     *)
(* implements its contract when every Content-Range header parses.        *)
(***************************************************************************)
EXTENDS SubfileServer, TLAPS

USE ServerAssumption

(* The record a request is kept in.                                        *)
ReqRec == [pc : ReqStates, msg : RequestRec, status : Statuses]

-----------------------------------------------------------------------------
(* Lemmas about the updates of a request's record.                        *)

(* Moving a request to another state changes only its pc.                 *)
LEMMA ReqPcStep ==
  ASSUME NEW f \in [Reqs -> ReqRec], NEW r \in Reqs, NEW p \in ReqStates
  PROVE  LET g == [f EXCEPT ![r].pc = p] IN
           /\ g \in [Reqs -> ReqRec]
           /\ g[r].pc = p /\ g[r].msg = f[r].msg /\ g[r].status = f[r].status
           /\ \A s \in Reqs \ {r} : g[s] = f[s]
  BY Zenon DEF ReqRec

(* handle_request answers with one of the modelled statuses.              *)
LEMMA AnswerType ==
  ASSUME NEW m \in RequestRec
  PROVE  Answer(m) \in Statuses
  BY DEF Answer, FileService, Statuses

(* Where no Content-Range is malformed, the status handle_request builds  *)
(* is the one the contract prescribes.                                    *)
LEMMA AnswerIsContractStatus ==
  ASSUME NEW m \in RequestRec, m.range # "malformed"
  PROVE  Answer(m) = C!ContractStatus(m)
<1>1. CASE m.route # "file"
  BY <1>1 DEF Answer, C!ContractStatus
<1>2. CASE m.route = "file"
  <2>1. Answer(m) = FileService(m)
    BY <1>2 DEF Answer
  <2>2. CASE ~Authorized(m)
    <3>1. ServerToken /\ m.auth # "bearer"
      BY <2>2 DEF Authorized
    <3>2. QED
      BY <1>2, <2>1, <2>2, <3>1 DEF FileService, C!ContractStatus
  <2>3. CASE Authorized(m)
    <3>1. ~(ServerToken /\ m.auth # "bearer")
      BY <2>3 DEF Authorized
    <3>2. m.fileName \in BOOLEAN /\ m.range \in {"none", "valid"}
      BY DEF RequestRec
    <3>3. QED
      BY <1>2, <2>1, <2>3, <3>1, <3>2 DEF FileService, C!ContractStatus
  <2>4. QED
    BY <2>2, <2>3
<1>3. QED
  BY <1>1, <1>2

-----------------------------------------------------------------------------
(* The inductive invariant: the type invariant, a request keeps the       *)
(* headers it was sent with, and an answered request carries the answer   *)
(* handle_request computes from them.                                     *)

StatusIsAnswer ==
    \A r \in Reqs :
        /\ req[r].msg \in RequestSpace
        /\ req[r].status # "none" => req[r].status = Answer(req[r].msg)

SInv == TypeOK /\ StatusIsAnswer

LEMMA InitSInv == Init => SInv
<1> SUFFICES ASSUME Init PROVE SInv
  OBVIOUS
<1>1. TypeOK
  BY DEF Init, TypeOK, Phases, Files, ReqStates, Statuses
<1>2. StatusIsAnswer
  BY DEF Init, StatusIsAnswer
<1>3. QED
  BY <1>1, <1>2 DEF SInv

(* A step that leaves req alone keeps StatusIsAnswer.                     *)
LEMMA ReqUnchanged ==
  ASSUME SInv, UNCHANGED req
  PROVE  StatusIsAnswer'
  BY DEF SInv, StatusIsAnswer

LEMMA NextSInv == SInv /\ [Next]_vars => SInv'
<1> SUFFICES ASSUME SInv, [Next]_vars PROVE SInv'
  OBVIOUS
<1>0. req \in [Reqs -> ReqRec]
  BY DEF SInv, TypeOK, ReqRec
<1>1. CASE ReadSubfile
  <2>1. TypeOK'
    BY <1>1 DEF SInv, TypeOK, ReadSubfile, Phases
  <2>2. QED
    BY <1>1, <2>1, ReqUnchanged DEF SInv, ReadSubfile
<1>2. CASE VerifyChunk
  <2>1. TypeOK'
    BY <1>2 DEF SInv, TypeOK, VerifyChunk, Phases
  <2>2. QED
    BY <1>2, <2>1, ReqUnchanged DEF SInv, VerifyChunk
<1>3. CASE NextFile
  <2>1. TypeOK'
    BY <1>3 DEF SInv, TypeOK, NextFile, Phases, Files
  <2>2. QED
    BY <1>3, <2>1, ReqUnchanged DEF SInv, NextFile
<1>4. ASSUME NEW r \in Reqs, Arrive(r) \/ Acquire(r)
      PROVE  SInv'
  <2>1. PICK p \in ReqStates : req' = [req EXCEPT ![r].pc = p]
    BY <1>4 DEF Arrive, Acquire, ReqStates
  <2>2. /\ req' \in [Reqs -> ReqRec]
        /\ req'[r].msg = req[r].msg /\ req'[r].status = req[r].status
        /\ \A s \in Reqs \ {r} : req'[s] = req[s]
    BY <1>0, <2>1, ReqPcStep
  <2>3. ctx' \in Reqs \cup {NoReq} /\ UNCHANGED startVars
    <3>1. CASE Arrive(r)
      BY <3>1 DEF Arrive, SInv, TypeOK
    <3>2. CASE Acquire(r)
      BY <3>2 DEF Acquire
    <3>3. QED
      BY <1>4, <3>1, <3>2
  <2>4. TypeOK'
    BY <2>2, <2>3 DEF SInv, TypeOK, startVars, ReqRec
  <2>5. StatusIsAnswer'
    BY <2>2 DEF SInv, StatusIsAnswer
  <2>6. QED
    BY <2>4, <2>5 DEF SInv
<1>5. ASSUME NEW r \in Reqs, Respond(r)
      PROVE  SInv'
  <2>1. req' = [req EXCEPT ![r].pc = "answered", ![r].status = Answer(req[r].msg)]
    BY <1>5 DEF Respond
  <2>2. Answer(req[r].msg) \in Statuses
    BY AnswerType DEF SInv, TypeOK
  <2>3. /\ req' \in [Reqs -> ReqRec]
        /\ req'[r].msg = req[r].msg /\ req'[r].status = Answer(req[r].msg)
        /\ \A s \in Reqs \ {r} : req'[s] = req[s]
    BY <1>0, <2>1, <2>2, Zenon DEF ReqRec, ReqStates
  <2>4. ctx' \in Reqs \cup {NoReq} /\ UNCHANGED startVars
    BY <1>5 DEF Respond, SInv, TypeOK
  <2>5. TypeOK'
    BY <2>3, <2>4 DEF SInv, TypeOK, startVars, ReqRec
  <2>6. StatusIsAnswer'
    BY <2>3 DEF SInv, StatusIsAnswer
  <2>7. QED
    BY <2>5, <2>6 DEF SInv
<1>6. CASE UNCHANGED vars
  BY <1>6 DEF SInv, TypeOK, StatusIsAnswer, vars
<1>7. QED
  BY <1>1, <1>2, <1>3, <1>4, <1>5, <1>6 DEF Next, StartStep, Idle

(* A quotient is below k when the dividend is below k times the divisor. *)
LEMMA DivBelow ==
  ASSUME NEW x \in Nat, NEW c \in Nat \ {0}, NEW k \in Int, x < k * c
  PROVE  x \div c < k
  BY SMT

(* The verification loop's bound reaches past the last chunk hash:        *)
(* ceil(total_bytes / chunk_size) <= total_bytes / chunk_size + 1.        *)
LEMMA HashesWithinLoop ==
  ASSUME NEW f \in Files
  PROVE  NumHashes(f) < LoopBound(f) + 1
<1>1. FileSizes[f] \in Nat /\ ChunkSize \in Nat \ {0}
  BY ServerAssumption DEF Files
<1>2. FileSizes[f] \div ChunkSize \in Nat
      /\ FileSizes[f] < (FileSizes[f] \div ChunkSize + 1) * ChunkSize
  BY <1>1, SMT
<1>3. /\ FileSizes[f] + ChunkSize - 1 \in Nat
      /\ FileSizes[f] + ChunkSize - 1 < (FileSizes[f] \div ChunkSize + 2) * ChunkSize
  BY <1>1, <1>2, SMT
<1>4. (FileSizes[f] + ChunkSize - 1) \div ChunkSize < FileSizes[f] \div ChunkSize + 2
  BY <1>1, <1>2, <1>3, DivBelow
<1>5. QED
  BY <1>1, <1>2, <1>4 DEF NumHashes, LoopBound

(* Startup has checked every chunk before the loop's position: a damaged *)
(* chunk lies in a later file, or at or after vi in the current one.      *)
(* Past the last file nothing damaged is left, because the loop bound    *)
(* reaches every chunk hash.                                              *)
StartVerified ==
    /\ phase = "read" => vf = 1 /\ vi = 0
    /\ phase = "verify" =>
         \A c \in damaged : c[1] > vf \/ (c[1] = vf /\ c[2] >= vi)
    /\ VerifiedBeforeServing

LEMMA InitStartVerified == Init => StartVerified
  BY DEF Init, StartVerified, VerifiedBeforeServing

(* A chunk is a pair of its file and an index below its number of hashes. *)
LEMMA ChunkParts ==
  ASSUME NEW c \in Chunks
  PROVE  /\ c = <<c[1], c[2]>> /\ c[1] \in Files /\ c[2] \in Nat
         /\ NumHashes(c[1]) \in Int /\ c[2] < NumHashes(c[1])
<1>1. PICK f \in Files : c \in {f} \X (0..(NumHashes(f) - 1))
  BY DEF Chunks
<1>2. NumHashes(f) \in Int
  BY ServerAssumption DEF NumHashes, Files
<1>3. PICK i \in 0..(NumHashes(f) - 1) : c = <<f, i>>
  BY <1>1
<1>4. QED
  BY <1>2, <1>3

(* Every chunk lies at or after the loop's starting point, file 1 and    *)
(* index 0.                                                               *)
LEMMA AheadOfStart ==
  ASSUME NEW c \in Chunks
  PROVE  c[1] > 1 \/ (c[1] = 1 /\ c[2] >= 0)
  BY ChunkParts DEF Files

LEMMA NextStartVerified ==
    SInv /\ StartVerified /\ [Next]_vars => StartVerified'
<1> SUFFICES ASSUME SInv, StartVerified, [Next]_vars PROVE StartVerified'
  OBVIOUS
<1>0. damaged \subseteq Chunks /\ vf \in Files /\ vi \in Nat
  BY DEF SInv, TypeOK
<1>1. CASE ReadSubfile
  <2>1. phase = "read" /\ phase' \in {"verify", "panicked"}
        /\ UNCHANGED <<damaged, vf, vi>>
    BY <1>1 DEF ReadSubfile
  <2>2. vf = 1 /\ vi = 0
    BY <2>1 DEF StartVerified
  <2>3. \A c \in damaged : c[1] > vf \/ (c[1] = vf /\ c[2] >= vi)
    BY <1>0, <2>2, AheadOfStart
  <2>4. QED
    BY <2>1, <2>3 DEF StartVerified, VerifiedBeforeServing
<1>2. CASE VerifyChunk
  <2>0. phase = "verify" /\ UNCHANGED <<vf, damaged>>
    BY <1>2 DEF VerifyChunk
  <2>1. CASE <<vf, vi>> \notin damaged /\ vi' = vi + 1 /\ UNCHANGED phase
    <3>1. ASSUME NEW c \in damaged
          PROVE  c[1] > vf \/ (c[1] = vf /\ c[2] >= vi + 1)
      <4>1. c = <<c[1], c[2]>> /\ c[1] \in Files /\ c[2] \in Nat
        BY <1>0, ChunkParts
      <4>2. c[1] > vf \/ (c[1] = vf /\ c[2] >= vi)
        BY <2>0 DEF StartVerified
      <4>3. c # <<vf, vi>>
        BY <2>1
      <4>4. QED
        BY <1>0, <4>1, <4>2, <4>3 DEF Files
    <3>2. QED
      BY <2>0, <2>1, <3>1 DEF StartVerified, VerifiedBeforeServing
  <2>2. CASE phase' = "panicked" /\ UNCHANGED vi
    BY <2>0, <2>2 DEF StartVerified, VerifiedBeforeServing
  <2>3. QED
    BY <1>2, <2>1, <2>2 DEF VerifyChunk
<1>3. CASE NextFile
  <2>1. phase = "verify" /\ vi = LoopBound(vf) /\ UNCHANGED damaged
    BY <1>3 DEF NextFile
  <2>2. \A c \in damaged : c[1] > vf
    <3> SUFFICES ASSUME NEW c \in damaged, ~(c[1] > vf) PROVE FALSE
      OBVIOUS
    <3>1. /\ c[1] \in Files /\ c[2] \in Nat /\ NumHashes(c[1]) \in Int
          /\ c[2] < NumHashes(c[1])
      BY <1>0, ChunkParts
    <3>2. c[1] = vf /\ c[2] >= vi
      BY <2>1, <3>1 DEF StartVerified
    <3>3. NumHashes(vf) < LoopBound(vf) + 1 /\ LoopBound(vf) \in Int
      BY <1>0, HashesWithinLoop, ServerAssumption DEF LoopBound, Files
    <3>4. QED
      BY <2>1, <3>1, <3>2, <3>3
  <2>3. CASE vf < Len(FileSizes)
    <3>1. vf' = vf + 1 /\ vi' = 0 /\ phase' = "verify"
      BY <1>3, <2>1, <2>3 DEF NextFile
    <3>2. \A c \in damaged : c[1] > vf + 1 \/ (c[1] = vf + 1 /\ c[2] >= 0)
      BY <1>0, <2>2, ChunkParts DEF Files
    <3>3. QED
      BY <2>1, <3>1, <3>2 DEF StartVerified, VerifiedBeforeServing
  <2>4. CASE ~(vf < Len(FileSizes))
    <3>1. phase' = "serving"
      BY <1>3, <2>4 DEF NextFile
    <3>2. damaged = {}
      BY <1>0, <2>2, <2>4, ChunkParts, ServerAssumption DEF Files
    <3>3. damaged' = {}
      BY <2>1, <3>2
    <3>4. QED
      BY <3>1, <3>3 DEF StartVerified, VerifiedBeforeServing
  <2>5. QED
    BY <2>3, <2>4
<1>4. ASSUME NEW r \in Reqs, Arrive(r) \/ Acquire(r) \/ Respond(r)
      PROVE  StartVerified'
  <2>1. UNCHANGED startVars
    BY <1>4 DEF Arrive, Acquire, Respond
  <2>2. QED
    BY <2>1 DEF startVars, StartVerified, VerifiedBeforeServing
<1>5. CASE UNCHANGED vars
  BY <1>5 DEF vars, StartVerified, VerifiedBeforeServing
<1>6. QED
  BY <1>1, <1>2, <1>3, <1>4, <1>5 DEF Next, StartStep, Idle

-----------------------------------------------------------------------------
(* Theorems.                                                              *)

(* The server's state stays well typed in every behaviour: startup never *)
(* moves past the last chunk file, and the context mutex is free or held *)
(* by one request.                                                        *)
THEOREM ServerTypeCorrect == Spec => []TypeOK
<1>1. SInv => TypeOK
  BY DEF SInv
<1>2. QED
  BY InitSInv, NextSInv, <1>1, PTL DEF Spec

(* file_service serves content (200 or 206) only to a request carrying    *)
(* the configured bearer token, for every request a client may send.      *)
THEOREM ContentAuthorized == Spec => []ContentOnlyWhenAuthorized
<1>1. SInv => ContentOnlyWhenAuthorized
  <2> SUFFICES ASSUME SInv, NEW r \in Reqs, req[r].msg.route = "file",
                      req[r].status \in {"200", "206"}, ServerToken
               PROVE  req[r].msg.auth = "bearer"
    BY DEF ContentOnlyWhenAuthorized
  <2>1. req[r].status = Answer(req[r].msg)
    BY DEF SInv, StatusIsAnswer
  <2>2. FileService(req[r].msg) \in {"200", "206"}
    BY <2>1 DEF Answer
  <2>3. Authorized(req[r].msg)
    BY <2>2, Zenon DEF FileService
  <2>4. QED
    BY <2>3 DEF Authorized
<1>2. QED
  BY InitSInv, NextSInv, <1>1, PTL DEF Spec

(* The server answers requests only when no chunk of its local files is  *)
(* damaged, whichever chunks are: init_server binds only after the loop   *)
(* of initialize_subfile_server_context reached every chunk index of      *)
(* every file and verify_chunk accepted each.                             *)
THEOREM VerifiedServing == Spec => []VerifiedBeforeServing
<1>1. SInv /\ StartVerified => VerifiedBeforeServing
  BY DEF StartVerified
<1>2. QED
  BY InitSInv, NextSInv, InitStartVerified, NextStartVerified, <1>1, PTL DEF Spec

(* When every Content-Range a client may send parses, handle_request      *)
(* with startup verification and the context mutex implements the         *)
(* contract of spec section 4.4: startup maps to the contract's Start,    *)
(* taking the mutex to a stutter, and the handler's return to Answer.     *)
THEOREM ServerRefinesContract ==
  ASSUME \A m \in RequestSpace : m.range # "malformed"
  PROVE  Spec => ContractSpec
<1> DEFINE view == [r \in Reqs |-> ContractView(r)]
<1>1. Init => C!Init
  <2> SUFFICES ASSUME Init PROVE C!Init
    OBVIOUS
  <2>1. \A r \in Reqs : ContractView(r) = req[r]
    BY DEF Init, ContractView
  <2>2. QED
    BY <2>1 DEF Init, C!Init
<1>2. SInv /\ [Next]_vars => [C!Next]_<<phase = "serving", view>>
  <2> SUFFICES ASSUME SInv, [Next]_vars
               PROVE  [C!Next]_<<phase = "serving", view>>
    OBVIOUS
  <2>0. req \in [Reqs -> ReqRec]
    BY DEF SInv, TypeOK, ReqRec
  <2>1. CASE ReadSubfile \/ VerifyChunk
    <3>a. phase' # "serving" /\ phase # "serving" /\ UNCHANGED req
      BY <2>1 DEF ReadSubfile, VerifyChunk
    <3>b. QED
      BY <3>a DEF ContractView
  <2>2. CASE NextFile
    <3>a. UNCHANGED req /\ phase # "serving"
      BY <2>2 DEF NextFile
    <3>b. CASE phase' = "serving"
      BY <3>a, <3>b DEF C!Next, C!Start, ContractView
    <3>c. CASE phase' # "serving"
      BY <3>a, <3>c DEF ContractView
    <3>d. QED
      BY <3>b, <3>c
  <2>3. ASSUME NEW r \in Reqs, Arrive(r)
        PROVE  [C!Next]_<<phase = "serving", view>>
    <3>a. /\ req'[r].pc = "waiting" /\ req'[r].msg = req[r].msg
          /\ req'[r].status = req[r].status
          /\ \A s \in Reqs \ {r} : req'[s] = req[s]
      BY <2>0, <2>3, ReqPcStep DEF Arrive, ReqStates
    <3>b. req[r].pc = "idle" /\ phase = "serving" /\ UNCHANGED phase
      BY <2>3 DEF Arrive, startVars
    <3>c. view' = [view EXCEPT ![r].pc = "waiting"]
      BY <2>0, <3>a, <3>b DEF ContractView, ReqRec
    <3>d. C!Arrive(r)
      BY <3>b, <3>c DEF C!Arrive, ContractView
    <3>e. QED
      BY <3>d DEF C!Next
  <2>4. ASSUME NEW r \in Reqs, Acquire(r)
        PROVE  [C!Next]_<<phase = "serving", view>>
    <3>a. /\ req'[r].pc = "handling" /\ req'[r].msg = req[r].msg
          /\ req'[r].status = req[r].status
          /\ \A s \in Reqs \ {r} : req'[s] = req[s]
      BY <2>0, <2>4, ReqPcStep DEF Acquire, ReqStates
    <3>b. req[r].pc = "waiting" /\ UNCHANGED phase
      BY <2>4 DEF Acquire, startVars
    <3>c. view' = view
      BY <3>a, <3>b DEF ContractView
    <3>d. QED
      BY <3>b, <3>c
  <2>5. ASSUME NEW r \in Reqs, Respond(r)
        PROVE  [C!Next]_<<phase = "serving", view>>
    <3>a. Answer(req[r].msg) \in Statuses
      BY AnswerType DEF SInv, TypeOK
    <3>b. /\ req'[r].pc = "answered" /\ req'[r].msg = req[r].msg
          /\ req'[r].status = Answer(req[r].msg)
          /\ \A s \in Reqs \ {r} : req'[s] = req[s]
      <4>1. req' = [req EXCEPT ![r].pc = "answered", ![r].status = Answer(req[r].msg)]
        BY <2>5 DEF Respond
      <4>2. QED
        BY <2>0, <3>a, <4>1, Zenon DEF ReqRec, ReqStates
    <3>c. req[r].pc \in {"waiting", "handling"} /\ UNCHANGED phase
      BY <2>5 DEF Respond, startVars
    <3>d. Answer(req[r].msg) = C!ContractStatus(req[r].msg)
      BY AnswerIsContractStatus DEF SInv, StatusIsAnswer, TypeOK
    <3>e. view[r].pc = "waiting" /\ view[r].msg = req[r].msg
      BY <3>c DEF ContractView
    <3>f. view' = [view EXCEPT ![r].pc = "answered",
                               ![r].status = C!ContractStatus(view[r].msg)]
      BY <2>0, <3>b, <3>d, <3>e DEF ContractView, ReqRec
    <3>g. C!Answer(r)
      BY <3>c, <3>e, <3>f DEF C!Answer
    <3>h. QED
      BY <3>g DEF C!Next
  <2>6. CASE UNCHANGED vars
    BY <2>6 DEF vars, ContractView
  <2>7. QED
    BY <2>1, <2>2, <2>3, <2>4, <2>5, <2>6 DEF Next, StartStep, Idle
<1>3. QED
  BY InitSInv, NextSInv, <1>1, <1>2, PTL DEF Spec, ContractSpec, C!Spec

=============================================================================
