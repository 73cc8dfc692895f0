--------------------------- MODULE CliServerProofs ---------------------------
(***************************************************************************)
(* Proof that the older server of src/subfile-cli implements the server   *)
(* contract of spec section 4.4 when every Content-Range header parses:   *)
(* binding the port maps to the contract's Start, taking the context      *)
(* mutex to a stutter, and handle_request's return to Answer.             *)
(***************************************************************************)
EXTENDS CliServer, TLAPS

(* The constants the proofs need: the token flag, the failure flags and  *)
(* the requests are of their types, and the free-mutex value is no        *)
(* request.                                                               *)
CliAssumption ==
    /\ ServerToken \in BOOLEAN
    /\ IntactValues \subseteq BOOLEAN /\ StoreFailures \in BOOLEAN
    /\ RequestSpace \subseteq RequestRec
    /\ NoReq \notin Reqs

(* The record a request is kept in.                                        *)
CliReqRec == [pc : {"idle", "waiting", "handling", "answered"},
              msg : RequestRec, status : Statuses]

(* The invariant the refinement needs: every request keeps a record, and *)
(* its headers are among those clients may send.                         *)
CliTypeOK ==
    /\ req \in [Reqs -> CliReqRec]
    /\ \A r \in Reqs : req[r].msg \in RequestSpace

(* The contract's view of the requests.                                   *)
View == [r \in Reqs |-> [pc |-> IF req[r].pc = "handling" THEN "waiting" ELSE req[r].pc,
                         msg |-> req[r].msg,
                         status |-> req[r].status]]

-----------------------------------------------------------------------------
(* handle_request answers with one of the modelled statuses.              *)
LEMMA CliAnswerType ==
  ASSUME NEW m \in RequestRec
  PROVE  Answer(m) \in Statuses
  BY DEF Answer, FileService, Statuses

(* Where no Content-Range is malformed, the status handle_request of the  *)
(* cli server builds is the one the contract prescribes.                  *)
LEMMA CliAnswerIsContractStatus ==
  ASSUME NEW m \in RequestRec, m.range # "malformed"
  PROVE  Answer(m) = CC!ContractStatus(m)
<1>1. CASE m.route # "file"
  BY <1>1 DEF Answer, CC!ContractStatus
<1>2. CASE m.route = "file" /\ ~Authorized(m)
  <2>1. ServerToken /\ m.auth # "bearer"
    BY <1>2 DEF Authorized
  <2>2. QED
    BY <1>2, <2>1 DEF Answer, FileService, CC!ContractStatus
<1>3. CASE m.route = "file" /\ Authorized(m)
  <2>1. ~(ServerToken /\ m.auth # "bearer")
    BY <1>3 DEF Authorized
  <2>2. m.fileName \in BOOLEAN /\ m.range \in {"none", "valid"}
    BY DEF RequestRec
  <2>3. QED
    BY <1>3, <2>1, <2>2 DEF Answer, FileService, CC!ContractStatus
<1>4. QED
  BY <1>1, <1>2, <1>3

(* Moving a request to another state keeps its headers, its answer and  *)
(* the other requests.                                                    *)
LEMMA CliReqMove ==
  ASSUME NEW f \in [Reqs -> CliReqRec], NEW g, NEW r \in Reqs,
         NEW p \in {"idle", "waiting", "handling", "answered"},
         g = [f EXCEPT ![r].pc = p]
  PROVE  /\ g \in [Reqs -> CliReqRec]
         /\ g[r].pc = p /\ g[r].msg = f[r].msg /\ g[r].status = f[r].status
         /\ \A s \in Reqs \ {r} : g[s] = f[s]
  BY Zenon DEF CliReqRec

-----------------------------------------------------------------------------
(* Before the server starts, every request is idle and unanswered.      *)
LEMMA InitCliTypeOK == CliAssumption /\ Init => CliTypeOK
  BY DEF CliAssumption, Init, CliTypeOK, CliReqRec, Statuses

(* No step of the server changes the headers of a request.              *)
LEMMA NextCliTypeOK == CliTypeOK /\ [Next]_vars => CliTypeOK'
<1> SUFFICES ASSUME CliTypeOK, [Next]_vars PROVE CliTypeOK'
  OBVIOUS
<1>1. CASE ReadSubfiles
  BY <1>1 DEF ReadSubfiles, CliTypeOK
<1>0. req \in [Reqs -> CliReqRec]
  BY DEF CliTypeOK
<1>2. ASSUME NEW r \in Reqs, Arrive(r) \/ Acquire(r) PROVE CliTypeOK'
  <2>1. \E p \in {"waiting", "handling"} : req' = [req EXCEPT ![r].pc = p]
    BY <1>2 DEF Arrive, Acquire
  <2>2. req' \in [Reqs -> CliReqRec] /\ req'[r].msg = req[r].msg
        /\ \A s \in Reqs \ {r} : req'[s] = req[s]
    BY <1>0, <2>1, CliReqMove
  <2>3. QED
    BY <2>2 DEF CliTypeOK
<1>4. ASSUME NEW r \in Reqs, Respond(r) PROVE CliTypeOK'
  <2>1. Answer(req[r].msg) \in Statuses
    BY CliAnswerType DEF CliTypeOK, CliReqRec
  <2>2. req' = [req EXCEPT ![r].pc = "answered", ![r].status = Answer(req[r].msg)]
    BY <1>4 DEF Respond
  <2>4. req' \in [Reqs -> CliReqRec] /\ req'[r].msg = req[r].msg
        /\ \A s \in Reqs \ {r} : req'[s] = req[s]
    BY <1>0, <2>1, <2>2, Zenon DEF CliReqRec
  <2>3. QED
    BY <2>4 DEF CliTypeOK
<1>5. CASE UNCHANGED vars
  BY <1>5 DEF vars, CliTypeOK
<1>6. QED
  BY <1>1, <1>2, <1>4, <1>5 DEF Next

-----------------------------------------------------------------------------
(* When every Content-Range a client may send parses, the cli server's    *)
(* handle_request implements the contract of spec section 4.4:            *)
(* init_server binding the port maps to the contract's Start, a request   *)
(* taking the context mutex to a stutter, and the handler's return to     *)
(* Answer with the status the contract prescribes.                        *)
THEOREM CliRefinesContract ==
  ASSUME CliAssumption, \A m \in RequestSpace : m.range # "malformed"
  PROVE  Spec => ContractSpec
<1>1. Init => CC!Init
  <2> SUFFICES ASSUME Init PROVE CC!Init
    OBVIOUS
  <2>1. View = req
    BY DEF Init, View
  <2>2. QED
    BY <2>1 DEF Init, CC!Init, View
<1>2. CliTypeOK /\ [Next]_vars => [CC!Next]_<<phase = "serving", View>>
  <2> SUFFICES ASSUME CliTypeOK, [Next]_vars
               PROVE  [CC!Next]_<<phase = "serving", View>>
    OBVIOUS
  <2>0. req \in [Reqs -> CliReqRec]
    BY DEF CliTypeOK
  <2>1. CASE ReadSubfiles
    <3>1. phase # "serving" /\ UNCHANGED req
      BY <2>1 DEF ReadSubfiles
    <3>2. CASE phase' = "serving"
      BY <3>1, <3>2 DEF CC!Next, CC!Start, View
    <3>3. CASE phase' # "serving"
      BY <3>1, <3>3 DEF View
    <3>4. QED
      BY <3>2, <3>3
  <2>2. ASSUME NEW r \in Reqs, Arrive(r)
        PROVE  [CC!Next]_<<phase = "serving", View>>
    <3>1. /\ req'[r].pc = "waiting" /\ req'[r].msg = req[r].msg
          /\ req'[r].status = req[r].status
          /\ \A s \in Reqs \ {r} : req'[s] = req[s]
      BY <2>0, <2>2, CliReqMove DEF Arrive
    <3>2. req[r].pc = "idle" /\ phase = "serving" /\ UNCHANGED phase
      BY <2>2 DEF Arrive
    <3>3. View' = [View EXCEPT ![r].pc = "waiting"]
      BY <2>0, <3>1, <3>2 DEF View, CliReqRec
    <3>4. CC!Arrive(r)
      BY <3>2, <3>3 DEF CC!Arrive, View
    <3>5. QED
      BY <3>4 DEF CC!Next
  <2>3. ASSUME NEW r \in Reqs, Acquire(r)
        PROVE  [CC!Next]_<<phase = "serving", View>>
    <3>1. /\ req'[r].pc = "handling" /\ req'[r].msg = req[r].msg
          /\ req'[r].status = req[r].status
          /\ \A s \in Reqs \ {r} : req'[s] = req[s]
      BY <2>0, <2>3, CliReqMove DEF Acquire
    <3>2. req[r].pc = "waiting" /\ UNCHANGED phase
      BY <2>3 DEF Acquire
    <3>3. View' = View
      BY <2>0, <3>1, <3>2 DEF View
    <3>4. QED
      BY <3>2, <3>3
  <2>4. ASSUME NEW r \in Reqs, Respond(r)
        PROVE  [CC!Next]_<<phase = "serving", View>>
    <3>1. Answer(req[r].msg) \in Statuses
      BY CliAnswerType DEF CliTypeOK, CliReqRec
    <3>2. req' = [req EXCEPT ![r].pc = "answered", ![r].status = Answer(req[r].msg)]
      BY <2>4 DEF Respond
    <3>3. /\ req'[r].pc = "answered" /\ req'[r].msg = req[r].msg
          /\ req'[r].status = Answer(req[r].msg)
          /\ \A s \in Reqs \ {r} : req'[s] = req[s]
      BY <2>0, <3>1, <3>2, Zenon DEF CliReqRec
    <3>4. req[r].pc \in {"waiting", "handling"} /\ UNCHANGED phase
      BY <2>4 DEF Respond
    <3>5. Answer(req[r].msg) = CC!ContractStatus(req[r].msg)
      BY CliAnswerIsContractStatus DEF CliTypeOK, CliReqRec
    <3>6. View[r].pc = "waiting" /\ View[r].msg = req[r].msg
      BY <3>4 DEF View
    <3>7. View' = [View EXCEPT ![r].pc = "answered",
                               ![r].status = CC!ContractStatus(View[r].msg)]
      BY <2>0, <3>3, <3>5, <3>6 DEF View, CliReqRec
    <3>8. CC!Answer(r)
      BY <3>4, <3>6, <3>7 DEF CC!Answer, View
    <3>9. QED
      BY <3>8 DEF CC!Next
  <2>5. CASE UNCHANGED vars
    BY <2>5 DEF vars, View
  <2>6. QED
    BY <2>1, <2>2, <2>3, <2>4, <2>5 DEF Next
<1>3. QED
  BY InitCliTypeOK, NextCliTypeOK, <1>1, <1>2, PTL DEF Spec, ContractSpec, CC!Spec, View

=============================================================================
