-------------------------- MODULE OutgoingSystemProofs -------------------------
(***************************************************************************)
(* Proofs about OutgoingSystem, for every set of requests, workers and     *)
(* contents, both kinds of network and any bounds: the system takes only   *)
(* steps of the queue, SystemInv is inductive, and the agreement of client *)
(* and proxy about the phases of a request follows from it.                *)
(***************************************************************************)
EXTENDS OutgoingSystem, OutgoingQueueProofs

--------------------------------------------------------------------------------
(* The system takes only steps of the queue.                               *)

\* What the application asks for is a request the queue knows.
LEMMA ContentsType ==
    ASSUME SystemTypeOK, NEW r \in Request
    PROVE  contents[r] \in Wire /\ contents[r].client \in Client
<1>1. contents[r] \in Wire
  BY ContentsAssumption DEF SystemTypeOK
<1>. QED BY <1>1, WireAssumption DEF WireSet

\* A step of the system is a step of the queue or does not touch it.
LEMMA SystemStepsQueue ==
    ASSUME SystemTypeOK, [SystemNext]_sysVars
    PROVE  [Next]_vars
<1>1. CASE UNCHANGED sysVars
  BY <1>1 DEF sysVars
<1>2. CASE ProxyStep
  <2>1. ASSUME NEW w \in Worker, queueStep(SilentStep(w)) \/ queueStep(Stop(w))
        PROVE  Next
    BY <2>1 DEF queueStep, Next, WorkerStep
  <2>2. ASSUME NEW S \in SUBSET Request,
               queueStep(RecoverExpiredDispatches(S)) \/ cleanup(S)
        PROVE  Next
    BY <2>2 DEF queueStep, cleanup, Next, MaintenanceStep
  <2>3. ASSUME NEW w \in Worker, NEW sent \in BOOLEAN, publishDirect(w, sent)
        PROVE  Next
    BY <2>3 DEF publishDirect, Next, WorkerStep
  <2>4. ASSUME NEW r \in Request, handleRequest(r) PROVE [Next]_vars
    BY <2>4, ContentsType DEF handleRequest, Next, HandlerStep
  <2>5. ASSUME NEW r \in Request, handleAcceptanceACK(r) PROVE [Next]_vars
    BY <2>5, ContentsType DEF handleAcceptanceACK, Next, HandlerStep
  <2>6. ASSUME NEW r \in Request, handleResultACK(r) PROVE [Next]_vars
    BY <2>6, ContentsType DEF handleResultACK, Next, HandlerStep
  <2>7. ASSUME NEW r \in Request, deliverAcceptance(r) \/ deliverResult(r)
        PROVE  [Next]_vars
    BY <2>7 DEF deliverAcceptance, deliverResult, Next, HandlerStep
  <2>. QED BY <1>2, <2>1, <2>2, <2>3, <2>4, <2>5, <2>6, <2>7 DEF ProxyStep
<1>3. CASE ClientStep
  <2>1. ASSUME NEW r \in Request, NEW kind, handleAcceptance(r, kind)
        PROVE  UNCHANGED vars
    BY <2>1 DEF handleAcceptance
  <2>2. ASSUME NEW r \in Request,
               \/ handleResult(r) \/ acceptanceConfirmation(r) \/ resultConfirmation(r)
               \/ call(r) \/ resumePending(r) \/ launch(r) \/ publishRequest(r)
        PROVE  UNCHANGED vars
    BY <2>2 DEF handleResult, acceptanceConfirmation, resultConfirmation,
                handleConfirmed, call, resumePending, beginStart, launch, publishRequest
  <2>3. ASSUME NEW r \in Request,
               \/ takeRejection(r) \/ takeAcceptance(r)
               \/ ackAcceptance(r) \/ acceptanceConfirmed(r)
               \/ takeResult(r) \/ ackResult(r) \/ resultConfirmed(r) \/ storeFails(r)
        PROVE  UNCHANGED vars
    BY <2>3 DEF takeRejection, takeAcceptance, ackAcceptance, acceptanceConfirmed,
                takeResult, ackResult, resultConfirmed, storeFails
  <2>4. CASE restart
    BY <2>4 DEF restart
  <2>. QED BY <1>3, <2>1, <2>2, <2>3, <2>4 DEF ClientStep
<1>4. CASE Lose
  BY <1>4 DEF Lose
<1>. QED BY <1>1, <1>2, <1>3, <1>4 DEF SystemNext

--------------------------------------------------------------------------------
(* Steps that the client does not see.                                     *)

\* No request changes its phase: none is confirmed, delivered or deleted, and
\* nothing published is taken back.
Quiet ==
    /\ era' = era
    /\ \A r \in Request :
          /\ answers[r] \subseteq answers'[r]
          /\ status'[r] = "result_delivered" <=> status[r] = "result_delivered"
          /\ status'[r] \in {"absent", "awaiting_acceptance_ack"}
                <=> status[r] \in {"absent", "awaiting_acceptance_ack"}
          /\ status[r] \in {"absent", "awaiting_acceptance_ack"} => sends'[r] = sends[r]

\* A worker moves its row between the phases inside the proxy only.
LEMMA SilentStepQuiet ==
    ASSUME IInv, NEW w \in Worker, SilentStep(w)
    PROVE  Quiet
<1> USE DEF IInv, TypeOK, Quiet, rowVars, deliveryVars, workerVars, historyVars
<1>1. ASSUME NEW r \in Request, NEW t \in Token, ReserveRequest(w, r, t) PROVE Quiet
  BY <1>1 DEF ReserveRequest
<1>2. CASE ReleaseReserved(w)
  BY <1>2 DEF ReleaseReserved, Owns
<1>3. CASE BeginDispatch(w)
  BY <1>3 DEF BeginDispatch, Owns
<1>4. CASE DispatchRefused(w) \/ HTTPFails(w) \/ \E code \in Code : HTTPResponds(w, code)
  BY <1>4 DEF DispatchRefused, HTTPFails, HTTPResponds
<1>5. CASE SendHTTP(w)
  <2>1. Holds(w) /\ op[w].request \in Request
    BY <1>5 DEF SendHTTP, PhaseOK, Active, Operation
  <2>2. status[op[w].request] = "dispatching"
    BY <1>5, <2>1 DEF SendHTTP, HolderOK
  <2>. QED BY <1>5, <2>1, <2>2 DEF SendHTTP
<1>6. CASE ScheduleRetry(w)
  BY <1>6 DEF ScheduleRetry, Owns
<1>7. CASE SaveHTTPResult(w)
  <2>1. outcome[w].state \in {"http_completed", "unknown"}
    BY <1>7 DEF SaveHTTPResult, PhaseOK, Result
  <2>. QED BY <1>7, <2>1 DEF SaveHTTPResult, Owns
<1>. QED BY <1>1, <1>2, <1>3, <1>4, <1>5, <1>6, <1>7 DEF SilentStep

\* So do a worker that stops or publishes, the recovery, the delivery of a
\* result and the acceptance of a request.
LEMMA OtherStepsQuiet ==
    ASSUME IInv,
           \/ UNCHANGED vars
           \/ \E w \in Worker : Stop(w)
           \/ \E w \in Worker, sent \in BOOLEAN : PublishHTTPResult(w, sent)
           \/ \E S \in SUBSET Request : RecoverExpiredDispatches(S)
           \/ \E r \in Request : DeliverResult(r) \/ \E x \in Wire : AcceptHTTPRequest(r, x)
    PROVE  Quiet
<1> USE DEF IInv, TypeOK, Quiet, rowVars, deliveryVars, workerVars, historyVars
<1>1. CASE UNCHANGED vars
  BY <1>1 DEF vars
<1>2. ASSUME NEW w \in Worker, Stop(w) PROVE Quiet
  BY <1>2 DEF Stop
<1>3. ASSUME NEW w \in Worker, NEW sent \in BOOLEAN, PublishHTTPResult(w, sent)
      PROVE  Quiet
  BY <1>3 DEF PublishHTTPResult
<1>4. ASSUME NEW S \in SUBSET Request, RecoverExpiredDispatches(S) PROVE Quiet
  BY <1>4 DEF RecoverExpiredDispatches, LeaseMayExpire, Stale
<1>5. ASSUME NEW r \in Request, DeliverResult(r) PROVE Quiet
  BY <1>5 DEF DeliverResult
<1>6. ASSUME NEW r \in Request, NEW x \in Wire, AcceptHTTPRequest(r, x) PROVE Quiet
  BY <1>6 DEF AcceptHTTPRequest, InsertRequest, ReopenDeliveries
<1>. QED BY <1>1, <1>2, <1>3, <1>4, <1>5, <1>6

\* Messages that say something which has to be true.
Telling == {"acceptance_ack", "result_ack", "result_confirmed", "result"}

\* A quiet step that leaves the client alone, and sends nothing but results that
\* count as published, keeps the agreement.
LEMMA QuietStep ==
    ASSUME SystemInv, IInv', Quiet, UNCHANGED <<clientVars, envVars>>,
           \A m \in net' : \/ m \in net
                           \/ m \in Message /\ m.type \notin Telling
                           \/ /\ m \in Message /\ m.type = "result"
                              /\ m.result \in answers'[m.request]
    PROVE  SystemInv'
<1> USE DEF SystemInv, clientVars, envVars
<1>1. SystemTypeOK'
  BY DEF SystemTypeOK, IInv
<1>2. NetOK'
  <2>1. SUFFICES ASSUME NEW m \in net'
                 PROVE  /\ m.type = "acceptance_ack" => Recorded(m.request)'
                        /\ m.type = "result_ack" => store'[m.request].result # Null
                        /\ m.type = "result_confirmed"
                              => status'[m.request] = "result_delivered"
                        /\ m.type = "result" => m.result \in answers'[m.request]
    BY DEF NetOK
  <2>2. m.request \in Request
    BY DEF SystemTypeOK, Message
  <2>3. CASE m \in net
    BY <2>2, <2>3 DEF NetOK, Recorded, Quiet
  <2>. QED BY <2>3 DEF Telling
<1>3. ASSUME NEW r \in Request PROVE (ExecuteOK(r) /\ PhasesAgree(r) /\ ResultsAgree(r))'
  <2>1. ExecuteOK(r)'
    BY DEF ExecuteOK, Recorded, Quiet
  <2>2. PhasesAgree(r)'
    BY DEF PhasesAgree, Recorded, Quiet
  <2>3. ResultsAgree(r)'
    BY DEF ResultsAgree, Quiet
  <2>. QED BY <2>1, <2>2, <2>3
<1>. QED BY <1>1, <1>2, <1>3

--------------------------------------------------------------------------------
(* The handlers of the proxy, its workers and maintenance.                 *)

\* The messages without a result are well formed.
LEMMA MsgType ==
    ASSUME NEW r \in Request,
           NEW type \in {"request", "acceptance_ack", "result_ack", "accepted",
                         "rejected", "acceptance_confirmed", "result_confirmed"}
    PROVE  Msg(type, r) \in Message /\ Msg(type, r).type = type /\ Msg(type, r).request = r
BY DEF Msg, Message

\* Messages that carry a result are well formed.
LEMMA ResultMsgType ==
    ASSUME NEW r \in Request, NEW res \in Result
    PROVE  /\ ResultMsg(r, res) \in Message /\ ResultMsg(r, res).type = "result"
           /\ ResultMsg(r, res).request = r /\ ResultMsg(r, res).result = res
BY DEF ResultMsg, Message

\* What the workers and the recovery do in silence.
LEMMA queueSteps ==
    ASSUME SystemInv, IInv',
           \/ \E w \in Worker : queueStep(SilentStep(w)) \/ queueStep(Stop(w))
           \/ \E S \in SUBSET Request : queueStep(RecoverExpiredDispatches(S))
    PROVE  SystemInv'
<1>1. Quiet
  BY SilentStepQuiet, OtherStepsQuiet DEF SystemInv, queueStep
<1>2. UNCHANGED <<clientVars, net, envVars>>
  BY DEF queueStep
<1>. QED BY <1>1, <1>2, QuietStep

\* A worker that publishes its result directly.
LEMMA publishDirectStep ==
    ASSUME SystemInv, IInv', NEW w \in Worker, NEW sent \in BOOLEAN,
           publishDirect(w, sent)
    PROVE  SystemInv'
<1>1. Quiet
  BY OtherStepsQuiet DEF SystemInv, publishDirect
<1>2. op[w].request \in Request /\ outcome[w] \in Result
  BY DEF publishDirect, PublishHTTPResult, SystemInv, IInv, PhaseOK, Active, Operation
<1>3. sent => outcome[w] \in answers'[op[w].request]
  BY <1>2 DEF publishDirect, PublishHTTPResult, SystemInv, IInv, TypeOK
<1>4. net' = IF sent THEN net \cup {ResultMsg(op[w].request, outcome[w])} ELSE net
  BY DEF publishDirect, Publish
<1>5. UNCHANGED <<clientVars, envVars>>
  BY DEF publishDirect
<1>. QED BY <1>1, <1>2, <1>3, <1>4, <1>5, ResultMsgType, QuietStep

\* The delivery of a stored result.
LEMMA deliverResultStep ==
    ASSUME SystemInv, IInv', NEW r \in Request, deliverResult(r)
    PROVE  SystemInv'
<1>1. Quiet
  BY OtherStepsQuiet DEF SystemInv, deliverResult
<1>2. payload[r] \in Result
  BY DEF deliverResult, DeliverResult, SystemInv, IInv, RowOK, Genuine
<1>3. payload[r] \in answers'[r]
  BY DEF deliverResult, DeliverResult, SystemInv, IInv, TypeOK
<1>4. net' = net \cup {ResultMsg(r, payload[r])} /\ UNCHANGED <<clientVars, envVars>>
  BY DEF deliverResult, Publish
<1>. QED BY <1>1, <1>2, <1>3, <1>4, ResultMsgType, QuietStep

\* The request itself: a rejection, an acceptance that waits for its ACK, or an
\* acceptance that is delivered.
LEMMA handleRequestStep ==
    ASSUME SystemInv, IInv', NEW r \in Request, handleRequest(r) \/ deliverAcceptance(r)
    PROVE  SystemInv'
<1>1. Quiet
  <2>1. contents[r] \in Wire
    BY ContentsType DEF SystemInv
  <2>. QED BY <2>1, OtherStepsQuiet DEF SystemInv, handleRequest, deliverAcceptance
<1>2. \A m \in net' : m \in net \/ m = Msg("rejected", r) \/ m = Msg("accepted", r)
  BY DEF handleRequest, deliverAcceptance, Exchange, Publish
<1>3. UNCHANGED <<clientVars, envVars>>
  BY DEF handleRequest, deliverAcceptance
<1>4. \A m \in net' : m \in net \/ (m \in Message /\ m.type \notin Telling)
  BY <1>2, MsgType DEF Telling
<1>. QED BY <1>1, <1>3, <1>4, QuietStep

\* The ACK of an acceptance: the client had recorded it when it sent the ACK.
LEMMA handleAcceptanceACKStep ==
    ASSUME SystemInv, IInv', NEW r \in Request, handleAcceptanceACK(r)
    PROVE  SystemInv'
<1>0. /\ Msg("acceptance_ack", r) \in net /\ UNCHANGED <<clientVars, envVars>>
      /\ \A m \in net' : m \in net \/ m = Msg("acceptance_confirmed", r)
  BY DEF handleAcceptanceACK, Exchange
<1>a. \A m \in net' : m \in net \/ (m \in Message /\ m.type \notin Telling)
  BY <1>0, MsgType DEF Telling
<1>1. CASE UNCHANGED vars
  <2>1. Quiet
    BY <1>1, OtherStepsQuiet DEF SystemInv
  <2>. QED BY <1>0, <1>a, <2>1, QuietStep
<1>2. CASE ConfirmAcceptance(r, contents[r].client)
  <2> USE DEF SystemInv, clientVars, envVars
  <2>0. Recorded(r)
    <3>1. Msg("acceptance_ack", r).type = "acceptance_ack"
          /\ Msg("acceptance_ack", r).request = r
      BY MsgType
    <3>. QED BY <1>0, <3>1 DEF NetOK
  <2>a. /\ UNCHANGED <<era, sends, answers>>
        /\ \A q \in Request : status'[q] = IF q = r /\ status[q] = "awaiting_acceptance_ack"
                                             THEN "ready" ELSE status[q]
    BY <1>2 DEF ConfirmAcceptance, historyVars, IInv, TypeOK
  <2>1. SystemTypeOK'
    BY <1>0, <1>a DEF SystemTypeOK, IInv
  <2>2. NetOK'
    <3>1. \A m \in net : m.request \in Request
      BY DEF SystemTypeOK, Message
    <3>. QED BY <1>0, <1>a, <2>a, <3>1 DEF NetOK, Recorded, Telling
  <2>3. ASSUME NEW q \in Request
        PROVE  (ExecuteOK(q) /\ PhasesAgree(q) /\ ResultsAgree(q))'
    <3>1. ExecuteOK(q)'
      BY <1>0, <2>a DEF ExecuteOK, Recorded
    <3>2. PhasesAgree(q)'
      BY <1>0, <2>0, <2>a DEF PhasesAgree, Recorded
    <3>3. ResultsAgree(q)'
      BY <1>0, <2>a DEF ResultsAgree
    <3>. QED BY <3>1, <3>2, <3>3
  <2>. QED BY <2>1, <2>2, <2>3
<1>. QED BY <1>1, <1>2 DEF handleAcceptanceACK

\* The ACK of a result: the client had saved one when it sent the ACK.
LEMMA handleResultACKStep ==
    ASSUME SystemInv, IInv', NEW r \in Request, handleResultACK(r)
    PROVE  SystemInv'
<1>0. /\ Msg("result_ack", r) \in net /\ UNCHANGED <<clientVars, envVars>>
  BY DEF handleResultACK, Exchange
<1>1. CASE UNCHANGED vars /\ Exchange(Msg("result_ack", r), {})
  <2>1. Quiet
    BY <1>1, OtherStepsQuiet DEF SystemInv
  <2>2. \A m \in net' : m \in net
    BY <1>1 DEF Exchange
  <2>. QED BY <1>0, <2>1, <2>2, QuietStep
<1>2. CASE /\ delivery[r] # "none"
           /\ Exchange(Msg("result_ack", r), {Msg("result_confirmed", r)})
           /\ ConfirmResult(r, contents[r].client)
  <2> USE DEF SystemInv, clientVars, envVars
  <2>0. store[r].result # Null
    <3>1. Msg("result_ack", r).type = "result_ack" /\ Msg("result_ack", r).request = r
      BY MsgType
    <3>. QED BY <1>0, <3>1 DEF NetOK
  <2>a. /\ UNCHANGED <<era, sends, answers>>
        /\ status[r] \in Finished
        /\ \A q \in Request : status'[q] = IF q = r THEN "result_delivered" ELSE status[q]
    BY <1>2 DEF ConfirmResult, historyVars, IInv, TypeOK, RowOK, Finished
  <2>b. \A m \in net' : m \in net \/ m = Msg("result_confirmed", r)
    BY <1>2 DEF Exchange
  <2>c. /\ Msg("result_confirmed", r) \in Message
        /\ Msg("result_confirmed", r).type = "result_confirmed"
        /\ Msg("result_confirmed", r).request = r
    BY MsgType
  <2>1. SystemTypeOK'
    BY <1>0, <2>b, <2>c DEF SystemTypeOK, IInv
  <2>2. NetOK'
    <3>1. \A m \in net : m.request \in Request
      BY DEF SystemTypeOK, Message
    <3>. QED BY <1>0, <2>a, <2>b, <2>c, <3>1 DEF NetOK, Recorded
  <2>3. ASSUME NEW q \in Request
        PROVE  (ExecuteOK(q) /\ PhasesAgree(q) /\ ResultsAgree(q))'
    <3>1. ExecuteOK(q)'
      BY <1>0, <2>a DEF ExecuteOK, Recorded
    <3>2. PhasesAgree(q)'
      BY <1>0, <2>0, <2>a DEF PhasesAgree, Recorded, Finished
    <3>3. ResultsAgree(q)'
      BY <1>0, <2>a DEF ResultsAgree
    <3>. QED BY <3>1, <3>2, <3>3
  <2>. QED BY <2>1, <2>2, <2>3
<1>. QED BY <1>1, <1>2 DEF handleResultACK

\* Cleanup: a new life of the request ID begins, with no message of the old one.
LEMMA cleanupStep ==
    ASSUME SystemInv, IInv', NEW S \in SUBSET Request, cleanup(S)
    PROVE  SystemInv'
<1> USE DEF SystemInv, cleanup, clientVars, envVars
<1>a. \A r \in Request :
        /\ era'[r] = IF r \in S THEN era[r] + 1 ELSE era[r]
        /\ status'[r] = IF r \in S THEN "absent" ELSE status[r]
        /\ sends'[r] = IF r \in S THEN 0 ELSE sends[r]
        /\ answers'[r] = IF r \in S THEN {} ELSE answers[r]
        /\ era[r] \in Nat
  BY DEF Cleanup, IInv, TypeOK
<1>1. SystemTypeOK'
  BY DEF SystemTypeOK, IInv
<1>2. NetOK'
  <2>1. \A m \in net : m.request \in Request
    BY DEF SystemTypeOK, Message
  <2>. QED BY <1>a, <2>1 DEF NetOK, Recorded
<1>3. ASSUME NEW r \in Request
      PROVE  (ExecuteOK(r) /\ PhasesAgree(r) /\ ResultsAgree(r))'
  <2>0. \A res \in {store[r].result, answer[r]} \ {Null} :
          res.era \in Nat /\ res.era <= era[r]
    BY DEF SystemTypeOK, Result, ResultsAgree
  <2>a. UNCHANGED <<store, caller, run, answer, confirmed>>
    OBVIOUS
  <2>b. /\ r \in S /\ store[r].result # Null => store[r].result.era # era'[r]
        /\ \A res \in {store[r].result, answer[r]} \ {Null} :
              res.era <= era'[r] /\ (res.era = era'[r] => r \notin S)
    BY <1>a, <2>0
  <2>1. ExecuteOK(r)'
    BY <1>a, <2>a, <2>b DEF ExecuteOK, Recorded
  <2>2. PhasesAgree(r)'
    BY <1>a, <2>a, <2>b DEF PhasesAgree, Recorded
  <2>3. ResultsAgree(r)'
    BY <1>a, <2>a, <2>b DEF ResultsAgree
  <2>. QED BY <2>1, <2>2, <2>3
<1>. QED BY <1>1, <1>2, <1>3

--------------------------------------------------------------------------------
(* The client.                                                             *)

\* A message that is lost.
LEMMA LoseStep ==
    ASSUME SystemInv, Lose
    PROVE  SystemInv'
<1> USE DEF SystemInv, clientVars, envVars, Lose
<1>0. UNCHANGED vars
  OBVIOUS
<1>a. UNCHANGED <<status, era, sends, answers>>
  BY <1>0 DEF vars, rowVars, historyVars
<1>b. \A m \in net : m.request \in Request
  BY DEF SystemTypeOK, Message
<1>c. IInv'
  BY <1>0, Stutters
<1>1. SystemTypeOK'
  BY <1>c, BoundsAssumption DEF SystemTypeOK, IInv
<1>2. NetOK'
  BY <1>a, <1>b DEF NetOK, Recorded, SystemTypeOK
<1>3. ASSUME NEW q \in Request
      PROVE  (ExecuteOK(q) /\ PhasesAgree(q) /\ ResultsAgree(q))'
  <2>1. ExecuteOK(q)'
    BY <1>a DEF ExecuteOK, Recorded, SystemTypeOK
  <2>2. PhasesAgree(q)'
    BY <1>a DEF PhasesAgree, Recorded, SystemTypeOK
  <2>3. ResultsAgree(q)'
    BY <1>a DEF ResultsAgree, SystemTypeOK
  <2>. QED BY <2>1, <2>2, <2>3
<1>. QED BY <1>c, <1>1, <1>2, <1>3

\* An acceptance or a rejection reaches the channel of a running operation.
LEMMA handleAcceptanceStep ==
    ASSUME SystemInv, NEW r \in Request, NEW kind \in {"accepted", "rejected"}, handleAcceptance(r, kind)
    PROVE  SystemInv'
<1> USE DEF SystemInv, clientVars, envVars, handleAcceptance, Exchange
<1>0. UNCHANGED vars
  OBVIOUS
<1>a. UNCHANGED <<status, era, sends, answers>>
  BY <1>0 DEF vars, rowVars, historyVars
<1>b. \A m \in net : m.request \in Request
  BY DEF SystemTypeOK, Message
<1>c. IInv'
  BY <1>0, Stutters
<1>1. SystemTypeOK'
  BY <1>c DEF SystemTypeOK, IInv
<1>2. NetOK'
  BY <1>a, <1>b DEF NetOK, Recorded, SystemTypeOK
<1>3. ASSUME NEW q \in Request
      PROVE  (ExecuteOK(q) /\ PhasesAgree(q) /\ ResultsAgree(q))'
  <2>1. ExecuteOK(q)'
    BY <1>a DEF ExecuteOK, Recorded, SystemTypeOK
  <2>2. PhasesAgree(q)'
    BY <1>a DEF PhasesAgree, Recorded, SystemTypeOK
  <2>3. ResultsAgree(q)'
    BY <1>a DEF ResultsAgree, SystemTypeOK
  <2>. QED BY <2>1, <2>2, <2>3
<1>. QED BY <1>c, <1>1, <1>2, <1>3

\* A result reaches the channel: it is of the present life of the request ID.
LEMMA handleResultStep ==
    ASSUME SystemInv, NEW r \in Request, handleResult(r)
    PROVE  SystemInv'
<1> USE DEF SystemInv, clientVars, envVars, handleResult, Exchange
<1>0. UNCHANGED vars
  OBVIOUS
<1>a. UNCHANGED <<status, era, sends, answers>>
  BY <1>0 DEF vars, rowVars, historyVars
<1>b. \A m \in net : m.request \in Request
  BY DEF SystemTypeOK, Message
<1>c. IInv'
  BY <1>0, Stutters
<1>d. PICK m \in net : /\ m.type = "result" /\ m.request = r
                       /\ \/ UNCHANGED answer
                          \/ answer' = [answer EXCEPT ![r] = m.result]
  BY DEF SystemTypeOK
<1>e. m.result \in Result /\ m.result \in answers[r] /\ m.result.era = era[r] /\ era[r] \in Nat
  BY <1>d DEF SystemTypeOK, Message, NetOK, IInv, AnswersOK, Genuine, TypeOK
<1>f. net' \subseteq net
  OBVIOUS
<1>1. SystemTypeOK'
  BY <1>c, <1>d, <1>e, <1>f DEF SystemTypeOK, IInv
<1>2. NetOK'
  BY <1>a, <1>b, <1>f DEF NetOK, Recorded
<1>3. ASSUME NEW q \in Request
      PROVE  (ExecuteOK(q) /\ PhasesAgree(q) /\ ResultsAgree(q))'
  <2>1. ExecuteOK(q)'
    BY <1>a DEF ExecuteOK, Recorded, SystemTypeOK
  <2>2. PhasesAgree(q)'
    BY <1>a DEF PhasesAgree, Recorded, SystemTypeOK
  <2>3. ResultsAgree(q)'
    <3>1. CASE q # r \/ UNCHANGED answer
      BY <1>a, <1>d, <3>1 DEF ResultsAgree, SystemTypeOK
    <3>2. CASE q = r /\ answer' = [answer EXCEPT ![r] = m.result]
      <4>1. answer'[r] = m.result /\ store' = store
        BY <3>2 DEF SystemTypeOK
      <4>2. ASSUME store[r].result # Null, store[r].result.era = era[r],
                   store[r].result.state = "http_completed",
                   m.result.state = "http_completed"
            PROVE  store[r].result = m.result
        <5>1. store[r].result \in answers[r] /\ store[r].result \in Result
          BY <4>2 DEF ResultsAgree, SystemTypeOK
        <5>2. store[r].result.exchange = sends[r] /\ m.result.exchange = sends[r]
          BY <1>e, <4>2, <5>1 DEF IInv, AnswersOK, Genuine
        <5>. QED BY <1>e, <4>2, <5>1, <5>2 DEF Result
      <4>3. store[r].result # Null =>
              /\ store[r].result.era \in Nat /\ store[r].result.era <= era[r]
              /\ store[r].result.era = era[r] => store[r].result \in answers[r]
        BY DEF ResultsAgree, SystemTypeOK, Result
      <4>4. \A res \in {store'[r].result, answer'[r]} \ {Null} :
              res.era <= era'[r] /\ (res.era = era'[r] => res \in answers'[r])
        BY <1>a, <1>e, <4>1, <4>3
      <4>5. store'[r].result # Null /\ answer'[r] # Null =>
              /\ store'[r].result.era <= answer'[r].era
              /\ /\ store'[r].result.era = answer'[r].era
                 /\ {store'[r].result.state, answer'[r].state} = {"http_completed"}
                 => store'[r].result = answer'[r]
        BY <1>e, <4>1, <4>2, <4>3
      <4>. QED BY <3>2, <4>4, <4>5 DEF ResultsAgree
    <3>. QED BY <1>d, <3>1, <3>2
  <2>. QED BY <2>1, <2>2, <2>3
<1>. QED BY <1>c, <1>1, <1>2, <1>3

\* The confirmation of an acceptance ACK.
LEMMA acceptanceConfirmationStep ==
    ASSUME SystemInv, NEW r \in Request, acceptanceConfirmation(r)
    PROVE  SystemInv'
<1> USE DEF SystemInv, clientVars, envVars, acceptanceConfirmation, handleConfirmed, Exchange
<1>0. UNCHANGED vars
  OBVIOUS
<1>a. UNCHANGED <<status, era, sends, answers>>
  BY <1>0 DEF vars, rowVars, historyVars
<1>b. \A m \in net : m.request \in Request
  BY DEF SystemTypeOK, Message
<1>c. IInv'
  BY <1>0, Stutters
<1>1. SystemTypeOK'
  BY <1>c DEF SystemTypeOK, IInv
<1>2. NetOK'
  BY <1>a, <1>b DEF NetOK, Recorded, SystemTypeOK
<1>3. ASSUME NEW q \in Request
      PROVE  (ExecuteOK(q) /\ PhasesAgree(q) /\ ResultsAgree(q))'
  <2>1. ExecuteOK(q)'
    BY <1>a DEF ExecuteOK, Recorded, SystemTypeOK
  <2>2. PhasesAgree(q)'
    BY <1>a DEF PhasesAgree, Recorded, SystemTypeOK
  <2>3. ResultsAgree(q)'
    BY <1>a DEF ResultsAgree, SystemTypeOK
  <2>. QED BY <2>1, <2>2, <2>3
<1>. QED BY <1>c, <1>1, <1>2, <1>3

\* The confirmation of a result ACK: the proxy has recorded the delivery.
LEMMA resultConfirmationStep ==
    ASSUME SystemInv, NEW r \in Request, resultConfirmation(r)
    PROVE  SystemInv'
<1> USE DEF SystemInv, clientVars, envVars, resultConfirmation, handleConfirmed, Exchange
<1>0. UNCHANGED vars
  OBVIOUS
<1>a. UNCHANGED <<status, era, sends, answers>>
  BY <1>0 DEF vars, rowVars, historyVars
<1>b. \A m \in net : m.request \in Request
  BY DEF SystemTypeOK, Message
<1>c. IInv'
  BY <1>0, Stutters
<1>d. /\ Msg("result_confirmed", r) \in Message /\ Msg("result_confirmed", r).type = "result_confirmed"
      /\ Msg("result_confirmed", r).request = r
  BY MsgType
<1>e. status[r] = "result_delivered"
  BY <1>d DEF NetOK
<1>1. SystemTypeOK'
  BY <1>c DEF SystemTypeOK, IInv
<1>2. NetOK'
  BY <1>a, <1>b DEF NetOK, Recorded, SystemTypeOK
<1>3. ASSUME NEW q \in Request
      PROVE  (ExecuteOK(q) /\ PhasesAgree(q) /\ ResultsAgree(q))'
  <2>1. ExecuteOK(q)'
    BY <1>a, <1>e DEF ExecuteOK, Recorded, SystemTypeOK
  <2>2. PhasesAgree(q)'
    BY <1>a DEF PhasesAgree, Recorded, SystemTypeOK
  <2>3. ResultsAgree(q)'
    BY <1>a DEF ResultsAgree, SystemTypeOK
  <2>. QED BY <2>1, <2>2, <2>3
<1>. QED BY <1>c, <1>1, <1>2, <1>3

\* The application calls, or the operation is resumed: it is saved first.
LEMMA callStep ==
    ASSUME SystemInv, NEW r \in Request, call(r) \/ resumePending(r)
    PROVE  SystemInv'
<1> USE DEF SystemInv, clientVars, envVars, call, resumePending, beginStart, SaveOutgoing
<1>0. UNCHANGED vars
  OBVIOUS
<1>a. UNCHANGED <<status, era, sends, answers>>
  BY <1>0 DEF vars, rowVars, historyVars
<1>b. \A m \in net : m.request \in Request
  BY DEF SystemTypeOK, Message
<1>c. IInv'
  BY <1>0, Stutters
<1>d. \A q \in Request :
        /\ IF q = r THEN store'[q].state # "absent" ELSE store'[q] = store[q]
        /\ store[q].state # "absent" => store'[q].state = store[q].state
        /\ store'[q].state = "complete" => store[q].state = "complete"
        /\ store'[q].result = store[q].result
  BY DEF SystemTypeOK
<1>1. SystemTypeOK'
  <2> DEFINE Row == [state : StoreState, result : Result \cup {Null}]
  <2>a. store \in [Request -> Row]
    BY DEF SystemTypeOK
  <2>b. SaveOutgoing(r)
    OBVIOUS
  <2>c. [store[r] EXCEPT !.state = IF @ = "absent" THEN "outgoing" ELSE @] \in Row
    BY <2>a DEF StoreState
  <2>1. store' \in [Request -> Row]
    <3> HIDE DEF SystemInv, call, resumePending, beginStart, Row
    <3>. QED BY <2>a, <2>b, <2>c DEF SaveOutgoing
  <2>2. calls' \in [Request -> 0..MaxCalls] /\ resuming' \in SUBSET Request
    BY BoundsAssumption DEF SystemTypeOK
  <2>. QED BY <1>c, <2>1, <2>2 DEF SystemTypeOK, IInv
<1>2. NetOK'
  BY <1>a, <1>b, <1>d DEF NetOK, Recorded
<1>3. ASSUME NEW q \in Request
      PROVE  (ExecuteOK(q) /\ PhasesAgree(q) /\ ResultsAgree(q))'
  <2>1. ExecuteOK(q)'
    BY <1>a, <1>d DEF ExecuteOK, Recorded, SystemTypeOK
  <2>2. PhasesAgree(q)'
    BY <1>a, <1>d DEF PhasesAgree, Recorded
  <2>3. ResultsAgree(q)'
    BY <1>a, <1>d DEF ResultsAgree
  <2>. QED BY <2>1, <2>2, <2>3
<1>. QED BY <1>c, <1>1, <1>2, <1>3

\* The operation is joined or run.
LEMMA launchStep ==
    ASSUME SystemInv, NEW r \in Request, launch(r)
    PROVE  SystemInv'
<1> USE DEF SystemInv, clientVars, envVars, launch, Publish
<1>0. UNCHANGED vars
  OBVIOUS
<1>a. UNCHANGED <<status, era, sends, answers>>
  BY <1>0 DEF vars, rowVars, historyVars
<1>b. \A m \in net : m.request \in Request
  BY DEF SystemTypeOK, Message
<1>c. IInv'
  BY <1>0, Stutters
<1>d. /\ Msg("request", r) \in Message /\ Msg("request", r).type = "request"
      /\ Msg("request", r).request = r
  BY MsgType
<1>1. SystemTypeOK'
  BY <1>c, <1>d DEF SystemTypeOK, IInv, RunPC
<1>2. NetOK'
  BY <1>a, <1>b, <1>d DEF NetOK, Recorded
<1>3. ASSUME NEW q \in Request
      PROVE  (ExecuteOK(q) /\ PhasesAgree(q) /\ ResultsAgree(q))'
  <2>1. ExecuteOK(q)'
    BY <1>a DEF ExecuteOK, Recorded, SystemTypeOK
  <2>2. PhasesAgree(q)'
    BY <1>a DEF PhasesAgree, Recorded, SystemTypeOK
  <2>3. ResultsAgree(q)'
    BY <1>a DEF ResultsAgree, SystemTypeOK
  <2>. QED BY <2>1, <2>2, <2>3
<1>. QED BY <1>c, <1>1, <1>2, <1>3

\* The request is repeated.
LEMMA publishRequestStep ==
    ASSUME SystemInv, NEW r \in Request, publishRequest(r)
    PROVE  SystemInv'
<1> USE DEF SystemInv, clientVars, envVars, publishRequest, Publish
<1>0. UNCHANGED vars
  OBVIOUS
<1>a. UNCHANGED <<status, era, sends, answers>>
  BY <1>0 DEF vars, rowVars, historyVars
<1>b. \A m \in net : m.request \in Request
  BY DEF SystemTypeOK, Message
<1>c. IInv'
  BY <1>0, Stutters
<1>d. /\ Msg("request", r) \in Message /\ Msg("request", r).type = "request"
      /\ Msg("request", r).request = r
  BY MsgType
<1>1. SystemTypeOK'
  BY <1>c, <1>d DEF SystemTypeOK, IInv
<1>2. NetOK'
  BY <1>a, <1>b, <1>d DEF NetOK, Recorded
<1>3. ASSUME NEW q \in Request
      PROVE  (ExecuteOK(q) /\ PhasesAgree(q) /\ ResultsAgree(q))'
  <2>1. ExecuteOK(q)'
    BY <1>a DEF ExecuteOK, Recorded, SystemTypeOK
  <2>2. PhasesAgree(q)'
    BY <1>a DEF PhasesAgree, Recorded, SystemTypeOK
  <2>3. ResultsAgree(q)'
    BY <1>a DEF ResultsAgree, SystemTypeOK
  <2>. QED BY <2>1, <2>2, <2>3
<1>. QED BY <1>c, <1>1, <1>2, <1>3

\* A rejection, or a failed write, ends the run.
LEMMA takeRejectionStep ==
    ASSUME SystemInv, NEW r \in Request, takeRejection(r) \/ storeFails(r)
    PROVE  SystemInv'
<1> USE DEF SystemInv, clientVars, envVars, takeRejection, storeFails, Return
<1>0. UNCHANGED vars
  OBVIOUS
<1>a. UNCHANGED <<status, era, sends, answers>>
  BY <1>0 DEF vars, rowVars, historyVars
<1>b. \A m \in net : m.request \in Request
  BY DEF SystemTypeOK, Message
<1>c. IInv'
  BY <1>0, Stutters
<1>1. SystemTypeOK'
  <2>1. storeErrors' \in 0..MaxStoreErrors
    BY BoundsAssumption DEF SystemTypeOK
  <2>. QED BY <1>c, <2>1 DEF SystemTypeOK, IInv, RunPC
<1>2. NetOK'
  BY <1>a, <1>b DEF NetOK, Recorded, SystemTypeOK
<1>3. ASSUME NEW q \in Request
      PROVE  (ExecuteOK(q) /\ PhasesAgree(q) /\ ResultsAgree(q))'
  <2>1. ExecuteOK(q)'
    BY <1>a DEF ExecuteOK, Recorded, SystemTypeOK
  <2>2. PhasesAgree(q)'
    BY <1>a DEF PhasesAgree, Recorded, SystemTypeOK
  <2>3. ResultsAgree(q)'
    BY <1>a DEF ResultsAgree, SystemTypeOK
  <2>. QED BY <2>1, <2>2, <2>3
<1>. QED BY <1>c, <1>1, <1>2, <1>3

\* The acceptance is recorded before its ACK is sent.
LEMMA takeAcceptanceStep ==
    ASSUME SystemInv, NEW r \in Request, takeAcceptance(r)
    PROVE  SystemInv'
<1> USE DEF SystemInv, clientVars, envVars, takeAcceptance, MarkAccepted, Publish
<1>0. UNCHANGED vars
  OBVIOUS
<1>a. UNCHANGED <<status, era, sends, answers>>
  BY <1>0 DEF vars, rowVars, historyVars
<1>b. \A m \in net : m.request \in Request
  BY DEF SystemTypeOK, Message
<1>c. IInv'
  BY <1>0, Stutters
<1>d. /\ Msg("acceptance_ack", r) \in Message /\ Msg("acceptance_ack", r).type = "acceptance_ack"
      /\ Msg("acceptance_ack", r).request = r
  BY MsgType
<1>e. Recorded(r)' /\ store'[r].result = store[r].result
  BY DEF Recorded, SystemTypeOK, ExecuteOK, StoreState
<1>f. \A q \in Request : q # r => store'[q] = store[q]
  BY DEF SystemTypeOK
<1>g. store[r].state = "complete" <=> store'[r].state = "complete"
  BY DEF SystemTypeOK
<1>1. SystemTypeOK'
  BY <1>c, <1>d DEF SystemTypeOK, IInv, StoreState, RunPC
<1>2. NetOK'
  BY <1>a, <1>b, <1>d, <1>e, <1>f DEF NetOK, Recorded
<1>3. ASSUME NEW q \in Request
      PROVE  (ExecuteOK(q) /\ PhasesAgree(q) /\ ResultsAgree(q))'
  <2>1. ExecuteOK(q)'
    BY <1>a, <1>e, <1>f DEF ExecuteOK, Recorded, SystemTypeOK
  <2>2. PhasesAgree(q)'
    BY <1>a, <1>e, <1>f, <1>g DEF PhasesAgree, Recorded
  <2>3. ResultsAgree(q)'
    BY <1>a, <1>e, <1>f DEF ResultsAgree
  <2>. QED BY <2>1, <2>2, <2>3
<1>. QED BY <1>c, <1>1, <1>2, <1>3

\* The ACK of the acceptance is repeated.
LEMMA ackAcceptanceStep ==
    ASSUME SystemInv, NEW r \in Request, ackAcceptance(r)
    PROVE  SystemInv'
<1> USE DEF SystemInv, clientVars, envVars, ackAcceptance, Publish
<1>0. UNCHANGED vars
  OBVIOUS
<1>a. UNCHANGED <<status, era, sends, answers>>
  BY <1>0 DEF vars, rowVars, historyVars
<1>b. \A m \in net : m.request \in Request
  BY DEF SystemTypeOK, Message
<1>c. IInv'
  BY <1>0, Stutters
<1>d. /\ Msg("acceptance_ack", r) \in Message /\ Msg("acceptance_ack", r).type = "acceptance_ack"
      /\ Msg("acceptance_ack", r).request = r
  BY MsgType
<1>e. Recorded(r)
  BY DEF ExecuteOK
<1>1. SystemTypeOK'
  BY <1>c, <1>d DEF SystemTypeOK, IInv
<1>2. NetOK'
  BY <1>a, <1>b, <1>d, <1>e DEF NetOK, Recorded
<1>3. ASSUME NEW q \in Request
      PROVE  (ExecuteOK(q) /\ PhasesAgree(q) /\ ResultsAgree(q))'
  <2>1. ExecuteOK(q)'
    BY <1>a DEF ExecuteOK, Recorded, SystemTypeOK
  <2>2. PhasesAgree(q)'
    BY <1>a DEF PhasesAgree, Recorded, SystemTypeOK
  <2>3. ResultsAgree(q)'
    BY <1>a DEF ResultsAgree, SystemTypeOK
  <2>. QED BY <2>1, <2>2, <2>3
<1>. QED BY <1>c, <1>1, <1>2, <1>3

\* The acceptance is confirmed.
LEMMA acceptanceConfirmedStep ==
    ASSUME SystemInv, NEW r \in Request, acceptanceConfirmed(r)
    PROVE  SystemInv'
<1> USE DEF SystemInv, clientVars, envVars, acceptanceConfirmed
<1>0. UNCHANGED vars
  OBVIOUS
<1>a. UNCHANGED <<status, era, sends, answers>>
  BY <1>0 DEF vars, rowVars, historyVars
<1>b. \A m \in net : m.request \in Request
  BY DEF SystemTypeOK, Message
<1>c. IInv'
  BY <1>0, Stutters
<1>1. SystemTypeOK'
  BY <1>c DEF SystemTypeOK, IInv, RunPC
<1>2. NetOK'
  BY <1>a, <1>b DEF NetOK, Recorded, SystemTypeOK
<1>3. ASSUME NEW q \in Request
      PROVE  (ExecuteOK(q) /\ PhasesAgree(q) /\ ResultsAgree(q))'
  <2>1. ExecuteOK(q)'
    BY <1>a DEF ExecuteOK, Recorded, SystemTypeOK
  <2>2. PhasesAgree(q)'
    BY <1>a DEF PhasesAgree, Recorded, SystemTypeOK
  <2>3. ResultsAgree(q)'
    BY <1>a DEF ResultsAgree, SystemTypeOK
  <2>. QED BY <2>1, <2>2, <2>3
<1>. QED BY <1>c, <1>1, <1>2, <1>3

\* The result is saved before its ACK is sent.
LEMMA takeResultStep ==
    ASSUME SystemInv, NEW r \in Request, takeResult(r)
    PROVE  SystemInv'
<1> USE DEF SystemInv, clientVars, envVars, takeResult, Publish
<1>0. UNCHANGED vars
  OBVIOUS
<1>a. UNCHANGED <<status, era, sends, answers>>
  BY <1>0 DEF vars, rowVars, historyVars
<1>b. \A m \in net : m.request \in Request
  BY DEF SystemTypeOK, Message
<1>c. IInv'
  BY <1>0, Stutters
<1>d. /\ Msg("result_ack", r) \in Message /\ Msg("result_ack", r).type = "result_ack"
      /\ Msg("result_ack", r).request = r
  BY MsgType
<1>e. /\ answer[r] \in Result /\ answer[r] # Null
      /\ store[r] \in [state : StoreState, result : Result \cup {Null}]
  BY DEF SystemTypeOK
<1>f. \A q \in Request : q # r => store'[q] = store[q]
  BY DEF SystemTypeOK, SaveResult
<1>g. \/ /\ store[r].result # Null /\ store'[r] = store[r]
      \/ store'[r] = [state |-> "result_saved", result |-> answer[r]]
  BY DEF SystemTypeOK, SaveResult, KeepsSaved
<1>h. Recorded(r) /\ Recorded(r)' /\ store'[r].result # Null
  BY <1>e, <1>g DEF Recorded, ExecuteOK
<1>i. store' \in [Request -> [state : StoreState, result : Result \cup {Null}]]
  BY <1>e DEF SystemTypeOK, SaveResult, StoreState
<1>j. \A q \in Request : answer'[q] = IF q = r THEN Null ELSE answer[q]
  BY DEF SystemTypeOK
<1>1. SystemTypeOK'
  BY <1>c, <1>d, <1>i DEF SystemTypeOK, IInv, RunPC
<1>2. NetOK'
  BY <1>a, <1>b, <1>d, <1>f, <1>h DEF NetOK, Recorded
<1>3. ASSUME NEW q \in Request
      PROVE  (ExecuteOK(q) /\ PhasesAgree(q) /\ ResultsAgree(q))'
  <2>1. ExecuteOK(q)'
    BY <1>a, <1>f, <1>h DEF ExecuteOK, Recorded, SystemTypeOK
  <2>2. PhasesAgree(q)'
    BY <1>a, <1>f, <1>g, <1>h DEF PhasesAgree, Recorded
  <2>3. ResultsAgree(q)'
    BY <1>a, <1>e, <1>f, <1>g, <1>j DEF ResultsAgree
  <2>. QED BY <2>1, <2>2, <2>3
<1>. QED BY <1>c, <1>1, <1>2, <1>3

\* The ACK of the result is repeated.
LEMMA ackResultStep ==
    ASSUME SystemInv, NEW r \in Request, ackResult(r)
    PROVE  SystemInv'
<1> USE DEF SystemInv, clientVars, envVars, ackResult, Publish
<1>0. UNCHANGED vars
  OBVIOUS
<1>a. UNCHANGED <<status, era, sends, answers>>
  BY <1>0 DEF vars, rowVars, historyVars
<1>b. \A m \in net : m.request \in Request
  BY DEF SystemTypeOK, Message
<1>c. IInv'
  BY <1>0, Stutters
<1>d. /\ Msg("result_ack", r) \in Message /\ Msg("result_ack", r).type = "result_ack"
      /\ Msg("result_ack", r).request = r
  BY MsgType
<1>e. store[r].result # Null
  BY DEF ExecuteOK
<1>1. SystemTypeOK'
  BY <1>c, <1>d DEF SystemTypeOK, IInv
<1>2. NetOK'
  BY <1>a, <1>b, <1>d, <1>e DEF NetOK, Recorded
<1>3. ASSUME NEW q \in Request
      PROVE  (ExecuteOK(q) /\ PhasesAgree(q) /\ ResultsAgree(q))'
  <2>1. ExecuteOK(q)'
    BY <1>a DEF ExecuteOK, Recorded, SystemTypeOK
  <2>2. PhasesAgree(q)'
    BY <1>a DEF PhasesAgree, Recorded, SystemTypeOK
  <2>3. ResultsAgree(q)'
    BY <1>a DEF ResultsAgree, SystemTypeOK
  <2>. QED BY <2>1, <2>2, <2>3
<1>. QED BY <1>c, <1>1, <1>2, <1>3

\* The operation is complete when the delivery is recorded.
LEMMA resultConfirmedStep ==
    ASSUME SystemInv, NEW r \in Request, resultConfirmed(r)
    PROVE  SystemInv'
<1> USE DEF SystemInv, clientVars, envVars, resultConfirmed, MarkComplete, Return
<1>0. UNCHANGED vars
  OBVIOUS
<1>a. UNCHANGED <<status, era, sends, answers>>
  BY <1>0 DEF vars, rowVars, historyVars
<1>b. \A m \in net : m.request \in Request
  BY DEF SystemTypeOK, Message
<1>c. IInv'
  BY <1>0, Stutters
<1>d. /\ store'[r].state = "complete" /\ store'[r].result = store[r].result
      /\ \A q \in Request : q # r => store'[q] = store[q]
  BY DEF SystemTypeOK
<1>e. /\ store[r].result # Null
      /\ store[r].result.era = era[r] => status[r] = "result_delivered"
  BY DEF ExecuteOK
<1>1. SystemTypeOK'
  BY <1>c DEF SystemTypeOK, IInv, StoreState, RunPC
<1>2. NetOK'
  BY <1>a, <1>b, <1>d DEF NetOK, Recorded
<1>3. ASSUME NEW q \in Request
      PROVE  (ExecuteOK(q) /\ PhasesAgree(q) /\ ResultsAgree(q))'
  <2>1. ExecuteOK(q)'
    BY <1>a, <1>d DEF ExecuteOK, Recorded, SystemTypeOK
  <2>2. PhasesAgree(q)'
    BY <1>a, <1>d, <1>e DEF PhasesAgree, Recorded
  <2>3. ResultsAgree(q)'
    BY <1>a, <1>d DEF ResultsAgree, SystemTypeOK
  <2>. QED BY <2>1, <2>2, <2>3
<1>. QED BY <1>c, <1>1, <1>2, <1>3

\* After a restart nothing runs.
LEMMA restartStep ==
    ASSUME SystemInv, restart
    PROVE  SystemInv'
<1> USE DEF SystemInv, clientVars, envVars, restart, Pending
<1>0. UNCHANGED vars
  OBVIOUS
<1>a. UNCHANGED <<status, era, sends, answers>>
  BY <1>0 DEF vars, rowVars, historyVars
<1>b. \A m \in net : m.request \in Request
  BY DEF SystemTypeOK, Message
<1>c. IInv'
  BY <1>0, Stutters
<1>1. SystemTypeOK'
  BY <1>c, BoundsAssumption DEF SystemTypeOK, IInv, RunPC
<1>2. NetOK'
  BY <1>a, <1>b DEF NetOK, Recorded, SystemTypeOK
<1>3. ASSUME NEW q \in Request
      PROVE  (ExecuteOK(q) /\ PhasesAgree(q) /\ ResultsAgree(q))'
  <2>1. ExecuteOK(q)'
    BY <1>a DEF ExecuteOK, Recorded, SystemTypeOK
  <2>2. PhasesAgree(q)'
    BY <1>a DEF PhasesAgree, Recorded, SystemTypeOK
  <2>3. ResultsAgree(q)'
    BY <1>a DEF ResultsAgree, SystemTypeOK
  <2>. QED BY <2>1, <2>2, <2>3
<1>. QED BY <1>c, <1>1, <1>2, <1>3

--------------------------------------------------------------------------------
(* The theorems.                                                           *)

\* At first nothing is stored, asked or under way.
LEMMA InitSystem == SystemInit => SystemInv
<1> SUFFICES ASSUME SystemInit PROVE SystemInv
  OBVIOUS
<1> USE DEF SystemInit
<1>1. IInv
  BY InitHolds
<1>2. SystemTypeOK
  BY <1>1, BoundsAssumption DEF SystemTypeOK, IInv, StoreState, RunPC
<1>3. NetOK
  BY DEF NetOK
<1>4. ASSUME NEW r \in Request PROVE ExecuteOK(r) /\ PhasesAgree(r) /\ ResultsAgree(r)
  BY DEF Init, ExecuteOK, PhasesAgree, ResultsAgree
<1>. QED BY <1>1, <1>2, <1>3, <1>4 DEF SystemInv

\* Every step of the client, of the network and of the proxy keeps the invariant.
LEMMA SystemStep ==
    ASSUME SystemInv, [SystemNext]_sysVars
    PROVE  SystemInv'
<1>0. IInv'
  BY SystemStepsQueue, NextKeeps DEF SystemInv
<1>1. CASE UNCHANGED sysVars
  <2>1. UNCHANGED vars /\ UNCHANGED <<clientVars, net, envVars>>
    BY <1>1 DEF sysVars
  <2>2. Quiet
    BY <2>1, OtherStepsQuiet DEF SystemInv
  <2>. QED BY <1>0, <2>1, <2>2, QuietStep
<1>2. CASE ProxyStep
  <2>1. ASSUME NEW S \in SUBSET Request, cleanup(S) PROVE SystemInv'
    BY <1>0, <2>1, cleanupStep
  <2>2. ASSUME NEW w \in Worker, NEW sent \in BOOLEAN, publishDirect(w, sent)
        PROVE  SystemInv'
    BY <1>0, <2>2, publishDirectStep
  <2>3. ASSUME NEW r \in Request,
               \/ handleRequest(r) \/ handleAcceptanceACK(r) \/ handleResultACK(r)
               \/ deliverAcceptance(r) \/ deliverResult(r)
        PROVE  SystemInv'
    BY <1>0, <2>3, handleRequestStep, handleAcceptanceACKStep, handleResultACKStep,
       deliverResultStep
  <2>4. CASE \/ \E w \in Worker : queueStep(SilentStep(w)) \/ queueStep(Stop(w))
             \/ \E S \in SUBSET Request : queueStep(RecoverExpiredDispatches(S))
    BY <1>0, <2>4, queueSteps
  <2>. QED BY <1>2, <2>1, <2>2, <2>3, <2>4 DEF ProxyStep
<1>3. CASE ClientStep
  <2>1. ASSUME NEW r \in Request,
               \/ handleAcceptance(r, "accepted") \/ handleAcceptance(r, "rejected")
               \/ handleResult(r) \/ acceptanceConfirmation(r) \/ resultConfirmation(r)
        PROVE  SystemInv'
    BY <2>1, handleAcceptanceStep, handleResultStep, acceptanceConfirmationStep,
       resultConfirmationStep
  <2>2. ASSUME NEW r \in Request,
               \/ call(r) \/ resumePending(r) \/ launch(r) \/ publishRequest(r)
               \/ takeRejection(r) \/ storeFails(r)
        PROVE  SystemInv'
    BY <2>2, callStep, launchStep, publishRequestStep, takeRejectionStep
  <2>3. ASSUME NEW r \in Request,
               \/ takeAcceptance(r) \/ ackAcceptance(r) \/ acceptanceConfirmed(r)
               \/ takeResult(r) \/ ackResult(r) \/ resultConfirmed(r)
        PROVE  SystemInv'
    BY <2>3, takeAcceptanceStep, ackAcceptanceStep, acceptanceConfirmedStep,
       takeResultStep, ackResultStep, resultConfirmedStep
  <2>4. CASE restart
    BY <2>4, restartStep
  <2>. QED BY <1>3, <2>1, <2>2, <2>3, <2>4 DEF ClientStep
<1>4. CASE Lose
  BY <1>4, LoseStep
<1>. QED BY <1>1, <1>2, <1>3, <1>4 DEF SystemNext

\* The client, the messages under way and the queue always agree about every
\* request.
THEOREM SystemInvariant == SystemSpec => []SystemInv
BY InitSystem, SystemStep, PTL DEF SystemSpec

\* The handlers, the delivery loop and the client only add to the queue: whatever
\* is proved of the queue with callers of any kind holds in the system.
THEOREM SystemRefinesQueue == SystemSpec => QueueSpec
<1>1. SystemInit => Init
  BY DEF SystemInit
<1>2. SystemInv /\ [SystemNext]_sysVars => [Next]_vars
  BY SystemStepsQueue DEF SystemInv
<1>. QED BY <1>1, <1>2, SystemInvariant, PTL DEF SystemSpec, QueueSpec, Spec

\* The tables, channels and messages of the system keep their shape.
THEOREM SystemTypeCorrect == SystemSpec => []SystemTypeOK
<1>1. SystemInv => SystemTypeOK
  BY DEF SystemInv
<1>. QED BY <1>1, SystemInvariant, PTL

\* Two-phase acceptance: nothing is on the wire that the client has not durably
\* recorded as accepted (MarkAccepted before the ACK, ConfirmAcceptance before
\* the worker).
THEOREM AcceptedBeforeSent == SystemSpec => []SentOnlyIfAccepted
<1>1. SystemInv => SentOnlyIfAccepted
  BY DEF SystemInv, IInv, TypeOK, PhasesAgree, Recorded, SentOnlyIfAccepted
<1>. QED BY <1>1, SystemInvariant, PTL

\* The proxy records a delivery only when the client has saved a result
\* (SaveResult before the ACK, ConfirmResult after it).
THEOREM SavedBeforeDelivered == SystemSpec => []DeliveredMeansSaved
<1>1. SystemInv => DeliveredMeansSaved
  BY DEF SystemInv, PhasesAgree, DeliveredMeansSaved
<1>. QED BY <1>1, SystemInvariant, PTL

\* The client marks an operation complete only when the proxy has recorded the
\* delivery (ConfirmResult before the confirmation, MarkComplete after it).
THEOREM DeliveredBeforeComplete == SystemSpec => []CompleteMeansDelivered
<1>1. SystemInv => CompleteMeansDelivered
  BY DEF SystemInv, PhasesAgree, CompleteMeansDelivered
<1>. QED BY <1>1, SystemInvariant, PTL

\* A life of a request ID does not end, and nothing published in it is forgotten,
\* but by a cleanup that begins the next one.
LEMMA LivesGoOn ==
    ASSUME IInv, [Next]_vars, NEW r \in Request
    PROVE  /\ era'[r] \in Nat /\ era[r] <= era'[r]
           /\ era'[r] = era[r] => answers[r] \subseteq answers'[r]
<1> DEFINE G == /\ era'[r] \in Nat /\ era[r] <= era'[r]
                /\ era'[r] = era[r] => answers[r] \subseteq answers'[r]
<1>1. Quiet => G
  BY DEF Quiet, IInv, TypeOK
<1>2. ASSUME NEW q \in Request, NEW c \in Client,
             ConfirmAcceptance(q, c) \/ ConfirmResult(q, c)
      PROVE  G
  BY <1>2 DEF ConfirmAcceptance, ConfirmResult, historyVars, IInv, TypeOK
<1>3. ASSUME NEW S \in SUBSET Request, Cleanup(S) PROVE G
  BY <1>3 DEF Cleanup, IInv, TypeOK
<1>4. \/ Quiet
      \/ \E q \in Request, c \in Client : ConfirmAcceptance(q, c) \/ ConfirmResult(q, c)
      \/ \E S \in SUBSET Request : Cleanup(S)
  <2>1. CASE HandlerStep
    BY <2>1, OtherStepsQuiet DEF HandlerStep
  <2>2. ASSUME NEW w \in Worker, WorkerStep(w) \/ Stop(w) PROVE Quiet
    BY <2>2, SilentStepQuiet, OtherStepsQuiet DEF WorkerStep
  <2>3. CASE MaintenanceStep
    BY <2>3, OtherStepsQuiet DEF MaintenanceStep
  <2>4. CASE UNCHANGED vars
    BY <2>4, OtherStepsQuiet
  <2>. QED BY <2>1, <2>2, <2>3, <2>4 DEF Next
<1>. QED BY <1>1, <1>2, <1>3, <1>4

\* Only SaveResult changes the result of an operation.
LEMMA OnlySaveResult ==
    ASSUME SystemInv, [SystemNext]_sysVars, NEW r \in Request,
           store'[r].result # store[r].result
    PROVE  takeResult(r)
<1> USE DEF SystemInv, SystemTypeOK, sysVars, clientVars
<1>1. CASE UNCHANGED sysVars
  BY <1>1
<1>2. ASSUME ProxyStep PROVE UNCHANGED store
  BY <1>2 DEF ProxyStep, queueStep, cleanup, publishDirect, handleRequest,
              handleAcceptanceACK, handleResultACK, deliverAcceptance, deliverResult
<1>3. ASSUME NEW q \in Request, call(q) \/ resumePending(q)
      PROVE  store'[r].result = store[r].result
  <2>1. SaveOutgoing(q)
    BY <1>3 DEF call, resumePending, beginStart
  <2>. QED BY <2>1 DEF SaveOutgoing
<1>4. ASSUME NEW q \in Request, takeAcceptance(q) \/ resultConfirmed(q)
      PROVE  store'[r].result = store[r].result
  BY <1>4 DEF takeAcceptance, resultConfirmed, MarkAccepted, MarkComplete
<1>5. ASSUME NEW q \in Request, takeResult(q)
      PROVE  q = r
  BY <1>5 DEF takeResult, SaveResult
<1>6. ASSUME NEW q \in Request,
             \/ handleAcceptance(q, "accepted") \/ handleAcceptance(q, "rejected")
             \/ handleResult(q) \/ acceptanceConfirmation(q) \/ resultConfirmation(q)
             \/ launch(q) \/ publishRequest(q) \/ takeRejection(q) \/ ackAcceptance(q)
             \/ acceptanceConfirmed(q) \/ ackResult(q) \/ storeFails(q)
      PROVE  UNCHANGED store
  BY <1>6 DEF handleAcceptance, handleResult, acceptanceConfirmation, resultConfirmation,
              handleConfirmed, launch, publishRequest, takeRejection, ackAcceptance,
              acceptanceConfirmed, ackResult, storeFails
<1>7. ASSUME restart \/ Lose PROVE UNCHANGED store
  BY <1>7 DEF restart, Lose
<1>. QED BY <1>1, <1>2, <1>3, <1>4, <1>5, <1>6, <1>7 DEF SystemNext, ClientStep

\* SavedResponseStands: what SaveResult writes over a saved response is the
\* response of a later life of the request ID, and until there is one the saved
\* response is that of the last exchange.
THEOREM SavedResponseStays == SystemSpec => SavedResponseStands
<1>1. ASSUME SystemInv, SystemInv', [SystemNext]_sysVars, NEW r \in Request,
             store[r].result # Null, store[r].result.state = "http_completed",
             store[r].result.era = era'[r]
      PROVE  store[r].result.exchange = sends'[r]
  <2> DEFINE old == store[r].result
  <2>1. [Next]_vars
    BY <1>1, SystemStepsQueue DEF SystemInv
  <2>2. old \in Result /\ era[r] \in Nat
    BY <1>1 DEF SystemInv, SystemTypeOK, TypeOK
  <2>3. old.era <= era[r] /\ (old.era = era[r] => old \in answers[r])
    BY <1>1 DEF SystemInv, ResultsAgree
  <2>4. /\ era'[r] \in Nat /\ era[r] <= era'[r]
        /\ era'[r] = era[r] => answers[r] \subseteq answers'[r]
    BY <1>1, <2>1, LivesGoOn DEF SystemInv
  <2>5. old.era = era[r] /\ era'[r] = era[r]
    BY <1>1, <2>2, <2>3, <2>4 DEF Result
  <2>6. old \in answers'[r]
    BY <2>3, <2>4, <2>5
  <2>. QED BY <1>1, <2>6 DEF SystemInv, IInv, AnswersOK, Genuine
<1>2. ASSUME SystemInv, [SystemNext]_sysVars, NEW r \in Request,
             store[r].result # Null, store[r].result.state = "http_completed",
             store'[r].result # store[r].result
      PROVE  /\ store'[r].result.state = "http_completed"
             /\ store'[r].result.era > store[r].result.era
  <2> DEFINE old == store[r].result
             new == answer[r]
  <2>1. takeResult(r)
    BY <1>2, OnlySaveResult
  <2>2. new # Null /\ new \in Result /\ old \in Result
    BY <1>2, <2>1 DEF takeResult, SystemInv, SystemTypeOK
  <2>3. store'[r].result = IF KeepsSaved(old, new) THEN old ELSE new
    BY <1>2, <2>1 DEF takeResult, SaveResult, SystemInv, SystemTypeOK
  <2>4. store'[r].result = new /\ new # old /\ new.state # "unknown"
    BY <1>2, <2>3 DEF KeepsSaved
  <2>5. new.state = "http_completed" /\ new.era \in Nat /\ old.era \in Nat
    BY <2>2, <2>4 DEF Result
  <2>6. old.era <= new.era /\ old.era # new.era
    BY <1>2, <2>2, <2>4, <2>5 DEF SystemInv, ResultsAgree
  <2>. QED BY <2>4, <2>5, <2>6
<1>3. SystemInv /\ SystemInv' /\ [SystemNext]_sysVars
        => [\A r \in Request :
              LET old == store[r].result
                  new == store'[r].result
              IN  old # Null /\ old.state = "http_completed" =>
                     /\ new # old => new.state = "http_completed" /\ new.era > old.era
                     /\ old.era = era'[r] => old.exchange = sends'[r]]_sysVars
  BY <1>1, <1>2
<1>. QED BY <1>3, SystemInvariant, PTL DEF SystemSpec, SavedResponseStands

\* The properties of the queue hold in the system: one exchange at a time, within
\* the policy of the request, and one response.
THEOREM QueueKeptInSystem ==
    SystemSpec => [](OneExchange /\ SendsWithinPolicy /\ OneResponse)
BY SystemRefinesQueue, ExchangesExclusive, PolicyRespected, ResponseUnique, PTL
DEF QueueSpec

================================================================================
