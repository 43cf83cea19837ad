------------------------- MODULE OutgoingPromiseProofs -------------------------
(***************************************************************************)
(* OutgoingQueue implements OutgoingPromise: under the mapping that calls  *)
(* a request busy while a worker is in its exchange, every step of the     *)
(* queue is a step of the promise or changes nothing the promise speaks of.*)
(***************************************************************************)
EXTENDS OutgoingQueueProofs

\* A worker inside the exchange holds its row, and the row says so.
LEMMA InExchange ==
    ASSUME IInv, NEW w \in Worker, pc[w] \in {"begun", "http"}
    PROVE  /\ op[w].request \in Request
           /\ Holds(w)
           /\ status[op[w].request] = "dispatching"
           /\ wire[op[w].request] # Null
<1>1. op[w].request \in Request /\ Holds(w)
  BY DEF IInv, PhaseOK, Active, Operation
<1>2. status[op[w].request] = "dispatching"
  BY <1>1 DEF IInv, HolderOK
<1>. QED BY <1>1, <1>2 DEF IInv, RowOK

\* Only a row that is dispatching has an exchange in progress, and then no
\* other worker holds the row.
LEMMA BusyMeansDispatching ==
    ASSUME IInv, NEW r \in Request, Busy(r)
    PROVE  /\ status[r] = "dispatching"
           /\ \A w \in Worker : Holds(w) /\ op[w].request = r => pc[w] = "http"
<1>1. PICK v \in Worker : pc[v] = "http" /\ op[v].request = r
  BY DEF Busy
<1>2. Holds(v) /\ status[r] = "dispatching"
  BY <1>1, InExchange
<1>. QED BY <1>1, <1>2 DEF IInv, TokensOK, Holds

\* A step after which the same workers are in the same exchanges.
LEMMA SameBusy ==
    ASSUME \A w \in Worker : /\ pc'[w] = "http" <=> pc[w] = "http"
                             /\ pc[w] = "http" => op'[w] = op[w]
    PROVE  [r \in Request |-> Busy(r)]' = [r \in Request |-> Busy(r)]
<1>1. ASSUME NEW r \in Request PROVE Busy(r)' = Busy(r)
  BY DEF Busy
<1>. QED BY <1>1

\* A step in which one worker leaves its exchange, or was not in one.
LEMMA LeavesExchange ==
    ASSUME IInv, NEW u \in Worker, pc'[u] # "http",
           \A w \in Worker \ {u} : pc'[w] = pc[w] /\ op'[w] = op[w],
           UNCHANGED <<wire, sends, answers, era>>
    PROVE  [Promise!Next]_(Promise!vars)
<1>1. CASE pc[u] # "http"
  BY <1>1, SameBusy DEF Promise!vars
<1>2. CASE pc[u] = "http"
  <2>0. PICK q \in Request : q = op[u].request
    BY <1>2, InExchange
  <2>1. Busy(q) = TRUE
    BY <1>2, <2>0 DEF Busy
  <2>2. Busy(q)' = FALSE
    <3> SUFFICES ASSUME NEW v \in Worker, pc'[v] = "http", op'[v].request = q
                 PROVE  FALSE
      BY DEF Busy
    <3>1. v # u /\ pc[v] = "http" /\ op[v].request = q
      OBVIOUS
    <3>2. Holds(u) /\ Holds(v)
      BY <1>2, <3>1, InExchange
    <3>. QED BY <2>0, <3>1, <3>2 DEF IInv, TokensOK, Holds
  <2>3. ASSUME NEW r \in Request, r # q PROVE Busy(r)' = Busy(r)
    BY <2>0, <2>3 DEF Busy
  <2>4. [r \in Request |-> Busy(r)]' = [[r \in Request |-> Busy(r)] EXCEPT ![q] = FALSE]
    BY <2>2, <2>3
  <2>5. Promise!EndExchange(q)
    BY <2>1, <2>4 DEF Promise!EndExchange
  <2>. QED BY <2>5 DEF Promise!Next
<1>. QED BY <1>1, <1>2

\* The exchange begins: nobody else is in one for the request, no answer has
\* been given and the policy has an attempt left.
LEMMA SendSends ==
    ASSUME IInv, NEW u \in Worker, SendHTTP(u)
    PROVE  [Promise!Next]_(Promise!vars)
<1> USE DEF SendHTTP, rowVars, deliveryVars
<1>0. PICK q \in Request : q = op[u].request
  BY InExchange
<1>1. Holds(u) /\ status[q] = "dispatching" /\ wire[q] # Null
  BY <1>0, InExchange
<1>2. ~Busy(q)
  BY <1>0, <1>1, BusyMeansDispatching
<1>3. answers[q] = {}
  BY <1>0, <1>1 DEF IInv, AnswersOK, Finished
<1>4. sends[q] < AttemptLimit(wire[q])
  <2>1. wire[q] \in WireSet(Client, Code)
    BY <1>1, WireAssumption DEF IInv, TypeOK
  <2>2. AttemptLimit(wire[q]) \in Nat
    BY <2>1 DEF AttemptLimit, MaxAttempts, WireSet
  <2>3. sends[q] < attempts[q] /\ attempts[q] <= AttemptLimit(wire[q])
    BY <1>0, <1>1 DEF IInv, PhaseOK, AttemptsOK
  <2>. QED BY <2>2, <2>3 DEF IInv, TypeOK
<1>5. [r \in Request |-> Busy(r)]' = [[r \in Request |-> Busy(r)] EXCEPT ![q] = TRUE]
  <2>1. Busy(q)' = TRUE
    BY <1>0 DEF Busy, IInv, TypeOK
  <2>2. ASSUME NEW r \in Request, r # q PROVE Busy(r)' = Busy(r)
    BY <1>0, <2>2 DEF Busy, IInv, TypeOK
  <2>. QED BY <2>1, <2>2
<1>6. [r \in Request |-> Busy(r)][q] = FALSE
  BY <1>2 DEF Busy
<1>7. sends' = [sends EXCEPT ![q] = @ + 1] /\ UNCHANGED <<wire, answers, era>>
  BY <1>0
<1>8. sends[q] < Promise!AttemptLimit(wire[q])
  BY <1>4 DEF AttemptLimit, MaxAttempts, Promise!AttemptLimit, Promise!MaxAttempts
<1>9. Promise!Send(q)
  <2> HIDE DEF SendHTTP, rowVars, deliveryVars
  <2>. QED BY <1>1, <1>3, <1>5, <1>6, <1>7, <1>8, Zenon DEF Promise!Send
<1>. QED BY <1>9 DEF Promise!Next

\* A genuine result of a request without an exchange is an answer.
LEMMA GenuineAnswers ==
    ASSUME IInv, NEW r \in Request, NEW res, Genuine(r, res), ~Busy(r),
           status[r] # "absent",
           answers' = [answers EXCEPT ![r] = @ \cup {res}],
           [s \in Request |-> Busy(s)]' = [s \in Request |-> Busy(s)],
           UNCHANGED <<wire, sends, era>>
    PROVE  Promise!Next
<1>1. wire[r] # Null
  BY DEF IInv, RowOK
<1>2. \/ res = [state |-> "unknown", era |-> era[r], exchange |-> 0]
      \/ /\ sends[r] > 0
         /\ res = [state |-> "http_completed", era |-> era[r], exchange |-> sends[r]]
  BY DEF Genuine, Result
<1>3. res \in Promise!AnswerSet(r)
  BY <1>2 DEF Promise!AnswerSet
<1>4. Promise!Answer(r, res)
  BY <1>1, <1>2 DEF Promise!Answer
<1>. QED BY <1>3, <1>4 DEF Promise!Next

\* Every step of the handlers is a step of the promise.
LEMMA HandlersKeepPromise ==
    ASSUME IInv, HandlerStep
    PROVE  [Promise!Next]_(Promise!vars)
<1> USE DEF rowVars, deliveryVars, workerVars, historyVars
<1>1. PICK r \in Request :
          \/ \E x \in Wire : InsertRequest(r, x) \/ ReopenDeliveries(r, x)
          \/ \E c \in Client : ConfirmAcceptance(r, c) \/ ConfirmResult(r, c)
          \/ DeliverResult(r)
  BY DEF HandlerStep, AcceptHTTPRequest
<1>2. [s \in Request |-> Busy(s)]' = [s \in Request |-> Busy(s)]
  <2>1. UNCHANGED <<pc, op>>
    BY <1>1 DEF InsertRequest, ReopenDeliveries, ConfirmAcceptance, ConfirmResult,
                DeliverResult
  <2>. QED BY <2>1, SameBusy
<1>3. ASSUME NEW x \in Wire, InsertRequest(r, x) PROVE Promise!Next
  <2>1. Promise!Accept(r, x)
    BY <1>2, <1>3 DEF InsertRequest, Promise!Accept, IInv, RowOK
  <2>. QED BY <2>1 DEF Promise!Next
<1>4. CASE \/ \E x \in Wire : ReopenDeliveries(r, x)
           \/ \E c \in Client : ConfirmAcceptance(r, c) \/ ConfirmResult(r, c)
  BY <1>2, <1>4 DEF ReopenDeliveries, ConfirmAcceptance, ConfirmResult, Promise!vars
<1>5. CASE DeliverResult(r)
  <2>1. status[r] \in Finished /\ Genuine(r, payload[r])
    BY <1>5 DEF DeliverResult, IInv, RowOK
  <2>2. ~Busy(r)
    BY <2>1, BusyMeansDispatching DEF Finished
  <2>. QED BY <1>2, <1>5, <2>1, <2>2, GenuineAnswers DEF DeliverResult, Finished
<1>. QED BY <1>1, <1>3, <1>4, <1>5

\* Every step of a worker is a step of the promise.
LEMMA WorkersKeepPromise ==
    ASSUME IInv, NEW w \in Worker, WorkerStep(w) \/ Stop(w)
    PROVE  [Promise!Next]_(Promise!vars)
<1> USE DEF rowVars, deliveryVars, workerVars, historyVars
<1>1. CASE \/ \E r \in Request, t \in Token : ReserveRequest(w, r, t)
           \/ ReleaseReserved(w) \/ BeginDispatch(w) \/ DispatchRefused(w)
           \/ HTTPFails(w) \/ (\E code \in Code : HTTPResponds(w, code))
           \/ ScheduleRetry(w) \/ SaveHTTPResult(w) \/ Stop(w)
  <2>1. /\ pc'[w] # "http"
        /\ \A v \in Worker \ {w} : pc'[v] = pc[v] /\ op'[v] = op[v]
    BY <1>1 DEF ReserveRequest, ReleaseReserved, BeginDispatch, DispatchRefused,
                HTTPFails, HTTPResponds, ScheduleRetry, SaveHTTPResult, Stop,
                WorkerReturns, IInv, TypeOK
  <2>2. UNCHANGED <<wire, sends, answers, era>>
    BY <1>1 DEF ReserveRequest, ReleaseReserved, BeginDispatch, DispatchRefused,
                HTTPFails, HTTPResponds, ScheduleRetry, SaveHTTPResult, Stop
  <2>. QED BY <2>1, <2>2, LeavesExchange
<1>2. CASE SendHTTP(w)
  BY <1>2, SendSends
<1>3. ASSUME NEW sent \in BOOLEAN, PublishHTTPResult(w, sent)
      PROVE  [Promise!Next]_(Promise!vars)
  <2> DEFINE q == op[w].request
  <2>1. [s \in Request |-> Busy(s)]' = [s \in Request |-> Busy(s)]
    BY <1>3, SameBusy DEF PublishHTTPResult, IInv, TypeOK
  <2>2. CASE ~sent
    BY <1>3, <2>1, <2>2 DEF PublishHTTPResult, Promise!vars
  <2>3. CASE sent
    <3>1. /\ q \in Request
          /\ Genuine(q, outcome[w])
          /\ Holds(w) \/ status[q] \in Finished
      BY <1>3 DEF PublishHTTPResult, IInv, PhaseOK, Active, Operation
    <3>2. ~Busy(q)
      BY <1>3, <3>1, BusyMeansDispatching DEF PublishHTTPResult, Finished
    <3>3. status[q] # "absent"
      BY <1>3, <3>1 DEF PublishHTTPResult, IInv, HolderOK, Finished
    <3>. QED BY <1>3, <2>1, <2>3, <3>1, <3>2, <3>3, GenuineAnswers
             DEF PublishHTTPResult
  <2>. QED BY <2>2, <2>3
<1>. QED BY <1>1, <1>2, <1>3 DEF WorkerStep, SilentStep

\* Every pass of the maintenance loop is a step of the promise.
LEMMA MaintenanceKeepsPromise ==
    ASSUME IInv, MaintenanceStep
    PROVE  [Promise!Next]_(Promise!vars)
<1> USE DEF rowVars, deliveryVars, workerVars, historyVars
<1>1. [s \in Request |-> Busy(s)]' = [s \in Request |-> Busy(s)]
  <2>1. UNCHANGED <<pc, op>>
    BY DEF MaintenanceStep, RecoverExpiredDispatches, Cleanup
  <2>. QED BY <2>1, SameBusy
<1>2. ASSUME NEW S \in SUBSET Request, RecoverExpiredDispatches(S)
      PROVE  UNCHANGED Promise!vars
  BY <1>1, <1>2 DEF RecoverExpiredDispatches, Promise!vars
<1>3. ASSUME NEW S \in SUBSET Request, Cleanup(S) PROVE Promise!Next
  <2>1. ASSUME NEW r \in S PROVE wire[r] # Null /\ ~Busy(r)
    BY <1>3, BusyMeansDispatching DEF Cleanup, IInv, RowOK
  <2>2. Promise!Forget(S)
    BY <1>1, <1>3, <2>1 DEF Cleanup, Promise!Forget
  <2>. QED BY <2>2 DEF Promise!Next
<1>. QED BY <1>2, <1>3 DEF MaintenanceStep

\* The queue of leases, tokens, retries, recoveries and cleanups implements the
\* promise made about a request ID.
THEOREM QueueKeepsPromise == Spec => KeepsPromise
<1>1. Init => Promise!Init
  BY DEF Init, Promise!Init, Busy
<1>2. IInv /\ [Next]_vars => [Promise!Next]_(Promise!vars)
  <2> SUFFICES ASSUME IInv, [Next]_vars PROVE [Promise!Next]_(Promise!vars)
    OBVIOUS
  <2>1. CASE UNCHANGED vars
    BY <2>1, SameBusy DEF vars, rowVars, deliveryVars, workerVars, historyVars,
                          Promise!vars
  <2>. QED BY <2>1, HandlersKeepPromise, WorkersKeepPromise,
              MaintenanceKeepsPromise DEF Next
<1>. QED BY <1>1, <1>2, Invariant, PTL DEF Spec, KeepsPromise, Promise!Spec

================================================================================
