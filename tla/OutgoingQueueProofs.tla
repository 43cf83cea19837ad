-------------------------- MODULE OutgoingQueueProofs --------------------------
(***************************************************************************)
(* Proofs about OutgoingQueue, for every set of requests, workers, tokens, *)
(* clients and contents: the invariant IInv is inductive (one lemma per    *)
(* action, one step per conjunct), and the safety properties follow.       *)
(***************************************************************************)
EXTENDS OutgoingQueue, TLAPS

\* A first request: the ID had no row, so no worker and no answer of this life
\* refers to it.
LEMMA InsertRequestStep ==
    ASSUME IInv, NEW r \in Request, NEW x \in Wire, InsertRequest(r, x)
    PROVE  IInv'
<1> USE DEF IInv, InsertRequest
<1>1. TypeOK'
  BY DEF TypeOK, RowStatus, DeliveryState, workerVars, historyVars
<1>2. TokensOK'
  BY DEF TokensOK, Active, workerVars
<1>3. ASSUME NEW s \in Request PROVE RowOK(s)'
  BY NullAssumption DEF RowOK, Genuine, TypeOK, Finished, historyVars
<1>4. ASSUME NEW s \in Request PROVE AttemptsOK(s)'
  BY WireAssumption
  DEF RowOK, AttemptsOK, AttemptLimit, MaxAttempts, TypeOK, WireSet,
      historyVars
<1>5. ASSUME NEW s \in Request PROVE AnswersOK(s)'
  BY DEF AnswersOK, Genuine, Holds, Active, Finished, workerVars, historyVars
<1>6. ASSUME NEW w \in Worker PROVE HolderOK(w)'
  BY DEF HolderOK, Holds, Active, workerVars, historyVars
<1>7. ASSUME NEW w \in Worker PROVE PhaseOK(w)'
  BY DEF PhaseOK, Genuine, Holds, Active, Finished, workerVars, historyVars
<1>. QED BY <1>1, <1>2, <1>3, <1>4, <1>5, <1>6, <1>7

\* A repeated request touches deliveries only, and creates none.
LEMMA ReopenDeliveriesStep ==
    ASSUME IInv, NEW r \in Request, NEW x \in Wire, ReopenDeliveries(r, x)
    PROVE  IInv'
<1> USE DEF IInv, ReopenDeliveries
<1>1. TypeOK'
  BY DEF TypeOK, RowStatus, DeliveryState, rowVars, workerVars, historyVars
<1>2. TokensOK'
  BY DEF TokensOK, Active, workerVars
<1>3. ASSUME NEW s \in Request PROVE RowOK(s)'
  BY NullAssumption DEF RowOK, Genuine, TypeOK, Finished, rowVars, historyVars
<1>4. ASSUME NEW s \in Request PROVE AttemptsOK(s)'
  BY WireAssumption
  DEF RowOK, AttemptsOK, AttemptLimit, MaxAttempts, TypeOK, WireSet, rowVars,
      historyVars
<1>5. ASSUME NEW s \in Request PROVE AnswersOK(s)'
  BY DEF AnswersOK, Genuine, Holds, Active, Finished, rowVars, workerVars,
         historyVars
<1>6. ASSUME NEW w \in Worker PROVE HolderOK(w)'
  BY DEF HolderOK, Holds, Active, rowVars, workerVars, historyVars
<1>7. ASSUME NEW w \in Worker PROVE PhaseOK(w)'
  BY DEF PhaseOK, Genuine, Holds, Active, Finished, rowVars, workerVars,
         historyVars
<1>. QED BY <1>1, <1>2, <1>3, <1>4, <1>5, <1>6, <1>7

\* The acceptance ACK opens a row to the workers, or changes nothing but the
\* delivery.
LEMMA ConfirmAcceptanceStep ==
    ASSUME IInv, NEW r \in Request, NEW c \in Client, ConfirmAcceptance(r, c)
    PROVE  IInv'
<1> USE DEF IInv, ConfirmAcceptance
<1>1. TypeOK'
  BY DEF TypeOK, RowStatus, DeliveryState, workerVars, historyVars
<1>2. TokensOK'
  BY DEF TokensOK, Active, workerVars
<1>3. ASSUME NEW s \in Request PROVE RowOK(s)'
  BY NullAssumption DEF RowOK, Genuine, TypeOK, Finished, historyVars
<1>4. ASSUME NEW s \in Request PROVE AttemptsOK(s)'
  BY WireAssumption
  DEF RowOK, AttemptsOK, AttemptLimit, MaxAttempts, TypeOK, WireSet,
      historyVars
<1>5. ASSUME NEW s \in Request PROVE AnswersOK(s)'
  BY DEF AnswersOK, Genuine, Holds, Active, Finished, workerVars, historyVars
<1>6. ASSUME NEW w \in Worker PROVE HolderOK(w)'
  BY DEF HolderOK, Holds, Active, workerVars, historyVars
<1>7. ASSUME NEW w \in Worker PROVE PhaseOK(w)'
  BY DEF PhaseOK, Genuine, Holds, Active, Finished, workerVars, historyVars
<1>. QED BY <1>1, <1>2, <1>3, <1>4, <1>5, <1>6, <1>7

\* The result ACK moves a finished row to result_delivered.
LEMMA ConfirmResultStep ==
    ASSUME IInv, NEW r \in Request, NEW c \in Client, ConfirmResult(r, c)
    PROVE  IInv'
<1> USE DEF IInv, ConfirmResult
<1>1. TypeOK'
  BY DEF TypeOK, RowStatus, Finished, DeliveryState, workerVars, historyVars
<1>2. TokensOK'
  BY DEF TokensOK, Active, workerVars
<1>3. ASSUME NEW s \in Request PROVE RowOK(s)'
  BY NullAssumption DEF RowOK, Genuine, TypeOK, Finished, historyVars
<1>4. ASSUME NEW s \in Request PROVE AttemptsOK(s)'
  BY WireAssumption
  DEF RowOK, AttemptsOK, AttemptLimit, MaxAttempts, TypeOK, WireSet,
      historyVars
<1>5. ASSUME NEW s \in Request PROVE AnswersOK(s)'
  BY DEF AnswersOK, Genuine, Holds, Active, Finished, workerVars, historyVars
<1>6. ASSUME NEW w \in Worker PROVE HolderOK(w)'
  BY DEF HolderOK, Holds, Active, workerVars, historyVars
<1>7. ASSUME NEW w \in Worker PROVE PhaseOK(w)'
  BY DEF PhaseOK, Genuine, Holds, Active, Finished, workerVars, historyVars
<1>. QED BY <1>1, <1>2, <1>3, <1>4, <1>5, <1>6, <1>7

\* The delivery loop publishes the payload, which RowOK says is genuine.
LEMMA DeliverResultStep ==
    ASSUME IInv, NEW r \in Request, DeliverResult(r)
    PROVE  IInv'
<1> USE DEF IInv, DeliverResult
<1>1. TypeOK'
  BY DEF TypeOK, RowOK, Genuine, rowVars, deliveryVars, workerVars
<1>2. TokensOK'
  BY DEF TokensOK, Active, workerVars
<1>3. ASSUME NEW s \in Request PROVE RowOK(s)'
  BY NullAssumption
  DEF RowOK, Genuine, TypeOK, Finished, rowVars, deliveryVars
<1>4. ASSUME NEW s \in Request PROVE AttemptsOK(s)'
  BY WireAssumption
  DEF RowOK, AttemptsOK, AttemptLimit, MaxAttempts, TypeOK, WireSet, rowVars
<1>5. ASSUME NEW s \in Request PROVE AnswersOK(s)'
  BY DEF RowOK, AnswersOK, Genuine, Holds, Active, rowVars, workerVars
<1>6. ASSUME NEW w \in Worker PROVE HolderOK(w)'
  BY DEF HolderOK, Holds, Active, rowVars, workerVars
<1>7. ASSUME NEW w \in Worker PROVE PhaseOK(w)'
  BY DEF PhaseOK, Genuine, Holds, Active, Finished, rowVars, workerVars
<1>. QED BY <1>1, <1>2, <1>3, <1>4, <1>5, <1>6, <1>7

\* A reservation: the token is fresh, so no other worker can own the row.
LEMMA ReserveRequestStep ==
    ASSUME IInv, NEW u \in Worker, NEW r \in Request, NEW t \in Token,
           ReserveRequest(u, r, t)
    PROVE  IInv'
<1> USE DEF IInv, ReserveRequest
<1>1. TypeOK'
  BY DEF TypeOK, RowStatus, Finished, WorkerPC, Operation, RowOK,
         deliveryVars, historyVars
<1>2. TokensOK'
  BY DEF TokensOK, Active, TypeOK, FreshToken
<1>3. ASSUME NEW s \in Request PROVE RowOK(s)'
  BY NullAssumption
  DEF RowOK, Genuine, TypeOK, Finished, deliveryVars, historyVars
<1>4. ASSUME NEW s \in Request PROVE AttemptsOK(s)'
  BY WireAssumption
  DEF RowOK, AttemptsOK, AttemptLimit, MaxAttempts, TypeOK, WireSet,
      historyVars
<1>5. ASSUME NEW s \in Request PROVE AnswersOK(s)'
  BY DEF AnswersOK, Genuine, Holds, Active, TypeOK, Finished, historyVars
<1>6. ASSUME NEW w \in Worker PROVE HolderOK(w)'
  BY NullAssumption
  DEF HolderOK, PhaseOK, Operation, Holds, Active, TypeOK, FreshToken,
      historyVars
<1>7. ASSUME NEW w \in Worker PROVE PhaseOK(w)'
  BY NullAssumption
  DEF RowOK, PhaseOK, Operation, Genuine, Holds, Active, TypeOK, Finished,
      historyVars
<1>. QED BY <1>1, <1>2, <1>3, <1>4, <1>5, <1>6, <1>7

\* A reservation is given back, or left to its lease.
LEMMA ReleaseReservedStep ==
    ASSUME IInv, NEW u \in Worker, ReleaseReserved(u)
    PROVE  IInv'
<1> USE DEF IInv, ReleaseReserved
<1>1. TypeOK'
  BY DEF TypeOK, RowStatus, Finished, WorkerPC, Operation, WorkerReturns,
         deliveryVars, historyVars
<1>2. TokensOK'
  BY DEF TokensOK, Active, TypeOK, WorkerReturns
<1>3. ASSUME NEW s \in Request PROVE RowOK(s)'
  BY NullAssumption
  DEF RowOK, Genuine, TypeOK, Finished, Owns, deliveryVars, historyVars
<1>4. ASSUME NEW s \in Request PROVE AttemptsOK(s)'
  BY WireAssumption
  DEF RowOK, AttemptsOK, AttemptLimit, MaxAttempts, TypeOK, WireSet, Owns,
      historyVars
<1>5. ASSUME NEW s \in Request PROVE AnswersOK(s)'
  BY NullAssumption
  DEF AnswersOK, TokensOK, Genuine, Holds, Active, TypeOK, Finished, Owns,
      WorkerReturns, historyVars
<1>6. ASSUME NEW w \in Worker PROVE HolderOK(w)'
  BY NullAssumption
  DEF HolderOK, PhaseOK, Operation, Holds, Active, TypeOK, WorkerReturns,
      historyVars
<1>7. ASSUME NEW w \in Worker PROVE PhaseOK(w)'
  BY DEF PhaseOK, TokensOK, Operation, Genuine, Holds, Active, TypeOK,
         Finished, Owns, WorkerReturns, historyVars
<1>. QED BY <1>1, <1>2, <1>3, <1>4, <1>5, <1>6, <1>7

\* The attempt is counted in the transaction that marks the row dispatching.
LEMMA BeginDispatchStep ==
    ASSUME IInv, NEW u \in Worker, BeginDispatch(u)
    PROVE  IInv'
<1> USE DEF IInv, BeginDispatch
<1> USE DEF rowVars, deliveryVars, workerVars, historyVars
<1>0. /\ op[u] \in Operation /\ Holds(u) /\ op[u].request \in Request
      /\ \A v \in Worker : Holds(v) /\ op[v].request = op[u].request => v = u
  BY DEF PhaseOK, Active, Owns, Operation, Holds, TokensOK
<1>1. TypeOK'
  BY <1>0 DEF TypeOK, RowStatus, WorkerPC, WorkerReturns
<1>2. TokensOK'
  BY DEF TokensOK, Active, TypeOK, WorkerReturns
<1>3. ASSUME NEW s \in Request PROVE RowOK(s)'
  BY NullAssumption
  DEF RowOK, Genuine, TypeOK, Finished, Owns, deliveryVars, historyVars
<1>4. ASSUME NEW s \in Request PROVE AttemptsOK(s)'
  BY WireAssumption
  DEF RowOK, AttemptsOK, AttemptLimit, MaxAttempts, TypeOK, WireSet, Owns,
      historyVars
<1>5. ASSUME NEW s \in Request PROVE AnswersOK(s)'
  <2>1. answers'[s] = answers[s] /\ \A res \in answers[s] : Genuine(s, res)' <=> Genuine(s, res)
    BY DEF Genuine
  <2>2. CASE s = op[u].request
    BY <1>0, <2>1, <2>2 DEF AnswersOK, Finished, Owns
  <2>3. CASE s # op[u].request
    BY <1>0, <2>1, <2>3 DEF AnswersOK, Finished, Owns, Holds, Active, TypeOK, WorkerReturns
  <2>. QED BY <2>2, <2>3
<1>6. ASSUME NEW w \in Worker PROVE HolderOK(w)'
  BY DEF HolderOK, PhaseOK, TokensOK, Operation, Holds, Active, TypeOK, Owns,
         WorkerReturns, historyVars
<1>7. ASSUME NEW w \in Worker PROVE PhaseOK(w)'
  BY DEF PhaseOK, AttemptsOK, Operation, Genuine, Holds, Active, TypeOK,
         Finished, Result, Owns, WorkerReturns, historyVars
<1>. QED BY <1>1, <1>2, <1>3, <1>4, <1>5, <1>6, <1>7

\* A worker that has lost its row forgets it.
LEMMA DispatchRefusedStep ==
    ASSUME IInv, NEW u \in Worker, DispatchRefused(u)
    PROVE  IInv'
<1> USE DEF IInv, DispatchRefused
<1>1. TypeOK'
  BY DEF TypeOK, RowStatus, Finished, WorkerPC, Operation, WorkerReturns,
         rowVars, deliveryVars, historyVars
<1>2. TokensOK'
  BY DEF TokensOK, Active, TypeOK, WorkerReturns
<1>3. ASSUME NEW s \in Request PROVE RowOK(s)'
  BY NullAssumption
  DEF RowOK, Genuine, TypeOK, Finished, rowVars, deliveryVars, historyVars
<1>4. ASSUME NEW s \in Request PROVE AttemptsOK(s)'
  BY WireAssumption
  DEF RowOK, AttemptsOK, AttemptLimit, MaxAttempts, TypeOK, WireSet, rowVars,
      historyVars
<1>5. ASSUME NEW s \in Request PROVE AnswersOK(s)'
  BY DEF AnswersOK, Genuine, Holds, Active, TypeOK, Finished, WorkerReturns,
         rowVars, historyVars
<1>6. ASSUME NEW w \in Worker PROVE HolderOK(w)'
  BY NullAssumption
  DEF HolderOK, PhaseOK, Operation, Holds, Active, TypeOK, WorkerReturns,
      rowVars, historyVars
<1>7. ASSUME NEW w \in Worker PROVE PhaseOK(w)'
  BY NullAssumption
  DEF RowOK, PhaseOK, Operation, Genuine, Holds, Active, TypeOK, Finished,
      WorkerReturns, rowVars, historyVars
<1>. QED BY <1>1, <1>2, <1>3, <1>4, <1>5, <1>6, <1>7

\* The exchange starts: the attempt that BeginDispatch counted is used up.
LEMMA SendHTTPStep ==
    ASSUME IInv, NEW u \in Worker, SendHTTP(u)
    PROVE  IInv'
<1> USE DEF IInv, SendHTTP
<1>1. TypeOK'
  BY DEF TypeOK, WorkerPC, Operation, PhaseOK, Active, rowVars, deliveryVars
<1>2. TokensOK'
  BY DEF TokensOK, Active
<1>3. ASSUME NEW s \in Request PROVE RowOK(s)'
  BY DEF RowOK, PhaseOK, HolderOK, Genuine, Finished, rowVars, deliveryVars
<1>4. ASSUME NEW s \in Request PROVE AttemptsOK(s)'
  BY DEF AttemptsOK, PhaseOK, TypeOK, rowVars
<1>5. ASSUME NEW s \in Request PROVE AnswersOK(s)'
  BY DEF AnswersOK, PhaseOK, HolderOK, Genuine, Holds, Active, Finished,
         rowVars
<1>6. ASSUME NEW w \in Worker PROVE HolderOK(w)'
  BY DEF HolderOK, Holds, Active, rowVars
<1>7. ASSUME NEW w \in Worker PROVE PhaseOK(w)'
  BY DEF HolderOK, PhaseOK, TokensOK, Operation, Genuine, Holds, Active,
         TypeOK, Finished, rowVars
<1>. QED BY <1>1, <1>2, <1>3, <1>4, <1>5, <1>6, <1>7

\* A failed exchange is repeated within the policy or becomes unknown.
LEMMA HTTPFailsStep ==
    ASSUME IInv, NEW u \in Worker, HTTPFails(u)
    PROVE  IInv'
<1> USE DEF IInv, HTTPFails
<1>1. TypeOK'
  BY DEF TypeOK, Finished, DeliveryState, WorkerPC, Result, Operation,
         PhaseOK, Active, canRetry, Unknown, rowVars, deliveryVars,
         historyVars
<1>2. TokensOK'
  BY DEF TokensOK, Active, TypeOK, canRetry
<1>3. ASSUME NEW s \in Request PROVE RowOK(s)'
  BY NullAssumption
  DEF RowOK, Genuine, TypeOK, Finished, rowVars, deliveryVars, historyVars
<1>4. ASSUME NEW s \in Request PROVE AttemptsOK(s)'
  BY DEF AttemptsOK, PhaseOK, TypeOK, rowVars, historyVars
<1>5. ASSUME NEW s \in Request PROVE AnswersOK(s)'
  BY DEF AnswersOK, Genuine, Holds, Active, TypeOK, Finished, canRetry,
         rowVars, historyVars
<1>6. ASSUME NEW w \in Worker PROVE HolderOK(w)'
  BY NullAssumption
  DEF HolderOK, PhaseOK, Operation, Holds, Active, TypeOK, canRetry, rowVars,
      historyVars
<1>7. ASSUME NEW w \in Worker PROVE PhaseOK(w)'
  BY DEF HolderOK, PhaseOK, Operation, Genuine, Holds, Active, TypeOK, Result,
         AttemptLimit, canRetry, Unknown, rowVars, historyVars
<1>. QED BY <1>1, <1>2, <1>3, <1>4, <1>5, <1>6, <1>7

\* A response is repeated within the policy or becomes the result.
LEMMA HTTPRespondsStep ==
    ASSUME IInv, NEW u \in Worker, NEW code \in Code, HTTPResponds(u, code)
    PROVE  IInv'
<1> USE DEF IInv, HTTPResponds
<1>1. TypeOK'
  BY DEF TypeOK, WorkerPC, Result, Operation, PhaseOK, Active, canRetry,
         Completed, rowVars, deliveryVars, historyVars
<1>2. TokensOK'
  BY DEF TokensOK, Active, TypeOK, canRetry
<1>3. ASSUME NEW s \in Request PROVE RowOK(s)'
  BY NullAssumption
  DEF RowOK, Genuine, TypeOK, Finished, rowVars, deliveryVars, historyVars
<1>4. ASSUME NEW s \in Request PROVE AttemptsOK(s)'
  BY DEF AttemptsOK, PhaseOK, TypeOK, rowVars, historyVars
<1>5. ASSUME NEW s \in Request PROVE AnswersOK(s)'
  BY DEF AnswersOK, Genuine, Holds, Active, TypeOK, Finished, canRetry,
         rowVars, historyVars
<1>6. ASSUME NEW w \in Worker PROVE HolderOK(w)'
  BY NullAssumption
  DEF HolderOK, PhaseOK, Operation, Holds, Active, TypeOK, canRetry, rowVars,
      historyVars
<1>7. ASSUME NEW w \in Worker PROVE PhaseOK(w)'
  BY DEF HolderOK, PhaseOK, Operation, Genuine, Holds, Active, TypeOK, Result,
         AttemptLimit, canRetry, Completed, rowVars, historyVars
<1>. QED BY <1>1, <1>2, <1>3, <1>4, <1>5, <1>6, <1>7

\* The row waits for its next attempt, which the policy still allows.
LEMMA ScheduleRetryStep ==
    ASSUME IInv, NEW u \in Worker, ScheduleRetry(u)
    PROVE  IInv'
<1> USE DEF IInv, ScheduleRetry
<1>1. TypeOK'
  BY DEF TypeOK, RowStatus, Finished, WorkerPC, Operation, Owns,
         WorkerReturns, deliveryVars, historyVars
<1>2. TokensOK'
  BY DEF TokensOK, Active, TypeOK, WorkerReturns
<1>3. ASSUME NEW s \in Request PROVE RowOK(s)'
  BY NullAssumption
  DEF RowOK, Genuine, TypeOK, Finished, Owns, deliveryVars, historyVars
<1>4. ASSUME NEW s \in Request PROVE AttemptsOK(s)'
  BY DEF AttemptsOK, PhaseOK, HolderOK, Holds, TypeOK, Active, Owns,
         historyVars
<1>5. ASSUME NEW s \in Request PROVE AnswersOK(s)'
  BY DEF AnswersOK, Genuine, Holds, Active, TypeOK, Finished, Owns,
         WorkerReturns, historyVars
<1>6. ASSUME NEW w \in Worker PROVE HolderOK(w)'
  BY NullAssumption
  DEF HolderOK, PhaseOK, Operation, Holds, Active, TypeOK, WorkerReturns,
      historyVars
<1>7. ASSUME NEW w \in Worker PROVE PhaseOK(w)'
  BY DEF HolderOK, PhaseOK, TokensOK, Operation, Genuine, Holds, Active,
         TypeOK, Finished, Owns, WorkerReturns, historyVars
<1>. QED BY <1>1, <1>2, <1>3, <1>4, <1>5, <1>6, <1>7

\* The result is published while the worker owns the row, or after the row has
\* been finished.
LEMMA PublishHTTPResultStep ==
    ASSUME IInv, NEW u \in Worker, NEW sent \in BOOLEAN,
           PublishHTTPResult(u, sent)
    PROVE  IInv'
<1> USE DEF IInv, PublishHTTPResult
<1>1. TypeOK'
  BY DEF TypeOK, WorkerPC, Operation, PhaseOK, Active, rowVars, deliveryVars
<1>2. TokensOK'
  BY DEF TokensOK, Active
<1>3. ASSUME NEW s \in Request PROVE RowOK(s)'
  BY NullAssumption
  DEF RowOK, Genuine, TypeOK, Finished, rowVars, deliveryVars
<1>4. ASSUME NEW s \in Request PROVE AttemptsOK(s)'
  BY DEF AttemptsOK, PhaseOK, TypeOK, rowVars
<1>5. ASSUME NEW s \in Request PROVE AnswersOK(s)'
  BY DEF AnswersOK, PhaseOK, HolderOK, TokensOK, Genuine, Holds, Active,
         TypeOK, rowVars
<1>6. ASSUME NEW w \in Worker PROVE HolderOK(w)'
  BY DEF HolderOK, Holds, Active, rowVars
<1>7. ASSUME NEW w \in Worker PROVE PhaseOK(w)'
  BY DEF PhaseOK, Genuine, Holds, Active, Finished, rowVars
<1>. QED BY <1>1, <1>2, <1>3, <1>4, <1>5, <1>6, <1>7

\* The save finishes the worker's own row, or finds it finished.
LEMMA SaveHTTPResultStep ==
    ASSUME IInv, NEW u \in Worker, SaveHTTPResult(u)
    PROVE  IInv'
<1> USE DEF IInv, SaveHTTPResult
<1> USE DEF rowVars, deliveryVars, workerVars, historyVars
<1>0. /\ op[u] \in Operation /\ op[u].request \in Request
      /\ outcome[u] \in Result /\ outcome[u].state \in {"http_completed", "unknown"}
      /\ pc[u] = "save"
      /\ Owns(u, "dispatching") => Holds(u)
  BY DEF PhaseOK, Active, Owns, Operation, Holds, Result
<1>1. TypeOK'
  <2>1. UNCHANGED <<pc, op, outcome>> \/ WorkerReturns(u)
    OBVIOUS
  <2>2. /\ pc' \in [Worker -> WorkerPC] /\ op' \in [Worker -> Operation \cup {Null}]
        /\ outcome' \in [Worker -> Result \cup {Null}]
    BY <2>1 DEF TypeOK, WorkerPC, WorkerReturns
  <2>3. /\ status' \in [Request -> RowStatus] /\ result' \in [Request -> Result \cup {Null}]
        /\ token' \in [Request -> Token \cup {Null}]
    BY <1>0 DEF TypeOK, RowStatus, Finished
  <2>4. /\ delivery' \in [Request -> DeliveryState] /\ payload' \in [Request -> Result \cup {Null}]
    BY <1>0 DEF TypeOK, InsertResultDelivery, DeliveryState
  <2>. QED BY <2>2, <2>3, <2>4 DEF TypeOK
<1>8. \A s \in Request : status'[s] \in Finished \/ status'[s] = status[s]
  BY <1>0 DEF TypeOK, Finished
<1>2. TokensOK'
  BY DEF TokensOK, Active, TypeOK, WorkerReturns, workerVars
<1>3. ASSUME NEW s \in Request PROVE RowOK(s)'
  BY DEF RowOK, PhaseOK, HolderOK, Holds, Genuine, TypeOK, Finished, Active,
         Result, AlreadySaved, Owns, InsertResultDelivery, historyVars
<1>4. ASSUME NEW s \in Request PROVE AttemptsOK(s)'
  BY <1>8 DEF AttemptsOK, Finished
<1>5. ASSUME NEW s \in Request PROVE AnswersOK(s)'
  <2>1. answers'[s] = answers[s] /\ \A res \in answers[s] : Genuine(s, res)' <=> Genuine(s, res)
    BY DEF Genuine
  <2>2. \A v \in Worker : Holds(v)' => Holds(v) /\ op'[v] = op[v] /\ pc'[v] = pc[v]
     BY <1>0, NullAssumption DEF Holds, Active, TypeOK, WorkerReturns, Owns, PhaseOK, Operation
  <2>. QED BY <1>8, <2>1, <2>2 DEF AnswersOK, TypeOK
<1>6. ASSUME NEW w \in Worker PROVE HolderOK(w)'
  BY NullAssumption
  DEF HolderOK, PhaseOK, Operation, Holds, Active, TypeOK, WorkerReturns,
      workerVars, historyVars
<1>7. ASSUME NEW w \in Worker PROVE PhaseOK(w)'
  BY DEF PhaseOK, TokensOK, Operation, Genuine, Holds, Active, TypeOK,
         Finished, Result, Owns, WorkerReturns, workerVars, historyVars
<1>. QED BY <1>1, <1>2, <1>3, <1>4, <1>5, <1>6, <1>7

\* A worker dies at any point; its row stays as it is.
LEMMA StopStep ==
    ASSUME IInv, NEW u \in Worker, Stop(u)
    PROVE  IInv'
<1> USE DEF IInv, Stop
<1>1. TypeOK'
  BY DEF TypeOK, WorkerPC, Operation, PhaseOK, Active, WorkerReturns, rowVars,
         deliveryVars, historyVars
<1>2. TokensOK'
  BY DEF TokensOK, Active, TypeOK, WorkerReturns
<1>3. ASSUME NEW s \in Request PROVE RowOK(s)'
  BY NullAssumption
  DEF RowOK, Genuine, TypeOK, Finished, rowVars, deliveryVars, historyVars
<1>4. ASSUME NEW s \in Request PROVE AttemptsOK(s)'
  BY DEF AttemptsOK, PhaseOK, TypeOK, rowVars, historyVars
<1>5. ASSUME NEW s \in Request PROVE AnswersOK(s)'
  BY DEF AnswersOK, Genuine, Holds, Active, TypeOK, Finished, WorkerReturns,
         rowVars, historyVars
<1>6. ASSUME NEW w \in Worker PROVE HolderOK(w)'
  BY NullAssumption
  DEF HolderOK, PhaseOK, Operation, Holds, Active, TypeOK, WorkerReturns,
      rowVars, historyVars
<1>7. ASSUME NEW w \in Worker PROVE PhaseOK(w)'
  BY NullAssumption
  DEF RowOK, PhaseOK, Operation, Genuine, Holds, Active, TypeOK, Finished,
      WorkerReturns, rowVars, historyVars
<1>. QED BY <1>1, <1>2, <1>3, <1>4, <1>5, <1>6, <1>7

\* The recovery ends or offers again the rows whose lease has expired.
LEMMA RecoverExpiredDispatchesStep ==
    ASSUME IInv, NEW S \in SUBSET Request,
           RecoverExpiredDispatches(S)
    PROVE  IInv'
<1> USE DEF IInv, RecoverExpiredDispatches
<1>1. TypeOK'
  BY DEF TypeOK, RowStatus, Finished, DeliveryState, Result, Unknown,
         workerVars, historyVars
<1>2. TokensOK'
  BY DEF TokensOK, Active, workerVars
<1>3. ASSUME NEW s \in Request PROVE RowOK(s)'
  BY DEF RowOK, PhaseOK, HolderOK, Holds, Genuine, TypeOK, Finished, Active,
         Result, Stale, LeaseMayExpire, Unknown, historyVars
<1>4. ASSUME NEW s \in Request PROVE AttemptsOK(s)'
  BY DEF AttemptsOK, PhaseOK, TypeOK, Stale, LeaseMayExpire, historyVars
<1>5. ASSUME NEW s \in Request PROVE AnswersOK(s)'
  BY DEF AnswersOK, Genuine, Holds, Active, Finished, Stale, LeaseMayExpire,
         workerVars, historyVars
<1>6. ASSUME NEW w \in Worker PROVE HolderOK(w)'
  BY NullAssumption
  DEF HolderOK, PhaseOK, Operation, Holds, Active, TypeOK, Stale, workerVars,
      historyVars
<1>7. ASSUME NEW w \in Worker PROVE PhaseOK(w)'
  BY DEF HolderOK, PhaseOK, TokensOK, Operation, Genuine, Holds, Active,
         TypeOK, Finished, Stale, LeaseMayExpire, Owns, workerVars,
         historyVars
<1>. QED BY <1>1, <1>2, <1>3, <1>4, <1>5, <1>6, <1>7

\* The cleanup starts a new life of finished IDs; workers that still save belong
\* to an older one.
LEMMA CleanupStep ==
    ASSUME IInv, NEW S \in SUBSET Request, Cleanup(S)
    PROVE  IInv'
<1> USE DEF IInv, Cleanup
<1>1. TypeOK'
  BY DEF TypeOK, RowStatus, DeliveryState, workerVars
<1>2. TokensOK'
  BY DEF TokensOK, Active, workerVars
<1>3. ASSUME NEW s \in Request PROVE RowOK(s)'
  BY NullAssumption DEF RowOK, Genuine, TypeOK, Finished
<1>4. ASSUME NEW s \in Request PROVE AttemptsOK(s)'
  BY DEF AttemptsOK, PhaseOK, TypeOK
<1>5. ASSUME NEW s \in Request PROVE AnswersOK(s)'
  BY DEF AnswersOK, Genuine, Holds, Active, Finished, workerVars
<1>6. ASSUME NEW w \in Worker PROVE HolderOK(w)'
  BY NullAssumption
  DEF HolderOK, PhaseOK, Operation, Holds, Active, TypeOK, workerVars
<1>7. ASSUME NEW w \in Worker PROVE PhaseOK(w)'
  BY DEF HolderOK, PhaseOK, TokensOK, Operation, Genuine, Holds, Active,
         TypeOK, Finished, RetentionElapsed, workerVars
<1>. QED BY <1>1, <1>2, <1>3, <1>4, <1>5, <1>6, <1>7

--------------------------------------------------------------------------------
\* Before the first request the tables are empty and the workers idle.
LEMMA InitHolds == Init => IInv
<1> SUFFICES ASSUME Init PROVE IInv
  OBVIOUS
<1> USE DEF Init
<1>1. TypeOK
  BY DEF TypeOK, RowStatus, DeliveryState, WorkerPC
<1>2. \A r \in Request : RowOK(r) /\ AttemptsOK(r) /\ AnswersOK(r)
  BY DEF RowOK, AttemptsOK, AnswersOK, Finished
<1>3. TokensOK /\ \A w \in Worker : HolderOK(w) /\ PhaseOK(w)
  BY DEF TokensOK, HolderOK, PhaseOK, Holds, Active
<1>. QED BY <1>1, <1>2, <1>3 DEF IInv

\* The invariant speaks of the variables only, so a stuttering step keeps it.
LEMMA Stutters == IInv /\ UNCHANGED vars => IInv'
<1> SUFFICES ASSUME IInv, UNCHANGED vars PROVE IInv'
  OBVIOUS
<1> USE DEF vars, rowVars, deliveryVars, workerVars, historyVars
<1>1. TypeOK' /\ TokensOK'
  BY DEF IInv, TypeOK, TokensOK, Active
<1>2. ASSUME NEW r \in Request PROVE (RowOK(r) /\ AttemptsOK(r) /\ AnswersOK(r))'
  BY DEF IInv, RowOK, AttemptsOK, AnswersOK, Genuine, Holds, Active
<1>3. ASSUME NEW w \in Worker PROVE (HolderOK(w) /\ PhaseOK(w))'
  BY DEF IInv, HolderOK, PhaseOK, Genuine, Holds, Active
<1>. QED BY <1>1, <1>2, <1>3 DEF IInv

\* Every transaction, every step of a worker and every pass of the maintenance
\* loop keeps the invariant.
LEMMA NextKeeps == IInv /\ [Next]_vars => IInv'
<1> SUFFICES ASSUME IInv, [Next]_vars PROVE IInv'
  OBVIOUS
<1>1. CASE HandlerStep
  BY <1>1, InsertRequestStep, ReopenDeliveriesStep, ConfirmAcceptanceStep,
     ConfirmResultStep, DeliverResultStep
  DEF HandlerStep, AcceptHTTPRequest
<1>2. ASSUME NEW w \in Worker, SilentStep(w) PROVE IInv'
  BY <1>2, ReserveRequestStep, ReleaseReservedStep, BeginDispatchStep,
     DispatchRefusedStep, SendHTTPStep, HTTPFailsStep, HTTPRespondsStep,
     ScheduleRetryStep, SaveHTTPResultStep
  DEF SilentStep
<1>3. ASSUME NEW w \in Worker, WorkerStep(w) \/ Stop(w) PROVE IInv'
  BY <1>2, <1>3, PublishHTTPResultStep, StopStep DEF WorkerStep
<1>4. CASE MaintenanceStep
  BY <1>4, RecoverExpiredDispatchesStep, CleanupStep DEF MaintenanceStep
<1>5. CASE UNCHANGED vars
  BY <1>5, Stutters
<1>. QED BY <1>1, <1>3, <1>4, <1>5 DEF Next

\* Rows, deliveries, workers and history agree in every reachable state, for
\* any number of requests, workers, tokens, clients and policies.
THEOREM Invariant == Spec => []IInv
<1>1. Init => IInv
  BY InitHolds
<1>2. IInv /\ [Next]_vars => IInv'
  BY NextKeeps
<1>. QED BY <1>1, <1>2, PTL DEF Spec

\* Type correctness of the queue.
THEOREM TypeCorrect == Spec => []TypeOK
<1>1. IInv => TypeOK
  BY DEF IInv
<1>. QED BY <1>1, Invariant, PTL

\* No two workers, of whatever instances, are in the exchange of one request.
THEOREM ExchangesExclusive == Spec => []OneExchange
<1>1. IInv => OneExchange
  <2> SUFFICES ASSUME IInv, NEW v \in Worker, NEW w \in Worker,
                      pc[v] \in {"begun", "http"}, pc[w] \in {"begun", "http"},
                      op[v].request = op[w].request
               PROVE  v = w
    BY DEF OneExchange
  <2>1. Holds(v) /\ Holds(w)
    BY DEF IInv, PhaseOK
  <2>. QED BY <2>1 DEF IInv, TokensOK, Holds
<1>. QED BY <1>1, Invariant, PTL

\* A request is put on the wire no more often than its policy allows, and only
\* once when it is not safe to repeat.
THEOREM PolicyRespected == Spec => []SendsWithinPolicy
<1>1. ASSUME IInv, NEW r \in Request
      PROVE  sends[r] <= (IF wire[r] = Null THEN 0 ELSE AttemptLimit(wire[r]))
  <2>1. sends[r] \in Nat /\ attempts[r] \in Nat /\ sends[r] <= attempts[r]
    BY <1>1 DEF IInv, TypeOK, AttemptsOK
  <2>2. CASE wire[r] = Null
    BY <1>1, <2>1, <2>2 DEF IInv, RowOK
  <2>3. CASE wire[r] # Null
    <3>1. wire[r] \in WireSet(Client, Code)
      BY <1>1, <2>3, WireAssumption DEF IInv, TypeOK
    <3>2. AttemptLimit(wire[r]) \in Nat
      BY <3>1 DEF AttemptLimit, MaxAttempts, WireSet
    <3>3. attempts[r] <= AttemptLimit(wire[r])
      BY <1>1, <2>3 DEF IInv, AttemptsOK
    <3>. QED BY <2>1, <2>3, <3>2, <3>3
  <2>. QED BY <2>2, <2>3
<1>2. IInv => SendsWithinPolicy
  BY <1>1 DEF SendsWithinPolicy
<1>. QED BY <1>2, Invariant, PTL

\* SaveHTTPResult does not refuse a worker that holds a result, as long as its row
\* has not been cleaned up.
THEOREM SaveAccepted == Spec => []SaveNeverRefused
<1>1. IInv => SaveNeverRefused
  <2> SUFFICES ASSUME IInv, NEW w \in Worker, pc[w] \in {"publish", "save"},
                      op[w].era = era[op[w].request]
               PROVE  Owns(w, "dispatching") \/ status[op[w].request] \in Finished
    BY DEF SaveNeverRefused
  <2>1. Holds(w) \/ status[op[w].request] \in Finished
    BY DEF IInv, PhaseOK
  <2>2. CASE Holds(w)
    BY <2>2 DEF IInv, HolderOK, Holds, Owns
  <2>. QED BY <2>1, <2>2
<1>. QED BY <1>1, Invariant, PTL

\* Every way to the client carries the response of the last exchange of the
\* current life of the request ID, or "unknown".
THEOREM ResponseUnique == Spec => []OneResponse
<1>1. IInv => OneResponse
  <2> SUFFICES ASSUME IInv, NEW r \in Request, NEW res \in ResultsInSight(r)
               PROVE  /\ res.era = era[r]
                      /\ res.state = "http_completed" => res.exchange = sends[r]
    BY DEF OneResponse
  <2>1. CASE res \in answers[r]
    BY <2>1 DEF IInv, AnswersOK, Genuine
  <2>2. CASE res \in {result[r], payload[r]} \ {Null}
    BY <2>2 DEF IInv, RowOK, Genuine
  <2>3. CASE \E w \in Worker : /\ pc[w] \in {"publish", "save"}
                               /\ op[w].request = r /\ op[w].era = era[r]
                               /\ res = outcome[w]
    BY <2>3 DEF IInv, PhaseOK, Genuine
  <2>. QED BY <2>1, <2>2, <2>3 DEF ResultsInSight
<1>. QED BY <1>1, Invariant, PTL

\* A finished row has exactly its result in a delivery, and no other row has one.
THEOREM DeliveryForEveryResult == Spec => []ResultHasDelivery
<1>1. IInv => ResultHasDelivery
  BY DEF IInv, RowOK, ResultHasDelivery
<1>. QED BY <1>1, Invariant, PTL

\* Of all actions only SendHTTP puts something on the wire; its worker holds
\* the row, and a row that is held and not finished has no answer yet.
THEOREM AnswersEndSending == Spec => NoSendAfterAnswer
<1> DEFINE A(r) == sends'[r] > sends[r] => answers[r] = {} /\ status[r] = "dispatching"
<1>1. ASSUME IInv, [Next]_vars, NEW r \in Request PROVE A(r)
  <2> USE <1>1 DEF rowVars, deliveryVars, workerVars, historyVars
  <2>1. sends[r] \in Nat
    BY DEF IInv, TypeOK
  <2>2. CASE sends'[r] = sends[r] \/ sends'[r] = 0
    BY <2>1, <2>2
  <2>3. ASSUME NEW w \in Worker, SendHTTP(w) PROVE A(r)
    <3>1. CASE op[w].request = r
      <4>1. Holds(w) /\ status[r] = "dispatching"
        BY <2>3, <3>1 DEF SendHTTP, IInv, PhaseOK, HolderOK
      <4>. QED BY <2>3, <3>1, <4>1 DEF SendHTTP, IInv, AnswersOK, Finished
    <3>2. CASE op[w].request # r
      BY <2>3, <3>2, <2>2 DEF SendHTTP, IInv, TypeOK
    <3>. QED BY <3>1, <3>2
  <2>4. CASE HandlerStep
    BY <2>4, <2>2 DEF HandlerStep, AcceptHTTPRequest, InsertRequest, ReopenDeliveries,
                      ConfirmAcceptance, ConfirmResult, DeliverResult
  <2>5. ASSUME NEW w \in Worker, WorkerStep(w) \/ Stop(w) PROVE A(r)
    BY <2>5, <2>2, <2>3
    DEF WorkerStep, SilentStep, ReserveRequest, ReleaseReserved, BeginDispatch,
        DispatchRefused, HTTPFails, HTTPResponds, ScheduleRetry, SaveHTTPResult,
        PublishHTTPResult, Stop
  <2>6. CASE MaintenanceStep
    BY <2>6, <2>2 DEF MaintenanceStep, RecoverExpiredDispatches, Cleanup
  <2>7. CASE UNCHANGED vars
    BY <2>7, <2>2 DEF vars
  <2>. QED BY <2>4, <2>5, <2>6, <2>7 DEF Next
<1>2. IInv /\ [Next]_vars => [\A r \in Request : A(r)]_vars
  BY <1>1
<1>. QED BY <1>2, Invariant, PTL DEF Spec, NoSendAfterAnswer

\* A finished row is touched by nobody but an ACK, which keeps it finished, and
\* the cleanup, which begins another life of the request ID.
THEOREM FinishedStays == Spec => FinishedIsFinal
<1> DEFINE F(r) == status[r] \in Finished /\ era'[r] = era[r]
                     => /\ status'[r] \in Finished
                        /\ result'[r] = result[r]
                        /\ payload'[r] = payload[r]
<1>1. ASSUME IInv, [Next]_vars, NEW r \in Request PROVE F(r)
  <2> SUFFICES ASSUME status[r] \in Finished, era'[r] = era[r] PROVE F(r)
    OBVIOUS
  <2> USE <1>1 DEF rowVars, deliveryVars, workerVars, historyVars
  <2>1. delivery[r] # "none"
    BY DEF IInv, RowOK
  <2>2. CASE status'[r] = status[r] /\ UNCHANGED <<result, payload>>
    BY <2>2
  <2>3. CASE HandlerStep
    BY <2>3 DEF HandlerStep, AcceptHTTPRequest, InsertRequest, ReopenDeliveries,
                ConfirmAcceptance, ConfirmResult, DeliverResult, Finished,
                IInv, TypeOK
  <2>4. ASSUME NEW w \in Worker,
               \/ \E s \in Request, t \in Token : ReserveRequest(w, s, t)
               \/ ReleaseReserved(w) \/ BeginDispatch(w) \/ ScheduleRetry(w)
        PROVE F(r)
    BY <2>4 DEF ReserveRequest, ReleaseReserved, BeginDispatch, ScheduleRetry,
                Owns, Finished, IInv, TypeOK
  <2>5. ASSUME NEW w \in Worker, SaveHTTPResult(w) PROVE F(r)
    BY <2>1, <2>5 DEF SaveHTTPResult, InsertResultDelivery, Owns, Finished, IInv,
                      TypeOK
  <2>6. ASSUME NEW w \in Worker, WorkerStep(w) \/ Stop(w) PROVE F(r)
    BY <2>2, <2>4, <2>5, <2>6
    DEF WorkerStep, SilentStep, DispatchRefused, SendHTTP, HTTPFails, HTTPResponds,
        PublishHTTPResult, Stop
  <2>7. ASSUME NEW S \in SUBSET Request, RecoverExpiredDispatches(S) PROVE F(r)
    <3>1. r \notin S
      BY <2>7 DEF RecoverExpiredDispatches, LeaseMayExpire, Finished
    <3>. QED BY <2>7, <3>1 DEF RecoverExpiredDispatches, Stale
  <2>8. ASSUME NEW S \in SUBSET Request, Cleanup(S) PROVE F(r)
    BY <2>8 DEF Cleanup, IInv, TypeOK
  <2>9. CASE UNCHANGED vars
    BY <2>9, <2>2 DEF vars
  <2>. QED BY <2>3, <2>6, <2>7, <2>8, <2>9 DEF Next, MaintenanceStep
<1>2. IInv /\ [Next]_vars => [\A r \in Request : F(r)]_vars
  BY <1>1
<1>. QED BY <1>2, Invariant, PTL DEF Spec, FinishedIsFinal

================================================================================
