----------------------------- MODULE OutgoingQueue -----------------------------
(***************************************************************************)
(* The durable queue of outgoing HTTP requests kept by the proxy: the rows *)
(* of proxy_http_requests and proxy_deliveries, the worker pool that       *)
(* executes them and the maintenance loop that recovers and cleans them.   *)
(*                                                                         *)
(* Every database transaction of the code is one action.  A worker is a    *)
(* goroutine of any instance of the proxy: instances share nothing but the *)
(* database, so a set of workers stands for any number of instances.  The  *)
(* callers of the transport (requests and ACKs) are an open environment:   *)
(* they may call at any time, in any order and any number of times.        *)
(***************************************************************************)
EXTENDS RetryPolicy

CONSTANTS
    Request,    \* request IDs
    Worker,     \* worker goroutines, over all proxy instances
    Token,      \* dispatch tokens (randomID)
    Client,     \* client IDs
    Code,       \* HTTP status codes
    Wire,       \* signed request contents: the client and its retry policy
    Null,       \* SQL NULL, and "no row"
    MaxEra      \* bound: how many times one request ID may be cleaned up

ASSUME NullAssumption == Null \notin Token /\ Null \notin Wire
ASSUME EraAssumption == MaxEra \in Nat
ASSUME WireAssumption == Wire \subseteq WireSet(Client, Code)

VARIABLES
    \* proxy_http_requests
    status, wire, token, attempts, result,
    \* proxy_deliveries of kind acceptance and result, and the latter's payload
    acceptance, delivery, payload,
    \* worker goroutines: program counter, Operation and HTTPResult in hand
    pc, op, outcome,
    \* history: cleanups of a request ID, and, since the last one, the HTTP
    \* exchanges put on the wire and the results published to the client
    era, sends, answers

rowVars == <<status, wire, token, attempts, result>>
deliveryVars == <<acceptance, delivery, payload>>
workerVars == <<pc, op, outcome>>
historyVars == <<era, sends, answers>>
vars == <<rowVars, deliveryVars, workerVars, historyVars>>

--------------------------------------------------------------------------------
(* States of a row, of a delivery and of a worker.                         *)

Finished == {"http_completed", "unknown", "result_delivered"}
RowStatus == {"absent", "awaiting_acceptance_ack", "ready", "reserved",
              "dispatching", "retry_wait"} \cup Finished
DeliveryState == {"none", "open", "acked"}

\* reserved: holds a reservation; begun: wrote 'dispatching', nothing sent yet;
\* http: inside the HTTP exchange; retry, publish, save: what follows it.
WorkerPC == {"idle", "reserved", "begun", "http", "retry", "publish", "save"}

\* A result is known by the exchange that produced it; an unknown one by none.
Result == [state : {"http_completed", "unknown"}, era : Nat, exchange : Nat]

\* What ReserveRequest returns to a worker.  The era is history.
Operation == [request : Request, wire : Wire, token : Token,
              attempts : Nat, era : Nat]

\* Rows, deliveries and workers keep their shape: no update of the repository
\* writes a status, a count or a payload outside the tables' domains.
TypeOK ==
    /\ status \in [Request -> RowStatus]
    /\ wire \in [Request -> Wire \cup {Null}]
    /\ token \in [Request -> Token \cup {Null}]
    /\ attempts \in [Request -> Nat]
    /\ result \in [Request -> Result \cup {Null}]
    /\ acceptance \in [Request -> DeliveryState]
    /\ delivery \in [Request -> DeliveryState]
    /\ payload \in [Request -> Result \cup {Null}]
    /\ pc \in [Worker -> WorkerPC]
    /\ op \in [Worker -> Operation \cup {Null}]
    /\ outcome \in [Worker -> Result \cup {Null}]
    /\ era \in [Request -> Nat]
    /\ sends \in [Request -> Nat]
    /\ answers \in [Request -> SUBSET Result]

--------------------------------------------------------------------------------
Unknown(r) == [state |-> "unknown", era |-> era[r], exchange |-> 0]
Completed(r) == [state |-> "http_completed", era |-> era[r],
                 exchange |-> sends[r]]

Active(w) == pc[w] # "idle"

Owns_Unchecked(w, s) == TRUE    \* mutant: RowsAffected is not looked at

\* The WHERE clause of every update made on behalf of a worker.
Owns(w, s) ==
    /\ status[op[w].request] = s
    /\ token[op[w].request] = op[w].token

FreshToken_Repeats(t) == TRUE   \* mutant: tokens of a weak generator repeat

\* A random token differs from every token still in use.
FreshToken(t) ==
    /\ \A r \in Request : token[r] # t
    /\ \A w \in Worker : Active(w) => op[w].token # t

\* Mutant: the lease is not longer than the exchange.
LeaseMayExpire_Short(r) == status[r] \in {"reserved", "dispatching"}

\* Mutant: the recovery looks at reserved rows only.
LeaseMayExpire_ReservedOnly(r) == status[r] = "reserved"

\* The lease of a reserved row may expire at any moment.  That of a
\* dispatching row is taken to outlive the exchange; it may expire before the
\* worker has recorded what the exchange returned, or after the worker is gone.
\* config.Load demands no more than DispatchLease > MaxRequestTimeout: that the
\* difference covers the time from BeginDispatch to the exchange is assumed.
LeaseMayExpire(r) ==
    \/ status[r] = "reserved"
    \/ /\ status[r] = "dispatching"
       /\ \A w \in Worker :
             pc[w] \in {"begun", "http"} /\ op[w].request = r
                => ~Owns(w, "dispatching")

RetentionElapsed_AtOnce(r) == TRUE  \* mutant: a retention of zero

\* The retention is taken to be longer than the two seconds the direct
\* publication may take (config.Load sets no minimum, the default is 30 days);
\* only the save loop has no time limit.
RetentionElapsed(r) ==
    \A w \in Worker : pc[w] = "publish" => op[w].request # r

--------------------------------------------------------------------------------
Init ==
    /\ status = [r \in Request |-> "absent"]
    /\ wire = [r \in Request |-> Null]
    /\ token = [r \in Request |-> Null]
    /\ attempts = [r \in Request |-> 0]
    /\ result = [r \in Request |-> Null]
    /\ acceptance = [r \in Request |-> "none"]
    /\ delivery = [r \in Request |-> "none"]
    /\ payload = [r \in Request |-> Null]
    /\ pc = [w \in Worker |-> "idle"]
    /\ op = [w \in Worker |-> Null]
    /\ outcome = [w \in Worker |-> Null]
    /\ era = [r \in Request |-> 0]
    /\ sends = [r \in Request |-> 0]
    /\ answers = [r \in Request |-> {}]

--------------------------------------------------------------------------------
(* Calls of the transport handlers.                                        *)

\* Mutant: the request is queued before the client confirmed the acceptance.
InsertRequest_Ready(r, x) ==
    /\ status[r] = "absent"
    /\ status' = [status EXCEPT ![r] = "ready"]
    /\ wire' = [wire EXCEPT ![r] = x]
    /\ acceptance' = [acceptance EXCEPT ![r] = "open"]
    /\ UNCHANGED <<token, attempts, result, delivery, payload,
                   workerVars, historyVars>>

\* INSERT ... ON CONFLICT DO NOTHING hit no row.
InsertRequest(r, x) ==
    /\ status[r] = "absent"
    /\ status' = [status EXCEPT ![r] = "awaiting_acceptance_ack"]
    /\ wire' = [wire EXCEPT ![r] = x]
    /\ acceptance' = [acceptance EXCEPT ![r] = "open"]
    /\ UNCHANGED <<token, attempts, result, delivery, payload,
                   workerVars, historyVars>>

\* Mutant: a repeated request puts a delivered row back into the queue.
ReopenDeliveries_Executes(r, x) ==
    /\ status[r] # "absent"
    /\ wire[r] = x
    /\ acceptance' = [acceptance EXCEPT ![r] = "open"]
    /\ delivery' = [delivery EXCEPT ![r] = IF @ = "none" THEN @ ELSE "open"]
    /\ status' = [status EXCEPT ![r] = IF @ = "result_delivered" THEN "ready" ELSE @]
    /\ UNCHANGED <<wire, token, attempts, result, payload, workerVars, historyVars>>

\* The same request again: both NATS handshakes are reopened, nothing else.
ReopenDeliveries(r, x) ==
    /\ status[r] # "absent"
    /\ wire[r] = x
    /\ acceptance' = [acceptance EXCEPT ![r] = "open"]
    /\ delivery' = [delivery EXCEPT ![r] = IF @ = "none" THEN @ ELSE "open"]
    /\ UNCHANGED <<rowVars, payload, workerVars, historyVars>>

\* Other contents under the same ID are ErrRequestConflict: no row changes.
AcceptHTTPRequest(r, x) == InsertRequest(r, x) \/ ReopenDeliveries(r, x)

ConfirmAcceptance(r, c) ==
    /\ acceptance[r] # "none"
    /\ wire[r].client = c
    /\ acceptance' = [acceptance EXCEPT ![r] = "acked"]
    /\ status' = [status EXCEPT
                    ![r] = IF @ = "awaiting_acceptance_ack" THEN "ready" ELSE @]
    /\ UNCHANGED <<wire, token, attempts, result, delivery, payload,
                   workerVars, historyVars>>

ConfirmResult(r, c) ==
    /\ delivery[r] # "none"
    /\ wire[r].client = c
    /\ delivery' = [delivery EXCEPT ![r] = "acked"]
    /\ status' = [status EXCEPT
          ![r] = IF @ \in {"http_completed", "unknown"} THEN "result_delivered"
                                                        ELSE @]
    /\ UNCHANGED <<wire, token, attempts, result, acceptance, payload,
                   workerVars, historyVars>>

--------------------------------------------------------------------------------
(* The delivery loop, for deliveries of kind result: claim a row that is   *)
(* not acknowledged, publish its payload, reschedule it.  Leases and       *)
(* next_attempt_at decide only when this happens.                          *)

DeliverResult(r) ==
    /\ delivery[r] = "open"
    /\ answers' = [answers EXCEPT ![r] = @ \cup {payload[r]}]
    /\ UNCHANGED <<rowVars, deliveryVars, workerVars, era, sends>>

--------------------------------------------------------------------------------
(* The worker pool.                                                        *)

WorkerReturns(w) ==
    /\ pc' = [pc EXCEPT ![w] = "idle"]
    /\ op' = [op EXCEPT ![w] = Null]
    /\ outcome' = [outcome EXCEPT ![w] = Null]

\* The reservation commits; the worker may still see an error (the reply to
\* COMMIT is lost), and then does not know that it holds the row.
ReserveRequest(w, r, t) ==
    /\ pc[w] = "idle"
    /\ status[r] \in {"ready", "retry_wait"}
    /\ FreshToken(t)
    /\ status' = [status EXCEPT ![r] = "reserved"]
    /\ token' = [token EXCEPT ![r] = t]
    /\ \/ /\ pc' = [pc EXCEPT ![w] = "reserved"]
          /\ op' = [op EXCEPT ![w] =
                      [request |-> r, wire |-> wire[r], token |-> t,
                       attempts |-> attempts[r], era |-> era[r]]]
       \/ UNCHANGED <<pc, op>>
    /\ UNCHANGED <<wire, attempts, result, deliveryVars, outcome, historyVars>>

\* Mutant: the attempt is given back, though it is counted only at dispatch.
ReleaseReserved_Uncounts(w) ==
    LET r == op[w].request IN
    /\ pc[w] = "reserved"
    /\ Owns(w, "reserved")
    /\ status' = [status EXCEPT ![r] = "ready"]
    /\ token' = [token EXCEPT ![r] = Null]
    /\ attempts' = [attempts EXCEPT ![r] = @ - 1]
    /\ WorkerReturns(w)
    /\ UNCHANGED <<wire, result, deliveryVars, historyVars>>

\* No host permit, or an error acquiring one.  The error of ReleaseReserved is
\* ignored: the row may stay reserved until its lease expires.
ReleaseReserved(w) ==
    LET r == op[w].request IN
    /\ pc[w] = "reserved"
    /\ \/ /\ Owns(w, "reserved")
          /\ status' = [status EXCEPT ![r] = "ready"]
          /\ token' = [token EXCEPT ![r] = Null]
       \/ UNCHANGED <<status, token>>
    /\ WorkerReturns(w)
    /\ UNCHANGED <<wire, attempts, result, deliveryVars, historyVars>>

\* The mark "HTTP begins" is written before anything is sent.  Its reply may be
\* lost: the worker then returns and sends nothing.
BeginDispatch(w) ==
    LET r == op[w].request IN
    /\ pc[w] = "reserved"
    /\ Owns(w, "reserved")
    /\ status' = [status EXCEPT ![r] = "dispatching"]
    /\ attempts' = [attempts EXCEPT ![r] = @ + 1]
    /\ \/ pc' = [pc EXCEPT ![w] = "begun"] /\ UNCHANGED <<op, outcome>>
       \/ WorkerReturns(w)
    /\ UNCHANGED <<wire, token, result, deliveryVars, historyVars>>

\* "dispatch ownership lost", or the database refused the update.
DispatchRefused(w) ==
    /\ pc[w] = "reserved"
    /\ WorkerReturns(w)
    /\ UNCHANGED <<rowVars, deliveryVars, historyVars>>

\* executor.Do puts the request on the wire.
SendHTTP(w) ==
    /\ pc[w] = "begun"
    /\ pc' = [pc EXCEPT ![w] = "http"]
    /\ sends' = [sends EXCEPT ![op[w].request] = @ + 1]
    /\ UNCHANGED <<rowVars, deliveryVars, op, outcome, era, answers>>

\* executor.Do fails: before sending (a request that cannot be built), or
\* after (timeout, broken connection, body over the limit, shutdown).
HTTPFails(w) ==
    LET o == op[w] IN
    /\ pc[w] \in {"begun", "http"}
    /\ IF canRetry(o.wire, o.attempts + 1, TRUE, Null)
         THEN /\ pc' = [pc EXCEPT ![w] = "retry"]
              /\ UNCHANGED outcome
         ELSE /\ pc' = [pc EXCEPT ![w] = "publish"]
              /\ outcome' = [outcome EXCEPT ![w] = Unknown(o.request)]
    /\ UNCHANGED <<rowVars, deliveryVars, op, historyVars>>

\* executor.Do returns a response.
HTTPResponds(w, code) ==
    LET o == op[w] IN
    /\ pc[w] = "http"
    /\ IF canRetry(o.wire, o.attempts + 1, FALSE, code)
         THEN /\ pc' = [pc EXCEPT ![w] = "retry"]
              /\ UNCHANGED outcome
         ELSE /\ pc' = [pc EXCEPT ![w] = "publish"]
              /\ outcome' = [outcome EXCEPT ![w] = Completed(o.request)]
    /\ UNCHANGED <<rowVars, deliveryVars, op, historyVars>>

ScheduleRetry(w) ==
    LET r == op[w].request IN
    /\ pc[w] = "retry"
    /\ \/ /\ Owns(w, "dispatching")
          /\ status' = [status EXCEPT ![r] = "retry_wait"]
          /\ token' = [token EXCEPT ![r] = Null]
       \/ UNCHANGED <<status, token>>   \* ownership lost, or a database error
    /\ WorkerReturns(w)
    /\ UNCHANGED <<wire, attempts, result, deliveryVars, historyVars>>

\* The result goes to the client first.  The publication may fail (sent is
\* FALSE), which is ignored.
PublishHTTPResult(w, sent) ==
    /\ pc[w] = "publish"
    /\ pc' = [pc EXCEPT ![w] = "save"]
    /\ answers' = IF sent
                    THEN [answers EXCEPT ![op[w].request] = @ \cup {outcome[w]}]
                    ELSE answers
    /\ UNCHANGED <<rowVars, deliveryVars, op, outcome, era, sends>>

\* Mutant: ON CONFLICT DO UPDATE.
InsertResultDelivery_Overwrites(r, res) ==
    /\ delivery' = [delivery EXCEPT ![r] = "open"]
    /\ payload' = [payload EXCEPT ![r] = res]

\* INSERT of the result delivery, ON CONFLICT DO NOTHING.
InsertResultDelivery(r, res) ==
    /\ delivery' = [delivery EXCEPT ![r] = IF @ = "none" THEN "open" ELSE @]
    /\ payload' = [payload EXCEPT ![r] = IF delivery[r] = "none" THEN res ELSE @]

\* The row is no longer the worker's: has it been finished by somebody?
AlreadySaved(r) == status[r] \in Finished

\* One successful transaction of the save loop.  A commit whose reply is lost
\* leaves the worker in the loop; a transaction that fails changes nothing.
SaveHTTPResult(w) ==
    LET r == op[w].request IN
    /\ pc[w] = "save"
    /\ \/ /\ Owns(w, "dispatching")
          /\ status' = [status EXCEPT ![r] = outcome[w].state]
          /\ result' = [result EXCEPT ![r] = outcome[w]]
          /\ token' = [token EXCEPT ![r] = Null]
          /\ WorkerReturns(w) \/ UNCHANGED workerVars
       \/ /\ ~Owns(w, "dispatching")
          /\ AlreadySaved(r)
          /\ UNCHANGED <<status, result, token>>
          /\ WorkerReturns(w)
    /\ InsertResultDelivery(r, outcome[w])
    /\ UNCHANGED <<wire, attempts, acceptance, historyVars>>

\* The process dies, or at shutdown the save loop gives up.
Stop(w) ==
    /\ Active(w)
    /\ WorkerReturns(w)
    /\ UNCHANGED <<rowVars, deliveryVars, historyVars>>

--------------------------------------------------------------------------------
(* The maintenance loop.                                                   *)

Stale_None(S) == {}     \* mutant: every expired row is offered again

\* Rows whose HTTP may have been sent are not offered again.
Stale(S) == {r \in S : status[r] = "dispatching"}

\* S is the set of rows whose lease has expired when the transaction runs.
RecoverExpiredDispatches(S) ==
    LET stale == Stale(S) IN
    /\ S # {}
    /\ \A r \in S : LeaseMayExpire(r)
    /\ status' = [r \in Request |-> IF r \in stale THEN "unknown"
                                    ELSE IF r \in S THEN "ready"
                                    ELSE status[r]]
    /\ result' = [r \in Request |-> IF r \in stale THEN Unknown(r) ELSE result[r]]
    /\ token' = [r \in Request |-> IF r \in S THEN Null ELSE token[r]]
    /\ delivery' = [r \in Request |->
            IF r \in stale /\ delivery[r] = "none" THEN "open" ELSE delivery[r]]
    /\ payload' = [r \in Request |->
            IF r \in stale /\ delivery[r] = "none" THEN Unknown(r) ELSE payload[r]]
    /\ UNCHANGED <<wire, attempts, acceptance, workerVars, historyVars>>

\* S is the batch of rows older than the retention.  Rows and their deliveries
\* go together; whether a delivery is acknowledged is not looked at.
Cleanup(S) ==
    /\ S # {}
    /\ \A r \in S : /\ status[r] = "result_delivered"
                    /\ RetentionElapsed(r)
                    /\ era[r] < MaxEra
    /\ status' = [r \in Request |-> IF r \in S THEN "absent" ELSE status[r]]
    /\ wire' = [r \in Request |-> IF r \in S THEN Null ELSE wire[r]]
    /\ attempts' = [r \in Request |-> IF r \in S THEN 0 ELSE attempts[r]]
    /\ result' = [r \in Request |-> IF r \in S THEN Null ELSE result[r]]
    /\ acceptance' = [r \in Request |-> IF r \in S THEN "none" ELSE acceptance[r]]
    /\ delivery' = [r \in Request |-> IF r \in S THEN "none" ELSE delivery[r]]
    /\ payload' = [r \in Request |-> IF r \in S THEN Null ELSE payload[r]]
    /\ era' = [r \in Request |-> IF r \in S THEN era[r] + 1 ELSE era[r]]
    /\ sends' = [r \in Request |-> IF r \in S THEN 0 ELSE sends[r]]
    /\ answers' = [r \in Request |-> IF r \in S THEN {} ELSE answers[r]]
    /\ UNCHANGED <<token, workerVars>>

--------------------------------------------------------------------------------
HandlerStep ==
    \E r \in Request :
        \/ \E x \in Wire : AcceptHTTPRequest(r, x)
        \/ \E c \in Client : ConfirmAcceptance(r, c) \/ ConfirmResult(r, c)
        \/ DeliverResult(r)

\* What a worker does without telling the client.
SilentStep(w) ==
    \/ \E r \in Request, t \in Token : ReserveRequest(w, r, t)
    \/ ReleaseReserved(w)
    \/ BeginDispatch(w)
    \/ DispatchRefused(w)
    \/ SendHTTP(w)
    \/ HTTPFails(w)
    \/ \E code \in Code : HTTPResponds(w, code)
    \/ ScheduleRetry(w)
    \/ SaveHTTPResult(w)

WorkerStep(w) == SilentStep(w) \/ \E sent \in BOOLEAN : PublishHTTPResult(w, sent)

MaintenanceStep ==
    \E S \in SUBSET Request : RecoverExpiredDispatches(S) \/ Cleanup(S)

Next ==
    \/ HandlerStep
    \/ \E w \in Worker : WorkerStep(w) \/ Stop(w)
    \/ MaintenanceStep

Spec == Init /\ [][Next]_vars

--------------------------------------------------------------------------------
(* Properties.                                                             *)

\* At most one worker, of all workers of all instances, is between the mark
\* "HTTP begins" and the return of the exchange for one request.  Leases, the
\* token in every WHERE clause and the recovery have to work together for it.
OneExchange ==
    \A v, w \in Worker :
        /\ pc[v] \in {"begun", "http"} /\ pc[w] \in {"begun", "http"}
        /\ op[v].request = op[w].request
        => v = w

\* However often workers crash, lose commits and take over expired rows, a
\* request is put on the wire no more often than its policy allows: once when
\* it is not retry-safe (execute, canRetry).
SendsWithinPolicy ==
    \A r \in Request :
        sends[r] <= (IF wire[r] = Null THEN 0 ELSE AttemptLimit(wire[r]))

\* A worker that holds a result finds its row dispatching under its own token
\* or already finished, so the refusal "cannot save result after dispatch
\* ownership was lost" of SaveHTTPResult never meets a row of the same era.
SaveNeverRefused ==
    \A w \in Worker :
        pc[w] \in {"publish", "save"} /\ op[w].era = era[op[w].request]
            => Owns(w, "dispatching") \/ status[op[w].request] \in Finished

\* The results in sight: published, in the row, in the delivery and in the
\* hands of workers of the current era.
ResultsInSight(r) ==
    answers[r] \cup ({result[r], payload[r]} \ {Null})
    \cup {outcome[w] : w \in {v \in Worker : /\ pc[v] \in {"publish", "save"}
                                             /\ op[v].request = r
                                             /\ op[v].era = era[r]}}

\* Whatever path a response takes to the client (direct publication before the
\* save, delivery after it), there is one response: that of the last exchange.
\* A result of an earlier life of the request ID never shows up.
OneResponse ==
    \A r \in Request : \A res \in ResultsInSight(r) :
        /\ res.era = era[r]
        /\ res.state = "http_completed" => res.exchange = sends[r]

\* A finished row has a delivery with exactly its result, and only a finished
\* row has one: SaveHTTPResult and RecoverExpiredDispatches write both in one
\* transaction, whichever of them comes first.
ResultHasDelivery ==
    \A r \in Request :
        /\ status[r] \in Finished <=> delivery[r] # "none"
        /\ result[r] = payload[r]

\* Nothing is put on the wire after any answer has been published, and only
\* while the row says so: the client may rely on "unknown" as final.
NoSendAfterAnswer ==
    [][\A r \in Request :
          sends'[r] > sends[r] => answers[r] = {} /\ status[r] = "dispatching"]_vars

\* Until the retention ends, a finished request stays finished and its result
\* and delivery payload never change, whatever late saves, recoveries,
\* duplicates and ACKs arrive.
FinishedIsFinal ==
    [][\A r \in Request :
          status[r] \in Finished /\ era'[r] = era[r]
              => /\ status'[r] \in Finished
                 /\ result'[r] = result[r]
                 /\ payload'[r] = payload[r]]_vars

\* A result delivery that is not acknowledged is not deleted.
UndeliveredKept ==
    [][\A r \in Request : delivery[r] = "open" => delivery'[r] # "none"]_vars

\* The queue implements the promise.
Busy(r) == \E w \in Worker : pc[w] = "http" /\ op[w].request = r
Promise == INSTANCE OutgoingPromise WITH busy <- [r \in Request |-> Busy(r)]
KeepsPromise == Promise!Spec

--------------------------------------------------------------------------------
(* The inductive invariant behind the properties.                          *)

\* w is active and the row of its request carries its token.
Holds(w) == Active(w) /\ token[op[w].request] = op[w].token

\* A result that the current life of r may show.
Genuine(r, res) ==
    /\ res \in Result
    /\ res.era = era[r]
    /\ res.state = "unknown" => res.exchange = 0
    /\ res.state = "http_completed" => sends[r] > 0 /\ res.exchange = sends[r]

\* The row and its deliveries agree with each other.
RowOK(r) ==
    /\ status[r] = "absent" <=> wire[r] = Null
    /\ status[r] = "absent" => attempts[r] = 0
    /\ token[r] # Null <=> status[r] \in {"reserved", "dispatching"}
    /\ status[r] \in Finished <=> delivery[r] # "none"
    /\ result[r] = payload[r]
    /\ status[r] \in Finished => Genuine(r, result[r])
    /\ status[r] \notin Finished => result[r] = Null

\* Every exchange was announced in attempts, and attempts respects the policy;
\* a row that may still be dispatched has an attempt left.
AttemptsOK(r) ==
    /\ sends[r] <= attempts[r]
    /\ wire[r] # Null => attempts[r] <= AttemptLimit(wire[r])
    /\ status[r] \in {"awaiting_acceptance_ack", "ready", "reserved", "retry_wait"}
          => attempts[r] < AttemptLimit(wire[r])

\* Answers are genuine, and there is none before the exchanges are over.
AnswersOK(r) ==
    /\ \A res \in answers[r] : Genuine(r, res)
    /\ answers[r] # {} /\ status[r] \notin Finished
          => /\ status[r] = "dispatching"
             /\ \A w \in Worker : Holds(w) /\ op[w].request = r => pc[w] = "save"

\* What a worker remembers agrees with its row for as long as it holds it.
HolderOK(w) ==
    LET r == op[w].request IN
    Holds(w) =>
        /\ op[w].era = era[r]
        /\ op[w].wire = wire[r]
        /\ IF pc[w] = "reserved"
             THEN status[r] = "reserved" /\ attempts[r] = op[w].attempts
             ELSE status[r] = "dispatching" /\ attempts[r] = op[w].attempts + 1

\* A worker in the exchange holds its row; one with a result holds it or finds
\* it finished, unless the row is of a later life of the request ID.
PhaseOK(w) ==
    LET r == op[w].request IN
    /\ Active(w) => op[w] \in Operation /\ op[w].era <= era[r]
    /\ pc[w] \in {"begun", "http"} => Holds(w)
    /\ pc[w] = "begun" => sends[r] < attempts[r]
    /\ pc[w] = "http" => sends[r] > 0
    /\ pc[w] = "retry" => op[w].attempts + 1 < AttemptLimit(op[w].wire)
    /\ pc[w] = "publish" => op[w].era = era[r]
    /\ pc[w] \in {"publish", "save"} =>
          /\ outcome[w] \in Result
          /\ op[w].era = era[r] =>
                Genuine(r, outcome[w]) /\ (Holds(w) \/ status[r] \in Finished)

TokensOK ==
    \A v, w \in Worker :
        Active(v) /\ Active(w) /\ op[v].token = op[w].token => v = w

\* The queue and its workers agree at all times: rows, deliveries and history
\* match, and a worker's copy of a row is current for as long as it owns it.
IInv ==
    /\ TypeOK
    /\ TokensOK
    /\ \A r \in Request : RowOK(r) /\ AttemptsOK(r) /\ AnswersOK(r)
    /\ \A w \in Worker : HolderOK(w) /\ PhaseOK(w)

================================================================================
