----------------------------- MODULE OutgoingSystem ----------------------------
(***************************************************************************)
(* The outgoing direction end to end: a client library with its own        *)
(* database, core NATS, the transport handlers of the proxy and the queue  *)
(* of OutgoingQueue.  One client process runs any number of operations.    *)
(*                                                                         *)
(* net holds the messages in flight.  Core NATS loses messages and keeps   *)
(* none; every sender repeats its message until it hears the answer, so    *)
(* several copies may be under way and one of them may arrive late.        *)
(*  - With Lingering, a message once sent stays receivable for ever: any   *)
(*    number of copies, in any order, arbitrarily late.  A loss is a copy  *)
(*    nobody receives.  This is the medium for safety.                     *)
(*  - Without, a receipt removes the message and up to MaxLosses messages  *)
(*    vanish.  This is the medium for liveness.                            *)
(***************************************************************************)
EXTENDS OutgoingQueue

CONSTANTS
    Contents,       \* what the application may ask for
    Valid,          \* contents that pass validateRequest
    Lingering,      \* does a message stay in flight after a receipt?
    MaxLosses,      \* bound: messages lost
    MaxCalls,       \* bound: calls of the application for one request ID
    MaxRestarts,    \* bound: crashes of the client process
    MaxStoreErrors  \* bound: failed writes of the client database

ASSUME ContentsAssumption == Contents \subseteq Wire
ASSUME BoundsAssumption ==
    /\ Lingering \in BOOLEAN
    /\ {MaxLosses, MaxCalls, MaxRestarts, MaxStoreErrors} \subseteq Nat

VARIABLES
    store,      \* operations table of the client: state and result
    caller,     \* a start() loaded the operation and waits for c.mu
    resuming,   \* operations resumePending has still to start
    run,        \* where execute is
    accepted,   \* first unread element of the acceptance channel
    answer,     \* first unread element of the result channel
    confirmed,  \* the channel of the ACK in progress holds a confirmation
    net,
    contents,   \* what the application asks for under each request ID
    losses, calls, restarts, storeErrors    \* counters for the bounds

clientVars == <<store, caller, resuming, run, accepted, answer, confirmed>>
envVars == <<contents, losses, calls, restarts, storeErrors>>
sysVars == <<vars, clientVars, net, envVars>>

--------------------------------------------------------------------------------
StoreState == {"absent", "outgoing", "accepted", "result_saved", "complete"}

\* none: not running; offer: repeating the request; ackAcceptance, ackResult:
\* inside ackUntilConfirmed; wait: waiting for a result.
RunPC == {"none", "offer", "ackAcceptance", "wait", "ackResult"}

Message ==
    [type : {"request", "acceptance_ack", "result_ack", "accepted", "rejected",
             "acceptance_confirmed", "result_confirmed"}, request : Request]
    \cup [type : {"result"}, request : Request, result : Result]

Msg(type, r) == [type |-> type, request |-> r]
ResultMsg(r, res) == [type |-> "result", request |-> r, result |-> res]

\* The client's table, channels and messages keep their shape, together with
\* the queue they drive.
SystemTypeOK ==
    /\ TypeOK
    /\ store \in [Request -> [state : StoreState, result : Result \cup {Null}]]
    /\ caller \in [Request -> BOOLEAN]
    /\ resuming \in SUBSET Request
    /\ run \in [Request -> RunPC]
    /\ accepted \in [Request -> {"none", "accepted", "rejected"}]
    /\ answer \in [Request -> Result \cup {Null}]
    /\ confirmed \in [Request -> BOOLEAN]
    /\ net \in SUBSET Message
    /\ contents \in [Request -> Contents]
    /\ losses \in 0..MaxLosses
    /\ calls \in [Request -> 0..MaxCalls]
    /\ restarts \in 0..MaxRestarts
    /\ storeErrors \in 0..MaxStoreErrors

SystemInit ==
    /\ Init
    /\ store = [r \in Request |-> [state |-> "absent", result |-> Null]]
    /\ caller = [r \in Request |-> FALSE]
    /\ resuming = {}
    /\ run = [r \in Request |-> "none"]
    /\ accepted = [r \in Request |-> "none"]
    /\ answer = [r \in Request |-> Null]
    /\ confirmed = [r \in Request |-> FALSE]
    /\ net = {}
    /\ contents \in [Request -> Contents]
    /\ losses = 0
    /\ calls = [r \in Request |-> 0]
    /\ restarts = 0
    /\ storeErrors = 0

--------------------------------------------------------------------------------
(* Core NATS.                                                              *)

\* A copy of m is received and the messages out are published.
Exchange(m, out) ==
    /\ m \in net
    /\ net' = (IF Lingering THEN net ELSE net \ {m}) \cup out

Publish(m) == net' = net \cup {m}

Lose ==
    /\ losses < MaxLosses
    /\ losses' = losses + 1
    /\ \E m \in net : net' = net \ {m}
    /\ UNCHANGED <<vars, clientVars, contents, calls, restarts, storeErrors>>

--------------------------------------------------------------------------------
(* The transport handlers and the delivery loop of the proxy.              *)

\* validateRequest, or ErrRequestConflict.
Refused(r) ==
    \/ contents[r] \notin Valid
    \/ status[r] # "absent" /\ wire[r] # contents[r]

\* A rejection is published once and kept nowhere.
handleRequest(r) ==
    /\ \/ /\ Refused(r)
          /\ Exchange(Msg("request", r), {Msg("rejected", r)})
          /\ UNCHANGED vars
       \/ /\ ~Refused(r)
          /\ Exchange(Msg("request", r), {})
          /\ AcceptHTTPRequest(r, contents[r])
    /\ UNCHANGED <<clientVars, envVars>>

\* An ACK for a delivery that does not exist is not answered.
handleAcceptanceACK(r) ==
    /\ \/ /\ acceptance[r] # "none"
          /\ Exchange(Msg("acceptance_ack", r), {Msg("acceptance_confirmed", r)})
          /\ ConfirmAcceptance(r, contents[r].client)
       \/ /\ acceptance[r] = "none"
          /\ Exchange(Msg("acceptance_ack", r), {})
          /\ UNCHANGED vars
    /\ UNCHANGED <<clientVars, envVars>>

\* The result itself may have come directly, before its delivery row exists.
handleResultACK(r) ==
    /\ \/ /\ delivery[r] # "none"
          /\ Exchange(Msg("result_ack", r), {Msg("result_confirmed", r)})
          /\ ConfirmResult(r, contents[r].client)
       \/ /\ delivery[r] = "none"
          /\ Exchange(Msg("result_ack", r), {})
          /\ UNCHANGED vars
    /\ UNCHANGED <<clientVars, envVars>>

deliverAcceptance(r) ==
    /\ acceptance[r] = "open"
    /\ Publish(Msg("accepted", r))
    /\ UNCHANGED <<vars, clientVars, envVars>>

\* Mutant: a published result is taken for delivered.
deliverResult_Forgets(r) ==
    /\ delivery[r] = "open"
    /\ delivery' = [delivery EXCEPT ![r] = "acked"]
    /\ answers' = [answers EXCEPT ![r] = @ \cup {payload[r]}]
    /\ Publish(ResultMsg(r, payload[r]))
    /\ UNCHANGED <<rowVars, acceptance, payload, workerVars, era, sends>>
    /\ UNCHANGED <<clientVars, envVars>>

deliverResult(r) ==
    /\ DeliverResult(r)
    /\ Publish(ResultMsg(r, payload[r]))
    /\ UNCHANGED <<clientVars, envVars>>

publishDirect(w, sent) ==
    /\ PublishHTTPResult(w, sent)
    /\ IF sent THEN Publish(ResultMsg(op[w].request, outcome[w]))
               ELSE UNCHANGED net
    /\ UNCHANGED <<clientVars, envVars>>

\* A step of a worker or of maintenance that sends no message.
queueStep(A) == A /\ UNCHANGED <<clientVars, net, envVars>>

\* A signed message older than five minutes fails decode; so none of those about
\* a deleted request are received any more where signatures are required and the
\* retention is longer.  The model assumes both, config.Load demands neither.
cleanup(S) ==
    /\ Cleanup(S)
    /\ net' = {m \in net : m.request \notin S}
    /\ UNCHANGED <<clientVars, envVars>>

--------------------------------------------------------------------------------
(* The client library.                                                     *)

\* The handlers put a message into the channel of a running operation and drop
\* it when there is none or when the channel is full.  Each channel is read
\* once, so only its first element matters.
handleAcceptance(r, kind) ==
    /\ Exchange(Msg(kind, r), {})
    /\ accepted' = [accepted EXCEPT
          ![r] = IF run[r] = "offer" /\ @ = "none" THEN kind ELSE @]
    /\ UNCHANGED <<vars, store, caller, resuming, run, answer, confirmed, envVars>>

handleResult(r) ==
    /\ \E m \in net :
          /\ m.type = "result" /\ m.request = r
          /\ Exchange(m, {})
          /\ answer' = [answer EXCEPT
                ![r] = IF run[r] \in {"offer", "ackAcceptance", "wait"} /\ @ = Null
                         THEN m.result ELSE @]
    /\ UNCHANGED <<vars, store, caller, resuming, run, accepted, confirmed, envVars>>

\* Mutant: the channel is found by request, not by delivery.
handleConfirmed_AnyPhase(r, kind, phase) ==
    /\ Exchange(Msg(kind, r), {})
    /\ confirmed' = [confirmed EXCEPT ![r] = @ \/ run[r] # "none"]
    /\ UNCHANGED <<vars, store, caller, resuming, run, accepted, answer, envVars>>

\* The channel exists only while its own ACK is in progress: kind is the
\* confirmation, phase the ACK it belongs to.
handleConfirmed(r, kind, phase) ==
    /\ Exchange(Msg(kind, r), {})
    /\ confirmed' = [confirmed EXCEPT ![r] = @ \/ run[r] = phase]
    /\ UNCHANGED <<vars, store, caller, resuming, run, accepted, answer, envVars>>

acceptanceConfirmation(r) ==
    handleConfirmed(r, "acceptance_confirmed", "ackAcceptance")
resultConfirmation(r) == handleConfirmed(r, "result_confirmed", "ackResult")

\* ON CONFLICT DO NOTHING.
SaveOutgoing(r) ==
    store' = [store EXCEPT ![r].state = IF @ = "absent" THEN "outgoing" ELSE @]

MarkAccepted(r) ==
    store' = [store EXCEPT ![r].state = IF @ = "outgoing" THEN "accepted" ELSE @]

MarkComplete(r) == store' = [store EXCEPT ![r].state = "complete"]

\* What start loads: a complete operation is answered from the store at once.
LoadsComplete(r) == store[r].state = "complete"

beginStart(r) ==
    /\ ~LoadsComplete(r)
    /\ ~caller[r]
    /\ SaveOutgoing(r)
    /\ caller' = [caller EXCEPT ![r] = TRUE]
    /\ UNCHANGED <<vars, run, accepted, answer, confirmed, net, contents, losses,
                   restarts, storeErrors>>

\* The application calls RoundTrip or Do.
call(r) ==
    /\ calls[r] < MaxCalls
    /\ calls' = [calls EXCEPT ![r] = @ + 1]
    /\ beginStart(r)
    /\ UNCHANGED resuming

resumePending(r) ==
    /\ r \in resuming
    /\ resuming' = resuming \ {r}
    /\ beginStart(r)
    /\ UNCHANGED calls

\* The rest of start, under c.mu: join the running operation or run it.  The
\* state that was loaded may be out of date by now.  Like every loop of the
\* client, execute publishes before it listens.
launch(r) ==
    /\ caller[r]
    /\ caller' = [caller EXCEPT ![r] = FALSE]
    /\ \/ /\ run[r] = "none"
          /\ run' = [run EXCEPT ![r] = "offer"]
          /\ Publish(Msg("request", r))
       \/ run[r] # "none" /\ UNCHANGED <<run, net>>
    /\ UNCHANGED <<vars, store, resuming, accepted, answer, confirmed, envVars>>

\* The timer fires: the request is published again.
publishRequest(r) ==
    /\ run[r] = "offer"
    /\ Publish(Msg("request", r))
    /\ UNCHANGED <<vars, clientVars, envVars>>

\* execute returns: its channels are removed.
Return(r) ==
    /\ run' = [run EXCEPT ![r] = "none"]
    /\ accepted' = [accepted EXCEPT ![r] = "none"]
    /\ answer' = [answer EXCEPT ![r] = Null]
    /\ confirmed' = [confirmed EXCEPT ![r] = FALSE]

\* The error goes to the caller; the stored operation stays "outgoing".
takeRejection(r) ==
    /\ run[r] = "offer"
    /\ accepted[r] = "rejected"
    /\ Return(r)
    /\ UNCHANGED <<vars, store, caller, resuming, net, envVars>>

takeAcceptance(r) ==
    /\ run[r] = "offer"
    /\ accepted[r] = "accepted"
    /\ MarkAccepted(r)
    /\ run' = [run EXCEPT ![r] = "ackAcceptance"]
    /\ accepted' = [accepted EXCEPT ![r] = "none"]
    /\ Publish(Msg("acceptance_ack", r))
    /\ UNCHANGED <<vars, caller, resuming, answer, confirmed, envVars>>

ackAcceptance(r) ==
    /\ run[r] = "ackAcceptance"
    /\ Publish(Msg("acceptance_ack", r))
    /\ UNCHANGED <<vars, clientVars, envVars>>

acceptanceConfirmed(r) ==
    /\ run[r] = "ackAcceptance"
    /\ confirmed[r]
    /\ run' = [run EXCEPT ![r] = "wait"]
    /\ confirmed' = [confirmed EXCEPT ![r] = FALSE]
    /\ UNCHANGED <<vars, store, caller, resuming, accepted, answer, net, envVars>>

KeepsSaved_Never(old, new) == FALSE     \* mutant: the last result wins

\* A known result is not replaced by "unknown"; the row then stays as it is.
KeepsSaved(old, new) ==
    old # Null /\ old.state # "unknown" /\ new.state = "unknown"

SaveResult_Lost(r, new) == UNCHANGED store  \* mutant: the save is skipped

SaveResult(r, new) ==
    store' = [store EXCEPT ![r] =
                IF KeepsSaved(@.result, new) THEN @
                ELSE [state |-> "result_saved", result |-> new]]

takeResult(r) ==
    /\ run[r] = "wait"
    /\ answer[r] # Null
    /\ SaveResult(r, answer[r])
    /\ run' = [run EXCEPT ![r] = "ackResult"]
    /\ answer' = [answer EXCEPT ![r] = Null]
    /\ Publish(Msg("result_ack", r))
    /\ UNCHANGED <<vars, caller, resuming, accepted, confirmed, envVars>>

ackResult(r) ==
    /\ run[r] = "ackResult"
    /\ Publish(Msg("result_ack", r))
    /\ UNCHANGED <<vars, clientVars, envVars>>

\* execute returns the saved result.
resultConfirmed(r) ==
    /\ run[r] = "ackResult"
    /\ confirmed[r]
    /\ MarkComplete(r)
    /\ Return(r)
    /\ UNCHANGED <<vars, caller, resuming, net, envVars>>

\* MarkAccepted, SaveResult or MarkComplete fails: execute gives up.
storeFails(r) ==
    /\ storeErrors < MaxStoreErrors
    /\ storeErrors' = storeErrors + 1
    /\ \/ run[r] = "offer" /\ accepted[r] = "accepted"
       \/ run[r] = "wait" /\ answer[r] # Null
       \/ run[r] = "ackResult" /\ confirmed[r]
    /\ Return(r)
    /\ UNCHANGED <<vars, store, caller, resuming, net, contents, losses, calls, restarts>>

Pending == {r \in Request : store[r].state \notin {"absent", "complete"}}

\* The process dies and comes back; resumePending starts what is not complete,
\* or nothing when ListPending fails.
restart ==
    /\ restarts < MaxRestarts
    /\ restarts' = restarts + 1
    /\ \/ resuming' = Pending /\ UNCHANGED storeErrors
       \/ /\ storeErrors < MaxStoreErrors
          /\ storeErrors' = storeErrors + 1
          /\ resuming' = {}
    /\ caller' = [r \in Request |-> FALSE]
    /\ run' = [r \in Request |-> "none"]
    /\ accepted' = [r \in Request |-> "none"]
    /\ answer' = [r \in Request |-> Null]
    /\ confirmed' = [r \in Request |-> FALSE]
    /\ UNCHANGED <<vars, store, net, contents, losses, calls>>

--------------------------------------------------------------------------------
ProxyStep ==
    \/ \E w \in Worker : queueStep(SilentStep(w)) \/ queueStep(Stop(w))
    \/ \E S \in SUBSET Request :
          queueStep(RecoverExpiredDispatches(S)) \/ cleanup(S)
    \/ \E w \in Worker, sent \in BOOLEAN : publishDirect(w, sent)
    \/ \E r \in Request : \/ handleRequest(r) \/ handleAcceptanceACK(r)
                          \/ handleResultACK(r)
                          \/ deliverAcceptance(r) \/ deliverResult(r)

ClientStep ==
    \/ \E r \in Request :
          \/ handleAcceptance(r, "accepted") \/ handleAcceptance(r, "rejected")
          \/ handleResult(r)
          \/ acceptanceConfirmation(r) \/ resultConfirmation(r)
          \/ call(r) \/ resumePending(r) \/ launch(r) \/ publishRequest(r)
          \/ takeRejection(r) \/ takeAcceptance(r)
          \/ ackAcceptance(r) \/ acceptanceConfirmed(r)
          \/ takeResult(r) \/ ackResult(r) \/ resultConfirmed(r)
          \/ storeFails(r)
    \/ restart

SystemNext == ProxyStep \/ ClientStep \/ Lose

SystemSpec == SystemInit /\ [][SystemNext]_sysVars

--------------------------------------------------------------------------------
(* Fairness: goroutines go on, tickers fire, a message that is not lost is *)
(* received, and a database call tried again and again succeeds at last.   *)
(* The application, restarts, crashes of workers and losses are not fair.  *)

Reserved(w) ==
    \E r \in Request, t \in Token : ReserveRequest(w, r, t) /\ pc'[w] = "reserved"

QueueFairness ==
    /\ \A w \in Worker :
          /\ WF_sysVars(\/ Active(w) /\ queueStep(SilentStep(w))
                        \/ \E sent \in BOOLEAN : publishDirect(w, sent))
          /\ SF_sysVars(queueStep(Reserved(w)))
          /\ SF_sysVars(queueStep(BeginDispatch(w)))
    /\ \A r \in Request :
          WF_sysVars(\E S \in SUBSET Request :
                        r \in S /\ queueStep(RecoverExpiredDispatches(S)))

\* The steps of one goroutine exclude each other.
ProtocolFairness ==
    \A r \in Request :
        /\ WF_sysVars(publishRequest(r) \/ ackAcceptance(r) \/ ackResult(r))
        /\ WF_sysVars(\/ takeAcceptance(r) \/ takeRejection(r) \/ acceptanceConfirmed(r)
                      \/ takeResult(r) \/ resultConfirmed(r))
        /\ WF_sysVars(launch(r) \/ resumePending(r))
        /\ WF_sysVars(deliverAcceptance(r)) /\ WF_sysVars(deliverResult(r))
        /\ WF_sysVars(handleRequest(r))
        /\ WF_sysVars(handleAcceptanceACK(r)) /\ WF_sysVars(handleResultACK(r))
        /\ WF_sysVars(handleAcceptance(r, "accepted") \/ handleAcceptance(r, "rejected"))
        /\ WF_sysVars(handleResult(r))
        /\ WF_sysVars(acceptanceConfirmation(r)) /\ WF_sysVars(resultConfirmation(r))

FairSystemSpec == SystemSpec /\ QueueFairness /\ ProtocolFairness

--------------------------------------------------------------------------------
(* Properties.                                                             *)

\* Two-phase acceptance: as long as the proxy remembers the request, nothing
\* has been put on the wire unless the client has durably recorded that the
\* proxy accepted it (steps 6 to 10 of docs/logic.md).
SentOnlyIfAccepted ==
    \A r \in Request :
        sends[r] > 0 => store[r].state \in {"accepted", "result_saved", "complete"}

\* The proxy takes a result for delivered only when the client has saved one;
\* retention may then delete it.
DeliveredMeansSaved ==
    \A r \in Request : status[r] = "result_delivered" => store[r].result # Null

\* The client takes an operation for complete only when the proxy has recorded
\* the delivery of its result, in every life of the request ID: the row stays
\* closed until it is cleaned up, also when a late start offers it again and its
\* result is delivered once more.
CompleteMeansDelivered ==
    \A r \in Request :
        store[r].state = "complete" /\ store[r].result.era = era[r]
            => status[r] = "result_delivered"

\* A response the client has saved is replaced by nothing but the response of a
\* later life of the request ID, which there is only when the proxy has forgotten
\* the request and executed it again: no unknown, stale or repeated message
\* replaces it.  As long as the proxy remembers the request, the response is that
\* of its last exchange, however often the operation is offered again.
SavedResponseStands ==
    [][\A r \in Request :
          LET old == store[r].result
              new == store'[r].result
          IN  old # Null /\ old.state = "http_completed" =>
                 /\ new # old => new.state = "http_completed" /\ new.era > old.era
                 /\ old.era = era'[r] => old.exchange = sends'[r]]_sysVars

\* The system only adds to the queue: every step of it is a step of the queue.
QueueSpec == Spec

\* A row is dispatching, or a worker is at it.
InHand(r) == status[r] = "dispatching" \/ \E w \in Worker : Active(w) /\ op[w].request = r

\* An operation that was stored and offered to the proxy comes to its end on
\* both sides.  The client gets its result; the row does not stay dispatching
\* when its worker dies or cannot save (RecoverExpiredDispatches), and the save
\* loop lets go of a row that somebody else has finished (worker execute).  One
\* the proxy refuses is reported to the caller, also when the rejection, which
\* is kept nowhere, is lost: the offer is repeated and refused again
\* (handleRequest of the transport, execute of the client).
OperationEnds ==
    \A r \in Request :
        run[r] = "offer" ~> \/ store[r].state = "complete" /\ ~InHand(r)
                            \/ contents[r] \notin Valid /\ run[r] = "none"

\* An operation found incomplete after a restart of the client is brought to
\* its end ("the operation ... is restored after a restart of the client",
\* wiki/requirements.md).
ResumedOperationEnds ==
    \A r \in Request : r \in resuming ~> store[r].state = "complete"

\* Nothing is put on the wire for an operation whose response the client has
\* saved: repeating a NATS message does not create a new HTTP request
\* (docs/logic.md).
SavedNotExecutedAgain ==
    [][\A r \in Request :
          sends'[r] > sends[r]
              => store[r].result = Null \/ store[r].result.state = "unknown"]_sysVars

--------------------------------------------------------------------------------
(* The inductive invariant behind the properties.                          *)

\* The client has durably recorded that the proxy accepted the request.
Recorded(r) == store[r].state \in {"accepted", "result_saved", "complete"}

\* What a message says is true when it arrives, however late.
NetOK ==
    \A m \in net :
        /\ m.type = "acceptance_ack" => Recorded(m.request)
        /\ m.type = "result_ack" => store[m.request].result # Null
        /\ m.type = "result_confirmed" => status[m.request] = "result_delivered"
        /\ m.type = "result" => m.result \in answers[m.request]

\* Where execute is says what the table of the client holds; a confirmation that
\* is waiting belongs to the ACK in progress.
ExecuteOK(r) ==
    /\ caller[r] \/ run[r] # "none" => store[r].state # "absent"
    /\ run[r] \in {"ackAcceptance", "wait", "ackResult"} => Recorded(r)
    /\ run[r] = "ackResult" => store[r].result # Null
    /\ confirmed[r] => run[r] \in {"ackAcceptance", "ackResult"}
    /\ confirmed[r] /\ run[r] = "ackResult" /\ store[r].result.era = era[r]
          => status[r] = "result_delivered"

\* The row of the proxy is never ahead of the table of the client by a phase.
PhasesAgree(r) ==
    /\ status[r] \in {"absent", "awaiting_acceptance_ack"} => sends[r] = 0
    /\ status[r] \notin {"absent", "awaiting_acceptance_ack"} => Recorded(r)
    /\ status[r] = "result_delivered" => store[r].result # Null
    /\ store[r].state = "complete" => store[r].result # Null
    /\ store[r].state = "complete" /\ store[r].result.era = era[r]
          => status[r] = "result_delivered"

\* A result the client has was published in this life of the request ID or in an
\* earlier one; the channel is not behind the table, and does not differ from it
\* about the response of a life.
ResultsAgree(r) ==
    /\ \A res \in {store[r].result, answer[r]} \ {Null} :
          res.era <= era[r] /\ (res.era = era[r] => res \in answers[r])
    /\ store[r].result # Null /\ answer[r] # Null =>
          LET old == store[r].result
              new == answer[r]
          IN  /\ old.era <= new.era
              /\ old.era = new.era /\ {old.state, new.state} = {"http_completed"}
                    => old = new

\* The client, the messages under way and the queue agree about every request.
SystemInv ==
    /\ SystemTypeOK
    /\ IInv
    /\ NetOK
    /\ \A r \in Request : ExecuteOK(r) /\ PhasesAgree(r) /\ ResultsAgree(r)

================================================================================
