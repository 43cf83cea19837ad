----------------------------- MODULE CallbackEvents ----------------------------
(***************************************************************************)
(* Events of the callback direction: the public HTTP request, the event    *)
(* and its deliveries in the database of the proxy, core NATS, and the     *)
(* processes of the clients with the callback store they share.            *)
(*                                                                         *)
(* A receipt takes a message out of net; senders repeat theirs, so copies  *)
(* may arrive when the exchange they belong to is long over.  Messages of  *)
(* the queue group of a client reach one of its processes, confirmations   *)
(* reach each.                                                             *)
(***************************************************************************)
EXTENDS CallbackRoutes, DeliveryLoop

CONSTANTS
    Event,
    Hook,           \* the webhook an event comes in on
    Process,
    OwnerOf,        \* the client a process belongs to
    Response,
    Handler,        \* what the handler of a process may answer
    CallbackWorkers,
    Change,         \* commands that change the routes meanwhile
    MaxUpsets       \* bound: such commands, messages lost, database errors,
                    \* crashes, rows grown old

\* A delivery belongs to one event and one client.
ASSUME EventsAssumption ==
    /\ Delivery = Event \X Client
    /\ Hook \in [Event -> Webhook]
    /\ OwnerOf \in [Process -> Client]
    /\ None \notin Response
    /\ Handler \in [Process -> SUBSET Response]
    /\ \A p \in Change : p \in Payload

VARIABLES
    event,          \* rows of proxy_webhook_events
    http,           \* where the HTTP request of each event is
    seen,           \* the route it has read
    waiter,         \* the response handed to it
    dead,           \* events whose reply subject has no listener any more
    callback,       \* rows of the callback store of the client
    run,            \* what a process is doing about a delivery
    handled,        \* ghost: handler runs in the present life of a process
    net,
    upsets          \* counter for the bound

requestVars == <<http, seen, waiter>>
processVars == <<callback, run, handled>>
proxyVars == <<event, requestVars, dead, delivery>>
eventVars == <<routeVars, proxyVars, processVars, net, upsets>>

--------------------------------------------------------------------------------
EventRow ==
    [status : {"received", "awaiting_response", "responded", "timed_out"},
     replyTo : Client \cup {None}, response : Response \cup {None}]

CallbackRow == [response : Response \cup {None}, completed : BOOLEAN]

\* A response is repeated until it is saved here and confirmed by the proxy; an
\* ACK, which has no response, until it is confirmed.  closed: the callback was
\* completed already, nothing is left to be marked.  worker: a run that came with
\* a message and not with the start of the process.
Run ==
    [response : Response \cup {None}, saved : BOOLEAN, confirmed : BOOLEAN,
     closed : BOOLEAN, worker : BOOLEAN]

ASSUME RowAssumption == None \notin EventRow /\ None \notin CallbackRow /\ None \notin Run

EventMsg(d, reply) == [type |-> "event", delivery |-> d, reply |-> reply]
ResponseMsg(d, r) == [type |-> "response", delivery |-> d, response |-> r]
AckMsg(d) == [type |-> "ack", delivery |-> d]
ConfirmedMsg(d, p) == [type |-> "confirmed", delivery |-> d, process |-> p]

Message ==
    [type : {"event"}, delivery : Delivery, reply : BOOLEAN]
    \cup [type : {"response"}, delivery : Delivery, response : Response]
    \cup [type : {"ack"}, delivery : Delivery]
    \cup [type : {"confirmed"}, delivery : Delivery, process : Process]

\* Rows, requests, runs and messages keep their shape; an event has a response
\* exactly when it is responded.
EventsTypeOK ==
    /\ RoutesOK
    /\ event \in [Event -> EventRow \cup {None}]
    /\ \A e \in Event : event[e] # None =>
          (event[e].response # None <=> event[e].status = "responded")
    /\ delivery \in [Delivery -> RowState]
    /\ \A d \in Delivery : delivery[d] # "none" => event[d[1]] # None
    /\ http \in [Event -> {"none", "refused", "read", "waiting", "static", "answered",
                           "failed", "gone"}]
    /\ seen \in [Event -> Route \cup {None}]
    /\ waiter \in [Event -> Response \cup {None}]
    /\ dead \subseteq Event
    /\ callback \in [Delivery -> CallbackRow \cup {None}]
    /\ run \in [Process -> [Delivery -> Run \cup {None}]]
    /\ net \subseteq Message

EventsInit ==
    /\ RoutesOK
    /\ DeliveriesInit
    /\ event = [e \in Event |-> None]
    /\ http = [e \in Event |-> "none"]
    /\ seen = [e \in Event |-> None]
    /\ waiter = [e \in Event |-> None]
    /\ dead = {}
    /\ callback = [d \in Delivery |-> None]
    /\ run = [p \in Process |-> [d \in Delivery |-> None]]
    /\ handled = [p \in Process |-> [d \in Delivery |-> 0]]
    /\ net = {}
    /\ upsets = 0

--------------------------------------------------------------------------------
(* Core NATS.                                                              *)

Receive(m) == m \in net /\ net' = net \ {m}
Answer(m, replies) == m \in net /\ net' = (net \ {m}) \cup replies

Confirmations(d) == {ConfirmedMsg(d, p) : p \in {q \in Process : OwnerOf[q] = d[2]}}

Upset == upsets < MaxUpsets /\ upsets' = upsets + 1

Lose ==
    /\ Upset
    /\ \E m \in net : Receive(m)
    /\ UNCHANGED <<routeVars, proxyVars, processVars>>

--------------------------------------------------------------------------------
(* The proxy: the HTTP request (webhook, DeliverWebhook).                  *)

RouteOf(e) == route[Hook[e]]

NotFound(e) == RouteOf(e) = None \/ ~RouteOf(e).enabled

\* A wrong token, a body too large and a route that cannot be read are refused
\* as well.
GetWebhookRoute(e) ==
    /\ http[e] = "none"
    /\ \/ http' = [http EXCEPT ![e] = "refused"] /\ UNCHANGED seen
       \/ /\ ~NotFound(e)
          /\ http' = [http EXCEPT ![e] = "read"]
          /\ seen' = [seen EXCEPT ![e] = RouteOf(e)]
    /\ UNCHANGED <<routeVars, event, waiter, dead, delivery, processVars, net, upsets>>

Delegated(e) == seen[e].mode = "delegated"

\* The subscribers are those of now, mode and responder those of the route read
\* before.
Recipients(e) ==
    subscribers[Hook[e]] \cup IF Delegated(e) THEN {seen[e].responder} ELSE {}

SaveWebhookEvent(e) ==
    /\ event' = [event EXCEPT ![e] =
                   [status |-> IF Delegated(e) THEN "awaiting_response" ELSE "received",
                    replyTo |-> IF Delegated(e) THEN seen[e].responder ELSE None,
                    response |-> None]]
    /\ delivery' = [d \in Delivery |->
                      IF d[1] = e /\ d[2] \in Recipients(e) THEN "open" ELSE delivery[d]]

\* The waiter is there before the event is saved.  The first delivery to the
\* responder does not wait for the loop.
DeliverWebhook(e) ==
    /\ http[e] = "read"
    /\ SaveWebhookEvent(e)
    /\ http' = [http EXCEPT ![e] = IF Delegated(e) THEN "waiting" ELSE "static"]
    /\ seen' = [seen EXCEPT ![e] = None]
    /\ net' = net \cup IF Delegated(e) THEN {EventMsg(<<e, seen[e].responder>>, TRUE)} ELSE {}
    /\ UNCHANGED <<routeVars, waiter, dead, processVars, upsets>>

\* The event is not saved, or it is and the reply of the commit is lost: the
\* caller is told that it failed.
SaveFails(e) ==
    /\ Upset
    /\ http[e] = "read"
    /\ SaveWebhookEvent(e) \/ UNCHANGED <<event, delivery>>
    /\ http' = [http EXCEPT ![e] = "failed"]
    /\ seen' = [seen EXCEPT ![e] = None]
    /\ UNCHANGED <<routeVars, waiter, dead, processVars, net>>

WaiterAnswers(e) ==
    /\ http[e] = "waiting" /\ waiter[e] # None
    /\ http' = [http EXCEPT ![e] = "answered"]
    /\ UNCHANGED <<routeVars, event, seen, waiter, dead, delivery, processVars, net, upsets>>

\* Mutant: the status is not looked at.
MarkWebhookTimedOut_Always(e) ==
    /\ event' = [event EXCEPT ![e].status = "timed_out"]
    /\ UNCHANGED delivery

\* Mutant: the deliveries stay open.
MarkWebhookTimedOut_EventOnly(e) ==
    /\ event' = [event EXCEPT ![e].status =
                   IF @ = "awaiting_response" THEN "timed_out" ELSE @]
    /\ UNCHANGED delivery

\* The deliveries of the client that is the responder by now are closed.
MarkWebhookTimedOut(e) ==
    /\ event' = [event EXCEPT ![e].status =
                   IF @ = "awaiting_response" THEN "timed_out" ELSE @]
    /\ delivery' = [d \in Delivery |->
                      IF d[1] = e /\ delivery[d] = "open" /\ d[2] = RouteOf(e).responder
                      THEN "acked" ELSE delivery[d]]

\* The response timeout, or a caller that has gone.  A response in the channel
\* may be overtaken, and an error of the database is ignored.
WaiterTimesOut(e) ==
    /\ http[e] = "waiting"
    /\ \/ MarkWebhookTimedOut(e) /\ UNCHANGED upsets
       \/ Upset /\ UNCHANGED <<event, delivery>>
    /\ http' = [http EXCEPT ![e] = "failed"]
    /\ waiter' = [waiter EXCEPT ![e] = None]
    /\ UNCHANGED <<routeVars, seen, dead, processVars, net>>

\* The instance dies, a failed reschedule included.  It comes back under its
\* name, or another takes its place and nobody listens to its reply subject.
InstanceDies ==
    /\ Upset
    /\ http' = [e \in Event |-> IF http[e] \in {"read", "waiting"} THEN "gone" ELSE http[e]]
    /\ seen' = [e \in Event |-> None]
    /\ waiter' = [e \in Event |-> IF http[e] = "waiting" THEN None ELSE waiter[e]]
    /\ dead' \in {dead, dead \cup {e \in Event : event[e] # None}}
    /\ UNCHANGED <<routeVars, event, delivery, processVars, net>>

--------------------------------------------------------------------------------
(* The proxy: handlers, delivery loop, cleanup and commands.               *)

\* Mutant: a second response replaces the first.
Accepts_Other(d, r) ==
    /\ delivery[d] # "none"
    /\ RouteOf(d[1]).mode = "delegated" /\ RouteOf(d[1]).responder = d[2]
    /\ event[d[1]].status \in {"awaiting_response", "responded"}

\* SaveWebhookResponse: the route is that of now.
Accepts(d, r) ==
    /\ delivery[d] # "none"
    /\ RouteOf(d[1]).mode = "delegated" /\ RouteOf(d[1]).responder = d[2]
    /\ \/ event[d[1]].status = "awaiting_response"
       \/ event[d[1]].status = "responded" /\ event[d[1]].response = r

\* A refused response is not confirmed.
handleWebhookResponse(d, r) ==
    /\ \/ /\ d[1] \notin dead /\ Accepts(d, r)
          /\ Answer(ResponseMsg(d, r), Confirmations(d))
          /\ event' = [event EXCEPT ![d[1]].status = "responded", ![d[1]].response = r]
          /\ Acknowledge(d)
          /\ waiter' = [waiter EXCEPT ![d[1]] =
                          IF http[d[1]] = "waiting" /\ @ = None THEN r ELSE @]
       \/ /\ ~(d[1] \notin dead /\ Accepts(d, r))
          /\ Receive(ResponseMsg(d, r))
          /\ UNCHANGED <<event, delivery, waiter>>
    /\ UNCHANGED <<routeVars, http, seen, dead, processVars, upsets>>

handleWebhookACK(d) ==
    /\ \/ /\ delivery[d] # "none"
          /\ Answer(AckMsg(d), Confirmations(d))
          /\ Acknowledge(d)
       \/ delivery[d] = "none" /\ Receive(AckMsg(d)) /\ UNCHANGED delivery
    /\ UNCHANGED <<routeVars, event, requestVars, dead, processVars, upsets>>

publishDelivery(d) ==
    /\ DeliveryRound(d)
    /\ net' = net \cup {EventMsg(d, event[d[1]].replyTo = d[2])}
    /\ UNCHANGED <<routeVars, event, requestVars, dead, processVars, upsets>>

\* An event older than the retention, with nothing left to deliver.  The
\* retention is taken to be longer than a message is accepted, so none about the
\* event is still on its way (config.Load sets no minimum).
cleanupEvent(e) ==
    /\ Upset
    /\ event[e] # None /\ http[e] # "waiting"
    /\ \A d \in Delivery : d[1] = e => delivery[d] # "open"
    /\ event' = [event EXCEPT ![e] = None]
    /\ delivery' = [d \in Delivery |-> IF d[1] = e THEN "none" ELSE delivery[d]]
    /\ net' = {m \in net : m.delivery[1] # e}
    /\ UNCHANGED <<routeVars, requestVars, dead, processVars>>

\* A command of the owner; CallbackControl has the protocol.
changeRoute(p) ==
    /\ Upset
    /\ route[p.webhook] # None
    /\ Apply(route[p.webhook].owner, p, "done")
    /\ UNCHANGED <<proxyVars, processVars, net>>

--------------------------------------------------------------------------------
(* The processes of the clients.                                           *)

Outgoing(d, r) == IF r = None THEN AckMsg(d) ELSE ResponseMsg(d, r)

NewRow == [response |-> None, completed |-> FALSE]

\* What SaveCallback returns.
StoredCallback(d) == IF callback[d] = None THEN NewRow ELSE callback[d]

NeedsHandler(d) == ~StoredCallback(d).completed /\ StoredCallback(d).response = None

\* What a process may send for a delivery it has received: a completed one is
\* confirmed, a saved response sent again, the handler called otherwise.
ToSend(p, d, reply) ==
    CASE StoredCallback(d).completed \/ ~reply -> {None}
      [] StoredCallback(d).response # None -> {StoredCallback(d).response}
      [] OTHER -> Handler[p]

BusyWorkers(p) == {d \in Delivery : run[p][d] # None /\ run[p][d].worker}

\* Mutant: a delivery that is already running is handled once more.
beginCallback_Always(p, d) == TRUE

beginCallback(p, d) == run[p][d] = None

\* handleCallback up to the first publication.  What other processes do between
\* its steps looks the same as a publication that is slow to arrive.
handleCallback(p, d, reply) ==
    /\ OwnerOf[p] = d[2]
    /\ Cardinality(BusyWorkers(p)) < CallbackWorkers
    /\ beginCallback(p, d)
    /\ callback' = [callback EXCEPT ![d] = StoredCallback(d)]
    /\ \E r \in ToSend(p, d, reply) :
          /\ run' = [run EXCEPT ![p][d] =
                       [response |-> r, saved |-> r = None \/ ~NeedsHandler(d),
                        confirmed |-> FALSE, closed |-> StoredCallback(d).completed,
                        worker |-> TRUE]]
          /\ Answer(EventMsg(d, reply), {Outgoing(d, r)})
    /\ handled' = [handled EXCEPT ![p][d] = IF NeedsHandler(d) THEN @ + 1 ELSE @]
    /\ UNCHANGED <<routeVars, proxyVars, upsets>>

\* Nothing is done for a delivery that is running, nor when no worker is free
\* and the queue is full; the proxy delivers it again.
dropCallback(p, d, reply) ==
    /\ OwnerOf[p] = d[2]
    /\ ~beginCallback(p, d) \/ Cardinality(BusyWorkers(p)) >= CallbackWorkers
    /\ Receive(EventMsg(d, reply))
    /\ UNCHANGED <<routeVars, proxyVars, processVars, upsets>>

NoConflict(d, r) == callback[d] # None /\ callback[d].response \in {None, r}

\* A response that differs from the one saved by another run ends this run.
SaveCallbackResponse(p, d) ==
    /\ run[p][d] # None /\ ~run[p][d].saved
    /\ \/ /\ NoConflict(d, run[p][d].response)
          /\ callback' = [callback EXCEPT ![d].response = run[p][d].response]
          /\ run' = [run EXCEPT ![p][d].saved = TRUE]
       \/ /\ ~NoConflict(d, run[p][d].response)
          /\ run' = [run EXCEPT ![p][d] = None]
          /\ UNCHANGED callback
    /\ UNCHANGED <<routeVars, proxyVars, handled, net, upsets>>

publishAgain(p, d) ==
    /\ run[p][d] # None /\ ~run[p][d].confirmed
    /\ net' = net \cup {Outgoing(d, run[p][d].response)}
    /\ UNCHANGED <<routeVars, proxyVars, processVars, upsets>>

handleConfirmed(p, d) ==
    /\ Receive(ConfirmedMsg(d, p))
    /\ run' = IF run[p][d] = None THEN run ELSE [run EXCEPT ![p][d].confirmed = TRUE]
    /\ UNCHANGED <<routeVars, proxyVars, callback, handled, upsets>>

\* Mutant: a saved response is taken for a delivered one.
MarkCallbackComplete_Saved(p, d) ==
    /\ run[p][d] # None /\ run[p][d].saved
    /\ callback' = [callback EXCEPT ![d].completed = TRUE]
    /\ run' = [run EXCEPT ![p][d] = None]
    /\ UNCHANGED <<routeVars, proxyVars, handled, net, upsets>>

\* The end of a run.  A row that is gone cannot be marked, and it is tried for
\* ever.
MarkCallbackComplete(p, d) ==
    /\ run[p][d] # None /\ run[p][d].saved /\ run[p][d].confirmed
    /\ \/ run[p][d].closed /\ UNCHANGED callback
       \/ /\ ~run[p][d].closed /\ callback[d] # None
          /\ callback' = [callback EXCEPT ![d].completed = TRUE]
    /\ run' = [run EXCEPT ![p][d] = None]
    /\ UNCHANGED <<routeVars, proxyVars, handled, net, upsets>>

\* resumeCallbacks: saved responses that are not completed are sent again, each
\* outside the workers, if the list can be read.
Resumed(p) ==
    {d \in Delivery : /\ OwnerOf[p] = d[2] /\ callback[d] # None
                      /\ callback[d].response # None /\ ~callback[d].completed}

restartProcess(p) ==
    /\ Upset
    /\ \E D \in {Resumed(p), {}} :
          run' = [run EXCEPT ![p] = [d \in Delivery |->
                    IF d \in D
                    THEN [response |-> callback[d].response, saved |-> TRUE,
                          confirmed |-> FALSE, closed |-> FALSE, worker |-> FALSE]
                    ELSE None]]
    /\ handled' = [handled EXCEPT ![p] = [d \in Delivery |-> 0]]
    /\ UNCHANGED <<routeVars, proxyVars, callback, net>>

\* A completed callback older than the retention of the client, which is taken
\* to be longer than a delivery may be on its way (nothing checks it).
cleanupCallback(d) ==
    /\ Upset
    /\ callback[d] # None /\ callback[d].completed
    /\ callback' = [callback EXCEPT ![d] = None]
    /\ net' = {m \in net : ~(m.type = "event" /\ m.delivery = d)}
    /\ UNCHANGED <<routeVars, proxyVars, run, handled>>

--------------------------------------------------------------------------------
EventsNext ==
    \/ \E e \in Event :
          \/ GetWebhookRoute(e) \/ DeliverWebhook(e) \/ SaveFails(e)
          \/ WaiterAnswers(e) \/ WaiterTimesOut(e) \/ cleanupEvent(e)
    \/ InstanceDies
    \/ \E d \in Delivery, r \in Response : handleWebhookResponse(d, r)
    \/ \E d \in Delivery : handleWebhookACK(d) \/ publishDelivery(d) \/ cleanupCallback(d)
    \/ \E p \in Change : changeRoute(p)
    \/ \E p \in Process, d \in Delivery :
          \/ \E reply \in BOOLEAN : handleCallback(p, d, reply) \/ dropCallback(p, d, reply)
          \/ SaveCallbackResponse(p, d) \/ publishAgain(p, d)
          \/ handleConfirmed(p, d) \/ MarkCallbackComplete(p, d)
    \/ \E p \in Process : restartProcess(p)
    \/ Lose

EventsSpec == EventsInit /\ [][EventsNext]_eventVars

Mine(p) == {d \in Delivery : d[2] = OwnerOf[p]}

Served == UNION {Mine(p) : p \in Process}

\* Loops and handlers go on, timers fire, a message that is not lost is received
\* by one of the processes it is for, and processes that stop are started again.
\* Of requests, commands, failures and cleanup nothing is assumed.
EventsFairness ==
    /\ \A e \in Event : WF_eventVars(WaiterAnswers(e) \/ WaiterTimesOut(e))
    /\ \A d \in Served :
          /\ WF_eventVars(publishDelivery(d))
          /\ WF_eventVars(handleWebhookACK(d)
                          \/ \E r \in Response : handleWebhookResponse(d, r))
          /\ WF_eventVars(\E p \in Process, reply \in BOOLEAN :
                handleCallback(p, d, reply) \/ dropCallback(p, d, reply))
    /\ \A p \in Process : \A d \in Mine(p) :
          /\ WF_eventVars(SaveCallbackResponse(p, d) \/ MarkCallbackComplete(p, d)
                          \/ handleConfirmed(p, d))
          /\ WF_eventVars(publishAgain(p, d))

FairEventsSpec == EventsSpec /\ EventsFairness

--------------------------------------------------------------------------------
(* Properties.                                                             *)

\* The response an HTTP caller has been given is the one that is stored, and no
\* later one replaces it.
HTTPAnswerIsStored ==
    \A e \in Event :
        http[e] = "answered" /\ event[e] # None => event[e].response = waiter[e]

\* A client that has closed a delegated callback can rely on the proxy: the
\* event has a response.  Confirmations go to all processes of the client, and
\* those of an earlier life may come late.
CompleteMeansResponded ==
    \A e \in Event, c \in Client :
        /\ event[e] # None /\ event[e].replyTo = c
        /\ callback[<<e, c>>] # None /\ callback[<<e, c>>].completed
        => event[e].status = "responded"

\* A process calls its handler for a delivery again only if it was restarted,
\* however often the proxy delivers, and also when its store has forgotten the
\* callback.
HandledOncePerLife == \A p \in Process, d \in Delivery : handled[p][d] <= 1

\* A delivery is closed when its client has stored the event, or by the timeout
\* of the HTTP request.
AckedMeansKept ==
    [][\A d \in Delivery :
          delivery[d] = "open" /\ delivery'[d] = "acked"
          => callback[d] # None \/ (http[d[1]] = "waiting" /\ http'[d[1]] = "failed")]_eventVars

\* Nobody listens to the response, or the route has another responder by now.
Disowned(e) ==
    \/ e \in dead
    \/ RouteOf(e).mode # "delegated" \/ RouteOf(e).responder # event[e].replyTo

\* The event waits for its response.
Awaits(e) ==
    /\ event[e] # None /\ event[e].status = "awaiting_response"
    /\ <<e, event[e].replyTo>> \in Served
    /\ ~Disowned(e)

\* Its delivery is still repeated.
Repeats(e, c) ==
    /\ <<e, c>> \in Served /\ delivery[<<e, c>>] = "open"
    /\ ~(event[e].replyTo = c /\ Disowned(e))

\* An event comes to its end where its clients serve callbacks: no delivery stays
\* open for ever, and none waits for its response for ever, even if the instance
\* that waited for it has died or could not mark the timeout.  Excepted are the
\* events nobody can conclude any more (Disowned): the instance their deliveries
\* name as reply subject is gone, or their route has another responder or mode.
EventSettles ==
    \A e \in Event :
        LET pending == Awaits(e) \/ \E c \in Client : Repeats(e, c)
        IN  pending ~> ~pending

\* An event reaches each subscriber: its delivery is closed only when it has
\* stored the event (docs/logic.md: each client has a delivery and an ACK of its
\* own).  MarkWebhookTimedOut closes that of a subscriber who has become the
\* responder since.
SubscribersHear ==
    [][\A d \in Delivery :
          delivery[d] = "open" /\ delivery'[d] = "acked" /\ event[d[1]].replyTo # d[2]
          => callback[d] # None]_eventVars

Full(p) == Cardinality(BusyWorkers(p)) >= CallbackWorkers

\* Backpressure of the callback workers clears (client/callback.go).  A response
\* that comes after the timeout is never confirmed, and keeps its worker.
BackpressureClears == \A p \in Process : Full(p) ~> ~Full(p)

--------------------------------------------------------------------------------
(* The inductive invariant behind the properties.                          *)

\* The proxy wants a response to the delivery.
Wanted(d) == event[d[1]] # None /\ event[d[1]].replyTo = d[2]

\* It has the response it wants.
Settled(d) == Wanted(d) => event[d[1]].status = "responded"

\* It has no more to do about the delivery.
Concluded(d) == delivery[d] # "open" /\ Settled(d)

\* The delivery does not come again.
Gone(d) == delivery[d] # "open" /\ \A m \in net : m.type = "event" => m.delivery # d

\* The handler would be called, for a row that exists already.
Unhandled(d) == callback[d] # None /\ NeedsHandler(d)

\* The request has not come to saving its event.
Unsaved(e) == http[e] \in {"none", "refused", "read"}

\* A request that waits has an event; what it is or was handed is what the event
\* holds.
RequestOK(e) ==
    /\ http[e] = "read" => seen[e] # None
    /\ seen[e] # None /\ Delegated(e) => seen[e].responder # None
    /\ http[e] = "waiting" => event[e] # None
    /\ http[e] = "answered" => waiter[e] # None
    /\ waiter[e] # None => /\ http[e] \in {"waiting", "answered"}
                           /\ event[e] # None => event[e].response = waiter[e]

\* Nobody knows of an event that was not saved.
UnsavedOK(e) ==
    Unsaved(e) =>
        /\ event[e] = None
        /\ \A m \in net : m.delivery[1] # e
        /\ \A c \in Client :
              /\ callback[<<e, c>>] = None
              /\ \A p \in Process : run[p][<<e, c>>] = None /\ handled[p][<<e, c>>] = 0

\* What a message says is true when it arrives, however late.
MessageOK(m) ==
    LET d == m.delivery IN
    /\ m.type = "event" /\ ~m.reply => ~Wanted(d)
    /\ m.type = "ack" => Settled(d)
    /\ m.type = "confirmed" => Concluded(d)
    /\ m.type \in {"ack", "response"} => callback[d] # None \/ delivery[d] # "open"

\* Only what the proxy has closed is completed.
CallbackOK(d) == callback[d] # None /\ callback[d].completed => Concluded(d)

\* What a process has done, or is doing, about a delivery is not forgotten as long
\* as the delivery may come again.
RunOK(p, d) ==
    /\ handled[p][d] = 1 \/ run[p][d] # None => callback[d] # None \/ Gone(d)
    /\ handled[p][d] = 1 /\ run[p][d] = None => ~Unhandled(d)
    /\ run[p][d] # None =>
          /\ run[p][d].response = None => run[p][d].saved /\ Settled(d)
          /\ run[p][d].confirmed => Concluded(d)
          /\ run[p][d].closed => ~Unhandled(d)

\* The requests, the proxy, the messages under way and the processes of the
\* clients agree about every event.
EventsInv ==
    /\ EventsTypeOK
    /\ handled \in [Process -> [Delivery -> {0, 1}]]
    /\ \A e \in Event : RequestOK(e) /\ UnsavedOK(e)
    /\ \A m \in net : MessageOK(m)
    /\ \A d \in Delivery : CallbackOK(d)
    /\ \A p \in Process, d \in Delivery : RunOK(p, d)

================================================================================
