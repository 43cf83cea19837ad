-------------------------- MODULE CallbackEventsProofs -------------------------
(***************************************************************************)
(* Proofs about CallbackEvents, for every set of events, clients and       *)
(* processes, any handlers, commands and number of upsets: EventsInv is    *)
(* inductive, and the safety properties of the events follow from it.      *)
(***************************************************************************)
EXTENDS CallbackEvents, CallbackRoutesProofs

\* A delivery is an event and a client.
LEMMA DeliveryType ==
    /\ \A d \in Delivery : d[1] \in Event /\ d[2] \in Client /\ d = <<d[1], d[2]>>
    /\ \A e \in Event, c \in Client :
          <<e, c>> \in Delivery /\ <<e, c>>[1] = e /\ <<e, c>>[2] = c
BY EventsAssumption

\* A message belongs to a delivery.
LEMMA MessageDelivery == \A m \in Message : m.delivery \in Delivery
BY DEF Message

\* The messages are well formed.
LEMMA MessageTypes ==
    ASSUME NEW d \in Delivery
    PROVE  /\ \A reply \in BOOLEAN :
                 /\ EventMsg(d, reply) \in Message /\ EventMsg(d, reply).type = "event"
                 /\ EventMsg(d, reply).delivery = d /\ EventMsg(d, reply).reply = reply
           /\ \A r \in Response :
                 /\ ResponseMsg(d, r) \in Message /\ ResponseMsg(d, r).type = "response"
                 /\ ResponseMsg(d, r).delivery = d
           /\ AckMsg(d) \in Message /\ AckMsg(d).type = "ack" /\ AckMsg(d).delivery = d
           /\ \A p \in Process :
                 /\ ConfirmedMsg(d, p) \in Message /\ ConfirmedMsg(d, p).type = "confirmed"
                 /\ ConfirmedMsg(d, p).delivery = d
BY DEF EventMsg, ResponseMsg, AckMsg, ConfirmedMsg, Message

\* A confirmation is sent to processes.
LEMMA ConfirmationTypes ==
    ASSUME NEW d \in Delivery, NEW m \in Confirmations(d)
    PROVE  m \in Message /\ m.type = "confirmed" /\ m.delivery = d
BY MessageTypes DEF Confirmations

\* At first nothing has happened.
LEMMA InitEvents == EventsInit => EventsInv
<1> SUFFICES ASSUME EventsInit PROVE EventsInv
  OBVIOUS
<1> USE DEF EventsInit, DeliveriesInit
<1>1. EventsTypeOK
  BY DEF EventsTypeOK, RowState
<1>2. handled \in [Process -> [Delivery -> {0, 1}]]
  OBVIOUS
<1>3. ASSUME NEW e \in Event PROVE RequestOK(e) /\ UnsavedOK(e)
  BY DeliveryType DEF RequestOK, UnsavedOK
<1>4. \A d \in Delivery : CallbackOK(d)
  BY DEF CallbackOK
<1>5. \A p \in Process, d \in Delivery : RunOK(p, d)
  BY DEF RunOK
<1>. QED BY <1>1, <1>2, <1>3, <1>4, <1>5 DEF EventsInv

--------------------------------------------------------------------------------
(* Steps that leave the processes of the clients alone.                    *)

\* Where the event has been saved, no response becomes wanted, a settled delivery
\* stays so and a closed one is not opened or delivered again.
Steady ==
    \A d \in Delivery :
        ~Unsaved(d[1]) =>
            /\ ~Wanted(d) => ~Wanted(d)'
            /\ Settled(d) => Settled(d)'
            /\ delivery[d] # "open" => delivery'[d] # "open"
            /\ Gone(d) => Gone(d)'

\* A steady step of the proxy keeps the agreement with the processes.
LEMMA ProxyFrame ==
    ASSUME EventsInv, EventsTypeOK', UNCHANGED processVars, Steady,
           \A e \in Event : RequestOK(e)',
           \A e \in Event : Unsaved(e)' => Unsaved(e) /\ event'[e] = None,
           \A m \in net' : m \in net \/ (MessageOK(m)' /\ ~Unsaved(m.delivery[1])')
    PROVE  EventsInv'
<1> USE DEF EventsInv, processVars
<1>1. ASSUME NEW m \in net PROVE m.delivery \in Delivery /\ ~Unsaved(m.delivery[1])
  BY MessageDelivery, DeliveryType DEF EventsTypeOK, UnsavedOK
<1>2. ASSUME NEW d \in Delivery, Unsaved(d[1])
      PROVE  callback[d] = None /\ \A p \in Process : run[p][d] = None /\ handled[p][d] = 0
  BY <1>2, DeliveryType DEF UnsavedOK
<1>3. ASSUME NEW e \in Event PROVE UnsavedOK(e)'
  <2>1. \A m \in net' : Unsaved(e)' => m.delivery[1] # e
    BY <1>1
  <2>. QED BY <2>1 DEF UnsavedOK
<1>4. ASSUME NEW m \in net' PROVE MessageOK(m)'
  <2>1. CASE m \in net
    BY <1>1, <2>1 DEF MessageOK, Steady, Concluded
  <2>. QED BY <2>1
<1>5. ASSUME NEW d \in Delivery PROVE CallbackOK(d)'
  BY <1>2 DEF CallbackOK, Steady, Concluded
<1>6. ASSUME NEW p \in Process, NEW d \in Delivery PROVE RunOK(p, d)'
  <2>1. CASE Unsaved(d[1])
    BY <1>2, <2>1 DEF RunOK
  <2>2. CASE ~Unsaved(d[1])
    BY <2>2 DEF RunOK, Steady, Concluded, Unhandled, NeedsHandler, StoredCallback
  <2>. QED BY <2>1, <2>2
<1>. QED BY <1>3, <1>4, <1>5, <1>6

\* A lost message is one less.
LEMMA LoseStep ==
    ASSUME EventsInv, Lose
    PROVE  EventsInv'
<1> USE DEF Lose, Upset, Receive, EventsInv, proxyVars, processVars, requestVars, routeVars
<1>1. EventsTypeOK'
  BY DEF EventsTypeOK, RoutesOK
<1>2. Steady
  BY DEF Steady, Wanted, Settled, Gone
<1>3. \A e \in Event : RequestOK(e)'
  BY DEF RequestOK, Delegated
<1>4. \A e \in Event : Unsaved(e)' => Unsaved(e) /\ event'[e] = None
  BY DEF Unsaved, UnsavedOK
<1>. QED BY <1>1, <1>2, <1>3, <1>4, ProxyFrame

\* The route is read, complete as it is at that moment.
LEMMA GetWebhookRouteStep ==
    ASSUME EventsInv, NEW e \in Event, GetWebhookRoute(e)
    PROVE  EventsInv'
<1> USE DEF GetWebhookRoute, EventsInv, processVars, routeVars
<1>0. /\ Hook[e] \in Webhook
      /\ RouteOf(e) # None =>
            /\ RouteOf(e) \in Route
            /\ RouteOf(e).mode = "delegated" => RouteOf(e).responder # None
  BY EventsAssumption DEF RouteOf, EventsTypeOK, RoutesOK
<1>1. EventsTypeOK'
  BY <1>0 DEF EventsTypeOK, RoutesOK, NotFound
<1>2. Steady
  BY DEF Steady, Wanted, Settled, Gone
<1>3. ASSUME NEW f \in Event PROVE RequestOK(f)'
  BY <1>0 DEF RequestOK, Delegated, NotFound, EventsTypeOK
<1>4. \A f \in Event : Unsaved(f)' => Unsaved(f) /\ event'[f] = None
  BY DEF Unsaved, UnsavedOK, EventsTypeOK
<1>. QED BY <1>1, <1>2, <1>3, <1>4, ProxyFrame

\* What a request saves: an event without a response.
LEMMA SaveWebhookEventType ==
    ASSUME EventsInv, NEW e \in Event, http[e] = "read", SaveWebhookEvent(e)
    PROVE  /\ event' \in [Event -> EventRow \cup {None}]
           /\ event'[e] # None /\ event'[e].response = None
           /\ event'[e].status \in {"awaiting_response", "received"}
           /\ event'[e].replyTo = IF Delegated(e) THEN seen[e].responder ELSE None
           /\ \A f \in Event : f # e => event'[f] = event[f]
           /\ delivery' \in [Delivery -> RowState]
           /\ \A d \in Delivery : d[1] # e => delivery'[d] = delivery[d]
           /\ Delegated(e) => seen[e].responder \in Client
<1> USE DEF SaveWebhookEvent, EventsInv
<1> DEFINE new == [status |-> IF Delegated(e) THEN "awaiting_response" ELSE "received",
                   replyTo |-> IF Delegated(e) THEN seen[e].responder ELSE None,
                   response |-> None]
<1>1. seen[e] \in Route /\ (Delegated(e) => seen[e].responder # None)
  BY DEF RequestOK, EventsTypeOK
<1>2. Delegated(e) => seen[e].responder \in Client
  BY <1>1 DEF Route
<1>3. new \in EventRow /\ new # None
  BY <1>2, RowAssumption DEF EventRow
<1>4. event' = [event EXCEPT ![e] = new]
  OBVIOUS
<1>5. delivery' \in [Delivery -> RowState]
  BY DEF EventsTypeOK, RowState
<1>6. /\ new.response = None /\ new.status \in {"awaiting_response", "received"}
      /\ new.replyTo = IF Delegated(e) THEN seen[e].responder ELSE None
  OBVIOUS
<1>7. \A d \in Delivery : d[1] # e => delivery'[d] = delivery[d]
  BY DEF EventsTypeOK
<1> HIDE DEF new
<1>. QED BY <1>2, <1>3, <1>4, <1>5, <1>6, <1>7 DEF EventsTypeOK

\* The event is saved and, in delegated mode, delivered to the responder at once;
\* or the caller is told that it failed.
LEMMA SaveStep ==
    ASSUME EventsInv, NEW e \in Event, http[e] = "read", SaveWebhookEvent(e),
           http' = [http EXCEPT ![e] = http'[e]],
           http'[e] \in {"waiting", "static", "failed"},
           seen' = [seen EXCEPT ![e] = None],
           \/ UNCHANGED net
           \/ /\ Delegated(e)
              /\ net' = net \cup {EventMsg(<<e, seen[e].responder>>, TRUE)},
           UNCHANGED <<routeVars, waiter, dead, processVars>>
    PROVE  EventsInv'
<1> USE DEF EventsInv, routeVars, processVars
<1>0. /\ event' \in [Event -> EventRow \cup {None}]
      /\ event'[e] # None /\ event'[e].response = None
      /\ event'[e].status \in {"awaiting_response", "received"}
      /\ \A f \in Event : f # e => event'[f] = event[f]
      /\ delivery' \in [Delivery -> RowState]
      /\ \A d \in Delivery : d[1] # e => delivery'[d] = delivery[d]
      /\ Delegated(e) => seen[e].responder \in Client
  BY SaveWebhookEventType
<1>a. \A m \in net' : m \in net \/ /\ m \in Message /\ m.type = "event"
                                   /\ m.reply /\ m.delivery[1] = e
  <2>1. CASE UNCHANGED net
    BY <2>1
  <2>2. CASE Delegated(e) /\ net' = net \cup {EventMsg(<<e, seen[e].responder>>, TRUE)}
    <3>1. <<e, seen[e].responder>> \in Delivery /\ <<e, seen[e].responder>>[1] = e
      BY <1>0, <2>2, DeliveryType
    <3> DEFINE m == EventMsg(<<e, seen[e].responder>>, TRUE)
    <3>2. /\ m \in Message /\ m.type = "event" /\ m.reply = TRUE
          /\ m.delivery = <<e, seen[e].responder>>
      BY <3>1, MessageTypes
    <3> HIDE DEF m
    <3>3. net' = net \cup {m}
      BY <2>2 DEF m
    <3>. QED BY <3>1, <3>2, <3>3
  <2>. QED BY <2>1, <2>2
<1>b. \A f \in Event : f # e => http'[f] = http[f] /\ seen'[f] = seen[f]
  BY DEF EventsTypeOK
<1>c. http'[e] \notin {"none", "refused", "read"} /\ seen'[e] = None
  BY DEF EventsTypeOK
<1>d. ~Unsaved(e)' /\ Unsaved(e) /\ waiter[e] = None
  BY <1>c DEF Unsaved, RequestOK
<1>1. EventsTypeOK'
  <2>1. http' \in [Event -> {"none", "refused", "read", "waiting", "static", "answered",
                             "failed", "gone"}]
        /\ seen' \in [Event -> Route \cup {None}]
    BY DEF EventsTypeOK
  <2>2. \A d \in Delivery : delivery'[d] # "none" => event'[d[1]] # None
    BY <1>0, DeliveryType DEF EventsTypeOK
  <2>3. \A f \in Event : event'[f] # None =>
          (event'[f].response # None <=> event'[f].status = "responded")
    BY <1>0 DEF EventsTypeOK
  <2>4. net' \subseteq Message
    BY <1>a DEF EventsTypeOK
  <2>. QED BY <1>0, <2>1, <2>2, <2>3, <2>4 DEF EventsTypeOK, RoutesOK
<1>2. Steady
  <2>1. SUFFICES ASSUME NEW d \in Delivery, d[1] # e
                 PROVE  /\ ~Wanted(d) => ~Wanted(d)'
                        /\ Settled(d) => Settled(d)'
                        /\ delivery[d] # "open" => delivery'[d] # "open"
                        /\ Gone(d) => Gone(d)'
    BY <1>d DEF Steady
  <2>2. event'[d[1]] = event[d[1]] /\ delivery'[d] = delivery[d]
    BY <1>0, <2>1, DeliveryType
  <2>3. \A m \in net' : m \in net \/ m.delivery # d
    BY <1>a, <2>1
  <2>. QED BY <2>2, <2>3 DEF Wanted, Settled, Gone
<1>3. ASSUME NEW f \in Event PROVE RequestOK(f)'
  <2>1. CASE f = e
    BY <1>0, <1>c, <1>d, <2>1 DEF RequestOK
  <2>2. CASE f # e
    BY <1>0, <1>b, <2>2 DEF RequestOK, Delegated
  <2>. QED BY <2>1, <2>2
<1>4. \A f \in Event : Unsaved(f)' => Unsaved(f) /\ event'[f] = None
  BY <1>0, <1>b, <1>d DEF Unsaved, UnsavedOK
<1>5. \A m \in net' : m \in net \/ (MessageOK(m)' /\ ~Unsaved(m.delivery[1])')
  BY <1>a, <1>d DEF MessageOK
<1>. QED BY <1>1, <1>2, <1>3, <1>4, <1>5, ProxyFrame

\* The request saves its event, or fails to.
LEMMA DeliverWebhookStep ==
    ASSUME EventsInv, NEW e \in Event, DeliverWebhook(e) \/ SaveFails(e)
    PROVE  EventsInv'
<1> USE DEF DeliverWebhook, SaveFails, Upset
<1>0. http[e] = "read" /\ http \in [Event -> {"none", "refused", "read", "waiting",
                            "static", "answered", "failed", "gone"}]
  BY DEF EventsInv, EventsTypeOK
<1>1. CASE SaveWebhookEvent(e)
  <2>1. /\ http' = [http EXCEPT ![e] = http'[e]]
        /\ http'[e] \in {"waiting", "static", "failed"}
    BY <1>0
  <2>2. \/ UNCHANGED net
        \/ /\ Delegated(e)
           /\ net' = net \cup {EventMsg(<<e, seen[e].responder>>, TRUE)}
    OBVIOUS
  <2>3. seen' = [seen EXCEPT ![e] = None] /\ UNCHANGED <<routeVars, waiter, dead, processVars>>
    OBVIOUS
  <2>. QED BY <1>0, <1>1, <2>1, <2>2, <2>3, SaveStep
<1>2. CASE SaveFails(e) /\ UNCHANGED <<event, delivery>>
  <2> USE <1>2 DEF EventsInv, processVars, routeVars
  <2>1. EventsTypeOK'
    BY DEF EventsTypeOK, RoutesOK
  <2>2. Steady
    BY DEF Steady, Wanted, Settled, Gone
  <2>3. ASSUME NEW f \in Event PROVE RequestOK(f)'
    BY DEF RequestOK, Delegated, EventsTypeOK
  <2>4. \A f \in Event : Unsaved(f)' => Unsaved(f) /\ event'[f] = None
    BY DEF Unsaved, UnsavedOK, EventsTypeOK
  <2>. QED BY <2>1, <2>2, <2>3, <2>4, ProxyFrame
<1>. QED BY <1>1, <1>2

\* The response is given to the caller.
LEMMA WaiterAnswersStep ==
    ASSUME EventsInv, NEW e \in Event, WaiterAnswers(e)
    PROVE  EventsInv'
<1> USE DEF WaiterAnswers, EventsInv, processVars, routeVars
<1>1. EventsTypeOK'
  BY DEF EventsTypeOK, RoutesOK
<1>2. Steady
  BY DEF Steady, Wanted, Settled, Gone
<1>3. ASSUME NEW f \in Event PROVE RequestOK(f)'
  BY DEF RequestOK, Delegated, EventsTypeOK
<1>4. \A f \in Event : Unsaved(f)' => Unsaved(f) /\ event'[f] = None
  BY DEF Unsaved, UnsavedOK, EventsTypeOK
<1>. QED BY <1>1, <1>2, <1>3, <1>4, ProxyFrame

\* The timeout changes an event that has no response, and closes deliveries.
LEMMA WaiterTimesOutStep ==
    ASSUME EventsInv, NEW e \in Event, WaiterTimesOut(e)
    PROVE  EventsInv'
<1> USE DEF WaiterTimesOut, Upset, EventsInv, processVars, routeVars
<1>0. event[e] # None /\ event[e] \in EventRow
  BY DEF RequestOK, EventsTypeOK
<1>a. /\ event'[e] \in EventRow /\ event'[e].replyTo = event[e].replyTo
      /\ event'[e].response = event[e].response
      /\ event[e].status = "responded" <=> event'[e].status = "responded"
      /\ \A f \in Event : f # e => event'[f] = event[f]
      /\ event' \in [Event -> EventRow \cup {None}]
  BY <1>0 DEF MarkWebhookTimedOut, EventsTypeOK, EventRow
<1>b. /\ delivery' \in [Delivery -> RowState]
      /\ \A d \in Delivery : /\ delivery[d] # "open" => delivery'[d] = delivery[d]
                             /\ delivery[d] = "open" => delivery'[d] # "none"
                             /\ delivery'[d] = "open" => delivery[d] = "open"
  BY DEF MarkWebhookTimedOut, EventsTypeOK, RowState
<1>c. event'[e] # None
  BY <1>a, RowAssumption
<1>1. EventsTypeOK'
  <2>1. \A f \in Event : event'[f] # None =>
            (event'[f].response # None <=> event'[f].status = "responded")
    BY <1>0, <1>a DEF EventsTypeOK
  <2>3. ASSUME NEW d \in Delivery, delivery'[d] # "none" PROVE event'[d[1]] # None
    <3>1. event[d[1]] # None /\ d[1] \in Event
      BY <1>b, <2>3, DeliveryType DEF EventsTypeOK
    <3>. QED BY <1>a, <1>c, <3>1
  <2>2. /\ http' \in [Event -> {"none", "refused", "read", "waiting", "static",
                                "answered", "failed", "gone"}]
        /\ waiter' \in [Event -> Response \cup {None}]
    BY DEF EventsTypeOK
  <2>. QED BY <1>a, <1>b, <2>1, <2>2, <2>3 DEF EventsTypeOK, RoutesOK
<1>2. Steady
  <2>1. SUFFICES ASSUME NEW d \in Delivery
                 PROVE  /\ ~Wanted(d) => ~Wanted(d)'
                        /\ Settled(d) => Settled(d)'
                        /\ delivery[d] # "open" => delivery'[d] # "open"
                        /\ Gone(d) => Gone(d)'
    BY DEF Steady
  <2>. QED BY <1>0, <1>a, <1>b, DeliveryType DEF Wanted, Settled, Gone
<1>3. ASSUME NEW f \in Event PROVE RequestOK(f)'
  BY <1>a DEF RequestOK, Delegated, EventsTypeOK
<1>4. \A f \in Event : Unsaved(f)' => Unsaved(f) /\ event'[f] = None
  BY <1>a DEF Unsaved, UnsavedOK, EventsTypeOK
<1>. QED BY <1>1, <1>2, <1>3, <1>4, ProxyFrame

\* The requests of an instance that dies are gone.
LEMMA InstanceDiesStep ==
    ASSUME EventsInv, InstanceDies
    PROVE  EventsInv'
<1> USE DEF InstanceDies, Upset, EventsInv, processVars, routeVars
<1>1. EventsTypeOK'
  BY DEF EventsTypeOK, RoutesOK
<1>2. Steady
  BY DEF Steady, Wanted, Settled, Gone
<1>3. ASSUME NEW f \in Event PROVE RequestOK(f)'
  BY DEF RequestOK, Delegated, EventsTypeOK
<1>4. \A f \in Event : Unsaved(f)' => Unsaved(f) /\ event'[f] = None
  BY DEF Unsaved, UnsavedOK, EventsTypeOK
<1>. QED BY <1>1, <1>2, <1>3, <1>4, ProxyFrame

\* A response is accepted for an event that waits for one, or has the same; the
\* confirmation goes out with the delivery closed and the event responded.
LEMMA handleWebhookResponseStep ==
    ASSUME EventsInv, NEW d \in Delivery, NEW r \in Response, handleWebhookResponse(d, r)
    PROVE  EventsInv'
<1> USE DEF handleWebhookResponse, EventsInv, processVars, routeVars
<1>1. CASE Receive(ResponseMsg(d, r)) /\ UNCHANGED <<event, delivery, waiter>>
  <2> USE <1>1 DEF Receive
  <2>1. EventsTypeOK'
    BY DEF EventsTypeOK, RoutesOK
  <2>2. Steady
    BY DEF Steady, Wanted, Settled, Gone
  <2>3. \A f \in Event : RequestOK(f)'
    BY DEF RequestOK, Delegated
  <2>4. \A f \in Event : Unsaved(f)' => Unsaved(f) /\ event'[f] = None
    BY DEF Unsaved, UnsavedOK
  <2>. QED BY <2>1, <2>2, <2>3, <2>4, ProxyFrame
<1>2. CASE /\ Accepts(d, r)
           /\ Answer(ResponseMsg(d, r), Confirmations(d))
           /\ event' = [event EXCEPT ![d[1]].status = "responded", ![d[1]].response = r]
           /\ Acknowledge(d)
           /\ waiter' = [waiter EXCEPT ![d[1]] =
                           IF http[d[1]] = "waiting" /\ @ = None THEN r ELSE @]
  <2> DEFINE e == d[1]
  <2>0. /\ e \in Event /\ event[e] # None /\ event[e] \in EventRow
        /\ event[e].status = "awaiting_response" \/ event[e].response = r
        /\ r # None
    BY <1>2, DeliveryType, EventsAssumption DEF Accepts, EventsTypeOK
  <2>a. /\ event'[e] \in EventRow /\ event'[e].replyTo = event[e].replyTo
        /\ event'[e].response = r /\ event'[e].status = "responded"
        /\ \A f \in Event : f # e => event'[f] = event[f]
        /\ event' \in [Event -> EventRow \cup {None}]
    BY <1>2, <2>0 DEF EventsTypeOK, EventRow
  <2>b. event'[e] # None
    BY <2>a, RowAssumption
  <2>c. /\ delivery' \in [Delivery -> RowState] /\ delivery'[d] = "acked"
        /\ \A c \in Delivery : c # d => delivery'[c] = delivery[c]
    BY <1>2 DEF Acknowledge, EventsTypeOK, RowState
  <2>d. \A m \in net' : m \in net \/ m \in Confirmations(d)
    BY <1>2 DEF Answer
  <2>e. ~Unsaved(e)
    BY <2>0 DEF UnsavedOK
  <2>f. waiter[e] # None => waiter[e] = r
    BY <2>0 DEF RequestOK, EventsTypeOK
  <2>g. /\ waiter'[e] \in {waiter[e], r}
        /\ waiter'[e] # waiter[e] => http[e] = "waiting"
        /\ \A f \in Event : f # e => waiter'[f] = waiter[f]
        /\ waiter' \in [Event -> Response \cup {None}]
    BY <1>2, <2>0 DEF EventsTypeOK
  <2> HIDE DEF e
  <2>1. EventsTypeOK'
    <3>1. \A f \in Event : event'[f] # None =>
              (event'[f].response # None <=> event'[f].status = "responded")
      BY <2>0, <2>a DEF EventsTypeOK
    <3>2. ASSUME NEW c \in Delivery, delivery'[c] # "none" PROVE event'[c[1]] # None
      <4>1. c = d \/ delivery[c] # "none"
        BY <2>c, <3>2
      <4>2. c[1] \in Event /\ event[c[1]] # None
        BY <2>0, <4>1, DeliveryType DEF EventsTypeOK, e
      <4>. QED BY <2>a, <2>b, <4>2
    <3>3. net' \subseteq Message
      BY <2>d, ConfirmationTypes DEF EventsTypeOK
    <3>. QED BY <2>a, <2>c, <2>g, <3>1, <3>2, <3>3 DEF EventsTypeOK, RoutesOK
  <2>2. Steady
    <3>1. SUFFICES ASSUME NEW c \in Delivery
                   PROVE  /\ ~Wanted(c) => ~Wanted(c)'
                          /\ Settled(c) => Settled(c)'
                          /\ delivery[c] # "open" => delivery'[c] # "open"
                          /\ Gone(c) => Gone(c)'
      BY DEF Steady
    <3>2. \A m \in net' : m.type = "event" => m \in net
      BY <2>d, ConfirmationTypes
    <3>3. c[1] \in Event
      BY DeliveryType
    <3>4. delivery[c] # "open" => delivery'[c] # "open"
      BY <2>c
    <3>5. (~Wanted(c) => ~Wanted(c)') /\ (Settled(c) => Settled(c)')
      BY <2>0, <2>a, <3>3 DEF Wanted, Settled
    <3>. QED BY <3>2, <3>4, <3>5 DEF Gone
  <2>3. ASSUME NEW f \in Event PROVE RequestOK(f)'
    <3>1. CASE f = e
      BY <2>0, <2>a, <2>b, <2>f, <2>g, <3>1 DEF RequestOK, Delegated
    <3>2. CASE f # e
      BY <2>a, <2>g, <3>2 DEF RequestOK, Delegated
    <3>. QED BY <3>1, <3>2
  <2>4. \A f \in Event : Unsaved(f)' => Unsaved(f) /\ event'[f] = None
    BY <2>a, <2>e DEF Unsaved, UnsavedOK
  <2>5. ASSUME NEW m \in net', m \notin net PROVE MessageOK(m)' /\ ~Unsaved(m.delivery[1])'
    <3>1. m.type = "confirmed" /\ m.delivery = d
      BY <2>d, <2>5, ConfirmationTypes
    <3>2. Concluded(d)'
      BY <2>a, <2>c DEF Concluded, Settled, e
    <3>. QED BY <2>e, <3>1, <3>2 DEF MessageOK, Unsaved, e
  <2>. QED BY <2>1, <2>2, <2>3, <2>4, <2>5, ProxyFrame
<1>. QED BY <1>1, <1>2

\* An ACK closes the delivery: it is confirmed to a client that owes no response.
LEMMA handleWebhookACKStep ==
    ASSUME EventsInv, NEW d \in Delivery, handleWebhookACK(d)
    PROVE  EventsInv'
<1> USE DEF handleWebhookACK, EventsInv, processVars, routeVars, requestVars
<1>0. /\ AckMsg(d) \in net /\ AckMsg(d).type = "ack" /\ AckMsg(d).delivery = d
      /\ d[1] \in Event
  BY MessageTypes, DeliveryType DEF Answer, Receive
<1>a. Settled(d) /\ ~Unsaved(d[1])
  BY <1>0 DEF MessageOK, UnsavedOK
<1>b. \A m \in net' : m \in net \/ (m \in Confirmations(d) /\ delivery'[d] = "acked")
  BY DEF Answer, Receive, Acknowledge, EventsTypeOK
<1>c. /\ delivery' \in [Delivery -> RowState]
      /\ \A c \in Delivery : /\ delivery[c] # "open" => delivery'[c] # "open"
                             /\ delivery[c] = "none" => delivery'[c] = "none"
  BY DEF Acknowledge, EventsTypeOK, RowState
<1>d. \A m \in net' : m \in Message /\ (m.type = "event" => m \in net)
  BY <1>b, ConfirmationTypes DEF EventsTypeOK
<1>1. EventsTypeOK'
  BY <1>c, <1>d DEF EventsTypeOK, RoutesOK
<1>2. Steady
  BY <1>c, <1>d DEF Steady, Wanted, Settled, Gone
<1>3. \A f \in Event : RequestOK(f)'
  BY DEF RequestOK, Delegated
<1>4. \A f \in Event : Unsaved(f)' => Unsaved(f) /\ event'[f] = None
  BY DEF Unsaved, UnsavedOK
<1>5. ASSUME NEW m \in net', m \notin net PROVE MessageOK(m)' /\ ~Unsaved(m.delivery[1])'
  <2>1. m.type = "confirmed" /\ m.delivery = d /\ delivery'[d] = "acked"
    BY <1>b, <1>5, ConfirmationTypes
  <2>2. Concluded(d)'
    BY <1>a, <2>1 DEF Concluded, Settled, Wanted
  <2>. QED BY <1>a, <2>1, <2>2 DEF MessageOK, Unsaved
<1>. QED BY <1>1, <1>2, <1>3, <1>4, <1>5, ProxyFrame

\* The delivery loop asks for a response exactly where one is wanted.
LEMMA publishDeliveryStep ==
    ASSUME EventsInv, NEW d \in Delivery, publishDelivery(d)
    PROVE  EventsInv'
<1> USE DEF publishDelivery, DeliveryRound, EventsInv, processVars, routeVars, requestVars
<1>0. PICK n \in Message : /\ n = EventMsg(d, event[d[1]].replyTo = d[2])
                           /\ n.type = "event" /\ n.delivery = d
                           /\ n.reply = (event[d[1]].replyTo = d[2])
                           /\ d[1] \in Event
  BY MessageTypes, DeliveryType
<1>a. net' = net \cup {n}
  BY <1>0
<1>b. event[d[1]] # None /\ delivery[d] = "open"
  BY DEF EventsTypeOK
<1>1. EventsTypeOK'
  BY <1>0, <1>a DEF EventsTypeOK, RoutesOK
<1>2. Steady
  BY <1>0, <1>a, <1>b DEF Steady, Wanted, Settled, Gone
<1>3. \A f \in Event : RequestOK(f)'
  BY DEF RequestOK, Delegated
<1>4. \A f \in Event : Unsaved(f)' => Unsaved(f) /\ event'[f] = None
  BY DEF Unsaved, UnsavedOK
<1>5. MessageOK(n)' /\ ~Unsaved(n.delivery[1])'
  BY <1>0, <1>b DEF MessageOK, Wanted, Unsaved, UnsavedOK
<1>. QED BY <1>a, <1>1, <1>2, <1>3, <1>4, <1>5, ProxyFrame

\* An event is deleted with its deliveries and messages.
LEMMA cleanupEventStep ==
    ASSUME EventsInv, NEW e \in Event, cleanupEvent(e)
    PROVE  EventsInv'
<1> USE DEF cleanupEvent, Upset, EventsInv, processVars, routeVars, requestVars
<1>0. \A f \in Event : event'[f] = IF f = e THEN None ELSE event[f]
  BY DEF EventsTypeOK
<1>1. EventsTypeOK'
  BY <1>0, DeliveryType DEF EventsTypeOK, RoutesOK, RowState
<1>2. Steady
  <2>1. \A d \in Delivery : delivery[d] # "open" => delivery'[d] # "open"
    BY DEF EventsTypeOK
  <2>. QED BY <1>0, <2>1, DeliveryType DEF Steady, Wanted, Settled, Gone
<1>3. \A f \in Event : RequestOK(f)'
  BY <1>0 DEF RequestOK, Delegated
<1>4. \A f \in Event : Unsaved(f)' => Unsaved(f) /\ event'[f] = None
  BY <1>0 DEF Unsaved, UnsavedOK
<1>. QED BY <1>1, <1>2, <1>3, <1>4, ProxyFrame

\* A command changes routes only.
LEMMA changeRouteStep ==
    ASSUME EventsInv, NEW p \in Change, changeRoute(p)
    PROVE  EventsInv'
<1> USE DEF changeRoute, Upset, EventsInv, processVars, proxyVars, requestVars
<1>0. RoutesOK'
  <2>1. p \in Payload /\ p.webhook \in Webhook
    BY EventsAssumption DEF Payload
  <2>2. route[p.webhook].owner \in Client
    BY <2>1 DEF EventsTypeOK, RoutesOK, Route
  <2>. QED BY <2>1, <2>2, ApplyKeepsRoutes DEF EventsTypeOK
<1>1. EventsTypeOK'
  BY <1>0 DEF EventsTypeOK
<1>2. Steady
  BY DEF Steady, Wanted, Settled, Gone
<1>3. \A f \in Event : RequestOK(f)'
  BY DEF RequestOK, Delegated
<1>4. \A f \in Event : Unsaved(f)' => Unsaved(f) /\ event'[f] = None
  BY DEF Unsaved, UnsavedOK
<1>. QED BY <1>1, <1>2, <1>3, <1>4, ProxyFrame

--------------------------------------------------------------------------------
(* The processes of the clients.                                           *)

\* A delivery that is dropped, or whose answer is repeated, changes the messages
\* only.
LEMMA dropCallbackStep ==
    ASSUME EventsInv, NEW p \in Process, NEW d \in Delivery, NEW reply \in BOOLEAN,
           dropCallback(p, d, reply)
    PROVE  EventsInv'
<1> USE DEF dropCallback, Receive, EventsInv, proxyVars, processVars, requestVars, routeVars
<1>1. EventsTypeOK'
  BY DEF EventsTypeOK, RoutesOK
<1>2. Steady
  BY DEF Steady, Wanted, Settled, Gone
<1>3. \A e \in Event : RequestOK(e)'
  BY DEF RequestOK, Delegated
<1>4. \A e \in Event : Unsaved(e)' => Unsaved(e) /\ event'[e] = None
  BY DEF Unsaved, UnsavedOK
<1>. QED BY <1>1, <1>2, <1>3, <1>4, ProxyFrame

\* What a process sends for a delivery is an ACK or a response.
LEMMA OutgoingType ==
    ASSUME NEW d \in Delivery, NEW r \in Response \cup {None}
    PROVE  /\ Outgoing(d, r) \in Message /\ Outgoing(d, r).delivery = d
           /\ Outgoing(d, r).type \in {"ack", "response"}
           /\ Outgoing(d, r).type = "ack" => r = None
BY MessageTypes DEF Outgoing

\* A run repeats what it has to say while the proxy may still need it.
LEMMA publishAgainStep ==
    ASSUME EventsInv, NEW p \in Process, NEW d \in Delivery, publishAgain(p, d)
    PROVE  EventsInv'
<1> USE DEF publishAgain, EventsInv, proxyVars, processVars, requestVars, routeVars
<1>a. run[p][d].response \in Response \cup {None} /\ d[1] \in Event
  BY DeliveryType DEF EventsTypeOK, Run
<1>0. PICK n \in Message : /\ n = Outgoing(d, run[p][d].response) /\ n.delivery = d
                           /\ n.type \in {"ack", "response"}
                           /\ n.type = "ack" => run[p][d].response = None
  BY <1>a, OutgoingType
<1>b. net' = net \cup {n}
  BY <1>0
<1>1. EventsTypeOK'
  BY <1>b DEF EventsTypeOK, RoutesOK
<1>2. Steady
  BY <1>0, <1>b DEF Steady, Wanted, Settled, Gone
<1>3. \A e \in Event : RequestOK(e)'
  BY DEF RequestOK, Delegated
<1>4. \A e \in Event : Unsaved(e)' => Unsaved(e) /\ event'[e] = None
  BY DEF Unsaved, UnsavedOK
<1>5. ~Unsaved(d[1])
  BY <1>a, DeliveryType DEF UnsavedOK
<1>6. callback[d] # None \/ delivery[d] # "open"
  BY DEF RunOK, Gone
<1>7. n.type = "ack" => Settled(d)
  BY <1>0 DEF RunOK
<1>8. MessageOK(n)' /\ ~Unsaved(n.delivery[1])'
  BY <1>0, <1>5, <1>6, <1>7 DEF MessageOK, Unsaved, Settled, Wanted
<1>. QED BY <1>b, <1>1, <1>2, <1>3, <1>4, <1>8, ProxyFrame

\* A step about one delivery, of the processes and not of the proxy.
About(d) ==
    /\ UNCHANGED <<routeVars, proxyVars>>
    /\ \A c \in Delivery : c # d =>
          /\ callback'[c] = callback[c]
          /\ \A q \in Process : run'[q][c] = run[q][c] /\ handled'[q][c] = handled[q][c]
    /\ \A m \in net' : m \in net \/ /\ m.delivery = d /\ m.type # "event"
                                    /\ MessageOK(m)'
    /\ callback[d] # None => callback'[d] # None \/ delivery[d] # "open"

\* Such a step: what there is to show about the other deliveries follows.
LEMMA DeliveryFrame ==
    ASSUME EventsInv, EventsTypeOK',
           handled' \in [Process -> [Delivery -> {0, 1}]],
           NEW d \in Delivery, ~Unsaved(d[1]), About(d),
           CallbackOK(d)',
           \A q \in Process : RunOK(q, d)'
    PROVE  EventsInv'
<1> USE DEF EventsInv, proxyVars, requestVars, routeVars, About
<1>0. ASSUME NEW m \in net PROVE m.delivery \in Delivery
  BY MessageDelivery DEF EventsTypeOK
<1>1. ASSUME NEW e \in Event PROVE RequestOK(e)'
  BY DEF RequestOK, Delegated
<1>2. ASSUME NEW e \in Event PROVE UnsavedOK(e)'
  <2>1. SUFFICES ASSUME Unsaved(e) PROVE UnsavedOK(e)'
    BY DEF UnsavedOK, Unsaved
  <2>2. e # d[1] /\ \A c \in Client : <<e, c>> \in Delivery /\ <<e, c>> # d
    BY <2>1, DeliveryType
  <2>3. \A m \in net' : m.delivery[1] # e
    BY <2>1, <2>2 DEF UnsavedOK
  <2>. QED BY <2>1, <2>2, <2>3 DEF UnsavedOK
<1>3. ASSUME NEW m \in net' PROVE MessageOK(m)'
  <2>1. CASE m \in net
    <3>1. /\ Wanted(m.delivery)' = Wanted(m.delivery)
          /\ Settled(m.delivery)' = Settled(m.delivery)
          /\ Concluded(m.delivery)' = Concluded(m.delivery)
      BY DEF Wanted, Settled, Concluded
    <3>2. callback[m.delivery] # None
            => callback'[m.delivery] # None \/ delivery'[m.delivery] # "open"
      BY <1>0, <2>1
    <3>. QED BY <2>1, <3>1, <3>2 DEF MessageOK
  <2>. QED BY <2>1
<1>4. ASSUME NEW c \in Delivery, c # d PROVE CallbackOK(c)'
  BY <1>4 DEF CallbackOK, Concluded, Settled, Wanted
<1>5. ASSUME NEW q \in Process, NEW c \in Delivery, c # d PROVE RunOK(q, c)'
  <2>1. Gone(c) => Gone(c)'
    BY DEF Gone
  <2>2. Settled(c)' = Settled(c) /\ Concluded(c)' = Concluded(c)
    BY DEF Settled, Concluded, Wanted
  <2>3. Unhandled(c)' = Unhandled(c)
    BY <1>5 DEF Unhandled, NeedsHandler, StoredCallback
  <2>. QED BY <1>5, <2>1, <2>2, <2>3 DEF RunOK
<1>. QED BY <1>1, <1>2, <1>3, <1>4, <1>5

\* A process ends or changes its run of one delivery.
LEMMA RunUpdate ==
    ASSUME NEW p \in Process, NEW d \in Delivery, NEW v,
           run \in [Process -> [Delivery -> Run \cup {None}]],
           v \in Run \cup {None}, run' = [run EXCEPT ![p][d] = v]
    PROVE  /\ run' \in [Process -> [Delivery -> Run \cup {None}]]
           /\ run'[p][d] = v
           /\ \A q \in Process, c \in Delivery : c # d \/ q # p => run'[q][c] = run[q][c]
OBVIOUS

\* A process knows of a delivery only after the event was saved.
LEMMA KnownIsSaved ==
    ASSUME EventsInv, NEW p \in Process, NEW d \in Delivery,
           \/ run[p][d] # None \/ callback[d] # None
           \/ \E m \in net : m.delivery = d
    PROVE  ~Unsaved(d[1])
BY DeliveryType DEF EventsInv, UnsavedOK

\* The confirmation of a run: the proxy has concluded the delivery.
LEMMA handleConfirmedStep ==
    ASSUME EventsInv, NEW p \in Process, NEW d \in Delivery, handleConfirmed(p, d)
    PROVE  EventsInv'
<1>0. ConfirmedMsg(d, p) \in net /\ ConfirmedMsg(d, p).delivery = d
      /\ ConfirmedMsg(d, p).type = "confirmed"
  BY MessageTypes DEF handleConfirmed, Receive
<1>a. Concluded(d) /\ ~Unsaved(d[1])
  BY <1>0, KnownIsSaved DEF EventsInv, MessageOK
<1>r. run \in [Process -> [Delivery -> Run \cup {None}]]
  BY DEF EventsInv, EventsTypeOK
<1>b. /\ run' \in [Process -> [Delivery -> Run \cup {None}]]
      /\ \A q \in Process, c \in Delivery : c # d \/ q # p => run'[q][c] = run[q][c]
      /\ run[p][d] = None => run'[p][d] = None
      /\ run[p][d] # None => /\ run'[p][d] \in Run
                             /\ run'[p][d].response = run[p][d].response
                             /\ run'[p][d].saved = run[p][d].saved
                             /\ run'[p][d].closed = run[p][d].closed
  <2>1. CASE run[p][d] = None
    BY <1>r, <2>1 DEF handleConfirmed
  <2>2. CASE run[p][d] # None
    <3>1. run[p][d] \in Run
      BY <1>r, <2>2
    <3>2. PICK v : v = [run[p][d] EXCEPT !.confirmed = TRUE]
      OBVIOUS
    <3>3. /\ v \in Run /\ v.response = run[p][d].response
          /\ v.saved = run[p][d].saved /\ v.closed = run[p][d].closed
      BY <3>1, <3>2 DEF Run
    <3>4. run' = [run EXCEPT ![p][d] = v]
      BY <2>2, <3>2 DEF handleConfirmed
    <3>5. v \in Run \cup {None}
      BY <3>3
    <3>6. /\ run' \in [Process -> [Delivery -> Run \cup {None}]] /\ run'[p][d] = v
          /\ \A q \in Process, c \in Delivery : c # d \/ q # p => run'[q][c] = run[q][c]
      BY <1>r, <3>4, <3>5, RunUpdate
    <3>. QED BY <2>2, <3>3, <3>6
  <2>. QED BY <2>1, <2>2
<1>u. UNCHANGED <<routeVars, proxyVars, callback, handled>> /\ net' \subseteq net
  BY DEF handleConfirmed, Receive
<1>1. EventsTypeOK'
  BY <1>b, <1>u DEF EventsInv, EventsTypeOK, RoutesOK, proxyVars, requestVars, routeVars
<1>2. CallbackOK(d)'
  BY <1>u DEF EventsInv, CallbackOK, Concluded, Settled, Wanted, proxyVars
<1>3. ASSUME NEW q \in Process PROVE RunOK(q, d)'
  <2>1. Gone(d) => Gone(d)'
    BY <1>u DEF Gone, proxyVars
  <2>2. Settled(d)' = Settled(d) /\ Concluded(d)' = Concluded(d)
    BY <1>u DEF Settled, Concluded, Wanted, proxyVars
  <2>3. Unhandled(d)' = Unhandled(d)
    BY <1>u DEF Unhandled, NeedsHandler, StoredCallback
  <2>4. run'[q][d] # None => run[q][d] # None
    BY <1>b
  <2>5. run[q][d] # None => run'[q][d] # None
    BY <1>b, RowAssumption
  <2>6. run[q][d] # None => /\ run'[q][d].response = run[q][d].response
                            /\ run'[q][d].saved = run[q][d].saved
                            /\ run'[q][d].closed = run[q][d].closed
    BY <1>b
  <2>. QED BY <1>a, <1>u, <2>1, <2>2, <2>3, <2>4, <2>5, <2>6 DEF EventsInv, RunOK
<1>4. About(d)
  BY <1>b, <1>u DEF About
<1>5. handled' \in [Process -> [Delivery -> {0, 1}]]
  BY <1>u DEF EventsInv
<1>. QED BY <1>a, <1>1, <1>2, <1>3, <1>4, <1>5, DeliveryFrame

\* The row of a delivery changes in the callback store.
LEMMA CallbackUpdate ==
    ASSUME NEW d \in Delivery, NEW v,
           callback \in [Delivery -> CallbackRow \cup {None}],
           v \in CallbackRow \cup {None}, callback' = [callback EXCEPT ![d] = v]
    PROVE  /\ callback' \in [Delivery -> CallbackRow \cup {None}]
           /\ callback'[d] = v
           /\ \A c \in Delivery : c # d => callback'[c] = callback[c]
OBVIOUS

\* What the proxy knows does not change with a step of a process.
LEMMA ProxyStands ==
    ASSUME NEW d \in Delivery, UNCHANGED proxyVars
    PROVE  /\ Wanted(d)' = Wanted(d) /\ Settled(d)' = Settled(d)
           /\ Concluded(d)' = Concluded(d)
           /\ net' \subseteq net => (Gone(d) => Gone(d)')
BY DEF proxyVars, Wanted, Settled, Concluded, Gone

\* The response of a run is saved, or another one was saved before and the run
\* ends.
LEMMA SaveCallbackResponseStep ==
    ASSUME EventsInv, NEW p \in Process, NEW d \in Delivery, SaveCallbackResponse(p, d)
    PROVE  EventsInv'
<1>u. UNCHANGED <<routeVars, proxyVars, handled, net>>
  BY DEF SaveCallbackResponse
<1>r. /\ run \in [Process -> [Delivery -> Run \cup {None}]]
      /\ callback \in [Delivery -> CallbackRow \cup {None}]
      /\ handled \in [Process -> [Delivery -> {0, 1}]]
  BY DEF EventsInv, EventsTypeOK
<1>a. /\ run[p][d] # None /\ run[p][d] \in Run /\ ~run[p][d].saved
      /\ run[p][d].response # None
  BY <1>r DEF SaveCallbackResponse, EventsInv, RunOK
<1>b. ~Unsaved(d[1])
  BY <1>a, KnownIsSaved
<1>p. /\ Wanted(d)' = Wanted(d) /\ Settled(d)' = Settled(d)
      /\ Concluded(d)' = Concluded(d) /\ (Gone(d) => Gone(d)')
  BY <1>u, ProxyStands
<1>1. CASE NoConflict(d, run[p][d].response)
  <2>1. PICK v : v = [run[p][d] EXCEPT !.saved = TRUE]
    OBVIOUS
  <2>2. /\ v \in Run /\ v.response = run[p][d].response /\ v.saved
        /\ v.closed = run[p][d].closed /\ v.confirmed = run[p][d].confirmed
    BY <1>a, <2>1 DEF Run
  <2>3. PICK w : w = [callback[d] EXCEPT !.response = run[p][d].response]
    OBVIOUS
  <2>4. callback[d] # None /\ callback[d] \in CallbackRow
    BY <1>1, <1>r DEF NoConflict
  <2>5. /\ w \in CallbackRow /\ w.response = run[p][d].response
        /\ w.completed = callback[d].completed
    BY <1>a, <2>3, <2>4 DEF CallbackRow, Run
  <2>6. run' = [run EXCEPT ![p][d] = v] /\ callback' = [callback EXCEPT ![d] = w]
    BY <1>1, <2>1, <2>3 DEF SaveCallbackResponse
  <2>7. v \in Run \cup {None} /\ w \in CallbackRow \cup {None}
    BY <2>2, <2>5
  <2>8. /\ run' \in [Process -> [Delivery -> Run \cup {None}]]
        /\ run'[p][d] = v
        /\ \A q \in Process, c \in Delivery : c # d \/ q # p => run'[q][c] = run[q][c]
    BY <1>r, <2>6, <2>7, RunUpdate
  <2>9. /\ callback' \in [Delivery -> CallbackRow \cup {None}]
        /\ callback'[d] = w
        /\ \A c \in Delivery : c # d => callback'[c] = callback[c]
    BY <1>r, <2>6, <2>7, CallbackUpdate
  <2>10. EventsTypeOK'
    BY <1>u, <2>8, <2>9
    DEF EventsInv, EventsTypeOK, RoutesOK, proxyVars, requestVars, routeVars
  <2>11. callback'[d] # None /\ ~Unhandled(d)'
    BY <1>a, <2>5, <2>9, RowAssumption DEF Unhandled, NeedsHandler, StoredCallback
  <2>12. CallbackOK(d)'
    BY <1>p, <2>4, <2>5, <2>9 DEF EventsInv, CallbackOK
  <2>13. ASSUME NEW q \in Process PROVE RunOK(q, d)'
    <3>1. CASE q = p
      BY <1>a, <1>p, <1>u, <2>2, <2>8, <2>11, <3>1, RowAssumption DEF EventsInv, RunOK
    <3>2. CASE q # p
      BY <1>p, <1>u, <2>8, <2>11, <3>2 DEF EventsInv, RunOK
    <3>. QED BY <3>1, <3>2
  <2>14. About(d)
    BY <1>u, <2>8, <2>9, <2>11 DEF About
  <2>15. handled' \in [Process -> [Delivery -> {0, 1}]]
    BY <1>r, <1>u
  <2>. QED BY <1>b, <2>10, <2>12, <2>13, <2>14, <2>15, DeliveryFrame
<1>2. CASE ~NoConflict(d, run[p][d].response)
  <2>1. run' = [run EXCEPT ![p][d] = None] /\ callback' = callback
    BY <1>2 DEF SaveCallbackResponse
  <2>2. None \in Run \cup {None}
    OBVIOUS
  <2>3. /\ run' \in [Process -> [Delivery -> Run \cup {None}]]
        /\ run'[p][d] = None
        /\ \A q \in Process, c \in Delivery : c # d \/ q # p => run'[q][c] = run[q][c]
    BY <1>r, <2>1, <2>2, RunUpdate
  <2>4. EventsTypeOK'
    BY <1>r, <1>u, <2>1, <2>3
    DEF EventsInv, EventsTypeOK, RoutesOK, proxyVars, requestVars, routeVars
  <2>5. ~Unhandled(d)
    BY <1>2 DEF NoConflict, Unhandled, NeedsHandler, StoredCallback
  <2>6. Unhandled(d)' = Unhandled(d)
    BY <2>1 DEF Unhandled, NeedsHandler, StoredCallback
  <2>7. CallbackOK(d)'
    BY <1>p, <2>1 DEF EventsInv, CallbackOK
  <2>8. ASSUME NEW q \in Process PROVE RunOK(q, d)'
    <3>1. CASE q = p
      BY <1>a, <1>p, <1>u, <2>1, <2>3, <2>5, <2>6, <3>1 DEF EventsInv, RunOK
    <3>2. CASE q # p
      BY <1>p, <1>u, <2>1, <2>3, <2>6, <3>2 DEF EventsInv, RunOK
    <3>. QED BY <3>1, <3>2
  <2>9. About(d)
    BY <1>u, <2>1, <2>3 DEF About
  <2>10. handled' \in [Process -> [Delivery -> {0, 1}]]
    BY <1>r, <1>u
  <2>. QED BY <1>b, <2>4, <2>7, <2>8, <2>9, <2>10, DeliveryFrame
<1>. QED BY <1>1, <1>2

\* The run was confirmed: what it completes is concluded.
LEMMA MarkCallbackCompleteStep ==
    ASSUME EventsInv, NEW p \in Process, NEW d \in Delivery, MarkCallbackComplete(p, d)
    PROVE  EventsInv'
<1>u. UNCHANGED <<routeVars, proxyVars, handled, net>>
  BY DEF MarkCallbackComplete
<1>r. /\ run \in [Process -> [Delivery -> Run \cup {None}]]
      /\ callback \in [Delivery -> CallbackRow \cup {None}]
      /\ handled \in [Process -> [Delivery -> {0, 1}]]
  BY DEF EventsInv, EventsTypeOK
<1>a. run[p][d] # None /\ Concluded(d)
  BY DEF MarkCallbackComplete, EventsInv, RunOK
<1>b. ~Unsaved(d[1])
  BY <1>a, KnownIsSaved
<1>p. /\ Wanted(d)' = Wanted(d) /\ Settled(d)' = Settled(d)
      /\ Concluded(d)' = Concluded(d) /\ (Gone(d) => Gone(d)')
  BY <1>u, ProxyStands
<1>1. run' = [run EXCEPT ![p][d] = None]
  BY DEF MarkCallbackComplete
<1>2. None \in Run \cup {None}
  OBVIOUS
<1>3. /\ run' \in [Process -> [Delivery -> Run \cup {None}]]
      /\ run'[p][d] = None
      /\ \A q \in Process, c \in Delivery : c # d \/ q # p => run'[q][c] = run[q][c]
  BY <1>r, <1>1, <1>2, RunUpdate
<1>4. /\ callback' \in [Delivery -> CallbackRow \cup {None}]
      /\ \A c \in Delivery : c # d => callback'[c] = callback[c]
      /\ callback[d] # None => callback'[d] # None
      /\ ~Unhandled(d)'
  <2>1. CASE run[p][d].closed /\ UNCHANGED callback
    <3>1. ~Unhandled(d)
      BY <1>a, <2>1 DEF EventsInv, RunOK
    <3>2. Unhandled(d)' = Unhandled(d)
      BY <2>1 DEF Unhandled, NeedsHandler, StoredCallback
    <3>. QED BY <1>r, <2>1, <3>1, <3>2
  <2>2. CASE callback[d] # None /\ callback' = [callback EXCEPT ![d].completed = TRUE]
    <3>1. PICK w : w = [callback[d] EXCEPT !.completed = TRUE]
      OBVIOUS
    <3>2. callback[d] \in CallbackRow
      BY <1>r, <2>2
    <3>3. w \in CallbackRow /\ w.completed
      BY <3>1, <3>2 DEF CallbackRow
    <3>4. callback' = [callback EXCEPT ![d] = w] /\ w \in CallbackRow \cup {None}
      BY <2>2, <3>1, <3>3
    <3>5. /\ callback' \in [Delivery -> CallbackRow \cup {None}]
          /\ callback'[d] = w
          /\ \A c \in Delivery : c # d => callback'[c] = callback[c]
      BY <1>r, <3>4, CallbackUpdate
    <3>6. callback'[d] # None /\ ~Unhandled(d)'
      BY <3>3, <3>5, RowAssumption DEF Unhandled, NeedsHandler, StoredCallback
    <3>. QED BY <3>5, <3>6
  <2>. QED BY <2>1, <2>2 DEF MarkCallbackComplete
<1>5. EventsTypeOK'
  BY <1>u, <1>3, <1>4
  DEF EventsInv, EventsTypeOK, RoutesOK, proxyVars, requestVars, routeVars
<1>6. CallbackOK(d)'
  BY <1>a, <1>p DEF CallbackOK
<1>7. ASSUME NEW q \in Process PROVE RunOK(q, d)'
  <2>1. CASE q = p
    BY <1>a, <1>p, <1>u, <1>3, <1>4, <2>1 DEF EventsInv, RunOK
  <2>2. CASE q # p
    BY <1>p, <1>u, <1>3, <1>4, <2>2 DEF EventsInv, RunOK
  <2>. QED BY <2>1, <2>2
<1>8. About(d)
  BY <1>u, <1>3, <1>4 DEF About
<1>9. handled' \in [Process -> [Delivery -> {0, 1}]]
  BY <1>r, <1>u
<1>. QED BY <1>b, <1>5, <1>6, <1>7, <1>8, <1>9, DeliveryFrame

\* A completed callback is concluded, and no delivery of it comes again.
LEMMA cleanupCallbackStep ==
    ASSUME EventsInv, NEW d \in Delivery, cleanupCallback(d)
    PROVE  EventsInv'
<1>u. UNCHANGED <<routeVars, proxyVars, run, handled>> /\ net' \subseteq net
  BY DEF cleanupCallback
<1>r. /\ run \in [Process -> [Delivery -> Run \cup {None}]]
      /\ callback \in [Delivery -> CallbackRow \cup {None}]
      /\ handled \in [Process -> [Delivery -> {0, 1}]]
  BY DEF EventsInv, EventsTypeOK
<1>a. callback[d] # None /\ Concluded(d)
  BY DEF cleanupCallback, EventsInv, CallbackOK
<1>b. ~Unsaved(d[1])
  BY <1>a, DeliveryType DEF EventsInv, UnsavedOK
<1>p. /\ Wanted(d)' = Wanted(d) /\ Settled(d)' = Settled(d)
      /\ Concluded(d)' = Concluded(d)
  BY <1>u, ProxyStands
<1>1. callback' = [callback EXCEPT ![d] = None] /\ None \in CallbackRow \cup {None}
  BY DEF cleanupCallback
<1>2. /\ callback' \in [Delivery -> CallbackRow \cup {None}]
      /\ callback'[d] = None
      /\ \A c \in Delivery : c # d => callback'[c] = callback[c]
  BY <1>r, <1>1, CallbackUpdate
<1>3. EventsTypeOK'
  BY <1>u, <1>2
  DEF EventsInv, EventsTypeOK, RoutesOK, proxyVars, requestVars, routeVars
<1>4. Gone(d)'
  BY <1>a, <1>u DEF cleanupCallback, Gone, Concluded, proxyVars
<1>5. CallbackOK(d)' /\ ~Unhandled(d)'
  BY <1>2 DEF CallbackOK, Unhandled
<1>6. \A q \in Process : RunOK(q, d)'
  BY <1>p, <1>u, <1>4, <1>5 DEF EventsInv, RunOK
<1>7. About(d)
  BY <1>a, <1>u, <1>2 DEF About, Concluded
<1>8. handled' \in [Process -> [Delivery -> {0, 1}]]
  BY <1>r, <1>u
<1>. QED BY <1>b, <1>3, <1>5, <1>6, <1>7, <1>8, DeliveryFrame

\* What a handler run is for, and what it sends, in terms of the row found.
LEMMA ToSendType ==
    ASSUME EventsInv, NEW p \in Process, NEW d \in Delivery, NEW reply \in BOOLEAN,
           NEW r \in ToSend(p, d, reply)
    PROVE  /\ StoredCallback(d) \in CallbackRow
           /\ r \in Response \cup {None}
           /\ r = None => StoredCallback(d).completed \/ ~reply
<1>1. StoredCallback(d) \in CallbackRow
  BY DEF EventsInv, EventsTypeOK, StoredCallback, NewRow, CallbackRow
<1>2. Handler[p] \subseteq Response /\ None \notin Response
  BY EventsAssumption
<1>. QED BY <1>1, <1>2 DEF ToSend, CallbackRow

\* The handler is called for a delivery that came, and not a second time: what
\* the process has handled in this life has left a row that needs no handler.
LEMMA handleCallbackStep ==
    ASSUME EventsInv, NEW p \in Process, NEW d \in Delivery, NEW reply \in BOOLEAN,
           handleCallback(p, d, reply)
    PROVE  EventsInv'
<1>r. /\ run \in [Process -> [Delivery -> Run \cup {None}]]
      /\ callback \in [Delivery -> CallbackRow \cup {None}]
      /\ handled \in [Process -> [Delivery -> {0, 1}]]
      /\ net \subseteq Message
  BY DEF EventsInv, EventsTypeOK
<1>u. UNCHANGED <<routeVars, proxyVars>>
  BY DEF handleCallback
<1>m. /\ EventMsg(d, reply) \in net /\ EventMsg(d, reply).type = "event"
      /\ EventMsg(d, reply).delivery = d /\ EventMsg(d, reply).reply = reply
  BY MessageTypes DEF handleCallback, Answer
<1>a. run[p][d] = None /\ ~Gone(d) /\ (~reply => ~Wanted(d))
  BY <1>m DEF handleCallback, beginCallback, Gone, EventsInv, MessageOK
<1>b. ~Unsaved(d[1])
  BY <1>m, KnownIsSaved
<1>p. /\ Wanted(d)' = Wanted(d) /\ Settled(d)' = Settled(d)
      /\ Concluded(d)' = Concluded(d)
  BY <1>u, ProxyStands
<1>1. PICK r \in ToSend(p, d, reply) :
        /\ run' = [run EXCEPT ![p][d] =
                     [response |-> r, saved |-> r = None \/ ~NeedsHandler(d),
                      confirmed |-> FALSE, closed |-> StoredCallback(d).completed,
                      worker |-> TRUE]]
        /\ Answer(EventMsg(d, reply), {Outgoing(d, r)})
  BY DEF handleCallback
<1>2. /\ StoredCallback(d) \in CallbackRow /\ r \in Response \cup {None}
      /\ r = None => StoredCallback(d).completed \/ ~reply
  BY ToSendType
<1>3. PICK w : w = StoredCallback(d)
  OBVIOUS
<1>4. PICK v : v = [response |-> r, saved |-> r = None \/ ~NeedsHandler(d),
                    confirmed |-> FALSE, closed |-> StoredCallback(d).completed,
                    worker |-> TRUE]
  OBVIOUS
<1>5. /\ v \in Run /\ v.response = r /\ (r = None => v.saved) /\ ~v.confirmed
      /\ v.closed = w.completed
  BY <1>2, <1>3, <1>4 DEF Run, CallbackRow
<1>6. /\ run' = [run EXCEPT ![p][d] = v] /\ callback' = [callback EXCEPT ![d] = w]
      /\ v \in Run \cup {None} /\ w \in CallbackRow \cup {None} /\ w \in CallbackRow
  BY <1>1, <1>2, <1>3, <1>4, <1>5 DEF handleCallback
<1>7. /\ run' \in [Process -> [Delivery -> Run \cup {None}]]
      /\ run'[p][d] = v
      /\ \A q \in Process, c \in Delivery : c # d \/ q # p => run'[q][c] = run[q][c]
  BY <1>r, <1>6, RunUpdate
<1>8. /\ callback' \in [Delivery -> CallbackRow \cup {None}]
      /\ callback'[d] = w
      /\ \A c \in Delivery : c # d => callback'[c] = callback[c]
  BY <1>r, <1>6, CallbackUpdate
<1>9. callback'[d] # None /\ run'[p][d] # None
  BY <1>5, <1>6, <1>7, <1>8, RowAssumption
<1>10. w.completed => callback[d] # None /\ Concluded(d)
  BY <1>3 DEF StoredCallback, NewRow, EventsInv, CallbackOK
<1>11. /\ Unhandled(d)' <=> NeedsHandler(d)
       /\ callback[d] # None => (Unhandled(d)' <=> Unhandled(d))
       /\ w.completed => ~Unhandled(d)'
  BY <1>3, <1>8, <1>9 DEF Unhandled, NeedsHandler, StoredCallback
<1>12. r = None => Settled(d)
  BY <1>2, <1>3, <1>10, <1>a DEF Settled, Concluded
<1>13. /\ Outgoing(d, r) \in Message /\ Outgoing(d, r).delivery = d
       /\ Outgoing(d, r).type \in {"ack", "response"}
       /\ Outgoing(d, r).type = "ack" => r = None
  BY <1>2, OutgoingType
<1>14. net' = (net \ {EventMsg(d, reply)}) \cup {Outgoing(d, r)}
  BY <1>1 DEF Answer
<1>15. NeedsHandler(d) => handled[p][d] = 0
  BY <1>a, <1>r DEF EventsInv, RunOK, Unhandled
<1>16. /\ handled' \in [Process -> [Delivery -> {0, 1}]]
       /\ \A q \in Process, c \in Delivery : c # d \/ q # p => handled'[q][c] = handled[q][c]
  <2>1. handled' = [handled EXCEPT ![p][d] =
                      IF NeedsHandler(d) THEN handled[p][d] + 1 ELSE handled[p][d]]
    BY DEF handleCallback
  <2>2. PICK h : h = IF NeedsHandler(d) THEN handled[p][d] + 1 ELSE handled[p][d]
    OBVIOUS
  <2>3. h \in {0, 1} /\ handled' = [handled EXCEPT ![p][d] = h]
    BY <1>r, <1>15, <2>1, <2>2
  <2>. QED BY <1>r, <2>3
<1>17. EventsTypeOK'
  BY <1>u, <1>7, <1>8, <1>13, <1>14
  DEF EventsInv, EventsTypeOK, RoutesOK, proxyVars, requestVars, routeVars
<1>18. CallbackOK(d)'
  BY <1>p, <1>8, <1>10 DEF CallbackOK
<1>19. ASSUME NEW q \in Process PROVE RunOK(q, d)'
  <2>1. CASE q = p
    BY <1>p, <1>5, <1>7, <1>9, <1>11, <1>12, <2>1 DEF RunOK
  <2>2. CASE q # p
    <3>1. run'[q][d] = run[q][d] /\ handled'[q][d] = handled[q][d]
      BY <1>7, <1>16, <2>2
    <3>2. handled[q][d] = 1 \/ run[q][d] # None => callback[d] # None
      BY <1>a DEF EventsInv, RunOK
    <3>. QED BY <1>p, <1>9, <1>11, <3>1, <3>2 DEF EventsInv, RunOK
  <2>. QED BY <2>1, <2>2
<1>20. About(d)
  <2>1. MessageOK(Outgoing(d, r))'
    BY <1>p, <1>9, <1>12, <1>13 DEF MessageOK
  <2>. QED BY <1>u, <1>7, <1>8, <1>9, <1>13, <1>14, <1>16, <2>1 DEF About
<1>. QED BY <1>b, <1>16, <1>17, <1>18, <1>19, <1>20, DeliveryFrame

\* A process starts anew with what the store holds; the rows stay.
LEMMA restartProcessStep ==
    ASSUME EventsInv, NEW p \in Process, restartProcess(p)
    PROVE  EventsInv'
<1>r. /\ run \in [Process -> [Delivery -> Run \cup {None}]]
      /\ callback \in [Delivery -> CallbackRow \cup {None}]
      /\ handled \in [Process -> [Delivery -> {0, 1}]]
  BY DEF EventsInv, EventsTypeOK
<1>u. UNCHANGED <<routeVars, proxyVars, callback, net>>
  BY DEF restartProcess
<1>1. /\ handled' \in [Process -> [Delivery -> {0, 1}]]
      /\ \A d \in Delivery : handled'[p][d] = 0
      /\ \A q \in Process : q # p => handled'[q] = handled[q]
  BY <1>r DEF restartProcess
<1>2. PICK D \in {Resumed(p), {}} :
        run' = [run EXCEPT ![p] = [d \in Delivery |->
                  IF d \in D
                  THEN [response |-> callback[d].response, saved |-> TRUE,
                        confirmed |-> FALSE, closed |-> FALSE, worker |-> FALSE]
                  ELSE None]]
  BY DEF restartProcess
<1>3. ASSUME NEW d \in Delivery
      PROVE  /\ run'[p][d] \in Run \cup {None}
             /\ run'[p][d] # None =>
                   /\ callback[d] # None /\ run'[p][d].response # None
                   /\ ~run'[p][d].confirmed /\ ~run'[p][d].closed
  <2>1. CASE d \in D
    <3>1. callback[d] # None /\ callback[d] \in CallbackRow /\ callback[d].response # None
      BY <1>r, <1>2, <2>1 DEF Resumed
    <3>2. callback[d].response \in Response \cup {None}
      BY <3>1 DEF CallbackRow
    <3>3. run'[p][d] = [response |-> callback[d].response, saved |-> TRUE,
                        confirmed |-> FALSE, closed |-> FALSE, worker |-> FALSE]
      BY <1>r, <1>2, <2>1
    <3>. QED BY <3>1, <3>2, <3>3 DEF Run
  <2>2. CASE d \notin D
    BY <1>r, <1>2, <2>2
  <2>. QED BY <2>1, <2>2
<1>4. /\ run' \in [Process -> [Delivery -> Run \cup {None}]]
      /\ \A q \in Process : q # p => run'[q] = run[q]
  <2>1. PICK f : f = [d \in Delivery |->
                        IF d \in D
                        THEN [response |-> callback[d].response, saved |-> TRUE,
                              confirmed |-> FALSE, closed |-> FALSE, worker |-> FALSE]
                        ELSE None]
    OBVIOUS
  <2>2. run' = [run EXCEPT ![p] = f]
    BY <1>2, <2>1
  <2>3. f \in [Delivery -> Run \cup {None}]
    BY <1>3, <1>r, <2>1, <2>2
  <2>. QED BY <1>r, <2>2, <2>3
<1>5. EventsTypeOK'
  BY <1>u, <1>4
  DEF EventsInv, EventsTypeOK, RoutesOK, proxyVars, requestVars, routeVars
<1>6. ASSUME NEW e \in Event PROVE RequestOK(e)'
  BY <1>u DEF EventsInv, RequestOK, Delegated, proxyVars, requestVars
<1>7. ASSUME NEW e \in Event PROVE UnsavedOK(e)'
  <2>1. SUFFICES ASSUME Unsaved(e) PROVE UnsavedOK(e)'
    BY <1>u DEF UnsavedOK, Unsaved, proxyVars, requestVars
  <2>2. /\ event'[e] = None /\ \A m \in net' : m.delivery[1] # e
    BY <1>u, <2>1 DEF EventsInv, UnsavedOK, proxyVars
  <2>3. ASSUME NEW c \in Client, NEW q \in Process
        PROVE  /\ callback'[<<e, c>>] = None
               /\ run'[q][<<e, c>>] = None /\ handled'[q][<<e, c>>] = 0
    <3>1. <<e, c>> \in Delivery
      BY EventsAssumption
    <3>2. /\ callback[<<e, c>>] = None /\ run[q][<<e, c>>] = None
          /\ handled[q][<<e, c>>] = 0
      BY <2>1 DEF EventsInv, UnsavedOK
    <3>. QED BY <1>u, <1>1, <1>3, <1>4, <3>1, <3>2
  <2>4. \A c \in Client : callback'[<<e, c>>] = None
    BY <1>u, <2>1 DEF EventsInv, UnsavedOK
  <2>. QED BY <2>2, <2>3, <2>4 DEF UnsavedOK
<1>8. \A d : /\ Wanted(d)' = Wanted(d) /\ Settled(d)' = Settled(d)
             /\ Concluded(d)' = Concluded(d) /\ Gone(d)' = Gone(d)
             /\ Unhandled(d)' = Unhandled(d)
  BY <1>u DEF Wanted, Settled, Concluded, Gone, Unhandled, NeedsHandler, StoredCallback, proxyVars
<1>9. ASSUME NEW m \in net' PROVE MessageOK(m)'
  BY <1>u, <1>8 DEF EventsInv, MessageOK, proxyVars
<1>10. ASSUME NEW d \in Delivery PROVE CallbackOK(d)'
  BY <1>u, <1>8 DEF EventsInv, CallbackOK
<1>11. ASSUME NEW q \in Process, NEW d \in Delivery PROVE RunOK(q, d)'
  <2>1. CASE q = p
    BY <1>u, <1>1, <1>3, <2>1 DEF RunOK
  <2>2. CASE q # p
    BY <1>u, <1>1, <1>4, <1>8, <2>2 DEF EventsInv, RunOK
  <2>. QED BY <2>1, <2>2
<1>. QED BY <1>1, <1>5, <1>6, <1>7, <1>9, <1>10, <1>11 DEF EventsInv

\* Every step keeps the agreement.
LEMMA EventsStep == EventsInv /\ [EventsNext]_eventVars => EventsInv'
<1> SUFFICES ASSUME EventsInv, [EventsNext]_eventVars PROVE EventsInv'
  OBVIOUS
<1>1. CASE \E e \in Event : GetWebhookRoute(e)
  BY <1>1, GetWebhookRouteStep
<1>2. CASE \E e \in Event : DeliverWebhook(e) \/ SaveFails(e)
  BY <1>2, DeliverWebhookStep
<1>3. CASE \E e \in Event : WaiterAnswers(e)
  BY <1>3, WaiterAnswersStep
<1>4. CASE \E e \in Event : WaiterTimesOut(e)
  BY <1>4, WaiterTimesOutStep
<1>5. CASE \E e \in Event : cleanupEvent(e)
  BY <1>5, cleanupEventStep
<1>6. CASE InstanceDies
  BY <1>6, InstanceDiesStep
<1>7. CASE \E d \in Delivery, r \in Response : handleWebhookResponse(d, r)
  BY <1>7, handleWebhookResponseStep
<1>8. CASE \E d \in Delivery : handleWebhookACK(d)
  BY <1>8, handleWebhookACKStep
<1>9. CASE \E d \in Delivery : publishDelivery(d)
  BY <1>9, publishDeliveryStep
<1>10. CASE \E d \in Delivery : cleanupCallback(d)
  BY <1>10, cleanupCallbackStep
<1>11. CASE \E p \in Change : changeRoute(p)
  BY <1>11, changeRouteStep
<1>12. CASE \E p \in Process, d \in Delivery, reply \in BOOLEAN : handleCallback(p, d, reply)
  BY <1>12, handleCallbackStep
<1>13. CASE \E p \in Process, d \in Delivery, reply \in BOOLEAN : dropCallback(p, d, reply)
  BY <1>13, dropCallbackStep
<1>14. CASE \E p \in Process, d \in Delivery : SaveCallbackResponse(p, d)
  BY <1>14, SaveCallbackResponseStep
<1>15. CASE \E p \in Process, d \in Delivery : publishAgain(p, d)
  BY <1>15, publishAgainStep
<1>16. CASE \E p \in Process, d \in Delivery : handleConfirmed(p, d)
  BY <1>16, handleConfirmedStep
<1>17. CASE \E p \in Process, d \in Delivery : MarkCallbackComplete(p, d)
  BY <1>17, MarkCallbackCompleteStep
<1>18. CASE \E p \in Process : restartProcess(p)
  BY <1>18, restartProcessStep
<1>19. CASE Lose
  BY <1>19, LoseStep
<1>20. CASE UNCHANGED eventVars
  <2> USE <1>20 DEF eventVars, EventsInv, proxyVars, processVars, requestVars, routeVars
  <2>1. EventsTypeOK'
    BY DEF EventsTypeOK, RoutesOK
  <2>2. Steady
    BY DEF Steady, Wanted, Settled, Gone
  <2>3. \A e \in Event : RequestOK(e)'
    BY DEF RequestOK, Delegated
  <2>4. \A e \in Event : Unsaved(e)' => Unsaved(e) /\ event'[e] = None
    BY DEF Unsaved, UnsavedOK
  <2>5. UNCHANGED processVars /\ \A m \in net' : m \in net
    OBVIOUS
  <2>6. EventsInv
    OBVIOUS
  <2> HIDE DEF EventsInv, processVars
  <2>. QED BY <2>1, <2>2, <2>3, <2>4, <2>5, <2>6, ProxyFrame
<1>. QED BY <1>1, <1>2, <1>3, <1>4, <1>5, <1>6, <1>7, <1>8, <1>9, <1>10, <1>11, <1>12,
             <1>13, <1>14, <1>15, <1>16, <1>17, <1>18, <1>19, <1>20 DEF EventsNext

\* EventsInv holds in every reachable state: HTTP requests, rows of both
\* databases, messages under way and runs of the processes agree, for any number
\* of events, clients and processes and however many upsets.
THEOREM EventsInvariant == EventsSpec => []EventsInv
BY InitEvents, EventsStep, PTL DEF EventsSpec

\* EventsTypeOK holds in every reachable state.
THEOREM EventsTypeCorrect == EventsSpec => []EventsTypeOK
<1>1. EventsInv => EventsTypeOK
  BY DEF EventsInv
<1>. QED BY <1>1, EventsInvariant, PTL

\* HTTPAnswerIsStored: what the HTTP caller was given by webhook is what
\* SaveWebhookResponse has stored.
THEOREM HTTPAnswerStored == EventsSpec => []HTTPAnswerIsStored
<1>1. EventsInv => HTTPAnswerIsStored
  BY DEF EventsInv, RequestOK, HTTPAnswerIsStored
<1>. QED BY <1>1, EventsInvariant, PTL

\* CompleteMeansResponded: MarkCallbackComplete is reached for a delegated
\* callback only when the proxy has stored a response.
THEOREM RespondedBeforeComplete == EventsSpec => []CompleteMeansResponded
<1>1. EventsInv => CompleteMeansResponded
  <2> SUFFICES ASSUME EventsInv, NEW e \in Event, NEW c \in Client,
                      event[e] # None, event[e].replyTo = c,
                      callback[<<e, c>>] # None, callback[<<e, c>>].completed
               PROVE  event[e].status = "responded"
    BY DEF CompleteMeansResponded
  <2>1. <<e, c>> \in Delivery /\ <<e, c>>[1] = e /\ <<e, c>>[2] = c
    BY EventsAssumption
  <2>2. Concluded(<<e, c>>)
    BY <2>1 DEF EventsInv, CallbackOK
  <2>. QED BY <2>1, <2>2 DEF Concluded, Settled, Wanted
<1>. QED BY <1>1, EventsInvariant, PTL

\* HandledOncePerLife: a process does not call its handler twice for a delivery
\* without being restarted in between.
THEOREM HandledOnce == EventsSpec => []HandledOncePerLife
<1>1. EventsInv => HandledOncePerLife
  <2> SUFFICES ASSUME EventsInv, NEW p \in Process, NEW d \in Delivery
               PROVE  handled[p][d] <= 1
    BY DEF HandledOncePerLife
  <2>1. handled[p][d] \in {0, 1}
    BY DEF EventsInv
  <2>. QED BY <2>1
<1>. QED BY <1>1, EventsInvariant, PTL

\* Who may close a delivery: its acknowledgement or its response, both sent from
\* a stored row, or the timeout of the request.
LEMMA WhoAcknowledges ==
    ASSUME EventsInv, [EventsNext]_eventVars, NEW d \in Delivery,
           delivery[d] = "open", delivery'[d] = "acked"
    PROVE  callback[d] # None \/ (http[d[1]] = "waiting" /\ http'[d[1]] = "failed")
<1>d. d[1] \in Event /\ http \in [Event -> {"none", "refused", "read", "waiting", "static",
                                           "answered", "failed", "gone"}]
      /\ delivery \in [Delivery -> RowState]
  BY DeliveryType DEF EventsInv, EventsTypeOK
<1>1. CASE \E e \in Event : WaiterTimesOut(e)
  <2>1. PICK e \in Event : WaiterTimesOut(e)
    BY <1>1
  <2>2. e = d[1]
    BY <2>1 DEF WaiterTimesOut, MarkWebhookTimedOut
  <2>. QED BY <1>d, <2>1, <2>2 DEF WaiterTimesOut
<1>2. CASE \E c \in Delivery, r \in Response : handleWebhookResponse(c, r)
  <2>1. PICK c \in Delivery, r \in Response : handleWebhookResponse(c, r)
    BY <1>2
  <2>2. ResponseMsg(c, r) \in net /\ c = d
    BY <1>d, <2>1 DEF handleWebhookResponse, Answer, Acknowledge
  <2>3. MessageOK(ResponseMsg(d, r)) /\ ResponseMsg(d, r).type = "response"
        /\ ResponseMsg(d, r).delivery = d
    BY <2>2, MessageTypes DEF EventsInv
  <2>. QED BY <2>3 DEF MessageOK
<1>3. CASE \E c \in Delivery : handleWebhookACK(c)
  <2>1. PICK c \in Delivery : handleWebhookACK(c)
    BY <1>3
  <2>2. AckMsg(c) \in net /\ c = d
    BY <1>d, <2>1 DEF handleWebhookACK, Answer, Acknowledge
  <2>3. MessageOK(AckMsg(d)) /\ AckMsg(d).type = "ack" /\ AckMsg(d).delivery = d
    BY <2>2, MessageTypes DEF EventsInv
  <2>. QED BY <2>3 DEF MessageOK
<1>4. CASE \E e \in Event : \/ GetWebhookRoute(e) \/ DeliverWebhook(e) \/ SaveFails(e)
                            \/ WaiterAnswers(e) \/ cleanupEvent(e)
  BY <1>4 DEF GetWebhookRoute, DeliverWebhook, SaveFails, SaveWebhookEvent, WaiterAnswers,
     cleanupEvent
<1>5. CASE \/ InstanceDies \/ Lose \/ UNCHANGED eventVars
           \/ \E p \in Change : changeRoute(p)
           \/ \E p \in Process : restartProcess(p)
           \/ \E c \in Delivery : publishDelivery(c) \/ cleanupCallback(c)
  BY <1>5, <1>d DEF InstanceDies, Lose, eventVars, changeRoute, restartProcess, publishDelivery,
     DeliveryRound, cleanupCallback, proxyVars
<1>6. CASE \E p \in Process, c \in Delivery :
             \/ \E reply \in BOOLEAN : handleCallback(p, c, reply) \/ dropCallback(p, c, reply)
             \/ SaveCallbackResponse(p, c) \/ publishAgain(p, c)
             \/ handleConfirmed(p, c) \/ MarkCallbackComplete(p, c)
  BY <1>6 DEF handleCallback, dropCallback, SaveCallbackResponse, publishAgain, handleConfirmed,
     MarkCallbackComplete, proxyVars
<1>. QED BY <1>1, <1>2, <1>3, <1>4, <1>5, <1>6 DEF EventsNext

\* AckedMeansKept: the proxy gives a delivery up only when its client has stored
\* the event, or with the timeout of the HTTP request.
THEOREM AckedOnlyIfKept == EventsSpec => AckedMeansKept
<1>1. EventsInv /\ [EventsNext]_eventVars =>
        [\A d \in Delivery :
            delivery[d] = "open" /\ delivery'[d] = "acked"
            => callback[d] # None \/ (http[d[1]] = "waiting" /\ http'[d[1]] = "failed")]_eventVars
  BY WhoAcknowledges
<1>. QED BY <1>1, EventsInvariant, PTL DEF EventsSpec, AckedMeansKept

================================================================================
