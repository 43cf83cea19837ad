-------------------------- MODULE CallbackRoutesProofs -------------------------
(***************************************************************************)
(* What commands and cleanup do to the tables of routes and subscribers,   *)
(* for every set of clients and webhooks.  The proofs about CallbackControl*)
(* and CallbackEvents rest on it.                                          *)
(***************************************************************************)
EXTENDS CallbackRoutes, TLAPS

\* In delegated mode there is a responder, and a responder is a client.
LEMMA ResponderType ==
    ASSUME NEW c \in Client, NEW p \in Payload
    PROVE  /\ Responder(c, p) \in Client \cup {None}
           /\ p.mode = "delegated" => Responder(c, p) # None
BY RoutesAssumption DEF Responder, Payload

\* A new route is complete, with its owner among its subscribers.
LEMMA RegisterKeepsRoutes ==
    ASSUME RoutesOK, NEW c \in Client, NEW p \in Payload, p.mode \in Mode, Register(c, p)
    PROVE  RoutesOK'
<1> DEFINE new == [owner |-> c, mode |-> p.mode, responder |-> Responder(c, p),
                   enabled |-> TRUE]
<1>0. p.webhook \in Webhook /\ p.clients \in SUBSET Client
  BY DEF Payload
<1>1. new \in Route
  BY ResponderType DEF Route
<1>2. new.mode = "delegated" => new.responder # None
  BY ResponderType
<1>3. new # None
  BY <1>1, NoneAssumption
<1>4. /\ route' = [route EXCEPT ![p.webhook] = new]
      /\ subscribers' = [subscribers EXCEPT ![p.webhook] = p.clients \cup {c}]
  BY DEF Register
<1> HIDE DEF new
<1>. QED BY <1>0, <1>1, <1>2, <1>3, <1>4 DEF RoutesOK

\* An update writes mode and responder together.
LEMMA UpdateKeepsRoutes ==
    ASSUME RoutesOK, NEW c \in Client, NEW p \in Payload, p.mode \in Mode,
           Owns(c, p.webhook), Update(c, p)
    PROVE  RoutesOK'
<1> DEFINE new == [route[p.webhook] EXCEPT !.mode = p.mode,
                                           !.responder = Responder(c, p),
                                           !.enabled = TRUE]
<1>0. p.webhook \in Webhook /\ route[p.webhook] \in Route
  BY DEF Payload, RoutesOK, Owns
<1>1. new \in Route /\ new.mode = p.mode /\ new.responder = Responder(c, p)
  BY <1>0, ResponderType DEF Route
<1>2. new.mode = "delegated" => new.responder # None
  BY <1>1, ResponderType
<1>3. new # None
  BY <1>1, NoneAssumption
<1>4. route' = [route EXCEPT ![p.webhook] = new] /\ subscribers' = subscribers
  BY <1>0 DEF Update, Route
<1> HIDE DEF new
<1>. QED BY <1>0, <1>1, <1>2, <1>3, <1>4 DEF RoutesOK, Owns

\* A deleted route keeps its row, which is disabled.
LEMMA DeleteKeepsRoutes ==
    ASSUME RoutesOK, NEW c \in Client, NEW p \in Payload, Owns(c, p.webhook), Delete(p)
    PROVE  RoutesOK'
<1> DEFINE new == [route[p.webhook] EXCEPT !.enabled = FALSE]
<1>0. p.webhook \in Webhook /\ route[p.webhook] \in Route
  BY DEF Payload, RoutesOK, Owns
<1>1. /\ new \in Route /\ new.mode = route[p.webhook].mode
      /\ new.responder = route[p.webhook].responder
  BY <1>0 DEF Route
<1>2. new # None
  BY <1>1, NoneAssumption
<1>3. route' = [route EXCEPT ![p.webhook] = new] /\ subscribers' = subscribers
  BY <1>0 DEF Delete, Route
<1> HIDE DEF new
<1>. QED BY <1>0, <1>1, <1>2, <1>3 DEF RoutesOK, Owns

\* Subscribers change on a route that exists.
LEMMA SubscribersKeepRoutes ==
    ASSUME RoutesOK, NEW c \in Client, NEW p \in Payload, Owns(c, p.webhook),
           Subscribe(p) \/ Unsubscribe(p)
    PROVE  RoutesOK'
<1>1. p.webhook \in Webhook /\ p.clients \in SUBSET Client
  BY DEF Payload
<1>. QED BY <1>1 DEF RoutesOK, Owns, Subscribe, Unsubscribe

\* Whatever a command does, and whatever comes out, the tables fit together:
\* no subscriber without a route, no delegated route without a responder.
LEMMA ApplyKeepsRoutes ==
    ASSUME RoutesOK, NEW c \in Client, NEW p \in Payload, NEW outcome,
           Apply(c, p, outcome)
    PROVE  RoutesOK'
<1>1. CASE UNCHANGED routeVars
  BY <1>1 DEF RoutesOK, routeVars
<1>2. CASE /\ ~Invalid(c, p) /\ (p.action = "register" \/ Owns(c, p.webhook))
           /\ CASE p.action = "register" -> Register(c, p)
                [] p.action = "update" -> Update(c, p)
                [] p.action = "subscribe" -> Subscribe(p)
                [] p.action = "unsubscribe" -> Unsubscribe(p)
                [] p.action = "delete" -> Delete(p)
  <2>0. p.action \in {"register", "update", "subscribe", "unsubscribe", "delete"}
    BY DEF Payload
  <2>1. CASE p.action = "register"
    BY <1>2, <2>1, RegisterKeepsRoutes DEF Invalid
  <2>2. CASE p.action = "update"
    BY <1>2, <2>2, UpdateKeepsRoutes DEF Invalid
  <2>3. CASE p.action = "subscribe"
    BY <1>2, <2>3, SubscribersKeepRoutes
  <2>4. CASE p.action = "unsubscribe"
    BY <1>2, <2>4, SubscribersKeepRoutes
  <2>5. CASE p.action = "delete"
    BY <1>2, <2>5, DeleteKeepsRoutes
  <2>. QED BY <2>0, <2>1, <2>2, <2>3, <2>4, <2>5
<1>. QED BY <1>1, <1>2 DEF Apply

\* Cleanup deletes a route with its subscribers.
LEMMA DropRouteKeepsRoutes ==
    ASSUME RoutesOK, NEW w \in Webhook, DropRoute(w)
    PROVE  RoutesOK'
BY DEF RoutesOK, DropRoute

================================================================================
