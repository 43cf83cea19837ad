----------------------------- MODULE CallbackRoutes ----------------------------
(***************************************************************************)
(* The routes of the callback direction: the tables proxy_webhook_routes   *)
(* and proxy_webhook_subscribers, and what a control command does to them. *)
(* CallbackControl adds the protocol that carries the commands, and        *)
(* CallbackEvents the events that arrive over the routes.                  *)
(***************************************************************************)
EXTENDS Naturals, FiniteSets

CONSTANTS
    Client,
    Allowed,    \* clients of the allow list
    Webhook,
    None        \* no row, no client, no result

ASSUME RoutesAssumption ==
    /\ Allowed \subseteq Client
    /\ None \notin Client \cup Webhook

VARIABLES
    route,          \* row of a webhook
    subscribers     \* its subscribers; they are deleted with the row

routeVars == <<route, subscribers>>

--------------------------------------------------------------------------------
Mode == {"static", "delegated"}

Route ==
    [owner : Client, mode : Mode, responder : Client \cup {None}, enabled : BOOLEAN]

RoutesOK ==
    /\ route \in [Webhook -> Route \cup {None}]
    /\ subscribers \in [Webhook -> SUBSET Client]
    /\ \A w \in Webhook :
          /\ route[w] = None => subscribers[w] = {}
          /\ route[w] # None /\ route[w].mode = "delegated" => route[w].responder # None

\* A command as the client asks for it.  Fields an action does not use are None
\* or empty.
Payload ==
    [action : {"register", "update", "subscribe", "unsubscribe", "delete"},
     webhook : Webhook, mode : Mode \cup {"other"}, responder : Client \cup {None},
     clients : SUBSET Client]

Outcome == {"done", "webhook_not_found", "invalid"}

\* None is none of the things it stands for the lack of.
ASSUME NoneAssumption == None \notin Route /\ None \notin Payload /\ None \notin Outcome

--------------------------------------------------------------------------------
(* webhookControlOperation: defaults and validation.                       *)

\* Mutant: no default.
Responder_NoDefault(c, p) == p.responder

\* In delegated mode the caller answers unless it names somebody else.
Responder(c, p) ==
    IF p.mode = "delegated" /\ p.responder = None THEN c ELSE p.responder

Invalid(c, p) ==
    \/ p.action \in {"register", "update"} /\ p.mode \notin Mode
    \/ p.action \in {"register", "update"} /\ Responder(c, p) \notin Allowed \cup {None}
    \/ p.action \in {"register", "subscribe"} /\ ~(p.clients \subseteq Allowed)

--------------------------------------------------------------------------------
(* ApplyWebhookControl: the change of the tables, in one transaction with  *)
(* the row of the command.                                                 *)

Owns(c, w) == route[w] # None /\ route[w].owner = c

\* The route of a register command has an ID made of client and command, so it
\* exists already only if the command itself has been forgotten.
Register(c, p) ==
    /\ route[p.webhook] = None
    /\ route' = [route EXCEPT ![p.webhook] =
                   [owner |-> c, mode |-> p.mode, responder |-> Responder(c, p),
                    enabled |-> TRUE]]
    /\ subscribers' = [subscribers EXCEPT ![p.webhook] = p.clients \cup {c}]

\* An update also enables the route again.
Update(c, p) ==
    /\ route' = [route EXCEPT ![p.webhook].mode = p.mode,
                              ![p.webhook].responder = Responder(c, p),
                              ![p.webhook].enabled = TRUE]
    /\ UNCHANGED subscribers

Subscribe(p) ==
    /\ subscribers' = [subscribers EXCEPT ![p.webhook] = @ \cup p.clients]
    /\ UNCHANGED route

Unsubscribe(p) ==
    /\ subscribers' = [subscribers EXCEPT ![p.webhook] = @ \ p.clients]
    /\ UNCHANGED route

Delete(p) ==
    /\ route' = [route EXCEPT ![p.webhook].enabled = FALSE]
    /\ UNCHANGED subscribers

\* Client c applies p, with its outcome.
Apply(c, p, outcome) ==
    \/ /\ Invalid(c, p)
       /\ outcome = "invalid"
       /\ UNCHANGED routeVars
    \/ /\ ~Invalid(c, p) /\ p.action # "register" /\ ~Owns(c, p.webhook)
       /\ outcome = "webhook_not_found"
       /\ UNCHANGED routeVars
    \/ /\ ~Invalid(c, p) /\ (p.action = "register" \/ Owns(c, p.webhook))
       /\ outcome = "done"
       /\ CASE p.action = "register" -> Register(c, p)
            [] p.action = "update" -> Update(c, p)
            [] p.action = "subscribe" -> Subscribe(p)
            [] p.action = "unsubscribe" -> Unsubscribe(p)
            [] p.action = "delete" -> Delete(p)

\* Cleanup: a disabled route that has no events left is deleted.
DropRoute(w) ==
    /\ route[w] # None /\ ~route[w].enabled
    /\ route' = [route EXCEPT ![w] = None]
    /\ subscribers' = [subscribers EXCEPT ![w] = {}]

================================================================================
