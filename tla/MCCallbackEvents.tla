---------------------------- MODULE MCCallbackEvents ---------------------------
(* One route of client c1, who has two processes, and one event.           *)
EXTENDS CallbackEvents, TLC

CONSTANTS c1, c2, p1, p2, w1, e1

MCClient == {c1, c2}
MCWebhook == {w1}
MCEvent == {e1}
MCDelivery == MCEvent \X MCClient
MCHook == [e \in MCEvent |-> w1]
BothOfC1 == (p1 :> c1 @@ p2 :> c1)
OneEach == (p1 :> c1 @@ p2 :> c2)

MCHandler == (p1 :> {"A"} @@ p2 :> {"B"})

Cmd(action, mode, responder, clients) ==
    [action |-> action, webhook |-> w1, mode |-> mode, responder |-> responder,
     clients |-> clients]

\* Another responder.
MCChange == {Cmd("update", "delegated", c2, {})}

MCRoute == [owner : {c1}, mode : Mode, responder : {c1}, enabled : {TRUE}]
Closed == [owner |-> c1, mode |-> "static", responder |-> None, enabled |-> FALSE]

MCInit ==
    /\ route \in [MCWebhook -> MCRoute \cup {Closed}]
    /\ subscribers = [w \in MCWebhook |-> {c1}]
    /\ EventsInit

MCSpec == MCInit /\ [][EventsNext]_eventVars /\ EventsFairness

\* Both clients listen.
SharedInit ==
    /\ route \in [MCWebhook -> MCRoute]
    /\ subscribers = [w \in MCWebhook |-> {c1, c2}]
    /\ EventsInit

SharedSpec == SharedInit /\ [][EventsNext]_eventVars /\ EventsFairness

================================================================================
