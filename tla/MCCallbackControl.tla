---------------------------- MODULE MCCallbackControl --------------------------
(* Two clients, two command IDs and two routes, one of them already there. *)
EXTENDS CallbackControl, TLC

CONSTANTS c1, c2, c3, k1, k2

MCClient == {c1, c2, c3}
MCAllowed == {c1, c2}
MCCommand == {k1, k2}
MCWebhook == {"old", "new"}

Cmd(action, w, mode, responder, clients) ==
    [action |-> action, webhook |-> w, mode |-> mode, responder |-> responder,
     clients |-> clients]

\* c1 owns the old route; c2 uses an ID of c1 for what it does not own.
MCMenu ==
    <<c1, k1>> :> {Cmd("update", "old", "delegated", None, {}),
                   Cmd("register", "new", "delegated", c2, {c2}),
                   Cmd("unsubscribe", "old", "static", None, {c1})}
    @@ <<c1, k2>> :> {Cmd("delete", "old", "static", None, {})}
    @@ <<c2, k1>> :> {Cmd("subscribe", "old", "static", None, {c3})}

OldRoute ==
    [owner |-> c1, mode |-> "static", responder |-> None, enabled |-> TRUE]

MCInit ==
    /\ route = [w \in Webhook |-> IF w = "old" THEN OldRoute ELSE None]
    /\ subscribers = [w \in Webhook |-> IF w = "old" THEN {c1} ELSE {}]
    /\ ControlInit

MCSpec == MCInit /\ [][ControlNext]_controlVars /\ ControlFairness

================================================================================
