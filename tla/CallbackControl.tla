----------------------------- MODULE CallbackControl ---------------------------
(***************************************************************************)
(* Control commands of the callback direction: the calls of a client       *)
(* (RegisterCallback .. DeleteCallback), core NATS, the handlers of the    *)
(* proxy with the command table, and the delivery loop that carries the    *)
(* results back.                                                           *)
(*                                                                         *)
(* A call <<client, command ID>> may be made again under the same ID, with *)
(* the same contents, after it was cancelled or has returned.  Clients     *)
(* keep nothing: a restart of the process cancels its calls.               *)
(*                                                                         *)
(* A receipt takes a message out of net; the senders repeat theirs, so     *)
(* copies may still arrive when the exchange they belong to is long over.  *)
(***************************************************************************)
EXTENDS CallbackRoutes, DeliveryLoop

CONSTANTS
    Menu,           \* what a client may ask for under a command ID
    MaxCalls,       \* bound: calls
    MaxFaults       \* bound: messages lost, calls cancelled, rows grown old

ASSUME ControlAssumption ==
    /\ DOMAIN Menu \subseteq Client \X Delivery
    /\ \A x \in DOMAIN Menu : Menu[x] \subseteq Payload

VARIABLES
    command,        \* rows of proxy_webhook_commands
    old,            \* those created before the retention
    past,           \* ghost: every outcome there has been for a call
    asked,          \* contents of each call
    again,          \* calls made more than once
    call,           \* where webhookControl is
    told,           \* the result a call has taken
    net,
    calls, faults

\* The delivery of a result has the ID of its command.
Command == Delivery

Call == DOMAIN Menu

clientVars == <<asked, again, call, told>>
commandVars == <<command, old, past>>
boundVars == <<calls, faults>>
controlVars ==
    <<routeVars, commandVars, delivery, clientVars, net, boundVars>>

--------------------------------------------------------------------------------
CommandRow == [client : Client, payload : Payload, outcome : Outcome]

ASSUME CommandAssumption == None \notin CommandRow

Message ==
    [type : {"command", "ack", "confirmed"}, call : Call]
    \cup [type : {"result"}, call : Call, outcome : Outcome]

Msg(type, x) == [type |-> type, call |-> x]

\* Rows, calls and messages keep their shape; a command has a delivery.
ControlTypeOK ==
    /\ RoutesOK
    /\ command \in [Command -> CommandRow \cup {None}]
    /\ old \subseteq {k \in Command : command[k] # None}
    /\ delivery \in [Command -> RowState]
    /\ \A k \in Command : command[k] = None <=> delivery[k] = "none"
    /\ past \in [Call -> SUBSET Outcome]
    /\ asked \in [Call -> Payload \cup {None}]
    /\ again \subseteq Call
    /\ call \in [Call -> {"idle", "offer", "ack"}]
    /\ told \in [Call -> Outcome \cup {None}]
    /\ net \in SUBSET Message

\* The routes are those of commands long forgotten.
ControlInit ==
    /\ RoutesOK
    /\ command = [k \in Command |-> None]
    /\ old = {}
    /\ past = [x \in Call |-> {}]
    /\ DeliveriesInit
    /\ asked = [x \in Call |-> None]
    /\ again = {}
    /\ call = [x \in Call |-> "idle"]
    /\ told = [x \in Call |-> None]
    /\ net = {}
    /\ calls = 0 /\ faults = 0

--------------------------------------------------------------------------------
(* Core NATS.                                                              *)

Receive(m) == m \in net /\ net' = net \ {m}
Publish(m) == net' = net \cup {m}
Answer(m, reply) == m \in net /\ net' = (net \ {m}) \cup {reply}

Fault == faults < MaxFaults /\ faults' = faults + 1

Lose ==
    /\ Fault
    /\ \E m \in net : Receive(m)
    /\ UNCHANGED <<routeVars, commandVars, delivery, clientVars, calls>>

--------------------------------------------------------------------------------
(* The client: webhookControl.                                             *)

\* Contents of a command ID do not change; a call already running is refused.
startCall(x) ==
    /\ calls < MaxCalls
    /\ calls' = calls + 1
    /\ call[x] = "idle"
    /\ \E p \in Menu[x] :
          asked[x] \in {None, p} /\ asked' = [asked EXCEPT ![x] = p]
    /\ again' = IF asked[x] = None THEN again ELSE again \cup {x}
    /\ call' = [call EXCEPT ![x] = "offer"]
    /\ told' = [told EXCEPT ![x] = None]
    /\ Publish(Msg("command", x))
    /\ UNCHANGED <<routeVars, commandVars, delivery, faults>>

publishCommand(x) ==
    /\ call[x] = "offer"
    /\ Publish(Msg("command", x))
    /\ UNCHANGED <<routeVars, commandVars, delivery, clientVars, boundVars>>

\* The result a call finds in its channel, which it reads at once: a timer or a
\* cancellation in between is one that came just before.  The channel is found
\* by command ID; without a call, or with the result taken, it is dropped.
handleControlResult(x) ==
    /\ \E m \in net :
          /\ m.type = "result" /\ m.call = x
          /\ \/ /\ call[x] = "offer"
                /\ Answer(m, Msg("ack", x))
                /\ call' = [call EXCEPT ![x] = "ack"]
                /\ told' = [told EXCEPT ![x] = m.outcome]
             \/ call[x] # "offer" /\ Receive(m) /\ UNCHANGED <<call, told>>
    /\ UNCHANGED <<routeVars, commandVars, delivery, asked, again, boundVars>>

ackUntilConfirmed(x) ==
    /\ call[x] = "ack"
    /\ Publish(Msg("ack", x))
    /\ UNCHANGED <<routeVars, commandVars, delivery, clientVars, boundVars>>

\* The confirmation ends the call.
handleConfirmed(x) ==
    /\ Receive(Msg("confirmed", x))
    /\ call' = [call EXCEPT ![x] = IF @ = "ack" THEN "idle" ELSE @]
    /\ UNCHANGED <<routeVars, commandVars, delivery, asked, again, told, boundVars>>

cancelCall(x) ==
    /\ Fault
    /\ call[x] # "idle"
    /\ call' = [call EXCEPT ![x] = "idle"]
    /\ UNCHANGED <<routeVars, commandVars, delivery, asked, again, told, net, calls>>

--------------------------------------------------------------------------------
(* The proxy: handlers, delivery loop, cleanup.                            *)

\* The stored command is this one.
Same(x) == command[x[2]].client = x[1] /\ command[x[2]].payload = asked[x]

\* Mutant: the stored result is not sent again.
repeatCommand_Silent(x) ==
    command[x[2]] # None /\ UNCHANGED <<routeVars, command, past, delivery>>

\* A known command opens the delivery of its result again; one that differs
\* under the same ID, of whatever client, is refused without an answer.
repeatCommand(x) ==
    /\ command[x[2]] # None
    /\ \/ Same(x) /\ Open(x[2])
       \/ ~Same(x) /\ UNCHANGED delivery
    /\ UNCHANGED <<routeVars, command, past>>

RegisteredBefore(x) ==
    asked[x].action = "register" /\ route[asked[x].webhook] # None

\* Tables, command and delivery change in one transaction; it fails when the
\* route to be registered exists.
applyCommand(x) ==
    /\ command[x[2]] = None
    /\ \/ \E outcome \in Outcome :
             /\ Apply(x[1], asked[x], outcome)
             /\ command' = [command EXCEPT ![x[2]] =
                   [client |-> x[1], payload |-> asked[x], outcome |-> outcome]]
             /\ past' = [past EXCEPT ![x] = @ \cup {outcome}]
             /\ Open(x[2])
       \/ /\ RegisteredBefore(x) /\ ~Invalid(x[1], asked[x])
          /\ UNCHANGED <<routeVars, command, past, delivery>>

handleWebhookCommand(x) ==
    /\ Receive(Msg("command", x))
    /\ repeatCommand(x) \/ applyCommand(x)
    /\ UNCHANGED <<old, clientVars, boundVars>>

DeliveryOf(x) == command[x[2]] # None /\ command[x[2]].client = x[1]

\* Delivery and client have to match; otherwise there is no answer.
handleWebhookControlACK(x) ==
    /\ \/ /\ DeliveryOf(x)
          /\ Answer(Msg("ack", x), Msg("confirmed", x))
          /\ Acknowledge(x[2])
       \/ /\ ~DeliveryOf(x)
          /\ Receive(Msg("ack", x))
          /\ UNCHANGED delivery
    /\ UNCHANGED <<routeVars, commandVars, clientVars, boundVars>>

CallOf(k) == <<command[k].client, k>>

ResultMsg(k) ==
    [type |-> "result", call |-> CallOf(k), outcome |-> command[k].outcome]

publishDelivery(k) ==
    /\ DeliveryRound(k)
    /\ Publish(ResultMsg(k))
    /\ UNCHANGED <<routeVars, commandVars, clientVars, boundVars>>

\* A command reaches the retention, which is taken to be longer than a call
\* lasts and a message is accepted (config.Load sets no minimum).
commandGrowsOld(k) ==
    /\ Fault
    /\ command[k] # None /\ k \notin old
    /\ call[CallOf(k)] = "idle"
    /\ old' = old \cup {k}
    /\ net' = {m \in net : m.call # CallOf(k)}
    /\ UNCHANGED <<routeVars, command, past, delivery, clientVars, calls>>

\* Mutant: the age of a command does not matter.
cleanupCommand_Young(k) ==
    /\ delivery[k] = "acked"
    /\ command' = [command EXCEPT ![k] = None]
    /\ delivery' = [delivery EXCEPT ![k] = "none"]
    /\ old' = old \ {k}
    /\ UNCHANGED <<routeVars, past, clientVars, net, boundVars>>

\* A command that was created before the retention and whose result is
\* acknowledged is forgotten, even while a later call uses its ID.
cleanupCommand(k) ==
    /\ k \in old /\ delivery[k] = "acked"
    /\ command' = [command EXCEPT ![k] = None]
    /\ delivery' = [delivery EXCEPT ![k] = "none"]
    /\ old' = old \ {k}
    /\ UNCHANGED <<routeVars, past, clientVars, net, boundVars>>

cleanupRoute(w) ==
    /\ Fault
    /\ DropRoute(w)
    /\ UNCHANGED <<commandVars, delivery, clientVars, net, calls>>

--------------------------------------------------------------------------------
ControlNext ==
    \/ \E x \in Call :
          \/ startCall(x) \/ publishCommand(x) \/ handleControlResult(x)
          \/ ackUntilConfirmed(x) \/ handleConfirmed(x) \/ cancelCall(x)
          \/ handleWebhookCommand(x) \/ handleWebhookControlACK(x)
    \/ \E k \in Command : publishDelivery(k) \/ commandGrowsOld(k) \/ cleanupCommand(k)
    \/ \E w \in Webhook : cleanupRoute(w)
    \/ Lose

ControlSpec == ControlInit /\ [][ControlNext]_controlVars

\* Loops and handlers go on, timers fire, and a message that is not lost is
\* received.  Of the calls, of cancellation, cleanup and failures nothing is
\* assumed.  Rows are claimed in the order of their age, so none waits for ever.
ControlFairness ==
    /\ \A x \in Call :
          /\ WF_controlVars(publishCommand(x)) /\ WF_controlVars(handleControlResult(x))
          /\ WF_controlVars(ackUntilConfirmed(x)) /\ WF_controlVars(handleConfirmed(x))
          /\ WF_controlVars(handleWebhookCommand(x))
          /\ WF_controlVars(handleWebhookControlACK(x))
    /\ \A k \in Command : WF_controlVars(publishDelivery(k))

FairControlSpec == ControlSpec /\ ControlFairness

--------------------------------------------------------------------------------
(* Properties.                                                             *)

Registry == INSTANCE CallbackRegistry WITH decided <- command

\* Commands are idempotent on the side of the proxy (README.md): each has one
\* outcome, decided together with its effect, callers are told the outcome of
\* their own command, and copies that arrive later change nothing, whatever is
\* lost, repeated or forgotten.
KeepsRegistry == Registry!RegistrySpec

\* The proxy answers no call whose ID stands for another command; once it has
\* forgotten a command it cannot register its route again, and does not confirm
\* the acknowledgement of its result.
Unanswerable(x) ==
    \/ command[x[2]] # None /\ ~Same(x)
    \/ command[x[2]] = None /\ (RegisteredBefore(x) \/ call[x] = "ack")

\* A call that is repeated until it hears a result ends: the result is kept and
\* delivered until it is acknowledged (docs/logic.md).  Only a call that from some
\* moment on is unanswerable for good may go on for ever.
CallEnds ==
    \A x \in Call :
        []<>(call[x] = "idle") \/ <>[](call[x] # "idle" /\ Unanswerable(x))

--------------------------------------------------------------------------------
(* The inductive invariant behind the properties.                          *)

\* The row of the command is that of call x, and it is not old.
Fresh(x) == command[x[2]] # None /\ CallOf(x[2]) = x /\ x[2] \notin old

\* Rows and results under way are those of decisions that were made for a call
\* that was asked for.
OutcomesOK ==
    /\ \A k \in Command : command[k] # None =>
          CallOf(k) \in Call /\ command[k].outcome \in past[CallOf(k)]
    /\ \A x \in Call : past[x] # {} => asked[x] # None
    /\ \A m \in net : /\ asked[m.call] # None
                      /\ m.type = "result" => m.outcome \in past[m.call]

\* A call that was made once is decided at most once: while it repeats its
\* command, and as long as a copy of it is under way afterwards, the proxy
\* remembers the decision and does not forget it.
OnceOK ==
    \A x \in Call :
        /\ call[x] # "idle" => asked[x] # None
        /\ call[x] = "offer" => told[x] = None
        /\ x \notin again /\ call[x] = "offer" /\ past[x] # {} => Fresh(x)
        /\ x \notin again /\ told[x] # None /\ Msg("command", x) \in net => Fresh(x)

\* The proxy, the network and the calls agree about every command.
ControlInv == ControlTypeOK /\ OutcomesOK /\ OnceOK

================================================================================
