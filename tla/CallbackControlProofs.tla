-------------------------- MODULE CallbackControlProofs ------------------------
(***************************************************************************)
(* Proofs about CallbackControl, for every set of clients, webhooks,       *)
(* command IDs and menus, and any number of calls and faults: ControlInv   *)
(* is inductive, and the protocol implements CallbackRegistry.             *)
(***************************************************************************)
EXTENDS CallbackControl, CallbackRoutesProofs

\* A call is a client and a command ID.
LEMMA CallType ==
    ASSUME NEW x \in Call
    PROVE  x[1] \in Client /\ x[2] \in Command /\ x = <<x[1], x[2]>>
BY ControlAssumption DEF Call, Command

\* The messages of a call.
LEMMA MessageType ==
    ASSUME NEW x \in Call, NEW type \in {"command", "ack", "confirmed"}
    PROVE  /\ Msg(type, x) \in Message
           /\ Msg(type, x).call = x /\ Msg(type, x).type = type
BY DEF Msg, Message

\* Only a message of type command is a command, and of one call only.
LEMMA CommandMessage ==
    ASSUME NEW x, NEW type, NEW y, Msg(type, x) = Msg("command", y)
    PROVE  type = "command" /\ x = y
<1>1. Msg(type, x).type = Msg("command", y).type /\ Msg(type, x).call = Msg("command", y).call
  OBVIOUS
<1>. QED BY <1>1 DEF Msg

\* At first nothing is asked, decided or under way.
LEMMA InitControl == ControlInit => ControlInv
<1> SUFFICES ASSUME ControlInit PROVE ControlInv
  OBVIOUS
<1> USE DEF ControlInit, DeliveriesInit, Command
<1>1. ControlTypeOK
  BY DEF ControlTypeOK, RowState
<1>2. OutcomesOK
  BY DEF OutcomesOK
<1>3. OnceOK
  BY DEF OnceOK
<1>. QED BY <1>1, <1>2, <1>3 DEF ControlInv

\* A message that is lost is one less.
LEMMA LoseStep ==
    ASSUME ControlInv, Lose
    PROVE  ControlInv'
<1> USE DEF ControlInv, Lose, Fault, Receive
<1> USE DEF routeVars, commandVars, clientVars, boundVars
<1>1. ControlTypeOK'
  BY DEF ControlTypeOK, RoutesOK
<1>2. OutcomesOK'
  BY DEF ControlTypeOK, OutcomesOK, CallOf
<1>3. OnceOK'
  BY DEF ControlTypeOK, OutcomesOK, OnceOK, Fresh, CallOf
<1>. QED BY <1>1, <1>2, <1>3

\* A call made again is marked; one made for the first time has no past.
LEMMA startCallStep ==
    ASSUME ControlInv, NEW x \in Call, startCall(x)
    PROVE  ControlInv'
<1> USE DEF ControlInv, startCall, Publish
<1> USE DEF routeVars, commandVars, clientVars, boundVars
<1>0. /\ x[1] \in Client /\ x[2] \in Command /\ x = <<x[1], x[2]>>
      /\ \A type \in {"command", "ack", "confirmed"} :
            Msg(type, x) \in Message /\ Msg(type, x).call = x /\ Msg(type, x).type = type
      /\ \A y \in Call : Msg("command", x) = Msg("command", y) => x = y
  BY CallType, MessageType
<1>4. asked'[x] \in Payload /\ asked'[x] # None
  BY ControlAssumption, NoneAssumption DEF ControlTypeOK, Call
<1>5. \A y \in Call : asked[y] # None => asked'[y] # None
  BY <1>4 DEF ControlTypeOK
<1>1. ControlTypeOK'
  BY <1>0, <1>4 DEF ControlTypeOK, RoutesOK
<1>2. OutcomesOK'
  BY <1>0, <1>4, <1>5 DEF ControlTypeOK, OutcomesOK, CallOf
<1>3. OnceOK'
  BY <1>0, <1>4, <1>5 DEF ControlTypeOK, OutcomesOK, OnceOK, Fresh, CallOf
<1>. QED BY <1>1, <1>2, <1>3

\* The command is repeated only while the call waits for its result.
LEMMA publishCommandStep ==
    ASSUME ControlInv, NEW x \in Call, publishCommand(x)
    PROVE  ControlInv'
<1> USE DEF ControlInv, publishCommand, Publish
<1> USE DEF routeVars, commandVars, clientVars, boundVars
<1>0. Msg("command", x) \in Message /\ Msg("command", x).call = x
      /\ Msg("command", x).type = "command"
  BY MessageType
<1>4. asked[x] # None
  BY DEF OnceOK
<1>1. ControlTypeOK'
  BY <1>0 DEF ControlTypeOK, RoutesOK
<1>2. OutcomesOK'
  BY <1>0, <1>4 DEF OutcomesOK, CallOf
<1>3. OnceOK'
  <2>1. \A y \in Call : Msg("command", y) \in net' => Msg("command", y) \in net \/ y = x
    BY CommandMessage
  <2>2. told[x] = None
    BY DEF OnceOK
  <2>. QED BY <2>1, <2>2 DEF OnceOK, Fresh, CallOf
<1>. QED BY <1>1, <1>2, <1>3

\* The result taken is one of the past of the call.
LEMMA handleControlResultStep ==
    ASSUME ControlInv, NEW x \in Call, handleControlResult(x)
    PROVE  ControlInv'
<1> USE DEF ControlInv, handleControlResult, Receive, Answer
<1> USE DEF routeVars, commandVars, clientVars, boundVars
<1>0. Msg("ack", x) \in Message /\ Msg("ack", x).call = x /\ Msg("ack", x).type = "ack"
  BY MessageType
<1>a. PICK m \in net :
          /\ m.type = "result" /\ m.call = x
          /\ \/ /\ call[x] = "offer"
                /\ net' = (net \ {m}) \cup {Msg("ack", x)}
                /\ call' = [call EXCEPT ![x] = "ack"]
                /\ told' = [told EXCEPT ![x] = m.outcome]
             \/ call[x] # "offer" /\ net' = net \ {m} /\ UNCHANGED <<call, told>>
  OBVIOUS
<1>b. m.outcome \in Outcome /\ asked[x] # None /\ m.outcome \in past[x]
  BY <1>a DEF ControlTypeOK, Message, OutcomesOK
<1>c. \A n \in net' : n \in net \/ n = Msg("ack", x)
  BY <1>a
<1>1. ControlTypeOK'
  BY <1>0, <1>a, <1>b DEF ControlTypeOK, RoutesOK
<1>2. OutcomesOK'
  BY <1>0, <1>b, <1>c DEF OutcomesOK, CallOf
<1>3. OnceOK'
  <2>1. \A y \in Call : Msg("command", y) \in net' => Msg("command", y) \in net
    BY <1>c, CommandMessage
  <2>2. SUFFICES ASSUME NEW y \in Call
                 PROVE  /\ call'[y] # "idle" => asked[y] # None
                        /\ call'[y] = "offer" => told'[y] = None
                        /\ y \notin again /\ call'[y] = "offer" /\ past[y] # {} => Fresh(y)
                        /\ y \notin again /\ told'[y] # None /\ Msg("command", y) \in net'
                              => Fresh(y)
    BY DEF OnceOK, Fresh, CallOf
  <2>3. CASE y # x
    BY <1>a, <2>1, <2>3 DEF OnceOK, ControlTypeOK
  <2>4. CASE y = x
    <3>1. call[x] = "offer" => (x \notin again => Fresh(x))
      BY <1>b DEF OnceOK
    <3>. QED BY <1>a, <1>b, <2>1, <2>4, <3>1 DEF OnceOK, ControlTypeOK
  <2>. QED BY <2>3, <2>4
<1>. QED BY <1>1, <1>2, <1>3

\* An ACK is repeated only after a result was taken.
LEMMA ackUntilConfirmedStep ==
    ASSUME ControlInv, NEW x \in Call, ackUntilConfirmed(x)
    PROVE  ControlInv'
<1> USE DEF ControlInv, ackUntilConfirmed, Publish
<1> USE DEF routeVars, commandVars, clientVars, boundVars
<1>0. Msg("ack", x) \in Message /\ Msg("ack", x).call = x /\ Msg("ack", x).type = "ack"
  BY MessageType
<1>4. asked[x] # None
  BY DEF OnceOK
<1>1. ControlTypeOK'
  BY <1>0 DEF ControlTypeOK, RoutesOK
<1>2. OutcomesOK'
  BY <1>0, <1>4 DEF OutcomesOK, CallOf
<1>3. OnceOK'
  <2>1. \A y \in Call : Msg("command", y) \in net' => Msg("command", y) \in net
    BY CommandMessage
  <2>. QED BY <2>1 DEF OnceOK, Fresh, CallOf
<1>. QED BY <1>1, <1>2, <1>3

\* A confirmation ends the call.
LEMMA handleConfirmedStep ==
    ASSUME ControlInv, NEW x \in Call, handleConfirmed(x)
    PROVE  ControlInv'
<1> USE DEF ControlInv, handleConfirmed, Receive
<1> USE DEF routeVars, commandVars, clientVars, boundVars
<1>1. ControlTypeOK'
  BY DEF ControlTypeOK, RoutesOK
<1>2. OutcomesOK'
  BY DEF ControlTypeOK, OutcomesOK, CallOf
<1>3. OnceOK'
  BY DEF ControlTypeOK, OutcomesOK, OnceOK, Fresh, CallOf
<1>. QED BY <1>1, <1>2, <1>3

\* A cancelled call repeats nothing.
LEMMA cancelCallStep ==
    ASSUME ControlInv, NEW x \in Call, cancelCall(x)
    PROVE  ControlInv'
<1> USE DEF ControlInv, cancelCall, Fault
<1> USE DEF routeVars, commandVars, clientVars, boundVars
<1>1. ControlTypeOK'
  BY DEF ControlTypeOK, RoutesOK
<1>2. OutcomesOK'
  BY DEF ControlTypeOK, OutcomesOK, CallOf
<1>3. OnceOK'
  BY DEF ControlTypeOK, OutcomesOK, OnceOK, Fresh, CallOf
<1>. QED BY <1>1, <1>2, <1>3

\* A known command changes nothing but its delivery.
LEMMA repeatCommandStep ==
    ASSUME ControlInv, NEW x \in Call, handleWebhookCommand(x), repeatCommand(x)
    PROVE  ControlInv'
<1> USE DEF ControlInv, handleWebhookCommand, repeatCommand, Receive, Open
<1> USE DEF routeVars, commandVars, clientVars, boundVars
<1>0. /\ x[1] \in Client /\ x[2] \in Command /\ x = <<x[1], x[2]>>
      /\ \A type \in {"command", "ack", "confirmed"} :
            Msg(type, x) \in Message /\ Msg(type, x).call = x /\ Msg(type, x).type = type
      /\ \A y \in Call : Msg("command", x) = Msg("command", y) => x = y
  BY CallType, MessageType
<1>1. ControlTypeOK'
  BY <1>0 DEF ControlTypeOK, RoutesOK, RowState, Command
<1>2. OutcomesOK'
  BY <1>0 DEF ControlTypeOK, OutcomesOK, CallOf, RowState, Command
<1>3. OnceOK'
  BY <1>0 DEF ControlTypeOK, OutcomesOK, OnceOK, Fresh, CallOf, RowState, Command
<1>. QED BY <1>1, <1>2, <1>3

\* The ACK of the client closes the delivery.
LEMMA handleWebhookControlACKStep ==
    ASSUME ControlInv, NEW x \in Call, handleWebhookControlACK(x)
    PROVE  ControlInv'
<1> USE DEF ControlInv, handleWebhookControlACK, Answer, Receive, Acknowledge
<1> USE DEF routeVars, commandVars, clientVars, boundVars
<1>0. /\ Msg("confirmed", x) \in Message /\ Msg("confirmed", x).call = x
      /\ Msg("confirmed", x).type = "confirmed" /\ Msg("ack", x).call = x
      /\ x[2] \in Command
  BY MessageType, CallType
<1>4. asked[x] # None
  BY <1>0 DEF OutcomesOK
<1>5. \A n \in net' : n \in net \/ n = Msg("confirmed", x)
  OBVIOUS
<1>1. ControlTypeOK'
  BY <1>0 DEF ControlTypeOK, RoutesOK, RowState, Command, DeliveryOf
<1>2. OutcomesOK'
  BY <1>0, <1>4, <1>5 DEF OutcomesOK, CallOf
<1>3. OnceOK'
  <2>1. \A y \in Call : Msg("command", y) \in net' => Msg("command", y) \in net
    BY <1>5, CommandMessage
  <2>. QED BY <2>1 DEF OnceOK, Fresh, CallOf
<1>. QED BY <1>1, <1>2, <1>3

\* What is delivered is the stored outcome.
LEMMA publishDeliveryStep ==
    ASSUME ControlInv, NEW k \in Command, publishDelivery(k)
    PROVE  ControlInv'
<1> USE DEF ControlInv, publishDelivery, DeliveryRound, Publish
<1> USE DEF routeVars, commandVars, clientVars, boundVars
<1>0. /\ command[k] # None /\ command[k] \in CommandRow /\ CallOf(k) \in Call
      /\ command[k].outcome \in past[CallOf(k)] /\ command[k].outcome \in Outcome
      /\ past[CallOf(k)] # {} /\ asked[CallOf(k)] # None
  BY DEF ControlTypeOK, OutcomesOK, CommandRow
<1>4. /\ ResultMsg(k) \in Message /\ ResultMsg(k).call = CallOf(k)
      /\ ResultMsg(k).outcome = command[k].outcome /\ ResultMsg(k).type = "result"
  BY <1>0 DEF ResultMsg, Message
<1>5. \A x \in Call : ResultMsg(k) # Msg("command", x)
  BY <1>4 DEF Msg
<1>1. ControlTypeOK'
  BY <1>4 DEF ControlTypeOK, RoutesOK
<1>2. OutcomesOK'
  BY <1>0, <1>4 DEF OutcomesOK, CallOf
<1>3. OnceOK'
  BY <1>5 DEF OnceOK, Fresh, CallOf
<1>. QED BY <1>1, <1>2, <1>3

\* A command grows old when nothing of its call is left.
LEMMA commandGrowsOldStep ==
    ASSUME ControlInv, NEW k \in Command, commandGrowsOld(k)
    PROVE  ControlInv'
<1> USE DEF ControlInv, commandGrowsOld, Fault
<1> USE DEF routeVars, commandVars, clientVars, boundVars
<1>1. ControlTypeOK'
  BY DEF ControlTypeOK, RoutesOK
<1>2. OutcomesOK'
  BY DEF ControlTypeOK, OutcomesOK, CallOf
<1>3. OnceOK'
  <2>1. SUFFICES ASSUME NEW y \in Call
                 PROVE  /\ call[y] # "idle" => asked[y] # None
                        /\ call[y] = "offer" => told[y] = None
                        /\ y \notin again /\ call[y] = "offer" /\ past[y] # {} => Fresh(y)'
                        /\ y \notin again /\ told[y] # None /\ Msg("command", y) \in net'
                              => Fresh(y)'
    BY DEF OnceOK
  <2>2. CASE CallOf(k) = y
    <3>1. Msg("command", y) \notin net'
      BY <2>2, MessageType
    <3>. QED BY <2>2, <3>1 DEF OnceOK
  <2>3. CASE CallOf(k) # y
    <3>1. Fresh(y) => Fresh(y)'
      BY <2>3 DEF Fresh, CallOf
    <3>. QED BY <3>1 DEF OnceOK
  <2>. QED BY <2>2, <2>3
<1>. QED BY <1>1, <1>2, <1>3

\* Only an old command is forgotten.
LEMMA cleanupCommandStep ==
    ASSUME ControlInv, NEW k \in Command, cleanupCommand(k)
    PROVE  ControlInv'
<1> USE DEF ControlInv, cleanupCommand
<1> USE DEF routeVars, commandVars, clientVars, boundVars
<1>1. ControlTypeOK'
  BY DEF ControlTypeOK, RoutesOK, RowState, Command
<1>2. OutcomesOK'
  BY DEF ControlTypeOK, OutcomesOK, CallOf, RowState, Command
<1>3. OnceOK'
  BY DEF ControlTypeOK, OutcomesOK, OnceOK, Fresh, CallOf, RowState, Command
<1>. QED BY <1>1, <1>2, <1>3

\* Cleanup of routes does not touch commands.
LEMMA cleanupRouteStep ==
    ASSUME ControlInv, NEW w \in Webhook, cleanupRoute(w)
    PROVE  ControlInv'
<1> USE DEF ControlInv, cleanupRoute, Fault
<1> USE DEF routeVars, commandVars, clientVars, boundVars
<1>1. ControlTypeOK'
  BY DropRouteKeepsRoutes DEF ControlTypeOK
<1>2. OutcomesOK'
  BY DEF ControlTypeOK, OutcomesOK, CallOf
<1>3. OnceOK'
  BY DEF ControlTypeOK, OutcomesOK, OnceOK, Fresh, CallOf
<1>. QED BY <1>1, <1>2, <1>3

\* A command is decided for a call that was asked for.  A call that was made once
\* has no outcome before: with one, its command would still be known.
LEMMA applyCommandStep ==
    ASSUME ControlInv, NEW x \in Call, handleWebhookCommand(x), applyCommand(x)
    PROVE  ControlInv'
<1> USE DEF ControlInv, handleWebhookCommand, Receive
<1> USE DEF routeVars, commandVars, clientVars, boundVars
<1>0. /\ x[1] \in Client /\ x[2] \in Command /\ x = <<x[1], x[2]>>
      /\ asked[x] # None /\ asked[x] \in Payload
  <2>1. Msg("command", x).call = x
    BY MessageType
  <2>. QED BY <2>1, CallType DEF OutcomesOK, ControlTypeOK
<1>1. CASE UNCHANGED <<routeVars, command, past, delivery>>
  <2>1. ControlTypeOK'
    BY <1>1 DEF ControlTypeOK, RoutesOK
  <2>2. OutcomesOK'
    BY <1>1 DEF OutcomesOK, CallOf
  <2>3. OnceOK'
    BY <1>1 DEF OnceOK, Fresh, CallOf
  <2>. QED BY <2>1, <2>2, <2>3
<1>2. ASSUME NEW outcome \in Outcome,
             command[x[2]] = None,
             Apply(x[1], asked[x], outcome),
             command' = [command EXCEPT ![x[2]] =
                [client |-> x[1], payload |-> asked[x], outcome |-> outcome]],
             past' = [past EXCEPT ![x] = @ \cup {outcome}],
             Open(x[2])
      PROVE  ControlInv'
  <2> DEFINE row == [client |-> x[1], payload |-> asked[x], outcome |-> outcome]
  <2>0. /\ row \in CommandRow /\ row # None
        /\ row.client = x[1] /\ row.outcome = outcome
    BY <1>0, CommandAssumption DEF CommandRow
  <2>a. command' = [command EXCEPT ![x[2]] = row]
    BY <1>2
  <2> HIDE DEF row
  <2>b. RoutesOK'
    BY <1>0, <1>2, ApplyKeepsRoutes DEF ControlTypeOK
  <2>c. \A k \in Command : k # x[2] => command'[k] = command[k]
    BY <2>a DEF ControlTypeOK
  <2>d. command'[x[2]] = row
    BY <1>0, <2>a DEF ControlTypeOK
  <2>e. x[2] \notin old
    BY <1>2 DEF ControlTypeOK
  <2>f. \A y \in Call : past'[y] = IF y = x THEN past[y] \cup {outcome} ELSE past[y]
    BY <1>2 DEF ControlTypeOK
  <2>1. ControlTypeOK'
    <3>1. command' \in [Command -> CommandRow \cup {None}]
      BY <1>0, <2>0, <2>a DEF ControlTypeOK
    <3>2. old' \subseteq {k \in Command : command'[k] # None}
      BY <2>0, <2>c, <2>d DEF ControlTypeOK
    <3>3. /\ delivery' \in [Command -> RowState]
          /\ \A k \in Command : command'[k] = None <=> delivery'[k] = "none"
      BY <1>0, <1>2, <2>0, <2>c, <2>d DEF ControlTypeOK, Open, RowState
    <3>4. past' \in [Call -> SUBSET Outcome]
      BY <1>2 DEF ControlTypeOK
    <3>. QED BY <2>b, <3>1, <3>2, <3>3, <3>4 DEF ControlTypeOK
  <2>2. OutcomesOK'
    <3>1. ASSUME NEW k \in Command, command'[k] # None
          PROVE  CallOf(k)' \in Call /\ command'[k].outcome \in past'[CallOf(k)']
      <4>1. CASE k = x[2]
        BY <1>0, <2>0, <2>d, <2>f, <4>1 DEF CallOf
      <4>2. CASE k # x[2]
        BY <2>c, <2>f, <3>1, <4>2 DEF CallOf, OutcomesOK
      <4>. QED BY <4>1, <4>2
    <3>2. \A y \in Call : past'[y] # {} => asked[y] # None
      BY <1>0, <2>f DEF OutcomesOK
    <3>3. \A m \in net' : /\ asked[m.call] # None
                          /\ m.type = "result" => m.outcome \in past'[m.call]
      <4>1. \A m \in net : m.call \in Call
        BY DEF ControlTypeOK, Message
      <4>. QED BY <2>f, <4>1 DEF OutcomesOK
    <3>. QED BY <3>1, <3>2, <3>3 DEF OutcomesOK
  <2>3. OnceOK'
    <3>1. Fresh(x)'
      BY <1>0, <2>0, <2>d, <2>e DEF Fresh, CallOf
    <3>2. ASSUME NEW y \in Call, y # x, Fresh(y)
          PROVE  Fresh(y)'
      <4>1. y[2] \in Command /\ y[2] # x[2]
        BY <1>2, <3>2, CallType DEF Fresh
      <4>. QED BY <2>c, <3>2, <4>1 DEF Fresh, CallOf
    <3>. QED BY <2>f, <3>1, <3>2 DEF OnceOK
  <2>. QED BY <2>1, <2>2, <2>3
<1>. QED BY <1>1, <1>2 DEF applyCommand

\* Every step of the protocol keeps the invariant.
LEMMA ControlStep ==
    ASSUME ControlInv, [ControlNext]_controlVars
    PROVE  ControlInv'
<1>1. CASE UNCHANGED controlVars
  BY <1>1 DEF controlVars, routeVars, commandVars, clientVars, boundVars, ControlInv,
              ControlTypeOK, RoutesOK, OutcomesOK, OnceOK, Fresh, CallOf
<1>2. ASSUME NEW x \in Call,
             \/ startCall(x) \/ publishCommand(x) \/ handleControlResult(x)
             \/ ackUntilConfirmed(x) \/ handleConfirmed(x) \/ cancelCall(x)
      PROVE  ControlInv'
  BY <1>2, startCallStep, publishCommandStep, handleControlResultStep,
     ackUntilConfirmedStep, handleConfirmedStep, cancelCallStep
<1>3. ASSUME NEW x \in Call, handleWebhookCommand(x)
      PROVE  ControlInv'
  <2>1. repeatCommand(x) \/ applyCommand(x)
    BY <1>3 DEF handleWebhookCommand
  <2>. QED BY <1>3, <2>1, repeatCommandStep, applyCommandStep
<1>4. ASSUME NEW x \in Call, handleWebhookControlACK(x)
      PROVE  ControlInv'
  BY <1>4, handleWebhookControlACKStep
<1>5. ASSUME NEW k \in Command,
             publishDelivery(k) \/ commandGrowsOld(k) \/ cleanupCommand(k)
      PROVE  ControlInv'
  BY <1>5, publishDeliveryStep, commandGrowsOldStep, cleanupCommandStep
<1>6. CASE (\E w \in Webhook : cleanupRoute(w)) \/ Lose
  BY <1>6, cleanupRouteStep, LoseStep
<1>. QED BY <1>1, <1>2, <1>3, <1>4, <1>5, <1>6 DEF ControlNext

--------------------------------------------------------------------------------
\* The proxy, the network and the calls always agree about every command.
THEOREM ControlInvariant == ControlSpec => []ControlInv
BY InitControl, ControlStep, PTL DEF ControlSpec

\* Rows, calls and messages keep their shape, and a command has a delivery as
\* long as it is remembered.
THEOREM ControlTypeCorrect == ControlSpec => []ControlTypeOK
<1>1. ControlInv => ControlTypeOK
  BY DEF ControlInv
<1>. QED BY <1>1, ControlInvariant, PTL

--------------------------------------------------------------------------------
(* The refinement: what each step of the protocol is to the registry.      *)

\* A handler that decides is the decision, and it is made at most once for a
\* call made once; everything else it does stutters.
LEMMA handleWebhookCommandDecides ==
    ASSUME ControlInv, NEW x \in Call, handleWebhookCommand(x)
    PROVE  [Registry!RegistryNext]_Registry!registryVars
<1> USE DEF handleWebhookCommand, Receive, clientVars, commandVars, routeVars
<1>1. CASE UNCHANGED <<routeVars, command, past>>
  BY <1>1 DEF Registry!registryVars, Registry!routeVars
<1>2. ASSUME NEW outcome \in Outcome,
             command[x[2]] = None,
             Apply(x[1], asked[x], outcome),
             command' = [command EXCEPT ![x[2]] =
                [client |-> x[1], payload |-> asked[x], outcome |-> outcome]],
             past' = [past EXCEPT ![x] = @ \cup {outcome}]
      PROVE  [Registry!RegistryNext]_Registry!registryVars
  <2>1. asked[x] # None
    BY MessageType DEF ControlInv, OutcomesOK
  <2>2. told[x] = None \/ x \in again
    BY <1>2 DEF ControlInv, OnceOK, Fresh
  <2>3. outcome \in Registry!Outcome /\ Registry!Apply(x[1], asked[x], outcome)
    BY <1>2
    DEF Outcome, Apply, Invalid, Owns, Responder, Mode, routeVars, Register, Update,
        Subscribe, Unsubscribe, Delete, Registry!Outcome, Registry!Apply,
        Registry!Invalid, Registry!Owns, Registry!Responder, Registry!Mode,
        Registry!routeVars, Registry!Register, Registry!Update, Registry!Subscribe,
        Registry!Unsubscribe, Registry!Delete
  <2>4. Registry!Decide(x)
    BY <1>2, <2>1, <2>2, <2>3 DEF Registry!Decide
  <2>. QED BY <2>4 DEF Registry!RegistryNext, Registry!Call, Call
<1>. QED BY <1>1, <1>2 DEF repeatCommand, applyCommand

\* The result a call takes is the telling; a message that comes too late is
\* nothing.
LEMMA handleControlResultTells ==
    ASSUME ControlInv, NEW x \in Call, handleControlResult(x)
    PROVE  [Registry!RegistryNext]_Registry!registryVars
<1> USE DEF handleControlResult, Answer, Receive, commandVars, routeVars
<1>1. PICK m \in net :
          /\ m.type = "result" /\ m.call = x
          /\ \/ call[x] = "offer" /\ told' = [told EXCEPT ![x] = m.outcome]
             \/ UNCHANGED told
  OBVIOUS
<1>2. m.outcome \in past[x]
  BY <1>1 DEF ControlInv, OutcomesOK
<1>3. CASE UNCHANGED told
  BY <1>3 DEF Registry!registryVars, Registry!routeVars
<1>4. CASE call[x] = "offer" /\ told' = [told EXCEPT ![x] = m.outcome]
  <2>1. told[x] = None
    BY <1>4 DEF ControlInv, OnceOK
  <2>2. Registry!Tell(x)
    BY <1>2, <1>4, <2>1 DEF Registry!Tell, Registry!routeVars
  <2>. QED BY <2>2 DEF Registry!RegistryNext, Registry!Call, Call
<1>. QED BY <1>1, <1>3, <1>4

\* Every step of the protocol is a step of the registry or leaves it alone.
LEMMA ControlSimulates ==
    ASSUME ControlInv, [ControlNext]_controlVars
    PROVE  [Registry!RegistryNext]_Registry!registryVars
<1> USE DEF Registry!registryVars, Registry!routeVars, routeVars, commandVars, clientVars
<1>1. CASE UNCHANGED controlVars
  BY <1>1 DEF controlVars
<1>2. ASSUME NEW x \in Call, startCall(x)
      PROVE  [Registry!RegistryNext]_Registry!registryVars
  <2>1. Registry!Ask(x)
    BY <1>2 DEF startCall, Registry!Ask
  <2>. QED BY <2>1 DEF Registry!RegistryNext, Registry!Call, Call
<1>3. ASSUME NEW x \in Call,
             \/ publishCommand(x) \/ ackUntilConfirmed(x) \/ handleConfirmed(x)
             \/ cancelCall(x) \/ handleWebhookControlACK(x)
      PROVE  UNCHANGED Registry!registryVars
  BY <1>3 DEF publishCommand, ackUntilConfirmed, handleConfirmed, cancelCall,
              handleWebhookControlACK
<1>4. ASSUME NEW k \in Command, publishDelivery(k) \/ commandGrowsOld(k)
      PROVE  UNCHANGED Registry!registryVars
  BY <1>4 DEF publishDelivery, commandGrowsOld
<1>5. ASSUME NEW k \in Command, cleanupCommand(k)
      PROVE  [Registry!RegistryNext]_Registry!registryVars
  <2>1. Registry!Forget
    BY <1>5 DEF cleanupCommand, Registry!Forget
  <2>. QED BY <2>1 DEF Registry!RegistryNext
<1>6. ASSUME NEW w \in Webhook, cleanupRoute(w)
      PROVE  [Registry!RegistryNext]_Registry!registryVars
  <2>1. Registry!Forget
    BY <1>6 DEF cleanupRoute, DropRoute, Registry!Forget, Registry!DropRoute
  <2>. QED BY <2>1 DEF Registry!RegistryNext
<1>7. CASE Lose
  BY <1>7 DEF Lose
<1>. QED BY <1>1, <1>2, <1>3, <1>4, <1>5, <1>6, <1>7, handleWebhookCommandDecides,
            handleControlResultTells DEF ControlNext

\* The protocol of commands, with its losses, repetitions, cancellations and
\* cleanups, implements the registry: a command is decided once together with its
\* effect, its caller is told that outcome, and later copies change nothing.
THEOREM ControlRefines == ControlSpec => KeepsRegistry
<1>1. ControlInit => Registry!RegistryInit
  BY DEF ControlInit, Registry!RegistryInit, RoutesOK, Registry!RoutesOK, Route,
         Registry!Route, Mode, Registry!Mode, Call, Registry!Call
<1>. QED
  BY <1>1, ControlInvariant, ControlSimulates, PTL
  DEF ControlSpec, KeepsRegistry, Registry!RegistrySpec

================================================================================
