# Verification of go-proxy-gateway in TLA+

The gateway executes HTTP requests for services that talk to it over core NATS, and
hands callbacks of external systems to them. Core NATS keeps nothing, so every
guarantee comes from two databases (the proxy's and the client's) and from handshakes
that are repeated until the other side has recorded them. This directory models both
directions of that protocol, checks them with TLC on small instances, and proves their
safety properties and refinements with TLAPS for instances of every size.

Paths are relative to the root of the repository.

## 1. Inventory

| Component | State | Operations | Interacts through |
|---|---|---|---|
| Outgoing queue, `internal/repository/outgoing.go`, `maintenance.go` | rows of `proxy_http_requests` (status, token, attempts, result) and their acceptance and result deliveries | accept, confirm acceptance, reserve, release, begin, schedule retry, save, confirm result, recover, clean up | transactions of any instance |
| Worker pool, `internal/worker/worker.go` | per goroutine: the operation and the result in hand | `run`, `execute` | queue, limiter, executor, direct publication |
| Host limiter, `internal/repository/limits.go` | permits, last dispatch, rate windows, per host | acquire, release, expire, clean up | advisory lock and transaction time |
| Transport, outgoing, `internal/transport/outgoing.go` | none | handlers of requests and ACKs | NATS, queue |
| Delivery loop, `internal/transport/delivery.go`, `internal/repository/delivery.go` | lease and next attempt of a delivery | claim, publish, reschedule | NATS, all deliveries |
| Client, outgoing, `client/outgoing.go`, `client/client.go` | maps of running operations and their channels | `start`, `execute`, ACK loops, resume after restart | NATS, client store |
| Client store, `client/postgres_store.go` | operations and callbacks | save, load, mark, list, clean up | calls of the client |
| Callback control, `internal/transport/callback.go`, `internal/repository/webhook.go` | routes, subscribers, commands | register, update, subscribe, unsubscribe, delete, ACK | NATS, delivery loop |
| Callback events, same files and `internal/app/app.go` | events, deliveries, waiting HTTP calls | receive, fan out, respond, time out | HTTP, NATS |
| Client callbacks, `client/callback.go` | running handlers, stored events and responses | handle, respond, resume | NATS, application handler |
| Envelopes and signatures, `internal/message` | none | encode, verify, age limit | every message |
| Executor, configuration, main, metrics, schema | — | — | — |

What is hard in it:

* several instances work on the same rows, and a lease may expire under a worker that
  is alive but slow;
* a process may die between any two statements, and a commit may succeed although its
  reply is lost;
* a result is published before it is saved, so there are two sources of results, and a
  third one, `unknown`, from the recovery;
* every message may be lost, repeated or late, also across a restart of the client and
  across the retention of the proxy;
* the limiter reads the time at BEGIN and then waits for a lock;
* the route of a callback changes between the moment the HTTP request reads it, the
  moment the event is stored, and the moment a response or the timeout comes;
* the instance that waits for a delegated response is the only one that can mark its
  timeout and hand over its response, and it may die;
* the handler of a client runs before anything about its answer is stored, perhaps in two
  processes, and confirmations go to all processes of the client.

What makes the components correct: a request that must not be repeated is sent at most
once, and one that may be repeated no more often than asked; at most one exchange is in
progress for a request; after any answer nothing is sent; the answer is that of the last
exchange; a finished request stays as it is; nothing is sent before the client has
recorded the acceptance; nothing counts as delivered before the client has recorded the
result; a valid operation ends; limits of a host hold over all instances. A control
command is decided once, together with its effect, and its caller hears that outcome; the
answer of an HTTP caller is the stored one; a delivery is closed only when its client has
stored the event or the HTTP request is over; a callback the client takes for completed
has its response at the proxy; events and deliveries come to an end. `hazards` in
`PROJECT.json` lists where in the code these can go wrong.

## 2. Modules

| Module | Models |
|---|---|
| `RetryPolicy` | `canRetry` and the policy of a request |
| `OutgoingPromise` | abstract specification: what the proxy promises about a request ID |
| `OutgoingQueue` | queue, worker pool, recovery and cleanup; open environment |
| `OutgoingQueueProofs` | the inductive invariant and the safety theorems |
| `OutgoingPromiseProofs` | the queue implements the promise |
| `OutgoingSystem` | `OutgoingQueue` composed with the client, its store, core NATS and the handlers |
| `HostLimiter` | the limits of one host over all instances |
| `CallbackRoutes` | tables of routes and subscribers, validation and effect of control commands |
| `DeliveryLoop` | the table of deliveries and one round of the loop |
| `CallbackRegistry` | abstract specification: what the proxy promises about control commands |
| `CallbackControl` | `CallbackRoutes` and `DeliveryLoop` composed with the control calls of clients, core NATS, the command table and its cleanup |
| `CallbackEvents` | `CallbackRoutes` and `DeliveryLoop` composed with HTTP requests, events, the processes of clients and their callback store |
| `OutgoingSystemProofs`, `HostLimiterProofs`, `CallbackRoutesProofs`, `CallbackControlProofs`, `CallbackEventsProofs` | invariants, safety properties and refinements of these |
| `MCOutgoingQueue`, `MCOutgoingSystem`, `MCHostLimiter`, `MCCallbackControl`, `MCCallbackEvents` | small instances |

Operators whose names end in `_Something` and whose comment begins with "Mutant" are
faulty variants of the definition that follows them. No specification uses them; they
are there to show that each property fails when the code is wrong in that way.

### OutgoingQueue

One action is one database transaction, or one step of a worker between two of them.
Workers of all instances form one set, because instances share nothing but the database.

* `status`, `wire`, `token`, `attempts`, `result` are the columns of a row; `acceptance`,
  `delivery` and `payload` its two deliveries. `"absent"` and `"none"` stand for no row.
* `pc`, `op`, `outcome` are the locals of `execute`.
* `era`, `sends`, `answers` are history: how often the ID was cleaned up, and, since then,
  the exchanges put on the wire and the results published.

Two guards speak of time. `LeaseMayExpire`: the lease of a dispatching row does not
expire while its owner is between `BeginDispatch` and the return of the exchange. The
code demands `DispatchLease > MaxRequestTimeout` (`config.Load`); that the time from the
commit of `BeginDispatch` to the start of the exchange fits into the difference is an
assumption (section 4). `RetentionElapsed`: a row is not older than the retention while its worker is
in the direct publication, which is limited to two seconds. The save loop has no such
limit, so a row may be cleaned up and used again while a worker still tries to save its
old result. All other races of leases with workers are in the model.

A lost commit reply is a branch of `ReserveRequest`, `BeginDispatch` and
`SaveHTTPResult`; a failed transaction is a stutter or the return of the worker. Contents
of a request are reduced to its client and its retry policy, results to the exchange that
produced them.

### OutgoingPromise

`busy`, `sends`, `answers`, `era`, `wire`. An exchange starts only if none is in progress,
no answer was given and the policy has one left; an answer is given only if none is in
progress, and is `unknown` or the response of the last exchange. The mapping calls a
request busy while a worker is in its exchange; the other variables are those of the
queue.

### OutgoingSystem

Extends the queue with one client process. `contents` is what the application asks for
under an ID, chosen once and for all at the start; `Valid` are the contents that pass
`validateRequest`. `store` is the row of the client's database,
`run` the place in `execute`, `caller` a `start` between its unlocked `Load` and
`c.mu.Lock`, `accepted`, `answer` and `confirmed` the channels. Handlers drop what nobody
waits for, as `trySend` does. The acceptance and result channels are read once per run,
so their first element is all that matters.

`net` is the set of messages in flight. Safety runs use the medium in which a message
once sent can be received any number of times, in any order and arbitrarily late
(`Lingering`); liveness runs one in which a receipt consumes the message and a bounded
number get lost. `cleanup` also drops what is in flight about the deleted request: signed
messages older than five minutes are refused (`internal/transport/core.go`,
`client/client.go`) and retention is longer. This holds only where signatures are
required.

The store of the client is never cleaned up in the model; `Cleanup` of the client
deletes complete operations only.

### HostLimiter

`AcquireHostPermit` is two actions: BEGIN, which fixes `now()`, and everything under the
advisory lock. `clock` counts ticks; `Second`, `Hour` and `Day` are the ages of the code
in ticks. `Tick` does not pass the deadline of an exchange nor `MaxDelay` after the BEGIN
of a permit that is not used yet. `DelayAssumption` names what the code relies on and
does not check: a permit is used within the minute by which its lease exceeds the
timeout, and intervals and delays are shorter than what `Cleanup` keeps.

### DeliveryLoop

A delivery that is not acknowledged is published at any moment. The columns
`next_attempt_at` and `lease_until` are left out on purpose: a claim has no owner, so a
lease that runs out under a slow loop, or that the reschedule of another loop ends, lets
a second loop publish the same row, and publishing is all a loop does. That claim,
publication and reschedule are one step loses nothing, since a message that is published
late cannot be told from one that arrives late. `OutgoingQueue` has the acceptance and
result deliveries in the same form.

### CallbackControl and CallbackRegistry

A call is a pair of a client and a command ID. `call` is the place in `webhookControl`,
`told` the result it has taken, `asked` the contents: they are the same whenever the
application uses an ID again. `command` is the command table; the delivery of a result
has the ID of its command. `handleWebhookCommand` is the whole transaction of
`ApplyWebhookControl`: a known command reopens its delivery, one that differs under the
same ID is refused without an answer, a new one changes the tables, and a register whose
route exists (its ID is derived from client and command) is rolled back. Wrong identities
are left out: `clientID` comes from the signature, and the library fills in the same.

`commandGrowsOld` stands for the retention: the call that created the command and the
messages of that time are over then, but a later call under the same ID may be running
when `cleanupCommand` forgets it. `past` is a ghost: all outcomes there have been for a
call.

`CallbackRegistry` knows nothing of messages, deliveries and copies. `Decide` gives a
call its outcome and applies it; it may do so a second time only if the client asked
again and the outcome is forgotten. `KeepsRegistry` is the refinement, with
`decided <- command`.

### CallbackEvents

`http` is the place of the public request: `GetWebhookRoute` reads the route (`seen`),
`DeliverWebhook` stores the event with the subscribers of that moment and publishes the
first delivery, then the request waits. `waiter` is its channel. `InstanceDies` takes the
waiting requests away; the instance comes back under its name, or its events are `dead`:
nobody listens to the reply subject stored in their deliveries. `SaveFails` is an error of
`SaveWebhookEvent`, with or without the commit. `changeRoute` is a control command of
the owner, by the operators of `CallbackRoutes`.

Each process has, for each delivery, at most one `run` (`beginCallback`): its response,
whether it is saved and whether it is confirmed. `handleCallback` goes up to the first
publication, which comes before the save (`deliverCallbackResponse`); `closed` marks the
run that only acknowledges a callback completed before. A message that finds all workers
busy is dropped: the queue of 64 messages per worker is a delay, like a late message,
until it is full. `restartProcess` is a crash and `resumeCallbacks`, whose runs need no
worker. `handled` is a ghost: handler calls in the present life of a process.

## 3. Runs

| Run | Instance | Shows |
|---|---|---|
| `queue_one` | 1 ID, 3 workers, 4 tokens, 2 clients, both policies, 1 cleanup | the inductive invariant, all safety properties, the promise |
| `queue_cleanup` | 1 ID, 1 worker | **violation**: cleanup deletes a reopened delivery |
| `system_safe` | 1 operation, a write or a retried read, 1 worker, 2 calls, a restart, a failing write, a cleanup | the inductive invariant `SystemInv`, handshakes, a saved response is replaced by nothing but that of a later execution, and the system implements the queue |
| `system_live` | 1 operation, valid or refused, 1 worker, 1 retry, a lost message, no cleanup | operations end on both sides: refusals are reported, dispatched rows settle, workers come back |
| `system_restart` | 1 operation, a restart, no loss | **violation**: a resumed operation may wait for ever |
| `system_retention` | 1 operation, 2 calls, a restart, a cleanup | **violation**: a saved operation is executed again |
| `callback_control` | 2 clients, 3 calls on 2 IDs, 2 routes, 2 calls made, 2 faults | the inductive invariant `ControlInv`; commands are decided once and told as decided (refinement of `CallbackRegistry`); calls end |
| `callback_events` | 1 event, 1 route, 2 processes with different handlers, 1 upset | the inductive invariant `EventsInv`; HTTP answer, event, deliveries and callback store agree; events and deliveries end |
| `callback_workers` | 1 event, 2 processes with 1 worker each, no upset | **violation**: a late response keeps its worker for ever |
| `callback_lost` | 1 event, 2 clients, 1 upset | **violation**: the timeout closes the delivery of a subscriber |
| `limiter_safe` | 3 workers, 4 permits, 8 ticks | the inductive invariant `LimiterInv`; concurrency, rate and spacing of a host |
| `limiter_strict` | 2 workers | **violation**: permits closer than the interval |

Bounds. Three workers are one that sends, one that takes over after a lost lease and one
that still holds the result of an older exchange; four tokens leave one for a reservation
whose reply was lost. Two clients and two policies let requests conflict and let ACKs
come from somebody else. One cleanup gives each ID an old and a new life. Two calls let a
second `start` race with the end of the first run. In the limiter three workers exceed a
concurrency of two, and eight ticks are almost three rate windows and several intervals,
so that cleanups of both tables have effect while the limits are still in use. The runs
of the system need one worker only: what several workers do to a row is checked by
`queue_one` and proved for any number, and `QueueSpec` shows that the system adds nothing
to it; that several IDs do not disturb each other is the theorem `QueueKeepsPromise`. In
`callback_control` two calls are two commands of two clients, two commands of one client
(an update and a delete, in either order), or one command made again after it was
cancelled, forgotten or answered; two faults let a command grow old and something else
happen. In `callback_events` two processes of one client give two runs of one delivery
with different answers; the upset is, at any moment, a command that makes another client
the responder, a lost message, an error of the database, the death of an instance or a
process, or a cleanup. `MaxEra`, `MaxLosses`, `MaxCalls`, `MaxRestarts`, `MaxStoreErrors`,
`MaxDelay`, `MaxClock`, `MaxFaults` and `MaxUpsets` are the only bounds. Workers and
tokens are symmetric in `queue_one` and in the runs of the limiter, which check no
liveness; no other run uses symmetry.

Deadlock is not checked in the runs of `OutgoingSystem` and of the callbacks: when all
operations, calls and events are over and the bounds are used up, the system rests.

Fairness. In the queue: a running worker goes on (its loops have timers, and the database
answers at last), and the recovery ticker fires. In the system also: every loop of client
and proxy repeats its message, a message that is not lost is received, and a channel with
an element is read. Strong fairness is assumed of a reservation whose reply arrives and
of `BeginDispatch`: host permits and database replies fail now and then, but not for
ever. In the callbacks: loops publish again, handlers receive what is not lost, one of the
processes a delivery is for gets it, a waiting request gets its response or its timeout,
and a run saves its response at last. A process that stops is started again at once
(`restartProcess`, `InstanceDies`), as the deployment does. Nothing is assumed of the
application, of restarts, of crashes, of cleanup and of losses.

Two properties have exceptions, which are behaviour of the code. `CallEnds` excepts calls
the proxy never answers (`Unanswerable`): the ID stands for another command, a register
is repeated after its command was forgotten and its route was not, or a command was
forgotten between result and confirmation. A call may go on for ever only if it stays in
one of these cases from some moment on. `EventSettles` excepts
events whose reply subject has no listener any more and events whose route has another
responder or mode by now (`Disowned`): the response is refused and the delivery repeated
until the process of the client stops.

### What the violations show

1. `queue_cleanup`. A repeated request reopens the deliveries of a finished request
   without touching `updated_at`; `Cleanup` looks at the status and the age only.
   `docs/logic.md:229` says that records not yet delivered are not deleted.
2. `system_restart`. The client saves a result, sends its ACK and restarts. The resumed
   operation is offered again, which reopens the delivery; then the old ACK arrives and
   closes it, and its confirmation finds no channel. The resumed `execute` now waits in
   `client/outgoing.go:188` and sends nothing.
3. `system_retention`. The client saves a result and stops before the confirmation. The
   proxy counts it as delivered and forgets it after the retention. The client comes back,
   offers the request again, and it is executed a second time; the response of the second
   execution replaces the saved one (`client/postgres_store.go:271`).
4. `callback_workers`. The HTTP request times out, and the event is marked. The response
   of the client comes later, is refused by `SaveWebhookResponse` and is not confirmed;
   `deliverCallbackResponse` repeats it until the process stops. Each such event takes a
   callback worker away; `client/callback.go:134` counts on backpressure to clear.
5. `callback_lost`. An event waits for the response of its responder; the route gets a
   new responder, who is a subscriber and has not received the event yet. The timeout
   closes the delivery of the client that is the responder now.
6. `limiter_strict`. `dispatched_at` is the start of the transaction, not the time the
   permit is granted.

## 4. Proofs

Every safety property that a passing run checks, invariant or action property, and every
refinement is also a theorem, for arbitrary sets of requests, workers, tokens, clients,
contents, webhooks, events and processes and all values of the bounds. None of the
properties is inductive by itself. Each component has an inductive invariant, which a run
checks as well: `IInv`, `SystemInv`, `LimiterInv`, `ControlInv`, `EventsInv`. Its proof has
one lemma per action and, under it, one step per conjunct that the action can disturb.

The assumptions on constants are named in the modules. Those of the kind "`None` is no
client, row or message" (`NoneAssumption`, `CommandAssumption`, `RowAssumption` and parts
of others) only keep the marks for "no value" apart from values; that bounds are natural
numbers, that a delivery is an event and a client, and that calls are taken from the menu
describe the model.

The assumptions that say something about the program are about time. They are part of
what is shown, by TLC as well as by the proofs, and the program does not enforce the
margins they need:

* `DelayAssumption` of the limiter (section 2): transactions and permits in hand are not
  delayed beyond the margin of the lease, nor beyond the hour and the day after which
  windows and dispatches are dropped. It excludes a `min_interval` of more than a day,
  which the configuration allows;
* `LeaseMayExpire` of the queue: the lease of a dispatching row outlives the exchange.
  `internal/config/config.go:125` only demands a lease longer than the request timeout,
  without a margin for the steps around the exchange;
* `RetentionElapsed` of the queue: a row is not cleaned up during the direct publication
  of its result. `PROXY_RETENTION` has no minimum; its default is 30 days;
* `cleanup` of the system, `commandGrowsOld`, `cleanupEvent` and `cleanupCallback` of the
  callbacks: no message about a record is received after its retention, and no control
  call lasts so long. This is so when signatures are required, which limits the age of
  messages to five minutes, and when the retention of proxy and client is longer.
  Neither is enforced.

`OneResponse`, `SystemInv`, `KeepsRegistry`, `HandledOncePerLife` and their theorems rest
on the last two, `NoSendAfterAnswer` and `KeepsPromise` on the second.

### The queue

From the assumptions of `OutgoingQueue`: `Null` is neither a token nor a
request, `MaxEra` is a natural number, and contents have the fields of `WireSet`.
`Invariant` proves `Spec => []IInv`. The argument:

* a token belongs to one active worker (`TokensOK`), since reservations use fresh ones;
* a worker whose row still carries its token knows the row (`HolderOK`): same life, same
  contents, and an attempt counter that differs by exactly the dispatch it has made;
* a worker in its exchange holds its row, because the lease cannot expire; one with a
  result holds it or finds it finished, unless the row is of a later life (`PhaseOK`);
* hence exchanges are exclusive, each was announced in `attempts`, and `attempts` stays
  within the policy (`AttemptsOK`);
* an answer exists only when the row is finished or its holder is already saving
  (`AnswersOK`), so nothing is sent afterwards;
* row, delivery and result change together (`RowOK`).

From the invariant follow `TypeCorrect`, `ExchangesExclusive`, `PolicyRespected`,
`SaveAccepted`, `ResponseUnique`
and `DeliveryForEveryResult`, and, with one more case analysis of the steps, the action
properties `AnswersEndSending` and `FinishedStays`. `QueueKeepsPromise` proves the
refinement: handlers and maintenance never touch `busy`, a worker that leaves its
exchange makes an `EndExchange` step, `SendHTTP` is a `Send` step, and both ways of
publishing a result are `Answer` steps.

### The outgoing system

`SystemRefinesQueue` is `SystemSpec => Spec`: each step of client, network and handlers is
a step of the queue or leaves its variables alone. So the theorems of the queue hold in the
system; `QueueKeptInSystem` states three of them there. `SystemInvariant` proves
`SystemInv`, which is `IInv` and what ties the two databases together:

* what a message says is true whenever it arrives (`NetOK`): an acceptance ACK means that
  the client has recorded the acceptance, a result ACK that it has saved a result, a
  confirmation that the proxy has closed the delivery, and a result is one the proxy has
  published. Copies stay true because the client never goes back in its states, and a
  cleanup drops what is under way;
* where `execute` is says what the table of the client holds (`ExecuteOK`);
* the row of the proxy is never a phase ahead of the client's (`PhasesAgree`);
* a result the client holds was published in this life of the ID or in an earlier one,
  and the one waiting in the channel is not older than the one in the table
  (`ResultsAgree`).

`AcceptedBeforeSent`, `SavedBeforeDelivered`, `DeliveredBeforeComplete` and the action
property `SavedResponseStays` follow. `DeliveredBeforeComplete` speaks of every life: a
complete operation that a late `start` offers again finds its row delivered and leaves it
so. `SavedResponseStays` says that a saved response is replaced only by the response of a
later life, the one that the violation of `system_retention` is about, and that until then
it is the response of the last exchange; this part needs `AnswersOK` of the queue.

### The host limiter

`LimiterInvariant` proves `LimiterInv` from `LimitAssumption` and `DelayAssumption`:

* a permit in use outlives its use (`WorkersOK`): the lease exceeds the timeout by
  `Margin`, and `Tick` lets no permit wait longer than `MaxDelay`. So its row is neither
  expired nor cleaned up, each worker that holds a permit has a row of its own
  (`PermitsOK`), and the count of rows bounds the workers (`ConcurrencyRespected`);
* a window counts the permits of its second, or it is so old that no transaction counts in
  it any more (`WindowsOK`), whence `RateRespected` in spite of the cleanup;
* the last dispatch is that of the latest permit, or so old that it no longer matters
  (`LastOK`), whence `IntervalRespected`.

### Callback control

`ControlInvariant` proves `ControlInv`: rows and results under way are those of decisions
made for a call (`OutcomesOK`), and a call made once is decided at most once, since the
proxy remembers the decision as long as the call repeats its command or a copy of it is
under way (`OnceOK`). `ControlRefines` proves the refinement of `CallbackRegistry`: a
handler that decides is `Decide`, a call that takes a result is told an outcome decided
for it, and everything else stutters. `CallbackRoutesProofs` has the lemmas about
`Apply`: it keeps the tables of routes well formed.

### Callback events

`EventsInvariant` proves `EventsInv`:

* a request that waits has an event, and what it was handed is what the event holds
  (`RequestOK`); nobody knows of an event before it is saved (`UnsavedOK`);
* what a message says stays true (`MessageOK`): a delivery that asks for no response goes
  to a client that owes none, an ACK comes from a client that owes none or whose response is
  stored, a confirmation means that the delivery is closed and the response, if wanted, is
  stored, and ACK and response are sent only when the client has the row or the delivery
  is closed;
* a completed callback is concluded at the proxy (`CallbackOK`), and so is a confirmed run
  (`RunOK`);
* what a process has handled or is handling is in the store as long as the delivery may
  come again, and its row needs no handler when the run is over (`RunOK`).

Two frame lemmas carry the proof: `ProxyFrame`, for steps that leave the processes alone
and take nothing back (`Steady`), and `DeliveryFrame`, for steps of a process about one
delivery. From the invariant follow `HTTPAnswerStored`, `RespondedBeforeComplete`,
`HandledOnce` and the action property `AckedOnlyIfKept`. `HandledOnce` rests on the
retention: `cleanupCallback` forgets a row only when no delivery of it is under way.

### Only model-checked

Liveness (`OperationEnds`, `CallEnds`, `EventSettles`), which is out of reach of the
prover, and the six properties that the code violates.

## 5. Not modelled

* Encoding, signatures and authorisation: messages are taken to be what their sender sent.
* HTTP headers, bodies and size limits; logging and metrics; readiness; parsing of the
  configuration; migrations.
* The in-memory store of the tests: nothing in it is durable, and its `MarkAccepted`
  overwrites any state, so what is shown for the PostgreSQL store is not claimed of it.
* The arithmetic of backoffs (`backoff`, `nextBackoff`): the models leave open when a
  timer fires, so no property depends on it.
* The cleanup of complete operations in the client's database.
* Two processes of one client that make a control call under the same command ID: the
  library generates the IDs of most commands.

## 6. Plan

Done: `RetryPolicy`, `OutgoingQueue` with its promise, `OutgoingSystem`, `HostLimiter`,
`CallbackRoutes`, `DeliveryLoop`, `CallbackRegistry`, `CallbackControl`, `CallbackEvents`,
and the theorems for all safety properties and refinements.

What could follow: theorems that say under which condition the violated properties hold
(`PermitsSpaced` without delay, `SubscribersHear` without a change of the responder), and
the mapping of the events of a callback to an abstract specification.
