------------------------------ MODULE HostLimiter ------------------------------
(***************************************************************************)
(* The limits of one target host, shared by all proxy instances through    *)
(* three tables: proxy_host_permits, proxy_host_last_dispatch and          *)
(* proxy_host_rate_windows.  AcquireHostPermit holds an advisory lock on   *)
(* the host from its first statement to its commit, so everything after    *)
(* BEGIN is one step; but now() is the time of BEGIN, and any time may     *)
(* pass between the two while the transaction waits for the lock.          *)
(*                                                                         *)
(* Time is counted in ticks.  A step takes none, and clock ticks between.  *)
(***************************************************************************)
EXTENDS Integers, FiniteSets

CONSTANTS
    Worker,         \* worker goroutines, over all proxy instances
    Token,          \* permit tokens (randomID)
    NoToken,
    RPS,            \* HostLimit of the host
    Concurrency,
    MinInterval,    \* 0: no interval configured
    Second,         \* ticks in a second
    Hour, Day,      \* ages at which Cleanup drops rate windows and dispatches
    Timeout,        \* MaxRequestTimeout
    Margin,         \* what execute adds to it for the lease of a permit
    MaxDelay,       \* bound: from BEGIN of the permit to the exchange it is for
    MaxClock        \* bound: end of time

ASSUME LimitAssumption ==
    /\ {RPS, Concurrency, Second} \subseteq Nat \ {0}
    /\ NoToken \notin Token
    /\ {MinInterval, Hour, Day, Timeout, Margin, MaxDelay, MaxClock} \subseteq Nat

\* A permit is used within the minute that its lease exceeds the timeout, and
\* Cleanup keeps windows and dispatches until no transaction that began before
\* they matter is still waiting.  The code checks none of this.
ASSUME DelayAssumption ==
    /\ MaxDelay <= Margin
    /\ Second + MaxDelay <= Hour
    /\ MinInterval + MaxDelay <= Day

VARIABLES
    clock,
    permits,    \* proxy_host_permits: lease_until of a token, or NoRow
    last,       \* proxy_host_last_dispatch: dispatched_at, or NoRow
    used,       \* proxy_host_rate_windows: used, by the second (0: no row)
    pc,         \* where execute is
    start,      \* now() of the worker's transaction
    permit,     \* the token the worker holds, or NoToken
    deadline,   \* when the worker's exchange is cut off
    granted,    \* history: permits granted, by the second of their now()
    latest      \* history: now() and the real time of the latest permit

workerVars == <<pc, start, permit, deadline>>
vars == <<clock, permits, last, used, workerVars, granted, latest>>

WorkerPC == {"idle", "acquiring", "permitted", "http", "releasing"}
NoRow == -1
Seconds == 0 .. MaxClock \div Second

Init ==
    /\ clock = 0
    /\ permits = [t \in Token |-> NoRow]
    /\ last = NoRow
    /\ used = [s \in Seconds |-> 0]
    /\ pc = [w \in Worker |-> "idle"]
    /\ start = [w \in Worker |-> 0]
    /\ permit = [w \in Worker |-> NoToken]
    /\ deadline = [w \in Worker |-> 0]
    /\ granted = [s \in Seconds |-> 0]
    /\ latest = [start |-> -MinInterval, at |-> -MinInterval]

\* date_trunc('second', t)
Window(t) == t \div Second

\* execute returns, or the process dies.
Idle(w) ==
    /\ pc' = [pc EXCEPT ![w] = "idle"]
    /\ start' = [start EXCEPT ![w] = 0]
    /\ permit' = [permit EXCEPT ![w] = NoToken]
    /\ deadline' = [deadline EXCEPT ![w] = 0]

--------------------------------------------------------------------------------
BeginAcquire(w) ==
    /\ pc[w] = "idle"
    /\ pc' = [pc EXCEPT ![w] = "acquiring"]
    /\ start' = [start EXCEPT ![w] = clock]
    /\ UNCHANGED <<clock, permits, last, used, permit, deadline, granted, latest>>

\* Permits whose lease is over are deleted before the others are counted.
Alive(now) == {t \in Token : permits[t] # NoRow /\ permits[t] >= now}

\* Mutant: the interval is measured to the time of the statement, but the
\* dispatch recorded with the time of the transaction.
IntervalOver_Clock(now) ==
    MinInterval > 0 /\ last # NoRow => last <= clock - MinInterval

IntervalOver(now) == MinInterval > 0 /\ last # NoRow => last <= now - MinInterval

WindowHasRoom_OneMore(now) == used[Window(now)] <= RPS  \* mutant

WindowHasRoom(now) == used[Window(now)] < RPS

Granted(now) ==
    /\ Cardinality(Alive(now)) < Concurrency
    /\ IntervalOver(now)
    /\ WindowHasRoom(now)

LeaseUntil_NoMargin(now) == now + Timeout   \* mutant

LeaseUntil(now) == now + Timeout + Margin

\* The reply to the commit may be lost: the permit then stays until its lease
\* is over and the worker goes on without it.  The expired permits of other
\* hosts, which the transaction deletes too, count for nothing there either.
AcquireHostPermit(w, t) ==
    LET now == start[w] IN
    /\ pc[w] = "acquiring"
    /\ permits[t] = NoRow /\ \A v \in Worker : permit[v] # t
    /\ Granted(now)
    /\ permits' = [x \in Token |-> IF x = t THEN LeaseUntil(now)
                                   ELSE IF x \in Alive(now) THEN permits[x]
                                   ELSE NoRow]
    /\ last' = IF MinInterval > 0 THEN now ELSE last
    /\ used' = [used EXCEPT ![Window(now)] = @ + 1]
    /\ granted' = [granted EXCEPT ![Window(now)] = @ + 1]
    /\ latest' = [start |-> now, at |-> clock]
    /\ \/ /\ pc' = [pc EXCEPT ![w] = "permitted"]
          /\ permit' = [permit EXCEPT ![w] = t]
          /\ UNCHANGED <<start, deadline>>
       \/ Idle(w)
    /\ UNCHANGED clock

\* ErrNoPermit rolls everything back, the deletions and the interval included;
\* so does an error, which may come at any time.
NoPermit(w) ==
    /\ pc[w] = "acquiring"
    /\ Idle(w)
    /\ UNCHANGED <<clock, permits, last, used, granted, latest>>

\* BeginDispatch succeeded and executor.Do starts, with a timeout.
Dispatch(w) ==
    /\ pc[w] = "permitted"
    /\ pc' = [pc EXCEPT ![w] = "http"]
    /\ deadline' = [deadline EXCEPT ![w] = clock + Timeout]
    /\ UNCHANGED <<clock, permits, last, used, start, permit, granted, latest>>

\* executor.Do returns, or BeginDispatch was refused.
ExecuteEnds(w) ==
    /\ pc[w] \in {"permitted", "http"}
    /\ pc' = [pc EXCEPT ![w] = "releasing"]
    /\ UNCHANGED <<clock, permits, last, used, start, permit, deadline, granted, latest>>

\* Mutant: the release gives the slot in the rate window back.
ReleaseHostPermit_Refunds(w) ==
    /\ pc[w] = "releasing"
    /\ permits' = [permits EXCEPT ![permit[w]] = NoRow]
    /\ used' = [used EXCEPT ![Window(start[w])] = @ - 1]
    /\ Idle(w)
    /\ UNCHANGED <<clock, last, granted, latest>>

\* The deferred release; its error is ignored.
ReleaseHostPermit(w) ==
    /\ pc[w] = "releasing"
    /\ \/ permits' = [permits EXCEPT ![permit[w]] = NoRow]
       \/ UNCHANGED permits
    /\ Idle(w)
    /\ UNCHANGED <<clock, last, used, granted, latest>>

Crash(w) ==
    /\ pc[w] \in {"permitted", "http", "releasing"}
    /\ Idle(w)
    /\ UNCHANGED <<clock, permits, last, used, granted, latest>>

\* The part of Cleanup about limits.
CleanupLimits ==
    /\ used' = [s \in Seconds |-> IF s * Second < clock - Hour THEN 0 ELSE used[s]]
    /\ last' = IF last # NoRow /\ last < clock - Day THEN NoRow ELSE last
    /\ UNCHANGED <<clock, permits, workerVars, granted, latest>>

\* No exchange outlives its timeout, and no worker waits longer than MaxDelay.
Tick ==
    /\ clock < MaxClock
    /\ \A w \in Worker :
          /\ pc[w] = "http" => clock < deadline[w]
          /\ pc[w] \in {"acquiring", "permitted"} => clock < start[w] + MaxDelay
    /\ clock' = clock + 1
    /\ UNCHANGED <<permits, last, used, workerVars, granted, latest>>

Next ==
    \/ \E w \in Worker :
          \/ BeginAcquire(w)
          \/ \E t \in Token : AcquireHostPermit(w, t)
          \/ NoPermit(w) \/ Dispatch(w) \/ ExecuteEnds(w)
          \/ ReleaseHostPermit(w) \/ Crash(w)
    \/ CleanupLimits
    \/ Tick

Spec == Init /\ [][Next]_vars

--------------------------------------------------------------------------------
(* Properties.                                                             *)

\* The three tables keep their shape; in particular no counter of a window and
\* no time of AcquireHostPermit and Cleanup gets negative.
LimiterTypeOK ==
    /\ clock \in Nat
    /\ permits \in [Token -> Nat \cup {NoRow}]
    /\ last \in Nat \cup {NoRow}
    /\ used \in [Seconds -> Nat]
    /\ pc \in [Worker -> WorkerPC]
    /\ start \in [Worker -> Nat]
    /\ permit \in [Worker -> Token \cup {NoToken}]
    /\ deadline \in [Worker -> Nat]
    /\ granted \in [Seconds -> Nat]
    /\ latest \in [start : Int, at : Int]

\* Over all instances no more exchanges with the host are in progress than its
\* Concurrency, whichever workers crash and whichever commits and releases are
\* lost: a permit outlives the exchange it was granted for.
ExchangesWithinConcurrency ==
    Cardinality({w \in Worker : pc[w] = "http"}) <= Concurrency

\* No more permits are granted by the transactions of one second than RPS, even
\* though Cleanup drops old windows and late transactions count in theirs.
GrantsWithinRate == \A s \in Seconds : granted[s] <= RPS

\* Transactions that get a permit began at least MinInterval apart, in the order
\* of their commits, even though Cleanup drops the last dispatch.
StartsSpaced ==
    [][latest' # latest /\ MinInterval > 0
          => latest'.start >= latest.start + MinInterval]_vars

\* The interval between two permits of a host is strict.
PermitsSpaced ==
    [][latest' # latest /\ MinInterval > 0
          => latest'.at >= latest.at + MinInterval]_vars

--------------------------------------------------------------------------------
(* The inductive invariant behind the properties.                          *)

\* The rows of the table of permits, and the workers whose permit still counts.
Rows == {t \in Token : permits[t] # NoRow}
Holders == {w \in Worker : pc[w] \in {"permitted", "http"}}

\* No transaction is older than MaxDelay, and a permit in use outlives its use.
WorkersOK ==
    \A w \in Worker :
        /\ start[w] <= clock
        /\ pc[w] \in {"acquiring", "permitted"} => clock <= start[w] + MaxDelay
        /\ pc[w] \in {"permitted", "http", "releasing"} <=> permit[w] # NoToken
        /\ pc[w] = "permitted" => permits[permit[w]] = LeaseUntil(start[w])
        /\ pc[w] = "http" => clock <= deadline[w] /\ deadline[w] <= permits[permit[w]]

\* No two workers hold the same token.
PermitsOK == \A v, w \in Worker : permit[v] = permit[w] /\ permit[v] # NoToken => v = w

\* A window counts the permits of its second, or it is so old that no
\* transaction counts in it any more.
WindowsOK ==
    \A s \in Seconds :
        /\ granted[s] <= RPS
        /\ used[s] = granted[s] \/ s * Second + Second + MaxDelay <= clock

\* The last dispatch is that of the latest permit, or the latest permit is so old
\* that any transaction keeps its distance.
LastOK ==
    MinInterval > 0 =>
        \/ last # NoRow /\ last = latest.start
        \/ /\ last = NoRow
           /\ \/ latest.start = -MinInterval
              \/ latest.start + MinInterval + MaxDelay <= clock

\* Tables, workers and history agree at all times; permits are counted over a
\* finite table.
LimiterInv ==
    /\ LimiterTypeOK
    /\ clock <= MaxClock
    /\ WorkersOK /\ PermitsOK
    /\ IsFiniteSet(Rows)
    /\ IsFiniteSet(Holders) /\ Cardinality(Holders) <= Concurrency
    /\ WindowsOK /\ LastOK

================================================================================
