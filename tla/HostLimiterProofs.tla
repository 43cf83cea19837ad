--------------------------- MODULE HostLimiterProofs ---------------------------
(***************************************************************************)
(* Proofs about HostLimiter, for every number of workers and tokens, all   *)
(* limits, leases and ages that satisfy the assumptions, and any length of *)
(* time: LimiterInv is inductive, and the limits of the host follow.       *)
(***************************************************************************)
EXTENDS HostLimiter, FiniteSetTheorems, TLAPS

\* A second contains the times that are truncated to it.
LEMMA WindowBounds ==
    ASSUME NEW t \in Nat
    PROVE  /\ Window(t) \in Nat
           /\ Window(t) * Second <= t
           /\ t < Window(t) * Second + Second
BY LimitAssumption DEF Window

\* The second of a moment that has been reached is one of Seconds.
LEMMA WindowInSeconds ==
    ASSUME NEW t \in Nat, t <= MaxClock
    PROVE  Window(t) \in Seconds
BY LimitAssumption DEF Window, Seconds

\* Fewer rows are a finite table, too.
LEMMA FewerRows ==
    ASSUME IsFiniteSet(Rows), Rows' \subseteq Rows
    PROVE  IsFiniteSet(Rows')
BY FS_Subset

\* Fewer permits in use are within the limit, too.
LEMMA FewerHolders ==
    ASSUME IsFiniteSet(Holders), Cardinality(Holders) <= Concurrency,
           Holders' \subseteq Holders
    PROVE  IsFiniteSet(Holders') /\ Cardinality(Holders') <= Concurrency
<1>1. /\ IsFiniteSet(Holders') /\ Cardinality(Holders') <= Cardinality(Holders)
  BY FS_Subset
<1>2. Cardinality(Holders) \in Nat /\ Cardinality(Holders') \in Nat
  BY <1>1, FS_CardinalityType
<1>. QED BY <1>1, <1>2, LimitAssumption

\* Empty tables agree.
LEMMA InitLimiter == Init => LimiterInv
<1> SUFFICES ASSUME Init PROVE LimiterInv
  OBVIOUS
<1>1. LimiterTypeOK /\ clock <= MaxClock
  BY LimitAssumption DEF Init, LimiterTypeOK, NoRow, WorkerPC
<1>2. WorkersOK /\ PermitsOK
  BY LimitAssumption DEF Init, WorkersOK, PermitsOK
<1>3. Rows = {} /\ Holders = {}
  BY DEF Init, Rows, Holders
<1>4. WindowsOK /\ LastOK
  BY LimitAssumption DEF Init, WindowsOK, LastOK
<1>. QED BY <1>1, <1>2, <1>3, <1>4, FS_EmptySet, LimitAssumption DEF LimiterInv

\* A transaction begins now.
LEMMA BeginAcquireStep ==
    ASSUME LimiterInv, NEW u \in Worker, BeginAcquire(u)
    PROVE  LimiterInv'
<1> USE LimitAssumption DEF LimiterInv, BeginAcquire
<1>1. LimiterTypeOK' /\ (clock <= MaxClock)'
  BY DEF LimiterTypeOK, WorkerPC
<1>2. WorkersOK'
  BY DEF WorkersOK, LimiterTypeOK, LeaseUntil
<1>3. PermitsOK'
  BY DEF PermitsOK
<1>4. Rows' \subseteq Rows /\ Holders' \subseteq Holders
  BY DEF Rows, Holders, LimiterTypeOK
<1>5. WindowsOK' /\ LastOK'
  BY DEF WindowsOK, LastOK
<1>. QED BY <1>1, <1>2, <1>3, <1>4, <1>5, FewerRows, FewerHolders

\* A permit in use is in the table, and no transaction finds its lease over.
LEMMA HeldIsAlive ==
    ASSUME LimiterInv, NEW w \in Holders, NEW v \in Worker
    PROVE  permit[w] \in Alive(start[v])
<1> USE LimitAssumption DEF LimiterInv, LimiterTypeOK, WorkersOK, Holders
<1>1. permit[w] \in Token /\ start[v] \in Nat /\ start[w] \in Nat /\ clock \in Nat
  OBVIOUS
<1>2. CASE pc[w] = "permitted"
  <2>1. permits[permit[w]] = start[w] + Timeout + Margin
    BY <1>2 DEF LeaseUntil
  <2>2. start[v] <= clock /\ clock <= start[w] + MaxDelay /\ MaxDelay <= Margin
    BY <1>2, DelayAssumption
  <2>. QED BY <1>1, <2>1, <2>2 DEF Alive, NoRow
<1>3. CASE pc[w] = "http"
  <2>1. start[v] <= clock /\ clock <= deadline[w] /\ deadline[w] <= permits[permit[w]]
    BY <1>3
  <2>. QED BY <1>1, <2>1 DEF Alive, NoRow
<1>. QED BY <1>2, <1>3

\* The permits in use are no more than the rows a transaction counts.
LEMMA HoldersCounted ==
    ASSUME LimiterInv, NEW v \in Worker
    PROVE  /\ IsFiniteSet(Alive(start[v]))
           /\ Cardinality(Holders) <= Cardinality(Alive(start[v]))
<1>1. IsFiniteSet(Alive(start[v]))
  <2>1. Alive(start[v]) \in SUBSET Rows
    BY DEF Alive, Rows
  <2>. QED BY <2>1, FS_Subset DEF LimiterInv
<1> DEFINE f == [w \in Holders |-> permit[w]]
<1>2. f \in [Holders -> Alive(start[v])]
  BY HeldIsAlive
<1>3. ASSUME NEW a \in Holders, NEW b \in Holders, f[a] = f[b] PROVE a = b
  BY <1>3, LimitAssumption DEF LimiterInv, PermitsOK, WorkersOK, Holders
<1>4. f \in Injection(Holders, Alive(start[v]))
  BY <1>2, <1>3 DEF Injection, IsInjective
<1>. QED BY <1>1, <1>4, FS_Injection

\* A permit is granted: the tables are those the transaction has counted.
LEMMA AcquireHostPermitStep ==
    ASSUME LimiterInv, NEW u \in Worker, NEW t \in Token, AcquireHostPermit(u, t)
    PROVE  LimiterInv'
<1> USE LimitAssumption DEF LimiterInv
<1>0. /\ start[u] \in Nat /\ clock \in Nat /\ start[u] <= clock
      /\ clock <= start[u] + MaxDelay /\ Window(start[u]) \in Seconds
      /\ pc[u] = "acquiring" /\ Granted(start[u])
  BY WindowInSeconds DEF LimiterTypeOK, WorkersOK, AcquireHostPermit
<1>1. LimiterTypeOK' /\ (clock <= MaxClock)'
  BY <1>0 DEF AcquireHostPermit, LimiterTypeOK, WorkerPC, Idle, LeaseUntil, Alive, NoRow
<1>2. WorkersOK'
  <2> SUFFICES ASSUME NEW w \in Worker
               PROVE  (/\ start[w] <= clock
                       /\ pc[w] \in {"acquiring", "permitted"} => clock <= start[w] + MaxDelay
                       /\ pc[w] \in {"permitted", "http", "releasing"} <=> permit[w] # NoToken
                       /\ pc[w] = "permitted" => permits[permit[w]] = LeaseUntil(start[w])
                       /\ pc[w] = "http" => /\ clock <= deadline[w]
                                            /\ deadline[w] <= permits[permit[w]])'
    BY DEF WorkersOK
  <2>1. CASE w = u
    BY <1>0, <2>1 DEF AcquireHostPermit, LimiterTypeOK, Idle, LeaseUntil
  <2>2. CASE w # u
    <3>1. /\ start'[w] = start[w] /\ pc'[w] = pc[w] /\ permit'[w] = permit[w]
          /\ deadline'[w] = deadline[w] /\ clock' = clock
      BY <2>2 DEF AcquireHostPermit, LimiterTypeOK, Idle
    <3>2. w \in Holders => permits'[permit[w]] = permits[permit[w]]
      BY HeldIsAlive DEF AcquireHostPermit, Alive, LimiterTypeOK
    <3>. QED BY <3>1, <3>2 DEF WorkersOK, Holders, LeaseUntil
  <2>. QED BY <2>1, <2>2
<1>3. PermitsOK'
  BY DEF AcquireHostPermit, PermitsOK, LimiterTypeOK, Idle
<1>4. IsFiniteSet(Rows)'
  <2>1. Rows' \in SUBSET (Rows \cup {t})
    BY DEF AcquireHostPermit, Rows, Alive, LimiterTypeOK
  <2>. QED BY <2>1, FS_AddElement, FS_Subset
<1>5. (IsFiniteSet(Holders) /\ Cardinality(Holders) <= Concurrency)'
  <2>1. Holders' \in SUBSET (Holders \cup {u})
    BY DEF AcquireHostPermit, Holders, LimiterTypeOK, Idle
  <2>2. /\ Cardinality(Holders) <= Cardinality(Alive(start[u]))
        /\ Cardinality(Alive(start[u])) < Concurrency
        /\ Cardinality(Holders) \in Nat /\ Cardinality(Alive(start[u])) \in Nat
    BY <1>0, HoldersCounted, FS_CardinalityType DEF Granted
  <2>3. /\ IsFiniteSet(Holders \cup {u})
        /\ Cardinality(Holders \cup {u}) <= Concurrency
        /\ Cardinality(Holders \cup {u}) \in Nat
    <3>1. /\ IsFiniteSet(Holders \cup {u})
          /\ Cardinality(Holders \cup {u}) =
               IF u \in Holders THEN Cardinality(Holders) ELSE Cardinality(Holders) + 1
      BY FS_AddElement
    <3>. QED BY <2>2, <3>1
  <2>4. IsFiniteSet(Holders') /\ Cardinality(Holders') <= Cardinality(Holders \cup {u})
    BY <2>1, <2>3, FS_Subset
  <2>. QED BY <2>3, <2>4, FS_CardinalityType
<1>6. WindowsOK'
  <2>1. /\ used[Window(start[u])] < RPS /\ clock' = clock
        /\ used' = [used EXCEPT ![Window(start[u])] = @ + 1]
        /\ granted' = [granted EXCEPT ![Window(start[u])] = @ + 1]
    BY <1>0 DEF AcquireHostPermit, Granted, WindowHasRoom
  <2>2. start[u] < Window(start[u]) * Second + Second
    BY <1>0, WindowBounds
  <2>3. used[Window(start[u])] = granted[Window(start[u])]
    <3>1. PICK s \in Seconds : s = Window(start[u])
      BY <1>0
    <3>2. PICK e \in Int : e = s * Second
      BY <3>1 DEF Seconds
    <3>. QED BY <1>0, <2>2, <3>1, <3>2 DEF WindowsOK
  <2>. QED BY <1>0, <2>1, <2>3 DEF WindowsOK, LimiterTypeOK
<1>7. LastOK'
  BY <1>0 DEF AcquireHostPermit, LastOK, NoRow
<1>. QED BY <1>1, <1>2, <1>3, <1>4, <1>5, <1>6, <1>7

\* A transaction that is rolled back leaves nothing.
LEMMA NoPermitStep ==
    ASSUME LimiterInv, NEW u \in Worker, NoPermit(u)
    PROVE  LimiterInv'
<1> USE LimitAssumption DEF LimiterInv, NoPermit, Idle
<1>1. LimiterTypeOK' /\ (clock <= MaxClock)'
  BY DEF LimiterTypeOK, WorkerPC
<1>2. WorkersOK'
  BY DEF WorkersOK, LimiterTypeOK, LeaseUntil
<1>3. PermitsOK'
  BY DEF PermitsOK, LimiterTypeOK
<1>4. Rows' \subseteq Rows /\ Holders' \subseteq Holders
  BY DEF Rows, Holders, LimiterTypeOK
<1>5. WindowsOK' /\ LastOK'
  BY DEF WindowsOK, LastOK
<1>. QED BY <1>1, <1>2, <1>3, <1>4, <1>5, FewerRows, FewerHolders

\* The exchange begins while the lease of the permit covers its timeout.
LEMMA DispatchStep ==
    ASSUME LimiterInv, NEW u \in Worker, Dispatch(u)
    PROVE  LimiterInv'
<1> USE LimitAssumption DEF LimiterInv, Dispatch
<1>1. LimiterTypeOK' /\ (clock <= MaxClock)'
  BY DEF LimiterTypeOK, WorkerPC
<1>2. WorkersOK'
  <2>1. /\ clock \in Nat /\ start[u] \in Nat /\ clock <= start[u] + MaxDelay
        /\ permits[permit[u]] = start[u] + Timeout + Margin
    BY DEF WorkersOK, LimiterTypeOK, LeaseUntil
  <2>2. clock + Timeout <= permits[permit[u]] /\ clock <= clock + Timeout
    BY <2>1, DelayAssumption
  <2>. QED BY <2>2 DEF WorkersOK, LimiterTypeOK, LeaseUntil
<1>3. PermitsOK'
  BY DEF PermitsOK, LimiterTypeOK
<1>4. Rows' \subseteq Rows /\ Holders' \subseteq Holders
  BY DEF Rows, Holders, LimiterTypeOK
<1>5. WindowsOK' /\ LastOK'
  BY DEF WindowsOK, LastOK
<1>. QED BY <1>1, <1>2, <1>3, <1>4, <1>5, FewerRows, FewerHolders

\* After the exchange the permit only waits for its release.
LEMMA ExecuteEndsStep ==
    ASSUME LimiterInv, NEW u \in Worker, ExecuteEnds(u)
    PROVE  LimiterInv'
<1> USE LimitAssumption DEF LimiterInv, ExecuteEnds
<1>1. LimiterTypeOK' /\ (clock <= MaxClock)'
  BY DEF LimiterTypeOK, WorkerPC
<1>2. WorkersOK'
  BY DEF WorkersOK, LimiterTypeOK, LeaseUntil
<1>3. PermitsOK'
  BY DEF PermitsOK, LimiterTypeOK
<1>4. Rows' \subseteq Rows /\ Holders' \subseteq Holders
  BY DEF Rows, Holders, LimiterTypeOK
<1>5. WindowsOK' /\ LastOK'
  BY DEF WindowsOK, LastOK
<1>. QED BY <1>1, <1>2, <1>3, <1>4, <1>5, FewerRows, FewerHolders

\* The release deletes the row of the worker itself: no other holds its token.
LEMMA ReleaseHostPermitStep ==
    ASSUME LimiterInv, NEW u \in Worker, ReleaseHostPermit(u)
    PROVE  LimiterInv'
<1> USE LimitAssumption DEF LimiterInv, ReleaseHostPermit, Idle
<1>1. LimiterTypeOK' /\ (clock <= MaxClock)'
  BY DEF LimiterTypeOK, WorkerPC, NoRow
<1>2. WorkersOK'
  <2>1. \A w \in Worker : w # u /\ permit[w] # NoToken
                           => permits'[permit[w]] = permits[permit[w]]
    BY DEF PermitsOK, LimiterTypeOK
  <2>. QED BY <2>1 DEF WorkersOK, LimiterTypeOK, LeaseUntil
<1>3. PermitsOK'
  BY DEF PermitsOK, LimiterTypeOK
<1>4. Rows' \subseteq Rows /\ Holders' \subseteq Holders
  BY DEF Rows, Holders, LimiterTypeOK
<1>5. WindowsOK' /\ LastOK'
  BY DEF WindowsOK, LastOK
<1>. QED BY <1>1, <1>2, <1>3, <1>4, <1>5, FewerRows, FewerHolders

\* A crash leaves the row of the permit to its lease.
LEMMA CrashStep ==
    ASSUME LimiterInv, NEW u \in Worker, Crash(u)
    PROVE  LimiterInv'
<1> USE LimitAssumption DEF LimiterInv, Crash, Idle
<1>1. LimiterTypeOK' /\ (clock <= MaxClock)'
  BY DEF LimiterTypeOK, WorkerPC
<1>2. WorkersOK'
  BY DEF WorkersOK, LimiterTypeOK, LeaseUntil
<1>3. PermitsOK'
  BY DEF PermitsOK, LimiterTypeOK
<1>4. Rows' \subseteq Rows /\ Holders' \subseteq Holders
  BY DEF Rows, Holders, LimiterTypeOK
<1>5. WindowsOK' /\ LastOK'
  BY DEF WindowsOK, LastOK
<1>. QED BY <1>1, <1>2, <1>3, <1>4, <1>5, FewerRows, FewerHolders

\* Cleanup drops windows that no transaction counts in any more, and a dispatch
\* that any transaction keeps its distance from.
LEMMA CleanupLimitsStep ==
    ASSUME LimiterInv, CleanupLimits
    PROVE  LimiterInv'
<1> USE LimitAssumption DEF LimiterInv, CleanupLimits, workerVars
<1>1. LimiterTypeOK' /\ (clock <= MaxClock)'
  BY DEF LimiterTypeOK, NoRow
<1>2. WorkersOK' /\ PermitsOK'
  BY DEF WorkersOK, PermitsOK, LeaseUntil
<1>3. Rows' \subseteq Rows /\ Holders' \subseteq Holders
  BY DEF Rows, Holders
<1>4. WindowsOK'
  <2> SUFFICES ASSUME NEW s \in Seconds
               PROVE  (/\ granted[s] <= RPS
                       /\ used[s] = granted[s] \/ s * Second + Second + MaxDelay <= clock)'
    BY DEF WindowsOK
  <2>1. PICK e \in Int : e = s * Second
    BY DEF Seconds
  <2>2. CASE e < clock - Hour
    <3>1. e + Second + MaxDelay <= clock
      BY <2>2, DelayAssumption DEF LimiterTypeOK
    <3>. QED BY <2>1, <3>1 DEF WindowsOK
  <2>3. CASE ~(e < clock - Hour)
    BY <2>1, <2>3 DEF WindowsOK
  <2>. QED BY <2>2, <2>3
<1>5. LastOK'
  BY DelayAssumption DEF LastOK, LimiterTypeOK, NoRow
<1>. QED BY <1>1, <1>2, <1>3, <1>4, <1>5, FewerRows, FewerHolders

\* Time passes no deadline.
LEMMA TickStep ==
    ASSUME LimiterInv, Tick
    PROVE  LimiterInv'
<1> USE LimitAssumption DEF LimiterInv, Tick, workerVars
<1>1. LimiterTypeOK' /\ (clock <= MaxClock)'
  BY DEF LimiterTypeOK
<1>2. WorkersOK'
  BY DEF WorkersOK, LimiterTypeOK, LeaseUntil
<1>3. PermitsOK'
  BY DEF PermitsOK
<1>4. Rows' \subseteq Rows /\ Holders' \subseteq Holders
  BY DEF Rows, Holders
<1>5. WindowsOK'
  <2> SUFFICES ASSUME NEW s \in Seconds
               PROVE  (/\ granted[s] <= RPS
                       /\ used[s] = granted[s] \/ s * Second + Second + MaxDelay <= clock)'
    BY DEF WindowsOK
  <2>1. PICK e \in Int : e = s * Second
    BY DEF Seconds
  <2>. QED BY <2>1 DEF WindowsOK, LimiterTypeOK
<1>6. LastOK'
  BY DEF LastOK, LimiterTypeOK
<1>. QED BY <1>1, <1>2, <1>3, <1>4, <1>5, <1>6, FewerRows, FewerHolders

--------------------------------------------------------------------------------
\* The limiter keeps its invariant: tables, workers and history agree whatever
\* transactions wait, workers crash and replies are lost.
THEOREM LimiterInvariant == Spec => []LimiterInv
<1>1. Init => LimiterInv
  BY InitLimiter
<1>2. LimiterInv /\ [Next]_vars => LimiterInv'
  <2> SUFFICES ASSUME LimiterInv, [Next]_vars PROVE LimiterInv'
    OBVIOUS
  <2>1. CASE Next
    BY <2>1, BeginAcquireStep, AcquireHostPermitStep, NoPermitStep, DispatchStep,
       ExecuteEndsStep, ReleaseHostPermitStep, CrashStep, CleanupLimitsStep, TickStep
    DEF Next
  <2>2. CASE UNCHANGED vars
    <3> USE <2>2 DEF LimiterInv, vars, workerVars
    <3>1. LimiterTypeOK' /\ (clock <= MaxClock)'
      BY DEF LimiterTypeOK
    <3>2. WorkersOK' /\ PermitsOK' /\ WindowsOK' /\ LastOK'
      BY DEF WorkersOK, PermitsOK, WindowsOK, LastOK, LeaseUntil
    <3>3. Rows' = Rows /\ Holders' = Holders
      BY DEF Rows, Holders
    <3>. QED BY <3>1, <3>2, <3>3
  <2>. QED BY <2>1, <2>2
<1>. QED BY <1>1, <1>2, PTL DEF Spec

\* No table gets a negative count or time.
THEOREM LimiterTypeCorrect == Spec => []LimiterTypeOK
<1>1. LimiterInv => LimiterTypeOK
  BY DEF LimiterInv
<1>. QED BY <1>1, LimiterInvariant, PTL

\* Over all instances no more exchanges with a host are in progress than its
\* Concurrency (AcquireHostPermit).
THEOREM ConcurrencyRespected == Spec => []ExchangesWithinConcurrency
<1>1. ASSUME LimiterInv PROVE ExchangesWithinConcurrency
  <2> DEFINE H == {w \in Worker : pc[w] = "http"}
  <2>1. H \in SUBSET Holders /\ IsFiniteSet(Holders)
    BY <1>1 DEF LimiterInv, Holders
  <2>2. IsFiniteSet(H) /\ Cardinality(H) <= Cardinality(Holders)
    BY <2>1, FS_Subset
  <2>3. Cardinality(H) \in Nat /\ Cardinality(Holders) \in Nat
    BY <2>1, <2>2, FS_CardinalityType
  <2>4. Cardinality(H) <= Concurrency
    <3> HIDE DEF H
    <3>. QED BY <1>1, <2>2, <2>3, LimitAssumption DEF LimiterInv
  <2>. QED BY <2>4 DEF ExchangesWithinConcurrency
<1>2. LimiterInv => ExchangesWithinConcurrency
  BY <1>1
<1>. QED BY <1>2, LimiterInvariant, PTL

\* The transactions of one second get no more permits than RPS, although Cleanup
\* drops windows while transactions wait.
THEOREM RateRespected == Spec => []GrantsWithinRate
<1>1. LimiterInv => GrantsWithinRate
  BY DEF LimiterInv, WindowsOK, GrantsWithinRate
<1>. QED BY <1>1, LimiterInvariant, PTL

\* Transactions that get a permit began MinInterval apart, although Cleanup drops
\* the last dispatch.
THEOREM IntervalRespected == Spec => StartsSpaced
<1>1. LimiterInv /\ [Next]_vars
      => [latest' # latest /\ MinInterval > 0
            => latest'.start >= latest.start + MinInterval]_vars
  <2> SUFFICES ASSUME LimiterInv, Next, latest' # latest, MinInterval > 0
               PROVE  latest'.start >= latest.start + MinInterval
    BY DEF vars
  <2>1. PICK u \in Worker : \E t \in Token : AcquireHostPermit(u, t)
    BY DEF Next, BeginAcquire, NoPermit, Dispatch, ExecuteEnds, ReleaseHostPermit, Crash,
           CleanupLimits, Tick
  <2>2. /\ latest'.start = start[u] /\ IntervalOver(start[u])
        /\ start[u] \in Nat /\ clock \in Nat /\ clock <= start[u] + MaxDelay
    BY <2>1 DEF AcquireHostPermit, Granted, LimiterInv, LimiterTypeOK, WorkersOK
  <2>3. latest.start \in Int /\ last \in Int
    BY DEF LimiterInv, LimiterTypeOK, NoRow
  <2>. QED BY <2>2, <2>3, LimitAssumption DEF LimiterInv, LastOK, IntervalOver
<1>. QED BY <1>1, LimiterInvariant, PTL DEF Spec, StartsSpaced

================================================================================
