------------------------------ MODULE RetryPolicy ------------------------------
(***************************************************************************)
(* The retry policy a client puts into its request, as the worker reads    *)
(* it.  The contents of a request are a record whose field client is the   *)
(* sender, max the policy's MaxAttempts, safe whether the method is GET,   *)
(* HEAD or OPTIONS or the policy says Idempotent, network its              *)
(* RetryNetworkFail and statuses its RetryStatuses.  The URL, the headers  *)
(* and the body decide nothing in the queue.                               *)
(***************************************************************************)
EXTENDS Naturals

WireSet(Client, Code) ==
    [client : Client, max : Nat, safe : BOOLEAN,
     network : BOOLEAN, statuses : SUBSET Code]

\* MaxAttempts as canRetry normalises it: no policy means one attempt.
MaxAttempts(x) == IF x.max <= 0 THEN 1 ELSE x.max

\* Mutant: an unsafe method is repeated as well.
canRetry_Unsafe(x, attempt, network, code) ==
    /\ attempt < MaxAttempts(x)
    /\ IF network THEN x.network ELSE code \in x.statuses

\* May x be repeated after its attempt-th attempt failed without a response
\* (network) or was answered with the given status code?
canRetry(x, attempt, network, code) ==
    /\ attempt < MaxAttempts(x)
    /\ x.safe
    /\ IF network THEN x.network ELSE code \in x.statuses

\* How often x may be put on the wire.
AttemptLimit(x) == IF x.safe THEN MaxAttempts(x) ELSE 1

================================================================================
