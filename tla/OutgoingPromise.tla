---------------------------- MODULE OutgoingPromise ----------------------------
(***************************************************************************)
(* What the proxy promises about one request ID, without saying how: the   *)
(* exchanges with the external server happen one at a time and no more     *)
(* often than the policy of the accepted contents allows; once an answer   *)
(* has been given to the client no exchange is in progress and none        *)
(* follows; and an answer is either "unknown" or the response of the last  *)
(* exchange.  After the retention the ID is forgotten and may be used      *)
(* again.                                                                  *)
(***************************************************************************)
EXTENDS RetryPolicy

CONSTANTS Request, Wire, Null

VARIABLES
    wire,       \* the contents accepted under an ID, Null if there are none
    busy,       \* is an exchange in progress?
    sends,      \* exchanges started
    answers,    \* results given to the client
    era         \* how often the ID has been forgotten

vars == <<wire, busy, sends, answers, era>>

Init ==
    /\ wire = [r \in Request |-> Null]
    /\ busy = [r \in Request |-> FALSE]
    /\ sends = [r \in Request |-> 0]
    /\ answers = [r \in Request |-> {}]
    /\ era = [r \in Request |-> 0]

Accept(r, x) ==
    /\ wire[r] = Null
    /\ wire' = [wire EXCEPT ![r] = x]
    /\ UNCHANGED <<busy, sends, answers, era>>

Send(r) ==
    /\ wire[r] # Null
    /\ ~busy[r]
    /\ answers[r] = {}
    /\ sends[r] < AttemptLimit(wire[r])
    /\ busy' = [busy EXCEPT ![r] = TRUE]
    /\ sends' = [sends EXCEPT ![r] = @ + 1]
    /\ UNCHANGED <<wire, answers, era>>

\* The exchange ends: a response, a failure, or the death of the process.
EndExchange(r) ==
    /\ busy[r]
    /\ busy' = [busy EXCEPT ![r] = FALSE]
    /\ UNCHANGED <<wire, sends, answers, era>>

Answer(r, res) ==
    /\ wire[r] # Null
    /\ ~busy[r]
    /\ \/ res = [state |-> "unknown", era |-> era[r], exchange |-> 0]
       \/ /\ sends[r] > 0
          /\ res = [state |-> "http_completed", era |-> era[r],
                    exchange |-> sends[r]]
    /\ answers' = [answers EXCEPT ![r] = @ \cup {res}]
    /\ UNCHANGED <<wire, busy, sends, era>>

Forget(S) ==
    /\ \A r \in S : wire[r] # Null /\ ~busy[r]
    /\ wire' = [r \in Request |-> IF r \in S THEN Null ELSE wire[r]]
    /\ sends' = [r \in Request |-> IF r \in S THEN 0 ELSE sends[r]]
    /\ answers' = [r \in Request |-> IF r \in S THEN {} ELSE answers[r]]
    /\ era' = [r \in Request |-> IF r \in S THEN era[r] + 1 ELSE era[r]]
    /\ UNCHANGED busy

AnswerSet(r) == [state : {"http_completed", "unknown"}, era : {era[r]},
                 exchange : {0, sends[r]}]

Next ==
    \/ \E r \in Request :
          \/ \E x \in Wire : Accept(r, x)
          \/ Send(r)
          \/ EndExchange(r)
          \/ \E res \in AnswerSet(r) : Answer(r, res)
    \/ \E S \in SUBSET Request : Forget(S)

Spec == Init /\ [][Next]_vars

================================================================================
