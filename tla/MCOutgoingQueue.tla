---------------------------- MODULE MCOutgoingQueue ----------------------------
(***************************************************************************)
(* Small instances of OutgoingQueue.                                       *)
(***************************************************************************)
EXTENDS OutgoingQueue, TLC

CONSTANTS c1, c2

\* A write that must not be repeated although its policy asks for it, and a
\* read that may be repeated once, of another client.
Once == [client |-> c1, max |-> 2, safe |-> FALSE, network |-> TRUE,
         statuses |-> {503}]
Twice == [client |-> c2, max |-> 2, safe |-> TRUE, network |-> TRUE,
          statuses |-> {503}]
MCWire == {Once, Twice}
MCOnce == {Once}
MCCode == {200, 503}

MCSymmetry ==
    Permutations(Request) \cup Permutations(Worker) \cup Permutations(Token)

================================================================================
