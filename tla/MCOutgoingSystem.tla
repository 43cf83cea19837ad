--------------------------- MODULE MCOutgoingSystem ----------------------------
(***************************************************************************)
(* Small instances of OutgoingSystem: one client, one operation.           *)
(***************************************************************************)
EXTENDS OutgoingSystem

CONSTANTS c1, r1

\* A write, and a read that may be repeated once after a 503.
Write == [client |-> c1, max |-> 0, safe |-> FALSE, network |-> FALSE,
          statuses |-> {}]
Read == [client |-> c1, max |-> 2, safe |-> TRUE, network |-> FALSE,
         statuses |-> {503}]

\* validateRequest refuses more than 20 attempts.
Greedy == [Read EXCEPT !.max = 21]

MCRequest == {r1}
MCClient == {c1}
MCCode == {200, 503}
OneCode == {200}
OnlyWrite == {Write}
MCWire == {Write, Read}
LiveWire == {Read, Greedy}
OnlyRead == {Read}

================================================================================
