------------------------------ MODULE DeliveryLoop -----------------------------
(***************************************************************************)
(* The table proxy_deliveries and the loops of all instances that publish  *)
(* what is in it until it is acknowledged.                                 *)
(*                                                                         *)
(* A row that is not acknowledged is due at its next attempt, or when the  *)
(* lease of its claim (10 s) has run out.  The lease has no owner: it may  *)
(* run out under a slow loop, and a late reschedule ends the lease of      *)
(* another.  So nothing keeps two loops from publishing the same row, and  *)
(* the times are left out: an open row may be published at any moment.     *)
(***************************************************************************)
EXTENDS Naturals

CONSTANT Delivery

VARIABLE delivery   \* rows

RowState == {"none", "open", "acked"}

DeliveriesInit == delivery = [d \in Delivery |-> "none"]

\* A new row and a reopened one are due at once.
Open(d) == delivery' = [delivery EXCEPT ![d] = "open"]

Acknowledge(d) == delivery' = [delivery EXCEPT ![d] = "acked"]

\* Mutant: the publication counts as the delivery.
DeliveryRound_Acknowledges(d) ==
    /\ delivery[d] = "open"
    /\ Acknowledge(d)

\* One round of deliveryLoop: ClaimDelivery, PublishRaw (which the module that
\* extends this one adds) and RescheduleDelivery.  It is one step: the row keeps
\* its place whatever happens meanwhile, a loop that is slow to publish looks
\* the same as a message that is slow to arrive, and a publication that fails the
\* same as a message that is lost.  A failed reschedule ends the process: that
\* is a round and then the death of an instance.
DeliveryRound(d) ==
    /\ delivery[d] = "open"
    /\ UNCHANGED delivery

================================================================================
