--------------------------- MODULE MessageDelivery ---------------------------
(***************************************************************************)
(* What the outbox promises of a notification: it waits until it is either *)
(* sent or given up, and then never moves again; it is sent only if it     *)
(* arrived; and it arrives once more only when the answer to every earlier *)
(* arrival was lost.                                                       *)
(***************************************************************************)
EXTENDS Naturals

CONSTANT Note

VARIABLES
  phase,    \* of each notification
  copies,   \* how often it arrived in the chat
  doubt     \* attempts whose answer was lost

deliveryVars == <<phase, copies, doubt>>

DeliveryInit ==
  /\ phase = [n \in Note |-> "none"]
  /\ copies = [n \in Note |-> 0]
  /\ doubt = [n \in Note |-> 0]

Ask(n) ==
  /\ phase[n] = "none"
  /\ phase' = [phase EXCEPT ![n] = "waiting"]
  /\ UNCHANGED <<copies, doubt>>

Arrive(n) ==
  /\ phase[n] = "waiting" /\ copies[n] <= doubt[n]
  /\ copies' = [copies EXCEPT ![n] = @ + 1]
  /\ UNCHANGED <<phase, doubt>>

\* The answer to an attempt is lost: the message arrived, or it did not.
LoseAnswer(n) ==
  /\ phase[n] = "waiting" /\ copies[n] <= doubt[n]
  /\ copies' \in {copies, [copies EXCEPT ![n] = @ + 1]}
  /\ doubt' = [doubt EXCEPT ![n] = @ + 1]
  /\ UNCHANGED phase

Confirm(n) ==
  /\ phase[n] = "waiting" /\ copies[n] > 0
  /\ phase' = [phase EXCEPT ![n] = "sent"]
  /\ UNCHANGED <<copies, doubt>>

GiveUp(n) ==
  /\ phase[n] = "waiting"
  /\ phase' = [phase EXCEPT ![n] = "given up"]
  /\ UNCHANGED <<copies, doubt>>

DeliveryNext ==
  \E n \in Note : Ask(n) \/ Arrive(n) \/ LoseAnswer(n) \/ Confirm(n) \/ GiveUp(n)

DeliverySpec == DeliveryInit /\ [][DeliveryNext]_deliveryVars
=============================================================================
