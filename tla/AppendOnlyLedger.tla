-------------------------- MODULE AppendOnlyLedger --------------------------
(***************************************************************************)
(* What the payment ledger of one invoice promises to the rest of the      *)
(* system, whatever requests run against it: a key is used at most once, a *)
(* recorded payment keeps its amount and date for ever, it may be reversed *)
(* once, and nothing is deleted (the comment on model InvoicePayment in    *)
(* prisma/schema.prisma).                                                  *)
(***************************************************************************)
CONSTANTS
  Key,    \* idempotency keys
  Entry,  \* rows [status, amount, when]
  None    \* the absent row

VARIABLE ledger

Init == ledger \in [Key -> Entry]

Record(k) ==
  /\ ledger[k] = None
  /\ ledger'[k] \in Entry /\ ledger'[k].status = "confirmed"
  /\ ledger' = [ledger EXCEPT ![k] = ledger'[k]]

Reverse(k) ==
  /\ ledger[k].status = "confirmed"
  /\ ledger' = [ledger EXCEPT ![k].status = "reversed"]

Next == \E k \in Key : Record(k) \/ Reverse(k)

Spec == Init /\ [][Next]_ledger
=============================================================================
