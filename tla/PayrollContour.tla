--------------------------- MODULE PayrollContour ---------------------------
(***************************************************************************)
(* Payroll as a whole: the handlers of the period, of the advance and of   *)
(* the change requests over the same rows.  A behaviour has the handlers   *)
(* of one scenario, chosen at its start.                                   *)
(***************************************************************************)
EXTENDS PayrollPeriods, PayrollAdvances, PayrollChanges

\* A payment that was cancelled is a reversed entry of its ledger.
AsEntry(row) == IF row.status = "canceled" THEN [row EXCEPT !.status = "reversed"] ELSE row

Ledger == INSTANCE AppendOnlyLedger
            WITH Entry  <- [status : {"confirmed", "reversed"}, amount : Amount] \cup {NoRow},
                 None   <- NoRow,
                 ledger <- [k \in Key |-> AsEntry(payment[k])]

\* A month that was approved and has not been paid: what the transition leaves.
Approved(a) ==
  /\ period = "approved"
  /\ calc = [NoCalc EXCEPT !.status = "approved", !.base = a, !.auto = a, !.net = a]
  /\ owed = [status |-> "planned", net |-> a, paid |-> 0]

Init ==
  /\ scenario \in Scenarios
  /\ IF scenario.start = 0 THEN period = "none" /\ calc = NoCalc /\ owed = NotOwed
                           ELSE Approved(scenario.start)
  /\ adjustment = [i \in Adjustment |-> NoRow]
  /\ payment = [k \in Key |-> NoRow]
  /\ advance = NoAdvance
  /\ tranche = [k \in Tranche |-> NoRow]
  /\ expense = [e \in Payout |-> NoRow]
  /\ debt = [d \in Debt |-> NoDebt]
  /\ request = [q \in Request |-> NoRequest]
  /\ job = [r \in Req |-> Idle]

SharedNext == \E r \in Req : Sum(r) \/ Total(r) \/ Refund(r) \/ Crash(r)

\* The page of expenses.
PageNext ==
  \E r \in Req :
    \/ \E u \in User, e \in Payout :
         \/ BeginCancelExpense(r, u, e)
         \/ \E a \in Amount \cup {0} : BeginEditExpense(r, u, e, a)
    \/ RewriteExpense(r)

Next == PeriodNext \/ AdvanceNext \/ ChangeNext \/ SharedNext \/ PageNext

Spec == Init /\ [][Next]_vars

-----------------------------------------------------------------------------
\* Requests are handled one at a time, and none is under way.
Serial == Cardinality(scenario.slots) = 1
Quiet  == Serial /\ \A r \in Req : job[r] = Idle

\* An advance paid at once whose approved amount was raised afterwards: it
\* stands as approved again, and its cancellation returns no money.
Raised == advance.expense # None /\ advance.approved # advance.amount

(* Between two requests the totals of a calculation that has been computed *)
(* are those of its rows, whichever handler last changed one of them.      *)
TotalsMatchRows ==
  Quiet /\ calc.status \notin {"none", "draft"} /\ ~Raised =>
    calc.net = AccruedNet(calc.auto) /\ calc.paid = PaidTotal(advance, payment)

\* What was paid out by the payout of an expense.
PaidOut(e) == IF e \in Key THEN payment[e].amount
              ELSE IF e \in Tranche THEN tranche[e].amount ELSE advance.amount

(* Between two requests the payouts whose expenses have not been returned  *)
(* are what the calculation counts as paid: no money is out that is not    *)
(* counted, and none is counted that is not out.  Their expenses have the  *)
(* amounts that were paid out, unless the page of expenses edited one.     *)
(* The page returns nothing: an expense it cancels still is money paid     *)
(* out, although no longer among the expenses.  A cancelled advance whose  *)
(* tranches were not reversed is left aside: its expenses stay.            *)
MoneyIsCounted ==
  /\ Quiet /\ calc.status \notin {"none", "draft"} /\ ~Raised
  /\ advance.status = "canceled" => ActiveTranches = 0
  => LET out == Having(expense, "confirmed") \cup Having(expense, "canceled")
     IN  /\ MapThenSumSet(PaidOut, out) = calc.paid
         /\ "edit_expense" \notin scenario.calls => \A e \in out : expense[e].amount = PaidOut(e)

(* The tranches of an advance never add up to more than was approved,      *)
(* however often the amount is raised, tranches are reversed and the       *)
(* advance is cancelled in between.  It holds as long as two tranches are  *)
(* not paid at the same time.                                              *)
TranchesWithinApproved == ActiveTranches <= advance.approved

(* Between two requests, what has been settled of a debt and what is       *)
(* outstanding make up what was owed, unless the rest was written off; and *)
(* when a period without an advance has been closed, what remained unpaid, *)
(* or was paid too much, is exactly what was put down as a debt.           *)
DebtIsAccounted ==
  Quiet =>
    /\ \A d \in Debt : IF debt[d].status = "written_off" THEN debt[d].outstanding = 0
                      ELSE debt[d].moved + debt[d].outstanding = debt[d].original
    /\ period = "closed" /\ calc # NoCalc /\ advance = NoAdvance =>
         LET left == ObligationFromRemaining(calc.net - calc.paid)
         IN  left.amount # 0 =>
               \E d \in Debt : debt[d].reason = left.reason /\ debt[d].original = left.amount

-----------------------------------------------------------------------------
(* Whatever the interleaving, and whichever process crashes, a request for *)
(* a bonus that says it was applied has left one, and a request approved   *)
(* twice leaves at most one unless a statement of its approval failed.     *)
BonusesFollowRequests ==
  LET bonuses  == Cardinality({i \in Adjustment : adjustment[i] # NoRow})
      asked(P(_)) == Cardinality({q \in Request : request[q].kind = "bonus" /\ P(request[q])})
  IN  "adjust" \notin scenario.calls =>
        /\ asked(LAMBDA q : q.status = "applied") <= bonuses
        /\ "failure" \notin scenario.calls => bonuses <= asked(LAMBDA q : q.claimed)

\* Only the payment service writes: no other handler changes what is earned,
\* or what was advanced.
PaymentsOnly == scenario.calls \subseteq {"payment", "reversal", "transition", "crash"}

(* Payments and reversals that run together leave the totals those of the  *)
(* rows, never pay more than was earned, and leave an expense standing for *)
(* every payment that stands and for no other.                             *)
PaymentsAreSerial ==
  PaymentsOnly =>
    /\ Confirmed(payment) <= calc.net
    /\ calc.paid = Confirmed(payment)
    /\ \A k \in Key : expense[k].status = "confirmed" <=> payment[k].status = "confirmed"

(* A payment keeps its amount, is cancelled at most once and never comes   *)
(* back: the payments are an append-only ledger.                           *)
PaymentLedger == Ledger!Spec
=============================================================================
