--------------------------- MODULE PayrollPeriods ---------------------------
(***************************************************************************)
(* The handlers of a payroll period, its calculation, its adjustments, its *)
(* payments and the debts it leaves (payroll/periods/actions.ts,           *)
(* lib/payroll/payment-service.ts, payroll/obligations/actions.ts).        *)
(***************************************************************************)
EXTENDS PayrollTotals

-----------------------------------------------------------------------------
(* createPayrollPeriod, generateCalculations, saveCalculationInputs.       *)

BeginCreate(r, u) ==
  /\ CanManageAssignments(Roles(u)) /\ period = "none"
  /\ Begin(r, Job("create", <<"create">>))

\* A period is unique per club and month: the second insertion fails.
Create(r) ==
  /\ At(r, "create")
  /\ period' = IF period = "none" THEN "draft" ELSE period
  /\ Proceed(r)
  /\ UNCHANGED <<calc, adjustment, payment, advance, tranche, expense, owed, debt, request>>

\* The calculation is created empty, or computed at once from the sales data.
BeginGenerate(r, u, a) ==
  /\ CanManageAssignments(Roles(u))
  /\ period # "none" /\ ~IsLocked(period) /\ calc = NoCalc
  /\ \/ Begin(r, Job("generate", <<"seed">>))
     \/ Begin(r, [Job("generate", <<"seed", "sum", "total">>) EXCEPT !.amount = a])

Seed(r) ==
  /\ At(r, "seed")
  /\ IF calc # NoCalc THEN Finish(r) /\ UNCHANGED calc
     ELSE /\ calc' = [NoCalc EXCEPT !.auto = job[r].amount,
                        !.status = IF job[r].amount = 0 THEN "draft" ELSE "calculated"]
          /\ ProceedWriting(r)
  /\ UNCHANGED <<period, adjustment, payment, advance, tranche, expense, owed, debt, request>>

\* What the scheme adds because of the changes approved for this calculation.
Overrides(c) == SumOf(request, c.overrides)

\* The amount is computed with the scheme in force when the handler reads it.
BeginInputs(r, u, a) ==
  /\ calc # NoCalc /\ CanManageAssignments(Roles(u)) /\ ~IsLocked(period)
  /\ Begin(r, [Job("inputs", <<"inputs", "sum", "total">>) EXCEPT
                 !.amount = a, !.net = a + Overrides(calc)])

Inputs(r) ==
  /\ At(r, "inputs")
  /\ calc' = [calc EXCEPT !.status = "calculated", !.base = job[r].amount, !.auto = job[r].net]
  /\ ProceedWriting(r)
  /\ UNCHANGED <<period, adjustment, payment, advance, tranche, expense, owed, debt, request>>

-----------------------------------------------------------------------------
(* transitionPeriod.  The status is a plain update of what was decided on  *)
(* the status read at the start.                                           *)

OpenRequest == \E q \in Request :
                 request[q].status \in {"submitted", "under_review", "returned_for_revision"}

MayClose == ~OpenRequest

Consequences(action) ==
  CASE action = "accounting_approve" -> <<"move", "lock", "bill", "owe">>
    [] action = "close"              -> <<"move", "remainder", "debt", "shut">>
    [] OTHER                         -> <<"move">>

BeginTransition(r, u, action) ==
  /\ period # "none" /\ MayMove(action, period, Roles(u))
  /\ action \in {"regional_approve", "accounting_approve"} => calc.status # "draft"
  /\ action = "close" => MayClose
  /\ Begin(r, [Job("transition", Consequences(action)) EXCEPT !.to = Moves[action].to])

MovePeriod(r) ==
  /\ At(r, "move")
  /\ period' = job[r].to
  /\ Proceed(r)
  /\ UNCHANGED <<calc, adjustment, payment, advance, tranche, expense, owed, debt, request>>

\* The calculations that are computed are approved with the period.
Lock(r) ==
  /\ At(r, "lock")
  /\ IF calc.status = "calculated"
       THEN calc' = [calc EXCEPT !.status = "approved"] /\ ProceedWriting(r)
       ELSE UNCHANGED calc /\ Proceed(r)
  /\ UNCHANGED <<period, adjustment, payment, advance, tranche, expense, owed, debt, request>>

\* Mutant: what was paid is not taken off.
Left_Paid == ObligationFromRemaining(calc.net)

Left == ObligationFromRemaining(calc.net - calc.paid)

\* What is left of the calculation becomes a debt, unless one is open already.
Remainder(r) ==
  LET open == \E d \in Debt : /\ debt[d].reason = Left.reason
                              /\ debt[d].status \in {"open", "partially_settled"}
  IN
  /\ At(r, "remainder")
  /\ IF Left.amount = 0 \/ open THEN Finish(r)
     ELSE Set(r, Rest([job[r] EXCEPT !.amount = Left.amount, !.to = Left.reason]))
  /\ UNCHANGED rows

OpenDebt(r) ==
  /\ At(r, "debt")
  /\ \E d \in Debt :
       /\ debt[d] = NoDebt
       /\ debt' = [debt EXCEPT ![d] = [status |-> "open", reason |-> job[r].to, moved |-> 0,
                                       original |-> job[r].amount, outstanding |-> job[r].amount]]
  /\ Proceed(r)
  /\ UNCHANGED <<period, calc, adjustment, payment, advance, tranche, expense, owed, request>>

Shut(r) ==
  /\ At(r, "shut")
  /\ calc' = [calc EXCEPT !.status = "closed"]
  /\ ProceedWriting(r)
  /\ UNCHANGED <<period, adjustment, payment, advance, tranche, expense, owed, debt, request>>

-----------------------------------------------------------------------------
(* addAdjustment and cancelAdjustment: a bonus is positive, a deduction    *)
(* negative.                                                               *)

MayAdjust(u) == calc # NoCalc /\ period # "closed" /\ CanAdjust(Roles(u), IsLocked(period))

BeginAdjust(r, u, a) ==
  /\ MayAdjust(u)
  /\ \E amount \in {a, -a} :
       Begin(r, [Job("adjust", <<"adjust", "sum", "total">>) EXCEPT !.amount = amount])

Adjust(r) ==
  /\ At(r, "adjust")
  /\ \E i \in Adjustment :
       /\ adjustment[i] = NoRow
       /\ adjustment' = [adjustment EXCEPT ![i] = [status |-> "approved", amount |-> job[r].amount]]
  /\ Proceed(r)
  /\ UNCHANGED <<period, calc, payment, advance, tranche, expense, owed, debt, request>>

BeginCancelAdjustment(r, u, i) ==
  /\ MayAdjust(u) /\ adjustment[i].status = "approved"
  /\ Begin(r, [Job("cancel_adjustment", <<"unadjust", "sum", "total">>) EXCEPT !.row = i])

CancelAdjustment(r) ==
  /\ At(r, "unadjust")
  /\ adjustment' = [adjustment EXCEPT ![job[r].row].status = "canceled"]
  /\ Proceed(r)
  /\ UNCHANGED <<period, calc, payment, advance, tranche, expense, owed, debt, request>>

-----------------------------------------------------------------------------
(* recordPayment and cancelPayment (executePayrollPayment,                 *)
(* executePayrollReversal): one serializable transaction each, tried again *)
(* from its start when it fails.                                           *)

\* A key that has been used is accepted: it is told apart in the transaction.
BeginPayment(r, u, k, a) ==
  /\ calc # NoCalc /\ IsPayable(period) /\ CanPay(Roles(u))
  /\ Begin(r, [Job("payment", <<"start", "commit">>) EXCEPT !.row = k, !.amount = a, !.tries = 1])

ExceedsRemaining(a) == a > calc.net - calc.paid

\* Mutant: the key of a cancelled payment may be used again.
KeyTaken_Confirmed(k) == payment[k].status = "confirmed"

KeyTaken(k) == payment[k] # NoRow

\* The transaction as it finds the database: a key that is taken is a replay or
\* a conflict, and in both cases nothing is written.
StartPayment(r) ==
  LET k    == job[r].row
      a    == job[r].amount
      paid == [payment EXCEPT ![k] = [status |-> "confirmed", amount |-> a]]
  IN
  /\ At(r, "start") /\ job[r].kind = "payment"
  /\ IF KeyTaken(k) \/ ExceedsRemaining(a) THEN Finish(r)
     ELSE Set(r, Rest(Summed(job[r], advance, paid)))
  /\ UNCHANGED rows

\* Mutant: the transaction runs at Read Committed.
Fails_Never(r) == FALSE

Fails(r) == job[r].stale

Retry(r) ==
  /\ At(r, "commit") /\ Fails(r)
  /\ IF job[r].tries = MaxAttempts THEN Finish(r)
     ELSE Set(r, [job[r] EXCEPT !.todo = <<"start", "commit">>, !.tries = @ + 1, !.stale = FALSE])
  /\ UNCHANGED rows

CommitPayment(r) ==
  LET k == job[r].row
      a == job[r].amount
  IN
  /\ At(r, "commit") /\ job[r].kind = "payment" /\ ~Fails(r)
  /\ payment' = [payment EXCEPT ![k] = [status |-> "confirmed", amount |-> a]]
  /\ expense' = Spent(k, a)
  /\ calc' = Retotalled(job[r])
  /\ owed' = Owing(job[r].net, job[r].paid)
  /\ ProceedWriting(r)
  /\ UNCHANGED <<period, adjustment, advance, tranche, debt, request>>

BeginReversal(r, u, k) ==
  /\ payment[k].status = "confirmed" /\ period # "closed" /\ CanPay(Roles(u))
  /\ Begin(r, [Job("reversal", <<"start", "commit">>) EXCEPT !.row = k, !.tries = 1])

StartReversal(r) ==
  LET k == job[r].row IN
  /\ At(r, "start") /\ job[r].kind = "reversal"
  /\ IF payment[k].status # "confirmed" THEN Finish(r)
     ELSE Set(r, Rest(Summed(job[r], advance, [payment EXCEPT ![k].status = "canceled"])))
  /\ UNCHANGED rows

CommitReversal(r) ==
  LET k == job[r].row IN
  /\ At(r, "commit") /\ job[r].kind = "reversal" /\ ~Fails(r)
  /\ payment' = [payment EXCEPT ![k].status = "canceled"]
  /\ expense' = Unspent(k)
  /\ calc' = Retotalled(job[r])
  /\ owed' = Owing(job[r].net, job[r].paid)
  /\ ProceedWriting(r)
  /\ UNCHANGED <<period, adjustment, advance, tranche, debt, request>>

-----------------------------------------------------------------------------
(* settleObligation and writeOffObligation.  What has been settled in cash *)
(* is a movement of its own, written before the debt.                      *)

IsOpen(d) == debt[d].status \in {"open", "partially_settled"}

BeginSettle(r, u, d, a) ==
  /\ IsOpen(d) /\ CanSettle(Roles(u)) /\ a <= debt[d].outstanding
  /\ Begin(r, [Job("settle", <<"repay", "settle">>) EXCEPT
                 !.row = d, !.amount = a, !.net = debt[d].outstanding - a])

Repay(r) ==
  /\ At(r, "repay")
  /\ debt' = [debt EXCEPT ![job[r].row].moved = @ + job[r].amount]
  /\ Proceed(r)
  /\ UNCHANGED <<period, calc, adjustment, payment, advance, tranche, expense, owed, request>>

Settle(r) ==
  LET status == IF job[r].net <= 0 THEN "settled" ELSE "partially_settled" IN
  /\ At(r, "settle")
  /\ debt' = [debt EXCEPT ![job[r].row].outstanding = job[r].net, ![job[r].row].status = status]
  /\ Proceed(r)
  /\ UNCHANGED <<period, calc, adjustment, payment, advance, tranche, expense, owed, request>>

BeginWriteOff(r, u, d) ==
  /\ IsOpen(d) /\ CanWriteOff(Roles(u))
  /\ Begin(r, [Job("writeoff", <<"writeoff">>) EXCEPT !.row = d])

WriteOff(r) ==
  /\ At(r, "writeoff")
  /\ debt' = [debt EXCEPT ![job[r].row].outstanding = 0, ![job[r].row].status = "written_off"]
  /\ Proceed(r)
  /\ UNCHANGED <<period, calc, adjustment, payment, advance, tranche, expense, owed, request>>

-----------------------------------------------------------------------------
PeriodNext ==
  \E r \in Req :
    \/ \E u \in User :
         \/ BeginCreate(r, u)
         \/ \E a \in Amount : \/ BeginGenerate(r, u, a)
                              \/ BeginInputs(r, u, a)
                              \/ BeginAdjust(r, u, a)
         \/ \E action \in PayrollAction : BeginTransition(r, u, action)
         \/ \E i \in Adjustment : BeginCancelAdjustment(r, u, i)
         \/ \E k \in Key : \/ BeginReversal(r, u, k)
                           \/ \E a \in Amount : BeginPayment(r, u, k, a)
         \/ \E d \in Debt : \/ BeginWriteOff(r, u, d)
                            \/ \E a \in Amount : BeginSettle(r, u, d, a)
    \/ Create(r) \/ Seed(r) \/ Inputs(r)
    \/ MovePeriod(r) \/ Lock(r) \/ Bill(r) \/ Owe(r) \/ Remainder(r) \/ OpenDebt(r) \/ Shut(r)
    \/ Adjust(r) \/ CancelAdjustment(r)
    \/ StartPayment(r) \/ CommitPayment(r) \/ StartReversal(r) \/ CommitReversal(r) \/ Retry(r)
    \/ Repay(r) \/ Settle(r) \/ WriteOff(r)
=============================================================================
