---------------------------- MODULE PayrollTotals ----------------------------
(***************************************************************************)
(* The payroll rows of one employee for one month of one club, and the     *)
(* steps its handlers share: the recomputation of the calculation's totals *)
(* (lib/payroll/aggregate.ts), the salary expense of a payout              *)
(* (lib/payroll/salary-expense.ts), and the amount owed in the payment     *)
(* calendar (lib/payroll/payment-obligation.ts).                           *)
(*                                                                         *)
(* A payout is the Expense row it creates.  That row is also an expense    *)
(* like any other to the page of expenses (expenses/actions.ts), where it  *)
(* can be cancelled and edited without its payout.  The cash movements are *)
(* left out: a payout makes one, unique per expense, and its cancellation  *)
(* one that returns it; the page of expenses touches neither.  Left out as *)
(* well are the wallets, the legal entity, the month close (which only     *)
(* refuses) and the audit.  An amount is cash or bank; the method only     *)
(* decides which band of roles may pay it.  Salary schemes are left out:   *)
(* what a scheme computes is an amount.                                    *)
(*                                                                         *)
(* A handler is a job of a request slot: it is begun with the guards it    *)
(* evaluates on what it reads, and with todo, the statements that follow.  *)
(* Each later action is one statement or one transaction, so that other    *)
(* handlers run in between.  PostgreSQL reads at Read Committed, except in *)
(* the payment service, whose transactions are serializable: they work on  *)
(* the snapshot of their first read, and fail when another transaction has *)
(* since written a row they write (the calculation, in every case).        *)
(***************************************************************************)
EXTENDS AccessRules, Integers, Sequences, FiniteSetsExt, TLC

CONSTANTS
  Req,         \* request slots
  User,        \* the callers
  RolesOf,     \* the stored roles of each caller
  Adjustment,  \* ids of adjustments
  Key,         \* idempotency keys of payments
  Tranche,     \* idempotency keys of tranches of the advance
  Voucher,     \* ids of the expenses an advance may create when it is paid at once
  Debt,        \* ids of debts left by closing the period
  Request,     \* ids of change requests
  Amount,      \* the amounts that are entered
  MaxAttempts, \* how often a serializable transaction is tried: 5 in the code
  Scenarios    \* which handlers and events may occur together, and in how many slots

None == "no row"

ASSUME RolesAssumption   == RolesOf \in [User -> SUBSET Role]
ASSUME AmountAssumption  == Amount \subseteq Nat \ {0}
ASSUME AttemptAssumption == MaxAttempts \in Nat \ {0}
\* The ids of the rows are unique, and none of them is the absent id.
ASSUME PayoutAssumption ==
  None \notin Key \cup Tranche \cup Voucher /\ Key \cap Tranche = {} /\ (Key \cup Tranche) \cap Voucher = {}
\* A scenario starts with nothing, or with a month in which an amount was approved.
ASSUME ScenarioAssumption ==
  \A s \in Scenarios : s.slots \subseteq Req /\ s.start \in Amount \cup {0}

VARIABLES
  period,      \* the status of the PayrollPeriod row
  calc,        \* the PayrollCalculation row
  adjustment,  \* the PayrollAdjustment rows
  payment,     \* the PayrollPayment rows, by key
  advance,     \* the PayrollAdvance row of the month
  tranche,     \* the PayrollAdvancePayment rows, by key
  expense,     \* the salary Expense rows
  owed,        \* the PayrollPaymentObligation row of the period
  debt,        \* the EmployeeFinancialObligation rows
  request,     \* the PayrollChangeRequest rows
  scenario,    \* which handlers and events this behaviour has: chosen at the start
  job          \* what each request slot is doing

rows == <<period, calc, adjustment, payment, advance, tranche, expense, owed, debt, request>>
vars == <<rows, scenario, job>>

Payout == Key \cup Tranche \cup Voucher

NoCalc     == [status |-> "none", base |-> 0, overrides |-> {}, auto |-> 0, net |-> 0, paid |-> 0]
NoRow      == [status |-> "none", amount |-> 0]
NoAdvance  == [status |-> "none", amount |-> 0, approved |-> 0, earned |-> 0, expense |-> None]
NoDebt     == [status |-> "none", reason |-> "none", original |-> 0, outstanding |-> 0, moved |-> 0]
NoRequest  == [status |-> "none", kind |-> "none", amount |-> 0, by |-> None,
               claimed |-> FALSE, version |-> FALSE]
NotOwed    == [status |-> "none", net |-> 0, paid |-> 0]

Idle == [kind |-> "none", todo |-> <<>>, row |-> None, to |-> None, amount |-> 0, earned |-> 0,
         net |-> 0, paid |-> 0, found |-> FALSE, overrides |-> {}, tries |-> 0, stale |-> FALSE]

Job(kind, todo) == [Idle EXCEPT !.kind = kind, !.todo = todo]

Nothing ==
  /\ period = "none" /\ calc = NoCalc
  /\ adjustment = [i \in Adjustment |-> NoRow]
  /\ payment = [k \in Key |-> NoRow]
  /\ advance = NoAdvance
  /\ tranche = [k \in Tranche |-> NoRow]
  /\ expense = [e \in Payout |-> NoRow]
  /\ owed = NotOwed
  /\ debt = [d \in Debt |-> NoDebt]
  /\ request = [q \in Request |-> NoRequest]

-----------------------------------------------------------------------------
(* The pure rules: the status machine of a period (lib/payroll/period.ts), *)
(* the gates (lib/payroll/access.ts), and the arithmetic of advances and   *)
(* debts (lib/payroll/advance-tranche-calc.ts, lib/payroll/obligations.ts).*)

PeriodStatus == {"draft", "needs_correction", "manager_submitted", "regional_review",
                 "regional_approved", "accounting_review", "approved", "partially_paid",
                 "paid", "closed"}

Operational == {"manager", "regional_director"}
Accounting  == {"accountant", "chief_accountant"}

Move(from, to, roles) == [from |-> from, to |-> to, roles |-> roles]

Moves ==
  [submit                  |-> Move({"draft", "needs_correction"}, "manager_submitted", {"manager"}),
   start_regional_review   |-> Move({"manager_submitted"}, "regional_review", {"regional_director"}),
   return_for_correction   |-> Move({"manager_submitted", "regional_review", "accounting_review"},
                                    "needs_correction", {"regional_director"} \cup Accounting),
   regional_approve        |-> Move({"manager_submitted", "regional_review"}, "regional_approved",
                                    {"regional_director"}),
   start_accounting_review |-> Move({"regional_approved"}, "accounting_review", Accounting),
   accounting_approve      |-> Move({"regional_approved", "accounting_review"}, "approved",
                                    Accounting),
   mark_partially_paid     |-> Move({"approved", "partially_paid"}, "partially_paid",
                                    Operational \cup Accounting),
   mark_paid               |-> Move({"approved", "partially_paid"}, "paid",
                                    Operational \cup Accounting),
   close                   |-> Move({"paid", "partially_paid"}, "closed",
                                    {"regional_director"} \cup Accounting)]

PayrollAction == DOMAIN Moves

\* applyPayrollAction
MayMove(action, status, roles) ==
  status \in Moves[action].from /\ roles \cap Moves[action].roles # {}

IsLocked(status)  == status \in {"approved", "partially_paid", "paid", "closed"}
IsPayable(status) == status \in {"approved", "partially_paid", "paid"}

CanManageAssignments(roles) == roles \cap Operational # {}

\* Cash is paid out by the operational band, a bank transfer by the accountants.
CanPay(roles) == roles \cap (Operational \cup Accounting) # {}

CanAdjust(roles, locked) == roles \cap (Accounting \cup IF locked THEN {} ELSE Operational) # {}

CanProposeChange(roles) == "regional_director" \in roles
CanReviewChange(roles)  == roles \cap {"general_director", "owner"} # {}
CanRaise(roles)         == roles \cap {"regional_director", "general_director", "owner"} # {}
CanSettle(roles)        == roles \cap (Operational \cup Accounting) # {}
CanWriteOff(roles)      == roles \cap {"owner", "chief_accountant"} # {}

-----------------------------------------------------------------------------
AdvanceWithinEarned(amount, earned) == 0 < amount /\ amount <= earned

\* An advance counts as paid by its tranches once it has any, and otherwise by
\* its single amount if it is paid.
AdvancePaid(status, amount, anyTranche, activeTranches) ==
  IF status \in {"none", "canceled", "rejected"} THEN 0
  ELSE IF anyTranche THEN activeTranches
  ELSE IF status = "paid" THEN amount ELSE 0

TrancheExceedsApproved(approved, activePaid, new) == new <= 0 \/ activePaid + new > approved

\* What closing a period leaves owed, by the company or by the employee.
ObligationFromRemaining(remaining) ==
  IF remaining >= 0 THEN [reason |-> "salary_remainder", amount |-> remaining]
                    ELSE [reason |-> "overpayment", amount |-> -remaining]

\* Which statuses of a change request allow each step.
AllowedFrom ==
  [resubmit |-> {"returned_for_revision"},
   return   |-> {"submitted", "under_review"},
   reject   |-> {"submitted", "under_review"},
   approve  |-> {"submitted", "under_review"},
   cancel   |-> {"submitted", "under_review", "returned_for_revision"}]

StatusAfter == [resubmit |-> "submitted", return |-> "returned_for_revision",
                reject |-> "rejected", cancel |-> "cancelled"]

-----------------------------------------------------------------------------
Roles(u) == ExpandEffectiveRoles(RolesOf[u])

Begin(r, j) ==
  /\ j.kind \in scenario.calls
  /\ r \in scenario.slots /\ job[r] = Idle
  /\ job' = [job EXCEPT ![r] = j]
  /\ UNCHANGED <<rows, scenario>>

At(r, step) == job[r].todo # <<>> /\ Head(job[r].todo) = step

\* The job once its current step is done.
Rest(j) == IF Len(j.todo) = 1 THEN Idle ELSE [j EXCEPT !.todo = Tail(@)]

Set(r, j)  == job' = [job EXCEPT ![r] = j] /\ UNCHANGED scenario
Proceed(r) == Set(r, Rest(job[r]))
Finish(r)  == Set(r, Idle)

\* The step writes rows that the serializable transactions write too: those
\* that are open fail at their commit.
ProceedWriting(r) ==
  /\ job' = [q \in Req |-> IF q = r THEN Rest(job[r])
                           ELSE IF At(q, "commit") THEN [job[q] EXCEPT !.stale = TRUE]
                           ELSE job[q]]
  /\ UNCHANGED scenario

-----------------------------------------------------------------------------
(* recomputeCalculationTotals: read every row, then write the totals.      *)

SumOf(f, ids) == MapThenSumSet(LAMBDA i : f[i].amount, ids)

Having(f, status) == {i \in DOMAIN f : f[i].status = status}

AccruedNet(auto) == auto + SumOf(adjustment, Having(adjustment, "approved"))

ActiveTranches == SumOf(tranche, Having(tranche, "paid"))
AnyTranche     == \E k \in Tranche : tranche[k].status # "none"

AdvancePart(a) == AdvancePaid(a.status, a.amount, AnyTranche, ActiveTranches)

Confirmed(p) == SumOf(p, Having(p, "confirmed"))

\* What the employee has received, given the advance and the payments.
PaidTotal(a, p) == AdvancePart(a) + Confirmed(p)

Summed(j, a, p) == [j EXCEPT !.net = AccruedNet(calc.auto), !.paid = PaidTotal(a, p)]

Sum(r) ==
  /\ At(r, "sum")
  /\ IF calc = NoCalc THEN Finish(r) ELSE Set(r, Rest(Summed(job[r], advance, payment)))
  /\ UNCHANGED rows

Retotalled(j) == [calc EXCEPT !.net = j.net, !.paid = j.paid]

Total(r) ==
  /\ At(r, "total")
  /\ calc' = Retotalled(job[r])
  /\ ProceedWriting(r)
  /\ UNCHANGED <<period, adjustment, payment, advance, tranche, expense, owed, debt, request>>

-----------------------------------------------------------------------------
(* createSalaryExpense and cancelSalaryExpense.                            *)

Spent(e, amount) == [expense EXCEPT ![e] = [status |-> "confirmed", amount |-> amount]]

\* Mutant: the expense of a cancelled payout is kept.
Unspent_Kept(e) == expense

\* An expense that was canceled on its page is not yet cancelled here.
Unspent(e) == IF e # None /\ expense[e].status \notin {"none", "cancelled"}
              THEN [expense EXCEPT ![e].status = "cancelled"] ELSE expense

\* Outside a transaction, as the first step of a cancellation.
Refund(r) ==
  /\ At(r, "refund")
  /\ expense' = Unspent(job[r].row)
  /\ Proceed(r)
  /\ UNCHANGED <<period, calc, adjustment, payment, advance, tranche, owed, debt, request>>

-----------------------------------------------------------------------------
(* cancelExpense and updateExpense (expenses/actions.ts): the page of      *)
(* expenses accepts a salary expense too.  Nothing else is written: the    *)
(* payout, the totals and the cash stay.  Who created an expense is not    *)
(* kept, so that a manager may cancel any, not only an own one.            *)

\* isExpenseCancelable
IsExpenseCancelable(status) == status = "confirmed"

BeginCancelExpense(r, u, e) ==
  /\ CanCreateOperational(Roles(u)) /\ IsExpenseCancelable(expense[e].status)
  /\ Begin(r, [Job("cancel_expense", <<"page">>) EXCEPT !.row = e])

\* An expense may be edited in any status, also to no amount.
BeginEditExpense(r, u, e, a) ==
  /\ CanMutateOperationalRecords(Roles(u)) /\ expense[e] # NoRow
  /\ Begin(r, [Job("edit_expense", <<"page">>) EXCEPT !.row = e, !.amount = a])

\* A plain update by id, whatever has become of the row.  Of the serializable
\* transactions that are open, the reversal of the same payout writes the row.
RewriteExpense(r) ==
  LET e == job[r].row
      Rewritten(row) == IF job[r].kind = "cancel_expense" THEN [row EXCEPT !.status = "canceled"]
                                                          ELSE [row EXCEPT !.amount = job[r].amount]
      Clashes(j) == j.kind = "reversal" /\ j.row = e
  IN
  /\ At(r, "page")
  /\ expense' = [expense EXCEPT ![e] = Rewritten(expense[e])]
  /\ job' = [q \in Req |-> IF q = r THEN Rest(job[r])
                           ELSE IF At(q, "commit") /\ Clashes(job[q]) THEN [job[q] EXCEPT !.stale = TRUE]
                           ELSE job[q]]
  /\ UNCHANGED <<period, calc, adjustment, payment, advance, tranche, owed, debt, request, scenario>>

-----------------------------------------------------------------------------
(* generateObligationsForPeriod: what is payable, and how much of it is    *)
(* paid, for the payment calendar.  Nothing is owed while nothing is       *)
(* earned, and a row that exists is then left as it was.                   *)

Owing(net, paid) ==
  IF net <= 0 THEN owed
  ELSE [status |-> IF paid >= net THEN "paid" ELSE IF paid > 0 THEN "partially_paid" ELSE "planned",
        net |-> net, paid |-> paid]

Bill(r) ==
  /\ At(r, "bill")
  /\ IF calc = NoCalc THEN Finish(r)
     ELSE Set(r, Rest([job[r] EXCEPT !.net = calc.net, !.paid = calc.paid]))
  /\ UNCHANGED rows

Owe(r) ==
  /\ At(r, "owe")
  /\ owed' = Owing(job[r].net, job[r].paid)
  /\ ProceedWriting(r)
  /\ UNCHANGED <<period, calc, adjustment, payment, advance, tranche, expense, debt, request>>

-----------------------------------------------------------------------------
\* The process ends: what was written stays, and the rest is not done.
Crash(r) ==
  /\ "crash" \in scenario.calls
  /\ job[r] # Idle
  /\ Finish(r)
  /\ UNCHANGED rows
=============================================================================
