--------------------------- MODULE PayrollAdvances ---------------------------
(***************************************************************************)
(* The advance of the month (payroll/advance-actions.ts, and recordAdvance *)
(* and cancelAdvance of payroll/periods/actions.ts).  There is one row per *)
(* employee, club and month, and a cancelled one keeps its place: a second *)
(* insertion fails.                                                        *)
(*                                                                         *)
(* An advance is either paid at once, by an expense of its own, or its     *)
(* amount is approved first and paid in tranches.  Its transactions run at *)
(* Read Committed.                                                         *)
(***************************************************************************)
EXTENDS PayrollTotals

Current == advance.status \in {"requested", "approved", "paid"}

Row(status, j, e) == [status |-> status, amount |-> j.amount, approved |-> j.amount,
                      earned |-> j.earned, expense |-> e]

Insert(r, step, status) ==
  /\ At(r, step)
  /\ IF advance = NoAdvance
       THEN advance' = Row(status, job[r], None) /\ Proceed(r)
       ELSE UNCHANGED advance /\ Finish(r)
  /\ UNCHANGED <<period, calc, adjustment, payment, tranche, expense, owed, debt, request>>

-----------------------------------------------------------------------------
(* recordAdvance: in an approved period, everything in one transaction.    *)

BeginAdvance(r, u, a) ==
  /\ calc # NoCalc /\ IsPayable(period) /\ CanPay(Roles(u))
  /\ AdvanceWithinEarned(a, calc.net) /\ ~Current
  /\ Begin(r, [Job("advance", <<"fold", "issue">>) EXCEPT !.amount = a, !.earned = calc.net])

\* What the transaction of a payout will write if it finds a calculation: its
\* totals, with the advance as paid.
Fold(r) ==
  LET a == Row("paid", job[r], None) IN
  /\ At(r, "fold")
  /\ Set(r, Rest([Summed(job[r], a, payment) EXCEPT !.found = (calc # NoCalc)]))
  /\ UNCHANGED rows

Folded(r) == IF job[r].found THEN Retotalled(job[r]) ELSE calc

Issue(r) ==
  /\ At(r, "issue")
  /\ IF advance = NoAdvance
       THEN \E v \in Voucher :
              /\ expense[v] = NoRow
              /\ expense' = Spent(v, job[r].amount)
              /\ advance' = Row("paid", job[r], v)
              /\ calc' = Folded(r)
              /\ ProceedWriting(r)
       ELSE UNCHANGED <<expense, advance, calc>> /\ Finish(r)
  /\ UNCHANGED <<period, adjustment, payment, tranche, owed, debt, request>>

-----------------------------------------------------------------------------
(* recordEmployeeAdvance, approveEmployeeAdvance, payoutAdvance: also      *)
(* before there is a period.  An amount that no calculation supports waits *)
(* for a regional director, unless one enters it; otherwise the row is     *)
(* inserted as paid, and the money goes out in a transaction of its own.   *)

BeginEmployeeAdvance(r, u, a) ==
  LET auto   == calc.net > 0
      direct == auto \/ "regional_director" \in Roles(u)
  IN
  /\ CanManageAssignments(Roles(u)) /\ ~Current
  /\ \E earned \in IF auto THEN {calc.net} ELSE Amount :
       /\ AdvanceWithinEarned(a, earned)
       /\ Begin(r, [Job("employee_advance",
                        IF direct THEN <<"record", "fold", "payout">> ELSE <<"request">>)
                    EXCEPT !.amount = a, !.earned = earned])

RequestAdvance(r) == Insert(r, "request", "requested")
RecordAdvance(r)  == Insert(r, "record", "paid")

BeginApproveAdvance(r, u) ==
  /\ advance.status = "requested" /\ "regional_director" \in Roles(u)
  /\ Begin(r, [Job("approve_advance", <<"fold", "payout">>) EXCEPT !.amount = advance.amount])

\* The row is updated by its id, whatever it has become.
PayAdvance(r) ==
  /\ At(r, "payout")
  /\ \E v \in Voucher :
       /\ expense[v] = NoRow
       /\ expense' = Spent(v, job[r].amount)
       /\ advance' = [advance EXCEPT !.status = "paid", !.expense = v]
       /\ calc' = Folded(r)
       /\ ProceedWriting(r)
  /\ UNCHANGED <<period, adjustment, payment, tranche, owed, debt, request>>

-----------------------------------------------------------------------------
(* cancelAdvance asks for a period that is not closed; the general         *)
(* cancelEmployeeAdvance asks for no period at all.                        *)

BeginCancelAdvance(r, u) ==
  /\ advance.status = "paid" /\ period \notin {"none", "closed"} /\ CanPay(Roles(u))
  /\ Begin(r, [Job("cancel_advance", <<"refund", "cancel", "sum", "total">>) EXCEPT
                 !.row = advance.expense])

BeginCancelEmployeeAdvance(r, u) ==
  /\ Current /\ CanManageAssignments(Roles(u))
  /\ Begin(r, [Job("cancel_employee_advance",
                   IF advance.status = "paid" THEN <<"refund", "cancel", "sum", "total">>
                                              ELSE <<"cancel", "sum", "total">>)
               EXCEPT !.row = advance.expense])

CancelAdvance(r) ==
  /\ At(r, "cancel")
  /\ advance' = [advance EXCEPT !.status = "canceled"]
  /\ Proceed(r)
  /\ UNCHANGED <<period, calc, adjustment, payment, tranche, expense, owed, debt, request>>

-----------------------------------------------------------------------------
(* createApprovedAdvance and increaseApprovedAmount.                       *)

BeginApprovedAdvance(r, u, a) ==
  /\ CanManageAssignments(Roles(u)) /\ ~Current
  /\ \E earned \in Amount :
       /\ AdvanceWithinEarned(a, earned)
       /\ Begin(r, [Job("approved_advance", <<"approved">>) EXCEPT !.amount = a, !.earned = earned])

ApproveAmount(r) == Insert(r, "approved", "approved")

\* An advance that is not cancelled is approved again, even if it was paid.
BeginRaise(r, u, a) ==
  /\ advance # NoAdvance /\ CanRaise(Roles(u))
  /\ a > advance.approved /\ AdvanceWithinEarned(a, advance.earned)
  /\ Begin(r, [Job("raise", <<"raise">>) EXCEPT !.amount = a,
                 !.to = IF advance.status = "canceled" THEN "canceled" ELSE "approved"])

Raise(r) ==
  /\ At(r, "raise")
  /\ advance' = [advance EXCEPT !.approved = job[r].amount, !.status = job[r].to]
  /\ Proceed(r)
  /\ UNCHANGED <<period, calc, adjustment, payment, tranche, expense, owed, debt, request>>

-----------------------------------------------------------------------------
(* addAdvanceTranche and reverseAdvanceTranche.                            *)

\* An advance that was paid at once takes no tranche.
BeginTranche(r, u, k, a) ==
  /\ advance.status \in {"approved", "paid"} /\ CanPay(Roles(u))
  /\ advance.expense = None \/ AnyTranche
  /\ tranche[k] = NoRow
  /\ Begin(r, [Job("tranche", <<"ceiling", "tranche", "sum", "total">>) EXCEPT
                 !.row = k, !.amount = a, !.net = advance.approved])

\* Mutant: the tranches that were paid before are not counted.
Ceiling_Alone(r) ==
  /\ At(r, "ceiling")
  /\ IF TrancheExceedsApproved(job[r].net, 0, job[r].amount) THEN Finish(r) ELSE Proceed(r)
  /\ UNCHANGED rows

\* In the transaction, but at Read Committed: the sum of the tranches is not
\* protected from one that is being paid.
Ceiling(r) ==
  /\ At(r, "ceiling")
  /\ IF TrancheExceedsApproved(job[r].net, ActiveTranches, job[r].amount)
       THEN Finish(r) ELSE Proceed(r)
  /\ UNCHANGED rows

PayTranche(r) ==
  LET k == job[r].row
      a == job[r].amount
  IN
  /\ At(r, "tranche")
  /\ IF tranche[k] # NoRow THEN UNCHANGED <<expense, tranche, advance>> /\ Finish(r)
     ELSE /\ expense' = Spent(k, a)
          /\ tranche' = [tranche EXCEPT ![k] = [status |-> "paid", amount |-> a]]
          /\ advance' = [advance EXCEPT !.status = "paid"]
          /\ Proceed(r)
  /\ UNCHANGED <<period, calc, adjustment, payment, owed, debt, request>>

\* Mutant: the totals are not recomputed after the reversal.
BeginReverseTranche_Totals(r, u, k) ==
  /\ tranche[k].status = "paid" /\ CanPay(Roles(u))
  /\ calc # NoCalc => period # "closed"
  /\ Begin(r, [Job("reverse_tranche", <<"refund", "reverse">>) EXCEPT !.row = k])

\* The owner and the general director may reverse a tranche as well.
BeginReverseTranche(r, u, k) ==
  /\ tranche[k].status = "paid"
  /\ CanPay(Roles(u)) \/ CanReviewChange(Roles(u))
  /\ calc # NoCalc => period # "closed"
  /\ Begin(r, [Job("reverse_tranche", IF calc # NoCalc THEN <<"refund", "reverse", "sum", "total">>
                                                      ELSE <<"refund", "reverse">>)
               EXCEPT !.row = k])

ReverseTranche(r) ==
  /\ At(r, "reverse")
  /\ tranche' = [tranche EXCEPT ![job[r].row].status = "reversed"]
  /\ Proceed(r)
  /\ UNCHANGED <<period, calc, adjustment, payment, advance, expense, owed, debt, request>>

-----------------------------------------------------------------------------
AdvanceNext ==
  \E r \in Req :
    \/ \E u \in User :
         \/ BeginApproveAdvance(r, u) \/ BeginCancelAdvance(r, u) \/ BeginCancelEmployeeAdvance(r, u)
         \/ \E a \in Amount : \/ BeginAdvance(r, u, a) \/ BeginEmployeeAdvance(r, u, a)
                              \/ BeginApprovedAdvance(r, u, a) \/ BeginRaise(r, u, a)
         \/ \E k \in Tranche : \/ BeginReverseTranche(r, u, k)
                               \/ \E a \in Amount : BeginTranche(r, u, k, a)
    \/ Fold(r) \/ Issue(r) \/ RequestAdvance(r) \/ RecordAdvance(r) \/ PayAdvance(r)
    \/ CancelAdvance(r) \/ ApproveAmount(r) \/ Raise(r)
    \/ Ceiling(r) \/ PayTranche(r) \/ ReverseTranche(r)
=============================================================================
