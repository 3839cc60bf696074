--------------------------- MODULE PayrollChanges ---------------------------
(***************************************************************************)
(* Change requests (payroll/change-requests/actions.ts): a regional        *)
(* director proposes a bonus, a change of the scheme for this calculation  *)
(* or one for the future; a general director or an owner decides, never on *)
(* their own proposal.  The approval claims the request by a               *)
(* compare-and-set, brings about its effect in several statements, and     *)
(* then marks it applied; every other decision is a plain update after a   *)
(* guard.                                                                  *)
(*                                                                         *)
(* A new version of a scheme is unique per request                         *)
(* (materializeApprovedSchemeChange): it is the request's version here.    *)
(***************************************************************************)
EXTENDS PayrollTotals

ChangeKind == {"bonus", "override", "future"}

\* A change for the future may be proposed from a closed period as well.
BeginPropose(r, u, a, kind) ==
  /\ calc # NoCalc /\ CanProposeChange(Roles(u))
  /\ kind # "future" => period # "closed"
  /\ Begin(r, [Job("propose", <<"propose">>) EXCEPT !.row = u, !.to = kind, !.amount = a])

Propose(r) ==
  /\ At(r, "propose")
  /\ \E q \in Request :
       /\ request[q] = NoRequest
       /\ request' = [request EXCEPT ![q] = [NoRequest EXCEPT
                        !.status = "submitted", !.kind = job[r].to, !.amount = job[r].amount,
                        !.by = job[r].row]]
  /\ Proceed(r)
  /\ UNCHANGED <<period, calc, adjustment, payment, advance, tranche, expense, owed, debt>>

\* Who may take each decision on a request.
MayDecide(u, q, decision) ==
  LET own    == request[q].by = u
      review == CanReviewChange(Roles(u))
  IN  CASE decision = "cancel"   -> own \/ review
        [] decision = "resubmit" -> own
        [] OTHER                 -> review /\ ~own

BeginDecide(r, u, q, decision) ==
  /\ request[q].status \in AllowedFrom[decision] /\ MayDecide(u, q, decision)
  /\ Begin(r, [Job("decide", <<"decide">>) EXCEPT !.row = q, !.to = StatusAfter[decision]])

Decide(r) ==
  /\ At(r, "decide")
  /\ request' = [request EXCEPT ![job[r].row].status = job[r].to]
  /\ Proceed(r)
  /\ UNCHANGED <<period, calc, adjustment, payment, advance, tranche, expense, owed, debt>>

-----------------------------------------------------------------------------
(* approveChangeRequest.                                                   *)

\* The claim, the effect of the kind, and the mark that it is there.
Effect(kind) ==
  CASE kind = "bonus"    -> <<"claim", "bonus", "sum", "total", "applied">>
    [] kind = "override" -> <<"claim", "overrides", "override", "effective", "auto",
                              "sum", "total", "applied">>
    [] kind = "future"   -> <<"claim", "pending", "version">>

BeginApproveChange(r, u, q) ==
  LET kind == request[q].kind IN
  /\ request[q].status \in AllowedFrom["approve"] /\ MayDecide(u, q, "approve")
  /\ kind # "future" => period # "closed"
  /\ Begin(r, [Job("approve_change", Effect(kind)) EXCEPT !.row = q, !.amount = request[q].amount])

\* Mutant: the claim does not look at the token.
Claim_Again(r) ==
  LET q == job[r].row IN
  /\ At(r, "claim")
  /\ IF request[q].status \in {"submitted", "under_review"}
       THEN request' = [request EXCEPT ![q].claimed = TRUE] /\ Proceed(r)
       ELSE UNCHANGED request /\ Finish(r)
  /\ UNCHANGED <<period, calc, adjustment, payment, advance, tranche, expense, owed, debt>>

Claim(r) ==
  LET q == job[r].row IN
  /\ At(r, "claim")
  /\ IF request[q].status \in {"submitted", "under_review"} /\ ~request[q].claimed
       THEN request' = [request EXCEPT ![q].claimed = TRUE] /\ Proceed(r)
       ELSE UNCHANGED request /\ Finish(r)
  /\ UNCHANGED <<period, calc, adjustment, payment, advance, tranche, expense, owed, debt>>

\* The bonus is an adjustment like any other.
Bonus(r) ==
  /\ At(r, "bonus")
  /\ \E i \in Adjustment :
       /\ adjustment[i] = NoRow
       /\ adjustment' = [adjustment EXCEPT ![i] = [status |-> "approved", amount |-> job[r].amount]]
  /\ Proceed(r)
  /\ UNCHANGED <<period, calc, payment, advance, tranche, expense, owed, debt, request>>

\* The list of the calculation's overrides is read, and written back longer.
ReadOverrides(r) ==
  /\ At(r, "overrides")
  /\ Set(r, Rest([job[r] EXCEPT !.overrides = calc.overrides \cup {job[r].row}]))
  /\ UNCHANGED rows

WriteOverrides(r) ==
  /\ At(r, "override")
  /\ calc' = [calc EXCEPT !.overrides = job[r].overrides]
  /\ ProceedWriting(r)
  /\ UNCHANGED <<period, adjustment, payment, advance, tranche, expense, owed, debt, request>>

\* recomputeCalcFromEffective.
ReadEffective(r) ==
  /\ At(r, "effective")
  /\ Set(r, Rest([job[r] EXCEPT !.net = calc.base + SumOf(request, calc.overrides)]))
  /\ UNCHANGED rows

WriteAuto(r) ==
  /\ At(r, "auto")
  /\ calc' = [calc EXCEPT !.auto = job[r].net]
  /\ ProceedWriting(r)
  /\ UNCHANGED <<period, adjustment, payment, advance, tranche, expense, owed, debt, request>>

MarkRequest(r, step, status) ==
  /\ At(r, step)
  /\ request' = [request EXCEPT ![job[r].row].status = status]
  /\ Proceed(r)
  /\ UNCHANGED <<period, calc, adjustment, payment, advance, tranche, expense, owed, debt>>

MarkApplied(r) == MarkRequest(r, "applied", "applied")
MarkPending(r) == MarkRequest(r, "pending", "approved_pending_scheme_creation")

\* A statement fails: the claim is released, and the effect is not undone.
FailApproval(r) ==
  /\ "failure" \in scenario.calls
  /\ job[r].kind = "approve_change"
  /\ Len(job[r].todo) > 0 /\ Head(job[r].todo) \notin {"claim", "version", "release"}
  /\ Set(r, [job[r] EXCEPT !.todo = <<"release">>])
  /\ UNCHANGED rows

Release(r) ==
  /\ At(r, "release")
  /\ request' = [request EXCEPT ![job[r].row].claimed = FALSE]
  /\ Proceed(r)
  /\ UNCHANGED <<period, calc, adjustment, payment, advance, tranche, expense, owed, debt>>

\* retryMaterializeSchemeChange.
BeginMaterialize(r, u, q) ==
  /\ request[q].kind = "future" /\ request[q].status = "approved_pending_scheme_creation"
  /\ CanReviewChange(Roles(u))
  /\ Begin(r, [Job("materialize", <<"version">>) EXCEPT !.row = q])

\* The version and the request's status are written in one transaction.  A
\* request that has its version already is only marked.
Materialize(r) ==
  LET q == job[r].row IN
  /\ At(r, "version")
  /\ IF request[q].status \in {"approved_pending_scheme_creation", "applied"}
       THEN request' = [request EXCEPT ![q].version = TRUE, ![q].status = "applied"]
       ELSE UNCHANGED request
  /\ Proceed(r)
  /\ UNCHANGED <<period, calc, adjustment, payment, advance, tranche, expense, owed, debt>>

-----------------------------------------------------------------------------
ChangeNext ==
  \E r \in Req :
    \/ \E u \in User :
         \/ \E a \in Amount, kind \in ChangeKind : BeginPropose(r, u, a, kind)
         \/ \E q \in Request : \/ BeginApproveChange(r, u, q) \/ BeginMaterialize(r, u, q)
                               \/ \E d \in DOMAIN StatusAfter : BeginDecide(r, u, q, d)
    \/ Propose(r) \/ Decide(r) \/ Claim(r) \/ Bonus(r)
    \/ ReadOverrides(r) \/ WriteOverrides(r) \/ ReadEffective(r) \/ WriteAuto(r)
    \/ MarkApplied(r) \/ MarkPending(r) \/ Materialize(r) \/ FailApproval(r) \/ Release(r)
=============================================================================
