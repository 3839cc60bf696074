---------------------------- MODULE RefundContour ----------------------------
(***************************************************************************)
(* The two refunds together: the approval of the old process, which        *)
(* changes its status by a compare-and-set on exactly the status it read,  *)
(* and the behaviours of both.                                             *)
(***************************************************************************)
EXTENDS Refunds

LegacyStatus == {"draft", "needs_review", "approved_by_regional", "approved_by_chief_accountant",
                 "rejected", "paid"}

ApprovedUnpaid == {"approved_by_regional", "approved_by_chief_accountant"}

NoLegacy == [status |-> None]

SeesLegacy(u) == legacy # NoLegacy /\ (IsManagerOnly(Roles(u)) => u = legacy.author)

SaveLegacy(u, a) ==
  /\ "old" \in scenario.calls /\ legacy = NoLegacy /\ CanCreateOperational(Roles(u))
  /\ legacy' = [status |-> "draft", author |-> u, amount |-> a]
  /\ UNCHANGED <<refund, doc, stored, hasActiveRegional, approved, payments, scenario, job>>

\* updateRefund: at any time before payment, and for accountants after it.
BeginEditLegacy(r, u, a) ==
  /\ SeesLegacy(u) /\ CanMutateOperationalRecords(Roles(u))
  /\ legacy.status = "paid" => "accountant" \in Roles(u)
  /\ Begin(r, "old", [Idle EXCEPT !.step = "edit old", !.by = u, !.to = a])

EditLegacy(r) ==
  /\ At(r, "edit old")
  /\ legacy' = [legacy EXCEPT !.amount = job[r].to]
  /\ Finish(r)
  /\ UNCHANGED <<refund, doc, stored, hasActiveRegional, approved, payments>>

\* applyApprovalAction: the statuses that user u may move the refund to.
Routes(u) ==
  LET roles == Roles(u)
      decides == IF hasActiveRegional THEN "regional_director" \in roles
                 ELSE "chief_accountant" \in roles
      approvedStatus == IF hasActiveRegional THEN "approved_by_regional"
                        ELSE "approved_by_chief_accountant"
  IN {to \in LegacyStatus :
        \/ to = "needs_review" /\ legacy.status = "draft" /\ CanCreateOperational(roles)
        \/ to = approvedStatus /\ legacy.status = "needs_review" /\ u # legacy.author /\ decides
        \/ to = "rejected" /\ legacy.status \in ApprovedUnpaid \cup {"needs_review"} /\ decides
        \/ to = "paid" /\ legacy.status \in ApprovedUnpaid /\ "accountant" \in roles}

BeginTransition(r, u, to) ==
  /\ SeesLegacy(u) /\ to \in Routes(u)
  /\ Begin(r, "old", [Idle EXCEPT !.step = "transition", !.by = u, !.to = <<legacy.status, to>>])

StillAt(status) == legacy.status = status

Transition(r) ==
  /\ At(r, "transition")
  /\ LET to == job[r].to[2] IN
     IF StillAt(job[r].to[1])
     THEN /\ legacy' = [legacy EXCEPT !.status = to]
          /\ approved' = IF to \in ApprovedUnpaid THEN [approved EXCEPT !.by = job[r].by] ELSE approved
          /\ payments' = IF to = "paid" THEN [payments EXCEPT !.legacy = @ + 1] ELSE payments
     ELSE UNCHANGED <<legacy, approved, payments>>
  /\ Finish(r)
  /\ UNCHANGED <<refund, doc, stored, hasActiveRegional>>

\* The club gets a regional director, or loses its last one.
SetRegional(on) ==
  /\ "regional" \in scenario.calls /\ on # hasActiveRegional
  /\ hasActiveRegional' = on
  /\ UNCHANGED <<refund, doc, stored, legacy, approved, payments, scenario, job>>

\* The process ends: what was written stays, and the rest is not done.
Crash(r) ==
  /\ "crash" \in scenario.calls /\ job[r] # Idle
  /\ Finish(r)
  /\ UNCHANGED <<business, scenario>>

-----------------------------------------------------------------------------
\* A behaviour starts without a refund or with one that its manager still edits,
\* whose amount is the one last calculated, and with at most one document in a slot.
RowsAssumption ==
  \A sc \in Scenarios :
    /\ IsFiniteSet(sc.slots)
    /\ sc.refund # NoRefund =>
         /\ DOMAIN sc.refund = RefundFields /\ sc.refund.status \in {"draft", "needs_correction"}
         /\ sc.refund.calc.result > 0 => sc.refund.amount = sc.refund.calc.result
    /\ sc.doc \in [File -> [slot : SlotName \cup {None}, active : BOOLEAN]]
    /\ \A f, g \in File :
         sc.doc[f].active /\ sc.doc[g].active /\ sc.doc[f].slot = sc.doc[g].slot => f = g

ASSUME RowsAssumption

Init ==
  /\ scenario \in Scenarios
  /\ refund = scenario.refund
  /\ doc = scenario.doc
  /\ stored = {f \in File : doc[f] # NoDoc}
  /\ legacy = NoLegacy
  /\ hasActiveRegional = TRUE
  /\ approved = [amount |-> 0, by |-> None]
  /\ payments = [refund |-> 0, legacy |-> 0]
  /\ job = [r \in Req |-> Idle]

BeginDocument(r, u) ==
  \/ \E f \in File : BeginRemove(r, u, f) \/ \E s \in SlotName : BeginUpload(r, u, f, s)
  \/ \E type \in Type : BeginType(r, u, type)

BeginForm(r, u) ==
  \/ \E full \in BOOLEAN : BeginRequisites(r, u, full)
  \/ \E type \in Type : \E in \in Input(type) : BeginInputs(r, u, in) \/ BeginCalculate(r, u, in)

BeginDecision(r, u) ==
  \/ BeginSubmit(r, u) \/ BeginCancel(r, u) \/ BeginPay(r, u)
  \/ \E decision \in {"approve", "return"} : BeginReview(r, u, decision)

BeginLegacy(r, u) ==
  (\E a \in Amount : BeginEditLegacy(r, u, a)) \/ \E to \in LegacyStatus : BeginTransition(r, u, to)

Write(r) ==
  \/ Store(r) \/ Replace(r) \/ Insert(r) \/ Discard(r) \/ Remove(r) \/ ChangeType(r)
  \/ SaveRequisites(r) \/ SaveInputs(r) \/ Calculate(r)
  \/ Submit(r) \/ Cancel(r) \/ Approve(r) \/ Return(r) \/ Pay(r)
  \/ EditLegacy(r) \/ Transition(r)

Next ==
  \/ \E u \in User : (\E type \in Type : CreateDraft(u, type)) \/ \E a \in Amount : SaveLegacy(u, a)
  \/ \E r \in Req : \/ \E u \in User : \/ BeginDocument(r, u) \/ BeginForm(r, u)
                                       \/ BeginDecision(r, u) \/ BeginLegacy(r, u)
                    \/ Write(r) \/ Crash(r)
  \/ \E on \in BOOLEAN : SetRegional(on)

Spec == Init /\ [][Next]_vars

-----------------------------------------------------------------------------
(* "Exactly one ACTIVE document per (refund, slot)", and its file is in    *)
(* the storage, however uploads, replacements, removals and failures       *)
(* overlap.                                                                *)
SlotHoldsOneStoredFile ==
  /\ \A f, g \in ActiveDocs : doc[f].slot = doc[g].slot => f = g
  /\ ActiveDocs \subseteq stored

(* With one request at a time a refund that left the manager's hands has   *)
(* every document of its type, its requisites, and a positive result; the  *)
(* result is of exactly the inputs it shows, unless it was calculated      *)
(* before fingerprints were kept: such a result is submitted as it is.     *)
SubmittedIsComplete ==
  Cardinality(scenario.slots) = 1
    /\ refund.status \in {"pending_regional_review", "accounting_in_progress", "paid"}
  => /\ SetComplete /\ refund.requisites
     /\ refund.calc.hash # None => refund.calc.hash = Fingerprint(refund)
     /\ refund.calc.result > 0 /\ refund.amount = refund.calc.result

(* Whatever overlaps, the amount that is paid is the one the regional      *)
(* director approved, a refund of the old process is paid only after       *)
(* someone other than its author approved it, and each is paid at most     *)
(* once and stays so: a double click, or a payment and a rejection at      *)
(* once, has one winner.                                                   *)
PaidOnceAsApproved ==
  /\ refund.status = "paid" => refund.amount = approved.amount /\ refund.amount > 0
  /\ legacy.status = "paid" => approved.by \notin {None, legacy.author}
  /\ payments.refund = (IF refund.status = "paid" THEN 1 ELSE 0)
  /\ payments.legacy = (IF legacy.status = "paid" THEN 1 ELSE 0)
=============================================================================
