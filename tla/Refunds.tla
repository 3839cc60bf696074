------------------------------- MODULE Refunds -------------------------------
(***************************************************************************)
(* One refund of the new process (entryVersion 2: refund-document-actions, *)
(* lib/refund-workflow.ts): a manager gathers one document per slot, the   *)
(* requisites and a calculation, and submits; the regional director        *)
(* approves or returns it; the accountant pays.  Next to it one refund of  *)
(* the old process (refunds/actions.ts, lib/approval.ts).                  *)
(*                                                                         *)
(* BeginX reads the row and evaluates the guards on what it reads; each    *)
(* later action is one statement or one commit.  The three slots that both *)
(* types share are one slot here.  Left out, because they only refuse: the *)
(* size and the duplicate check of a file, the closed month, the legal     *)
(* entity, the optional updatedAt of a calculation.                        *)
(***************************************************************************)
EXTENDS AccessRules, Integers, Sequences, FiniteSets, TLC

CONSTANTS
  Req,        \* request slots
  User,
  RolesOf,
  File,       \* files that may be uploaded
  Amount,     \* sums of a contract
  Scenarios   \* which handlers may run together, in which slots, on which rows

ASSUME RolesAssumption  == RolesOf \in [User -> SUBSET Role]
ASSUME AmountAssumption == Amount \subseteq Nat \ {0}

VARIABLES
  refund,     \* the Refund row of the new process
  doc,        \* its RefundDocument rows, by the file they name
  stored,     \* files in the object storage
  legacy,     \* a Refund row of the old process
  hasActiveRegional,
  approved,   \* history: what was approved, with the amount and who approved the old one
  payments,   \* history: how often each of the two was paid
  scenario,   \* chosen at the start
  job         \* what each request does

None == "none"

ASSUME NamesAssumption == None \notin User

Type     == {"membership", "personal_training"}
Dates    == {"remaining", "over"}   \* of a membership: whether days are left
Sessions == {"few", "many"}         \* of a training: whether more were used than paid

SlotName == {"shared", "page 2", "page 3"}

RefundSlots(type) == {"shared", IF type = "membership" THEN "page 3" ELSE "page 2"}

NoRefund == [status |-> None]
NoCalc   == [hash |-> None, result |-> -1]
Draft(u, type) ==
  [status |-> "draft", author |-> u, type |-> type, requisites |-> FALSE, sum |-> 0, dates |-> None,
   sessions |-> None, calc |-> NoCalc, amount |-> 0, refused |-> FALSE]

RefundFields == {"status", "author", "type", "requisites", "sum", "dates", "sessions", "calc", "amount",
                 "refused"}

NoDoc == [slot |-> None, active |-> FALSE]
Idle  == [step |-> "idle", by |-> None, file |-> None, seen |-> {}, to |-> None]

business == <<refund, doc, stored, legacy, hasActiveRegional, approved, payments>>
vars     == <<business, scenario, job>>

Roles(u) == ExpandEffectiveRoles(RolesOf[u])

-----------------------------------------------------------------------------
Begin(r, call, j) ==
  /\ call \in scenario.calls /\ r \in scenario.slots /\ job[r] = Idle
  /\ job' = [job EXCEPT ![r] = j]
  /\ UNCHANGED <<business, scenario>>

At(r, step)   == job[r].step = step /\ UNCHANGED scenario
Goto(r, step) == job' = [job EXCEPT ![r].step = step]
Finish(r)     == job' = [job EXCEPT ![r] = Idle]

OnlyRefund == UNCHANGED <<doc, stored, legacy, hasActiveRegional, approved, payments>>

Editable == refund.status \in {"draft", "needs_correction"}

\* guardEditableDraft, getRefundForContext.
MayEdit(u) ==
  /\ refund # NoRefund /\ Editable /\ CanCreateOperational(Roles(u))
  /\ u = refund.author \/ "regional_director" \in Roles(u)

CreateDraft(u, type) ==
  /\ "create" \in scenario.calls /\ refund = NoRefund /\ "manager" \in Roles(u)
  /\ refund' = Draft(u, type)
  /\ OnlyRefund /\ UNCHANGED <<scenario, job>>

-----------------------------------------------------------------------------
(* Documents.                                                              *)

ActiveDocs     == {f \in File : doc[f].active}
SlotHolders(s) == {f \in ActiveDocs : doc[f].slot = s}
SetComplete    == \A s \in RefundSlots(refund.type) : SlotHolders(s) # {}

BeginUpload(r, u, f, s) ==
  /\ MayEdit(u) /\ s \in RefundSlots(refund.type)
  /\ doc[f] = NoDoc /\ f \notin stored /\ \A q \in Req : job[q].file # f
  /\ Begin(r, "upload", [Idle EXCEPT !.step = "store", !.by = u, !.file = f, !.to = s])

Store(r) ==
  /\ At(r, "store")
  /\ stored' = stored \cup {job[r].file}
  /\ Goto(r, "replace")
  /\ UNCHANGED <<refund, doc, legacy, hasActiveRegional, approved, payments>>

\* The transaction removes from the slot the documents it sees.
Replace(r) ==
  /\ At(r, "replace")
  /\ job' = [job EXCEPT ![r].step = "insert", ![r].seen = SlotHolders(job[r].to)]
  /\ UNCHANGED business

\* Mutant: activeSlotKey is not unique.
SlotTaken_Never(r) == FALSE

\* activeSlotKey is unique: the insert meets a document the removal did not see.
SlotTaken(r) == SlotHolders(job[r].to) \ job[r].seen # {}

\* The insert and the commit, or a failure, after which the file is deleted.
Insert(r) ==
  /\ At(r, "insert")
  /\ \/ /\ ~SlotTaken(r)
        /\ doc' = [f \in File |-> IF f = job[r].file THEN [slot |-> job[r].to, active |-> TRUE]
                                  ELSE IF f \in job[r].seen THEN [doc[f] EXCEPT !.active = FALSE]
                                  ELSE doc[f]]
        /\ Finish(r)
     \/ /\ SlotTaken(r) \/ "database fails" \in scenario.calls
        /\ Goto(r, "discard")
        /\ UNCHANGED doc
  /\ UNCHANGED <<refund, stored, legacy, hasActiveRegional, approved, payments>>

Discard(r) ==
  /\ At(r, "discard")
  /\ stored' = stored \ {job[r].file}
  /\ Finish(r)
  /\ UNCHANGED <<refund, doc, legacy, hasActiveRegional, approved, payments>>

BeginRemove(r, u, f) ==
  /\ MayEdit(u) /\ doc[f].active
  /\ Begin(r, "remove", [Idle EXCEPT !.step = "remove", !.by = u, !.seen = {f}])

Remove(r) ==
  /\ At(r, "remove")
  /\ doc' = [f \in File |-> IF f \in job[r].seen THEN [doc[f] EXCEPT !.active = FALSE] ELSE doc[f]]
  /\ Finish(r)
  /\ UNCHANGED <<refund, stored, legacy, hasActiveRegional, approved, payments>>

BeginType(r, u, type) ==
  /\ MayEdit(u) /\ type # refund.type
  /\ Begin(r, "type", [Idle EXCEPT !.step = "type", !.by = u, !.to = type,
                       !.seen = {f \in ActiveDocs : doc[f].slot \notin RefundSlots(type)}])

\* One transaction.  The calculation of the other type stays in the row.
ChangeType(r) ==
  /\ At(r, "type")
  /\ doc' = [f \in File |-> IF f \in job[r].seen THEN [doc[f] EXCEPT !.active = FALSE] ELSE doc[f]]
  /\ refund' = [refund EXCEPT !.type = job[r].to]
  /\ Finish(r)
  /\ UNCHANGED <<stored, legacy, hasActiveRegional, approved, payments>>

-----------------------------------------------------------------------------
(* Requisites, inputs and calculation.                                     *)

BeginRequisites(r, u, full) ==
  /\ MayEdit(u)
  /\ Begin(r, "requisites", [Idle EXCEPT !.step = "requisites", !.by = u, !.to = full])

\* A plain update by id.
SaveRequisites(r) ==
  /\ At(r, "requisites")
  /\ refund' = [refund EXCEPT !.requisites = job[r].to]
  /\ Finish(r) /\ OnlyRefund

\* The inputs of the refund's type, together with the sum of the contract.
WithInputs(row, in) ==
  [row EXCEPT !.sum = in.sum,
              !.dates = IF in.type = "membership" THEN in.of ELSE @,
              !.sessions = IF in.type = "membership" THEN @ ELSE in.of]

Input(type) ==
  [type : {type}, sum : Amount, of : IF type = "membership" THEN Dates ELSE Sessions]

\* refundCalculationFingerprint.
Fingerprint(row) ==
  <<row.type, row.sum, IF row.type = "membership" THEN row.dates ELSE row.sessions>>

\* computeMembershipRefund, computePersonalTrainingRefund: null is -1.
Result(in) == CASE in.of = "over" -> 0 [] in.of = "many" -> -1 [] OTHER -> in.sum

\* The refusal is a field of the training calculation only.
WithCalculation(row, in) ==
  [WithInputs(row, in) EXCEPT
     !.calc = [hash |-> <<in.type, in.sum, in.of>>, result |-> Result(in)],
     !.amount = IF Result(in) > 0 THEN Result(in) ELSE 0,
     !.refused = IF in.type = "membership" THEN @ ELSE in.of = "many"]

BeginInputs(r, u, in) ==
  /\ MayEdit(u) /\ in.type = refund.type
  /\ Begin(r, "inputs", [Idle EXCEPT !.step = "inputs", !.by = u, !.to = in])

BeginCalculate(r, u, in) ==
  /\ MayEdit(u) /\ in.type = refund.type /\ SetComplete /\ refund.requisites
  /\ Begin(r, "calculate", [Idle EXCEPT !.step = "calculate", !.by = u, !.to = in])

StillEditable == Editable

SaveInputs(r) ==
  /\ At(r, "inputs")
  /\ refund' = IF StillEditable THEN WithInputs(refund, job[r].to) ELSE refund
  /\ Finish(r) /\ OnlyRefund

Calculate(r) ==
  /\ At(r, "calculate")
  /\ refund' = IF StillEditable THEN WithCalculation(refund, job[r].to) ELSE refund
  /\ Finish(r) /\ OnlyRefund

-----------------------------------------------------------------------------
(* Review and payment.                                                     *)

\* Mutant: the inputs may have been edited after the calculation.
Current_Any == TRUE

\* A calculation made before fingerprints were kept has none, and is not checked.
Current == refund.calc.hash # None => refund.calc.hash = Fingerprint(refund)

\* refundSubmissionReadiness and the fingerprint.
Ready ==
  /\ SetComplete /\ refund.requisites
  /\ refund.calc # NoCalc /\ ~refund.refused
  /\ refund.calc.result > 0 /\ refund.amount > 0
  /\ Current

BeginSubmit(r, u) ==
  /\ refund # NoRefund /\ "manager" \in Roles(u) /\ u = refund.author /\ Editable /\ Ready
  /\ Begin(r, "submit", [Idle EXCEPT !.step = "submit", !.by = u])

Submit(r) ==
  /\ At(r, "submit")
  /\ refund' = IF Editable THEN [refund EXCEPT !.status = "pending_regional_review"] ELSE refund
  /\ Finish(r) /\ OnlyRefund

BeginCancel(r, u) ==
  MayEdit(u) /\ Begin(r, "cancel", [Idle EXCEPT !.step = "cancel", !.by = u])

Cancel(r) ==
  /\ At(r, "cancel")
  /\ refund' = IF Editable THEN [refund EXCEPT !.status = "canceled"] ELSE refund
  /\ Finish(r) /\ OnlyRefund

Pending == refund.status = "pending_regional_review"

BeginReview(r, u, decision) ==
  /\ "regional_director" \in Roles(u) /\ Pending
  /\ Begin(r, decision, [Idle EXCEPT !.step = decision, !.by = u])

Approve(r) ==
  /\ At(r, "approve")
  /\ IF Pending THEN /\ refund' = [refund EXCEPT !.status = "accounting_in_progress"]
                     /\ approved' = [approved EXCEPT !.amount = refund.amount]
     ELSE UNCHANGED <<refund, approved>>
  /\ Finish(r)
  /\ UNCHANGED <<doc, stored, legacy, hasActiveRegional, payments>>

Return(r) ==
  /\ At(r, "return")
  /\ refund' = IF Pending THEN [refund EXCEPT !.status = "needs_correction"] ELSE refund
  /\ Finish(r) /\ OnlyRefund

Payable == refund.status = "accounting_in_progress"

BeginPay(r, u) ==
  /\ "accountant" \in Roles(u) /\ Payable /\ SetComplete
  /\ refund.calc.result > 0 /\ refund.amount > 0
  /\ Begin(r, "pay", [Idle EXCEPT !.step = "pay", !.by = u])

\* Mutant: the payment is a plain update.
StillPayable_Unchecked == TRUE

StillPayable == Payable

Pay(r) ==
  /\ At(r, "pay")
  /\ IF StillPayable THEN /\ refund' = [refund EXCEPT !.status = "paid"]
                          /\ payments' = [payments EXCEPT !.refund = @ + 1]
     ELSE UNCHANGED <<refund, payments>>
  /\ Finish(r)
  /\ UNCHANGED <<doc, stored, legacy, hasActiveRegional, approved>>
=============================================================================
