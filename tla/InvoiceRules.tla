---------------------------- MODULE InvoiceRules ----------------------------
(***************************************************************************)
(* The pure decisions of the invoice contour: who may move an invoice from *)
(* which status to which, who may edit it, what blocks its submission and  *)
(* its payment, and which status a payment ledger implies.  Everything     *)
(* here is a function of its arguments (lib/invoices.ts and                *)
(* lib/invoice-payments.ts); the stateful server actions that call it are  *)
(* in InvoiceContour.                                                      *)
(*                                                                         *)
(* Money is an integer number of kopeks.  The financially significant      *)
(* fields of an invoice are one value of the set Data: an amount, the      *)
(* month of the invoice date, and how complete the requisites are.  Two    *)
(* Data values are different exactly when their normalised fields differ,  *)
(* so the SHA-256 fingerprint of the code is the Data value itself.        *)
(***************************************************************************)
EXTENDS AccessRules, Integers, FiniteSetsExt

InvoiceStatus ==
  {"draft", "needs_review", "needs_correction", "approved_by_regional",
   "approved_by_chief_accountant", "approved_by_owner", "partially_paid",
   "paid", "rejected", "canceled"}

\* No status: the null of the nullable column prePaymentStatus.
NoStatus == "none"

INVOICE_APPROVED_UNPAID ==
  {"approved_by_regional", "approved_by_chief_accountant", "approved_by_owner"}

INVOICE_EDITABLE    == {"draft", "needs_correction"}
INVOICE_REJECTABLE  == {"needs_review"} \cup INVOICE_APPROVED_UNPAID
INVOICE_CANCELABLE  == {"draft", "needs_review"} \cup INVOICE_APPROVED_UNPAID
INVOICE_REVIEW_DATA == INVOICE_EDITABLE \cup INVOICE_REJECTABLE
PAYABLE             == INVOICE_APPROVED_UNPAID \cup {"partially_paid"}
PAYMENT_LOCKED      == {"paid", "partially_paid"}

Confidence == {"low", "medium", "high"}

\* Which requisites are missing: none, one the payment needs, or the counterparty.
Gap == {"none", "requisites", "counterparty"}

-----------------------------------------------------------------------------
(* What the roles permit.                                                 *)

CanRecordInvoicePayment(roles)  == roles \cap {"accountant", "chief_accountant"} # {}
CanReverseInvoicePayment(roles) == "chief_accountant" \in roles
CanReviewInvoiceData(roles)     == "accountant" \in roles
CanCancelInvoice(roles) == roles \cap {"manager", "regional_director", "accountant"} # {}

CanEditInvoice(status, roles) ==
  \/ status \in INVOICE_EDITABLE
  \/ status = "paid" /\ "accountant" \in roles

-----------------------------------------------------------------------------
(* The workflow decision table.                                            *)

\* Approval belongs to the regional director while the club has an active one,
\* and falls back to the chief accountant otherwise.
IsApprover(roles, hasActiveRegional) ==
  IF hasActiveRegional THEN "regional_director" \in roles
                       ELSE "chief_accountant" \in roles

InvoiceAction ==
  {"send_to_review", "approve", "return_for_correction", "reject", "cancel"}

\* The statuses an action leads to: a singleton, or empty when it is refused.
ApplyInvoiceAction(action, status, roles, hasActiveRegional, isCreator) ==
  { to \in InvoiceStatus :
      \/ /\ action = "send_to_review" /\ to = "needs_review"
         /\ status \in INVOICE_EDITABLE
         /\ roles \cap {"manager", "regional_director"} # {}
         /\ isCreator
      \/ /\ action = "approve" /\ status = "needs_review"
         /\ IsApprover(roles, hasActiveRegional)
         /\ to = IF hasActiveRegional THEN "approved_by_regional"
                                      ELSE "approved_by_chief_accountant"
      \/ /\ action = "return_for_correction" /\ to = "needs_correction"
         /\ status = "needs_review"
         /\ IsApprover(roles, hasActiveRegional)
      \/ /\ action = "reject" /\ to = "rejected"
         /\ status \in INVOICE_REJECTABLE
         /\ IsApprover(roles, hasActiveRegional)
      \/ /\ action = "cancel" /\ to = "canceled"
         /\ status = "draft"
         /\ roles \cap {"manager", "regional_director"} # {} }

-----------------------------------------------------------------------------
(* Data guards.                                                            *)

HasCriticalPaymentGap(data) == data.gap # "none" \/ data.amount = 0

\* Every modelled invoice has a file; the file gate itself is in InvoiceIntake.
SubmitBlocked(data) == data.gap = "counterparty" \/ data.amount = 0

\* approved holds the fingerprint stored with the approval; it is empty on a
\* legacy approval, which is not compared.
PaymentBlocked(data, confidence, reviewed, approved) ==
  \/ data.amount = 0
  \/ approved # {} /\ data \notin approved
  \/ confidence = "low" /\ ~reviewed
  \/ confidence = "medium" /\ ~reviewed /\ HasCriticalPaymentGap(data)

-----------------------------------------------------------------------------
(* The payment ledger: a function from the keys of a finite set to rows    *)
(* [status, amount, ...], where status "none" stands for no row.           *)

PaidTotal(ledger) ==
  MapThenSumSet(LAMBDA k : ledger[k].amount,
                {k \in DOMAIN ledger : ledger[k].status = "confirmed"})

Remaining(total, ledger) == total - PaidTotal(ledger)

\* Mutant: a fully covered invoice is not paid until it is overpaid.
DerivedInvoiceStatus_Strict(paid, total, pre, current) ==
  IF total > 0 /\ paid > total THEN "paid"
  ELSE IF paid > 0 THEN "partially_paid"
  ELSE IF pre # NoStatus THEN pre ELSE current

\* pre is the status the invoice had before its first payment, or NoStatus.
DerivedInvoiceStatus(paid, total, pre, current) ==
  IF total > 0 /\ paid >= total THEN "paid"
  ELSE IF paid > 0 THEN "partially_paid"
  ELSE IF pre # NoStatus THEN pre ELSE current

\* A full payment is exactly the remainder; a partial one is positive and
\* within it.
ValidPaymentAmount(amount, remaining, mode) ==
  /\ remaining > 0
  /\ CASE mode = "full"    -> amount = remaining
       [] mode = "partial" -> amount > 0 /\ amount <= remaining
=============================================================================
