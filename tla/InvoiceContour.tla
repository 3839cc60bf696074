--------------------------- MODULE InvoiceContour ---------------------------
(***************************************************************************)
(* One invoice, its payment ledger, and the server actions that work on    *)
(* them concurrently (app/(app)/invoices/actions.ts together with          *)
(* lib/invoices/payment-ledger.ts).                                        *)
(*                                                                         *)
(* A server action is a request slot r \in Req running one handler.  A     *)
(* handler reads the invoice row once, decides on that snapshot, and       *)
(* writes at a later await; between the two any other request may run.     *)
(* The write is either a compare-and-set on the status of the snapshot     *)
(* (updateMany with status in its where) or a plain update by id, exactly  *)
(* as in the code.  Payments and reversals write in a Read Committed       *)
(* transaction: what it wrote is invisible to the others until it commits, *)
(* a row it updated stays locked, and a statement reads what is committed  *)
(* at that moment.                                                         *)
(*                                                                         *)
(* The reads of the month close and of the regional assignment happen in   *)
(* the same step as the read of the invoice; that they may change between  *)
(* this step and the write is kept.  A refused request changes nothing, so *)
(* a request only begins when its first guards hold.  The club and company *)
(* scope of the caller, the audit records and the notifications are left   *)
(* out.                                                                    *)
(***************************************************************************)
EXTENDS InvoiceRules

CONSTANTS
  Req,       \* request slots: server actions that may be in flight together
  User,      \* the callers
  RolesOf,   \* the stored roles of each caller
  Author,    \* the caller who created the invoice
  Data,      \* the values of the financially significant fields
  Month,     \* months, as positive integers
  Key,       \* idempotency keys of payment forms; one ledger row per key
  Origin,    \* how the invoice may have come to exist
  Calls      \* the handlers and events that may occur

NoMonth == 0

Handler == {"transition", "pay", "reverse", "update", "review", "resubmit",
            "replace", "cancel"}

ASSUME DataAssumption  == Data \subseteq [amount : Nat, month : Month, gap : Gap]
ASSUME MonthAssumption == Month \subseteq Nat \ {NoMonth}
ASSUME RolesAssumption == RolesOf \in [User -> SUBSET Role] /\ Author \in User
ASSUME OriginAssumption == Origin \subseteq {"submitted", "draft", "legacy", "historical"}
ASSUME CallsAssumption == Calls \subseteq Handler \cup {"crash", "close", "regional"}

VARIABLES
  inv,               \* the committed Invoice row
  ledger,            \* the committed InvoicePayment rows, by idempotency key
  job,               \* what each request slot is doing
  closed,            \* the closed months
  hasActiveRegional, \* whether the club has an active regional director
  signedOff          \* history: the data the last AI-data review saved

row     == <<inv, ledger>>
world   == <<closed, hasActiveRegional>>
history == <<signedOff>>
vars    == <<inv, ledger, job, closed, hasActiveRegional, signedOff>>

-----------------------------------------------------------------------------
(* Types.                                                                  *)

Invoice ==
  [status : InvoiceStatus, data : Data, period : Month, confidence : Confidence,
   reviewed : BOOLEAN, fp : SUBSET Data,
   pre : INVOICE_APPROVED_UNPAID \cup {NoStatus}, paidAt : Month \cup {NoMonth}]

Payment ==
  [status : {"none", "confirmed", "reversed"}, amount : Nat,
   when : Month \cup {NoMonth}]

NoPayment == [status |-> "none", amount |-> 0, when |-> NoMonth]

Idle == [pc |-> "idle", kind |-> "none"]

TransitionJob ==
  [pc : {"write"}, kind : {"transition"}, action : InvoiceAction, snap : Invoice,
   to : InvoiceStatus]

PaymentJob ==
  [pc : {"sum", "lock", "insert", "commit"}, kind : {"pay"}, snap : Invoice,
   key : Key, when : Month, amount : Nat, to : InvoiceStatus,
   at : Month \cup {NoMonth}]

ReversalJob ==
  [pc : {"flip", "commit"}, kind : {"reverse"}, snap : Invoice, key : Key,
   to : InvoiceStatus, at : Month \cup {NoMonth}]

EditJob ==
  [pc : {"write"}, kind : {"update", "review", "resubmit", "replace", "cancel"},
   snap : Invoice, data : Data, period : Month, newFile : BOOLEAN]

Job == {Idle} \cup TransitionJob \cup PaymentJob \cup ReversalJob \cup EditJob

TypeOK ==
  /\ inv \in Invoice
  /\ ledger \in [Key -> Payment]
  /\ job \in [Req -> Job]
  /\ closed \subseteq Month
  /\ hasActiveRegional \in BOOLEAN
  /\ signedOff \subseteq Data

-----------------------------------------------------------------------------
(* The rows a request may find: submitted through the draftless form, left *)
(* by the older draft and owner-approval workflows, or entered as already  *)
(* paid.                                                                   *)

NewInvoice(status, data, period, confidence, paidAt) ==
  [status |-> status, data |-> data, period |-> period, confidence |-> confidence,
   reviewed |-> FALSE, fp |-> {}, pre |-> NoStatus, paidAt |-> paidAt]

Unpaid == [k \in Key |-> NoPayment]

Submitted ==
  \E d \in Data, p \in Month, c \in Confidence :
    /\ ~SubmitBlocked(d)
    /\ inv = NewInvoice("needs_review", d, p, c, NoMonth)
    /\ ledger = Unpaid

Draft ==
  \E d \in Data, p \in Month, c \in Confidence :
    /\ inv = NewInvoice("draft", d, p, c, NoMonth)
    /\ ledger = Unpaid

Legacy ==
  \E d \in Data, p \in Month, c \in Confidence :
    /\ inv = NewInvoice("approved_by_owner", d, p, c, NoMonth)
    /\ ledger = Unpaid

Historical ==
  \E d \in Data : \E p, paidAt \in Month, k \in Key, amount \in 1 .. d.amount :
    /\ inv = IF amount = d.amount
               THEN NewInvoice("paid", d, p, "high", paidAt)
               ELSE NewInvoice("partially_paid", d, p, "high", NoMonth)
    /\ ledger = [Unpaid EXCEPT ![k] =
                   [status |-> "confirmed", amount |-> amount, when |-> paidAt]]

Init ==
  /\ \/ "submitted"  \in Origin /\ Submitted
     \/ "draft"      \in Origin /\ Draft
     \/ "legacy"     \in Origin /\ Legacy
     \/ "historical" \in Origin /\ Historical
  /\ job = [r \in Req |-> Idle]
  /\ closed = {}
  /\ hasActiveRegional \in BOOLEAN
  /\ signedOff = {}

-----------------------------------------------------------------------------
(* Common to all handlers.                                                 *)

Roles(u) == ExpandEffectiveRoles(RolesOf[u])

\* getInvoiceForContext: a plain manager sees only the invoices they created.
CanSee(u) == IsManagerOnly(Roles(u)) => u = Author

MonthOpen(m) == m \notin closed

\* A request begins its handler h with the job j.
Begin(r, h, j) ==
  /\ h \in Calls
  /\ job[r] = Idle
  /\ job' = [job EXCEPT ![r] = j]
  /\ UNCHANGED <<inv, ledger, world, history>>

Running(r, kind, pc) == job[r].kind = kind /\ job[r].pc = pc

Finish(r) == job' = [job EXCEPT ![r] = Idle]

\* Transaction r captures the pre-payment status, and from there on holds the
\* lock of the invoice row.
CapturesPre(snap) == snap.pre = NoStatus /\ snap.status \in INVOICE_APPROVED_UNPAID

HoldsInvoice(r) ==
  /\ job[r].kind = "pay" /\ job[r].pc \in {"insert", "commit"}
  /\ CapturesPre(job[r].snap)

\* No other transaction holds the invoice row.
InvoiceFree(r) == \A q \in Req \ {r} : ~HoldsInvoice(q)

\* Mutant: the idempotency key is not unique in the database.
KeyInFlight_NotUnique(r, k) == FALSE

\* Another transaction has inserted key k and not committed yet.
KeyInFlight(r, k) == \E q \in Req \ {r} : Running(q, "pay", "commit") /\ job[q].key = k

\* Mutant: two reversals may find the same row confirmed.
RowInFlight_NotLocked(r, k) == FALSE

\* Another transaction has reversed row k and not committed yet.
RowInFlight(r, k) == \E q \in Req \ {r} : Running(q, "reverse", "commit") /\ job[q].key = k

-----------------------------------------------------------------------------
(* transitionInvoice.                                                      *)

BeginTransition(r, u, action) ==
  /\ CanSee(u)
  /\ MonthOpen(inv.data.month)
  /\ action = "send_to_review" => ~SubmitBlocked(inv.data)
  /\ \E to \in ApplyInvoiceAction(action, inv.status, Roles(u), hasActiveRegional, u = Author) :
       Begin(r, "transition",
             [pc |-> "write", kind |-> "transition", action |-> action,
              snap |-> inv, to |-> to])

\* Mutant: the approval does not store the fingerprint.
WriteTransition_NoFingerprint(r) ==
  LET j == job[r] IN
  /\ Running(r, "transition", "write")
  /\ InvoiceFree(r)
  /\ inv' = IF inv.status = j.snap.status
              THEN [inv EXCEPT !.status = j.to, !.paidAt = NoMonth]
              ELSE inv
  /\ Finish(r)
  /\ UNCHANGED <<ledger, world, history>>

\* Mutant: the status is written without comparing it first.
WriteTransition_NoCompare(r) ==
  LET j == job[r] IN
  /\ Running(r, "transition", "write")
  /\ InvoiceFree(r)
  /\ inv' = [inv EXCEPT !.status = j.to, !.paidAt = NoMonth,
                        !.fp = IF j.action = "approve" THEN {j.snap.data} ELSE @]
  /\ Finish(r)
  /\ UNCHANGED <<ledger, world, history>>

\* Compare-and-set on the snapshot's status.  An approval stores the
\* fingerprint of the data the approver was shown.
WriteTransition(r) ==
  LET j == job[r] IN
  /\ Running(r, "transition", "write")
  /\ InvoiceFree(r)
  /\ inv' = IF inv.status = j.snap.status
              THEN [inv EXCEPT !.status = j.to, !.paidAt = NoMonth,
                               !.fp = IF j.action = "approve" THEN {j.snap.data} ELSE @]
              ELSE inv
  /\ Finish(r)
  /\ UNCHANGED <<ledger, world, history>>

-----------------------------------------------------------------------------
(* recordInvoicePayment and applyInvoicePaymentInTx.                       *)

BeginPayment(r, u, k, when) ==
  /\ CanRecordInvoicePayment(Roles(u)) /\ CanSee(u)
  /\ inv.status \in PAYABLE
  /\ ~PaymentBlocked(inv.data, inv.confidence, inv.reviewed, inv.fp)
  /\ MonthOpen(when)
  /\ Begin(r, "pay",
           [pc |-> "sum", kind |-> "pay", snap |-> inv, key |-> k, when |-> when,
            amount |-> 0, to |-> inv.status, at |-> NoMonth])

\* loadPaymentAggregate and validatePaymentAmount, before the transaction.
SumPayments(r) ==
  LET j         == job[r]
      remaining == Remaining(j.snap.data.amount, ledger)
      next(a)   == [j EXCEPT !.amount = a,
                             !.pc = IF CapturesPre(j.snap) THEN "lock" ELSE "insert"]
  IN
  /\ Running(r, "pay", "sum")
  /\ IF remaining <= 0
       THEN Finish(r)
       ELSE \E mode \in {"full", "partial"}, a \in 1 .. j.snap.data.amount :
              /\ ValidPaymentAmount(a, remaining, mode)
              /\ job' = [job EXCEPT ![r] = next(a)]
  /\ UNCHANGED <<inv, ledger, world, history>>

\* Mutant: prePaymentStatus is written before the transaction starts.
LockInvoice_OwnTransaction(r) ==
  /\ Running(r, "pay", "lock")
  /\ InvoiceFree(r)
  /\ job' = [job EXCEPT ![r].pc = "insert"]
  /\ inv' = [inv EXCEPT !.pre = job[r].snap.status]
  /\ UNCHANGED <<ledger, world, history>>

\* The first statement of the transaction: prePaymentStatus is written to the
\* row, which stays locked until the transaction ends.
LockInvoice(r) ==
  /\ Running(r, "pay", "lock")
  /\ InvoiceFree(r)
  /\ job' = [job EXCEPT ![r].pc = "insert"]
  /\ UNCHANGED <<inv, ledger, world, history>>

\* Mutant: a replayed key is tried again instead of being accepted as done.
InsertPayment_Retries(r) ==
  LET j == job[r] IN
  /\ Running(r, "pay", "insert")
  /\ ~KeyInFlight(r, j.key)
  /\ ledger[j.key] = NoPayment
  /\ job' = [job EXCEPT ![r] =
       [j EXCEPT !.pc = "commit",
                 !.to = DerivedInvoiceStatus(j.amount, j.snap.data.amount,
                                             j.snap.status, j.snap.status)]]
  /\ UNCHANGED <<inv, ledger, world, history>>

\* The row is inserted, unless its key exists (P2002: a benign replay, the
\* transaction is rolled back), and the ledger is read again.  The insertion
\* waits for an uncommitted row with the same key.
InsertPayment(r) ==
  LET j    == job[r]
      mine == [status |-> "confirmed", amount |-> j.amount, when |-> j.when]
      paid == PaidTotal([ledger EXCEPT ![j.key] = mine])
      pre  == IF CapturesPre(j.snap) THEN j.snap.status ELSE j.snap.pre
  IN
  /\ Running(r, "pay", "insert")
  /\ ~KeyInFlight(r, j.key)
  /\ IF ledger[j.key] # NoPayment
       THEN Finish(r)
       ELSE job' = [job EXCEPT ![r] =
              [j EXCEPT
                 !.pc = "commit",
                 !.to = DerivedInvoiceStatus(paid, j.snap.data.amount, pre, j.snap.status),
                 !.at = IF paid >= j.snap.data.amount /\ j.snap.data.amount > 0
                          THEN j.when ELSE NoMonth]]
  /\ UNCHANGED <<inv, ledger, world, history>>

\* Mutant: the retired binary payment, a status without a row.
CommitPayment_StatusOnly(r) ==
  /\ Running(r, "pay", "commit")
  /\ InvoiceFree(r)
  /\ inv' = [inv EXCEPT !.status = job[r].to, !.paidAt = job[r].at]
  /\ Finish(r)
  /\ UNCHANGED <<ledger, world, history>>

\* The derived status overwrites whatever status the row has by now.
CommitPayment(r) ==
  LET j == job[r] IN
  /\ Running(r, "pay", "commit")
  /\ InvoiceFree(r)
  /\ inv' = [inv EXCEPT !.status = j.to, !.paidAt = j.at,
                        !.pre = IF CapturesPre(j.snap) THEN j.snap.status ELSE @]
  /\ ledger' = [ledger EXCEPT ![j.key] =
                  [status |-> "confirmed", amount |-> j.amount, when |-> j.when]]
  /\ Finish(r)
  /\ UNCHANGED <<world, history>>

-----------------------------------------------------------------------------
(* reverseInvoicePayment and applyInvoicePaymentReversalInTx.              *)

BeginReversal(r, u, k) ==
  /\ CanReverseInvoicePayment(Roles(u)) /\ CanSee(u)
  /\ ledger[k] # NoPayment
  /\ MonthOpen(inv.data.month)
  /\ Begin(r, "reverse",
           [pc |-> "flip", kind |-> "reverse", snap |-> inv, key |-> k,
            to |-> inv.status, at |-> NoMonth])

\* Compare-and-set confirmed -> reversed inside the transaction; a row that is
\* already reversed aborts it.
FlipPayment(r) ==
  LET j    == job[r]
      paid == PaidTotal([ledger EXCEPT ![j.key].status = "reversed"])
  IN
  /\ Running(r, "reverse", "flip")
  /\ ~RowInFlight(r, j.key)
  /\ IF ledger[j.key].status # "confirmed"
       THEN Finish(r)
       ELSE job' = [job EXCEPT ![r] =
              [j EXCEPT
                 !.pc = "commit",
                 !.to = DerivedInvoiceStatus(paid, j.snap.data.amount, j.snap.pre, j.snap.status),
                 !.at = IF paid >= j.snap.data.amount /\ j.snap.data.amount > 0
                          THEN j.snap.paidAt ELSE NoMonth]]
  /\ UNCHANGED <<inv, ledger, world, history>>

CommitReversal(r) ==
  LET j == job[r] IN
  /\ Running(r, "reverse", "commit")
  /\ InvoiceFree(r)
  /\ inv' = [inv EXCEPT !.status = j.to, !.paidAt = j.at]
  /\ ledger' = [ledger EXCEPT ![j.key].status = "reversed"]
  /\ Finish(r)
  /\ UNCHANGED <<world, history>>

-----------------------------------------------------------------------------
(* The editing handlers.                                                   *)

BeginEdit(r, kind, data, period, newFile) ==
  /\ MonthOpen(inv.data.month)
  /\ Begin(r, kind,
           [pc |-> "write", kind |-> kind, snap |-> inv, data |-> data,
            period |-> period, newFile |-> newFile])

\* updateInvoice: the author while the invoice is editable, the accountant once
\* it is paid, and then only what is not financial.
BeginUpdate(r, u, data, period) ==
  /\ CanMutateOperationalRecords(Roles(u)) /\ CanSee(u)
  /\ CanEditInvoice(inv.status, Roles(u))
  /\ inv.status # "paid" => u = Author
  /\ inv.status = "paid" => data = inv.data
  /\ BeginEdit(r, "update", data, period, FALSE)

\* A plain update by id.  A prior review is reset if the snapshot had one.
WriteUpdate(r) ==
  LET j == job[r] IN
  /\ Running(r, "update", "write")
  /\ InvoiceFree(r)
  /\ inv' = [inv EXCEPT !.data = j.data, !.period = j.period,
                        !.reviewed = @ /\ ~(j.data # j.snap.data /\ j.snap.reviewed)]
  /\ Finish(r)
  /\ UNCHANGED <<ledger, world, history>>

BeginReview(r, u, data, period) ==
  /\ CanReviewInvoiceData(Roles(u)) /\ CanSee(u)
  /\ inv.status \in INVOICE_REVIEW_DATA
  /\ BeginEdit(r, "review", data, period, FALSE)

\* reviewInvoiceData: compare-and-set on the status; changing the data of an
\* approved invoice takes the approval back.
WriteReview(r) ==
  LET j       == job[r]
      voided  == j.data # j.snap.data /\ j.snap.status \in INVOICE_APPROVED_UNPAID
      applies == inv.status = j.snap.status
  IN
  /\ Running(r, "review", "write")
  /\ InvoiceFree(r)
  /\ inv' = IF applies
              THEN [inv EXCEPT !.data = j.data, !.period = j.period, !.reviewed = TRUE,
                               !.status = IF voided THEN "needs_review" ELSE @,
                               !.fp = IF voided THEN {} ELSE @]
              ELSE inv
  /\ signedOff' = IF applies THEN {j.data} ELSE signedOff
  /\ Finish(r)
  /\ UNCHANGED <<ledger, world>>

BeginResubmit(r, u, data, period, newFile) ==
  /\ CanMutateOperationalRecords(Roles(u)) /\ u = Author
  /\ inv.status = "needs_correction"
  /\ ~SubmitBlocked(data)
  /\ BeginEdit(r, "resubmit", data, period, newFile)

\* saveAndResubmitInvoice: fields and status in one compare-and-set.
WriteResubmit(r) ==
  LET j              == job[r]
      contentChanged == j.data # j.snap.data \/ j.newFile
  IN
  /\ Running(r, "resubmit", "write")
  /\ InvoiceFree(r)
  /\ inv' = IF inv.status = "needs_correction"
              THEN [inv EXCEPT !.data = j.data, !.period = j.period,
                               !.status = "needs_review",
                               !.reviewed = @ /\ ~(contentChanged /\ j.snap.reviewed)]
              ELSE inv
  /\ Finish(r)
  /\ UNCHANGED <<ledger, world, history>>

BeginReplaceFile(r, u) ==
  /\ CanMutateOperationalRecords(Roles(u)) /\ u = Author
  /\ inv.status \in INVOICE_EDITABLE
  /\ BeginEdit(r, "replace", inv.data, inv.period, TRUE)

\* replaceInvoiceFile: compare-and-set on the status; a new document resets
\* the review unconditionally.
WriteReplaceFile(r) ==
  /\ Running(r, "replace", "write")
  /\ InvoiceFree(r)
  /\ inv' = IF inv.status = job[r].snap.status THEN [inv EXCEPT !.reviewed = FALSE] ELSE inv
  /\ Finish(r)
  /\ UNCHANGED <<ledger, world, history>>

BeginCancel(r, u) ==
  /\ CanCancelInvoice(Roles(u)) /\ CanSee(u)
  /\ inv.status \in INVOICE_CANCELABLE
  /\ BeginEdit(r, "cancel", inv.data, inv.period, FALSE)

\* cancelInvoice: a plain update by id.
WriteCancel(r) ==
  /\ Running(r, "cancel", "write")
  /\ InvoiceFree(r)
  /\ inv' = [inv EXCEPT !.status = "canceled"]
  /\ Finish(r)
  /\ UNCHANGED <<ledger, world, history>>

-----------------------------------------------------------------------------
(* What happens around the handlers.                                       *)

\* A request dies (process restart, lost connection, transaction error): its
\* transaction is rolled back and nothing else is written.
Crash(r) ==
  /\ "crash" \in Calls
  /\ job[r] # Idle
  /\ Finish(r)
  /\ UNCHANGED <<inv, ledger, world, history>>

\* Request r waits for a statement of request q.
WaitsFor(r, q) ==
  /\ r # q
  /\ \/ /\ Running(r, "pay", "insert") /\ Running(q, "pay", "commit")
        /\ job[r].key = job[q].key
     \/ /\ job[r] # Idle /\ job[r].pc \in {"lock", "commit", "write"}
        /\ HoldsInvoice(q)

\* The database breaks a cycle of waiting transactions by aborting one.
DeadlockAbort(r) ==
  /\ \E q \in Req : WaitsFor(r, q) /\ WaitsFor(q, r)
  /\ Finish(r)
  /\ UNCHANGED <<inv, ledger, world, history>>

MonthCloses ==
  /\ "close" \in Calls
  /\ \E m \in Month \ closed : closed' = closed \cup {m}
  /\ UNCHANGED <<inv, ledger, job, hasActiveRegional, history>>

MonthReopens ==
  /\ "close" \in Calls
  /\ \E m \in closed : closed' = closed \ {m}
  /\ UNCHANGED <<inv, ledger, job, hasActiveRegional, history>>

\* A regional director is assigned to the club, or leaves it.
RegionalChanges ==
  /\ "regional" \in Calls
  /\ hasActiveRegional' = ~hasActiveRegional
  /\ UNCHANGED <<inv, ledger, job, closed, history>>

-----------------------------------------------------------------------------
Arrive(r) ==
  \E u \in User :
    \/ \E action \in InvoiceAction : BeginTransition(r, u, action)
    \/ \E k \in Key, when \in Month : BeginPayment(r, u, k, when)
    \/ \E k \in Key : BeginReversal(r, u, k)
    \/ \E data \in Data, period \in Month : BeginUpdate(r, u, data, period)
    \/ \E data \in Data, period \in Month : BeginReview(r, u, data, period)
    \/ \E data \in Data, period \in Month, newFile \in BOOLEAN :
         BeginResubmit(r, u, data, period, newFile)
    \/ BeginReplaceFile(r, u)
    \/ BeginCancel(r, u)

Proceed(r) ==
  \/ WriteTransition(r)
  \/ SumPayments(r) \/ LockInvoice(r) \/ InsertPayment(r) \/ CommitPayment(r)
  \/ FlipPayment(r) \/ CommitReversal(r)
  \/ WriteUpdate(r) \/ WriteReview(r) \/ WriteResubmit(r)
  \/ WriteReplaceFile(r) \/ WriteCancel(r)
  \/ DeadlockAbort(r)

Next ==
  \/ \E r \in Req : Arrive(r) \/ Proceed(r) \/ Crash(r)
  \/ MonthCloses \/ MonthReopens \/ RegionalChanges

Spec == Init /\ [][Next]_vars

\* Every request that has begun is run to its end by the server and the
\* database; nothing obliges a user to make one.
FairSpec == Spec /\ \A r \in Req : WF_vars(Proceed(r))

-----------------------------------------------------------------------------
(* What holds when requests are handled one at a time.                     *)

\* The status mirrors the ledger: an invoice is paid, or partially paid, exactly
\* when its confirmed payments say so, and carries a payment date exactly when
\* it is paid ("Invoice.status is a SYNCED reflection of it").  And through any
\* sequence of partial payments, reversals, returns and edits the payments never
\* exceed the invoice ("Overpayment is refused").
StatusReflectsLedger ==
  LET paid == PaidTotal(ledger) IN
  /\ inv.status = "paid" <=> paid > 0 /\ paid >= inv.data.amount
  /\ inv.status = "partially_paid" <=> paid > 0 /\ paid < inv.data.amount
  /\ inv.paidAt # NoMonth <=> inv.status = "paid"
  /\ paid <= inv.data.amount

\* Money only ever leaves on the data that was approved and, where the
\* recognition was doubtful, signed off: editing, reviewing or resubmitting can
\* never leave a paid invoice whose approval was for other data ("a stale
\* approval can never authorize a payment of changed data").
PaidDataWasApproved ==
  inv.status \in PAYMENT_LOCKED =>
    /\ inv.data \in inv.fp
    /\ \/ inv.confidence = "low"
       \/ inv.confidence = "medium" /\ HasCriticalPaymentGap(inv.data)
       => signedOff = {inv.data}

-----------------------------------------------------------------------------
(* What holds whatever the requests in flight do to each other.            *)

HasRow == \E k \in Key : ledger[k] # NoPayment

\* No interleaving makes an invoice paid, or partially paid, without a payment
\* row ("status can never reach paid without a payment row").
PaidHasRow == inv.status \in PAYMENT_LOCKED => HasRow

\* A captured pre-payment status is evidence of a payment: it is written in the
\* transaction of the payment, and a transaction that dies takes it along.
PreNamesAPayment == inv.pre # NoStatus => HasRow

\* Transactions in flight claim different ledger rows, and a claimed row stays
\* as it was found until the commit: a payment's key unused, a reversal's row
\* confirmed.  Nothing but a payment or a reversal carries a paid status.
ClaimsAreExclusive ==
  \A r \in Req :
    /\ Running(r, "pay", "commit") =>
         ledger[job[r].key] = NoPayment /\ ~KeyInFlight(r, job[r].key)
    /\ Running(r, "reverse", "commit") =>
         ledger[job[r].key].status = "confirmed" /\ ~RowInFlight(r, job[r].key)
    /\ job[r].kind = "reverse"    => ledger[job[r].key] # NoPayment
    /\ job[r].kind = "transition" => job[r].to \notin PAYMENT_LOCKED

\* No workflow action, however stale what it read, brings a rejected or canceled
\* invoice back: only the ledger moves it, when a payment or a reversal commits.
OnlyTheLedgerRevives ==
  [][inv.status \in {"rejected", "canceled"} /\ inv'.status \notin {"rejected", "canceled"}
       => ledger' # ledger]_vars

\* The ledger of one invoice promises what AppendOnlyLedger says.
Ledger == INSTANCE AppendOnlyLedger WITH Entry <- Payment, None <- NoPayment
LedgerIsAppendOnly == Ledger!Spec

\* No request waits for ever: row locks and unique keys are released, and a
\* cycle of waiting transactions is broken.
RequestsEnd == \A r \in Req : job[r] # Idle ~> job[r] = Idle
=============================================================================
