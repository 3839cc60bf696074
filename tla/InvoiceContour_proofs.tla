----------------------- MODULE InvoiceContour_proofs -----------------------
(***************************************************************************)
(* What holds of InvoiceContour for every number of requests, users, keys  *)
(* and data values: it is well typed, transactions in flight claim         *)
(* different ledger rows, a paid status is evidence of a payment row, the  *)
(* ledger implements AppendOnlyLedger, and only the ledger revives a dead  *)
(* invoice; there PaidTotal stays unexpanded.  And what holds when one     *)
(* request is handled at a time: the status mirrors the sum of the ledger, *)
(* and only approved data are paid.                                        *)
(***************************************************************************)
EXTENDS InvoiceContour, SumLemmas, TLAPS

-----------------------------------------------------------------------------
(* Type correctness.                                                       *)

\* A job is known by its kind: each handler leaves a record of its own set.
LEMMA JobKinds ==
  ASSUME NEW j \in Job
  PROVE  /\ j.kind = "transition" => j \in TransitionJob
         /\ j.kind = "pay" => j \in PaymentJob
         /\ j.kind = "reverse" => j \in ReversalJob
         /\ j.kind \in {"update", "review", "resubmit", "replace", "cancel"} => j \in EditJob
BY DEF Job, Idle, TransitionJob, PaymentJob, ReversalJob, EditJob

\* A free slot is a job.
LEMMA IdleTyped == Idle \in Job
BY DEF Job

\* A derived status is one of the ten statuses, whatever the sums are.
LEMMA DerivedTyped ==
  ASSUME NEW paid, NEW total, NEW pre \in INVOICE_APPROVED_UNPAID \cup {NoStatus},
         NEW current \in InvoiceStatus
  PROVE  DerivedInvoiceStatus(paid, total, pre, current) \in InvoiceStatus
BY DEF DerivedInvoiceStatus, InvoiceStatus, INVOICE_APPROVED_UNPAID, NoStatus

\* A slot that is freed leaves the jobs well typed.
LEMMA FinishTyped ==
  ASSUME TypeOK, NEW r \in Req, Finish(r)
  PROVE  job' \in [Req -> Job]
BY IdleTyped DEF TypeOK, Finish

\* A slot that takes a well typed job leaves the state well typed.
LEMMA BeginTyped ==
  ASSUME TypeOK, NEW r \in Req, NEW h, NEW j \in Job, Begin(r, h, j)
  PROVE  TypeOK'
BY DEF TypeOK, Begin, world, history

\* A transition starts with a target the decision table allows.
LEMMA BeginTransitionTyped ==
  ASSUME TypeOK, NEW r \in Req, NEW u \in User, NEW action \in InvoiceAction,
         BeginTransition(r, u, action)
  PROVE  TypeOK'
<1>1. PICK to \in ApplyInvoiceAction(action, inv.status, Roles(u), hasActiveRegional, u = Author) :
        Begin(r, "transition",
              [pc |-> "write", kind |-> "transition", action |-> action,
               snap |-> inv, to |-> to])
  BY DEF BeginTransition
<1>2. to \in InvoiceStatus
  BY DEF ApplyInvoiceAction
<1>3. [pc |-> "write", kind |-> "transition", action |-> action,
       snap |-> inv, to |-> to] \in Job
  BY <1>2 DEF Job, TransitionJob, TypeOK
<1>4. QED
  BY <1>1, <1>3, BeginTyped

\* A transition writes the snapshot's data and its target, or nothing.
LEMMA WriteTransitionTyped ==
  ASSUME TypeOK, NEW r \in Req, WriteTransition(r)
  PROVE  TypeOK'
<1>1. job[r] \in TransitionJob
  BY JobKinds DEF TypeOK, WriteTransition, Running
<1>2. inv' \in Invoice
  BY <1>1 DEF TypeOK, WriteTransition, TransitionJob, Invoice
<1>3. QED
  BY <1>2, FinishTyped DEF TypeOK, WriteTransition, world, history

\* An edit writes the data and the period it was given.
LEMMA WriteUpdateTyped ==
  ASSUME TypeOK, NEW r \in Req, WriteUpdate(r)
  PROVE  TypeOK'
<1>1. job[r] \in EditJob
  BY JobKinds DEF TypeOK, WriteUpdate, Running
<1>2. inv' \in Invoice
  BY <1>1 DEF TypeOK, WriteUpdate, EditJob, Invoice
<1>3. QED
  BY <1>2, FinishTyped DEF TypeOK, WriteUpdate, world, history

\* A payment computes a derived status and its date before it commits.
LEMMA InsertPaymentTyped ==
  ASSUME TypeOK, NEW r \in Req, InsertPayment(r)
  PROVE  TypeOK'
<1> DEFINE j    == job[r]
           mine == [status |-> "confirmed", amount |-> j.amount, when |-> j.when]
           paid == PaidTotal([ledger EXCEPT ![j.key] = mine])
           pre  == IF CapturesPre(j.snap) THEN j.snap.status ELSE j.snap.pre
           to   == DerivedInvoiceStatus(paid, j.snap.data.amount, pre, j.snap.status)
           at   == IF paid >= j.snap.data.amount /\ j.snap.data.amount > 0 THEN j.when ELSE NoMonth
<1>1. j \in PaymentJob
  BY JobKinds DEF TypeOK, InsertPayment, Running
<1>2. to \in InvoiceStatus
  <2>1. pre \in INVOICE_APPROVED_UNPAID \cup {NoStatus} /\ j.snap.status \in InvoiceStatus
    BY <1>1 DEF PaymentJob, Invoice, CapturesPre
  <2>2. QED BY <2>1, DerivedTyped
<1>3. at \in Month \cup {NoMonth}
  BY <1>1 DEF PaymentJob
<1>4. [j EXCEPT !.pc = "commit", !.to = to, !.at = at] \in Job
  <2> HIDE DEF to, at
  <2>1. QED BY <1>1, <1>2, <1>3 DEF Job, PaymentJob
<1>5. job' \in [Req -> Job]
  <2>1. CASE ledger[j.key] # NoPayment
    BY <2>1, FinishTyped DEF InsertPayment
  <2>2. CASE ledger[j.key] = NoPayment
    BY <2>2, <1>4 DEF InsertPayment, TypeOK
  <2>3. QED BY <2>1, <2>2
<1>6. QED
  BY <1>5 DEF TypeOK, InsertPayment, world, history

\* Every way an invoice comes to exist is well typed.
LEMMA InitTyped == Init => TypeOK
<1> SUFFICES ASSUME Init PROVE TypeOK
  OBVIOUS
<1>1. Unpaid \in [Key -> Payment]
  BY DEF Unpaid, NoPayment, Payment
<1>2. ASSUME NEW status \in InvoiceStatus, NEW d \in Data, NEW p \in Month,
             NEW c \in Confidence, NEW at \in Month \cup {NoMonth}
      PROVE  NewInvoice(status, d, p, c, at) \in Invoice
  BY <1>2 DEF NewInvoice, Invoice
<1>3. inv \in Invoice /\ ledger \in [Key -> Payment]
  <2>1. CASE Submitted \/ Draft \/ Legacy
    BY <1>1, <1>2, <2>1 DEF Submitted, Draft, Legacy, InvoiceStatus
  <2>2. CASE Historical
    <3>1. PICK d \in Data : \E p, paidAt \in Month, k \in Key, amount \in 1 .. d.amount :
            /\ inv = IF amount = d.amount
                       THEN NewInvoice("paid", d, p, "high", paidAt)
                       ELSE NewInvoice("partially_paid", d, p, "high", NoMonth)
            /\ ledger = [Unpaid EXCEPT ![k] =
                           [status |-> "confirmed", amount |-> amount, when |-> paidAt]]
      BY <2>2 DEF Historical
    <3>2. d.amount \in Nat
      BY DataAssumption
    <3>3. inv \in Invoice
      BY <3>1, <1>2 DEF InvoiceStatus, Confidence
    <3>4. ledger \in [Key -> Payment]
      BY <3>1, <3>2, <1>1 DEF Payment
    <3>5. QED BY <3>3, <3>4
  <2>3. QED
    BY <2>1, <2>2 DEF Init
<1>4. QED
  BY <1>3, IdleTyped DEF Init, TypeOK, NoStatus

\* A payment starts from the row it read.
LEMMA BeginPaymentTyped ==
  ASSUME TypeOK, NEW r \in Req, NEW u \in User, NEW k \in Key, NEW when \in Month,
         BeginPayment(r, u, k, when)
  PROVE  TypeOK'
<1>1. [pc |-> "sum", kind |-> "pay", snap |-> inv, key |-> k, when |-> when,
       amount |-> 0, to |-> inv.status, at |-> NoMonth] \in Job
  BY DEF TypeOK, Job, PaymentJob, Invoice
<1>2. QED
  BY <1>1, BeginTyped DEF BeginPayment

\* A reversal starts from the row it read.
LEMMA BeginReversalTyped ==
  ASSUME TypeOK, NEW r \in Req, NEW u \in User, NEW k \in Key, BeginReversal(r, u, k)
  PROVE  TypeOK'
<1>1. [pc |-> "flip", kind |-> "reverse", snap |-> inv, key |-> k,
       to |-> inv.status, at |-> NoMonth] \in Job
  BY DEF TypeOK, Job, ReversalJob, Invoice
<1>2. QED
  BY <1>1, BeginTyped DEF BeginReversal

\* The five editing handlers start from the row they read.
LEMMA BeginEditTyped ==
  ASSUME TypeOK, NEW r \in Req, NEW data \in Data, NEW period \in Month,
         NEW newFile \in BOOLEAN,
         NEW kind \in {"update", "review", "resubmit", "replace", "cancel"},
         BeginEdit(r, kind, data, period, newFile)
  PROVE  TypeOK'
<1>1. [pc |-> "write", kind |-> kind, snap |-> inv, data |-> data,
       period |-> period, newFile |-> newFile] \in Job
  BY DEF TypeOK, Job, EditJob, Invoice
<1>2. QED
  BY <1>1, BeginTyped DEF BeginEdit

\* No request starts with an ill-typed job.
LEMMA ArriveTyped ==
  ASSUME TypeOK, NEW r \in Req, Arrive(r)
  PROVE  TypeOK'
<1>1. PICK u \in User :
        \/ \E action \in InvoiceAction : BeginTransition(r, u, action)
        \/ \E k \in Key, when \in Month : BeginPayment(r, u, k, when)
        \/ \E k \in Key : BeginReversal(r, u, k)
        \/ \E data \in Data, period \in Month : BeginUpdate(r, u, data, period)
        \/ \E data \in Data, period \in Month : BeginReview(r, u, data, period)
        \/ \E data \in Data, period \in Month, newFile \in BOOLEAN :
             BeginResubmit(r, u, data, period, newFile)
        \/ BeginReplaceFile(r, u)
        \/ BeginCancel(r, u)
  BY DEF Arrive
<1>2. inv.data \in Data /\ inv.period \in Month
  BY DEF TypeOK, Invoice
<1>3. CASE \E action \in InvoiceAction : BeginTransition(r, u, action)
  BY <1>3, BeginTransitionTyped
<1>4. CASE \E k \in Key, when \in Month : BeginPayment(r, u, k, when)
  BY <1>4, BeginPaymentTyped
<1>5. CASE \E k \in Key : BeginReversal(r, u, k)
  BY <1>5, BeginReversalTyped
<1>6. CASE \E data \in Data, period \in Month : BeginUpdate(r, u, data, period)
  BY <1>6, BeginEditTyped DEF BeginUpdate
<1>7. CASE \E data \in Data, period \in Month : BeginReview(r, u, data, period)
  BY <1>7, BeginEditTyped DEF BeginReview
<1>8. CASE \E data \in Data, period \in Month, newFile \in BOOLEAN :
             BeginResubmit(r, u, data, period, newFile)
  BY <1>8, BeginEditTyped DEF BeginResubmit
<1>9. CASE BeginReplaceFile(r, u)
  BY <1>2, <1>9, BeginEditTyped DEF BeginReplaceFile
<1>10. CASE BeginCancel(r, u)
  BY <1>2, <1>10, BeginEditTyped DEF BeginCancel
<1>11. QED
  BY <1>1, <1>3, <1>4, <1>5, <1>6, <1>7, <1>8, <1>9, <1>10

\* The amount chosen for a payment is a natural number.
LEMMA SumPaymentsTyped ==
  ASSUME TypeOK, NEW r \in Req, SumPayments(r)
  PROVE  TypeOK'
<1>1. job[r] \in PaymentJob
  BY JobKinds DEF TypeOK, SumPayments, Running
<1>2. job[r].snap.data.amount \in Nat
  BY <1>1, DataAssumption DEF PaymentJob, Invoice
<1>3. ASSUME NEW a \in 1 .. job[r].snap.data.amount, NEW pc \in {"lock", "insert"}
      PROVE  [job[r] EXCEPT !.amount = a, !.pc = pc] \in Job
  <2>1. a \in Nat
    BY <1>2
  <2>2. QED
    BY <1>1, <2>1, <1>3 DEF Job, PaymentJob
<1>4. job' \in [Req -> Job]
  <2>1. CASE Finish(r)
    BY <2>1, FinishTyped
  <2>2. CASE \E mode \in {"full", "partial"}, a \in 1 .. job[r].snap.data.amount :
               job' = [job EXCEPT ![r] = [job[r] EXCEPT !.amount = a,
                         !.pc = IF CapturesPre(job[r].snap) THEN "lock" ELSE "insert"]]
    BY <2>2, <1>3 DEF TypeOK
  <2>3. QED
    BY <2>1, <2>2 DEF SumPayments
<1>5. QED
  BY <1>4 DEF TypeOK, SumPayments, world, history

\* Locking the invoice row only moves the job on.
LEMMA LockInvoiceTyped ==
  ASSUME TypeOK, NEW r \in Req, LockInvoice(r)
  PROVE  TypeOK'
<1>1. job[r] \in PaymentJob
  BY JobKinds DEF TypeOK, LockInvoice, Running
<1>2. [job[r] EXCEPT !.pc = "insert"] \in Job
  BY <1>1 DEF Job, PaymentJob
<1>3. QED
  BY <1>2 DEF TypeOK, LockInvoice, world, history

\* A committed payment adds a well typed row and a well typed status.
LEMMA CommitPaymentTyped ==
  ASSUME TypeOK, NEW r \in Req, CommitPayment(r)
  PROVE  TypeOK'
<1>1. job[r] \in PaymentJob
  BY JobKinds DEF TypeOK, CommitPayment, Running
<1>2. inv' \in Invoice
  BY <1>1 DEF TypeOK, CommitPayment, PaymentJob, Invoice, CapturesPre
<1>3. ledger' \in [Key -> Payment]
  BY <1>1 DEF TypeOK, CommitPayment, PaymentJob, Payment
<1>4. QED
  BY <1>2, <1>3, FinishTyped DEF TypeOK, CommitPayment, world, history

\* A reversal computes a derived status before it commits.
LEMMA FlipPaymentTyped ==
  ASSUME TypeOK, NEW r \in Req, FlipPayment(r)
  PROVE  TypeOK'
<1> DEFINE j    == job[r]
           paid == PaidTotal([ledger EXCEPT ![j.key].status = "reversed"])
           to   == DerivedInvoiceStatus(paid, j.snap.data.amount, j.snap.pre, j.snap.status)
           at   == IF paid >= j.snap.data.amount /\ j.snap.data.amount > 0
                     THEN j.snap.paidAt ELSE NoMonth
<1>1. j \in ReversalJob
  BY JobKinds DEF TypeOK, FlipPayment, Running
<1>2. to \in InvoiceStatus
  BY <1>1, DerivedTyped DEF ReversalJob, Invoice
<1>3. at \in Month \cup {NoMonth}
  BY <1>1 DEF ReversalJob, Invoice
<1>4. [j EXCEPT !.pc = "commit", !.to = to, !.at = at] \in Job
  <2> HIDE DEF to, at
  <2>1. QED BY <1>1, <1>2, <1>3 DEF Job, ReversalJob
<1>5. job' \in [Req -> Job]
  <2>1. CASE ledger[j.key].status # "confirmed"
    BY <2>1, FinishTyped DEF FlipPayment
  <2>2. CASE ledger[j.key].status = "confirmed"
    BY <2>2, <1>4 DEF FlipPayment, TypeOK
  <2>3. QED BY <2>1, <2>2
<1>6. QED
  BY <1>5 DEF TypeOK, FlipPayment, world, history

\* A committed reversal changes one row and the status.
LEMMA CommitReversalTyped ==
  ASSUME TypeOK, NEW r \in Req, CommitReversal(r)
  PROVE  TypeOK'
<1>1. job[r] \in ReversalJob
  BY JobKinds DEF TypeOK, CommitReversal, Running
<1>2. inv' \in Invoice
  BY <1>1 DEF TypeOK, CommitReversal, ReversalJob, Invoice
<1>3. ledger' \in [Key -> Payment]
  BY <1>1 DEF TypeOK, CommitReversal, ReversalJob, Payment
<1>4. QED
  BY <1>2, <1>3, FinishTyped DEF TypeOK, CommitReversal, world, history

\* A review writes the data it was given and its stamp.
LEMMA WriteReviewTyped ==
  ASSUME TypeOK, NEW r \in Req, WriteReview(r)
  PROVE  TypeOK'
<1>1. job[r] \in EditJob
  BY JobKinds DEF TypeOK, WriteReview, Running
<1>2. inv' \in Invoice
  BY <1>1 DEF TypeOK, WriteReview, EditJob, Invoice, InvoiceStatus
<1>3. signedOff' \subseteq Data
  BY <1>1 DEF TypeOK, WriteReview, EditJob
<1>4. QED
  BY <1>2, <1>3, FinishTyped DEF TypeOK, WriteReview, world

\* A resubmission writes the data it was given.
LEMMA WriteResubmitTyped ==
  ASSUME TypeOK, NEW r \in Req, WriteResubmit(r)
  PROVE  TypeOK'
<1>1. job[r] \in EditJob
  BY JobKinds DEF TypeOK, WriteResubmit, Running
<1>2. inv' \in Invoice
  BY <1>1 DEF TypeOK, WriteResubmit, EditJob, Invoice, InvoiceStatus
<1>3. QED
  BY <1>2, FinishTyped DEF TypeOK, WriteResubmit, world, history

\* A replaced file resets the review stamp.
LEMMA WriteReplaceFileTyped ==
  ASSUME TypeOK, NEW r \in Req, WriteReplaceFile(r)
  PROVE  TypeOK'
<1>1. inv' \in Invoice
  BY DEF TypeOK, WriteReplaceFile, Invoice
<1>2. QED
  BY <1>1, FinishTyped DEF TypeOK, WriteReplaceFile, world, history

\* A cancellation writes the status only.
LEMMA WriteCancelTyped ==
  ASSUME TypeOK, NEW r \in Req, WriteCancel(r)
  PROVE  TypeOK'
<1>1. inv' \in Invoice
  BY DEF TypeOK, WriteCancel, Invoice, InvoiceStatus
<1>2. QED
  BY <1>1, FinishTyped DEF TypeOK, WriteCancel, world, history

\* Every step, and every stuttering step, keeps the state well typed.
LEMMA NextTyped == TypeOK /\ [Next]_vars => TypeOK'
<1> SUFFICES ASSUME TypeOK, [Next]_vars PROVE TypeOK'
  OBVIOUS
<1>1. ASSUME NEW r \in Req, Arrive(r) PROVE TypeOK'
  BY <1>1, ArriveTyped
<1>2. ASSUME NEW r \in Req, Proceed(r) PROVE TypeOK'
  <2>1. CASE DeadlockAbort(r)
    BY <2>1, FinishTyped DEF TypeOK, DeadlockAbort, world, history
  <2>2. QED
    BY <1>2, <2>1, WriteTransitionTyped, SumPaymentsTyped, LockInvoiceTyped,
       InsertPaymentTyped, CommitPaymentTyped, FlipPaymentTyped, CommitReversalTyped,
       WriteUpdateTyped, WriteReviewTyped, WriteResubmitTyped, WriteReplaceFileTyped,
       WriteCancelTyped DEF Proceed
<1>3. ASSUME NEW r \in Req, Crash(r) PROVE TypeOK'
  BY <1>3, FinishTyped DEF TypeOK, Crash, world, history
<1>4. CASE MonthCloses \/ MonthReopens \/ RegionalChanges
  BY <1>4 DEF TypeOK, MonthCloses, MonthReopens, RegionalChanges, history
<1>5. CASE UNCHANGED vars
  BY <1>5 DEF TypeOK, vars
<1>6. QED
  BY <1>1, <1>2, <1>3, <1>4, <1>5 DEF Next

\* Every reachable state is well typed: in particular the status stays inside the
\* ten statuses of the enumeration, whatever handlers and crashes interleave.
THEOREM TypeCorrect == Spec => []TypeOK
<1>1. QED
  BY InitTyped, NextTyped, PTL DEF Spec

-----------------------------------------------------------------------------
(* The claims of the transactions in flight.                               *)

\* A request that moves anywhere but to its commit, and writes no row.
LEMMA OtherStepKeepsClaims ==
  ASSUME TypeOK, ClaimsAreExclusive, NEW r \in Req, NEW j,
         job' = [job EXCEPT ![r] = j], ledger' = ledger,
         j.pc # "commit",
         j.kind = "reverse" => ledger[j.key] # NoPayment,
         j.kind = "transition" => j.to \notin PAYMENT_LOCKED
  PROVE  ClaimsAreExclusive'
BY DEF TypeOK, ClaimsAreExclusive, Running, KeyInFlight, RowInFlight

\* A request that ends without writing the ledger gives its claim up.
LEMMA FinishKeepsClaims ==
  ASSUME TypeOK, ClaimsAreExclusive, NEW r \in Req, Finish(r), ledger' = ledger
  PROVE  ClaimsAreExclusive'
<1>1. Idle.pc # "commit" /\ Idle.kind = "none"
  BY DEF Idle
<1>2. QED
  BY <1>1, OtherStepKeepsClaims DEF Finish

\* A request that begins claims nothing yet.
LEMMA BeginKeepsClaims ==
  ASSUME TypeOK, ClaimsAreExclusive, NEW r \in Req, NEW h, NEW j, Begin(r, h, j),
         j.pc # "commit",
         j.kind = "reverse" => ledger[j.key] # NoPayment,
         j.kind = "transition" => j.to \notin PAYMENT_LOCKED
  PROVE  ClaimsAreExclusive'
BY OtherStepKeepsClaims DEF Begin

\* No handler claims a row when it begins; a reversal names an existing one.
LEMMA ArriveKeepsClaims ==
  ASSUME TypeOK, ClaimsAreExclusive, NEW r \in Req, Arrive(r)
  PROVE  ClaimsAreExclusive'
<1>1. ASSUME NEW u \in User, NEW action \in InvoiceAction, BeginTransition(r, u, action)
      PROVE  ClaimsAreExclusive'
  <2>1. PICK to \in ApplyInvoiceAction(action, inv.status, Roles(u), hasActiveRegional, u = Author) :
          Begin(r, "transition",
                [pc |-> "write", kind |-> "transition", action |-> action,
                 snap |-> inv, to |-> to])
    BY <1>1 DEF BeginTransition
  <2>2. to \notin PAYMENT_LOCKED
    BY DEF ApplyInvoiceAction, PAYMENT_LOCKED
  <2>3. QED
    BY <2>1, <2>2, BeginKeepsClaims
<1>2. ASSUME NEW u \in User, NEW k \in Key, NEW when \in Month, BeginPayment(r, u, k, when)
      PROVE  ClaimsAreExclusive'
  BY <1>2, BeginKeepsClaims DEF BeginPayment
<1>3. ASSUME NEW u \in User, NEW k \in Key, BeginReversal(r, u, k)
      PROVE  ClaimsAreExclusive'
  BY <1>3, BeginKeepsClaims DEF BeginReversal
<1>4. ASSUME NEW kind \in {"update", "review", "resubmit", "replace", "cancel"},
             NEW data, NEW period, NEW newFile, BeginEdit(r, kind, data, period, newFile)
      PROVE  ClaimsAreExclusive'
  BY <1>4, BeginKeepsClaims DEF BeginEdit
<1>5. QED
  BY <1>1, <1>2, <1>3, <1>4
  DEF Arrive, BeginUpdate, BeginReview, BeginResubmit, BeginReplaceFile, BeginCancel

\* Choosing the amount claims nothing.
LEMMA SumPaymentsKeepsClaims ==
  ASSUME TypeOK, ClaimsAreExclusive, NEW r \in Req, SumPayments(r)
  PROVE  ClaimsAreExclusive'
<1>1. job[r] \in PaymentJob
  BY JobKinds DEF TypeOK, SumPayments, Running
<1>2. CASE Finish(r)
  BY <1>2, FinishKeepsClaims DEF SumPayments
<1>3. CASE \E mode \in {"full", "partial"}, a \in 1 .. job[r].snap.data.amount :
             job' = [job EXCEPT ![r] = [job[r] EXCEPT !.amount = a,
                       !.pc = IF CapturesPre(job[r].snap) THEN "lock" ELSE "insert"]]
  <2>1. PICK a \in 1 .. job[r].snap.data.amount :
             job' = [job EXCEPT ![r] = [job[r] EXCEPT !.amount = a,
                       !.pc = IF CapturesPre(job[r].snap) THEN "lock" ELSE "insert"]]
    BY <1>3
  <2> DEFINE j == [job[r] EXCEPT !.amount = a,
                     !.pc = IF CapturesPre(job[r].snap) THEN "lock" ELSE "insert"]
  <2>2. j.pc # "commit" /\ j.kind = "pay"
    BY <1>1 DEF PaymentJob
  <2>3. QED
    BY <2>1, <2>2, OtherStepKeepsClaims DEF SumPayments
<1>4. QED
  BY <1>2, <1>3 DEF SumPayments

\* Locking the invoice row claims no payment row.
LEMMA LockInvoiceKeepsClaims ==
  ASSUME TypeOK, ClaimsAreExclusive, NEW r \in Req, LockInvoice(r)
  PROVE  ClaimsAreExclusive'
<1>1. job[r] \in PaymentJob
  BY JobKinds DEF TypeOK, LockInvoice, Running
<1> DEFINE j == [job[r] EXCEPT !.pc = "insert"]
<1>2. j.pc # "commit" /\ j.kind = "pay"
  BY <1>1 DEF PaymentJob
<1>3. job' = [job EXCEPT ![r] = j]
  BY DEF LockInvoice
<1>4. QED
  BY <1>2, <1>3, OtherStepKeepsClaims DEF LockInvoice

\* The insertion claims a key nobody has used or claimed.
LEMMA InsertPaymentKeepsClaims ==
  ASSUME TypeOK, ClaimsAreExclusive, NEW r \in Req, InsertPayment(r)
  PROVE  ClaimsAreExclusive'
<1>1. job[r] \in PaymentJob
  BY JobKinds DEF TypeOK, InsertPayment, Running
<1>2. CASE ledger[job[r].key] # NoPayment
  BY <1>2, FinishKeepsClaims DEF InsertPayment
<1>3. CASE ledger[job[r].key] = NoPayment
  <2>1. PICK to, at : job' = [job EXCEPT ![r] = [job[r] EXCEPT !.pc = "commit", !.to = to, !.at = at]]
    BY <1>3 DEF InsertPayment
  <2> DEFINE j == [job[r] EXCEPT !.pc = "commit", !.to = to, !.at = at]
  <2>2. j.pc = "commit" /\ j.kind = "pay" /\ j.key = job[r].key
    BY <1>1 DEF PaymentJob
  <2>3. ledger' = ledger /\ ~KeyInFlight(r, job[r].key)
    BY DEF InsertPayment
  <2>4. job' = [job EXCEPT ![r] = j]
    BY <2>1
  <2> HIDE DEF j
  <2>5. QED
    BY <1>3, <2>2, <2>3, <2>4
    DEF TypeOK, ClaimsAreExclusive, Running, KeyInFlight, RowInFlight
<1>4. QED
  BY <1>2, <1>3

\* The flip claims a confirmed row nobody has claimed.
LEMMA FlipPaymentKeepsClaims ==
  ASSUME TypeOK, ClaimsAreExclusive, NEW r \in Req, FlipPayment(r)
  PROVE  ClaimsAreExclusive'
<1>1. job[r] \in ReversalJob
  BY JobKinds DEF TypeOK, FlipPayment, Running
<1>2. CASE ledger[job[r].key].status # "confirmed"
  BY <1>2, FinishKeepsClaims DEF FlipPayment
<1>3. CASE ledger[job[r].key].status = "confirmed"
  <2>1. PICK to, at : job' = [job EXCEPT ![r] = [job[r] EXCEPT !.pc = "commit", !.to = to, !.at = at]]
    BY <1>3 DEF FlipPayment
  <2> DEFINE j == [job[r] EXCEPT !.pc = "commit", !.to = to, !.at = at]
  <2>2. j.pc = "commit" /\ j.kind = "reverse" /\ j.key = job[r].key
    BY <1>1 DEF ReversalJob
  <2>3. ledger' = ledger /\ ~RowInFlight(r, job[r].key)
    BY DEF FlipPayment
  <2>4. job' = [job EXCEPT ![r] = j]
    BY <2>1
  <2>5. ledger[job[r].key] # NoPayment
    BY <1>3 DEF NoPayment
  <2> HIDE DEF j
  <2>6. QED
    BY <1>3, <2>2, <2>3, <2>4, <2>5
    DEF TypeOK, ClaimsAreExclusive, Running, KeyInFlight, RowInFlight
<1>4. QED
  BY <1>2, <1>3

\* A payment commits to the key it claimed, which no other claim names.
LEMMA CommitPaymentKeepsClaims ==
  ASSUME TypeOK, ClaimsAreExclusive, NEW r \in Req, CommitPayment(r)
  PROVE  ClaimsAreExclusive'
<1>1. job[r] \in PaymentJob /\ job[r].kind = "pay" /\ job[r].pc = "commit"
  BY JobKinds DEF TypeOK, CommitPayment, Running
<1> DEFINE k   == job[r].key
           new == [status |-> "confirmed", amount |-> job[r].amount, when |-> job[r].when]
<1>2. k \in Key /\ ledger \in [Key -> Payment] /\ job \in [Req -> Job]
  BY <1>1 DEF TypeOK, PaymentJob
<1>3. ledger' = [ledger EXCEPT ![k] = new] /\ job' = [job EXCEPT ![r] = Idle]
  BY DEF CommitPayment, Finish
<1>4. new # NoPayment /\ NoPayment.status # "confirmed"
  BY DEF NoPayment
<1>5. ledger[k] = NoPayment /\ ~KeyInFlight(r, k)
  BY <1>1 DEF ClaimsAreExclusive, Running
<1>6. Idle.kind = "none"
  BY DEF Idle
<1> HIDE DEF k, new
<1>7. ASSUME NEW q \in Req \ {r}
      PROVE  /\ job'[q] = job[q]
             /\ ledger[job[q].key] # NoPayment => ledger'[job[q].key] # NoPayment
             /\ ledger[job[q].key].status = "confirmed"
                  => ledger'[job[q].key].status = "confirmed"
             /\ Running(q, "pay", "commit") => ledger'[job[q].key] = ledger[job[q].key]
  BY <1>2, <1>3, <1>4, <1>5 DEF KeyInFlight, NoPayment, Running
<1>8. QED
  BY <1>2, <1>3, <1>6, <1>7 DEF ClaimsAreExclusive, Running, KeyInFlight, RowInFlight

\* A reversal commits to the row it claimed, which no other claim names.
LEMMA CommitReversalKeepsClaims ==
  ASSUME TypeOK, ClaimsAreExclusive, NEW r \in Req, CommitReversal(r)
  PROVE  ClaimsAreExclusive'
<1>1. job[r] \in ReversalJob /\ job[r].kind = "reverse" /\ job[r].pc = "commit"
  BY JobKinds DEF TypeOK, CommitReversal, Running
<1> DEFINE k   == job[r].key
           new == [ledger[k] EXCEPT !.status = "reversed"]
<1>2. k \in Key /\ ledger \in [Key -> Payment] /\ job \in [Req -> Job]
  BY <1>1 DEF TypeOK, ReversalJob
<1>3. ledger' = [ledger EXCEPT ![k] = new] /\ job' = [job EXCEPT ![r] = Idle]
  BY DEF CommitReversal, Finish
<1>4. new # NoPayment
  BY <1>2 DEF NoPayment, Payment
<1>5. ledger[k].status = "confirmed" /\ ledger[k] # NoPayment /\ ~RowInFlight(r, k)
  BY <1>1 DEF ClaimsAreExclusive, Running
<1>6. Idle.kind = "none"
  BY DEF Idle
<1> HIDE DEF k, new
<1>7. ASSUME NEW q \in Req \ {r}
      PROVE  /\ job'[q] = job[q]
             /\ ledger[job[q].key] # NoPayment => ledger'[job[q].key] # NoPayment
             /\ Running(q, "reverse", "commit") => ledger'[job[q].key] = ledger[job[q].key]
             /\ ledger[job[q].key] = NoPayment => ledger'[job[q].key] = NoPayment
  BY <1>2, <1>3, <1>4, <1>5 DEF RowInFlight, Running
<1>8. QED
  BY <1>2, <1>3, <1>6, <1>7 DEF ClaimsAreExclusive, Running, KeyInFlight, RowInFlight

\* Every step keeps the claims exclusive.
LEMMA NextKeepsClaims ==
  TypeOK /\ ClaimsAreExclusive /\ [Next]_vars => ClaimsAreExclusive'
<1> SUFFICES ASSUME TypeOK, ClaimsAreExclusive, [Next]_vars PROVE ClaimsAreExclusive'
  OBVIOUS
<1>1. ASSUME NEW r \in Req, Arrive(r) PROVE ClaimsAreExclusive'
  BY <1>1, ArriveKeepsClaims
<1>2. ASSUME NEW r \in Req, Proceed(r) PROVE ClaimsAreExclusive'
  <2>1. CASE \/ WriteTransition(r) \/ WriteUpdate(r) \/ WriteReview(r) \/ WriteResubmit(r)
             \/ WriteReplaceFile(r) \/ WriteCancel(r) \/ DeadlockAbort(r)
    BY <2>1, FinishKeepsClaims
    DEF WriteTransition, WriteUpdate, WriteReview, WriteResubmit, WriteReplaceFile,
        WriteCancel, DeadlockAbort
  <2>2. QED
    BY <1>2, <2>1, SumPaymentsKeepsClaims, LockInvoiceKeepsClaims,
       InsertPaymentKeepsClaims, CommitPaymentKeepsClaims, FlipPaymentKeepsClaims,
       CommitReversalKeepsClaims DEF Proceed
<1>3. ASSUME NEW r \in Req, Crash(r) PROVE ClaimsAreExclusive'
  BY <1>3, FinishKeepsClaims DEF Crash
<1>4. CASE MonthCloses \/ MonthReopens \/ RegionalChanges
  BY <1>4 DEF MonthCloses, MonthReopens, RegionalChanges, ClaimsAreExclusive,
              Running, KeyInFlight, RowInFlight
<1>5. CASE UNCHANGED vars
  BY <1>5 DEF vars, ClaimsAreExclusive, Running, KeyInFlight, RowInFlight
<1>6. QED
  BY <1>1, <1>2, <1>3, <1>4, <1>5 DEF Next

\* Initially nothing is claimed.
LEMMA InitKeepsClaims == Init => ClaimsAreExclusive
BY DEF Init, ClaimsAreExclusive, Running, Idle

\* No two transactions in flight ever hold the same idempotency key or the same
\* payment row, for every number of requests, keys and crashes.
THEOREM ClaimsExclusive == Spec => []ClaimsAreExclusive
<1>1. Init => TypeOK /\ ClaimsAreExclusive
  BY InitTyped, InitKeepsClaims
<1>2. TypeOK /\ ClaimsAreExclusive /\ [Next]_vars => (TypeOK /\ ClaimsAreExclusive)'
  BY NextTyped, NextKeepsClaims
<1>3. QED
  BY <1>1, <1>2, PTL DEF Spec

-----------------------------------------------------------------------------
(* A paid status is evidence of a payment row.                             *)

\* The part of the inductive invariant a paid or captured status rests on.
Evidence == PaidHasRow /\ PreNamesAPayment

\* What the evidence needs of a step: rows stay rows, and a status or a captured
\* status that needs a row either was there before or comes with one.
LEMMA EvidenceStays ==
  ASSUME Evidence,
         HasRow => HasRow',
         inv'.status \in PAYMENT_LOCKED => inv.status \in PAYMENT_LOCKED \/ HasRow',
         inv'.pre # NoStatus => inv.pre # NoStatus \/ HasRow'
  PROVE  Evidence'
BY DEF Evidence, PaidHasRow, PreNamesAPayment

\* A step that leaves the ledger alone may not make the invoice paid.
LEMMA EvidenceFrame ==
  ASSUME Evidence, UNCHANGED ledger,
         inv'.status \in PAYMENT_LOCKED => inv.status \in PAYMENT_LOCKED,
         inv'.pre # NoStatus => inv.pre # NoStatus
  PROVE  Evidence'
BY EvidenceStays DEF HasRow

\* Only an invoice entered as already paid starts paid, and it has its row.
LEMMA InitEvidence == Init => Evidence
<1> SUFFICES ASSUME Init PROVE Evidence
  OBVIOUS
<1>1. inv.pre = NoStatus
  BY DEF Init, Submitted, Draft, Legacy, Historical, NewInvoice
<1>2. CASE Submitted \/ Draft \/ Legacy
  <2>1. inv.status \in {"needs_review", "draft", "approved_by_owner"}
    BY <1>2 DEF Submitted, Draft, Legacy, NewInvoice
  <2>2. QED
    BY <1>1, <2>1 DEF Evidence, PaidHasRow, PreNamesAPayment, PAYMENT_LOCKED
<1>3. CASE Historical
  <2>1. PICK k \in Key : \E amount, when :
          ledger = [Unpaid EXCEPT ![k] =
                      [status |-> "confirmed", amount |-> amount, when |-> when]]
    BY <1>3 DEF Historical
  <2>2. ledger[k].status = "confirmed"
    BY <2>1 DEF Unpaid
  <2>3. HasRow
    BY <2>2 DEF HasRow, NoPayment
  <2>4. QED
    BY <1>1, <2>3 DEF Evidence, PaidHasRow, PreNamesAPayment
<1>4. QED
  BY <1>2, <1>3 DEF Init

\* No action of the decision table leads to a paid status.
LEMMA TransitionKeepsEvidence ==
  ASSUME TypeOK, ClaimsAreExclusive, Evidence, NEW r \in Req, WriteTransition(r)
  PROVE  Evidence'
<1>1. job[r].to \notin PAYMENT_LOCKED
  BY DEF WriteTransition, Running, ClaimsAreExclusive
<1>2. inv'.status \in {inv.status, job[r].to} /\ inv'.pre = inv.pre
  BY DEF WriteTransition, TypeOK, Invoice
<1>3. UNCHANGED ledger
  BY DEF WriteTransition
<1>4. QED
  BY <1>1, <1>2, <1>3, EvidenceFrame

\* The editing handlers keep the status, take it back to review, or cancel.
LEMMA EditsKeepEvidence ==
  ASSUME TypeOK, Evidence, NEW r \in Req,
         \/ WriteUpdate(r) \/ WriteReview(r) \/ WriteResubmit(r)
         \/ WriteReplaceFile(r) \/ WriteCancel(r)
  PROVE  Evidence'
<1>1. /\ inv'.status \in {inv.status, "needs_review", "canceled"}
      /\ inv'.pre = inv.pre
  BY DEF WriteUpdate, WriteReview, WriteResubmit, WriteReplaceFile, WriteCancel,
         TypeOK, Invoice
<1>2. UNCHANGED ledger
  BY DEF WriteUpdate, WriteReview, WriteResubmit, WriteReplaceFile, WriteCancel
<1>3. QED
  BY <1>1, <1>2, EvidenceFrame DEF PAYMENT_LOCKED

\* A committed payment brings its row.
LEMMA CommitPaymentKeepsEvidence ==
  ASSUME TypeOK, Evidence, NEW r \in Req, CommitPayment(r)
  PROVE  Evidence'
<1>1. job[r].key \in Key
  BY JobKinds DEF TypeOK, CommitPayment, Running, PaymentJob
<1>2. ledger'[job[r].key].status = "confirmed"
  BY <1>1 DEF TypeOK, CommitPayment
<1>3. HasRow'
  BY <1>1, <1>2 DEF HasRow, NoPayment
<1>4. QED
  BY <1>3, EvidenceStays

\* A reversed row is still a row.
LEMMA CommitReversalKeepsEvidence ==
  ASSUME TypeOK, Evidence, NEW r \in Req, CommitReversal(r)
  PROVE  Evidence'
<1>1. job[r].key \in Key
  BY JobKinds DEF TypeOK, CommitReversal, Running, ReversalJob
<1>2. ledger'[job[r].key].status = "reversed"
  BY <1>1 DEF TypeOK, CommitReversal, Payment
<1>3. HasRow'
  BY <1>1, <1>2 DEF HasRow, NoPayment
<1>4. QED
  BY <1>3, EvidenceStays

\* Every step keeps the evidence of a paid status.
LEMMA NextKeepsEvidence ==
  TypeOK /\ ClaimsAreExclusive /\ Evidence /\ [Next]_vars => Evidence'
<1> SUFFICES ASSUME TypeOK, ClaimsAreExclusive, Evidence, [Next]_vars PROVE Evidence'
  OBVIOUS
<1>1. CASE UNCHANGED <<inv, ledger>>
  BY <1>1, EvidenceFrame
<1>2. ASSUME NEW r \in Req, Arrive(r) PROVE UNCHANGED <<inv, ledger>>
  BY <1>2 DEF Arrive, BeginTransition, BeginPayment, BeginReversal, BeginUpdate,
              BeginReview, BeginResubmit, BeginReplaceFile, BeginCancel, BeginEdit, Begin
<1>3. ASSUME NEW r \in Req, Proceed(r) PROVE Evidence'
  <2>1. CASE \/ SumPayments(r) \/ LockInvoice(r) \/ InsertPayment(r) \/ FlipPayment(r)
             \/ DeadlockAbort(r)
    BY <1>1, <2>1 DEF SumPayments, LockInvoice, InsertPayment, FlipPayment, DeadlockAbort
  <2>2. QED
    BY <1>3, <2>1, TransitionKeepsEvidence, EditsKeepEvidence, CommitPaymentKeepsEvidence,
       CommitReversalKeepsEvidence DEF Proceed
<1>4. ASSUME NEW r \in Req, Crash(r) PROVE UNCHANGED <<inv, ledger>>
  BY <1>4 DEF Crash
<1>5. CASE MonthCloses \/ MonthReopens \/ RegionalChanges \/ UNCHANGED vars
  BY <1>1, <1>5 DEF MonthCloses, MonthReopens, RegionalChanges, vars
<1>6. QED
  BY <1>1, <1>2, <1>3, <1>4, <1>5 DEF Next

\* Claims are needed for the ledger, typing for both.
IInv == TypeOK /\ ClaimsAreExclusive /\ Evidence

\* The inductive invariant holds initially.
LEMMA InitIInv == Init => IInv
BY InitTyped, InitKeepsClaims, InitEvidence DEF IInv

\* Every step keeps the inductive invariant.
LEMMA NextIInv == IInv /\ [Next]_vars => IInv'
BY NextTyped, NextKeepsClaims, NextKeepsEvidence DEF IInv

\* No interleaving of handlers, crashes and aborted transactions makes an invoice
\* paid, or partially paid, without a row in its payment ledger.
THEOREM PaidInvoiceHasRow == Spec => []PaidHasRow
<1>1. IInv => PaidHasRow
  BY DEF IInv, Evidence
<1>2. QED
  BY InitIInv, NextIInv, <1>1, PTL DEF Spec

\* A captured pre-payment status is always accompanied by a payment row: the
\* transaction that wrote the one wrote the other.
THEOREM PreStatusNamesAPayment == Spec => []PreNamesAPayment
<1>1. IInv => PreNamesAPayment
  BY DEF IInv, Evidence
<1>2. QED
  BY InitIInv, NextIInv, <1>1, PTL DEF Spec

-----------------------------------------------------------------------------
(* The contour implements the append-only ledger.                          *)

\* A well typed ledger is an initial ledger of the abstract module.
LEMMA LedgerInit == TypeOK => Ledger!Init
BY DEF TypeOK, Ledger!Init

\* Every step is a Record, a Reverse or a stutter of the abstract ledger.
LEMMA LedgerStep == IInv /\ [Next]_vars => [Ledger!Next]_ledger
<1> SUFFICES ASSUME IInv, [Next]_vars, ledger' # ledger PROVE Ledger!Next
  OBVIOUS
<1> USE DEF IInv
<1>1. PICK r \in Req : CommitPayment(r) \/ CommitReversal(r)
  <2>1. ASSUME NEW r \in Req, Arrive(r) PROVE FALSE
    BY <2>1 DEF Arrive, BeginTransition, BeginPayment, BeginReversal, BeginUpdate,
                BeginReview, BeginResubmit, BeginReplaceFile, BeginCancel, BeginEdit, Begin
  <2>2. ASSUME NEW r \in Req, Proceed(r) PROVE CommitPayment(r) \/ CommitReversal(r)
    BY <2>2 DEF Proceed, WriteTransition, SumPayments, LockInvoice, InsertPayment,
                FlipPayment, WriteUpdate, WriteReview, WriteResubmit, WriteReplaceFile,
                WriteCancel, DeadlockAbort
  <2>3. ~UNCHANGED vars /\ ~MonthCloses /\ ~MonthReopens /\ ~RegionalChanges
    BY DEF vars, MonthCloses, MonthReopens, RegionalChanges
  <2>4. ASSUME NEW r \in Req, Crash(r) PROVE FALSE
    BY <2>4 DEF Crash
  <2>5. QED
    BY <2>1, <2>2, <2>3, <2>4 DEF Next
<1> DEFINE k == job[r].key
<1>2. CASE CommitPayment(r)
  <2>1. job[r] \in PaymentJob /\ k \in Key
    BY <1>2, JobKinds DEF TypeOK, CommitPayment, Running, PaymentJob
  <2>2. ledger[k] = NoPayment
    BY <1>2 DEF CommitPayment, Running, ClaimsAreExclusive
  <2> DEFINE new == [status |-> "confirmed", amount |-> job[r].amount, when |-> job[r].when]
  <2>3. ledger' = [ledger EXCEPT ![k] = new]
    BY <1>2 DEF CommitPayment
  <2>4. new \in Payment /\ new.status = "confirmed"
    BY <2>1 DEF PaymentJob, Payment
  <2>5. ledger'[k] = new
    BY <2>1, <2>3 DEF TypeOK
  <2> HIDE DEF k, new
  <2>6. Ledger!Record(k)
    BY <2>2, <2>3, <2>4, <2>5 DEF Ledger!Record
  <2>7. QED
    BY <2>1, <2>6 DEF Ledger!Next
<1>3. CASE CommitReversal(r)
  <2>1. job[r] \in ReversalJob /\ k \in Key
    BY <1>3, JobKinds DEF TypeOK, CommitReversal, Running, ReversalJob
  <2>2. ledger[k].status = "confirmed"
    BY <1>3 DEF CommitReversal, Running, ClaimsAreExclusive
  <2>3. ledger' = [ledger EXCEPT ![k].status = "reversed"]
    BY <1>3 DEF CommitReversal
  <2>4. Ledger!Reverse(k)
    BY <2>2, <2>3 DEF Ledger!Reverse
  <2>5. QED
    BY <2>1, <2>4 DEF Ledger!Next
<1>4. QED
  BY <1>1, <1>2, <1>3

\* Whatever requests run against one invoice, its ledger behaves like the
\* abstract one: a key records at most one payment, a payment is reversed at most
\* once, and no row is changed otherwise or deleted.
THEOREM ImplementsLedger == Spec => LedgerIsAppendOnly
<1>1. Init => Ledger!Init
  BY InitTyped, LedgerInit
<1>2. QED
  BY InitIInv, NextIInv, LedgerStep, <1>1, PTL DEF Spec, LedgerIsAppendOnly, Ledger!Spec

-----------------------------------------------------------------------------
(* One request at a time: the status mirrors the ledger.                   *)

\* What has been paid is the sum of the confirmed rows.
LEMMA PaidIsTotal == ASSUME NEW l PROVE PaidTotal(l) = StatusTotal(l, "confirmed")
BY DEF PaidTotal, StatusTotal, WithStatus, AmountTotal

\* Finitely many payments stand, and each of them is of something.
LedgerRows ==
  /\ IsFiniteSet(WithStatus(ledger, "confirmed"))
  /\ \A k \in Key : ledger[k].status = "confirmed" => ledger[k].amount > 0

\* What was paid is a natural number.
LEMMA PaidIsNat ==
  ASSUME TypeOK, LedgerRows
  PROVE  PaidTotal(ledger) \in Nat /\ Summable(ledger, "confirmed")
<1>1. \A k \in WithStatus(ledger, "confirmed") : ledger[k].amount \in Nat
  BY DEF TypeOK, Payment, WithStatus
<1>2. StatusTotal(ledger, "confirmed") \in Nat
  BY <1>1, StatusTotalIsNat DEF LedgerRows
<1>3. Summable(ledger, "confirmed")
  BY <1>1 DEF Summable, LedgerRows
<1>4. QED
  BY <1>2, <1>3, PaidIsTotal

\* A payment under a new key adds its amount to what was paid.
LEMMA PaidAdds ==
  ASSUME TypeOK, LedgerRows, NEW k \in Key, ledger[k] = NoPayment,
         NEW a \in Nat, a > 0, NEW when, NEW l,
         l = [ledger EXCEPT ![k] = [status |-> "confirmed", amount |-> a, when |-> when]]
  PROVE  /\ PaidTotal(l) = a + PaidTotal(ledger)
         /\ IsFiniteSet(WithStatus(l, "confirmed"))
<1> DEFINE mine == [status |-> "confirmed", amount |-> a, when |-> when]
<1>1. ledger = [q \in Key |-> ledger[q]] /\ ledger[k].status # "confirmed"
  BY DEF TypeOK, NoPayment
<1>2. mine.status = "confirmed" /\ mine.amount = a /\ a \in Int
  OBVIOUS
<1>3. l = [ledger EXCEPT ![k] = mine]
  OBVIOUS
<1>4. Summable(ledger, "confirmed")
  BY PaidIsNat
<1> HIDE DEF mine
<1>5. Summable(l, "confirmed") /\ StatusTotal(l, "confirmed") = mine.amount + StatusTotal(ledger, "confirmed")
  BY <1>1, <1>2, <1>3, <1>4, WriteAdds
<1>6. QED
  BY <1>2, <1>5, PaidIsTotal DEF Summable

\* A reversal takes the amount of its row out of what was paid.
LEMMA PaidTakes ==
  ASSUME TypeOK, LedgerRows, NEW k \in Key, ledger[k].status = "confirmed",
         NEW l, l = [ledger EXCEPT ![k].status = "reversed"]
  PROVE  /\ PaidTotal(ledger) = ledger[k].amount + PaidTotal(l)
         /\ PaidTotal(l) \in Nat
         /\ IsFiniteSet(WithStatus(l, "confirmed"))
<1> DEFINE back == [ledger[k] EXCEPT !.status = "reversed"]
<1>1. ledger = [q \in Key |-> ledger[q]]
  BY DEF TypeOK
<1>2. back.status # "confirmed"
  BY DEF TypeOK, Payment
<1>3. l = [ledger EXCEPT ![k] = back]
  BY DEF TypeOK
<1>4. Summable(ledger, "confirmed")
  BY PaidIsNat
<1>5. ledger \in [Key -> Payment] /\ l \in [Key -> Payment]
  BY DEF TypeOK, Payment
<1> HIDE DEF back
<1>6. Summable(l, "confirmed")
      /\ StatusTotal(ledger, "confirmed") = ledger[k].amount + StatusTotal(l, "confirmed")
  BY <1>1, <1>2, <1>3, <1>4, WriteTakes
<1>7. StatusTotal(l, "confirmed") \in Nat
  <2>1. \A q \in WithStatus(l, "confirmed") : l[q].amount \in Nat
    BY <1>5 DEF Payment, WithStatus
  <2>2. IsFiniteSet(WithStatus(l, "confirmed"))
    BY <1>6 DEF Summable
  <2>3. QED BY <2>1, <2>2, StatusTotalIsNat
<1>8. QED
  BY <1>6, <1>7, PaidIsTotal DEF Summable

\* An invoice that was paid has captured the status it will return to.
PreIsCaptured == inv.status \in PAYMENT_LOCKED => inv.pre # NoStatus

\* The amount covers the invoice.
Covers(paid) == paid >= inv.data.amount

\* What the one request in flight knows is still so: it has the row as it is,
\* and what it is about to write is what the ledger will say.
JobReflects(r) ==
  LET j == job[r] IN
  /\ j # Idle => j.snap = inv
  /\ j.kind = "transition" => inv.status \notin PAYMENT_LOCKED
  /\ j.kind = "update" => \/ inv.status \in INVOICE_EDITABLE
                          \/ inv.status = "paid" /\ j.data = inv.data
  /\ j.kind = "review" => inv.status \in INVOICE_REVIEW_DATA
  /\ j.kind = "cancel" => inv.status \in INVOICE_CANCELABLE
  /\ j.kind = "pay" =>
       /\ inv.status \in PAYABLE
       /\ j.pc # "sum" => 0 < j.amount /\ PaidTotal(ledger) + j.amount <= inv.data.amount
       /\ j.pc = "commit" =>
            /\ j.to = IF Covers(PaidTotal(ledger) + j.amount) THEN "paid" ELSE "partially_paid"
            /\ j.at = IF Covers(PaidTotal(ledger) + j.amount) THEN j.when ELSE NoMonth
  /\ Running(r, "reverse", "commit") =>
       LET paid == PaidTotal(ledger) - ledger[j.key].amount IN
       /\ inv.pre # NoStatus
       /\ j.to = IF paid > 0 THEN "partially_paid" ELSE inv.pre
       /\ j.at = NoMonth

SerialInv(r) == LedgerRows /\ PreIsCaptured /\ StatusReflectsLedger /\ JobReflects(r)

\* A slot that is freed knows nothing.
LEMMA FinishReflects ==
  ASSUME TypeOK, NEW r \in Req, Finish(r)
  PROVE  JobReflects(r)'
BY DEF TypeOK, Finish, JobReflects, Idle, Running

\* Where nothing but the job changes, the job is all there is to look at.
LEMMA SerialFrame ==
  ASSUME NEW r \in Req, SerialInv(r), UNCHANGED <<inv, ledger>>, JobReflects(r)'
  PROVE  SerialInv(r)'
BY DEF SerialInv, LedgerRows, PreIsCaptured, StatusReflectsLedger

\* A request that ends without a write leaves the mirror as it is.
LEMMA FinishKeepsSerial ==
  ASSUME TypeOK, NEW r \in Req, SerialInv(r), Finish(r), UNCHANGED <<inv, ledger>>
  PROVE  SerialInv(r)'
BY FinishReflects, SerialFrame

\* A request begins with the row as it is, and with what its first guards say.
LEMMA BeginReflects ==
  ASSUME TypeOK, NEW r \in Req, SerialInv(r), NEW h, NEW j, Begin(r, h, j),
         j.snap = inv,
         j.pc \in {"write", "sum", "flip"}, j.kind = "pay" => j.pc = "sum",
         j.kind = "transition" => inv.status \notin PAYMENT_LOCKED,
         j.kind = "update" => \/ inv.status \in INVOICE_EDITABLE
                              \/ inv.status = "paid" /\ j.data = inv.data,
         j.kind = "review" => inv.status \in INVOICE_REVIEW_DATA,
         j.kind = "cancel" => inv.status \in INVOICE_CANCELABLE,
         j.kind = "pay" => inv.status \in PAYABLE
  PROVE  SerialInv(r)'
<1>1. job'[r] = j /\ UNCHANGED <<inv, ledger>>
  BY DEF Begin, TypeOK
<1>2. JobReflects(r)'
  BY <1>1 DEF JobReflects, Running
<1>3. QED
  BY <1>1, <1>2, SerialFrame

\* Every request begins with what its guards have seen.
LEMMA ArriveKeepsSerial ==
  ASSUME TypeOK, NEW r \in Req, SerialInv(r), Arrive(r)
  PROVE  SerialInv(r)'
<1>1. ASSUME NEW u \in User, NEW action \in InvoiceAction, BeginTransition(r, u, action)
      PROVE  SerialInv(r)'
  <2>1. PICK to \in ApplyInvoiceAction(action, inv.status, Roles(u), hasActiveRegional, u = Author) :
          Begin(r, "transition",
                [pc |-> "write", kind |-> "transition", action |-> action,
                 snap |-> inv, to |-> to])
    BY <1>1 DEF BeginTransition
  <2>2. inv.status \notin PAYMENT_LOCKED
    BY DEF ApplyInvoiceAction, PAYMENT_LOCKED, INVOICE_EDITABLE, INVOICE_REJECTABLE,
           INVOICE_APPROVED_UNPAID
  <2>3. QED
    BY <2>1, <2>2, BeginReflects
<1>2. ASSUME NEW u \in User, NEW k \in Key, NEW when \in Month, BeginPayment(r, u, k, when)
      PROVE  SerialInv(r)'
  BY <1>2, BeginReflects DEF BeginPayment
<1>3. ASSUME NEW u \in User, NEW k \in Key, BeginReversal(r, u, k)
      PROVE  SerialInv(r)'
  BY <1>3, BeginReflects DEF BeginReversal
<1>4. ASSUME NEW u \in User, NEW data \in Data, NEW period \in Month, BeginUpdate(r, u, data, period)
      PROVE  SerialInv(r)'
  <2>1. inv.status \in INVOICE_EDITABLE \/ (inv.status = "paid" /\ data = inv.data)
    BY <1>4 DEF BeginUpdate, CanEditInvoice
  <2>2. QED
    BY <1>4, <2>1, BeginReflects DEF BeginUpdate, BeginEdit
<1>5. ASSUME NEW u \in User, NEW data \in Data, NEW period \in Month, BeginReview(r, u, data, period)
      PROVE  SerialInv(r)'
  BY <1>5, BeginReflects DEF BeginReview, BeginEdit
<1>6. ASSUME NEW u \in User, NEW data \in Data, NEW period \in Month, NEW newFile \in BOOLEAN,
             BeginResubmit(r, u, data, period, newFile)
      PROVE  SerialInv(r)'
  BY <1>6, BeginReflects DEF BeginResubmit, BeginEdit
<1>7. ASSUME NEW u \in User, BeginReplaceFile(r, u) PROVE SerialInv(r)'
  BY <1>7, BeginReflects DEF BeginReplaceFile, BeginEdit
<1>8. ASSUME NEW u \in User, BeginCancel(r, u) PROVE SerialInv(r)'
  BY <1>8, BeginReflects DEF BeginCancel, BeginEdit
<1>9. QED
  BY <1>1, <1>2, <1>3, <1>4, <1>5, <1>6, <1>7, <1>8 DEF Arrive

\* The amounts of an invoice, the old and the new, are natural numbers.
LEMMA AmountIsNat == ASSUME TypeOK PROVE inv.data.amount \in Nat
BY DataAssumption DEF TypeOK, Invoice

\* Unless the status says otherwise, nothing is paid.
LEMMA NothingPaid ==
  ASSUME TypeOK, NEW r \in Req, SerialInv(r), inv.status \notin PAYMENT_LOCKED
  PROVE  PaidTotal(ledger) = 0 /\ inv.paidAt = NoMonth
BY PaidIsNat, AmountIsNat DEF SerialInv, StatusReflectsLedger, PAYMENT_LOCKED

\* Any write to an invoice that is not paid and does not become paid.
LEMMA UnpaidWrite ==
  ASSUME TypeOK, TypeOK', NEW r \in Req, SerialInv(r), Finish(r), UNCHANGED ledger,
         inv.status \notin PAYMENT_LOCKED, inv'.status \notin PAYMENT_LOCKED,
         inv'.paidAt \in {inv.paidAt, NoMonth}
  PROVE  SerialInv(r)'
<1>1. PaidTotal(ledger') = 0 /\ inv'.paidAt = NoMonth
  BY NothingPaid
<1>2. inv'.data.amount \in Nat
  BY DataAssumption DEF TypeOK, Invoice
<1>3. StatusReflectsLedger'
  BY <1>1, <1>2 DEF StatusReflectsLedger, PAYMENT_LOCKED
<1>4. LedgerRows' /\ PreIsCaptured'
  BY DEF SerialInv, LedgerRows, PreIsCaptured
<1>5. QED
  BY <1>3, <1>4, FinishReflects DEF SerialInv

\* A write that leaves the status, the amount and the captured status alone.
LEMMA SameWrite ==
  ASSUME TypeOK, NEW r \in Req, SerialInv(r), Finish(r), UNCHANGED ledger,
         inv'.status = inv.status, inv'.data = inv.data, inv'.pre = inv.pre,
         inv'.paidAt = inv.paidAt
  PROVE  SerialInv(r)'
<1>1. StatusReflectsLedger' /\ LedgerRows' /\ PreIsCaptured'
  BY DEF SerialInv, StatusReflectsLedger, LedgerRows, PreIsCaptured
<1>2. QED
  BY <1>1, FinishReflects DEF SerialInv

\* A workflow step neither finds a paid status nor writes one.
LEMMA TransitionKeepsSerial ==
  ASSUME TypeOK, TypeOK', ClaimsAreExclusive, NEW r \in Req, SerialInv(r), WriteTransition(r)
  PROVE  SerialInv(r)'
<1>1. inv.status \notin PAYMENT_LOCKED /\ job[r].to \notin PAYMENT_LOCKED
  BY DEF WriteTransition, Running, SerialInv, JobReflects, ClaimsAreExclusive
<1>2. inv'.status \in {inv.status, job[r].to} /\ inv'.paidAt \in {inv.paidAt, NoMonth}
  BY DEF WriteTransition, TypeOK, Invoice
<1>3. QED
  BY <1>1, <1>2, UnpaidWrite DEF WriteTransition

\* An edit finds an unpaid invoice, or leaves its amount alone.
LEMMA EditsKeepSerial ==
  ASSUME TypeOK, TypeOK', NEW r \in Req, SerialInv(r),
         \/ WriteUpdate(r) \/ WriteReview(r) \/ WriteResubmit(r)
         \/ WriteReplaceFile(r) \/ WriteCancel(r)
  PROVE  SerialInv(r)'
<1>1. Finish(r) /\ UNCHANGED ledger
  BY DEF WriteUpdate, WriteReview, WriteResubmit, WriteReplaceFile, WriteCancel
<1>2. inv'.paidAt = inv.paidAt /\ inv'.pre = inv.pre
  BY DEF WriteUpdate, WriteReview, WriteResubmit, WriteReplaceFile, WriteCancel, TypeOK, Invoice
<1>3. ASSUME inv.status \notin PAYMENT_LOCKED, inv'.status \notin PAYMENT_LOCKED
      PROVE  SerialInv(r)'
  BY <1>1, <1>2, <1>3, UnpaidWrite
<1>4. ASSUME inv'.status = inv.status, inv'.data = inv.data
      PROVE  SerialInv(r)'
  BY <1>1, <1>2, <1>4, SameWrite
<1>5. CASE WriteUpdate(r)
  <2>1. inv'.status = inv.status /\ inv'.data = job[r].data
    BY <1>5 DEF WriteUpdate, TypeOK, Invoice
  <2>2. inv.status \in INVOICE_EDITABLE \/ (inv.status = "paid" /\ job[r].data = inv.data)
    BY <1>5 DEF WriteUpdate, Running, SerialInv, JobReflects
  <2>3. QED
    BY <2>1, <2>2, <1>3, <1>4 DEF INVOICE_EDITABLE, PAYMENT_LOCKED
<1>6. CASE WriteReview(r)
  <2>1. inv'.status \in {inv.status, "needs_review"}
    BY <1>6 DEF WriteReview, TypeOK, Invoice
  <2>2. inv.status \in INVOICE_REVIEW_DATA
    BY <1>6 DEF WriteReview, Running, SerialInv, JobReflects
  <2>3. QED
    BY <2>1, <2>2, <1>3 DEF INVOICE_REVIEW_DATA, INVOICE_EDITABLE, INVOICE_REJECTABLE,
                            INVOICE_APPROVED_UNPAID, PAYMENT_LOCKED
<1>7. CASE WriteResubmit(r)
  <2>1. CASE inv.status = "needs_correction"
    <3>1. inv'.status = "needs_review"
      BY <1>7, <2>1 DEF WriteResubmit, TypeOK, Invoice
    <3>2. QED BY <2>1, <3>1, <1>3 DEF PAYMENT_LOCKED
  <2>2. CASE inv.status # "needs_correction"
    BY <2>2, <1>4, <1>7 DEF WriteResubmit
  <2>3. QED BY <2>1, <2>2
<1>8. CASE WriteReplaceFile(r)
  BY <1>8, <1>4 DEF WriteReplaceFile, TypeOK, Invoice
<1>9. CASE WriteCancel(r)
  <2>1. inv'.status = "canceled"
    BY <1>9 DEF WriteCancel, TypeOK, Invoice
  <2>2. inv.status \in INVOICE_CANCELABLE
    BY <1>9 DEF WriteCancel, Running, SerialInv, JobReflects
  <2>3. QED
    BY <2>1, <2>2, <1>3 DEF INVOICE_CANCELABLE, INVOICE_APPROVED_UNPAID, PAYMENT_LOCKED
<1>10. QED
  BY <1>5, <1>6, <1>7, <1>8, <1>9

\* The amount that is accepted is within what remains.
LEMMA SumPaymentsKeepsSerial ==
  ASSUME TypeOK, NEW r \in Req, SerialInv(r), SumPayments(r)
  PROVE  SerialInv(r)'
<1>1. job[r].kind = "pay" /\ job[r] \in PaymentJob
  BY JobKinds DEF TypeOK, SumPayments, Running
<1>a. job[r].snap = inv /\ inv.status \in PAYABLE
  BY <1>1 DEF SerialInv, JobReflects, Idle
<1>2. UNCHANGED <<inv, ledger>>
  BY DEF SumPayments
<1>3. CASE Remaining(job[r].snap.data.amount, ledger) <= 0
  BY <1>2, <1>3, FinishKeepsSerial DEF SumPayments
<1>4. CASE ~(Remaining(job[r].snap.data.amount, ledger) <= 0)
  <2>1. PICK mode \in {"full", "partial"}, a \in 1 .. job[r].snap.data.amount :
              /\ ValidPaymentAmount(a, Remaining(job[r].snap.data.amount, ledger), mode)
              /\ job' = [job EXCEPT ![r] = [job[r] EXCEPT !.amount = a,
                             !.pc = IF CapturesPre(job[r].snap) THEN "lock" ELSE "insert"]]
    BY <1>4 DEF SumPayments
  <2>2. a > 0 /\ PaidTotal(ledger) + a <= inv.data.amount
    <3>1. PaidTotal(ledger) \in Nat /\ inv.data.amount \in Nat
      BY PaidIsNat, AmountIsNat DEF SerialInv
    <3>2. a \in 1 .. inv.data.amount
          /\ ValidPaymentAmount(a, inv.data.amount - PaidTotal(ledger), mode)
      BY <1>a, <2>1 DEF Remaining
    <3>3. a \in Int /\ a > 0
      BY <3>1, <3>2
    <3>4. a <= inv.data.amount - PaidTotal(ledger)
      <4>1. CASE mode = "full" BY <3>1, <3>2, <4>1 DEF ValidPaymentAmount
      <4>2. CASE mode = "partial" BY <3>1, <3>2, <4>2 DEF ValidPaymentAmount
      <4>3. QED BY <4>1, <4>2
    <3>5. QED BY <3>1, <3>3, <3>4
  <2>3. job'[r].amount = a /\ job'[r].pc \in {"lock", "insert"} /\ job'[r].kind = "pay"
        /\ job'[r].snap = inv
    BY <1>1, <1>a, <2>1 DEF TypeOK, PaymentJob
  <2>4. JobReflects(r)'
    BY <1>a, <1>2, <2>2, <2>3 DEF JobReflects, Running
  <2>5. QED
    BY <1>2, <2>4, SerialFrame
<1>5. QED BY <1>3, <1>4

\* Locking the invoice changes nothing that was read.
LEMMA LockInvoiceKeepsSerial ==
  ASSUME TypeOK, NEW r \in Req, SerialInv(r), LockInvoice(r)
  PROVE  SerialInv(r)'
<1>a. job[r].kind = "pay" /\ job[r] \in PaymentJob /\ job[r].pc = "lock"
  BY JobKinds DEF TypeOK, LockInvoice, Running
<1>1. job[r].snap = inv /\ inv.status \in PAYABLE /\ 0 < job[r].amount
      /\ PaidTotal(ledger) + job[r].amount <= inv.data.amount
  BY <1>a DEF SerialInv, JobReflects, Idle
<1>2. UNCHANGED <<inv, ledger>>
  BY DEF LockInvoice
<1>3. job'[r].amount = job[r].amount /\ job'[r].pc = "insert" /\ job'[r].kind = "pay"
      /\ job'[r].snap = inv
  BY <1>a, <1>1 DEF TypeOK, PaymentJob, LockInvoice
<1>4. JobReflects(r)'
  BY <1>1, <1>2, <1>3 DEF JobReflects, Running
<1>5. QED
  BY <1>2, <1>4, SerialFrame

\* Where something is paid the status says so, and the captured status is known.
LEMMA SomethingPaid ==
  ASSUME TypeOK, NEW r \in Req, SerialInv(r), PaidTotal(ledger) > 0
  PROVE  inv.status \in PAYMENT_LOCKED /\ inv.pre # NoStatus
<1>1. PaidTotal(ledger) \in Nat /\ inv.data.amount \in Nat
  BY PaidIsNat, AmountIsNat DEF SerialInv
<1>2. inv.status \in PAYMENT_LOCKED
  BY <1>1 DEF SerialInv, StatusReflectsLedger, PAYMENT_LOCKED
<1>3. QED
  BY <1>2 DEF SerialInv, PreIsCaptured

\* The payment that is inserted computes the status its commit will be worth.
LEMMA InsertPaymentKeepsSerial ==
  ASSUME TypeOK, NEW r \in Req, SerialInv(r), InsertPayment(r)
  PROVE  SerialInv(r)'
<1> DEFINE j == job[r]
           mine == [status |-> "confirmed", amount |-> j.amount, when |-> j.when]
           l == [ledger EXCEPT ![j.key] = mine]
           pre == IF CapturesPre(j.snap) THEN j.snap.status ELSE j.snap.pre
<1>1. j.kind = "pay" /\ j \in PaymentJob /\ j.pc = "insert"
  BY JobKinds DEF TypeOK, InsertPayment, Running
<1>2. j.snap = inv /\ inv.status \in PAYABLE /\ 0 < j.amount
      /\ PaidTotal(ledger) + j.amount <= inv.data.amount
  BY <1>1 DEF SerialInv, JobReflects, Idle
<1>3. UNCHANGED <<inv, ledger>>
  BY DEF InsertPayment
<1>4. CASE ledger[j.key] # NoPayment
  BY <1>3, <1>4, FinishKeepsSerial DEF InsertPayment
<1>5. CASE ledger[j.key] = NoPayment
  <2>1. j.key \in Key /\ j.amount \in Nat
    BY <1>1 DEF PaymentJob
  <2>2. PaidTotal(l) = j.amount + PaidTotal(ledger)
    BY <1>2, <1>5, <2>1, PaidAdds DEF SerialInv
  <2>3. PaidTotal(ledger) \in Nat /\ inv.data.amount \in Nat
    BY PaidIsNat, AmountIsNat DEF SerialInv
  <2>4. job' = [job EXCEPT ![r] =
          [j EXCEPT !.pc = "commit",
                    !.to = DerivedInvoiceStatus(PaidTotal(l), j.snap.data.amount, pre, j.snap.status),
                    !.at = IF PaidTotal(l) >= j.snap.data.amount /\ j.snap.data.amount > 0
                             THEN j.when ELSE NoMonth]]
    BY <1>5 DEF InsertPayment
  <2> DEFINE paid == PaidTotal(l)
  <2>5. paid = PaidTotal(ledger) + j.amount /\ paid > 0 /\ inv.data.amount > 0
    BY <1>2, <2>1, <2>2, <2>3
  <2>6. DerivedInvoiceStatus(paid, inv.data.amount, pre, inv.status)
          = IF Covers(PaidTotal(ledger) + j.amount) THEN "paid" ELSE "partially_paid"
    BY <2>5 DEF DerivedInvoiceStatus, Covers
  <2>7. (IF paid >= inv.data.amount /\ inv.data.amount > 0 THEN j.when ELSE NoMonth)
          = IF Covers(PaidTotal(ledger) + j.amount) THEN j.when ELSE NoMonth
    BY <2>5 DEF Covers
  <2> HIDE DEF l, pre
  <2>8. /\ job'[r].pc = "commit" /\ job'[r].kind = "pay" /\ job'[r].snap = inv
        /\ job'[r].amount = j.amount /\ job'[r].when = j.when
        /\ job'[r].to = DerivedInvoiceStatus(paid, inv.data.amount, pre, inv.status)
        /\ job'[r].at = IF paid >= inv.data.amount /\ inv.data.amount > 0 THEN j.when ELSE NoMonth
    BY <1>1, <1>2, <2>4 DEF TypeOK, PaymentJob
  <2> HIDE DEF paid, j
  <2>9. JobReflects(r)'
    <3>1. job'[r].to = IF Covers(PaidTotal(ledger) + job'[r].amount) THEN "paid" ELSE "partially_paid"
      BY <2>6, <2>8
    <3>2. job'[r].at = IF Covers(PaidTotal(ledger) + job'[r].amount) THEN job'[r].when ELSE NoMonth
      BY <2>7, <2>8
    <3>3. 0 < job'[r].amount /\ PaidTotal(ledger) + job'[r].amount <= inv.data.amount
      BY <1>2, <2>8
    <3>4. \A x : Covers(x)' <=> Covers(x)
      BY <1>3 DEF Covers
    <3>5. QED
      BY <1>2, <1>3, <2>8, <3>1, <3>2, <3>3 DEF JobReflects, Running, Covers
  <2>10. QED
    BY <1>3, <2>9, SerialFrame
<1>6. QED BY <1>4, <1>5

\* The commit writes the row and the status it is worth at once.
LEMMA CommitPaymentKeepsSerial ==
  ASSUME TypeOK, TypeOK', ClaimsAreExclusive, NEW r \in Req, SerialInv(r), CommitPayment(r)
  PROVE  SerialInv(r)'
<1> DEFINE j == job[r]
           mine == [status |-> "confirmed", amount |-> j.amount, when |-> j.when]
           paid == PaidTotal(ledger) + j.amount
<1>1. j.kind = "pay" /\ j \in PaymentJob /\ j.pc = "commit"
  BY JobKinds DEF TypeOK, CommitPayment, Running
<1>2. /\ j.snap = inv /\ inv.status \in PAYABLE /\ 0 < j.amount /\ paid <= inv.data.amount
      /\ j.to = IF Covers(paid) THEN "paid" ELSE "partially_paid"
      /\ j.at = IF Covers(paid) THEN j.when ELSE NoMonth
  BY <1>1 DEF SerialInv, JobReflects, Idle
<1>3. ledger[j.key] = NoPayment /\ j.key \in Key /\ j.amount \in Nat /\ j.when \in Month \ {NoMonth}
  BY <1>1, MonthAssumption DEF ClaimsAreExclusive, Running, PaymentJob
<1>4. ledger' = [ledger EXCEPT ![j.key] = mine]
  BY DEF CommitPayment
<1>5. PaidTotal(ledger') = j.amount + PaidTotal(ledger)
      /\ IsFiniteSet(WithStatus(ledger', "confirmed"))
  BY <1>2, <1>3, <1>4, PaidAdds DEF SerialInv
<1>6. LedgerRows'
  <2>1. ledger \in [Key -> Payment]
    BY DEF TypeOK
  <2>2. ASSUME NEW k \in Key, ledger'[k].status = "confirmed" PROVE ledger'[k].amount > 0
    BY <1>2, <1>3, <1>4, <2>1, <2>2 DEF SerialInv, LedgerRows
  <2>3. QED BY <1>5, <2>2 DEF LedgerRows
<1>7. /\ inv'.status = j.to /\ inv'.paidAt = j.at /\ inv'.data = inv.data
      /\ inv'.pre = IF CapturesPre(inv) THEN inv.status ELSE inv.pre
  BY <1>2 DEF CommitPayment, TypeOK, Invoice
<1>8. PreIsCaptured'
  <2>1. CASE CapturesPre(inv)
    BY <1>7, <2>1 DEF PreIsCaptured, CapturesPre, INVOICE_APPROVED_UNPAID, NoStatus
  <2>2. CASE ~CapturesPre(inv)
    BY <1>2, <1>7, <2>2 DEF PreIsCaptured, CapturesPre, SerialInv, PAYABLE, PAYMENT_LOCKED
  <2>3. QED BY <2>1, <2>2
<1>9. PaidTotal(ledger) \in Nat /\ inv.data.amount \in Nat
  BY PaidIsNat, AmountIsNat DEF SerialInv
<1>10. StatusReflectsLedger'
  <2>1. PaidTotal(ledger') = paid /\ paid > 0 /\ paid \in Nat
    BY <1>2, <1>3, <1>5, <1>9
  <2>2. paid <= inv'.data.amount /\ (Covers(paid) <=> paid >= inv'.data.amount)
    BY <1>2, <1>7 DEF Covers
  <2>3. /\ inv'.status = IF Covers(paid) THEN "paid" ELSE "partially_paid"
        /\ inv'.paidAt = IF Covers(paid) THEN j.when ELSE NoMonth
        /\ j.when # NoMonth
    BY <1>2, <1>3, <1>7
  <2>4. inv'.data.amount \in Nat
    BY <1>7, <1>9
  <2> HIDE DEF paid, j
  <2>5. QED
    BY <2>1, <2>2, <2>3, <2>4 DEF StatusReflectsLedger
<1>11. JobReflects(r)'
  BY FinishReflects DEF CommitPayment
<1>12. QED
  BY <1>6, <1>8, <1>10, <1>11 DEF SerialInv

\* Without one of its rows, what was paid no longer covers the invoice.
LEMMA ReversalUncovers ==
  ASSUME TypeOK, NEW r \in Req, SerialInv(r), NEW k \in Key, ledger[k].status = "confirmed",
         NEW l, l = [ledger EXCEPT ![k].status = "reversed"]
  PROVE  /\ PaidTotal(l) = PaidTotal(ledger) - ledger[k].amount
         /\ PaidTotal(l) \in Nat /\ PaidTotal(l) < inv.data.amount
         /\ inv.status \in PAYMENT_LOCKED /\ inv.pre # NoStatus
         /\ IsFiniteSet(WithStatus(l, "confirmed"))
<1>1. PaidTotal(ledger) = ledger[k].amount + PaidTotal(l)
      /\ PaidTotal(l) \in Nat /\ IsFiniteSet(WithStatus(l, "confirmed"))
  BY PaidTakes DEF SerialInv
<1>2. PaidTotal(ledger) \in Nat /\ inv.data.amount \in Nat
  BY PaidIsNat, AmountIsNat DEF SerialInv
<1>3. ledger[k].amount > 0 /\ ledger[k].amount \in Nat
  BY DEF SerialInv, LedgerRows, TypeOK, Payment
<1>4. PaidTotal(ledger) <= inv.data.amount
  BY DEF SerialInv, StatusReflectsLedger
<1>5. PaidTotal(ledger) > 0
  BY <1>1, <1>2, <1>3
<1>6. inv.status \in PAYMENT_LOCKED /\ inv.pre # NoStatus
  BY <1>5, SomethingPaid
<1>7. QED
  BY <1>1, <1>2, <1>3, <1>4, <1>6

\* The reversal computes the status its commit will be worth.
LEMMA FlipPaymentKeepsSerial ==
  ASSUME TypeOK, NEW r \in Req, SerialInv(r), FlipPayment(r)
  PROVE  SerialInv(r)'
<1> DEFINE j == job[r]
           l == [ledger EXCEPT ![j.key].status = "reversed"]
           paid == PaidTotal(l)
<1>1. j.kind = "reverse" /\ j \in ReversalJob /\ j.pc = "flip"
  BY JobKinds DEF TypeOK, FlipPayment, Running
<1>2. j.snap = inv /\ j.key \in Key
  BY <1>1 DEF SerialInv, JobReflects, Idle, ReversalJob
<1>3. UNCHANGED <<inv, ledger>>
  BY DEF FlipPayment
<1>4. CASE ledger[j.key].status # "confirmed"
  BY <1>3, <1>4, FinishKeepsSerial DEF FlipPayment
<1>5. CASE ledger[j.key].status = "confirmed"
  <2>1. /\ paid = PaidTotal(ledger) - ledger[j.key].amount /\ paid \in Nat
        /\ paid < inv.data.amount /\ inv.pre # NoStatus
    BY <1>2, <1>5, ReversalUncovers
  <2>2. job' = [job EXCEPT ![r] =
          [j EXCEPT !.pc = "commit",
                    !.to = DerivedInvoiceStatus(paid, j.snap.data.amount, j.snap.pre, j.snap.status),
                    !.at = IF paid >= j.snap.data.amount /\ j.snap.data.amount > 0
                             THEN j.snap.paidAt ELSE NoMonth]]
    BY <1>5 DEF FlipPayment
  <2> HIDE DEF l, paid
  <2>3. /\ job'[r].pc = "commit" /\ job'[r].kind = "reverse" /\ job'[r].snap = inv
        /\ job'[r].key = j.key
        /\ job'[r].to = DerivedInvoiceStatus(paid, inv.data.amount, inv.pre, inv.status)
        /\ job'[r].at = IF paid >= inv.data.amount /\ inv.data.amount > 0 THEN inv.paidAt ELSE NoMonth
    BY <1>1, <1>2, <2>2 DEF TypeOK, ReversalJob
  <2>4. inv.data.amount \in Nat
    BY AmountIsNat
  <2>5. job'[r].at = NoMonth
    BY <2>1, <2>3, <2>4
  <2>6. job'[r].to = IF paid > 0 THEN "partially_paid" ELSE inv.pre
    BY <2>1, <2>3, <2>4 DEF DerivedInvoiceStatus
  <2>7. JobReflects(r)'
    BY <1>3, <2>1, <2>3, <2>5, <2>6 DEF JobReflects, Running
  <2>8. QED
    BY <1>3, <2>7, SerialFrame
<1>6. QED BY <1>4, <1>5

\* The commit of a reversal takes the row and the status it was worth back.
LEMMA CommitReversalKeepsSerial ==
  ASSUME TypeOK, TypeOK', ClaimsAreExclusive, NEW r \in Req, SerialInv(r), CommitReversal(r)
  PROVE  SerialInv(r)'
<1> DEFINE j == job[r]
           paid == PaidTotal(ledger')
<1>1. j.kind = "reverse" /\ j \in ReversalJob /\ j.pc = "commit"
  BY JobKinds DEF TypeOK, CommitReversal, Running
<1>2. j.snap = inv /\ j.key \in Key /\ ledger[j.key].status = "confirmed"
  BY <1>1 DEF SerialInv, JobReflects, Idle, ReversalJob, ClaimsAreExclusive, Running
<1>3. ledger' = [ledger EXCEPT ![j.key].status = "reversed"]
  BY DEF CommitReversal
<1>4. /\ paid = PaidTotal(ledger) - ledger[j.key].amount /\ paid \in Nat
      /\ paid < inv.data.amount /\ inv.pre # NoStatus
      /\ IsFiniteSet(WithStatus(ledger', "confirmed"))
  BY <1>2, <1>3, ReversalUncovers
<1>5. j.to = (IF paid > 0 THEN "partially_paid" ELSE inv.pre) /\ j.at = NoMonth
  BY <1>1, <1>4 DEF SerialInv, JobReflects, Running
<1>6. inv'.status = j.to /\ inv'.paidAt = NoMonth /\ inv'.data = inv.data /\ inv'.pre = inv.pre
  BY <1>5 DEF CommitReversal, TypeOK, Invoice
<1>7. LedgerRows'
  <2>1. ledger \in [Key -> Payment]
    BY DEF TypeOK
  <2>2. ASSUME NEW k \in Key, ledger'[k].status = "confirmed" PROVE ledger'[k].amount > 0
    <3>1. k # j.key
      BY <1>2, <1>3, <2>1, <2>2 DEF Payment
    <3>2. ledger'[k] = ledger[k]
      BY <1>3, <2>1, <3>1
    <3>3. QED BY <2>2, <3>2 DEF SerialInv, LedgerRows
  <2>3. QED BY <1>4, <2>2 DEF LedgerRows
<1>8. inv.pre \in INVOICE_APPROVED_UNPAID
  BY <1>4 DEF TypeOK, Invoice
<1>9. inv.data.amount \in Nat
  BY AmountIsNat
<1>10. StatusReflectsLedger'
  <2> HIDE DEF j
  <2>1. inv'.status = (IF paid > 0 THEN "partially_paid" ELSE inv.pre)
    BY <1>5, <1>6
  <2>2. inv.pre # "paid" /\ inv.pre # "partially_paid"
    BY <1>8 DEF INVOICE_APPROVED_UNPAID
  <2>3. QED
    BY <1>4, <1>6, <1>9, <2>1, <2>2 DEF StatusReflectsLedger
<1>11. PreIsCaptured'
  BY <1>4, <1>6 DEF PreIsCaptured
<1>12. JobReflects(r)'
  BY FinishReflects DEF CommitReversal
<1>13. QED
  BY <1>7, <1>10, <1>11, <1>12 DEF SerialInv

\* Every step of the one request, and every step around it, keeps the mirror.
LEMMA NextKeepsSerial ==
  ASSUME TypeOK, TypeOK', ClaimsAreExclusive, NEW r, Req = {r}, SerialInv(r), [Next]_vars
  PROVE  SerialInv(r)'
<1>1. CASE UNCHANGED <<inv, ledger, job>>
  BY <1>1 DEF SerialInv, LedgerRows, PreIsCaptured, StatusReflectsLedger, JobReflects, Covers, Running
<1>2. CASE UNCHANGED vars
  BY <1>1, <1>2 DEF vars
<1>3. CASE MonthCloses \/ MonthReopens \/ RegionalChanges
  BY <1>1, <1>3 DEF MonthCloses, MonthReopens, RegionalChanges
<1>4. CASE Arrive(r)
  BY <1>4, ArriveKeepsSerial
<1>5. CASE Crash(r) \/ DeadlockAbort(r)
  BY <1>5, FinishKeepsSerial DEF Crash, DeadlockAbort
<1>6. CASE Proceed(r)
  BY <1>5, <1>6, TransitionKeepsSerial, SumPaymentsKeepsSerial, LockInvoiceKeepsSerial,
     InsertPaymentKeepsSerial, CommitPaymentKeepsSerial, FlipPaymentKeepsSerial,
     CommitReversalKeepsSerial, EditsKeepSerial DEF Proceed
<1>7. QED
  BY <1>2, <1>3, <1>4, <1>5, <1>6 DEF Next

\* An invoice that is not there yet has nothing paid.
LEMMA InitIsSerial ==
  ASSUME Init, TypeOK, Origin \subseteq {"submitted", "draft", "legacy"}, NEW r \in Req
  PROVE  SerialInv(r)
<1>1. ledger = Unpaid /\ inv.paidAt = NoMonth /\ inv.status \notin PAYMENT_LOCKED
  BY DEF Init, Submitted, Draft, Legacy, NewInvoice, PAYMENT_LOCKED
<1>2. WithStatus(ledger, "confirmed") = {}
  BY <1>1 DEF WithStatus, Unpaid, NoPayment
<1>3. PaidTotal(ledger) = 0
  BY <1>2, PaidIsTotal, TotalOfNone DEF StatusTotal
<1>4. IsFiniteSet(WithStatus(ledger, "confirmed"))
  BY <1>2, FS_EmptySet
<1>5. LedgerRows /\ PreIsCaptured
  BY <1>1, <1>4 DEF LedgerRows, PreIsCaptured, Unpaid, NoPayment
<1>6. StatusReflectsLedger
  BY <1>1, <1>3, AmountIsNat DEF StatusReflectsLedger, PAYMENT_LOCKED
<1>7. JobReflects(r)
  BY DEF Init, JobReflects, Idle, Running
<1>8. QED
  BY <1>5, <1>6, <1>7 DEF SerialInv

\* One request at a time, whatever users, data, months, keys and crashes there
\* are, the status mirrors the ledger and the invoice is never overpaid.
THEOREM SerialStatusReflectsLedger ==
  ASSUME NEW r, Req = {r}, Origin \subseteq {"submitted", "draft", "legacy"}
  PROVE  Spec => []StatusReflectsLedger
<1> USE DEF Spec
<1>1. Init /\ TypeOK => SerialInv(r)
  BY InitIsSerial
<1>2. TypeOK /\ TypeOK' /\ ClaimsAreExclusive /\ SerialInv(r) /\ [Next]_vars => SerialInv(r)'
  BY NextKeepsSerial
<1>3. SerialInv(r) => StatusReflectsLedger
  BY DEF SerialInv
<1>4. QED
  BY <1>1, <1>2, <1>3, TypeCorrect, ClaimsExclusive, PTL

-----------------------------------------------------------------------------
(* One request at a time: money leaves on approved data.                   *)

\* An approval that stands was given to some data, a review that stands was of
\* the data as it is, and what is paid was both.
ApprovalStands ==
  /\ inv.status \in INVOICE_APPROVED_UNPAID => inv.fp # {}
  /\ inv.reviewed => signedOff = {inv.data}
  /\ PaidDataWasApproved

\* The payment in flight is still allowed, and only an approval approves.
JobIsApproved(r) ==
  /\ job[r].kind = "pay" => ~PaymentBlocked(inv.data, inv.confidence, inv.reviewed, inv.fp)
  /\ job[r].kind = "transition" /\ job[r].to \in INVOICE_APPROVED_UNPAID
       => job[r].action = "approve"

ApprovedInv(r) == ApprovalStands /\ JobIsApproved(r)

\* A slot that is freed pays nothing.
LEMMA FinishIsApproved ==
  ASSUME TypeOK, NEW r \in Req, Finish(r)
  PROVE  JobIsApproved(r)'
BY DEF TypeOK, Finish, JobIsApproved, Idle

\* The job keeps its kind and its decision while the row does not change.
LEMMA ApprovedFrame ==
  ASSUME NEW r \in Req, ApprovedInv(r), UNCHANGED <<inv, signedOff>>, JobIsApproved(r)'
  PROVE  ApprovedInv(r)'
BY DEF ApprovedInv, ApprovalStands, PaidDataWasApproved

\* A request that ends without a write approves and pays nothing.
LEMMA FinishKeepsApproved ==
  ASSUME TypeOK, NEW r \in Req, ApprovedInv(r), Finish(r), UNCHANGED <<inv, signedOff>>
  PROVE  ApprovedInv(r)'
BY FinishIsApproved, ApprovedFrame

\* A request begins only with what its guards allow.
LEMMA BeginIsApproved ==
  ASSUME TypeOK, NEW r \in Req, ApprovedInv(r), NEW h, NEW j, Begin(r, h, j),
         j.kind = "pay" => ~PaymentBlocked(inv.data, inv.confidence, inv.reviewed, inv.fp),
         j.kind = "transition" => (j.to \in INVOICE_APPROVED_UNPAID => j.action = "approve")
  PROVE  ApprovedInv(r)'
<1>1. job'[r] = j /\ UNCHANGED <<inv, signedOff>>
  BY DEF Begin, TypeOK, history
<1>2. JobIsApproved(r)'
  BY <1>1 DEF JobIsApproved
<1>3. QED
  BY <1>1, <1>2, ApprovedFrame

\* Every request begins with what its guards have seen of the approval.
LEMMA ArriveKeepsApproved ==
  ASSUME TypeOK, NEW r \in Req, ApprovedInv(r), Arrive(r)
  PROVE  ApprovedInv(r)'
<1>1. ASSUME NEW u \in User, NEW action \in InvoiceAction, BeginTransition(r, u, action)
      PROVE  ApprovedInv(r)'
  <2>1. PICK to \in ApplyInvoiceAction(action, inv.status, Roles(u), hasActiveRegional, u = Author) :
          Begin(r, "transition",
                [pc |-> "write", kind |-> "transition", action |-> action,
                 snap |-> inv, to |-> to])
    BY <1>1 DEF BeginTransition
  <2>2. to \in INVOICE_APPROVED_UNPAID => action = "approve"
    BY DEF ApplyInvoiceAction, INVOICE_APPROVED_UNPAID
  <2>3. QED
    BY <2>1, <2>2, BeginIsApproved
<1>2. ASSUME NEW u \in User, NEW k \in Key, NEW when \in Month, BeginPayment(r, u, k, when)
      PROVE  ApprovedInv(r)'
  BY <1>2, BeginIsApproved DEF BeginPayment
<1>3. ASSUME NEW u \in User, NEW k \in Key, BeginReversal(r, u, k)
      PROVE  ApprovedInv(r)'
  BY <1>3, BeginIsApproved DEF BeginReversal
<1>4. ASSUME NEW u \in User, NEW data \in Data, NEW period \in Month, BeginUpdate(r, u, data, period)
      PROVE  ApprovedInv(r)'
  BY <1>4, BeginIsApproved DEF BeginUpdate, BeginEdit
<1>5. ASSUME NEW u \in User, NEW data \in Data, NEW period \in Month, BeginReview(r, u, data, period)
      PROVE  ApprovedInv(r)'
  BY <1>5, BeginIsApproved DEF BeginReview, BeginEdit
<1>6. ASSUME NEW u \in User, NEW data \in Data, NEW period \in Month, NEW newFile \in BOOLEAN,
             BeginResubmit(r, u, data, period, newFile)
      PROVE  ApprovedInv(r)'
  BY <1>6, BeginIsApproved DEF BeginResubmit, BeginEdit
<1>7. ASSUME NEW u \in User, BeginReplaceFile(r, u) PROVE ApprovedInv(r)'
  BY <1>7, BeginIsApproved DEF BeginReplaceFile, BeginEdit
<1>8. ASSUME NEW u \in User, BeginCancel(r, u) PROVE ApprovedInv(r)'
  BY <1>8, BeginIsApproved DEF BeginCancel, BeginEdit
<1>9. QED
  BY <1>1, <1>2, <1>3, <1>4, <1>5, <1>6, <1>7, <1>8 DEF Arrive

\* Only an approval approves, and it stores what it was shown.
LEMMA TransitionKeepsApproved ==
  ASSUME TypeOK, ClaimsAreExclusive, NEW r \in Req, SerialInv(r), ApprovedInv(r),
         WriteTransition(r)
  PROVE  ApprovedInv(r)'
<1>1. /\ job[r].to \notin PAYMENT_LOCKED /\ job[r].snap = inv
      /\ job[r].to \in INVOICE_APPROVED_UNPAID => job[r].action = "approve"
  BY DEF WriteTransition, Running, SerialInv, JobReflects, ClaimsAreExclusive, Idle,
         ApprovedInv, JobIsApproved
<1>2. /\ inv'.status = job[r].to /\ inv'.data = inv.data /\ inv'.reviewed = inv.reviewed
      /\ inv'.fp = IF job[r].action = "approve" THEN {inv.data} ELSE inv.fp
      /\ signedOff' = signedOff
  BY <1>1 DEF WriteTransition, TypeOK, Invoice, history
<1>3. ApprovalStands'
  BY <1>1, <1>2 DEF ApprovedInv, ApprovalStands, PaidDataWasApproved
<1>4. QED
  BY <1>3, FinishIsApproved DEF ApprovedInv, WriteTransition

\* An edit of an invoice that carries an approval changes none of its data, or
\* takes the approval back.
LEMMA EditsKeepApproved ==
  ASSUME TypeOK, NEW r \in Req, SerialInv(r), ApprovedInv(r),
         \/ WriteUpdate(r) \/ WriteReview(r) \/ WriteResubmit(r)
         \/ WriteReplaceFile(r) \/ WriteCancel(r)
  PROVE  ApprovedInv(r)'
<1>1. Finish(r)
  BY DEF WriteUpdate, WriteReview, WriteResubmit, WriteReplaceFile, WriteCancel
<1>2. job[r] # Idle /\ job[r].snap = inv
  BY DEF WriteUpdate, WriteReview, WriteResubmit, WriteReplaceFile, WriteCancel, Running,
         SerialInv, JobReflects, Idle
<1>3. CASE WriteUpdate(r)
  <2>1. /\ inv'.status = inv.status /\ inv'.data = job[r].data /\ inv'.fp = inv.fp
        /\ inv'.reviewed = (inv.reviewed /\ ~(job[r].data # inv.data /\ inv.reviewed))
        /\ inv'.confidence = inv.confidence /\ signedOff' = signedOff
    BY <1>2, <1>3 DEF WriteUpdate, TypeOK, Invoice, history
  <2>2. inv.status \in INVOICE_EDITABLE \/ (inv.status = "paid" /\ job[r].data = inv.data)
    BY <1>3 DEF WriteUpdate, Running, SerialInv, JobReflects
  <2>3. inv'.reviewed => inv.reviewed /\ job[r].data = inv.data
    BY <2>1
  <2>4. ApprovalStands'
    <3>1. CASE inv.status = "paid" /\ job[r].data = inv.data
      BY <2>1, <2>3, <3>1 DEF ApprovedInv, ApprovalStands, PaidDataWasApproved, PAYMENT_LOCKED
    <3>2. CASE inv.status \in INVOICE_EDITABLE
      BY <2>1, <2>3, <3>2 DEF ApprovedInv, ApprovalStands, PaidDataWasApproved, PAYMENT_LOCKED,
                              INVOICE_EDITABLE, INVOICE_APPROVED_UNPAID
    <3>3. QED BY <2>2, <3>1, <3>2
  <2>5. QED
    BY <1>1, <2>4, FinishIsApproved DEF ApprovedInv
<1>4. CASE WriteReview(r)
  <2> DEFINE voided == job[r].data # inv.data /\ inv.status \in INVOICE_APPROVED_UNPAID
  <2>1. /\ inv'.status = (IF voided THEN "needs_review" ELSE inv.status)
        /\ inv'.data = job[r].data /\ inv'.fp = (IF voided THEN {} ELSE inv.fp)
        /\ signedOff' = {job[r].data}
    BY <1>2, <1>4 DEF WriteReview, TypeOK, Invoice
  <2>2. inv.status \in INVOICE_REVIEW_DATA
    BY <1>4 DEF WriteReview, Running, SerialInv, JobReflects
  <2>3. inv'.status \notin PAYMENT_LOCKED
    BY <2>1, <2>2 DEF INVOICE_REVIEW_DATA, INVOICE_EDITABLE, INVOICE_REJECTABLE,
                      INVOICE_APPROVED_UNPAID, PAYMENT_LOCKED
  <2>4. inv'.status \in INVOICE_APPROVED_UNPAID => inv'.fp # {}
    BY <2>1 DEF ApprovedInv, ApprovalStands, INVOICE_APPROVED_UNPAID
  <2>5. ApprovalStands'
    BY <2>1, <2>3, <2>4 DEF ApprovalStands, PaidDataWasApproved
  <2>6. QED
    BY <1>1, <2>5, FinishIsApproved DEF ApprovedInv
<1>5. CASE WriteResubmit(r)
  <2>1. CASE inv.status = "needs_correction"
    <3>1. /\ inv'.status = "needs_review" /\ inv'.data = job[r].data
          /\ inv'.reviewed => inv.reviewed /\ job[r].data = inv.data
          /\ signedOff' = signedOff
      BY <1>2, <1>5, <2>1 DEF WriteResubmit, TypeOK, Invoice, history
    <3>2. ApprovalStands'
      BY <3>1 DEF ApprovedInv, ApprovalStands, PaidDataWasApproved, PAYMENT_LOCKED,
                  INVOICE_APPROVED_UNPAID
    <3>3. QED
      BY <1>1, <3>2, FinishIsApproved DEF ApprovedInv
  <2>2. CASE inv.status # "needs_correction"
    BY <1>5, <2>2, FinishKeepsApproved DEF WriteResubmit, history
  <2>3. QED BY <2>1, <2>2
<1>6. CASE WriteReplaceFile(r)
  <2>1. /\ inv'.status = inv.status /\ inv'.data = inv.data /\ inv'.fp = inv.fp
        /\ inv'.reviewed = FALSE /\ inv'.confidence = inv.confidence /\ signedOff' = signedOff
    BY <1>2, <1>6 DEF WriteReplaceFile, TypeOK, Invoice, history
  <2>2. ApprovalStands'
    BY <2>1 DEF ApprovedInv, ApprovalStands, PaidDataWasApproved
  <2>3. QED
    BY <1>1, <2>2, FinishIsApproved DEF ApprovedInv
<1>7. CASE WriteCancel(r)
  <2>1. /\ inv'.status = "canceled" /\ inv'.data = inv.data
        /\ inv'.reviewed = inv.reviewed /\ signedOff' = signedOff
    BY <1>7 DEF WriteCancel, TypeOK, Invoice, history
  <2>2. ApprovalStands'
    BY <2>1 DEF ApprovedInv, ApprovalStands, PaidDataWasApproved, PAYMENT_LOCKED,
                INVOICE_APPROVED_UNPAID
  <2>3. QED
    BY <1>1, <2>2, FinishIsApproved DEF ApprovedInv
<1>8. QED
  BY <1>3, <1>4, <1>5, <1>6, <1>7

\* Until it commits, a payment or a reversal is only a job.
LEMMA TransactionsKeepApproved ==
  ASSUME TypeOK, NEW r \in Req, ApprovedInv(r),
         SumPayments(r) \/ LockInvoice(r) \/ InsertPayment(r) \/ FlipPayment(r)
  PROVE  ApprovedInv(r)'
<1>1. UNCHANGED <<inv, signedOff>>
  BY DEF SumPayments, LockInvoice, InsertPayment, FlipPayment, history
<1>2. /\ job[r].kind \in {"pay", "reverse"}
      /\ job[r].kind = "pay" => job[r] \in PaymentJob
      /\ job[r].kind = "reverse" => job[r] \in ReversalJob
  BY JobKinds DEF TypeOK, SumPayments, LockInvoice, InsertPayment, FlipPayment, Running
<1>3. Finish(r) \/ job'[r].kind = job[r].kind
  BY <1>2 DEF TypeOK, SumPayments, LockInvoice, InsertPayment, FlipPayment, PaymentJob, ReversalJob
<1>4. JobIsApproved(r)'
  <2>1. CASE Finish(r) BY <2>1, FinishIsApproved
  <2>2. CASE job'[r].kind = job[r].kind
    BY <1>1, <1>2, <2>2 DEF ApprovedInv, JobIsApproved
  <2>3. QED BY <1>3, <2>1, <2>2
<1>5. QED
  BY <1>1, <1>4, ApprovedFrame

\* What a payment commits was approved, and signed off where it had to be.
LEMMA CommitPaymentKeepsApproved ==
  ASSUME TypeOK, NEW r \in Req, SerialInv(r), ApprovedInv(r), CommitPayment(r)
  PROVE  ApprovedInv(r)'
<1>1. job[r].kind = "pay"
  BY DEF CommitPayment, Running
<1>2. inv.status \in PAYABLE /\ job[r].to \in PAYMENT_LOCKED
  BY <1>1 DEF CommitPayment, Running, SerialInv, JobReflects, PAYMENT_LOCKED
<1>3. ~PaymentBlocked(inv.data, inv.confidence, inv.reviewed, inv.fp)
  BY <1>1 DEF ApprovedInv, JobIsApproved
<1>4. inv.fp # {}
  BY <1>2 DEF ApprovedInv, ApprovalStands, PaidDataWasApproved, PAYABLE, PAYMENT_LOCKED
<1>5. /\ inv.data \in inv.fp
      /\ inv.confidence = "low" => inv.reviewed
      /\ (inv.confidence = "medium" /\ HasCriticalPaymentGap(inv.data)) => inv.reviewed
  BY <1>3, <1>4 DEF PaymentBlocked
<1>6. /\ inv'.status = job[r].to /\ inv'.data = inv.data /\ inv'.reviewed = inv.reviewed
      /\ inv'.fp = inv.fp /\ inv'.confidence = inv.confidence /\ signedOff' = signedOff
  BY DEF CommitPayment, TypeOK, Invoice, history
<1>7. ApprovalStands'
  BY <1>4, <1>5, <1>6 DEF ApprovedInv, ApprovalStands, PaidDataWasApproved
<1>8. QED
  BY <1>7, FinishIsApproved DEF ApprovedInv, CommitPayment

\* What a reversal commits was paid before, so it was approved.
LEMMA CommitReversalKeepsApproved ==
  ASSUME TypeOK, ClaimsAreExclusive, NEW r \in Req, SerialInv(r), ApprovedInv(r),
         CommitReversal(r)
  PROVE  ApprovedInv(r)'
<1>1. job[r].kind = "reverse" /\ job[r] \in ReversalJob /\ ledger[job[r].key].status = "confirmed"
  BY JobKinds DEF TypeOK, CommitReversal, Running, ClaimsAreExclusive
<1>2. inv.status \in PAYMENT_LOCKED
  BY <1>1, ReversalUncovers DEF ReversalJob
<1>3. /\ inv.data \in inv.fp
      /\ (inv.confidence = "low" \/ (inv.confidence = "medium" /\ HasCriticalPaymentGap(inv.data)))
           => signedOff = {inv.data}
  BY <1>2 DEF ApprovedInv, ApprovalStands, PaidDataWasApproved
<1>4. /\ inv'.data = inv.data /\ inv'.reviewed = inv.reviewed
      /\ inv'.fp = inv.fp /\ inv'.confidence = inv.confidence /\ signedOff' = signedOff
  BY DEF CommitReversal, TypeOK, Invoice, history
<1>5. ApprovalStands'
  BY <1>3, <1>4 DEF ApprovedInv, ApprovalStands, PaidDataWasApproved
<1>6. QED
  BY <1>5, FinishIsApproved DEF ApprovedInv, CommitReversal

\* Every step of the one request, and every step around it, keeps the approval.
LEMMA NextKeepsApproved ==
  ASSUME TypeOK, ClaimsAreExclusive, NEW r, Req = {r}, SerialInv(r), ApprovedInv(r), [Next]_vars
  PROVE  ApprovedInv(r)'
<1>1. CASE UNCHANGED <<inv, signedOff, job>>
  BY <1>1, ApprovedFrame DEF ApprovedInv, JobIsApproved
<1>2. CASE UNCHANGED vars
  BY <1>1, <1>2 DEF vars
<1>3. CASE MonthCloses \/ MonthReopens \/ RegionalChanges
  BY <1>1, <1>3 DEF MonthCloses, MonthReopens, RegionalChanges, history
<1>4. CASE Arrive(r)
  BY <1>4, ArriveKeepsApproved
<1>5. CASE Crash(r) \/ DeadlockAbort(r)
  BY <1>5, FinishKeepsApproved DEF Crash, DeadlockAbort, history
<1>6. CASE Proceed(r)
  BY <1>5, <1>6, TransitionKeepsApproved, TransactionsKeepApproved, EditsKeepApproved,
     CommitPaymentKeepsApproved, CommitReversalKeepsApproved DEF Proceed
<1>7. QED
  BY <1>2, <1>3, <1>4, <1>5, <1>6 DEF Next

\* An invoice that was just submitted, or is still a draft, carries no approval.
LEMMA InitIsApproved ==
  ASSUME Init, Origin \subseteq {"submitted", "draft"}, NEW r \in Req
  PROVE  ApprovedInv(r)
<1>1. inv.status \in {"needs_review", "draft"} /\ inv.reviewed = FALSE /\ job[r] = Idle
  BY DEF Init, Submitted, Draft, NewInvoice
<1>2. QED
  BY <1>1 DEF ApprovedInv, ApprovalStands, PaidDataWasApproved, JobIsApproved, Idle,
              PAYMENT_LOCKED, INVOICE_APPROVED_UNPAID

\* One request at a time, an invoice that went through the workflow of today is
\* only ever paid on the data that was approved and, where the recognition was
\* doubtful, signed off.
THEOREM SerialPaidDataWasApproved ==
  ASSUME NEW r, Req = {r}, Origin \subseteq {"submitted", "draft"}
  PROVE  Spec => []PaidDataWasApproved
<1> USE DEF Spec
<1>1. Init /\ TypeOK => SerialInv(r) /\ ApprovedInv(r)
  BY InitIsSerial, InitIsApproved
<1>2. TypeOK /\ TypeOK' /\ ClaimsAreExclusive /\ SerialInv(r) /\ ApprovedInv(r) /\ [Next]_vars
        => SerialInv(r)' /\ ApprovedInv(r)'
  BY NextKeepsSerial, NextKeepsApproved
<1>3. ApprovedInv(r) => PaidDataWasApproved
  BY DEF ApprovedInv, ApprovalStands
<1>4. QED
  BY <1>1, <1>2, <1>3, TypeCorrect, ClaimsExclusive, PTL

-----------------------------------------------------------------------------
(* Whatever the requests do to each other: the dead stay dead.             *)

\* A request that moves an invoice read one that was neither rejected nor
\* canceled.
SnapshotsAreLive ==
  \A r \in Req :
    /\ job[r].kind = "transition" => job[r].snap.status \notin {"rejected", "canceled"}
    /\ job[r].kind = "review" => job[r].snap.status \in INVOICE_REVIEW_DATA

\* A slot that was freed, or goes on with what it read, stays live.
LEMMA LiveFrame ==
  ASSUME TypeOK, SnapshotsAreLive, NEW r \in Req, NEW j, job' = [job EXCEPT ![r] = j],
         j.kind = "transition" => j.snap.status \notin {"rejected", "canceled"},
         j.kind = "review" => j.snap.status \in INVOICE_REVIEW_DATA
  PROVE  SnapshotsAreLive'
<1>1. job'[r] = j /\ \A q \in Req \ {r} : job'[q] = job[q]
  BY DEF TypeOK
<1>2. QED
  BY <1>1 DEF SnapshotsAreLive

\* A request that will move an invoice begins with a live one.
LEMMA ArriveStaysLive ==
  ASSUME TypeOK, SnapshotsAreLive, NEW r \in Req, Arrive(r)
  PROVE  SnapshotsAreLive'
<1>1. ASSUME NEW u \in User, NEW action \in InvoiceAction, BeginTransition(r, u, action)
      PROVE  SnapshotsAreLive'
  <2>1. PICK to \in ApplyInvoiceAction(action, inv.status, Roles(u), hasActiveRegional, u = Author) :
          Begin(r, "transition",
                [pc |-> "write", kind |-> "transition", action |-> action,
                 snap |-> inv, to |-> to])
    BY <1>1 DEF BeginTransition
  <2>2. inv.status \notin {"rejected", "canceled"}
    BY DEF ApplyInvoiceAction, INVOICE_EDITABLE, INVOICE_REJECTABLE, INVOICE_APPROVED_UNPAID
  <2>3. QED
    BY <2>1, <2>2, LiveFrame DEF Begin
<1>2. ASSUME NEW u \in User, NEW k \in Key, NEW when \in Month, BeginPayment(r, u, k, when)
      PROVE  SnapshotsAreLive'
  BY <1>2, LiveFrame DEF BeginPayment, Begin
<1>3. ASSUME NEW u \in User, NEW k \in Key, BeginReversal(r, u, k)
      PROVE  SnapshotsAreLive'
  BY <1>3, LiveFrame DEF BeginReversal, Begin
<1>4. ASSUME NEW u \in User, NEW data \in Data, NEW period \in Month, BeginUpdate(r, u, data, period)
      PROVE  SnapshotsAreLive'
  BY <1>4, LiveFrame DEF BeginUpdate, BeginEdit, Begin
<1>5. ASSUME NEW u \in User, NEW data \in Data, NEW period \in Month, BeginReview(r, u, data, period)
      PROVE  SnapshotsAreLive'
  BY <1>5, LiveFrame DEF BeginReview, BeginEdit, Begin
<1>6. ASSUME NEW u \in User, NEW data \in Data, NEW period \in Month, NEW newFile \in BOOLEAN,
             BeginResubmit(r, u, data, period, newFile)
      PROVE  SnapshotsAreLive'
  BY <1>6, LiveFrame DEF BeginResubmit, BeginEdit, Begin
<1>7. ASSUME NEW u \in User, BeginReplaceFile(r, u) PROVE SnapshotsAreLive'
  BY <1>7, LiveFrame DEF BeginReplaceFile, BeginEdit, Begin
<1>8. ASSUME NEW u \in User, BeginCancel(r, u) PROVE SnapshotsAreLive'
  BY <1>8, LiveFrame DEF BeginCancel, BeginEdit, Begin
<1>9. QED
  BY <1>1, <1>2, <1>3, <1>4, <1>5, <1>6, <1>7, <1>8 DEF Arrive

\* What was read of a live invoice stays what was read.
LEMMA StepStaysLive ==
  ASSUME TypeOK, SnapshotsAreLive, [Next]_vars
  PROVE  SnapshotsAreLive'
<1>1. CASE UNCHANGED job
  BY <1>1 DEF SnapshotsAreLive
<1>2. ASSUME NEW r \in Req, Finish(r) PROVE SnapshotsAreLive'
  BY <1>2, LiveFrame DEF Finish, Idle
<1>3. ASSUME NEW r \in Req, Arrive(r) PROVE SnapshotsAreLive'
  BY <1>3, ArriveStaysLive
<1>4. ASSUME NEW r \in Req, SumPayments(r) \/ LockInvoice(r) \/ InsertPayment(r) \/ FlipPayment(r)
      PROVE  SnapshotsAreLive'
  <2>1. /\ job[r].kind \in {"pay", "reverse"}
        /\ job[r].kind = "pay" => job[r] \in PaymentJob
        /\ job[r].kind = "reverse" => job[r] \in ReversalJob
    BY <1>4, JobKinds DEF TypeOK, SumPayments, LockInvoice, InsertPayment, FlipPayment, Running
  <2>2. CASE Finish(r)
    BY <1>2, <2>2
  <2>3. CASE ~Finish(r)
    <3>1. job'[r].kind = job[r].kind /\ \A q \in Req \ {r} : job'[q] = job[q]
      BY <1>4, <2>1, <2>3 DEF TypeOK, SumPayments, LockInvoice, InsertPayment, FlipPayment,
                              PaymentJob, ReversalJob
    <3>2. QED BY <2>1, <3>1 DEF SnapshotsAreLive
  <2>4. QED BY <2>2, <2>3
<1>5. ASSUME NEW r \in Req, Proceed(r) \/ Crash(r) PROVE SnapshotsAreLive'
  BY <1>2, <1>4, <1>5 DEF Proceed, Crash, WriteTransition, CommitPayment, CommitReversal,
       WriteUpdate, WriteReview, WriteResubmit, WriteReplaceFile, WriteCancel, DeadlockAbort
<1>6. QED
  BY <1>1, <1>3, <1>5 DEF Next, vars, MonthCloses, MonthReopens, RegionalChanges

\* A step that brings a dead invoice back wrote the ledger.
LEMMA StepRevivesByLedger ==
  ASSUME TypeOK, ClaimsAreExclusive, SnapshotsAreLive, [Next]_vars,
         inv.status \in {"rejected", "canceled"}, inv'.status \notin {"rejected", "canceled"}
  PROVE  ledger' # ledger
<1>1. inv' # inv
  OBVIOUS
<1>2. PICK r \in Req : \/ WriteTransition(r) \/ CommitPayment(r) \/ CommitReversal(r)
                       \/ WriteUpdate(r) \/ WriteReview(r) \/ WriteResubmit(r)
                       \/ WriteReplaceFile(r) \/ WriteCancel(r)
  <2>1. PICK r \in Req : Arrive(r) \/ Proceed(r) \/ Crash(r)
    BY <1>1 DEF Next, vars, MonthCloses, MonthReopens, RegionalChanges
  <2>2. ~Arrive(r)
    BY <1>1 DEF Arrive, Begin, BeginTransition, BeginPayment, BeginReversal, BeginUpdate,
                BeginReview, BeginResubmit, BeginReplaceFile, BeginCancel, BeginEdit
  <2>3. ~Crash(r) /\ ~DeadlockAbort(r)
    BY <1>1 DEF Crash, DeadlockAbort
  <2>4. ~SumPayments(r) /\ ~LockInvoice(r) /\ ~InsertPayment(r) /\ ~FlipPayment(r)
    BY <1>1 DEF SumPayments, LockInvoice, InsertPayment, FlipPayment
  <2>5. QED
    BY <2>1, <2>2, <2>3, <2>4 DEF Proceed
<1>3. CASE WriteTransition(r)
  BY <1>1, <1>3 DEF WriteTransition, SnapshotsAreLive, Running
<1>4. CASE CommitPayment(r)
  <2>1. job[r] \in PaymentJob /\ ledger[job[r].key] = NoPayment
    BY <1>4, JobKinds DEF TypeOK, CommitPayment, Running, ClaimsAreExclusive
  <2>2. job[r].key \in Key /\ ledger'[job[r].key].status = "confirmed"
    BY <1>4, <2>1 DEF CommitPayment, TypeOK, PaymentJob
  <2>3. QED
    BY <2>1, <2>2 DEF NoPayment
<1>5. CASE CommitReversal(r)
  <2>1. job[r] \in ReversalJob /\ ledger[job[r].key].status = "confirmed"
    BY <1>5, JobKinds DEF TypeOK, CommitReversal, Running, ClaimsAreExclusive
  <2>2. ledger'[job[r].key].status = "reversed"
    BY <1>5, <2>1 DEF CommitReversal, TypeOK, ReversalJob, Payment
  <2>3. QED
    BY <2>1, <2>2
<1>6. CASE WriteUpdate(r)
  BY <1>6 DEF WriteUpdate, TypeOK, Invoice
<1>7. CASE WriteReview(r)
  BY <1>1, <1>7 DEF WriteReview, SnapshotsAreLive, Running, INVOICE_REVIEW_DATA,
                    INVOICE_EDITABLE, INVOICE_REJECTABLE, INVOICE_APPROVED_UNPAID
<1>8. CASE WriteResubmit(r)
  BY <1>1, <1>8 DEF WriteResubmit
<1>9. CASE WriteReplaceFile(r)
  BY <1>1, <1>9 DEF WriteReplaceFile, TypeOK, Invoice
<1>10. CASE WriteCancel(r)
  BY <1>10 DEF WriteCancel, TypeOK, Invoice
<1>11. QED
  BY <1>2, <1>3, <1>4, <1>5, <1>6, <1>7, <1>8, <1>9, <1>10

\* No workflow action, however stale what it read, brings a rejected or canceled
\* invoice back, whatever number of requests are in flight.
THEOREM OnlyLedgerRevives == Spec => OnlyTheLedgerRevives
<1>1. Init => SnapshotsAreLive
  BY DEF Init, SnapshotsAreLive, Idle
<1>2. TypeOK /\ SnapshotsAreLive /\ [Next]_vars => SnapshotsAreLive'
  BY StepStaysLive
<1>3. TypeOK /\ ClaimsAreExclusive /\ SnapshotsAreLive /\ [Next]_vars
        => [inv.status \in {"rejected", "canceled"} /\ inv'.status \notin {"rejected", "canceled"}
              => ledger' # ledger]_vars
  BY StepRevivesByLedger
<1>4. QED
  BY <1>1, <1>2, <1>3, TypeCorrect, ClaimsExclusive, PTL DEF Spec, OnlyTheLedgerRevives
=============================================================================
