# A verification of CLUB-OPS

CLUB-OPS is a server that keeps the money of a chain of sports clubs: invoices, cash
expenses, refunds, collections, payroll, budgets, sales and fiscal receipts. It is a
Next.js application: every operation is a *server action*, a TypeScript function that
runs in a request of its own, reads and writes a relational database through Prisma
and, for documents, an object storage. Nothing else coordinates two requests. A
status, a sum or a role that a handler has read may have changed at its next `await`.

This directory holds TLA+ models of the parts where that matters most, TLC runs on
small instances, and TLAPS proofs for every value of the constants. All paths below are
relative to `src/src/` (`lib/...`, `app/(app)/...`), except `prisma/`, which is
`src/prisma/`.

1. [Parts of the system](#1-parts-of-the-system)
2. [How the code is modelled](#2-how-the-code-is-modelled)
3. [The modules](#3-the-modules)
4. [The runs](#4-the-runs)
5. [What is proved](#5-what-is-proved)
6. [Where the code and its documentation disagree](#6-where-the-code-and-its-documentation-disagree)
7. [What is not modelled](#7-what-is-not-modelled)
8. [Plan](#8-plan)

## 1. Parts of the system

| Part | State | Operations | Hard behaviour | What makes it correct | Module |
|---|---|---|---|---|---|
| Access rules (`lib/access.ts`, `lib/auth.ts`) | roles per company and club | predicates called by every handler | roles and assignments change between a check and the write | each effect was permitted to its actor | `AccessRules` |
| Invoice workflow and ledger (`invoices/actions.ts`, `lib/invoices*.ts`) | `Invoice`, `InvoicePayment` | submit, approve, return, reject, cancel, edit, review, pay, reverse | the status is derived from a ledger and written by several handlers at once | status and ledger agree; nothing is overpaid; only approved data are paid | `InvoiceRules`, `InvoiceContour`, `AppendOnlyLedger` |
| Invoice intake (same file) | `PendingInvoiceUpload`, stored objects, `clientSubmissionId` | upload, create, replace document, resubmit | storage outside the transaction; crashes; repeated forms | no lost or shared document; one invoice per form | `InvoiceIntake` |
| Month closing (`lib/month-close.ts`, `month-*-actions.ts`) | `MonthClose`, `MonthReopenRequest` | close, request, approve, reject, execute | plain writes after a check; a null in a unique index | four eyes; one reopening per approval | `MonthClosing` |
| Expenses v2 (`expenses/simplified-actions.ts`, `document-actions.ts`) | `Expense`, `ExpenseDocument` | draft, edit, submit, approve, verify, return, cancel, change date, documents | compare-and-set on a *set* of statuses; cash recorded after the verification | approved route; cash follows the row | `ExpenseContour` |
| Cash wallets (`lib/cash-wallets.ts`, `expenses/cash-actions.ts`) | `CashWallet`, `CashMovement` | opening balance, income, transfer, confirmation | wallet created on demand; balance read before the write | one wallet; no overdraft; confirmed rows are final | `CashWallets` |
| Refunds (`refunds/*`, `lib/refund-workflow.ts`, `lib/approval.ts`) | `Refund`, `RefundDocument`, stored objects | draft, upload, calculate, submit, approve, return, pay; the old approval | a document per slot, replaced while it is being submitted; compare-and-set on a status read earlier | only complete refunds leave the manager; what was approved is paid, once | `Refunds`, `RefundContour` |
| Daily cash reconciliation (`collections/reconciliation-actions.ts`) | `DailyCashReconciliation` | count, explain, confirm, close | an upsert over a reviewed day | a day with a difference closes only after a decision about it | `CashReconciliation` |
| Cash opening points, collections (`collections/*`) | `BalanceSnapshot`, collections | enter, correct | find-then-create | one active opening point | not modelled |
| Budgets (`budgets/*`) | requests, proposals, limits | decide on an overrun or a limit | decision written into the expense whatever its status | a decided request is not decided again | not modelled |
| Payroll periods (`payroll/periods/*`, `lib/payroll/aggregate.ts`) | period, calculation, adjustments, totals | generate, submit, review, approve, close, reopen, adjust | totals re-summed by every handler | totals agree with rows; what a closed period leaves is a debt | `PayrollTotals`, `PayrollPeriods` |
| Payroll payments (`lib/payroll/payment-service.ts`, `salary-expense.ts`) | `PayrollPayment`, salary expense | pay, reverse | idempotency keys, serialization conflicts and retries | at most one effect per key; never more than was earned; expense and total agree | `PayrollPeriods`, `PayrollContour`, `AppendOnlyLedger` |
| Payroll advances, debts, change requests (`payroll/*`) | advance with tranches, debts, requests | approve, raise, pay tranche, settle, write off, apply | sums and claims outside transactions | nothing is paid beyond the approved amount or applied twice | `PayrollAdvances`, `PayrollChanges`, `PayrollPeriods` |
| Payment calendar, mandatory payments (`lib/payment*.ts`) | plans; otherwise a view | create, pause, cancel | none of its own | - | not modelled |
| Sales reports (`sales/*`) | reports, documents | submit, confirm, reject, undo | confirmation by a plain update | what was checked is what is confirmed | not modelled |
| Fiscal import (`lib/ofd/*`) | runs, receipts, lines, daily and category summaries | import by two providers, categorise, sum up | a fetch or a process that fails half-way; bindings that change | a receipt counts once; summaries equal the sum of receipts | `FiscalState`, `FiscalImport` |
| Cash registers and cashiers (`settings/integrations/ofd`, `lib/ofd/c*`, `payroll/ofd-cashiers`) | registers with history, cashiers, mappings, attributed sales | add, bind, edit, switch, archive, delete, purge; assign, exclude, apply | keys kept by hand, open intervals, sales applied meanwhile | no register of a receipt is lost; a drive has one register; only confirmed cashiers earn | `CashRegisters`, `CashierMappings`, `FiscalContour` |
| Notifications, Telegram (`lib/notifications/*`, `lib/telegram/*`) | outbox rows, link codes, connections | enqueue, drain, link, unlink | crash between claim and send; lost answers; overlapping drains | each row settles; a message arrives twice only if an answer was lost | `TelegramLinking`, `NotificationOutbox`, `MessageDelivery` |
| Storage, documents (`lib/storage/*`) | objects | put, get, delete | outside any transaction | a referenced object exists | inside `InvoiceIntake` |
| Recognition (`lib/ai/*`) | none | analyse | an external answer | any answer is handled | as a free choice |
| Sessions, login (`lib/session.ts`, `login-challenge.ts`, `account-container.ts`) | sessions, code challenges, accounts per browser | send, resend, verify, switch, revoke | a code superseded or consumed meanwhile; cookies on either side | a code opens one session; signing out forgets nobody | `AccountState`, `AccountLogin` |
| Users, invitations, deletion (`users/*`, `lib/invite-service.ts`, `account-*.ts`) | users, access rows, invitations, recovery rows | invite, accept, revoke, convert, deactivate, delete, restore | any order of them; write skew between two owners | nothing comes back with a restored account; a company keeps an owner | `AccountState`, `AccountMembers`, `Accounts` |
| Settings, legal entities (`settings/*`, `lib/db-locking.ts`) | companies, clubs, entities | create, edit, archive | an explicit row lock | at most one sole trader per club | not modelled |
| Import batches (`lib/import-batches.ts`) | batches and their rows | import, revert | reverting records that have moved on | no processed record is reverted | not modelled |
| Audit log, analytics, exports, health, user interface, deployment | append-only rows, or none | read | - | - | not modelled |

How they interact. Every money handler asks *month closing* whether its month is open.
Invoices, expenses and refunds ask *access rules* whether the club has an active
regional director, and route to somebody else if not. Expenses, refunds and payroll
record their cash in *cash wallets* by a unique source. Payroll creates expenses.
Imports create invoices, expenses and reports and may revert them. All of them write
audit rows and notifications, which nothing reads back.

Cashiers become employees' sales, and those a calculation of payroll. `PROJECT.json` lists
every part with its files, and the hazards at their lines; where no property covers one
completely, its note says what is left.

## 2. How the code is modelled

**A server action is a job in a request slot.** `Req` is the set of slots: the number
of requests that may be in flight together. A job is a record that holds the handler's
program counter, what it has read, and what it is about to write. Its first action
(`BeginX`) models everything from the call to the `await` before the first write: it
reads the rows and decides on the guards of the code. A refused request changes nothing,
and so only requests that pass begin. Each later action is one database statement, or
several that nothing can come between. The last one frees the slot.

**Writes are those of the code.** `updateMany` with a status in its `where` is a
compare-and-set on the row as it is then; `update` by id is an unconditional write. That
difference is most of what the models are about.

**The database is PostgreSQL under Read Committed.** `prisma/schema.prisma` is the
SQLite schema of development; `prisma/production/schema.prisma` and
`docker-compose.production.yml` are PostgreSQL. Inside `$transaction` each statement
sees what is committed when it starts; an updated row stays locked until the end;
inserting a unique key waits for an uncommitted row with that key. The models keep an
open transaction's writes inside its job until `commit`, state the locks as predicates
(`HoldsInvoice`, `KeyInFlight`, `RowInFlight`, `UploadInFlight`, ...), and let the
database abort one transaction of a cycle (`DeadlockAbort`). Unique indexes are
functions: a payment ledger is a function from idempotency keys to rows, the cash
movements one from sources to rows. Where the index does not hold (a column that is null
in PostgreSQL), several rows may exist: `close` in `MonthClosing`, `wallets` in
`CashWallets`.

**Crashes.** `Crash(r)` ends a job at any point: a restarted process, a lost
connection, a failed statement. Its open transaction disappears; what it committed
before stays. No handler persists anything in order to continue later.

**Scenarios.** A part with twenty handlers cannot be explored with all of them at once.
From `ExpenseContour` on, a module therefore has a variable `scenario` that `Init`
chooses from `CONSTANT Scenarios` and that never changes: which handlers and faults
(`calls`) may occur in this behaviour, in which request slots, and on which rows it
starts. A scenario with one slot is every *sequence* of its handlers, one with two slots
their interleavings. A property that holds only for some of them says so in its premise
(`Serial`, `Quiet`, `"failure" \notin scenario.calls`). The theorems hold for every
set of scenarios that satisfies the assumptions of section 5.

**Statements still to do.** In the payroll, account, refund and reconciliation modules
a job carries `todo`, the list of statements that its handler still has to make; the
handler's guards decide the list when it begins, and each action takes its head. Two
handlers that share a statement (`recompute`, `revoke sessions`, `grant`) share its action.

**Serializable payments.** `lib/payroll/payment-service.ts` runs at the level Serializable.
A payment or reversal works on the snapshot of its first statement; when another
transaction has written the calculation since, the job is marked `stale` and fails at
its end, and `Retry` starts it anew, `MaxAttempts` times. The body without isolation
(line 188) is taken only where the database offers no Serializable level, never on
PostgreSQL, and is not modelled.

**Data.** Money is a natural number of kopeks; the code keeps amounts as integers far
below the width of a double, so no width is modelled. The financial fields of an
invoice are one record of `Data` (amount, month, what is missing); two different fields
are two elements, and the fingerprint of approved data (SHA-256 of the normalised
fields in `lib/invoices.ts`) is the element itself. Dates are months or days as small
numbers. What is recognised on a document is any element of `Data`.

**Assumptions.** A caller belongs to the company and club of the record, so that only
roles and authorship decide. Ids and storage keys are fresh. An approval role (the
active regional director) and the closed months may change at any time
(`RegionalChanges`, `MonthCloses`, `MonthReopens`).

**Mutants in the modules.** A definition with a suffix (`WriteUpdate_KeepsReview`)
directly before the definition it mutates is a plausible bug; it is not part of any
specification. `PROJECT.json` names the property that it breaks.

## 3. The modules

**`AccessRules`** - the role predicates shared by the components:
`ExpandEffectiveRoles` (a chief accountant is also an accountant), `IsManagerOnly`,
`CanCreateOperational`, `CanMutateOperationalRecords`.

**`InvoiceRules`** - the pure decisions: the workflow's table (`ApplyInvoiceAction`),
who may edit, pay, reverse and review, what blocks a submission (`SubmitBlocked`) or a
payment (`PaymentBlocked`), and what a ledger implies (`PaidTotal`, `Remaining`,
`DerivedInvoiceStatus`, `ValidPaymentAmount`).

**`InvoiceContour`** - one invoice and every handler that changes it.

| State | Code |
|---|---|
| `inv` | the `Invoice` row: status, data, expense period, confidence, `aiDataReviewedAt` (`reviewed`), `approvedDataFingerprint` (`fp`), `prePaymentStatus` (`pre`), `paidAt` |
| `ledger` | the `InvoicePayment` rows, by idempotency key |
| `closed`, `hasActiveRegional` | what `monthClosedError` and `hasActiveRegionalApproverForClub` answer |
| `signedOff` | history only: the data the last review looked at |

| Actions | Handler |
|---|---|
| `BeginTransition`, `WriteTransition` | `transitionInvoice` |
| `BeginPayment`, `SumPayments`, `LockInvoice`, `InsertPayment`, `CommitPayment` | `recordInvoicePayment`, `applyInvoicePaymentInTx` |
| `BeginReversal`, `FlipPayment`, `CommitReversal` | `reverseInvoicePayment`, `applyInvoicePaymentReversalInTx` |
| `BeginUpdate`, `WriteUpdate` | `updateInvoice` |
| `BeginReview`, `WriteReview` | `reviewInvoiceData` |
| `BeginResubmit`, `WriteResubmit` | `saveAndResubmitInvoice` |
| `BeginReplaceFile`, `WriteReplaceFile` | `replaceInvoiceFile` (the document itself is in `InvoiceIntake`) |
| `BeginCancel`, `WriteCancel` | `cancelInvoice` |

`Init` has the rows that the code can have left: submitted, draft, approved by an owner
in the older workflow ("legacy"), or entered as already paid ("historical",
`saveHistoricalInvoice`).

**`AppendOnlyLedger`** - the abstract promise of a payment ledger: a key records at most
one payment, a payment is reversed at most once, nothing else ever happens to it.
`InvoiceContour!Ledger` is the instance with `Entry <- Payment`, `None <- NoPayment`;
`LedgerIsAppendOnly` says that the contour implements it.

**`InvoiceIntake`** - from a document to an invoice. `stored` is the object storage,
`upload` the `PendingInvoiceUpload` rows, `invoice` the invoices (by id, with the
document they point to and the one they were created from). `uploadAndAnalyzeInvoice`
is `BeginUpload`, `PutFile`, `RecordUpload`; `createAndSubmitInvoice` is `BeginCreate`,
`FindDuplicate`, the transaction `ConsumeUpload`, `InsertInvoice`, `CommitCreate`, and
`AnswerLoser` after a rollback; `replaceInvoiceFile` and `saveAndResubmitInvoice` are
`BeginReplace` / `BeginResubmit`, `PutFile`, `SwapFile`, `DropFile`. `Expire` is the 24
hours of an upload. Each of storage, database and process may fail (`Faults`). Its jobs
are `request`; its other names differ from those of fiscal data, the other part that takes
something in from outside, so that one module can state what is proved of both.

**`MonthClosing`** - one month: `close` (the `MonthClose` rows with a null club),
`reopening` (the requests to reopen), `executed` (history: how often each reopened the
month); its other names differ from those of payroll, the other part that works by the
month, so that one module can state what is proved of both. `closeMonth`, `requestMonthReopen`, `approveMonthReopen`, `rejectMonthReopen`,
`executeMonthReopen` are `BeginClose` .. `CommitExecute`.

**`CashWallets`** - a club's cash as confirmed movements; wallets on demand
(`BeginWithWallet`, `CreateWallet`), opening balance, other income, transfers and their
confirmation, and `RecordExpense`, which the expense workflow calls. A regional
director's wallet, which its unique index covers, is identified with the director.

**`ExpenseContour`** - extends `CashWallets` with one simplified expense and its
documents, and so composes the two: `verifyExpense` is `BeginVerify`, `WriteVerify` and, in
later steps of its own, `ReadVerified`, which reads the row again, `FindExpenseWallet` for a
row without a wallet, and `RecordMovement`, which uses `RecordExpense` with what was read.
`BeginUpdate` and `WriteUpdate` are `updateExpense`, the form of the older expenses, which
reaches this one as well and writes amount and date in any status; the history `verifiedAs`
keeps what the row has said since its verification. `cancelExpense` does not reach it: it
takes none of its statuses (`lib/expenses.ts:107`). `FromStatus` holds the
statuses that each compare-and-set accepts, which are wider than the one status the
handler has checked. `pending_owner` rows exist only as leftovers (a scenario whose `origin`
contains "owner").

### Payroll

One employee's month in one club. `PayrollTotals` holds the status machine of a period
(`Moves`), the gates, and the arithmetic of tranches and debts.

| State (`PayrollTotals`) | Code |
|---|---|
| `period` | the status of the `PayrollPeriod` row |
| `calc` | the `PayrollCalculation`: status, what a scheme computed, net, paid |
| `adjustment`, `payment`, `tranche`, `debt`, `request` | the rows of `PayrollAdjustment`, `PayrollPayment` (by key), `PayrollAdvancePayment` (by key), `EmployeeFinancialObligation`, `PayrollChangeRequest` |
| `advance` | the one `PayrollAdvance` row of the month |
| `expense` | the salary expenses that payments, advances and tranches create |
| `owed` | the `PayrollPaymentObligation` that the payment calendar shows |

`PayrollTotals` has what every handler ends with: the two steps `Sum` and `Total` of a
recomputation (`aggregate.ts`), the cancellation of a salary expense (`Refund`), the
update of `owed` (`Bill`, `Owe`). On it stand three
modules with one `BeginX` per server action and one action per statement.
`PayrollPeriods`: create, generate, save inputs, transitions (with the closing and its
debt), adjustments, payments and reversals, settlements and write-offs.
`PayrollAdvances`: an advance recorded at once or requested, approved, raised, paid in
tranches, reversed, cancelled. `PayrollChanges`: proposals, decisions, the approval with
claim, effect, mark and release, the retry of a scheme's new version. `PayrollContour`
composes them and instantiates `AppendOnlyLedger` a second time: a cancelled payment is
a reversed entry.

The page of expenses reaches a salary expense too (`expenses/actions.ts`):
`BeginCancelExpense` takes a "confirmed" one, `BeginEditExpense` any, and `RewriteExpense`
is their plain update by id, which touches neither payout nor totals. A status "canceled"
is the page's, "cancelled" that of a payout that was returned (`salary-expense.ts:109`);
the two spellings are the code's, and a reversal after the page's cancellation still
cancels. `MoneyIsCounted` takes both "confirmed" and "canceled" as money that is out.

### Accounts

A company with one club, and one browser. `AccountState` has the rows and the access predicates
(`GetInvitableRoles`, `CanManageClubUsers`, who may deactivate or convert whom).

| State (`AccountState`) | Code |
|---|---|
| `user` | `User`: active, deleted, verified, address |
| `access` | `CompanyUserAccess` and `ClubUserAccess` rows |
| `invite`, `challenge`, `session` | the `Invite`, `EmailOtpChallenge` and `Session` rows |
| `recovery` | the address that an open `AccountDeletion` keeps |
| `device` | one browser: its session cookie, its container cookie, and the sessions stored in the container |

`AccountLogin` is registration, the code of a login or of a sensitive action (sending
supersedes earlier codes, wrong codes are counted, verification consumes and then opens
the session), adding, switching and removing accounts in a browser, and signing out.
`AccountMembers` is invitations and their acceptance, access, conversion between manager
and regional director, deactivation, deletion, restoration under the old or another
address. `Accounts` composes them.

### Notifications

`TelegramLinking`: `enabled`, `linked` (the chats of a user, newest last), `code`. A
`/start` reads the owner of the chat, then in one transaction consumes the code, retires
other connections and links. `NotificationOutbox` adds `outbox` and the drains: `StartDrain`
reads a batch, then for each row `Claim`, `FindChat`, `Send`, `Block` or `Skip`, `Record`.
The bot's answer is ok, lost, busy, blocked or malformed. `copies` and `doubt` are
history: what arrived, and how many answers were lost. `MessageDelivery` is the abstract
specification with three phases, waiting, sent, given up; `Promise` is its instance with
`phase <- [n \in Note |-> Phase(n)]`, and the property `DeliversAsPromised` is the
refinement.

### Refunds and reconciliation

`Refunds`: `refund` (the row of the new process: status, type, requisites, inputs,
calculation), `doc` (the document rows by file), `stored` (the object storage). An
upload is guard, `put`, transaction (retire the slot's document, insert, or lose) and
removal of the loser's or the replaced file. `Current` is the comparison of a submission
with the fingerprint, which a calculation without one passes. `RefundContour` adds `legacy`, a refund of
the old process with its approval by several roles, and the history `approved` and
`payments` that the properties compare with. `CashReconciliation`: one day's `row` per
legal entity of the club; a count is its difference from the expected balance, and
`decided` is history, the difference that a regional director decided about.

### Fiscal data

| State (`FiscalState`) | Code |
|---|---|
| `connection`, `register`, `history` | `OfdConnection`; `OfdCashRegisterMapping`; the drives and assignments of a register |
| `sync` | the `OfdSyncRun` rows of a connection: how many are running, how the last one ended |
| `receipt`, `item` | imported receipts with the binding they were booked under; their lines |
| `daily`, `category` | the summaries: the *set* of receipts or lines that was summed |
| `rule` | the category into which lines fall now |
| `identity`, `mapping` | cashiers, and which employee each is from when until when |
| `attribution`, `sales` | to whom a receipt's sale counts; the automatic sales of a calculation |

`CashRegisters` has each server action on a register: the full edit reads its history and
writes in a transaction; deleting counts what was imported and archives or deletes.
`FiscalImport` has the batch of the cron, the two importers (register by register, page
by page), the storing of receipts and lines, and the recomputation of each touched day as
separate read, delete and insert. `CashierMappings` has the gathering of cashiers from
receipts, the assignment from a day on with the locks its updates take, exclusion, and
the application of a period's sales receipt by receipt. `FiscalContour` composes them.

## 4. The runs

| Run | Module, cfg | Slots | States | What it shows |
|---|---|---|---|---|
| `invoice_serial` | `MCInvoiceContour`, `InvoiceSerial` | 1 | 83 thousand | status and ledger agree and nothing is overpaid; only approved and, where doubtful, signed-off data are paid |
| `invoice_races` | `InvoiceRaces` | 2, crashes | 159 thousand | append-only ledger, exclusive claims, a paid status has a row, no workflow write revives a dead invoice |
| `invoice_progress` | `InvoiceProgress` | 2 | 57 thousand | under fairness each request ends, also through a deadlock |
| `intake_races` | `MCInvoiceIntake`, `IntakeRaces` | 2, faults | 374 thousand | documents exist; one invoice per form, which answers only with its own |
| `month_reopening` | `MCMonthClosing`, `MonthReopening` | 1, crashes | 12 thousand | each approval opens the month once, four eyes |
| `expense` | `MCExpenseContour`, `Expense` | 1; 2 (two), crashes | 644 thousand | the route; cash true to what was verified; a verified expense has its cash; covered transfers |
| `payroll` | `MCPayrollContour`, `Payroll` | 1 (eight); 2 (four) | 437 thousand | totals, money counted once, tranches, debts; payments implement the ledger; bonuses granted once |
| `accounts` | `MCAccounts`, `Accounts` | 1 (five); 2 (two) | 357 thousand | a code opens one session; nothing comes back with an account and an owner stays, at every step; cookies; invitations grant once |
| `outbox` | `MCNotificationOutbox`, `Outbox` | 1; 2; two drains | 354 thousand | links exclusive and by a code; the refinement of `MessageDelivery`; every row settles |
| `refunds` | `MCRefundContour`, `Refunds` | 1 (two); 2 (three) | 403 thousand | one stored file per slot; complete submissions; what was approved is paid, once |
| `fiscal` | `MCFiscalContour`, `Fiscal` | 1 (five); 2 (three) | 1.5 million | summaries equal the stored rows; receipts keep their register; one drive, one register; one cashier per day; only confirmed mappings pay |
| `recon_unreviewed` | `MCCashReconciliation`, `VUnreviewed` | 1 | violation | a day is closed with a difference that nobody decided about |

**Serial and overlapping.** Some properties are promises that the code keeps as
long as requests do not overlap, and are checked with one slot through every *sequence*
of handlers. They are not vacuous: each needs a long
legal sequence to be broken, and each is broken by a small change of one handler. Most hold
at every step, those of accounts also where a handler crashes. The
others hold under overlap and are checked with two slots. Two are enough for races
between a reader and a writer, and for a cycle of two waiting transactions; a cycle needs
a key and a row, and a transaction holds at most one of each. The properties that
are proved hold for any number. Every scenario of an MC module has a comment that says
which case it is for.

**Bounds: invoices, months, expenses.** `Data` has an element that may be paid at once
and, in `invoice_serial`, one with a missing requisite and another amount, so that edits
change both the amount and what blocks. Amounts up to 2 allow a payment in two parts;
three keys allow paying in two parts, reversing one and paying again. One month suffices,
as it is either closed or open at each check; callers are a manager (the author), a
regional director and a chief accountant, so that every guard has both someone who passes
and someone who does not. Intake: three forms of two users, three documents, two
invoices. Months: four requests and two rows, a user who is both owner and chief
accountant, `MaxExecuted` 2, one more than allowed. Expenses: one day or two,
`MaxDocuments` 2 against three documents (3 in the code); every amount is 1, as
the route does not look at it and a wallet either covers a transfer or does not; two candidate ids for the
club's wallet, since the second is what must not appear.

**Bounds: payroll.** Amounts 1 and 2, two adjustments, two payment keys and two tranche
keys: paying in two parts, paying too much after an adjustment was cancelled, reversing
and paying again are all there. One advance, one debt, one request, one salary voucher
without a source of its own. The scenarios with the page of expenses cancel or edit the
expense of a payment, and cancel that of a tranche, before and after a reversal, and
while one is open. `MaxAttempts` is 2 (5 in the code): a second failure
exhausts it.

**Bounds: accounts and notifications.** Three users, two of them owners, of whom one may
be deleted and one must not; two or three codes and sessions, two invitations.
`MaxAttempts` and `MaxSends` 2 (5 in the code), `MaxResends` 1: each limit is reached and
passed. Two chats, two codes, two notifications, `Batch` 2 (50 or 25 in the code),
`MaxTries` and `MaxAttempts` 2 (5 in the code): a batch holds more than one row, and one
row is given up while another waits.

**Bounds: refunds and fiscal data.** Three files for two slots, one of them replaced; two
sums of a contract. Two connections, one per provider; two registers, two drives, two
clubs, one legal entity or none; three receipts, one of Taxcom and two of Astral, of one
cashier on two days, so that a mapping may begin between them; two employees, three
mappings, the third of which is the one that must not be added.

**Symmetry.** Slots, keys, files, ids, clubs and employees are interchangeable and only
compared for equality, and both the next-state relations and the properties are symmetric
in them, even where a scenario starts with one slot. Not every set is permuted in every
run: `payroll`, `refunds` and `fiscal` leave the slots as they are, since there the
permutations cost more than they save. No liveness property is checked under
symmetry: `invoice_progress` and `outbox` use none. New ids are chosen with `\E`, never by
`CHOOSE`.

**Deadlock checking** is off where the system can really stop, and the cfg says why: all
keys or ids used up, or a record in a final status. `invoice_serial` and
`month_reopening` check it.

**Fairness.** `InvoiceContour!FairSpec` assumes weak fairness of `Proceed(r)` for each
request: the server runs an accepted request to its end, the database grants a lock that
is free and aborts one of two transactions that wait for each other. No user is obliged
to call anything, crashes are not assumed, and no handler loops or retries. A request that
waits for the invoice's lock could in principle be overtaken again and again; but the
lock is taken early only by a payment that captures the pre-payment status, none does
after the first such payment has committed, and where two keep waiting for each other each
may be aborted. `NotificationOutbox!Spec` assumes weak fairness of `BackoffEnds` (time
passes), `StartDrain` (the cron keeps calling the drain endpoint) and `DrainStep` (a
statement returns, and a send has a timeout of 12 seconds). It assumes nothing about the
bot: every send may fail or lose its answer for ever, and a drain in `mortal` may die at
any step and stays dead. What `RowsSettle` rests on is then the bound on attempts.

## 5. What is proved

The modules named `*_proofs` are checked by TLAPS for all values of the constants that
satisfy the named assumptions of their component: any number of requests, users, keys,
rows, files, wallets, payments, chats and drains, and any amounts. TLC evaluates the assumptions in every run of the
modules. Most say what a constant ranges over. The others say on which rows a behaviour
may start, as TLC's scenarios do:

- `RowsAssumption` (`RefundContour`): without a refund or with one its manager still
  edits, whose amount is the one last calculated, with at most one document in a slot, and
  with finitely many slots for requests.
- `ScenarioAssumption` (`TelegramLinking`): connections that are exclusive, and finitely
  many slots.
- `ScenarioAssumption` (`AccountState`): a company that has an owner, sessions of its
  users, and finitely many slots.
- `ScenarioAssumption` (`ExpenseContour`): a new expense or an old one that waits for an
  owner, with positive amounts; what `updateExpense` writes may be 0. `SourceAssumption` (`CashWallets`): the source of the
  expense's movement is no wallet, transfer or income, and no transfer's is one of those.
- `StartAssumption` (`FiscalContour`): rows as the handlers leave them. A register that is
  read holds the key of its drive, and no other holds it; a stored receipt has a register
  with its drive; a cashier who is known has one open mapping, which counts only once it was
  confirmed and not if he is excluded. `RowsAssumption` says what the rows are,
  `DaysAssumption` (`CashierMappings`) that an open interval ends after every receipt.
- `ScenarioAssumption`, `PayoutAssumption` (`PayrollTotals`): nothing yet, or a month with
  an approved amount; the ids of payments, tranches and vouchers differ.

| Theorem | Says |
|---|---|
| `InvoiceContour_proofs!TypeCorrect` | `Spec => []TypeOK` |
| `ClaimsExclusive` | `Spec => []ClaimsAreExclusive` |
| `PaidInvoiceHasRow` | `Spec => []PaidHasRow` |
| `PreStatusNamesAPayment` | `Spec => []PreNamesAPayment` |
| `ImplementsLedger` | `Spec => LedgerIsAppendOnly`, the refinement |
| `SerialStatusReflectsLedger` | `Spec => []StatusReflectsLedger`, with one request slot, without historical entries |
| `SerialPaidDataWasApproved` | `Spec => []PaidDataWasApproved`, with one slot, without historical or legacy entries |
| `OnlyLedgerRevives` | `Spec => OnlyTheLedgerRevives`, an action property |
| `IntakeContours_proofs!TypeCorrect` | `IntakeSpec => []TypeOK` |
| `DocumentIsKept` | `IntakeSpec => []FileIsStored` |
| `FormMakesOne` | `IntakeSpec => []OneInvoicePerForm` |
| `SalesAreConfirmed` | `Spec => []OnlyConfirmedPays` of `FiscalContour`, without a purge |
| `DrivesStayExclusive` | `Spec => []DrivesAreExclusive`, with one request slot |
| `ReceiptsStayWithRegister` | `Spec => []ReceiptsKeepTheirRegister`, with one slot, without a purge or another drive for a register |
| `DaysStayWithOneCashier` | `Spec => []DaysHaveOneCashier`, with one slot; of open mappings, also where assignments overlap |
| `MonthlyContours_proofs!TypeCorrect` | `MonthSpec => []TypeOK` |
| `FourEyes` | `MonthSpec => []ReopeningIsApproved` |
| `ReopensOnce` | `MonthSpec => []ExecutedOnce`, with one request slot |
| `PaymentsAreALedger` | `Spec => PaymentLedger`, the refinement of `AppendOnlyLedger` by payroll |
| `PaymentsSerialise` | `Spec => []PaymentsAreSerial` |
| `TranchesStayWithinApproved` | `Spec => []TranchesWithinApproved`, one slot where tranches are paid |
| `BonusesAreAsked` | `Spec => []BonusesFollowRequests` |
| `TotalsFollowRows` | `Spec => []TotalsMatchRows`, where a scenario of one slot has neither crash nor failure |
| `ExpenseContour_proofs!RegionalReviewsFirst` | `Spec => []RegionalFirst` |
| `CashIsVerified` | `Spec => []CashFollowsVerification` |
| `VerifiedHasMovement` | `Spec => []VerifiedIsRealized` |
| `TransfersDoNotOverdraw` | `Spec => TransfersAreCovered`, an action property, one slot where movements are confirmed |
| `RefundContour_proofs!OneStoredFilePerSlot` | `Spec => []SlotHoldsOneStoredFile` |
| `PaidAsApproved` | `Spec => []PaidOnceAsApproved` |
| `SubmissionsAreComplete` | `Spec => []SubmittedIsComplete` |
| `NotificationOutbox_proofs!LinksByCode` | `Spec => LinksUseACode`, an action property |
| `LinksAreExclusive` | `Spec => []ConnectionsAreExclusive` |
| `ImplementsDelivery` | `Spec => DeliversAsPromised`, the refinement |
| `Accounts_proofs!LoginOpensOnce` | `Spec => []LoginsAreSpent` |
| `InvitationGrantsOnce` | `Spec => InvitesGrantOnce`, an action property |
| `LeaversHoldNothing` | `Spec => []LeftAccountsHoldNothing`, with one request slot |
| `OwnerRemains` | `Spec => []CompanyKeepsAnOwner`, with one request slot |
| `CookieStaysStored` | `Spec => []CookieIsStored`, with one slot, without a crash or a failure to attach |

*Typing.* Jobs are a union of record sets, one per handler. `JobKinds` says that the
`kind` of a job determines its set; after that there is one lemma per action.
`DerivedTyped` bounds the derived status whatever the sums are, so that the proof needs
nothing of the fold behind `PaidTotal`.

*Sums.* What is paid, what a wallet holds and what tranches add up to are folds over a
set in an order that `CHOOSE` picks. `SumLemmas` shows that the order does not matter: by
the least-number principle the recursive function behind the fold exists and is unique on
every finite set, and taking any element first gives the same total (`TotalTakesAny`).
From it come the lemmas the proofs cite: a row that is confirmed adds its amount
(`WriteAdds`), one that is cancelled takes it away (`WriteTakes`), any other write leaves
the sum (`WriteKeeps`), and a part is at most the whole.

*The ledger.* The refinement rests on one fact: when a payment or a reversal commits, the
row it writes is still as it found it. The claim was made one or more steps earlier, and
other requests ran in between. `ClaimsAreExclusive` is that fact, as an inductive
invariant: a payment about to commit has a free key that no other transaction in flight
has, a reversal a confirmed row that no other transaction in flight has reversed. It
also carries that a reversal's key has a row, and that no pending workflow write carries
a paid status. With it, each commit is exactly one step of `AppendOnlyLedger` and every
other step a stutter.

*Paid means a row.* `PaidHasRow` is inductive only together with typing and
`ClaimsAreExclusive`: the handlers that write a status read earlier cannot have a paid
one to write, commits leave a row behind, and rows are never deleted.

*One request at a time.* With one slot, what the handler under way has read of the invoice
and of the ledger still holds (`SerialInv`): so the status it derives is the one the sums
imply after its own write, by `WriteAdds` and `WriteTakes`. `PaidDataWasApproved` adds that
an invoice past the approval has a fingerprint of the data it shows (`ApprovedInv`). Rows
of the older processes are left out of these two theorems because for them they are false:
a historical entry has no status to fall back on, a legacy approval no fingerprint.

*Revival.* Under overlap, what a workflow handler has read may be stale, but it was the
snapshot of a live row, and the status it will write is one to which a dead invoice cannot
be brought (`SnapshotsAreLive`): its compare-and-set fails on a dead row. What remains is
the ledger.

*Documents of invoices.* A replacement stores the new file, changes the row and deletes
the old one, and any of this may fail. `FileInv` follows a file through its states: new
(`NewIsApart`: one request writes it and nothing mentions it), offered by an upload not
consumed (`OfferedIsStored`), the document of one invoice (`AuthoritativeIsStored`: nobody
is deleting it, and only requests on that invoice will replace it), or left over. Keys are
generated once (`KeysAreMinted`). Only what is left over is deleted.

*One invoice per form.* The unique keys of the form and of the consumed upload are held
by uncommitted transactions. `ClaimsHold` says what a creation under way still has at each
of its statements: its upload unconsumed and its own, then the form without an invoice.
With it a form makes at most one (`OnePerForm`), and the answer of a repeated form is the
invoice of that form and of its author (`OwnersAgree`).

*Four eyes.* `ReopeningIsApproved` speaks of executed requests only. The inductive
invariant `IInv` adds that whatever is no longer pending was decided by an owner other
than the author (`DecisionsAreReviewed`), that a review under way is by such an owner
(`JobsAreEntitled`) - the author of a request never changes, so a check made at the start
still holds at the write, although the status may not -, and that an executed count
belongs to a decided request (`ExecutionsAreDecided`).

*Reopened once.* With one slot, what the only handler under way has read of its request
still holds when it writes (`OnceInv`): a review finds it pending, an execution approved.
So nothing makes an executed request approved again. The theorem takes "one slot" as its
hypothesis, since with two it is false (section 6).

*Payroll: the course of a handler.* `Course` lists, for each kind of handler, which
statements remain at each of them, and `Placed` says that every job under way is on its
course and that a request keeps its kind. It holds whatever interleaves, fails or crashes,
and all that is proved of payroll rests on it.

*Serializable payments.* `PaymentInv` says what a payment that is not stale still finds
when it commits: its key is free, or the payment to reverse is confirmed - any commit in
between would have made it stale. So payments implement `AppendOnlyLedger`, with or without
other handlers. Where only the payment service writes, `SerialPayments` adds that the totals
are those of the rows, that each expense matches its payment, and that a transaction in
time carries the totals that its commit will make true.

*Tranches.* The premise of `TranchesWithinApproved` is that tranches are not paid by two
requests at once, since then it is false (section 6). `TrancheInv` says that the finitely
many tranches that are paid add up to at most what is approved, that the tranche under way
still fits, and that a raise under way will raise it.

*Bonuses are counted.* `BonusInv` counts rows against requests, under any overlap: the
requests that brought a bonus about (`Granted`: applied, or about to be marked) are at most
the bonuses there are (`Given`), and, where no statement fails, the bonuses there are and
those about to be created (`Granting`) are at most the requests ever claimed. The second
is what the claim, a compare-and-set, is for: only it adds to either side, and it adds one
to both.

*Totals follow the rows.* What is accrued and received is computed by one handler, kept in
its job, and written one or more statements later; every other handler of payroll changes a
row that it is computed from. `TotalsAgree` says that with one slot the totals are those of
the rows unless the handler under way is about to recompute them, or to pay an advance that
it has recorded already (`Pending`). What each handler knows is in `OnCalc` and `OnBook`: a
transaction in time and a recomputation carry the totals that their write makes true; a
reversal of a tranche recomputes exactly if there is a calculation, which cannot appear in
between; a draft is never locked, so closing a period cannot make its totals count before
they are computed; and raising an advance that was paid by tranches leaves what was
received. The premise is the one of the run: a process that dies between a row and the
totals leaves them apart.

*Expenses.* Each transition is a compare-and-set on the status it read. `JobIsGrounded`
says what else a decision rests on and nobody can take away: the author never changes, so
an approver who was somebody else still is; and a verified expense stays verified, with
the wallet it has. Its amount and date do not stay, as `updateExpense` writes them in any
status: what the movement records was read of the row once it was verified, and is
therefore in `verifiedAs`, whatever the row says when it is recorded (`HasRead`); where
nobody calls `updateExpense` that is what the row still says (`Noted`).
`RegionalFirst` needs no more than that the target of a job under way was decided with the
right role. For `VerifiedIsRealized`, the invariant says that a verified expense has its
movement unless the very request that verified it is about to record it
(`RecordedUnlessRecording`), or its amount was taken away before it was read (`Excused`).

*Covered transfers.* `MoneyInv` says that a confirmation under way still finds the funds it
asked for, since nobody else moves money where one request is handled at a time, and that
finitely many movements with natural amounts are confirmed. The confirmation then takes
what it asked for from the wallet and from no other (`SumLemmas`).

*One document per slot.* An upload reads the slot's documents, takes those out of force
and inserts its own in one transaction; others run between the read and the insert. The
inductive invariant `DocInv` adds `UploadsAreApart`: a file belongs to one upload, no
document in force names it, and from `replace` on it is in the storage. So the document
inserted is new, and whatever still holds the slot and was not seen by the removal makes
the upload lose (`InsertKeepsDocs`); the file that an upload removes afterwards is one
that no document in force names (`DiscardKeepsDocs`).

*Paid as approved.* `PayInv` adds, for the new process, that the amount is the approved
one in every status from the approval on - every handler that changes it is a
compare-and-set on an editable status - and that a payment under way has seen a positive
amount, which nothing can change any more. For the old process, it adds that a transition
under way to an approved status was decided by somebody other than the author: the author
never changes, so the decision is still right when the write succeeds.

*Complete submissions.* The premise of `SubmittedIsComplete` is one slot. `CompleteInv`
says that then only one handler runs (`OneJob`), that an edit under way finds the row
editable and a submission finds it complete (`ReadsAreCurrent`), and that the amount of
a row is the positive result of its last calculation (`AmountIsComputed`), through any
sequence of types, inputs and calculations. That the result is of the inputs shown is
promised, and proved, of the calculations that have a fingerprint.

*Links.* A consumption of a code holds the locks of the rows it has taken until its
commit, and takes the code by a compare-and-set: of two that hold one code only one
connects (`CodesAreHeldOnce`), whatever they read before (`LinkInv`). Exclusiveness needs
more, and has one slot as its premise: what the consumption has read of the chat's owner
is still true (`SerialInv`).

*What pays was confirmed.* Whatever overlaps, a mapping keeps its cashier, its employee and
its first day, stays confirmed once it is, and is not deleted; a receipt that is stored
keeps its cashier. So what backed a sale when an application of sales resolved it still
backs it several statements later, when it is attributed or counted (`PayInv`: `Backed` is
carried from the resolution to the row and to the sums, a sale with its employee). Only a
purge takes receipts away, and with it the premise.

*One drive, one register.* With one slot, `RegInv` says that a register that is read holds
the key of its drive, that keys differ within a provider (`KeysDiffer`, kept by the unique
index and by each handler's own key), and that what an edit, a binding or a switch under
way has read is still the row and its key (`RegisterJobs`). *Receipts keep their register*
adds `HeldInv`: every register that an import under way has read, and every receipt in its
batch, still has a register of that drive, and a deletion under way found nothing stored of
its drive. In the handler that archives instead, the row stays.

*One cashier a day.* With one slot, of each cashier at most one mapping counts and it is
open (`DayInv`), and the mappings that an assignment or an exclusion goes by are still those
that it read (`CashierGoesBy`). Where assignments overlap, two of them may have looked up
the same open mapping. `OpenInv` says that each works on the mapping it found, which is
still the open one or was closed by another; that no two hold the lock of one mapping
(`TodosApart`); and that the second, which had to wait, opens nothing: it meets the open
mapping of the first (the guard at `cashier-mapping-service.ts:106`) or confirms again the
one it found. So there is always exactly one open.

*Delivery.* Each step of the outbox is a step of `MessageDelivery` or a stutter because a
row that is being sent is held by exactly one drain (`RowsAreHeldOnce`: the claim is a
compare-and-set, and nothing else gives a row the status `sending`), because a message
has arrived at most once more than answers were lost, and because a drain that records
"sent" has an arrival to show for it (`ArrivalsAreAnswered`).

*Logins and invitations.* Every statement of a handler is a step of its own, and `todo`
is what the handler still has to do: `LoginInv` says for every job which plan it is in the
middle of and what that plan rests on (`Planned`). A login that has consumed its challenge
is the only one in flight with it (`OpeningsAreApart`), and no session names it yet; the
consumption is a compare-and-set, so a second one finds the challenge consumed. The rest
is that a session keeps the name of its code (`SessionsNameTheirCode`) and that a consumed
challenge stays so. An invitation gives access only where its status is compared and set.

*Who leaves, and who stays.* These two have one slot as their premise: with two they are
false (section 6). `SlotInv` adds to `LoginInv` that what is written of users, access,
sessions and codes fits together at every step (`RowsAreKept`), and that what the one
handler under way has seen of the accounts still holds (`Grounded`): the account it opens
a session for is active, the one it gives access to is not deleted, the one it deactivates
or deletes, or takes the owner's row from, is not the only owner. All the steps that leave
users and access alone, and bring back no session or code, are settled by one lemma
(`CalmKeeps`). A crash is the end of a plan, so the theorems hold wherever one happens.

*The browser.* `CookieInv` adds to `SlotInv`, under the premise of `CookieIsStored` (one
slot, no crash, no failure to attach), that what the browser holds are sessions that were
opened, each with its account (`BoxHolds`), and that what the handler under way carries is
still what the browser holds (`Carries`). The cookie may name a session that stands and
that no account holds at two moments only (`Excuses`): between opening a session and
attaching it, and between letting go of an account and signing its session off. Between
two requests neither is the case. With a crash at one of them the property is false, and
so it is the premise.

*Only model-checked:* liveness (`RequestsEnd`, `RowsSettle`), because neither fairness nor
`ENABLED` is within the prover's reach; of payroll, `MoneyIsCounted` and `DebtIsAccounted`,
whose invariants would have to follow the expenses and the debts through every handler as
`TotalsFollowRows` follows the totals; and of fiscal data, `SummariesMatchReceipts`, which
would need to follow an import's touched days through its failures.

## 6. Where the code and its documentation disagree

With a run that shows it:

- `recon_unreviewed`: counting a day again (`collections/reconciliation-actions.ts:94`)
  overwrites the difference but keeps who reviewed it, and the closing looks only at that:
  a difference nobody decided about is closed, against the comment at lines 135-136.

Met while modelling. Each is reachable in its model by the change in parentheses; where
there is none, the model's property excepts it or the behaviour is left out.

*Invoices and months*

- The sum of earlier payments is read before the transaction (`invoices/actions.ts:672`):
  two payments may exceed the invoice, against `lib/invoice-payments.ts:38` (a second slot
  in `invoice_serial`).
- An invoice entered as paid stays paid after its payment was reversed: there is no
  pre-payment status to fall back on (`lib/invoices/payment-ledger.ts:97`; the origin
  "historical").
- The status derived in a payment's transaction (`payment-ledger.ts:76`) overwrites a review
  that changed the data and withdrew the approval, against `invoices/actions.ts:1289-1291`;
  a canceled invoice with a payment in flight becomes paid (a second slot; this is why
  `OnlyTheLedgerRevives` excepts the ledger). The cancellation itself is a plain update
  (line 1165), and a sign-off survives an edit of the data that was read before it (798).
- A repeated form is refused for want of an unconsumed upload (`invoices/actions.ts:364`)
  before its invoice is looked up, against `prisma/schema.prisma:916-918`.
- A payment lands in a month closed between the check (`invoices/actions.ts:666`) and its
  transaction.
- The approval of a reopening is a plain update (`month-reopen-actions.ts:108`) and may land
  on an executed request, which then is executed again, against line 161; two requests of
  one month become active (line 49); with two rows for a month an execution opens one and
  the month stays closed.

*Expenses and cash*

- A crash between a verification and its movement (`simplified-actions.ts:293`) leaves the
  expense verified without cash, as a second verification is refused.
- `updateExpense` (`expenses/actions.ts:429`) writes the amount and the date of an expense by
  its id, in any status and of either process, unlike `refunds/actions.ts:241`: of a verified
  one the movement keeps the old ones, and of an approved one the amount is no longer the one
  approved. An amount of 0 written before the movement is recorded leaves the expense
  without cash. (The call "update"; `CashFollowsVerification` asks of the movement what the
  row said once it was verified, and that it is what the row says where nobody updates it.)
- The club's wallet may be created twice (`lib/cash-wallets.ts:38`) and overdrawn by
  confirmations that overlap (line 309).
- An old row that waits for an owner may be forwarded by an owner who is its author
  (`lib/expense-simplified.ts:206-208`), although nobody approves their own expense
  elsewhere (line 201); `RegionalFirst` allows it.
- The limit of documents rests on SQLite's serial writers (`document-actions.ts:101`), but the
  production database is PostgreSQL; a document may be removed while the expense is
  submitted.
- The reconciliation writes entity after entity outside a transaction
  (`reconciliation-actions.ts:72`): an error leaves half of a day counted.

*Payroll*

- Two tranches of one advance, each within the approved amount, together exceed it: the sum
  is re-read inside the transaction (`payroll/advance-actions.ts:309`), but under Read
  Committed, against line 273 (two slots in the scenario with "tranche").
- Raising an advance that was paid at once makes it "approved" again without recomputing
  the totals (line 266), and its cancellation then returns no money; cancelling an advance
  paid in tranches leaves their expenses (183-205).
- A salary expense is created "confirmed" (`payroll/salary-expense.ts:50`), and the page of
  expenses offers to cancel whatever is (`expenses/[id]/page.tsx:69`). `cancelExpense`
  (`expenses/actions.ts:488`) and `updateExpense` (line 429) change that row and nothing
  else: the payout, the total paid and the cash stay, and the expense is no longer
  among the expenses, or has another amount. A later reversal returns to the wallet the
  amount of the edited expense, not what was paid (`salary-expense.ts:94-104`).
  Hence `MoneyIsCounted` counts payouts, not standing expenses, and compares their amounts
  only where nothing was edited.
- A failure after a bonus was created releases the claim of its request
  (`change-requests/actions.ts:552-553`), and the retry grants it again.
- The payment's transaction does not look at the period's status again; two closings race
  on the search for an existing debt (`periods/actions.ts:461`); two recomputations may
  write the older sum last (`aggregate.ts:63`); two settlements lose one
  (`obligations/actions.ts:84`).

*Accounts*

- A login in flight during a deactivation or deletion creates its session afterwards, and
  it is valid when the account is active again (`users/actions.ts:619-624`).
- Two owners who delete or remove each other at once leave none
  (`lib/account-deletion.ts:114-115`); the rechecks of a conversion read outside its
  transaction; a direct grant may reach an account deleted meanwhile.
- A failed attachment to a browser's container is swallowed by the login: the cookie's
  session is then in no list, and signing out everywhere leaves it.

*Notifications*

- Overlapping requests may link one chat to two users, or one user to two chats, against
  `lib/telegram/linking.ts:3-4`; the loser of a double `/start` is told that he is
  connected.
- Drains that overlap count attempts from an old row (`outbox.ts:114`), so that a row may be
  tried more often than "max 5" (`club-ops-full-system-audit.md:422`); a row in the state
  `sending` whose drain died is never looked at again; rows of a user who was deactivated
  still go out.

*Refunds*

- A refusal recorded by one calculation survives when the type changes and the inputs are
  kept (`refund-document-actions.ts:322`); requisites and type are plain updates that may
  overtake a submission. A calculation made before fingerprints were kept is submitted
  without being compared with the inputs the row shows
  (`refund-document-actions.ts:557-559`); `Refunds.Current` and `SubmittedIsComplete` say
  so, and a scenario starts from such a row. In the old process the approved amount may still be edited, and
  nothing in the new one keeps a regional director from approving their own refund.

*Fiscal data*

- The first change of a register's drive leaves no trace of the old one, as
  `ensureInitialHistory` is never called: `deleteCashRegister` may then delete for good a
  register whose receipts were imported, against `settings/integrations/ofd/actions.ts:421`
  and 480 ("renumber" next to "delete" and "import" in one scenario).
- A run left running by a crash or a unique violation refuses all later imports of its
  connection (`lib/ofd/daily.ts:5-7`); a crashed new categorisation, and a purge, leave
  summaries behind; two imports, or an import and a categorisation, may write an older
  sum last.
- Lines of several legal entities of one club on one Astral page are booked under the first
  (`lib/ofd/astral/importer.ts:321`), a day of which may not be summed up; the lines of
  receipts imported before are stored under the new binding.
- `updateOfdMapping` records no assignment, although `cash-register-service.ts:50` speaks of
  every change; an edited register that is off takes its key again (`settings/integrations/ofd/actions.ts:462`), one
  that was archived and switched on keeps an old one; a switch computed from an old row
  takes the old drive's key; overlapping edits leave two open assignments.
- "historical receipts keep their old attribution" (`cashier-mapping-service.ts:86`), but
  a closed mapping is inactive, and applying the sales again leaves past receipts
  without an employee.
- Three overlapping assignments revive a closed mapping (line 102) and may give a day two
  employees; an exclusion that overlaps an assignment leaves an excluded cashier who is
  paid for; a gathering that overlaps an assignment may leave two open mappings. Applying
  sales does not look at the period's status again, and may overtake a manual figure.

## 7. What is not modelled

*Of the modelled parts.* Everywhere: audit rows, notifications and revalidated pages
(written after the effect, and read by no handler); the wording of refusals; the scope of
companies and clubs (an assumption). Invoices: the expense period beyond its value.
Expenses: budget annotations, the cash cutover flag, the other fields that `updateExpense`
writes. Payroll: the cash movement of a
payout and of its reversal, a change of a salary expense's date, the arithmetic of salary schemes and the forms of trainers,
advances of other months. Accounts: changes of password and email, rate limits and their
windows, the expiry of sessions, the creation of companies, the administrators of the
platform. Refunds: the cash movement and the search for duplicates. Fiscal data:
refunds (no code attributes them), a sale that both providers report, the dates of a
register's history, sums of money other than the set summed, connections' credentials.

*Parts without a module.* Budgets and the older expenses annotate each other and are
replaced by the simplified process; the two handlers of the older form that take any
expense, `updateExpense` and `cancelExpense`, are modelled where they reach a simplified
or a salary expense. The decision on a budget request (`budgets/actions.ts:137`) and the
reverting of an import (`lib/import-batches.ts:304`) write only rows of those older forms. Manual sales reports and imports from workbooks are
switched off (`lib/disabled-features.ts`). Cash opening points and collections are
single inserts after a search, the pattern of `CreateWallet` in `CashWallets`. Settings are
forms serialised by a row lock (`lib/db-locking.ts`). Formulas of pay are arithmetic,
case by case, and a model of them would be the same text again.

*How much of the code.* A little under a tenth of the lines is mapped to definitions. The rest of the
repository is not state that could be modelled: React pages and forms, the parsers of
receipts and documents, HTTP clients of providers, analytics and exports that only read,
wording and validation of fields, and one-off scripts for pilots and migrations. The
handlers that change shared state, which is what these models are about, are mostly
covered.

## 8. Plan

Done: the access rules; invoices with their ledger and intake; month closing; expenses
and cash wallets; payroll with payments, advances, debts and change requests; accounts;
notifications; refunds; daily reconciliation; fiscal imports, registers and cashiers; the
proofs of all of these but daily reconciliation.

Next, in this order:

1. Proofs: `MoneyIsCounted` and `DebtIsAccounted` of `PayrollContour`;
   `SummariesMatchReceipts` of `FiscalContour`.
2. Budget requests over the expense row; the cash movements of refunds and payroll over
   `CashWallets`.
3. Sales reports and import batches, if they are switched on again: a report edited while
   it is confirmed (`sales/report-actions.ts:262`), a batch reverted over records that
   moved on.

A property is kept if it takes several steps to break and some small change of the code
breaks it; a divergence gets a run of its own only when nothing else shows it.
