---------------------------- MODULE ExpenseContour ----------------------------
(***************************************************************************)
(* One cash expense, its documents, and the movement it leaves in the      *)
(* club's cash (expenses/simplified-actions.ts, document-actions.ts and    *)
(* lib/expense-simplified.ts), together with the handlers of CashWallets.  *)
(*                                                                         *)
(* A manager's expense goes to the regional director, then to accounting;  *)
(* a regional director's own goes to accounting at once.  Accounting       *)
(* verifies it, and only then, at a later await and in no common           *)
(* transaction, is the cash movement recorded.                             *)
(*                                                                         *)
(* A handler reads the expense with everything it decides on in its first  *)
(* step; its write is a compare-and-set on the status in the database, by  *)
(* a set of statuses which need not be the one it read.  The form of the   *)
(* older expenses (updateExpense) also reaches this one, and writes its    *)
(* amount and date in whatever status it is, verified or not.  The amount  *)
(* and the date are one value; budgets only annotate the submission, and   *)
(* the category and the month close only refuse: they are left out.        *)
(***************************************************************************)
EXTENDS CashWallets

CONSTANTS
  Doc,     \* the documents that may be uploaded
  MaxDocuments  \* the limit of active documents: 3 in the code, less in small instances

\* A scenario also says how the expense may have come to exist, which values its
\* financial fields may take, which the older form may write (its amount may be 0),
\* and which documents may be uploaded.
ASSUME ScenarioAssumption ==
  \A s \in Scenarios : /\ s.origin \subseteq {"new", "owner"} /\ s.docs \subseteq Doc
                        /\ s.data \subseteq [amount : Nat \ {0}, when : Nat]
                        /\ s.updates \subseteq [amount : Nat, when : Nat]
ASSUME LimitAssumption  == MaxDocuments \in Nat \ {0}
VARIABLES
  exp,        \* the Expense row
  doc,        \* the ExpenseDocument rows
  hasActiveRegional, \* whether the club has an active regional director
  forwarded,  \* history: who has forwarded the expense to accounting
  verifiedAs  \* history: the amounts and dates the row has had since it was verified

paper   == <<exp, doc>>
history == <<forwarded, verifiedAs>>
vars    == <<wallets, movement, scenario, job, exp, doc, hasActiveRegional, history>>

EXP == {"draft", "pending_regional", "pending_owner", "pending_accountant",
        "needs_correction", "verified", "cancelled"}

NoExpense == [status |-> "none"]

V2_EDITABLE   == {"draft", "needs_correction"}
V2_CANCELABLE == EXP \ {"verified", "cancelled"}

-----------------------------------------------------------------------------
(* Guards (lib/expense-simplified.ts).                                     *)

CanSee(u) == IsManagerOnly(Roles(u)) => u = exp.author

Manages(u)  == CanCreateOperational(Roles(u))
Accounts(u) == "accountant" \in Roles(u)
Owns(u)     == "owner" \in Roles(u)

CanEditExpense(u)         == exp.status \in V2_EDITABLE /\ Manages(u)
CanApproveRegional(u)     == exp.status = "pending_regional" /\ IsRegional(u) /\ u # exp.author
CanApproveOwner(u)        == exp.status = "pending_owner" /\ Owns(u)
CanVerifyExpense(u)       == exp.status = "pending_accountant" /\ Accounts(u)
CanReturn(u) ==
  \/ exp.status = "pending_regional" /\ IsRegional(u)
  \/ exp.status = "pending_owner" /\ Owns(u)
  \/ exp.status = "pending_accountant" /\ Accounts(u)
CanCancelExpense(u)       == exp.status \in V2_CANCELABLE /\ Manages(u)
CanChangeExpenseDate(u)   == exp.status \notin {"verified", "cancelled"} /\ IsRegional(u)

ActiveDocuments == {d \in Doc : doc[d] = "active"}

\* No handler writes pending_owner any more; rows that are there can still be
\* approved by an owner.
Init ==
  /\ CashInit
  /\ job = [r \in Req |-> Idle]
  /\ scenario \in Scenarios
  /\ \/ /\ "new" \in scenario.origin
        /\ exp = NoExpense
        /\ doc = [d \in Doc |-> "none"]
     \/ /\ "owner" \in scenario.origin
        /\ \E u \in User, data \in scenario.data :
             /\ Manages(u)
             /\ exp = [status |-> "pending_owner", author |-> u, data |-> data, wallet |-> NoWallet]
        /\ \E d \in scenario.docs : doc = [e \in Doc |-> IF e = d THEN "active" ELSE "none"]
  /\ hasActiveRegional \in BOOLEAN
  /\ forwarded = {} /\ verifiedAs = {}

-----------------------------------------------------------------------------
(* createSimplifiedExpenseDraft.                                           *)

\* A regional director spends from their own wallet, a manager from the club's.
BeginDraft(r, u, data) ==
  LET j == [pc |-> "insert", kind |-> "draft", by |-> u, club |-> NoWallet, data |-> data] IN
  /\ exp = NoExpense
  /\ Manages(u)
  /\ IF IsRegional(u)
       THEN Begin(r, [j EXCEPT !.club = u]) /\ UNCHANGED cash
       ELSE BeginWithWallet(r, j)
  /\ UNCHANGED <<paper, hasActiveRegional, history>>

\* One expense is modelled: a second form that is under way ends here.
InsertDraft(r) ==
  /\ Running(r, "draft", "insert")
  /\ exp' = IF exp # NoExpense THEN exp
            ELSE [status |-> "draft", author |-> job[r].by, data |-> job[r].data,
                  wallet |-> job[r].club]
  /\ Finish(r)
  /\ UNCHANGED <<cash, doc, hasActiveRegional, history>>

-----------------------------------------------------------------------------
(* The actions on an expense: read and decide, then compare-and-set.       *)

BeginAction(r, u, kind, data, to) ==
  /\ Begin(r, [pc |-> "write", kind |-> kind, by |-> u, data |-> data, to |-> to])
  /\ UNCHANGED <<cash, paper, hasActiveRegional, history>>

BeginEdit(r, u, data) == CanEditExpense(u) /\ BeginAction(r, u, "edit", data, exp.status)

\* Mutant: without a regional director accounting checks the expense alone.
BeginSubmit_FallsBack(r, u) ==
  /\ CanEditExpense(u)
  /\ ActiveDocuments # {}
  /\ IF IsRegional(exp.author) \/ ~hasActiveRegional
       THEN BeginAction(r, u, "submit", exp.data, "pending_accountant")
       ELSE BeginAction(r, u, "submit", exp.data, "pending_regional")

\* Routed by the role of the author; a manager's expense is refused while the
\* club has no active regional director.
BeginSubmit(r, u) ==
  /\ CanEditExpense(u)
  /\ ActiveDocuments # {}
  /\ \/ IsRegional(exp.author) /\ BeginAction(r, u, "submit", exp.data, "pending_accountant")
     \/ /\ ~IsRegional(exp.author) /\ hasActiveRegional
        /\ BeginAction(r, u, "submit", exp.data, "pending_regional")

BeginApproval(r, u) ==
  \/ CanApproveRegional(u) /\ BeginAction(r, u, "approve", exp.data, "pending_accountant")
  \/ CanApproveOwner(u) /\ BeginAction(r, u, "approveOwner", exp.data, "pending_accountant")

BeginReturn(r, u) == CanReturn(u) /\ BeginAction(r, u, "return", exp.data, "needs_correction")

BeginCancel(r, u) == CanCancelExpense(u) /\ BeginAction(r, u, "cancel", exp.data, "cancelled")

\* Only the date changes; the month close that bounds it is left out.
BeginChangeDate(r, u, data) ==
  /\ CanChangeExpenseDate(u)
  /\ data.amount = exp.data.amount
  /\ BeginAction(r, u, "date", data, exp.status)

\* Mutant: a cancellation is written whatever the status has become.
FromStatus_CancelsAny ==
  [edit         |-> V2_EDITABLE,
   submit       |-> V2_EDITABLE,
   approve      |-> {"pending_regional"},
   approveOwner |-> {"pending_owner"},
   return       |-> {"pending_regional", "pending_owner", "pending_accountant"},
   cancel       |-> EXP,
   date         |-> EXP \ {"verified", "cancelled"}]

\* The statuses the compare-and-set of each action accepts.
FromStatus ==
  [edit         |-> V2_EDITABLE,
   submit       |-> V2_EDITABLE,
   approve      |-> {"pending_regional"},
   approveOwner |-> {"pending_owner"},
   return       |-> {"pending_regional", "pending_owner", "pending_accountant"},
   cancel       |-> V2_CANCELABLE,
   date         |-> EXP \ {"verified", "cancelled"}]

\* An edit writes the fields, a change of date the date, the others the status.
WriteAction(r) ==
  LET j       == job[r]
      applies == exp.status \in FromStatus[j.kind]
  IN
  /\ j.kind \in DOMAIN FromStatus
  /\ exp' = IF ~applies THEN exp
            ELSE IF j.kind = "edit" THEN [exp EXCEPT !.data = j.data]
            ELSE IF j.kind = "date" THEN [exp EXCEPT !.data.when = j.data.when]
            ELSE [exp EXCEPT !.status = j.to]
  /\ forwarded' = IF applies /\ j.kind = "submit" THEN {}
                  ELSE IF applies /\ j.kind \in {"approve", "approveOwner"} THEN forwarded \cup {j.by}
                  ELSE forwarded
  /\ Finish(r)
  /\ UNCHANGED <<cash, doc, hasActiveRegional, verifiedAs>>

-----------------------------------------------------------------------------
(* updateExpense (expenses/actions.ts).                                    *)

BeginUpdate(r, u, data) ==
  CanMutateOperationalRecords(Roles(u)) /\ BeginAction(r, u, "update", data, exp.status)

\* A plain update by id: neither the status nor the kind of expense is looked at.
WriteUpdate(r) ==
  /\ Running(r, "update", "write")
  /\ exp' = [exp EXCEPT !.data = job[r].data]
  /\ verifiedAs' = IF exp.status = "verified" THEN verifiedAs \cup {job[r].data} ELSE verifiedAs
  /\ Finish(r)
  /\ UNCHANGED <<cash, doc, hasActiveRegional, forwarded>>

-----------------------------------------------------------------------------
(* verifyExpense.                                                          *)

BeginVerify(r, u) ==
  /\ ActiveDocuments # {}
  /\ CanVerifyExpense(u)
  /\ Begin(r, [pc |-> "write", kind |-> "verify", by |-> u])
  /\ UNCHANGED <<cash, paper, hasActiveRegional, history>>

WriteVerify(r) ==
  LET applies == exp.status = "pending_accountant" IN
  /\ Running(r, "verify", "write")
  /\ exp' = IF applies THEN [exp EXCEPT !.status = "verified"] ELSE exp
  /\ verifiedAs' = IF applies THEN {exp.data} ELSE verifiedAs
  /\ IF applies THEN Goto(r, "read") ELSE Finish(r)
  /\ UNCHANGED <<cash, doc, hasActiveRegional, forwarded>>

Recording(pc, w, data) == [pc |-> pc, kind |-> "verify", club |-> w, data |-> data]

\* The verified row is read again: what it says now is what will be recorded.  An
\* amount that has become 0 is not.
ReadVerified(r) ==
  /\ Running(r, "verify", "read")
  /\ IF exp.data.amount = 0 THEN Finish(r)
     ELSE Set(r, Recording(IF exp.wallet = NoWallet THEN "find" ELSE "insert", exp.wallet, exp.data))
  /\ UNCHANGED <<cash, paper, hasActiveRegional, history>>

\* An expense without a wallet is given the club's, which CreateWallet makes if need be.
FindExpenseWallet(r) ==
  /\ Running(r, "verify", "find")
  /\ \E w \in FindWallet :
       Set(r, Recording(IF w = NoWallet THEN "wallet" ELSE "insert", w, job[r].data))
  /\ UNCHANGED <<cash, paper, hasActiveRegional, history>>

RecordMovement(r) ==
  /\ Running(r, "verify", "insert")
  /\ RecordExpense(job[r].data.amount, job[r].data.when, job[r].club)
  /\ Finish(r)
  /\ UNCHANGED <<wallets, paper, hasActiveRegional, history>>

-----------------------------------------------------------------------------
(* uploadExpenseDocuments and removeExpenseDocument.                       *)

BeginUpload(r, u, d) ==
  /\ CanEditExpense(u)
  /\ doc[d] = "none"
  /\ Begin(r, [pc |-> "count", kind |-> "upload", file |-> d])
  /\ UNCHANGED <<cash, paper, hasActiveRegional, history>>

\* The count and the insertion are two statements of a Read Committed
\* transaction; an object without its row is deleted again.
CountDocuments(r) ==
  /\ Running(r, "upload", "count")
  /\ IF Cardinality(ActiveDocuments) >= MaxDocuments
       THEN Finish(r) ELSE Goto(r, "write")
  /\ UNCHANGED <<cash, paper, hasActiveRegional, history>>

InsertDocument(r) ==
  LET d == job[r].file IN
  /\ Running(r, "upload", "write")
  /\ doc' = [doc EXCEPT ![d] = IF @ = "none" THEN "active" ELSE @]
  /\ Finish(r)
  /\ UNCHANGED <<cash, exp, hasActiveRegional, history>>

\* Once it has been submitted, an expense keeps at least one document.
BeginRemove(r, u, d) ==
  /\ CanEditExpense(u)
  /\ doc[d] = "active"
  /\ exp.status = "needs_correction" => Cardinality(ActiveDocuments) > 1
  /\ Begin(r, [pc |-> "write", kind |-> "remove", file |-> d])
  /\ UNCHANGED <<cash, paper, hasActiveRegional, history>>

RemoveDocument(r) ==
  /\ Running(r, "remove", "write")
  /\ doc' = [doc EXCEPT ![job[r].file] = "removed"]
  /\ Finish(r)
  /\ UNCHANGED <<cash, exp, hasActiveRegional, history>>

-----------------------------------------------------------------------------
\* A request dies; a transaction that is under way is rolled back.
Crash(r) ==
  /\ "crash" \in scenario.calls
  /\ job[r] # Idle
  /\ Finish(r)
  /\ UNCHANGED <<cash, paper, hasActiveRegional, history>>

RegionalChanges ==
  /\ "regional" \in scenario.calls
  /\ hasActiveRegional' = ~hasActiveRegional
  /\ UNCHANGED <<cash, scenario, job, paper, history>>

Arrive(r) ==
  \/ \E u \in User, data \in scenario.data : BeginDraft(r, u, data)
  \/ \E u \in User :
       /\ exp # NoExpense /\ CanSee(u)
       /\ \/ \E data \in scenario.data : BeginEdit(r, u, data) \/ BeginChangeDate(r, u, data)
          \/ BeginSubmit(r, u) \/ BeginApproval(r, u) \/ BeginReturn(r, u) \/ BeginCancel(r, u)
          \/ BeginVerify(r, u)
          \/ \E data \in scenario.updates : BeginUpdate(r, u, data)
          \/ \E d \in scenario.docs : BeginUpload(r, u, d) \/ BeginRemove(r, u, d)
  \/ CashArrive(r) /\ UNCHANGED <<paper, hasActiveRegional, history>>

Proceed(r) ==
  \/ InsertDraft(r) \/ WriteAction(r) \/ WriteUpdate(r)
  \/ WriteVerify(r) \/ ReadVerified(r) \/ FindExpenseWallet(r) \/ RecordMovement(r)
  \/ CountDocuments(r) \/ InsertDocument(r) \/ RemoveDocument(r)
  \/ (CreateWallet(r) \/ CashProceed(r)) /\ UNCHANGED <<paper, hasActiveRegional, history>>

Next ==
  \/ \E r \in Req : Arrive(r) \/ Proceed(r) \/ Crash(r)
  \/ RegionalChanges

Spec == Init /\ [][Next]_vars

-----------------------------------------------------------------------------
(* What holds under every interleaving and crash.                          *)

\* A manager's expense reaches accounting only through a regional director other
\* than its author, or on an old row through an owner, whatever is returned,
\* resubmitted and approved at the same time ("it may NEVER be auto-routed to
\* accounting / owner / any other role instead").
RegionalFirst ==
  exp.status \in {"pending_accountant", "verified"} /\ ~IsRegional(exp.author) =>
    \E u \in forwarded : (IsRegional(u) /\ u # exp.author) \/ Owns(u)

\* Cash leaves a wallet for an expense only when that expense is verified, and no
\* handler still under way can cancel it any more.  The movement has the wallet of
\* the row, and an amount and a date that the row had together once it was verified:
\* the ones it still has, unless updateExpense, which does not touch the movement, has
\* written others since.
CashFollowsVerification ==
  LET m    == movement["expense"]
      said == [amount |-> m.amount, when |-> m.when]
  IN
  m # NoMovement =>
    /\ exp.status = "verified"
    /\ said \in verifiedAs
    /\ "update" \notin scenario.calls => said = exp.data
    /\ exp.wallet # NoWallet => m.from = exp.wallet

\* A verified expense has its movement as soon as the verifications under way have
\* ended ("Realize the cash effect exactly once"), unless a process died in between,
\* or updateExpense took its amount away.
VerifiedIsRealized ==
  /\ "crash" \notin scenario.calls
  /\ \A data \in verifiedAs : data.amount > 0
  /\ exp.status = "verified" /\ \A r \in Req : job[r].kind # "verify"
  => movement["expense"].status = "confirmed"

-----------------------------------------------------------------------------
(* What holds when requests are handled one at a time.                     *)

\* Confirming a transfer never overdraws the club's wallet, also when the money
\* was spent since the transfer was created ("A club_cash source must not be
\* overdrawn").
TransfersAreCovered ==
  [][\A t \in Transfer :
       /\ movement[t].status = "pending_confirmation" /\ movement'[t].status = "confirmed"
       /\ movement[t].from \in ClubWallet
       => (Balance(movement[t].from))' >= 0]_movement
=============================================================================
