----------------------------- MODULE CashWallets -----------------------------
(***************************************************************************)
(* The cash of one club (lib/cash-wallets.ts and expenses/cash-actions.ts).*)
(* A wallet has no balance of its own: its balance is what the confirmed   *)
(* movements brought in less what they took out.  A movement is either     *)
(* recorded confirmed (opening balance, expense) or waits for its          *)
(* recipient (transfer, other income) and is then confirmed once.          *)
(*                                                                         *)
(* Every movement has a source, and (sourceType, sourceId) is unique in    *)
(* the database: the ledger is therefore a function from sources to rows.  *)
(* The club's own wallet is a row with a null holder, which the unique     *)
(* index of wallets does not cover: it is looked for, and created when it  *)
(* is not found.  The wallet of a regional director is covered by that     *)
(* index and is identified with its holder.                                *)
(*                                                                         *)
(* The club has one sole trader, and its company has not passed the        *)
(* cutover after which no movements are written.  The month close, which   *)
(* only refuses, and the notifications about thresholds are left out.      *)
(* As in InvoiceContour, a handler is a job of a request slot.             *)
(***************************************************************************)
EXTENDS AccessRules, Integers, FiniteSetsExt

CONSTANTS
  Req,         \* request slots
  User,        \* the callers
  RolesOf,     \* the stored roles of each caller
  ClubWallet,  \* ids that rows of the club's wallet may get
  Transfer,    \* ids of transfers
  Income,      \* ids of other incomes
  Scenarios    \* which handlers and events may occur together, in which slots, with
               \* which amounts of transfers, incomes and opening balances

NoWallet == "no wallet"

ASSUME RolesAssumption  == RolesOf \in [User -> SUBSET Role]
ASSUME NamesAssumption  == NoWallet \notin ClubWallet \cup User /\ ClubWallet \cap User = {}
\* A source is a type with an id: an expense is no wallet, transfer or income, and a
\* transfer is neither of the other two.
ASSUME SourceAssumption ==
  /\ "expense" \notin ClubWallet \cup Transfer \cup Income
  /\ Transfer \cap (ClubWallet \cup Income) = {}
ASSUME AmountAssumption == \A s \in Scenarios : s.slots \subseteq Req /\ s.amounts \subseteq Nat

VARIABLES
  wallets,   \* the rows of the club's wallet that exist
  movement,  \* the CashMovement rows, by source
  scenario,  \* chosen at the start
  job        \* what each request slot is doing

cash == <<wallets, movement>>

Wallet == ClubWallet \cup User \cup {NoWallet}

\* An expense, the opening balance of a wallet, a transfer, or an income.
Source == {"expense"} \cup ClubWallet \cup Transfer \cup Income

NoMovement == [status |-> "none", amount |-> 0, when |-> 0, from |-> NoWallet, to |-> NoWallet]

Idle == [pc |-> "idle", kind |-> "none"]

CashInit ==
  /\ wallets = {}
  /\ movement = [s \in Source |-> NoMovement]

-----------------------------------------------------------------------------
Roles(u) == ExpandEffectiveRoles(RolesOf[u])

IsRegional(u) == "regional_director" \in Roles(u)

Running(r, kind, pc) == job[r].kind = kind /\ job[r].pc = pc

Set(r, j) == job' = [job EXCEPT ![r] = j] /\ UNCHANGED scenario

Begin(r, j) ==
  /\ j.kind \in scenario.calls \cup {"refused"}
  /\ r \in scenario.slots /\ job[r] = Idle
  /\ Set(r, j)

Goto(r, pc) == Set(r, [job[r] EXCEPT !.pc = pc])

Finish(r) == Set(r, Idle)

\* Only confirmed movements count.
Balance(w) ==
  LET total(S) == MapThenSumSet(LAMBDA s : movement[s].amount, S)
      counted  == {s \in Source : movement[s].status = "confirmed"}
  IN  total({s \in counted : movement[s].to = w}) - total({s \in counted : movement[s].from = w})

Recorded(status, amount, when, from, to) ==
  [status |-> status, amount |-> amount, when |-> when, from |-> from, to |-> to]

-----------------------------------------------------------------------------
(* ensureClubCashWallet: look for the row, and create one at the next      *)
(* await if there was none.                                                *)

FoundWallet == wallets

\* What the search returns: any of the rows, since it asks for no order.
FindWallet == IF FoundWallet = {} THEN {NoWallet} ELSE FoundWallet

BeginWithWallet(r, j) ==
  /\ \E w \in FindWallet :
       Begin(r, [j EXCEPT !.club = w, !.pc = IF w = NoWallet THEN "wallet" ELSE @])
  /\ UNCHANGED cash

CreateWallet(r) ==
  /\ job[r].pc = "wallet"
  /\ \E w \in ClubWallet \ wallets :
       /\ wallets' = wallets \cup {w}
       /\ Set(r, [job[r] EXCEPT !.club = w, !.pc = "insert"])
  /\ UNCHANGED movement

-----------------------------------------------------------------------------
(* setOpeningBalance and createOtherCashIncome.                            *)

BeginOpening(r, u, a) ==
  /\ IsRegional(u)
  /\ BeginWithWallet(r, [pc |-> "insert", kind |-> "opening", club |-> NoWallet, amount |-> a])

\* One opening balance per wallet: the insertion fails if the source is taken.
InsertOpening(r) ==
  LET w == job[r].club IN
  /\ Running(r, "opening", "insert")
  /\ movement' = IF movement[w] # NoMovement THEN movement
                 ELSE [movement EXCEPT ![w] =
                         Recorded("confirmed", job[r].amount, 0, NoWallet, w)]
  /\ Finish(r)
  /\ UNCHANGED wallets

BeginIncome(r, u, a) ==
  /\ CanCreateOperational(Roles(u)) /\ a > 0
  /\ BeginWithWallet(r, [pc |-> "insert", kind |-> "income", club |-> NoWallet, amount |-> a])

InsertIncome(r) ==
  /\ Running(r, "income", "insert")
  /\ \E i \in Income :
       /\ movement[i] = NoMovement
       /\ movement' = [movement EXCEPT ![i] =
            Recorded("pending_confirmation", job[r].amount, 0, NoWallet, job[r].club)]
  /\ Finish(r)
  /\ UNCHANGED wallets

-----------------------------------------------------------------------------
(* createTransferAction and createInternalTransfer: club -> director by a  *)
(* manager or a director, or director -> club by that director.  Anybody   *)
(* else is refused, but only after the club's wallet has been looked for.  *)

MayTransfer(u, direction, holder) ==
  /\ IsRegional(holder)
  /\ direction = "to_regional" => CanCreateOperational(Roles(u))
  /\ direction = "to_club"     => holder = u

BeginTransfer(r, u, direction, holder, a) ==
  /\ a > 0
  /\ "transfer" \in scenario.calls
  /\ \/ /\ MayTransfer(u, direction, holder)
        /\ BeginWithWallet(r, [pc |-> "insert", kind |-> "transfer", club |-> NoWallet,
                               amount |-> a, direction |-> direction, holder |-> holder])
     \/ /\ ~MayTransfer(u, direction, holder)
        /\ BeginWithWallet(r, [pc |-> "insert", kind |-> "refused", club |-> NoWallet])

RefuseTransfer(r) ==
  /\ Running(r, "refused", "insert")
  /\ Finish(r)
  /\ UNCHANGED cash

\* A club wallet must hold the amount; a director may advance their own money.
InsertTransfer(r) ==
  LET j    == job[r]
      out  == j.direction = "to_regional"
      move == IF out THEN Recorded("pending_confirmation", j.amount, 0, j.club, j.holder)
                     ELSE Recorded("pending_confirmation", j.amount, 0, j.holder, j.club)
  IN
  /\ Running(r, "transfer", "insert")
  /\ \/ /\ out /\ Balance(j.club) < j.amount
        /\ movement' = movement
     \/ /\ out => Balance(j.club) >= j.amount
        /\ \E t \in Transfer : movement[t] = NoMovement /\ movement' = [movement EXCEPT ![t] = move]
  /\ Finish(r)
  /\ UNCHANGED wallets

-----------------------------------------------------------------------------
(* confirmInternalTransfer and confirmOtherCashIncome.                     *)

\* A transfer is confirmed by its recipient: the director addressed, or a
\* manager of the club in their own right.
MayConfirm(u, s) ==
  IF s \in Income THEN CanCreateOperational(Roles(u))
  ELSE IF movement[s].to \in User THEN u = movement[s].to
  ELSE "manager" \in RolesOf[u]

BeginConfirm(r, u, s) ==
  /\ movement[s].status = "pending_confirmation"
  /\ MayConfirm(u, s)
  /\ Begin(r, [pc |-> IF s \in Income THEN "write" ELSE "check", kind |-> "confirm", source |-> s])
  /\ UNCHANGED cash

\* Mutant: the funds were checked when the transfer was created.
CheckTransfer_Trusts(r) ==
  /\ Running(r, "confirm", "check")
  /\ IF movement[job[r].source].status = "pending_confirmation" THEN Goto(r, "write") ELSE Finish(r)
  /\ UNCHANGED cash

\* First statements of the transaction: still pending, and covered if the
\* club's wallet pays.
CheckTransfer(r) ==
  LET m == movement[job[r].source] IN
  /\ Running(r, "confirm", "check")
  /\ IF /\ m.status = "pending_confirmation"
        /\ m.from \in ClubWallet => Balance(m.from) >= m.amount
       THEN Goto(r, "write")
       ELSE Finish(r)
  /\ UNCHANGED cash

\* Compare-and-set pending -> confirmed.
ConfirmMovement(r) ==
  LET s == job[r].source IN
  /\ Running(r, "confirm", "write")
  /\ movement' = IF movement[s].status = "pending_confirmation"
                   THEN [movement EXCEPT ![s].status = "confirmed"] ELSE movement
  /\ Finish(r)
  /\ UNCHANGED wallets

-----------------------------------------------------------------------------
(* recordExpenseMovement, called by the expense workflow.                  *)

\* Mutant: an expense the wallet does not cover is not recorded.
RecordExpense_IfCovered(amount, when, w) ==
  movement' = IF movement["expense"] # NoMovement \/ Balance(w) < amount THEN movement
              ELSE [movement EXCEPT !["expense"] = Recorded("confirmed", amount, when, w, NoWallet)]

\* Idempotent on the expense; no funds are asked for.
RecordExpense(amount, when, w) ==
  movement' = IF movement["expense"] # NoMovement \/ amount <= 0 THEN movement
              ELSE [movement EXCEPT !["expense"] = Recorded("confirmed", amount, when, w, NoWallet)]

-----------------------------------------------------------------------------
CashArrive(r) ==
  \E u \in User :
    \/ \E a \in scenario.amounts : BeginOpening(r, u, a) \/ BeginIncome(r, u, a)
    \/ \E d \in {"to_regional", "to_club"}, h \in User, a \in scenario.amounts : BeginTransfer(r, u, d, h, a)
    \/ \E s \in Transfer \cup Income : BeginConfirm(r, u, s)

CashProceed(r) ==
  \/ InsertOpening(r) \/ InsertIncome(r) \/ InsertTransfer(r) \/ RefuseTransfer(r)
  \/ CheckTransfer(r) \/ ConfirmMovement(r)
=============================================================================
