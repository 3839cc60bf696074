------------------------ MODULE ExpenseContour_proofs ------------------------
(***************************************************************************)
(* What holds of ExpenseContour for every number of requests, users,       *)
(* wallets and documents: the way of an expense to accounting, the         *)
(* agreement of a verified expense with its cash movement, and, where      *)
(* movements are confirmed by one request at a time, the funds behind a    *)
(* confirmed transfer.  Only this last part computes balances; it has an   *)
(* invariant of its own next to that of the expense.                       *)
(***************************************************************************)
EXTENDS ExpenseContour, SumLemmas, TLAPS

ExpenseData == [amount : Nat, when : Nat]

-----------------------------------------------------------------------------
(* The invariant.                                                          *)

Shaped ==
  /\ DOMAIN job = Req /\ DOMAIN movement = Source
  /\ wallets \subseteq ClubWallet
  /\ scenario.data \subseteq ExpenseData /\ scenario.updates \subseteq ExpenseData

\* The expense, once there is one, is in a status of its process.
RowIsTyped ==
  exp # NoExpense =>
    /\ DOMAIN exp = {"status", "author", "data", "wallet"}
    /\ exp.status \in EXP
    /\ exp.data \in ExpenseData

\* A request that has written the verification and not the movement yet.
BeingRecorded(j) == j.kind = "verify" /\ j.pc \in {"read", "find", "wallet", "insert"}

\* A request that has read the verified row.
HasRead(j) == j.kind = "verify" /\ j.pc \in {"find", "wallet", "insert"}

\* A job has the fields its handler uses.
JobIsTyped(j) ==
  /\ {"pc", "kind"} \subseteq DOMAIN j
  /\ j.pc = "wallet" =>
       /\ "club" \in DOMAIN j
       /\ j.kind \in {"draft", "opening", "income", "transfer", "refused", "verify"}
  /\ j.kind = "draft" => {"by", "data", "club"} \subseteq DOMAIN j /\ j.data \in ExpenseData
  /\ j.kind \in {"edit", "date", "update"} => j.data \in ExpenseData
  /\ HasRead(j) => {"club", "data"} \subseteq DOMAIN j /\ j.data \in ExpenseData
  /\ j.kind = "opening" /\ j.pc = "insert" => j.club \in ClubWallet
  /\ j.kind = "confirm" => "source" \in DOMAIN j /\ j.source \in Transfer \cup Income

\* What a decision was taken on and no other handler can take away: the author,
\* their role, that a verified expense stays so with the wallet it has, and that it
\* has had the amount and the date that were read.
JobIsGrounded(j) ==
  /\ j.kind \in DOMAIN FromStatus \cup {"verify", "update"} => exp # NoExpense
  /\ j.kind = "update" => "update" \in scenario.calls
  /\ j.kind = "submit" =>
       \/ j.to = "pending_regional"
       \/ j.to = "pending_accountant" /\ IsRegional(exp.author)
  /\ j.kind = "approve" =>
       j.to = "pending_accountant" /\ IsRegional(j.by) /\ j.by # exp.author
  /\ j.kind = "approveOwner" => j.to = "pending_accountant" /\ Owns(j.by)
  /\ j.kind = "return" => j.to = "needs_correction"
  /\ j.kind = "cancel" => j.to = "cancelled"
  /\ BeingRecorded(j) => exp.status = "verified"
  /\ HasRead(j) => /\ j.data \in verifiedAs /\ j.data.amount > 0
                   /\ IF j.pc = "insert" THEN exp.wallet # NoWallet => j.club = exp.wallet
                      ELSE exp.wallet = NoWallet

JobsAreSound == \A r \in Req : JobIsTyped(job[r]) /\ JobIsGrounded(job[r])

\* The movement of the expense is written once, confirmed.
MovementIsFinal ==
  movement["expense"] # NoMovement => movement["expense"].status = "confirmed"

\* What an expense was verified as is noted: where updateExpense is not called, the
\* row has not changed since.
Noted ==
  /\ exp.status = "verified" => exp.data \in verifiedAs
  /\ exp.status # "verified" => verifiedAs = {}
  /\ "update" \notin scenario.calls => verifiedAs \subseteq {exp.data}

\* A process may have died, or the amount may have been taken away.
Excused == "crash" \in scenario.calls \/ \E data \in verifiedAs : ~(data.amount > 0)

\* Requests that merely try to verify do not matter to VerifiedIsRealized.
RecordedUnlessRecording ==
  /\ ~Excused
  /\ exp.status = "verified" /\ \A r \in Req : ~BeingRecorded(job[r])
  => movement["expense"].status = "confirmed"

ExpInv ==
  /\ Shaped /\ RowIsTyped /\ JobsAreSound /\ MovementIsFinal /\ Noted
  /\ RegionalFirst /\ CashFollowsVerification /\ RecordedUnlessRecording

-----------------------------------------------------------------------------
(* Steps that neither touch the expense nor its movement.                  *)

\* A free slot is sound.
LEMMA IdleIsSound == JobIsTyped(Idle) /\ JobIsGrounded(Idle)
BY DEF JobIsTyped, JobIsGrounded, HasRead, BeingRecorded, Idle, FromStatus

\* A request that takes up, goes on with or ends work on anything else than the
\* expense's row and movement keeps the invariant.
LEMMA OtherStepKeeps ==
  ASSUME ExpInv, NEW r \in Req, NEW j, Set(r, j), JobIsTyped(j), JobIsGrounded(j),
         UNCHANGED <<exp, history>>,
         DOMAIN movement' = Source, movement'["expense"] = movement["expense"],
         wallets' \subseteq ClubWallet,
         BeingRecorded(job[r]) => BeingRecorded(j) \/ Excused
  PROVE  ExpInv'
<1>1. /\ UNCHANGED <<scenario, forwarded, verifiedAs>> /\ DOMAIN job' = Req
      /\ job'[r] = j /\ \A q \in Req \ {r} : job'[q] = job[q]
  BY DEF ExpInv, Shaped, Set, history
<1>2. /\ Shaped' /\ RowIsTyped' /\ MovementIsFinal' /\ Noted' /\ RegionalFirst'
      /\ CashFollowsVerification'
  BY <1>1 DEF ExpInv, Shaped, RowIsTyped, MovementIsFinal, Noted, RegionalFirst,
              CashFollowsVerification
<1>3. \A k : (JobIsTyped(k) => JobIsTyped(k)') /\ (JobIsGrounded(k) => JobIsGrounded(k)')
  BY <1>1 DEF JobIsTyped, JobIsGrounded
<1>4. JobsAreSound'
  BY <1>1, <1>3 DEF ExpInv, JobsAreSound, JobIsTyped, JobIsGrounded
<1>5. RecordedUnlessRecording'
  BY <1>1 DEF ExpInv, RecordedUnlessRecording, Excused
<1>6. QED BY <1>2, <1>4, <1>5 DEF ExpInv

\* A request that begins with a sound job keeps the invariant.
LEMMA BeginKeeps ==
  ASSUME ExpInv, NEW r \in Req, NEW j, Begin(r, j), JobIsTyped(j), JobIsGrounded(j),
         UNCHANGED <<exp, history, movement, wallets>>
  PROVE  ExpInv'
<1>1. Set(r, j) /\ ~BeingRecorded(job[r])
  BY DEF Begin, Idle, BeingRecorded
<1>2. DOMAIN movement = Source /\ wallets \subseteq ClubWallet
  BY DEF ExpInv, Shaped
<1>3. QED BY <1>1, <1>2, OtherStepKeeps

\* A request that has found the club's wallet, or is to create it, is sound.
LEMMA BeginWithWalletKeeps ==
  ASSUME ExpInv, NEW r \in Req, NEW j, {"pc", "kind", "club"} \subseteq DOMAIN j,
         j.pc = "insert", j.kind \in {"draft", "opening", "income", "transfer", "refused"},
         j.kind = "draft" => {"by", "data"} \subseteq DOMAIN j /\ j.data \in ExpenseData,
         BeginWithWallet(r, j), UNCHANGED <<exp, history>>
  PROVE  ExpInv'
<1>1. PICK w \in FindWallet :
        Begin(r, [j EXCEPT !.club = w, !.pc = IF w = NoWallet THEN "wallet" ELSE @])
  BY DEF BeginWithWallet
<1>2. w \in ClubWallet \cup {NoWallet}
  BY DEF FindWallet, FoundWallet, ExpInv, Shaped
<1> DEFINE k == [j EXCEPT !.club = w, !.pc = IF w = NoWallet THEN "wallet" ELSE @]
<1>3. /\ DOMAIN k = DOMAIN j /\ k.kind = j.kind /\ k.club = w
      /\ k.pc = IF w = NoWallet THEN "wallet" ELSE "insert"
      /\ k.kind = "draft" => k.data = j.data
  OBVIOUS
<1>4. Begin(r, k)
  BY <1>1
<1> HIDE DEF k
<1>5. JobIsTyped(k)
  BY <1>2, <1>3 DEF JobIsTyped, HasRead
<1>6. JobIsGrounded(k)
  BY <1>3 DEF JobIsGrounded, HasRead, BeingRecorded, FromStatus
<1>7. QED
  BY <1>4, <1>5, <1>6, BeginKeeps DEF BeginWithWallet, cash

\* A request that ends without having verified anything keeps the invariant.
LEMMA FinishKeeps ==
  ASSUME ExpInv, NEW r \in Req, Finish(r), UNCHANGED <<exp, history>>,
         DOMAIN movement' = Source, movement'["expense"] = movement["expense"],
         wallets' \subseteq ClubWallet,
         ~BeingRecorded(job[r]) \/ Excused
  PROVE  ExpInv'
BY IdleIsSound, OtherStepKeeps DEF Finish

\* The handlers of the wallets write other movements than the expense's.
LEMMA CashKeeps ==
  ASSUME ExpInv, NEW r \in Req, CashArrive(r) \/ CreateWallet(r) \/ CashProceed(r),
         UNCHANGED <<exp, history>>
  PROVE  ExpInv'
<1>1. /\ DOMAIN movement = Source /\ wallets \subseteq ClubWallet
      /\ JobIsTyped(job[r]) /\ JobIsGrounded(job[r])
  BY DEF ExpInv, Shaped, JobsAreSound
<1>2. ASSUME NEW u, NEW a, BeginOpening(r, u, a)
      PROVE  ExpInv'
  <2> DEFINE j == [pc |-> "insert", kind |-> "opening", club |-> NoWallet, amount |-> a]
  <2>1. BeginWithWallet(r, j)
    BY <1>2 DEF BeginOpening
  <2>2. {"pc", "kind", "club"} \subseteq DOMAIN j /\ j.pc = "insert" /\ j.kind = "opening"
    OBVIOUS
  <2> HIDE DEF j
  <2>3. QED BY <2>1, <2>2, BeginWithWalletKeeps
<1>3. ASSUME NEW u, NEW a, BeginIncome(r, u, a)
      PROVE  ExpInv'
  <2> DEFINE j == [pc |-> "insert", kind |-> "income", club |-> NoWallet, amount |-> a]
  <2>1. BeginWithWallet(r, j)
    BY <1>3 DEF BeginIncome
  <2>2. {"pc", "kind", "club"} \subseteq DOMAIN j /\ j.pc = "insert" /\ j.kind = "income"
    OBVIOUS
  <2> HIDE DEF j
  <2>3. QED BY <2>1, <2>2, BeginWithWalletKeeps
<1>4. ASSUME NEW u, NEW direction, NEW holder, NEW a, BeginTransfer(r, u, direction, holder, a)
      PROVE  ExpInv'
  <2> DEFINE j == [pc |-> "insert", kind |-> "transfer", club |-> NoWallet,
                   amount |-> a, direction |-> direction, holder |-> holder]
             k == [pc |-> "insert", kind |-> "refused", club |-> NoWallet]
  <2>1. BeginWithWallet(r, j) \/ BeginWithWallet(r, k)
    BY <1>4 DEF BeginTransfer
  <2>2. {"pc", "kind", "club"} \subseteq DOMAIN j /\ j.pc = "insert" /\ j.kind = "transfer"
    OBVIOUS
  <2>3. {"pc", "kind", "club"} \subseteq DOMAIN k /\ k.pc = "insert" /\ k.kind = "refused"
    OBVIOUS
  <2> HIDE DEF j, k
  <2>4. QED BY <2>1, <2>2, <2>3, BeginWithWalletKeeps
<1>5. ASSUME NEW u, NEW s \in Transfer \cup Income, BeginConfirm(r, u, s)
      PROVE  ExpInv'
  <2> DEFINE j == [pc |-> IF s \in Income THEN "write" ELSE "check", kind |-> "confirm",
                   source |-> s]
  <2>1. Begin(r, j) /\ UNCHANGED <<movement, wallets>>
    BY <1>5 DEF BeginConfirm, cash
  <2>2. JobIsTyped(j) /\ JobIsGrounded(j)
    BY DEF JobIsTyped, JobIsGrounded, HasRead, BeingRecorded, FromStatus
  <2> HIDE DEF j
  <2>3. QED BY <2>1, <2>2, BeginKeeps
<1>6. CASE CreateWallet(r)
  <2>1. PICK w \in ClubWallet \ wallets :
          wallets' = wallets \cup {w} /\ Set(r, [job[r] EXCEPT !.club = w, !.pc = "insert"])
    BY <1>6 DEF CreateWallet
  <2> DEFINE j == [job[r] EXCEPT !.club = w, !.pc = "insert"]
  <2>2. job[r].pc = "wallet" /\ UNCHANGED movement
    BY <1>6 DEF CreateWallet
  <2>3. /\ {"pc", "kind", "club"} \subseteq DOMAIN job[r]
        /\ job[r].kind \in {"draft", "opening", "income", "transfer", "refused", "verify"}
        /\ job[r].kind = "verify" => HasRead(job[r]) /\ BeingRecorded(job[r])
    BY <1>1, <2>2 DEF JobIsTyped, HasRead, BeingRecorded
  <2>4. /\ DOMAIN j = DOMAIN job[r] /\ j.kind = job[r].kind /\ j.club = w /\ j.pc = "insert"
        /\ "data" \in DOMAIN job[r] => j.data = job[r].data
    BY <2>3
  <2>5. Set(r, j)
    BY <2>1
  <2> HIDE DEF j
  <2>6. JobIsTyped(j)
    BY <1>1, <2>3, <2>4 DEF JobIsTyped, HasRead
  <2>7. JobIsGrounded(j)
    <3>1. CASE job[r].kind = "verify"
      <4>1. /\ exp # NoExpense /\ exp.status = "verified" /\ exp.wallet = NoWallet
            /\ job[r].data \in verifiedAs /\ job[r].data.amount > 0 /\ j.data = job[r].data
        BY <1>1, <2>2, <2>3, <2>4, <3>1 DEF JobIsTyped, JobIsGrounded
      <4>2. QED BY <2>4, <3>1, <4>1 DEF JobIsGrounded, FromStatus
    <3>2. CASE job[r].kind # "verify"
      BY <2>3, <2>4, <3>2 DEF JobIsGrounded, HasRead, BeingRecorded, FromStatus
    <3>3. QED BY <3>1, <3>2
  <2>8. BeingRecorded(job[r]) => BeingRecorded(j)
    BY <2>4 DEF BeingRecorded
  <2>9. QED BY <1>1, <2>1, <2>2, <2>5, <2>6, <2>7, <2>8, OtherStepKeeps
<1>7. CASE InsertOpening(r)
  <2>1. job[r].kind = "opening" /\ job[r].club # "expense"
    BY <1>1, <1>7, SourceAssumption DEF InsertOpening, Running, JobIsTyped
  <2>2. DOMAIN movement' = Source /\ movement'["expense"] = movement["expense"]
    BY <1>1, <1>7, <2>1 DEF InsertOpening, Source
  <2>3. QED BY <1>1, <1>7, <2>1, <2>2, FinishKeeps DEF InsertOpening, BeingRecorded
<1>8. CASE InsertIncome(r)
  <2>1. DOMAIN movement' = Source /\ movement'["expense"] = movement["expense"]
    BY <1>1, <1>8, SourceAssumption DEF InsertIncome, Source
  <2>2. QED BY <1>1, <1>8, <2>1, FinishKeeps DEF InsertIncome, Running, BeingRecorded
<1>9. CASE InsertTransfer(r)
  <2>1. DOMAIN movement' = Source /\ movement'["expense"] = movement["expense"]
    BY <1>1, <1>9, SourceAssumption DEF InsertTransfer, Source
  <2>2. QED BY <1>1, <1>9, <2>1, FinishKeeps DEF InsertTransfer, Running, BeingRecorded
<1>10. CASE RefuseTransfer(r)
  BY <1>1, <1>10, FinishKeeps DEF RefuseTransfer, Running, cash, BeingRecorded
<1>11. CASE CheckTransfer(r)
  <2> DEFINE j == [job[r] EXCEPT !.pc = "write"]
  <2>1. job[r].kind = "confirm" /\ UNCHANGED <<movement, wallets>> /\ (Set(r, j) \/ Finish(r))
    BY <1>11 DEF CheckTransfer, Running, cash, Goto
  <2>2. /\ DOMAIN j = DOMAIN job[r] /\ j.kind = "confirm" /\ j.pc = "write"
        /\ j.source = job[r].source
    BY <1>1, <2>1 DEF JobIsTyped
  <2> HIDE DEF j
  <2>3. JobIsTyped(j) /\ JobIsGrounded(j)
    BY <1>1, <2>1, <2>2 DEF JobIsTyped, JobIsGrounded, HasRead, BeingRecorded, FromStatus
  <2>4. QED BY <1>1, <2>1, <2>3, OtherStepKeeps, FinishKeeps DEF BeingRecorded
<1>12. CASE ConfirmMovement(r)
  <2>1. job[r].kind = "confirm" /\ job[r].source # "expense"
    BY <1>1, <1>12, SourceAssumption DEF ConfirmMovement, Running, JobIsTyped
  <2>2. DOMAIN movement' = Source /\ movement'["expense"] = movement["expense"]
    BY <1>1, <1>12, <2>1 DEF ConfirmMovement, Source
  <2>3. QED BY <1>1, <1>12, <2>1, <2>2, FinishKeeps DEF ConfirmMovement, BeingRecorded
<1>13. QED
  BY <1>2, <1>3, <1>4, <1>5, <1>6, <1>7, <1>8, <1>9, <1>10, <1>11, <1>12
  DEF CashArrive, CashProceed

-----------------------------------------------------------------------------
(* The handlers of the expense.                                            *)

\* An action begins with a decision its kind allows.
LEMMA ActionKeeps ==
  ASSUME ExpInv, NEW r \in Req, NEW u, NEW kind \in DOMAIN FromStatus \cup {"update"}, NEW data, NEW to,
         BeginAction(r, u, kind, data, to), exp # NoExpense,
         kind \in {"edit", "date", "update"} => data \in ExpenseData,
         kind = "submit" => \/ to = "pending_regional"
                            \/ to = "pending_accountant" /\ IsRegional(exp.author),
         kind = "approve" => to = "pending_accountant" /\ IsRegional(u) /\ u # exp.author,
         kind = "approveOwner" => to = "pending_accountant" /\ Owns(u),
         kind = "return" => to = "needs_correction",
         kind = "cancel" => to = "cancelled"
  PROVE  ExpInv'
<1> DEFINE j == [pc |-> "write", kind |-> kind, by |-> u, data |-> data, to |-> to]
<1>1. Begin(r, j) /\ UNCHANGED <<exp, history, movement, wallets>>
  BY DEF BeginAction, cash, paper
<1>2. /\ DOMAIN j = {"pc", "kind", "by", "data", "to"} /\ j.pc = "write" /\ j.kind = kind
      /\ j.by = u /\ j.data = data /\ j.to = to
  OBVIOUS
<1>3. /\ kind \in {"edit", "submit", "approve", "approveOwner", "return", "cancel", "date", "update"}
      /\ kind = "update" => "update" \in scenario.calls
  BY DEF FromStatus, BeginAction, Begin
<1> HIDE DEF j
<1>4. JobIsTyped(j)
  BY <1>2, <1>3 DEF JobIsTyped, HasRead
<1>5. JobIsGrounded(j)
  BY <1>2, <1>3 DEF JobIsGrounded, HasRead, BeingRecorded
<1>6. QED BY <1>1, <1>4, <1>5, BeginKeeps

\* Every way to begin, with what the caller may do and the row says.
LEMMA ArriveKeeps ==
  ASSUME ExpInv, NEW r \in Req, Arrive(r)
  PROVE  ExpInv'
<1>1. scenario.data \subseteq ExpenseData /\ scenario.updates \subseteq ExpenseData
  BY DEF ExpInv, Shaped
<1>2. DOMAIN FromStatus =
        {"edit", "submit", "approve", "approveOwner", "return", "cancel", "date"}
  BY DEF FromStatus
<1>3. ASSUME NEW u \in User, NEW data \in scenario.data, BeginDraft(r, u, data)
      PROVE  ExpInv'
  <2> DEFINE j == [pc |-> "insert", kind |-> "draft", by |-> u, club |-> NoWallet, data |-> data]
  <2>1. /\ (Begin(r, [j EXCEPT !.club = u]) /\ UNCHANGED cash) \/ BeginWithWallet(r, j)
        /\ UNCHANGED <<exp, history>>
    BY <1>3 DEF BeginDraft, paper
  <2>2. CASE Begin(r, [j EXCEPT !.club = u]) /\ UNCHANGED cash
    <3> DEFINE k == [j EXCEPT !.club = u]
    <3>1. /\ DOMAIN k = {"pc", "kind", "by", "club", "data"}
          /\ k.pc = "insert" /\ k.kind = "draft" /\ k.data = data
      OBVIOUS
    <3>2. Begin(r, k) /\ UNCHANGED <<movement, wallets>>
      BY <2>2 DEF cash
    <3> HIDE DEF k
    <3>3. JobIsTyped(k) /\ JobIsGrounded(k)
      BY <1>1, <1>2, <3>1 DEF JobIsTyped, JobIsGrounded, HasRead, BeingRecorded
    <3>4. QED BY <2>1, <3>2, <3>3, BeginKeeps
  <2>3. CASE BeginWithWallet(r, j)
    <3>1. /\ {"pc", "kind", "club", "by", "data"} \subseteq DOMAIN j
          /\ j.pc = "insert" /\ j.kind = "draft" /\ j.data = data
      OBVIOUS
    <3> HIDE DEF j
    <3>2. QED BY <1>1, <2>1, <2>3, <3>1, BeginWithWalletKeeps
  <2>4. QED BY <2>1, <2>2, <2>3
<1>4. ASSUME NEW u \in User, NEW data \in scenario.data, exp # NoExpense,
             BeginEdit(r, u, data) \/ BeginChangeDate(r, u, data)
      PROVE  ExpInv'
  BY <1>1, <1>2, <1>4, ActionKeeps DEF BeginEdit, BeginChangeDate
<1>5. ASSUME NEW u \in User, exp # NoExpense, BeginSubmit(r, u)
      PROVE  ExpInv'
  BY <1>2, <1>5, ActionKeeps DEF BeginSubmit
<1>6. ASSUME NEW u \in User, exp # NoExpense, BeginApproval(r, u)
      PROVE  ExpInv'
  BY <1>2, <1>6, ActionKeeps DEF BeginApproval, CanApproveRegional, CanApproveOwner
<1>7. ASSUME NEW u \in User, exp # NoExpense, BeginReturn(r, u) \/ BeginCancel(r, u)
      PROVE  ExpInv'
  BY <1>2, <1>7, ActionKeeps DEF BeginReturn, BeginCancel
<1>8. ASSUME NEW u \in User, exp # NoExpense, BeginVerify(r, u)
      PROVE  ExpInv'
  <2> DEFINE j == [pc |-> "write", kind |-> "verify", by |-> u]
  <2>1. Begin(r, j) /\ UNCHANGED <<exp, history, movement, wallets>>
    BY <1>8 DEF BeginVerify, cash, paper
  <2>2. JobIsTyped(j) /\ JobIsGrounded(j)
    BY <1>2, <1>8 DEF JobIsTyped, JobIsGrounded, HasRead, BeingRecorded
  <2> HIDE DEF j
  <2>3. QED BY <2>1, <2>2, BeginKeeps
<1>12. ASSUME NEW u \in User, NEW data \in scenario.updates, exp # NoExpense, BeginUpdate(r, u, data)
       PROVE  ExpInv'
  BY <1>1, <1>12, ActionKeeps DEF BeginUpdate
<1>9. ASSUME NEW u \in User, NEW d, BeginUpload(r, u, d) \/ BeginRemove(r, u, d)
      PROVE  ExpInv'
  <2>1. PICK pc \in {"count", "write"}, kind \in {"upload", "remove"} :
          /\ Begin(r, [pc |-> pc, kind |-> kind, file |-> d])
          /\ UNCHANGED <<exp, history, movement, wallets>>
    BY <1>9 DEF BeginUpload, BeginRemove, cash, paper
  <2> DEFINE j == [pc |-> pc, kind |-> kind, file |-> d]
  <2>2. JobIsTyped(j) /\ JobIsGrounded(j)
    BY <1>2 DEF JobIsTyped, JobIsGrounded, HasRead, BeingRecorded
  <2>3. Begin(r, j)
    BY <2>1
  <2> HIDE DEF j
  <2>4. QED BY <2>1, <2>2, <2>3, BeginKeeps
<1>10. ASSUME CashArrive(r), UNCHANGED <<paper, hasActiveRegional, history>>
       PROVE  ExpInv'
  BY <1>10, CashKeeps DEF paper
<1>11. QED
  BY <1>3, <1>4, <1>5, <1>6, <1>7, <1>8, <1>9, <1>10, <1>12 DEF Arrive

\* A draft is a new row: nothing was decided about it yet.
LEMMA DraftKeeps ==
  ASSUME ExpInv, NEW r \in Req, InsertDraft(r)
  PROVE  ExpInv'
<1>1. /\ job[r].kind = "draft" /\ Finish(r) /\ UNCHANGED <<movement, wallets, history>>
      /\ DOMAIN movement = Source /\ wallets \subseteq ClubWallet
  BY DEF InsertDraft, Running, cash, ExpInv, Shaped
<1>2. CASE exp # NoExpense
  BY <1>1, <1>2, FinishKeeps DEF InsertDraft, BeingRecorded
<1>3. CASE exp = NoExpense
  <2>1. exp' = [status |-> "draft", author |-> job[r].by, data |-> job[r].data,
                wallet |-> job[r].club]
    BY <1>3 DEF InsertDraft
  <2>2. job[r].data \in ExpenseData
    BY <1>1 DEF ExpInv, JobsAreSound, JobIsTyped
  <2>3. movement["expense"] = NoMovement
    BY <1>3 DEF ExpInv, CashFollowsVerification, NoExpense
  <2>4. UNCHANGED scenario /\ DOMAIN job' = Req
        /\ job'[r] = Idle /\ \A q \in Req \ {r} : job'[q] = job[q]
    BY <1>1 DEF Finish, Set, ExpInv, Shaped
  <2>5. Shaped' /\ RowIsTyped' /\ MovementIsFinal'
    BY <1>1, <2>1, <2>2, <2>3, <2>4
    DEF ExpInv, Shaped, RowIsTyped, MovementIsFinal, EXP
  <2>6. RegionalFirst' /\ CashFollowsVerification' /\ RecordedUnlessRecording'
    BY <1>1, <2>1, <2>3 DEF RegionalFirst, CashFollowsVerification, RecordedUnlessRecording
  <2>7. ASSUME NEW q \in Req, q # r
        PROVE  /\ JobIsTyped(job[q])
               /\ job[q].kind \notin DOMAIN FromStatus \cup {"verify", "update"}
    BY <1>3 DEF ExpInv, JobsAreSound, JobIsGrounded
  <2>8. JobsAreSound'
    BY <2>4, <2>7, IdleIsSound
    DEF JobsAreSound, JobIsTyped, JobIsGrounded, HasRead, BeingRecorded, FromStatus, Idle
  <2>10. Noted'
    <3>1. verifiedAs = {} /\ verifiedAs' = {}
      BY <1>1, <1>3 DEF ExpInv, Noted, NoExpense, history
    <3>2. QED BY <2>1, <3>1 DEF Noted
  <2>9. QED BY <2>5, <2>6, <2>8, <2>10 DEF ExpInv
<1>4. QED BY <1>2, <1>3

\* A write on the row: its status is still one the action accepts, so that the
\* author is the one of the decision and the expense is not verified.
LEMMA RowWriteKeeps ==
  ASSUME ExpInv, NEW r \in Req, WriteAction(r)
  PROVE  ExpInv'
<1>1. PICK k \in DOMAIN FromStatus : k = job[r].kind
  BY DEF WriteAction
<1>2. /\ k \in {"edit", "submit", "approve", "approveOwner", "return", "cancel", "date"}
      /\ FromStatus[k] \subseteq EXP \ {"verified"}
  BY DEF FromStatus, V2_EDITABLE, V2_CANCELABLE, EXP
<1>3. /\ Finish(r) /\ UNCHANGED <<movement, wallets>>
      /\ DOMAIN movement = Source /\ wallets \subseteq ClubWallet
      /\ exp # NoExpense /\ JobIsTyped(job[r]) /\ JobIsGrounded(job[r])
  BY <1>1 DEF WriteAction, cash, ExpInv, Shaped, JobsAreSound, JobIsGrounded
<1>4. CASE exp.status \notin FromStatus[k]
  BY <1>1, <1>2, <1>3, <1>4, FinishKeeps DEF WriteAction, BeingRecorded, history
<1>5. CASE exp.status \in FromStatus[k]
  <2>1. exp.status # "verified" /\ movement["expense"] = NoMovement
    BY <1>2, <1>5 DEF ExpInv, CashFollowsVerification
  <2>2. DOMAIN exp = {"status", "author", "data", "wallet"} /\ exp.status \in EXP
        /\ exp.data \in ExpenseData
    BY <1>3 DEF ExpInv, RowIsTyped
  <2>3. exp' = IF k = "edit" THEN [exp EXCEPT !.data = job[r].data]
               ELSE IF k = "date" THEN [exp EXCEPT !.data.when = job[r].data.when]
               ELSE [exp EXCEPT !.status = job[r].to]
    BY <1>1, <1>5 DEF WriteAction
  <2>4. k \in {"edit", "date"} =>
          /\ exp'.status = exp.status /\ exp'.data \in ExpenseData
          /\ forwarded' = forwarded
    <3>1. k \in {"edit", "date"} => job[r].data \in ExpenseData
      BY <1>1, <1>3 DEF JobIsTyped
    <3>2. CASE k = "edit"
      BY <1>1, <2>2, <2>3, <3>1, <3>2 DEF WriteAction
    <3>3. CASE k = "date"
      BY <1>1, <2>2, <2>3, <3>1, <3>3 DEF WriteAction, ExpenseData
    <3>4. QED BY <3>2, <3>3
  <2>5. k \notin {"edit", "date"} => exp'.status = job[r].to /\ exp'.data = exp.data
    BY <2>2, <2>3
  <2>6. exp'.author = exp.author /\ DOMAIN exp' = DOMAIN exp /\ exp' # NoExpense
    BY <2>2, <2>3 DEF NoExpense
  <2>7. k \notin {"edit", "date"} =>
          job[r].to \in {"pending_regional", "pending_accountant", "needs_correction", "cancelled"}
    BY <1>1, <1>2, <1>3 DEF JobIsGrounded
  <2>8. exp'.status # "verified" /\ exp'.status \in EXP /\ exp'.data \in ExpenseData
    BY <2>1, <2>2, <2>4, <2>5, <2>7 DEF EXP
  <2>9. UNCHANGED scenario /\ DOMAIN job' = Req
        /\ job'[r] = Idle /\ \A q \in Req \ {r} : job'[q] = job[q]
    BY <1>3 DEF Finish, Set, ExpInv, Shaped
  <2>10. Shaped' /\ RowIsTyped' /\ MovementIsFinal'
    BY <1>3, <2>1, <2>2, <2>6, <2>8, <2>9 DEF ExpInv, Shaped, RowIsTyped, MovementIsFinal
  <2>11. CashFollowsVerification' /\ RecordedUnlessRecording' /\ Noted'
    <3>1. verifiedAs' = verifiedAs /\ verifiedAs = {}
      BY <2>1 DEF WriteAction, ExpInv, Noted
    <3>2. QED BY <1>3, <2>1, <2>8, <3>1 DEF CashFollowsVerification, RecordedUnlessRecording, Noted
  <2>12. ASSUME NEW j, JobIsTyped(j), JobIsGrounded(j)
         PROVE  JobIsTyped(j)' /\ JobIsGrounded(j)'
    BY <1>3, <2>1, <2>6, <2>9, <2>12 DEF JobIsTyped, JobIsGrounded, HasRead, BeingRecorded
  <2>13. JobsAreSound'
    <3>1. \A q \in Req : JobIsTyped(job'[q]) /\ JobIsGrounded(job'[q])
      BY <2>9, IdleIsSound DEF ExpInv, JobsAreSound
    <3>2. PICK j2 : j2 = job'
      OBVIOUS
    <3>3. \A q \in Req : JobIsTyped(j2[q])' /\ JobIsGrounded(j2[q])'
      BY <2>12, <3>1, <3>2
    <3>4. QED BY <3>2, <3>3 DEF JobsAreSound, JobIsTyped, JobIsGrounded, HasRead, BeingRecorded
  <2>14. RegionalFirst'
    <3>1. CASE k \in {"edit", "date"}
      BY <2>4, <2>6, <3>1 DEF ExpInv, RegionalFirst
    <3>2. CASE k = "submit"
      BY <1>1, <1>3, <2>5, <2>6, <3>2 DEF RegionalFirst, JobIsGrounded
    <3>3. CASE k \in {"approve", "approveOwner"}
      <4>1. job[r].by \in forwarded'
        BY <1>1, <1>5, <3>3 DEF WriteAction
      <4>2. \/ IsRegional(job[r].by) /\ job[r].by # exp.author
            \/ Owns(job[r].by)
        BY <1>1, <1>3, <3>3 DEF JobIsGrounded
      <4>3. QED BY <2>6, <4>1, <4>2 DEF RegionalFirst
    <3>4. CASE k \in {"return", "cancel"}
      BY <1>1, <1>3, <2>5, <3>4 DEF RegionalFirst, JobIsGrounded
    <3>5. QED BY <1>2, <3>1, <3>2, <3>3, <3>4
  <2>15. QED BY <2>10, <2>11, <2>13, <2>14 DEF ExpInv
<1>6. QED BY <1>4, <1>5

\* The verification is written once; the request that wrote it has yet to record
\* the movement.
LEMMA VerifyKeeps ==
  ASSUME ExpInv, NEW r \in Req, WriteVerify(r)
  PROVE  ExpInv'
<1>1. /\ job[r].kind = "verify" /\ job[r].pc = "write" /\ ~BeingRecorded(job[r])
      /\ UNCHANGED <<movement, wallets, forwarded>>
      /\ DOMAIN movement = Source /\ wallets \subseteq ClubWallet
      /\ exp # NoExpense /\ JobIsTyped(job[r]) /\ JobIsGrounded(job[r])
  BY DEF WriteVerify, Running, cash, ExpInv, Shaped, JobsAreSound, JobIsGrounded, BeingRecorded
<1>2. CASE exp.status # "pending_accountant"
  BY <1>1, <1>2, FinishKeeps DEF WriteVerify, history
<1>3. CASE exp.status = "pending_accountant"
  <2>1. PICK j : /\ j = [job[r] EXCEPT !.pc = "read"]
                 /\ exp' = [exp EXCEPT !.status = "verified"] /\ Set(r, j)
    BY <1>3 DEF WriteVerify, Goto
  <2>2. j.kind = "verify" /\ j.pc = "read" /\ {"pc", "kind"} \subseteq DOMAIN j
    BY <1>1, <2>1 DEF JobIsTyped
  <2>3. DOMAIN exp = {"status", "author", "data", "wallet"} /\ exp.data \in ExpenseData
    BY <1>1 DEF ExpInv, RowIsTyped
  <2>4. /\ exp'.status = "verified" /\ exp'.author = exp.author /\ exp'.data = exp.data
        /\ DOMAIN exp' = DOMAIN exp
    BY <2>1, <2>3
  <2>5. movement["expense"] = NoMovement
    BY <1>3 DEF ExpInv, CashFollowsVerification
  <2>6. UNCHANGED scenario /\ DOMAIN job' = Req
        /\ job'[r] = j /\ \A q \in Req \ {r} : job'[q] = job[q]
    BY <2>1 DEF Set, ExpInv, Shaped
  <2>17. verifiedAs' = {exp.data} /\ verifiedAs = {}
    BY <1>3 DEF WriteVerify, ExpInv, Noted
  <2>7. Shaped' /\ RowIsTyped' /\ MovementIsFinal' /\ CashFollowsVerification' /\ Noted'
    BY <1>1, <2>3, <2>4, <2>5, <2>6, <2>17
    DEF ExpInv, Shaped, RowIsTyped, MovementIsFinal, CashFollowsVerification, Noted, EXP
  <2>8. RegionalFirst'
    BY <1>1, <1>3, <2>4 DEF ExpInv, RegionalFirst
  <2>9. RecordedUnlessRecording'
    BY <2>2, <2>6 DEF RecordedUnlessRecording, BeingRecorded
  <2>10. exp' # NoExpense
    BY <2>4 DEF NoExpense
  <2>11. ASSUME NEW k, JobIsTyped(k), JobIsGrounded(k)
         PROVE  JobIsTyped(k)' /\ JobIsGrounded(k)'
    BY <1>3, <2>4, <2>6, <2>10, <2>11, <2>17 DEF JobIsTyped, JobIsGrounded, HasRead, BeingRecorded
  <2>12. JobIsTyped(j)
    BY <2>2 DEF JobIsTyped, HasRead
  <2>13. JobIsGrounded(j)'
    BY <2>2, <2>4, <2>10 DEF JobIsGrounded, HasRead, BeingRecorded
  <2>14. \A q \in Req \ {r} : JobIsTyped(job[q]) /\ JobIsGrounded(job[q])
    BY DEF ExpInv, JobsAreSound
  <2>15. JobsAreSound'
    <3>1. PICK jobs : jobs = job'
      OBVIOUS
    <3>2. \A q \in Req \ {r} : JobIsTyped(jobs[q])' /\ JobIsGrounded(jobs[q])'
      BY <2>6, <2>11, <2>14, <3>1
    <3>3. JobIsTyped(jobs[r])' /\ JobIsGrounded(jobs[r])'
      BY <2>6, <2>12, <2>13, <3>1 DEF JobIsTyped, JobIsGrounded, HasRead, BeingRecorded
    <3>4. QED BY <3>1, <3>2, <3>3 DEF JobsAreSound, JobIsTyped, JobIsGrounded, HasRead, BeingRecorded
  <2>16. QED BY <2>7, <2>8, <2>9, <2>15 DEF ExpInv
<1>4. QED BY <1>2, <1>3

\* The older form writes other amounts and dates in a row, verified or not: what was
\* verified stays noted.
LEMMA UpdateKeeps ==
  ASSUME ExpInv, NEW r \in Req, WriteUpdate(r)
  PROVE  ExpInv'
<1>1. /\ job[r].kind = "update" /\ Finish(r) /\ UNCHANGED <<movement, wallets, forwarded>>
      /\ exp' = [exp EXCEPT !.data = job[r].data]
      /\ verifiedAs' = IF exp.status = "verified" THEN verifiedAs \cup {job[r].data} ELSE verifiedAs
      /\ DOMAIN movement = Source /\ wallets \subseteq ClubWallet
  BY DEF WriteUpdate, Running, cash, ExpInv, Shaped
<1>2. /\ exp # NoExpense /\ job[r].data \in ExpenseData /\ "update" \in scenario.calls
      /\ DOMAIN exp = {"status", "author", "data", "wallet"} /\ exp.status \in EXP
  BY <1>1 DEF ExpInv, JobsAreSound, JobIsTyped, JobIsGrounded, RowIsTyped
<1>3. /\ exp'.status = exp.status /\ exp'.author = exp.author /\ exp'.wallet = exp.wallet
      /\ exp'.data = job[r].data /\ DOMAIN exp' = DOMAIN exp /\ exp' # NoExpense
  BY <1>1, <1>2 DEF NoExpense
<1>4. /\ UNCHANGED scenario /\ DOMAIN job' = Req
      /\ job'[r] = Idle /\ \A q \in Req \ {r} : job'[q] = job[q]
  BY <1>1 DEF Finish, Set, ExpInv, Shaped
<1>5. Shaped' /\ RowIsTyped' /\ MovementIsFinal' /\ Noted'
  BY <1>1, <1>2, <1>3, <1>4 DEF ExpInv, Shaped, RowIsTyped, MovementIsFinal, Noted
<1>6. RegionalFirst' /\ CashFollowsVerification'
  BY <1>1, <1>2, <1>3, <1>4 DEF ExpInv, RegionalFirst, CashFollowsVerification
<1>7. RecordedUnlessRecording'
  <2>1. Excused => Excused'
    BY <1>1, <1>4 DEF Excused
  <2>2. ~BeingRecorded(job[r])
    BY <1>1 DEF BeingRecorded
  <2>3. QED BY <1>1, <1>3, <1>4, <2>1, <2>2 DEF ExpInv, RecordedUnlessRecording
<1>8. ASSUME NEW k, JobIsTyped(k), JobIsGrounded(k)
      PROVE  JobIsTyped(k)' /\ JobIsGrounded(k)'
  BY <1>1, <1>3, <1>4, <1>8 DEF JobIsTyped, JobIsGrounded
<1>9. JobsAreSound'
  <2>1. \A q \in Req : JobIsTyped(job'[q]) /\ JobIsGrounded(job'[q])
    BY <1>4, IdleIsSound DEF ExpInv, JobsAreSound
  <2>2. PICK jobs : jobs = job'
    OBVIOUS
  <2>3. \A q \in Req : JobIsTyped(jobs[q])' /\ JobIsGrounded(jobs[q])'
    BY <1>8, <2>1, <2>2
  <2>4. QED BY <2>2, <2>3 DEF JobsAreSound, JobIsTyped, JobIsGrounded
<1>10. QED BY <1>5, <1>6, <1>7, <1>9 DEF ExpInv

\* The verified row is read: what it says is noted. A row whose amount was taken away
\* is not recorded.
LEMMA ReadKeeps ==
  ASSUME ExpInv, NEW r \in Req, ReadVerified(r) \/ FindExpenseWallet(r)
  PROVE  ExpInv'
<1>1. /\ job[r].kind = "verify" /\ job[r].pc \in {"read", "find"} /\ BeingRecorded(job[r])
      /\ UNCHANGED <<exp, history, movement, wallets>>
      /\ DOMAIN movement = Source /\ wallets \subseteq ClubWallet
      /\ JobIsTyped(job[r]) /\ JobIsGrounded(job[r])
      /\ exp # NoExpense /\ exp.status = "verified"
  BY DEF ReadVerified, FindExpenseWallet, Running, BeingRecorded, cash, paper, ExpInv, Shaped,
         JobsAreSound, JobIsGrounded
<1>2. exp.data \in ExpenseData /\ exp.data \in verifiedAs
  BY <1>1 DEF ExpInv, RowIsTyped, Noted
<1>3. CASE Finish(r) /\ exp.data.amount = 0
  <2>1. Excused
    BY <1>2, <1>3 DEF Excused
  <2>2. QED BY <1>1, <1>3, <2>1, FinishKeeps
<1>4. ASSUME NEW pc, NEW w, NEW data, Set(r, Recording(pc, w, data)),
             pc \in {"find", "wallet", "insert"}, data \in ExpenseData, data \in verifiedAs,
             data.amount > 0, exp.wallet # NoWallet => pc = "insert" /\ w = exp.wallet,
             pc \in {"find", "wallet"} => exp.wallet = NoWallet
      PROVE  ExpInv'
  <2>1. PICK j : j = Recording(pc, w, data)
    OBVIOUS
  <2>2. /\ DOMAIN j = {"pc", "kind", "club", "data"} /\ j.kind = "verify" /\ j.pc = pc
        /\ j.club = w /\ j.data = data /\ Set(r, j)
    BY <1>4, <2>1 DEF Recording
  <2>3. JobIsTyped(j)
    BY <1>4, <2>2 DEF JobIsTyped, HasRead
  <2>4. JobIsGrounded(j)
    BY <1>1, <1>4, <2>2 DEF JobIsGrounded, HasRead, FromStatus
  <2>5. BeingRecorded(j)
    BY <1>4, <2>2 DEF BeingRecorded
  <2>6. QED BY <1>1, <2>2, <2>3, <2>4, <2>5, OtherStepKeeps
<1>5. CASE ReadVerified(r)
  <2>1. CASE exp.data.amount = 0
    BY <1>3, <1>5, <2>1 DEF ReadVerified
  <2>2. CASE exp.data.amount # 0
    <3>1. exp.data.amount > 0
      BY <1>2, <2>2 DEF ExpenseData
    <3>2. PICK pc : pc = IF exp.wallet = NoWallet THEN "find" ELSE "insert"
      OBVIOUS
    <3>3. Set(r, Recording(pc, exp.wallet, exp.data))
      BY <1>5, <2>2, <3>2 DEF ReadVerified
    <3>4. QED BY <1>2, <1>4, <3>1, <3>2, <3>3
  <2>3. QED BY <2>1, <2>2
<1>6. CASE FindExpenseWallet(r)
  <2>1. PICK w : Set(r, Recording(IF w = NoWallet THEN "wallet" ELSE "insert", w, job[r].data))
    BY <1>6 DEF FindExpenseWallet
  <2>2. HasRead(job[r]) /\ job[r].pc = "find"
    BY <1>6 DEF FindExpenseWallet, Running, HasRead
  <2>3. /\ job[r].data \in ExpenseData /\ job[r].data \in verifiedAs /\ job[r].data.amount > 0
        /\ exp.wallet = NoWallet
    BY <1>1, <2>2 DEF JobIsTyped, JobIsGrounded
  <2>4. PICK pc : pc = IF w = NoWallet THEN "wallet" ELSE "insert"
    OBVIOUS
  <2>5. Set(r, Recording(pc, w, job[r].data))
    BY <2>1, <2>4
  <2>6. QED BY <1>4, <2>3, <2>4, <2>5
<1>7. QED BY <1>5, <1>6

\* The movement is recorded as the row was read: it is still verified, and has said so.
LEMMA RecordKeeps ==
  ASSUME ExpInv, NEW r \in Req, RecordMovement(r)
  PROVE  ExpInv'
<1>1. /\ HasRead(job[r]) /\ job[r].pc = "insert" /\ Finish(r) /\ UNCHANGED <<exp, history, wallets>>
      /\ DOMAIN movement = Source /\ wallets \subseteq ClubWallet
      /\ RecordExpense(job[r].data.amount, job[r].data.when, job[r].club)
  BY DEF RecordMovement, Running, HasRead, paper, ExpInv, Shaped
<1>2. PICK data, w : data = job[r].data /\ w = job[r].club
  OBVIOUS
<1>3. /\ exp # NoExpense /\ exp.status = "verified"
      /\ data \in ExpenseData /\ data \in verifiedAs /\ data.amount > 0
      /\ exp.wallet # NoWallet => w = exp.wallet
      /\ "update" \notin scenario.calls => data = exp.data
  BY <1>1, <1>2 DEF ExpInv, JobsAreSound, JobIsTyped, JobIsGrounded, HasRead, BeingRecorded, Noted
<1>4. /\ UNCHANGED <<scenario, forwarded, verifiedAs>> /\ DOMAIN job' = Req
      /\ job'[r] = Idle /\ \A q \in Req \ {r} : job'[q] = job[q]
  BY <1>1 DEF Finish, Set, ExpInv, Shaped, history
<1>5. DOMAIN movement' = Source /\ "expense" \in DOMAIN movement
  BY <1>1 DEF RecordExpense, Source
<1>6. MovementIsFinal' /\ CashFollowsVerification' /\ movement'["expense"].status = "confirmed"
  <2>1. CASE movement["expense"] # NoMovement
    <3>1. movement' = movement
      BY <1>1, <2>1 DEF RecordExpense
    <3>2. QED BY <1>1, <1>4, <2>1, <3>1 DEF ExpInv, MovementIsFinal, CashFollowsVerification
  <2>2. CASE movement["expense"] = NoMovement
    <3>1. ~(data.amount <= 0)
      BY <1>3 DEF ExpenseData
    <3>2. movement'["expense"] = Recorded("confirmed", data.amount, data.when, w, NoWallet)
      BY <1>1, <1>2, <1>5, <2>2, <3>1 DEF RecordExpense
    <3>3. PICK m : m = movement'["expense"]
      OBVIOUS
    <3>4. m.status = "confirmed" /\ m.amount = data.amount /\ m.when = data.when /\ m.from = w
      BY <3>2, <3>3 DEF Recorded
    <3>5. [amount |-> m.amount, when |-> m.when] = data
      BY <1>3, <3>4 DEF ExpenseData
    <3>6. QED
      BY <1>1, <1>3, <1>4, <3>3, <3>4, <3>5 DEF MovementIsFinal, CashFollowsVerification
  <2>3. QED BY <2>1, <2>2
<1>7. Shaped' /\ RowIsTyped' /\ Noted' /\ RegionalFirst' /\ RecordedUnlessRecording'
  BY <1>1, <1>4, <1>5, <1>6
  DEF ExpInv, Shaped, RowIsTyped, Noted, RegionalFirst, RecordedUnlessRecording
<1>8. JobsAreSound'
  BY <1>1, <1>4, IdleIsSound
  DEF ExpInv, JobsAreSound, JobIsTyped, JobIsGrounded, HasRead, BeingRecorded
<1>9. QED BY <1>6, <1>7, <1>8 DEF ExpInv

\* Documents, crashes and the staff of the club leave the row and the movement alone.
LEMMA RestKeeps ==
  ASSUME ExpInv
  PROVE  /\ \A r \in Req : CountDocuments(r) \/ InsertDocument(r) \/ RemoveDocument(r) \/ Crash(r)
              => ExpInv'
         /\ RegionalChanges => ExpInv'
<1>1. DOMAIN movement = Source /\ wallets \subseteq ClubWallet
  BY DEF ExpInv, Shaped
<1>2. ASSUME NEW r \in Req, CountDocuments(r)
      PROVE  ExpInv'
  <2> DEFINE j == [job[r] EXCEPT !.pc = "write"]
  <2>1. /\ job[r].kind = "upload" /\ UNCHANGED <<exp, history, movement, wallets>>
        /\ Finish(r) \/ Set(r, j)
    BY <1>2 DEF CountDocuments, Running, cash, paper, Goto
  <2>2. {"pc", "kind"} \subseteq DOMAIN job[r]
    BY DEF ExpInv, JobsAreSound, JobIsTyped
  <2>3. DOMAIN j = DOMAIN job[r] /\ j.kind = "upload" /\ j.pc = "write"
    BY <2>1, <2>2
  <2> HIDE DEF j
  <2>4. JobIsTyped(j) /\ JobIsGrounded(j)
    BY <2>2, <2>3 DEF JobIsTyped, JobIsGrounded, HasRead, BeingRecorded, FromStatus
  <2>5. QED BY <1>1, <2>1, <2>4, FinishKeeps, OtherStepKeeps DEF BeingRecorded
<1>3. ASSUME NEW r \in Req, InsertDocument(r) \/ RemoveDocument(r) \/ Crash(r)
      PROVE  ExpInv'
  <2>1. /\ Finish(r) /\ UNCHANGED <<exp, history, movement, wallets>>
        /\ ~BeingRecorded(job[r]) \/ Excused
    BY <1>3 DEF InsertDocument, RemoveDocument, Crash, Running, BeingRecorded, Excused, cash, paper
  <2>2. QED BY <1>1, <2>1, FinishKeeps
<1>4. ASSUME RegionalChanges
      PROVE  ExpInv'
  BY <1>4
  DEF RegionalChanges, cash, paper, history, ExpInv, Shaped, RowIsTyped, JobsAreSound, JobIsTyped,
      JobIsGrounded, MovementIsFinal, RegionalFirst, CashFollowsVerification, Noted, Excused,
      RecordedUnlessRecording
<1>5. QED BY <1>2, <1>3, <1>4

-----------------------------------------------------------------------------
(* The theorems.                                                           *)

\* At the start there is no movement, and an old row waits for an owner.
LEMMA Initial == Init => ExpInv
<1>1. SUFFICES ASSUME Init PROVE ExpInv
  OBVIOUS
<1>2. scenario.data \subseteq ExpenseData /\ scenario.updates \subseteq ExpenseData
  BY <1>1, ScenarioAssumption DEF Init, ExpenseData
<1>3. Shaped /\ MovementIsFinal /\ movement["expense"] = NoMovement
  BY <1>1, <1>2 DEF Init, CashInit, Shaped, MovementIsFinal, Source
<1>4. exp.status \in {"none", "pending_owner"} /\ RowIsTyped
  <2>1. CASE exp = NoExpense
    BY <2>1 DEF NoExpense, RowIsTyped
  <2>2. CASE \E u \in User, data \in scenario.data :
               exp = [status |-> "pending_owner", author |-> u, data |-> data, wallet |-> NoWallet]
    BY <1>2, <2>2 DEF RowIsTyped, EXP
  <2>3. QED BY <1>1, <2>1, <2>2 DEF Init
<1>5. \A r \in Req : job[r] = Idle
  BY <1>1 DEF Init
<1>6. JobsAreSound
  BY <1>5, IdleIsSound DEF JobsAreSound
<1>7. RegionalFirst /\ CashFollowsVerification /\ RecordedUnlessRecording /\ Noted
  BY <1>1, <1>3, <1>4 DEF RegionalFirst, CashFollowsVerification, RecordedUnlessRecording, Noted, Init
<1>8. QED BY <1>3, <1>4, <1>6, <1>7 DEF ExpInv

\* Every step keeps the invariant.
LEMMA Inductive == ExpInv /\ [Next]_vars => ExpInv'
<1>1. SUFFICES ASSUME ExpInv, [Next]_vars PROVE ExpInv'
  OBVIOUS
<1>2. ASSUME NEW r \in Req, Proceed(r)
      PROVE  ExpInv'
  BY <1>1, <1>2, DraftKeeps, RowWriteKeeps, UpdateKeeps, VerifyKeeps, ReadKeeps, RecordKeeps,
     RestKeeps, CashKeeps
  DEF Proceed, paper
<1>3. CASE Next
  BY <1>1, <1>2, <1>3, ArriveKeeps, RestKeeps DEF Next
<1>4. CASE UNCHANGED vars
  BY <1>1, <1>4
  DEF vars, history, ExpInv, Shaped, RowIsTyped, JobsAreSound, JobIsTyped, JobIsGrounded, HasRead, BeingRecorded,
      MovementIsFinal, RegionalFirst, CashFollowsVerification, Noted, Excused, RecordedUnlessRecording
<1>5. QED BY <1>1, <1>3, <1>4

\* A manager's expense reaches accounting through a regional director other than its
\* author, or on an old row an owner (submitExpense, approveRegionalBudget,
\* approveOwnerBudget), whatever returns, resubmissions and approvals overlap.
THEOREM RegionalReviewsFirst == Spec => []RegionalFirst
<1>1. ExpInv => RegionalFirst
  BY DEF ExpInv
<1>2. QED BY <1>1, Initial, Inductive, PTL DEF Spec

\* The cash movement of an expense (recordExpenseMovement) exists only for a verified
\* expense, has its wallet, and an amount and a date that it had once it was verified,
\* whatever edits, changes of date and cancellations overlap with the verification: the
\* ones it still has, where updateExpense does not rewrite them.
THEOREM CashIsVerified == Spec => []CashFollowsVerification
<1>1. ExpInv => CashFollowsVerification
  BY DEF ExpInv
<1>2. QED BY <1>1, Initial, Inductive, PTL DEF Spec

\* Where no process dies, a verified expense (verifyExpense) whose amount updateExpense
\* has not taken away has its movement as soon as nobody is verifying it, also when
\* several requests verified it at once.
THEOREM VerifiedHasMovement == Spec => []VerifiedIsRealized
<1>1. ExpInv => VerifiedIsRealized
  BY DEF ExpInv, RecordedUnlessRecording, VerifiedIsRealized, BeingRecorded, Excused
<1>2. QED BY <1>1, Initial, Inductive, PTL DEF Spec

-----------------------------------------------------------------------------
(***************************************************************************)
(* The money of the wallets, when whoever may confirm a transfer works     *)
(* alone.                                                                  *)

\* A scenario in which movements are confirmed has one request at a time.
ConfirmsAlone == \A s \in Scenarios : "confirm" \in s.calls => \E r \in Req : s.slots = {r}

\* What the balances are computed from.
ConfirmedRows == {s \in Source : movement[s].status = "confirmed"}
RowsInto(w)   == {s \in ConfirmedRows : movement[s].to = w}
RowsFrom(w)   == {s \in ConfirmedRows : movement[s].from = w}

MoneyIsFinite ==
  /\ scenario \in Scenarios
  /\ IsFiniteSet(ConfirmedRows)
  /\ \A s \in Source : /\ DOMAIN movement[s] = {"status", "amount", "when", "from", "to"}
                       /\ movement[s].amount \in Nat

\* A job runs in a slot of the scenario, of a kind the scenario allows; it
\* carries an amount where it is going to insert one.
JobIsPlaced(j, r) ==
  /\ j.kind \in {"opening", "income", "transfer"} => "amount" \in DOMAIN j /\ j.amount \in Nat
  /\ j # Idle => r \in scenario.slots /\ j.kind \in scenario.calls \cup {"refused"}

\* A confirmation that is about to be written is still covered.
JobIsCovered(j) ==
  j.kind = "confirm" /\ j.pc = "write" /\ j.source \in Transfer =>
    /\ movement[j.source].status = "pending_confirmation"
    /\ movement[j.source].from \in ClubWallet =>
         Balance(movement[j.source].from) >= movement[j.source].amount

\* A step that confirms a transfer leaves the club's wallet at 0 or more.
ConfirmsCovered ==
  \A t \in Transfer :
    /\ movement[t].status = "pending_confirmation" /\ movement'[t].status = "confirmed"
    /\ movement[t].from \in ClubWallet
    => (Balance(movement[t].from))' >= 0

MoneyInv ==
  /\ MoneyIsFinite
  /\ \A r \in Req : JobIsPlaced(job[r], r) /\ JobIsCovered(job[r])

-----------------------------------------------------------------------------
\* A balance is the difference of two sums over the ledger.
LEMMA BalanceIs ==
  \A w : Balance(w) = AmountTotal(movement, RowsInto(w)) - AmountTotal(movement, RowsFrom(w))
BY DEF Balance, AmountTotal, RowsInto, RowsFrom, ConfirmedRows

\* A step that leaves the ledger alone leaves the balances alone.
LEMMA SameBalances == UNCHANGED movement => \A w : (Balance(w))' = Balance(w)
BY DEF Balance, MapThenSumSet, MapThenFoldSet

\* The rows that are summed are finite in number, and so are their parts.
LEMMA RowsAreFinite ==
  ASSUME MoneyIsFinite, NEW w
  PROVE  /\ IsFiniteSet(RowsInto(w)) /\ IsFiniteSet(RowsFrom(w))
         /\ \A s \in RowsInto(w) \cup RowsFrom(w) : movement[s].amount \in Nat
<1>1. RowsInto(w) \subseteq ConfirmedRows /\ RowsFrom(w) \subseteq ConfirmedRows
  BY DEF RowsInto, RowsFrom
<1>2. IsFiniteSet(ConfirmedRows)
  BY DEF MoneyIsFinite
<1>3. IsFiniteSet(RowsInto(w)) /\ IsFiniteSet(RowsFrom(w))
  BY <1>1, <1>2, FS_Subset
<1>4. QED BY <1>1, <1>3 DEF MoneyIsFinite, ConfirmedRows

\* Confirming a pending movement that the wallet it is taken from covers leaves
\* that wallet's balance at 0 or more.
LEMMA ConfirmationIsCovered ==
  ASSUME MoneyIsFinite, MoneyIsFinite', DOMAIN movement = Source, NEW s \in Source,
         movement[s].status = "pending_confirmation",
         movement' = [movement EXCEPT ![s].status = "confirmed"],
         NEW w, w = movement[s].from, Balance(w) >= movement[s].amount
  PROVE  (Balance(w))' >= 0 /\ movement'[s].from = w
<1> DEFINE a == movement[s].amount
           in == RowsInto(w)
           out == RowsFrom(w)
           inN == RowsInto(w)'
           outN == RowsFrom(w)'
<1>1. /\ movement'[s].status = "confirmed" /\ movement'[s].amount = a
      /\ movement'[s].from = w /\ movement'[s].to = movement[s].to
      /\ \A t \in Source : t # s => movement'[t] = movement[t]
  BY DEF MoneyIsFinite
<1>2. s \notin ConfirmedRows /\ ConfirmedRows' = ConfirmedRows \cup {s}
  BY <1>1 DEF ConfirmedRows
<1>3. /\ s \notin in /\ s \notin out
      /\ outN = out \cup {s}
      /\ inN = in \/ inN = in \cup {s}
  BY <1>1, <1>2 DEF RowsInto, RowsFrom, ConfirmedRows
<1>4. /\ IsFiniteSet(in) /\ IsFiniteSet(out)
      /\ \A t \in in \cup out : movement[t].amount \in Nat
  BY RowsAreFinite
<1>5. SameAmounts(movement', movement, in) /\ SameAmounts(movement', movement, out)
  BY <1>1, <1>3 DEF SameAmounts, RowsInto, RowsFrom, ConfirmedRows
<1>6. a \in Nat /\ movement'[s].amount \in Nat
  BY <1>1 DEF MoneyIsFinite
<1>7. \A t \in in \cup out : movement'[t].amount \in Nat
  BY <1>4, <1>5 DEF SameAmounts
<1>8. Balance(w) = AmountTotal(movement, in) - AmountTotal(movement, out)
  BY BalanceIs
<1>9. (Balance(w))' = AmountTotal(movement', inN) - AmountTotal(movement', outN)
  BY DEF Balance, AmountTotal, RowsInto, RowsFrom, ConfirmedRows, MapThenSumSet, MapThenFoldSet
<1>10. PICK m : m = movement'
  OBVIOUS
<1> HIDE DEF in, out, inN, outN, a
<1>11. /\ AmountTotal(m, in) = AmountTotal(movement, in)
       /\ AmountTotal(m, out) = AmountTotal(movement, out)
  BY <1>4, <1>5, <1>10, TotalOfSame
<1>12. AmountTotal(m, out \cup {s}) = m[s].amount + AmountTotal(m, out)
  <2>1. \A t \in out \cup {s} : m[t].amount \in Int  BY <1>6, <1>7, <1>10
  <2>2. QED BY <1>3, <1>4, <2>1, TotalAdds
<1>13. AmountTotal(m, in \cup {s}) = m[s].amount + AmountTotal(m, in)
  <2>1. \A t \in in \cup {s} : m[t].amount \in Int  BY <1>6, <1>7, <1>10
  <2>2. QED BY <1>3, <1>4, <2>1, TotalAdds
<1>14. /\ AmountTotal(m, in) \in Int /\ AmountTotal(m, out) \in Int
  <2>1. (\A t \in in : m[t].amount \in Int) /\ (\A t \in out : m[t].amount \in Int)
    BY <1>7, <1>10
  <2>2. QED BY <1>4, <2>1, TotalIsNumber
<1>15. m[s].amount = a /\ a \in Nat
  BY <1>1, <1>6, <1>10
<1>16. AmountTotal(m, inN) \in Int /\ AmountTotal(m, inN) >= AmountTotal(m, in)
  <2>1. CASE inN = in
    <3>1. AmountTotal(m, inN) = AmountTotal(m, in)  BY <2>1
    <3>2. QED BY <1>14, <3>1
  <2>2. CASE inN = in \cup {s}
    <3>1. AmountTotal(m, inN) = AmountTotal(m, in \cup {s})  BY <2>2
    <3>2. QED BY <1>13, <1>14, <1>15, <3>1
  <2>3. QED BY <1>3, <2>1, <2>2
<1>17. AmountTotal(m, outN) = a + AmountTotal(m, out)
  BY <1>3, <1>12, <1>15
<1>19. AmountTotal(movement, in) - AmountTotal(movement, out) >= a
  BY <1>8 DEF a
<1>20. (Balance(w))' = AmountTotal(m, inN) - AmountTotal(m, outN)
  BY <1>9, <1>10
<1>21. QED BY <1>1, <1>11, <1>14, <1>15, <1>16, <1>17, <1>19, <1>20

-----------------------------------------------------------------------------
\* A movement that is written is a row, and one that is written confirmed is one more.
LEMMA RecordingIsFinite ==
  ASSUME MoneyIsFinite, DOMAIN movement = Source, UNCHANGED scenario, NEW s \in Source,
         NEW row, DOMAIN row = {"status", "amount", "when", "from", "to"}, row.amount \in Nat,
         movement' = [movement EXCEPT ![s] = row]
  PROVE  MoneyIsFinite'
<1>1. movement'[s] = row /\ \A t \in Source : t # s => movement'[t] = movement[t]
  OBVIOUS
<1>2. ConfirmedRows' \subseteq ConfirmedRows \cup {s}
  BY <1>1 DEF ConfirmedRows
<1>3. IsFiniteSet(ConfirmedRows \cup {s})
  BY FS_AddElement DEF MoneyIsFinite
<1>4. IsFiniteSet(ConfirmedRows')
  BY <1>2, <1>3, FS_Subset
<1>5. QED BY <1>1, <1>4 DEF MoneyIsFinite

\* A slot that is busy with a confirmation is the only one there is.
LEMMA OnlySlot ==
  ASSUME ConfirmsAlone, MoneyInv, NEW q \in Req, job[q].kind = "confirm",
         NEW r \in Req, r \in scenario.slots
  PROVE  r = q
<1>1. job[q] # Idle
  BY DEF Idle
<1>2. q \in scenario.slots /\ "confirm" \in scenario.calls
  BY <1>1 DEF MoneyInv, JobIsPlaced
<1>3. QED BY <1>2 DEF ConfirmsAlone, MoneyInv, MoneyIsFinite

\* A request that takes up or ends work, and does not end a check, keeps the invariant.
LEMMA MoneyStepKeeps ==
  ASSUME ConfirmsAlone, ExpInv, MoneyInv, MoneyIsFinite', NEW r \in Req, NEW j, Set(r, j),
         r \in scenario.slots, JobIsPlaced(j, r), JobIsCovered(j)'
  PROVE  MoneyInv'
<1>1. /\ UNCHANGED scenario /\ job'[r] = j /\ \A q \in Req \ {r} : job'[q] = job[q]
  BY DEF ExpInv, Shaped, Set
<1>2. (JobIsPlaced(job[r], r) /\ JobIsCovered(job[r]))'
  BY <1>1 DEF JobIsPlaced, JobIsCovered
<1>3. ASSUME NEW q \in Req, q # r
      PROVE  (JobIsPlaced(job[q], q) /\ JobIsCovered(job[q]))'
  <2>1. JobIsPlaced(job[q], q)'
    BY <1>1, <1>3 DEF MoneyInv, JobIsPlaced
  <2>2. job'[q] = job[q] /\ job[q].kind # "confirm"
    BY <1>1, <1>3, OnlySlot
  <2>3. QED BY <2>1, <2>2 DEF JobIsCovered
<1>4. QED BY <1>2, <1>3 DEF MoneyInv

\* A step that leaves the ledger alone.
LEMMA QuietKeeps ==
  ASSUME ConfirmsAlone, ExpInv, MoneyInv, NEW r \in Req, NEW j, Set(r, j), UNCHANGED movement,
         r \in scenario.slots, JobIsPlaced(j, r), JobIsCovered(j)'
  PROVE  MoneyInv' /\ ConfirmsCovered
<1>1. MoneyIsFinite'
  BY DEF MoneyInv, MoneyIsFinite, ConfirmedRows, Set
<1>2. MoneyInv'
  BY <1>1, MoneyStepKeeps
<1>3. ConfirmsCovered
  BY DEF ConfirmsCovered
<1>4. QED BY <1>2, <1>3

\* A request that takes up work.
LEMMA MoneyBegins ==
  ASSUME ConfirmsAlone, ExpInv, MoneyInv, NEW r \in Req, NEW j, Begin(r, j), UNCHANGED movement,
         j.kind \in {"opening", "income", "transfer"} => "amount" \in DOMAIN j /\ j.amount \in Nat,
         j.kind # "confirm" \/ j.pc # "write" \/ j.source \notin Transfer
  PROVE  MoneyInv' /\ ConfirmsCovered
<1>1. JobIsPlaced(j, r) /\ JobIsCovered(j)' /\ Set(r, j) /\ r \in scenario.slots
  BY DEF Begin, JobIsPlaced, JobIsCovered
<1>2. QED BY <1>1, QuietKeeps

\* A request that takes up work after a look for the club's wallet.
LEMMA MoneyBeginsWithWallet ==
  ASSUME ConfirmsAlone, ExpInv, MoneyInv, NEW r \in Req, NEW j, {"pc", "kind", "club"} \subseteq DOMAIN j,
         BeginWithWallet(r, j), j.kind # "confirm",
         j.kind \in {"opening", "income", "transfer"} => "amount" \in DOMAIN j /\ j.amount \in Nat
  PROVE  MoneyInv' /\ ConfirmsCovered
<1>1. PICK w \in FindWallet :
        Begin(r, [j EXCEPT !.club = w, !.pc = IF w = NoWallet THEN "wallet" ELSE @])
  BY DEF BeginWithWallet
<1> DEFINE k == [j EXCEPT !.club = w, !.pc = IF w = NoWallet THEN "wallet" ELSE @]
<1>2. /\ DOMAIN k = DOMAIN j /\ k.kind = j.kind
      /\ "amount" \in DOMAIN j => k.amount = j.amount
  OBVIOUS
<1>3. Begin(r, k) /\ UNCHANGED movement
  BY <1>1 DEF BeginWithWallet, cash
<1> HIDE DEF k
<1>4. QED BY <1>2, <1>3, MoneyBegins

\* A request that goes on with its work, on other fields than its amount.
LEMMA MoneyGoesOn ==
  ASSUME ConfirmsAlone, ExpInv, MoneyInv, NEW r \in Req, NEW j, Set(r, j), UNCHANGED movement,
         job[r] # Idle, j.kind = job[r].kind, DOMAIN j = DOMAIN job[r],
         "amount" \in DOMAIN job[r] => j.amount = job[r].amount, JobIsCovered(j)
  PROVE  MoneyInv' /\ ConfirmsCovered
<1>1. r \in scenario.slots /\ JobIsPlaced(j, r)
  BY DEF MoneyInv, JobIsPlaced
<1>2. JobIsCovered(j)'
  BY SameBalances DEF JobIsCovered
<1>3. QED BY <1>1, <1>2, QuietKeeps

\* A request that ends.
LEMMA MoneyEnds ==
  ASSUME ConfirmsAlone, ExpInv, MoneyInv, NEW r \in Req, Finish(r), UNCHANGED movement, job[r] # Idle
  PROVE  MoneyInv' /\ ConfirmsCovered
<1>1. r \in scenario.slots /\ JobIsPlaced(Idle, r) /\ JobIsCovered(Idle)' /\ Set(r, Idle)
  BY DEF MoneyInv, JobIsPlaced, JobIsCovered, Idle, Finish
<1>2. QED BY <1>1, QuietKeeps

\* A request that ends with a write on the ledger and confirms no pending transfer.
LEMMA MoneyIsWritten ==
  ASSUME ConfirmsAlone, ExpInv, MoneyInv, NEW r \in Req, Finish(r), job[r] # Idle,
         NEW s \in Source, NEW row, DOMAIN row = {"status", "amount", "when", "from", "to"},
         row.amount \in Nat, movement' = [movement EXCEPT ![s] = row],
         s \in Transfer => row.status # "confirmed" \/ movement[s].status # "pending_confirmation"
  PROVE  MoneyInv' /\ ConfirmsCovered
<1>1. /\ r \in scenario.slots /\ JobIsPlaced(Idle, r) /\ JobIsCovered(Idle)' /\ Set(r, Idle)
      /\ DOMAIN movement = Source /\ UNCHANGED scenario
  BY DEF MoneyInv, JobIsPlaced, JobIsCovered, Idle, Finish, Set, ExpInv, Shaped
<1>2. MoneyIsFinite'
  BY <1>1, RecordingIsFinite DEF MoneyInv
<1>3. MoneyInv'
  BY <1>1, <1>2, MoneyStepKeeps
<1>4. ConfirmsCovered
  <2>1. \A t \in Transfer : t \in Source
    BY DEF Source
  <2>2. movement'[s] = row /\ \A t \in Source : t # s => movement'[t] = movement[t]
    BY <1>1
  <2>3. \A t \in Transfer : movement[t].status = "pending_confirmation" => movement'[t].status # "confirmed"
    BY <2>1, <2>2
  <2>4. QED BY <2>3 DEF ConfirmsCovered
<1>5. QED BY <1>3, <1>4

-----------------------------------------------------------------------------
\* The handlers of the wallets begin with the amounts of the scenario.
LEMMA CashArrivals ==
  ASSUME ConfirmsAlone, ExpInv, MoneyInv, NEW r \in Req, CashArrive(r)
  PROVE  MoneyInv' /\ ConfirmsCovered
<1>1. scenario.amounts \subseteq Nat
  BY AmountAssumption DEF MoneyInv, MoneyIsFinite
<1>2. ASSUME NEW u, NEW a \in Nat, BeginOpening(r, u, a) \/ BeginIncome(r, u, a)
      PROVE  MoneyInv' /\ ConfirmsCovered
  <2>1. PICK kind \in {"opening", "income"} :
          BeginWithWallet(r, [pc |-> "insert", kind |-> kind, club |-> NoWallet, amount |-> a])
    BY <1>2 DEF BeginOpening, BeginIncome
  <2> DEFINE j == [pc |-> "insert", kind |-> kind, club |-> NoWallet, amount |-> a]
  <2>2. {"pc", "kind", "club", "amount"} \subseteq DOMAIN j /\ j.kind = kind /\ j.amount = a
    OBVIOUS
  <2>3. BeginWithWallet(r, j)
    BY <2>1
  <2> HIDE DEF j
  <2>4. QED BY <1>2, <2>2, <2>3, MoneyBeginsWithWallet
<1>3. ASSUME NEW u, NEW direction, NEW holder, NEW a \in Nat, BeginTransfer(r, u, direction, holder, a)
      PROVE  MoneyInv' /\ ConfirmsCovered
  <2> DEFINE j == [pc |-> "insert", kind |-> "transfer", club |-> NoWallet,
                   amount |-> a, direction |-> direction, holder |-> holder]
             k == [pc |-> "insert", kind |-> "refused", club |-> NoWallet]
  <2>1. BeginWithWallet(r, j) \/ BeginWithWallet(r, k)
    BY <1>3 DEF BeginTransfer
  <2>2. {"pc", "kind", "club", "amount"} \subseteq DOMAIN j /\ j.kind = "transfer" /\ j.amount = a
    OBVIOUS
  <2>3. {"pc", "kind", "club"} \subseteq DOMAIN k /\ k.kind = "refused"
    OBVIOUS
  <2> HIDE DEF j, k
  <2>4. QED BY <1>3, <2>1, <2>2, <2>3, MoneyBeginsWithWallet
<1>4. ASSUME NEW u, NEW s \in Transfer \cup Income, BeginConfirm(r, u, s)
      PROVE  MoneyInv' /\ ConfirmsCovered
  <2> DEFINE j == [pc |-> IF s \in Income THEN "write" ELSE "check", kind |-> "confirm",
                   source |-> s]
  <2>1. Begin(r, j) /\ UNCHANGED movement
    BY <1>4 DEF BeginConfirm, cash
  <2>2. j.kind = "confirm" /\ (j.pc # "write" \/ j.source \notin Transfer)
    BY <1>4, SourceAssumption
  <2> HIDE DEF j
  <2>3. QED BY <2>1, <2>2, MoneyBegins
<1>5. QED
  BY <1>1, <1>2, <1>3, <1>4 DEF CashArrive

\* The handlers of the wallets that write.
LEMMA CashWrites ==
  ASSUME ConfirmsAlone, ExpInv, MoneyInv, NEW r \in Req, CreateWallet(r) \/ CashProceed(r)
  PROVE  MoneyInv' /\ ConfirmsCovered
<1>1. /\ DOMAIN movement = Source /\ JobIsTyped(job[r]) /\ JobIsPlaced(job[r], r)
      /\ MoneyIsFinite
  BY DEF ExpInv, Shaped, JobsAreSound, MoneyInv
<1>2. CASE CreateWallet(r)
  <2>1. PICK w : Set(r, [job[r] EXCEPT !.club = w, !.pc = "insert"])
    BY <1>2 DEF CreateWallet
  <2> DEFINE j == [job[r] EXCEPT !.club = w, !.pc = "insert"]
  <2>2. job[r].pc = "wallet" /\ UNCHANGED movement
    BY <1>2 DEF CreateWallet
  <2>3. {"pc", "kind", "club"} \subseteq DOMAIN job[r] /\ job[r].kind # "confirm" /\ job[r] # Idle
    BY <1>1, <2>2 DEF JobIsTyped, Idle
  <2>4. /\ DOMAIN j = DOMAIN job[r] /\ j.kind = job[r].kind
        /\ "amount" \in DOMAIN job[r] => j.amount = job[r].amount
    BY <2>3
  <2>5. Set(r, j)
    BY <2>1
  <2> HIDE DEF j
  <2>6. JobIsCovered(j)
    BY <2>3, <2>4 DEF JobIsCovered
  <2>7. QED BY <2>2, <2>3, <2>4, <2>5, <2>6, MoneyGoesOn
<1>3. ASSUME InsertOpening(r) \/ InsertIncome(r) \/ InsertTransfer(r)
      PROVE  MoneyInv' /\ ConfirmsCovered
  <2>1. /\ job[r].kind \in {"opening", "income", "transfer"} /\ Finish(r) /\ job[r] # Idle
        /\ job[r].amount \in Nat
    BY <1>1, <1>3 DEF InsertOpening, InsertIncome, InsertTransfer, Running, Idle, JobIsPlaced
  <2>2. \/ movement' = movement
        \/ \E s \in Source : \E row :
             /\ movement' = [movement EXCEPT ![s] = row]
             /\ DOMAIN row = {"status", "amount", "when", "from", "to"}
             /\ row.amount = job[r].amount
             /\ s \in Transfer => row.status # "confirmed"
    <3>1. CASE InsertOpening(r)
      <4>1. job[r].club \in ClubWallet
        BY <1>1, <3>1 DEF InsertOpening, Running, JobIsTyped
      <4>2. job[r].club \in Source /\ job[r].club \notin Transfer
        BY <4>1, SourceAssumption DEF Source
      <4>3. PICK row : row = Recorded("confirmed", job[r].amount, 0, NoWallet, job[r].club)
        OBVIOUS
      <4>4. /\ DOMAIN row = {"status", "amount", "when", "from", "to"}
            /\ row.amount = job[r].amount
        BY <4>3 DEF Recorded
      <4>5. movement' = movement \/ movement' = [movement EXCEPT ![job[r].club] = row]
        BY <3>1, <4>3 DEF InsertOpening
      <4>6. QED BY <4>2, <4>4, <4>5
    <3>2. CASE InsertIncome(r)
      <4>1. PICK i \in Income : \E row :
              /\ row = Recorded("pending_confirmation", job[r].amount, 0, NoWallet, job[r].club)
              /\ movement' = [movement EXCEPT ![i] = row]
        BY <3>2 DEF InsertIncome
      <4>2. PICK row :
              /\ row = Recorded("pending_confirmation", job[r].amount, 0, NoWallet, job[r].club)
              /\ movement' = [movement EXCEPT ![i] = row]
        BY <4>1
      <4>3. /\ i \in Source /\ DOMAIN row = {"status", "amount", "when", "from", "to"}
            /\ row.amount = job[r].amount /\ row.status # "confirmed"
        BY <4>2 DEF Source, Recorded
      <4>4. QED BY <4>2, <4>3
    <3>3. CASE InsertTransfer(r)
      <4>1. PICK from, to, row :
              /\ row = Recorded("pending_confirmation", job[r].amount, 0, from, to)
              /\ \/ movement' = movement
                 \/ \E t \in Transfer : movement' = [movement EXCEPT ![t] = row]
        BY <3>3 DEF InsertTransfer
      <4>2. /\ Transfer \subseteq Source /\ DOMAIN row = {"status", "amount", "when", "from", "to"}
            /\ row.amount = job[r].amount /\ row.status # "confirmed"
        BY <4>1 DEF Source, Recorded
      <4>3. QED BY <4>1, <4>2
    <3>4. QED BY <1>3, <3>1, <3>2, <3>3
  <2>3. CASE movement' = movement
    BY <2>1, <2>3, MoneyEnds
  <2>4. CASE movement' # movement
    <3>1. PICK s \in Source : \E row :
             /\ movement' = [movement EXCEPT ![s] = row]
             /\ DOMAIN row = {"status", "amount", "when", "from", "to"}
             /\ row.amount = job[r].amount
             /\ s \in Transfer => row.status # "confirmed"
      BY <2>2, <2>4
    <3>2. PICK row :
             /\ movement' = [movement EXCEPT ![s] = row]
             /\ DOMAIN row = {"status", "amount", "when", "from", "to"}
             /\ row.amount = job[r].amount
             /\ s \in Transfer => row.status # "confirmed"
      BY <3>1
    <3>3. QED BY <2>1, <3>2, MoneyIsWritten
  <2>5. QED BY <2>3, <2>4
<1>4. CASE RefuseTransfer(r)
  <2>1. Finish(r) /\ UNCHANGED movement /\ job[r] # Idle
    BY <1>4 DEF RefuseTransfer, Running, cash, Idle
  <2>2. QED BY <2>1, MoneyEnds
<1>5. CASE CheckTransfer(r)
  <2>1. PICK s, j : s = job[r].source /\ j = [job[r] EXCEPT !.pc = "write"]
    OBVIOUS
  <2>2. /\ job[r].kind = "confirm" /\ UNCHANGED movement /\ job[r] # Idle
        /\ \/ Finish(r)
           \/ /\ Set(r, j)
              /\ movement[s].status = "pending_confirmation"
              /\ movement[s].from \in ClubWallet =>
                   Balance(movement[s].from) >= movement[s].amount
    BY <1>5, <2>1 DEF CheckTransfer, Running, cash, Goto, Idle
  <2>3. /\ DOMAIN j = DOMAIN job[r] /\ j.kind = "confirm"
        /\ j.source = s
        /\ "amount" \in DOMAIN job[r] => j.amount = job[r].amount
    BY <1>1, <2>1, <2>2 DEF JobIsTyped
  <2>4. CASE Finish(r)
    BY <2>2, <2>4, MoneyEnds
  <2>5. CASE ~Finish(r)
    <3>1. Set(r, j) /\ JobIsCovered(j)
      BY <2>2, <2>3, <2>5 DEF JobIsCovered
    <3>2. QED BY <2>2, <2>3, <3>1, MoneyGoesOn
  <2>6. QED BY <2>2, <2>4, <2>5
<1>6. CASE ConfirmMovement(r)
  <2>1. PICK s : s = job[r].source
    OBVIOUS
  <2>2. /\ job[r].kind = "confirm" /\ job[r].pc = "write" /\ Finish(r) /\ job[r] # Idle
        /\ s \in Transfer \cup Income /\ s \in Source
    BY <1>1, <1>6, <2>1 DEF ConfirmMovement, Running, JobIsTyped, Idle, Source
  <2>3. CASE movement' = movement
    BY <2>2, <2>3, MoneyEnds
  <2>4. CASE movement' # movement
    <3>1. /\ movement[s].status = "pending_confirmation"
          /\ movement' = [movement EXCEPT ![s].status = "confirmed"]
      BY <1>6, <2>1, <2>4 DEF ConfirmMovement
    <3>2. PICK row : row = [movement[s] EXCEPT !.status = "confirmed"]
      OBVIOUS
    <3>3. DOMAIN row = {"status", "amount", "when", "from", "to"} /\ row.amount \in Nat
      <4>1. DOMAIN movement[s] = {"status", "amount", "when", "from", "to"} /\ movement[s].amount \in Nat
        BY <1>1, <2>2 DEF MoneyIsFinite
      <4>2. DOMAIN row = DOMAIN movement[s] /\ row.amount = movement[s].amount
        BY <3>2, <4>1
      <4>3. QED BY <4>1, <4>2
    <3>4. movement' = [movement EXCEPT ![s] = row]
      BY <3>1, <3>2
    <3>5. UNCHANGED scenario /\ Set(r, Idle)
      BY <2>2 DEF Finish, Set
    <3>6. MoneyIsFinite'
      BY <1>1, <2>2, <3>3, <3>4, <3>5, RecordingIsFinite
    <3>7. MoneyInv'
      <4>1. r \in scenario.slots /\ JobIsPlaced(Idle, r) /\ JobIsCovered(Idle)'
        BY <1>1, <2>2 DEF JobIsPlaced, JobIsCovered, Idle
      <4>2. QED BY <3>5, <3>6, <4>1, MoneyStepKeeps
    <3>8. CASE s \in Transfer
      <4>1. movement[s].from \in ClubWallet => Balance(movement[s].from) >= movement[s].amount
        BY <2>1, <2>2, <3>8 DEF MoneyInv, JobIsCovered
      <4>2. movement[s].from \in ClubWallet =>
              (Balance(movement[s].from))' >= 0
        <5>1. SUFFICES ASSUME movement[s].from \in ClubWallet PROVE (Balance(movement[s].from))' >= 0
          OBVIOUS
        <5>2. PICK w : w = movement[s].from
          OBVIOUS
        <5>3. (Balance(w))' >= 0 /\ movement'[s].from = w
          BY <1>1, <2>2, <3>1, <3>6, <4>1, <5>1, <5>2, ConfirmationIsCovered
        <5>4. QED BY <5>3
      <4>3. \A t \in Transfer : t # s => movement'[t] = movement[t]
        BY <1>1, <3>4 DEF Source
      <4>4. ConfirmsCovered
        BY <4>2, <4>3 DEF ConfirmsCovered
      <4>5. QED BY <3>7, <4>4
    <3>9. CASE s \notin Transfer
      <4>1. \A t \in Transfer : movement'[t] = movement[t]
        BY <1>1, <3>4, <3>9 DEF Source
      <4>2. ConfirmsCovered
        BY <4>1 DEF ConfirmsCovered
      <4>3. QED BY <3>7, <4>2
    <3>10. QED BY <3>8, <3>9
  <2>5. QED BY <2>3, <2>4
<1>7. QED
  BY <1>2, <1>3, <1>4, <1>5, <1>6 DEF CashProceed

-----------------------------------------------------------------------------
\* The handlers of the expense leave the ledger alone, but for the expense's movement.
LEMMA ExpenseArrivals ==
  ASSUME ConfirmsAlone, ExpInv, MoneyInv, NEW r \in Req, Arrive(r)
  PROVE  MoneyInv' /\ ConfirmsCovered
<1>1. ASSUME NEW u, NEW kind, NEW data, NEW to, kind \in DOMAIN FromStatus \cup {"update"},
             BeginAction(r, u, kind, data, to)
      PROVE  MoneyInv' /\ ConfirmsCovered
  <2> DEFINE j == [pc |-> "write", kind |-> kind, by |-> u, data |-> data, to |-> to]
  <2>1. j.kind \in {"edit", "submit", "approve", "approveOwner", "return", "cancel", "date", "update"}
    BY <1>1 DEF FromStatus
  <2>2. Begin(r, j) /\ UNCHANGED movement
    BY <1>1 DEF BeginAction, cash
  <2> HIDE DEF j
  <2>3. QED BY <2>1, <2>2, MoneyBegins
<1>2. {"edit", "submit", "approve", "approveOwner", "return", "cancel", "date"} \subseteq DOMAIN FromStatus
  BY DEF FromStatus
<1>3. ASSUME NEW u, NEW data,
             BeginEdit(r, u, data) \/ BeginChangeDate(r, u, data) \/ BeginUpdate(r, u, data)
      PROVE  MoneyInv' /\ ConfirmsCovered
  BY <1>1, <1>2, <1>3 DEF BeginEdit, BeginChangeDate, BeginUpdate
<1>4. ASSUME NEW u, \/ BeginSubmit(r, u) \/ BeginApproval(r, u) \/ BeginReturn(r, u)
                    \/ BeginCancel(r, u)
      PROVE  MoneyInv' /\ ConfirmsCovered
  BY <1>1, <1>2, <1>4 DEF BeginSubmit, BeginApproval, BeginReturn, BeginCancel
<1>5. ASSUME NEW u, BeginVerify(r, u)
      PROVE  MoneyInv' /\ ConfirmsCovered
  <2> DEFINE j == [pc |-> "write", kind |-> "verify", by |-> u]
  <2>1. Begin(r, j) /\ UNCHANGED movement /\ j.kind = "verify"
    BY <1>5 DEF BeginVerify, cash
  <2> HIDE DEF j
  <2>2. QED BY <2>1, MoneyBegins
<1>6. ASSUME NEW u, NEW d, BeginUpload(r, u, d) \/ BeginRemove(r, u, d)
      PROVE  MoneyInv' /\ ConfirmsCovered
  <2>1. PICK pc \in {"count", "write"}, kind \in {"upload", "remove"} :
          Begin(r, [pc |-> pc, kind |-> kind, file |-> d]) /\ UNCHANGED movement
    BY <1>6 DEF BeginUpload, BeginRemove, cash
  <2> DEFINE j == [pc |-> pc, kind |-> kind, file |-> d]
  <2>2. Begin(r, j) /\ UNCHANGED movement /\ j.kind \in {"upload", "remove"}
    BY <2>1
  <2> HIDE DEF j
  <2>3. QED BY <2>2, MoneyBegins
<1>7. ASSUME NEW u, NEW data, BeginDraft(r, u, data)
      PROVE  MoneyInv' /\ ConfirmsCovered
  <2> DEFINE j == [pc |-> "insert", kind |-> "draft", by |-> u, club |-> NoWallet, data |-> data]
             k == [j EXCEPT !.club = u]
  <2>1. (Begin(r, k) /\ UNCHANGED movement) \/ BeginWithWallet(r, j)
    BY <1>7 DEF BeginDraft, cash
  <2>2. k.kind = "draft" /\ j.kind = "draft" /\ {"pc", "kind", "club"} \subseteq DOMAIN j
    OBVIOUS
  <2> HIDE DEF j, k
  <2>3. QED BY <2>1, <2>2, MoneyBegins, MoneyBeginsWithWallet
<1>8. QED
  BY <1>3, <1>4, <1>5, <1>6, <1>7, CashArrivals DEF Arrive

\* The movement of the expense is no transfer: it may take more than there is.
LEMMA ExpenseWrites ==
  ASSUME ConfirmsAlone, ExpInv, MoneyInv, NEW r \in Req, Proceed(r) \/ Crash(r)
  PROVE  MoneyInv' /\ ConfirmsCovered
<1>1. ASSUME \/ InsertDraft(r) \/ WriteAction(r) \/ WriteUpdate(r) \/ InsertDocument(r)
             \/ RemoveDocument(r) \/ Crash(r)
      PROVE  MoneyInv' /\ ConfirmsCovered
  <2>1. Finish(r) /\ UNCHANGED movement /\ job[r] # Idle
    BY <1>1 DEF InsertDraft, WriteAction, WriteUpdate, InsertDocument, RemoveDocument, Crash, Running, Idle,
                FromStatus, cash
  <2>2. QED BY <2>1, MoneyEnds
<1>2. ASSUME WriteVerify(r) \/ CountDocuments(r)
      PROVE  MoneyInv' /\ ConfirmsCovered
  <2>1. PICK pc, j : /\ j = [job[r] EXCEPT !.pc = pc]
                     /\ Finish(r) \/ Set(r, j)
    BY <1>2 DEF WriteVerify, CountDocuments, Goto
  <2>2. UNCHANGED movement /\ job[r] # Idle /\ job[r].kind \in {"verify", "upload"}
    BY <1>2 DEF WriteVerify, CountDocuments, Running, Idle, cash
  <2>3. {"pc", "kind"} \subseteq DOMAIN job[r]
    BY DEF ExpInv, JobsAreSound, JobIsTyped
  <2>4. /\ DOMAIN j = DOMAIN job[r] /\ j.kind = job[r].kind
        /\ "amount" \in DOMAIN job[r] => j.amount = job[r].amount
    BY <2>1, <2>3
  <2>5. JobIsCovered(j)
    BY <2>2, <2>4 DEF JobIsCovered
  <2>6. QED BY <2>1, <2>2, <2>4, <2>5, MoneyEnds, MoneyGoesOn
<1>3. ASSUME RecordMovement(r)
      PROVE  MoneyInv' /\ ConfirmsCovered
  <2>1. /\ Finish(r) /\ job[r] # Idle /\ HasRead(job[r])
        /\ RecordExpense(job[r].data.amount, job[r].data.when, job[r].club)
    BY <1>3 DEF RecordMovement, Running, HasRead, Idle
  <2>4. job[r].data.amount \in Nat
    BY <2>1 DEF ExpInv, JobsAreSound, JobIsTyped, ExpenseData
  <2>5. PICK row : row = Recorded("confirmed", job[r].data.amount, job[r].data.when, job[r].club,
                                  NoWallet)
    OBVIOUS
  <2>6. DOMAIN row = {"status", "amount", "when", "from", "to"} /\ row.amount \in Nat
    BY <2>4, <2>5 DEF Recorded
  <2>7. movement' = movement \/ movement' = [movement EXCEPT !["expense"] = row]
    BY <2>1, <2>5 DEF RecordExpense
  <2>8. "expense" \in Source /\ "expense" \notin Transfer
    BY SourceAssumption DEF Source
  <2>9. CASE movement' = movement
    BY <2>1, <2>9, MoneyEnds
  <2>10. CASE movement' # movement
    BY <2>1, <2>6, <2>7, <2>8, <2>10, MoneyIsWritten
  <2>11. QED BY <2>9, <2>10
<1>5. ASSUME ReadVerified(r) \/ FindExpenseWallet(r)
      PROVE  MoneyInv' /\ ConfirmsCovered
  <2>1. /\ UNCHANGED movement /\ job[r] # Idle /\ job[r].kind = "verify"
        /\ Finish(r) \/ \E pc, w, data : Set(r, Recording(pc, w, data))
    BY <1>5 DEF ReadVerified, FindExpenseWallet, Running, Idle, cash
  <2>2. ASSUME NEW pc, NEW w, NEW data, Set(r, Recording(pc, w, data))
        PROVE  MoneyInv' /\ ConfirmsCovered
    <3>1. PICK j : j = Recording(pc, w, data)
      OBVIOUS
    <3>2. j.kind = "verify" /\ Set(r, j)
      BY <2>2, <3>1 DEF Recording
    <3>3. r \in scenario.slots /\ JobIsPlaced(j, r) /\ JobIsCovered(j)'
      BY <2>1, <3>2 DEF MoneyInv, JobIsPlaced, JobIsCovered
    <3>4. QED BY <2>1, <3>2, <3>3, QuietKeeps
  <2>3. QED BY <2>1, <2>2, MoneyEnds
<1>4. QED
  BY <1>1, <1>2, <1>3, <1>5, CashWrites DEF Proceed

\* At the start no movement is confirmed.
LEMMA MoneyInitial == Init => MoneyInv
<1>1. SUFFICES ASSUME Init PROVE MoneyInv
  OBVIOUS
<1>2. \A s \in Source : movement[s] = NoMovement
  BY <1>1 DEF Init, CashInit
<1>3. ConfirmedRows = {}
  BY <1>2 DEF ConfirmedRows, NoMovement
<1>4. MoneyIsFinite
  BY <1>1, <1>2, <1>3, FS_EmptySet DEF MoneyIsFinite, NoMovement, Init
<1>5. \A r \in Req : job[r] = Idle
  BY <1>1 DEF Init
<1>6. QED BY <1>4, <1>5 DEF MoneyInv, JobIsPlaced, JobIsCovered, Idle

\* Every step keeps the invariant, and a confirmation is covered.
LEMMA MoneyInductive ==
  ASSUME ConfirmsAlone
  PROVE  ExpInv /\ MoneyInv /\ [Next]_vars => MoneyInv' /\ [ConfirmsCovered]_movement
<1>1. SUFFICES ASSUME ExpInv, MoneyInv, [Next]_vars PROVE MoneyInv' /\ [ConfirmsCovered]_movement
  OBVIOUS
<1>2. ASSUME UNCHANGED <<movement, scenario, job>>
      PROVE  MoneyInv'
  BY <1>1, <1>2, SameBalances DEF MoneyInv, MoneyIsFinite, ConfirmedRows, JobIsPlaced, JobIsCovered
<1>3. CASE RegionalChanges \/ UNCHANGED vars
  <2>1. UNCHANGED <<movement, scenario, job>>
    BY <1>3 DEF RegionalChanges, vars, cash
  <2>2. QED BY <1>2, <2>1
<1>4. ASSUME NEW r \in Req, Arrive(r) \/ Proceed(r) \/ Crash(r)
      PROVE  MoneyInv' /\ ConfirmsCovered
  BY <1>1, <1>4, ExpenseArrivals, ExpenseWrites
<1>5. QED
  BY <1>1, <1>3, <1>4 DEF Next

\* Where movements are confirmed by one request at a time, confirming a transfer
\* (confirmInternalTransfer) never overdraws the club's wallet: the funds are asked for
\* when it is confirmed, however much was spent since it was created.
THEOREM TransfersDoNotOverdraw ==
  ASSUME \A s \in Scenarios : "confirm" \in s.calls => \E r \in Req : s.slots = {r}
  PROVE  Spec => TransfersAreCovered
<1>1. ConfirmsAlone
  BY DEF ConfirmsAlone
<1>2. Init => ExpInv /\ MoneyInv
  BY Initial, MoneyInitial
<1>3. ExpInv /\ MoneyInv /\ [Next]_vars => ExpInv' /\ MoneyInv' /\ [ConfirmsCovered]_movement
  BY <1>1, Inductive, MoneyInductive
<1>4. Spec => [][ConfirmsCovered]_movement
  BY <1>2, <1>3, PTL DEF Spec
<1>5. [ConfirmsCovered]_movement => 
       [\A t \in Transfer :
         /\ movement[t].status = "pending_confirmation" /\ movement'[t].status = "confirmed"
         /\ movement[t].from \in ClubWallet
         => (Balance(movement[t].from))' >= 0]_movement
  BY DEF ConfirmsCovered
<1>6. QED BY <1>4, <1>5, PTL DEF TransfersAreCovered
=============================================================================
