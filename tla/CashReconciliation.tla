------------------------- MODULE CashReconciliation -------------------------
(***************************************************************************)
(* The daily count of a club's cash (collections/reconciliation-actions.ts *)
(* and lib/cash-reconciliation.ts): a manager enters what was counted for  *)
(* each legal entity, a difference is explained, a regional director       *)
(* confirms the explanation, and accounting closes the day.                *)
(*                                                                         *)
(* BeginX reads, and each later action is one statement.  A count is only  *)
(* its difference from the expected balance.  The closed month, which only *)
(* refuses, and the notification of a difference are left out.             *)
(***************************************************************************)
EXTENDS AccessRules, Integers, Sequences, SequencesExt, FiniteSets

CONSTANTS
  Req,         \* request slots
  User,
  RolesOf,
  Entities,    \* the legal entities of the club, in the order of the form
  Difference   \* what a count may differ by

Entity == ToSet(Entities)

VARIABLES
  row,       \* the DailyCashReconciliation row of each entity, for one day
  decided,   \* history: the difference the regional director decided about
  job        \* what each request does

vars == <<row, decided, job>>

NoRow    == [status |-> "none", difference |-> 0, regional |-> FALSE, accounting |-> FALSE]
Idle     == [step |-> "idle", todo |-> <<>>, form |-> <<>>, on |-> NoRow]
NotGiven == -1   \* an entity that the form leaves out

Roles(u) == ExpandEffectiveRoles(RolesOf[u])

CanSubmitReconciliation(u) == CanCreateOperational(Roles(u))
CanRegionalReview(u)       == "regional_director" \in Roles(u)
CanAccountingReview(u)     == "accountant" \in Roles(u)

Init ==
  /\ row = [e \in Entity |-> NoRow]
  /\ decided = [e \in Entity |-> 0]
  /\ job = [r \in Req |-> Idle]

-----------------------------------------------------------------------------
\* submitDailyCashReconciliation.  form: the difference of each entity and
\* whether it is explained.
BeginSubmit(r, u, form) ==
  /\ job[r] = Idle /\ CanSubmitReconciliation(u)
  /\ LET todo == SelectSeq(Entities, LAMBDA e : form[e].difference # NotGiven) IN
       /\ todo # <<>>
       /\ job' = [job EXCEPT ![r] = [Idle EXCEPT !.step = "upsert", !.todo = todo, !.form = form]]
  /\ UNCHANGED <<row, decided>>

\* One entity after the other, each an upsert that looks at nothing of the row
\* and leaves who reviewed it.  A difference that is not explained ends the
\* request, and what was written for the entities before it stays.
Upsert(r) ==
  /\ job[r].step = "upsert"
  /\ LET e == Head(job[r].todo)
         given == job[r].form[e]
         refused == given.difference # 0 /\ ~given.explained
     IN /\ row' = IF refused THEN row
                  ELSE [row EXCEPT ![e].status = IF given.difference = 0 THEN "submitted" ELSE "discrepancy",
                                   ![e].difference = given.difference]
        /\ job' = [job EXCEPT ![r] = IF refused \/ Len(job[r].todo) = 1 THEN Idle
                                     ELSE [@ EXCEPT !.todo = Tail(@)]]
  /\ UNCHANGED decided

\* A difference asks for a regional director first.
MayClose(e) == row[e].difference # 0 => row[e].regional

\* reviewDailyCashReconciliation: the guards, on the row that is read.
BeginReview(r, u, e, decision) ==
  /\ job[r] = Idle /\ row[e].status \notin {"none", "closed"}
  /\ \/ /\ decision = "start_review" /\ row[e].status = "discrepancy"
        /\ CanRegionalReview(u) \/ CanAccountingReview(u)
     \/ /\ decision = "regional_confirm" /\ row[e].status \in {"discrepancy", "under_review"}
        /\ CanRegionalReview(u)
     \/ decision = "accounting_confirm" /\ CanAccountingReview(u) /\ MayClose(e)
  /\ job' = [job EXCEPT ![r] = [Idle EXCEPT !.step = decision, !.todo = <<e>>, !.on = row[e]]]
  /\ UNCHANGED <<row, decided>>

\* A plain update by id.
Review(r) ==
  /\ job[r].step \in {"start_review", "regional_confirm", "accounting_confirm"}
  /\ LET e == Head(job[r].todo) IN
     /\ row' = [row EXCEPT ![e] =
                  CASE job[r].step = "start_review"     -> [@ EXCEPT !.status = "under_review"]
                    [] job[r].step = "regional_confirm" -> [@ EXCEPT !.status = "regional_confirmed",
                                                                     !.regional = TRUE]
                    [] OTHER -> [@ EXCEPT !.status = "closed", !.accounting = TRUE]]
     /\ decided' = IF job[r].step = "regional_confirm"
                   THEN [decided EXCEPT ![e] = job[r].on.difference] ELSE decided
  /\ job' = [job EXCEPT ![r] = Idle]

Form == [Entity -> [difference : Difference \cup {NotGiven}, explained : BOOLEAN]]

Next ==
  \E r \in Req :
    \/ \E u \in User : \/ \E form \in Form : BeginSubmit(r, u, form)
                       \/ \E e \in Entity, decision \in {"start_review", "regional_confirm",
                            "accounting_confirm"} : BeginReview(r, u, e, decision)
    \/ Upsert(r) \/ Review(r)

Spec == Init /\ [][Next]_vars

-----------------------------------------------------------------------------
(* "A discrepancy needs both before it closes": when accounting has closed *)
(* a day with a difference, a regional director decided about that         *)
(* difference, and not about one that a later count replaced.              *)
ClosedWasReviewed ==
  \A e \in Entity : row[e].status = "closed" /\ row[e].difference # 0 =>
    decided[e] = row[e].difference
=============================================================================
