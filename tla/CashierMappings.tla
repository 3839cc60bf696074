--------------------------- MODULE CashierMappings ---------------------------
(***************************************************************************)
(* From the cashier's name on a receipt to an employee's sales             *)
(* (lib/ofd/cashier-mapping-service.ts, lib/payroll/sales-attribution.ts,  *)
(* payroll/ofd-cashiers/actions.ts, payroll/sales-actions.ts): identities  *)
(* gathered from receipts with a suggestion each, the employee assigned to *)
(* an identity from a day on, exclusion, and the period's sales applied to *)
(* the calculations.                                                       *)
(*                                                                         *)
(* An update locks the mapping it writes to the end of its transaction.    *)
(* "manually_assigned" counts like "confirmed" and is one with it here.    *)
(* Left out: refunds (no code links one to its sale, so none is            *)
(* attributed), the status of the payroll period (its check only refuses), *)
(* the manual figure that overrides the automatic one, the formula that    *)
(* turns sales into pay.                                                   *)
(***************************************************************************)
EXTENDS FiscalState

OnlyCashiers == UNCHANGED <<connection, register, history, sync, receipt, item, daily, category,
                            rule, attribution, sales>>

EPOCH == 0
Open  == 1000   \* effectiveTo is null

ASSUME DaysAssumption == \A x \in Receipt : DayOf[x] < Open

CashierAt(x) == <<receipt[x].conn, DriveOf[x], CashierOf[x]>>

SeenOf(i) == {x \in Stored : CashierOf[x] # None /\ CashierAt(x) = i}

FirstSeen(i) == CHOOSE d \in {DayOf[x] : x \in SeenOf(i)} : \A x \in SeenOf(i) : d <= DayOf[x]

RowsOf(i)   == {m \in Mid : mapping[m] # NoMapping /\ mapping[m].cashier = i}
ActiveOf(i) == {m \in RowsOf(i) : mapping[m].status # "inactive"}
OpenOf(i)   == {m \in ActiveOf(i) : mapping[m].to = Open}

Mapping(i, e, status, from) ==
  [cashier |-> i, employee |-> e, status |-> status, from |-> from, to |-> Open,
   confirmed |-> status = "confirmed"]

Unlocked(s, ms) == \A q \in Slot \ {s} : job[q].locks \cap ms = {}

\* The id of a new row.
Free(m) == mapping[m] = NoMapping

-----------------------------------------------------------------------------
(* syncCashierIdentities.                                                  *)

BeginSync(s) ==
  Begin(s, "sync", [Idle EXCEPT !.step = "identities", !.todo = {i \in Identity : SeenOf(i) # {}}])

\* The identity is created or refreshed; then its mappings are looked up.
SyncIdentity(s) ==
  /\ At(s, "identities")
  /\ \/ /\ job[s].todo = {} /\ Finish(s) /\ UNCHANGED identity
     \/ \E i \in job[s].todo :
          /\ identity' = [identity EXCEPT ![i] = IF @ = NoIdentity THEN [status |-> "active"] ELSE @]
          /\ job' = [job EXCEPT ![s].todo = @ \ {i}, ![s].key = i, ![s].step = "suggestion"]
  /\ OnlyCashiers /\ UNCHANGED mapping

\* Only where the identity has no mapping.
FindMapping(s) ==
  /\ At(s, "suggestion")
  /\ Goto(s, IF ActiveOf(job[s].key) # {} THEN "identities" ELSE "suggest")
  /\ UNCHANGED rows

\* suggestEmployee: one employee of that name, several, or none.
Suggest(s) ==
  /\ At(s, "suggest")
  /\ \E m \in Mid, e \in Employee \cup {None}, status \in {"auto_matched", "ambiguous", "unmatched"} :
       /\ Free(m) /\ SeenOf(job[s].key) # {}
       /\ (e # None) = (status = "auto_matched")
       /\ mapping' = [mapping EXCEPT ![m] = Mapping(job[s].key, e, status, FirstSeen(job[s].key))]
  /\ job' = [job EXCEPT ![s].step = "identities", ![s].key = <<>>]
  /\ OnlyCashiers /\ UNCHANGED identity

-----------------------------------------------------------------------------
(* assignEmployeeToIdentity, in a transaction under Read Committed.        *)

BeginAssign(s, i, e, from) ==
  /\ identity[i] # NoIdentity
  /\ Begin(s, "assign", [Idle EXCEPT !.step = "open mappings", !.key = i,
                        !.to = [employee |-> e, from |-> from]])

ReadOpen(s) ==
  /\ At(s, "open mappings")
  /\ job' = [job EXCEPT ![s].todo = OpenOf(job[s].key), ![s].step = "lock"]
  /\ UNCHANGED rows

\* The mappings of another employee are closed, that of this one is updated: both are locked.
Closing(s) == {m \in job[s].todo : mapping[m].employee # job[s].to.employee}
Same(s)    == {m \in job[s].todo : mapping[m].employee = job[s].to.employee}

LockMappings(s) ==
  /\ At(s, "lock") /\ Unlocked(s, job[s].todo)
  /\ job' = [job EXCEPT ![s].locks = @ \cup job[s].todo, ![s].step = "guard"]
  /\ UNCHANGED rows

\* Mutant: the mappings are not read again.
Guard_Skipped(s) ==
  /\ At(s, "guard") /\ Goto(s, "assign")
  /\ UNCHANGED rows

\* Open mappings that are left, as far as they are committed, forbid a new one.
Guard(s) ==
  /\ At(s, "guard")
  /\ IF Same(s) = {} /\ OpenOf(job[s].key) \ Closing(s) # {} THEN Finish(s) ELSE Goto(s, "assign")
  /\ UNCHANGED rows

LaterOf(a, b) == IF a <= b THEN b ELSE a

Closed(s, m) ==
  [mapping[m] EXCEPT !.status = "inactive", !.to = LaterOf(mapping[m].from, job[s].to.from)]

\* A mapping of the same employee keeps its interval.
Confirmed(s, m) == [mapping[m] EXCEPT !.status = "confirmed", !.confirmed = TRUE]

\* The writes and the commit.
Assign(s) ==
  /\ At(s, "assign")
  /\ LET i == job[s].key
         to == job[s].to
         after == [m \in Mid |-> IF m \in Closing(s) THEN Closed(s, m) ELSE mapping[m]]
     IN  \/ /\ Same(s) # {}
            /\ \E m \in Same(s) : mapping' = [after EXCEPT ![m] = Confirmed(s, m)]
         \/ /\ Same(s) = {}
            /\ \E m \in Mid : Free(m) /\ mapping' = [after EXCEPT ![m] = Mapping(i, to.employee, "confirmed", to.from)]
  /\ identity' = [identity EXCEPT ![job[s].key] = [status |-> "active"]]
  /\ Finish(s) /\ OnlyCashiers

-----------------------------------------------------------------------------
(* excludeIdentity.                                                        *)

BeginExclude(s, i) ==
  /\ identity[i] # NoIdentity
  /\ Begin(s, "exclude", [Idle EXCEPT !.step = "closing", !.key = i,
                         !.todo = {m \in RowsOf(i) : mapping[m].to = Open}])

\* The update waits for the rows it found and skips those closed meanwhile.
LockOpen(s) ==
  /\ At(s, "closing") /\ Unlocked(s, job[s].todo)
  /\ job' = [job EXCEPT ![s].step = "exclude",
               ![s].locks = {m \in job[s].todo : mapping[m] # NoMapping /\ mapping[m].to = Open}]
  /\ UNCHANGED rows

LastDay == CHOOSE d \in {DayOf[x] : x \in Receipt} : \A x \in Receipt : DayOf[x] <= d

Exclude(s) ==
  /\ At(s, "exclude")
  /\ \E m \in Mid :
       /\ Free(m)
       /\ mapping' = [n \in Mid |->
            IF n = m THEN Mapping(job[s].key, None, "excluded", EPOCH)
            ELSE IF n \in job[s].locks THEN [mapping[n] EXCEPT !.status = "inactive", !.to = LastDay]
            ELSE mapping[n]]
  /\ identity' = [identity EXCEPT ![job[s].key] = [status |-> "excluded"]]
  /\ Finish(s) /\ OnlyCashiers

-----------------------------------------------------------------------------
(* The sales of a period.                                                  *)

\* Mutant: a suggestion counts like an assignment.
Attributing_Suggested(m) == mapping[m].status \in {"confirmed", "auto_matched"}

Attributing(m) == mapping[m].status = "confirmed"

CoversDay(m, d) == mapping[m].from <= d /\ d < mapping[m].to

Covering(i, d) == {m \in RowsOf(i) : mapping[m].employee # None /\ Attributing(m) /\ CoversDay(m, d)}

\* resolveSaleEmployee: the one mapping that covers the day, or nobody.
SaleEmployee(x) ==
  LET ms == Covering(CashierAt(x), DayOf[x])
  IN  IF identity[CashierAt(x)] # NoIdentity /\ Cardinality(ms) = 1
      THEN mapping[CHOOSE m \in ms : TRUE].employee ELSE None

\* applyPeriodSales, from the receipts and the calculations as read at the start.
BeginApply(s) ==
  Begin(s, "apply", [Idle EXCEPT !.step = "receipts", !.todo = {x \in Stored : CashierOf[x] # None}])

ResolveSale(s) ==
  /\ At(s, "receipts")
  /\ \/ /\ job[s].todo = {}
        /\ job' = [job EXCEPT ![s].step = "calculations", ![s].todo = Employee]
     \/ \E x \in job[s].todo :
          LET e == IF receipt[x] = NoReceipt THEN None ELSE SaleEmployee(x)
          IN  job' = [job EXCEPT ![s].todo = @ \ {x},
                        ![s].step = IF e = None THEN "receipts" ELSE "attribute",
                        ![s].receipt = x, ![s].to = [employee |-> e]]
  /\ UNCHANGED rows

\* upsertAttribution: one row per receipt.
Attribute(s) ==
  /\ At(s, "attribute")
  /\ attribution' = [attribution EXCEPT ![job[s].receipt] = job[s].to.employee]
  /\ job' = [job EXCEPT ![s].sums[job[s].to.employee] = @ \cup {job[s].receipt}, ![s].step = "receipts"]
  /\ UNCHANGED <<connection, register, history, sync, receipt, item, daily, category, rule,
                 identity, mapping, sales>>

\* attributedNetForCalc.
AttributedTo(e) == {x \in Receipt : attribution[x] = e}

\* The sum of this pass; where it has none, that of the stored rows.
AutomaticSales(s, e) == IF job[s].sums[e] # {} THEN job[s].sums[e] ELSE AttributedTo(e)

UpdateCalculation(s) ==
  /\ At(s, "calculations")
  /\ \/ /\ job[s].todo = {} /\ Finish(s) /\ UNCHANGED sales
     \/ \E e \in job[s].todo :
          /\ sales' = [sales EXCEPT ![e] = AutomaticSales(s, e)]
          /\ job' = [job EXCEPT ![s].todo = @ \ {e}]
  /\ UNCHANGED <<connection, register, history, sync, receipt, item, daily, category, rule,
                 identity, mapping, attribution>>
=============================================================================
