---------------------------- MODULE FiscalContour ----------------------------
(***************************************************************************)
(* Cash registers, imports and cashiers together: who changes the          *)
(* registers, the cron and the people who import, and those who assign     *)
(* cashiers and apply the sales work on the same rows.                     *)
(***************************************************************************)
EXTENDS CashRegisters, FiscalImport, CashierMappings

RegisterRow ==
  [conn : Connection, drive : Drive, club : Club, legal : LegalOrNot, isActive : BOOLEAN,
   key : Drive \cup {None}, status : {"active", "archived"}]

ReceiptRow == [conn : Connection, club : Club, legal : LegalOrNot]

MappingRow ==
  [cashier : Identity, employee : Employee \cup {None}, from : Nat, to : Nat, confirmed : BOOLEAN,
   status : {"auto_matched", "ambiguous", "unmatched", "confirmed", "excluded", "inactive"}]

RowsAssumption ==
  \A sc \in Scenarios :
    /\ sc.slots \subseteq Slot /\ IsFiniteSet(sc.slots)
    /\ sc.bindings \subseteq Club \X LegalOrNot  \* the bindings that are asked for
    /\ sc.register \in [Register -> RegisterRow \cup {NoRegister}]
    /\ sc.receipt \in [Receipt -> ReceiptRow \cup {NoReceipt}]
    /\ sc.identity \in [Identity -> [status : {"active", "excluded"}] \cup {NoIdentity}]
    /\ sc.mapping \in [Mid -> MappingRow \cup {NoMapping}]

ASSUME RowsAssumption

\* The rows at the start are as the handlers leave them: a register that is read holds the
\* key of its drive and no other holds it; a stored receipt has its register; a mapping
\* counts only once somebody confirmed it; a cashier has one open mapping as long as he is
\* known, which is not a confirmed one if he is excluded.
StartAssumption ==
  \A sc \in Scenarios :
    LET rs == {r \in Register : sc.register[r] # NoRegister}
        ProviderIn(r) == ProviderOf[sc.register[r].conn]
        ActiveIn(i) == {m \in Mid : /\ sc.mapping[m] # NoMapping /\ sc.mapping[m].cashier = i
                                     /\ sc.mapping[m].status # "inactive"}
    IN
    /\ \A r \in rs : sc.register[r].status = "active" /\ sc.register[r].isActive
                       => sc.register[r].key = sc.register[r].drive
    /\ \A q, r \in rs : /\ sc.register[q].key = sc.register[r].key /\ sc.register[r].key # None
                         /\ ProviderIn(q) = ProviderIn(r)
                         => q = r
    /\ \A x \in Receipt : sc.receipt[x] # NoReceipt =>
         /\ ProviderOf[sc.receipt[x].conn] = SourceOf[x]
         /\ \E r \in rs : ProviderIn(r) = SourceOf[x] /\ sc.register[r].drive = DriveOf[x]
    /\ \A m \in Mid : sc.mapping[m] # NoMapping =>
         /\ sc.mapping[m].status = "confirmed" => sc.mapping[m].confirmed
         /\ sc.mapping[m].status # "inactive" => sc.mapping[m].to = Open
         /\ sc.mapping[m].from < Open
    /\ \A i \in Identity :
         /\ sc.identity[i] = NoIdentity => ActiveIn(i) = {}
         /\ sc.identity[i] # NoIdentity => \E m \in Mid : ActiveIn(i) = {m}
         /\ sc.identity[i].status = "excluded" => \A m \in ActiveIn(i) : sc.mapping[m].status # "confirmed"

ASSUME StartAssumption

\* At the start nothing runs, and what is stored has been summed up; it has no lines.
Init ==
  /\ scenario \in Scenarios
  /\ connection = [c \in Connection |-> [isActive |-> TRUE, legal |-> None]]
  /\ register = scenario.register
  /\ history = [r \in Register |-> NoHistory]
  /\ sync = [c \in Connection |-> [running |-> 0, last |-> None]]
  /\ receipt = scenario.receipt
  /\ item = [x \in Receipt |-> NoItem]
  /\ daily = [k \in SummaryKey |-> ReceiptsOf(k)]
  /\ category = [k \in SummaryKey |-> {}]
  /\ rule = "other"
  /\ identity = scenario.identity
  /\ mapping = scenario.mapping
  /\ attribution = [x \in Receipt |-> None]
  /\ sales = [e \in Employee |-> {}]
  /\ job = [s \in Slot |-> Idle]

BeginRegister(s, r) ==
  \/ BeginToggle(s, r) \/ BeginDelete(s, r) \/ BeginPurge(s, r)
  \/ \E d \in Drive, b \in scenario.bindings : BeginEdit(s, r, d, b[1], b[2])

BeginSource(s, c) ==
  \/ BeginImport(s, c)
  \/ \E d \in Drive, b \in scenario.bindings : b[2] # None /\ BeginBind(s, c, d, b[1], b[2])

BeginCashier(s, i) ==
  \/ BeginExclude(s, i)
  \/ \E e \in Employee, d \in {DayOf[x] : x \in Receipt} : BeginAssign(s, i, e, d)

Settings ==
  \/ \E r \in Register, c \in Connection, d \in Drive, b \in scenario.bindings : AddRegister(r, c, d, b[1], b[2])
  \/ \E r \in Register, b \in scenario.bindings : b[2] # None /\ UpdateBinding(r, b[1], b[2])
  \/ \E r \in Register : Unbind(r)
  \/ \E c \in Connection : ToggleConnection(c) \/ \E e \in Legal : SelectOrganization(c, e)
  \/ \E c \in Category : SaveRule(c)

Write(s) ==
  \/ EditReads(s) \/ EditWrites(s) \/ Toggle(s) \/ Bind(s) \/ Archive(s) \/ HardDelete(s) \/ Purge(s)
  \/ TakeConnection(s) \/ OpenRun(s) \/ ReadRegisters(s) \/ WrongAccount(s) \/ CloseRun(s)
  \/ FetchRegister(s) \/ FetchPage(s) \/ EndOfRegisters(s) \/ CheckStored(s) \/ StoreReceipts(s)
  \/ SaveItems(s) \/ NextDay(s) \/ ReadDay(s) \/ WriteDay(s) \/ ReadLines(s) \/ ClearCategories(s)
  \/ WriteCategories(s) \/ Reclassify(s)
  \/ SyncIdentity(s) \/ FindMapping(s) \/ Suggest(s) \/ ReadOpen(s) \/ LockMappings(s) \/ Guard(s)
  \/ Assign(s) \/ LockOpen(s) \/ Exclude(s) \/ ResolveSale(s) \/ Attribute(s) \/ UpdateCalculation(s)

Next ==
  \/ Settings
  \/ \E s \in Slot : \/ \E r \in Register : BeginRegister(s, r)
                     \/ \E c \in Connection : BeginSource(s, c)
                     \/ \E i \in Identity : BeginCashier(s, i)
                     \/ BeginBatch(s) \/ BeginReclassify(s) \/ BeginSync(s) \/ BeginApply(s)
                     \/ Write(s) \/ Crash(s)

Spec == Init /\ [][Next]_vars

-----------------------------------------------------------------------------
Serial  == Cardinality(scenario.slots) = 1
Quiet   == \A s \in Slot : job[s].step = "idle"
Settled == Quiet /\ \A c \in Connection : sync[c].running = 0
Purging == "purge" \in scenario.calls

(* "Cards are always consistent": while no run is open, every daily and    *)
(* every category summary is the sum of the rows that are stored, whatever *)
(* fetches failed, whatever bindings changed and whichever import died --  *)
(* an import that leaves a day behind leaves its run open as well.         *)
SummariesMatchReceipts ==
  Serial /\ ~Purging /\ Settled =>
    \A k \in SummaryKey : daily[k] = ReceiptsOf(k) /\ category[k] = LinesOf(k)

(* A register is deleted for good only when nothing was imported from it:  *)
(* every stored receipt has a register, if only an archived one, that has  *)
(* its drive.  Registers that were given another drive are left out: the   *)
(* first drive of a register is not recorded in its history.               *)
ReceiptsKeepTheirRegister ==
  Serial /\ ~Purging /\ "renumber" \notin scenario.calls => \A x \in Stored : \E r \in Existing :
    ProviderAt(r) = SourceOf[x] /\ register[r].drive = DriveOf[x]

(* "One active mapping per (provider, fnNumber)": of the registers an      *)
(* import reads no two have the same drive, through any sequence of        *)
(* additions, edits, switches and deletions.  Registers that were archived *)
(* and switched on again are left out.                                     *)
DrivesAreExclusive ==
  Serial => \A q, r \in {r \in Existing : register[r].status = "active" /\ register[r].isActive} :
    ProviderAt(q) = ProviderAt(r) /\ register[q].drive = register[r].drive => q = r

(* "Overlap of two open intervals for one identity is prevented": also     *)
(* when assignments overlap on an identity that has a mapping.  With one   *)
(* request at a time, a day of an identity counts for at most one employee *)
(* and an identity that was excluded counts for nobody.                    *)
DaysHaveOneCashier ==
  /\ Serial \/ scenario.calls \subseteq {"assign", "apply"} =>
       \A i \in Identity : Cardinality(OpenOf(i)) <= 1
  /\ Serial => \A i \in Identity, x \in Receipt :
       /\ Cardinality(Covering(i, DayOf[x])) <= 1
       /\ Quiet /\ identity[i].status = "excluded" => Covering(i, DayOf[x]) = {}

(* "A suggestion never pays out": whatever overlaps, sales are attributed  *)
(* to an employee, and counted in the calculation, only if somebody        *)
(* confirmed a mapping of the receipt's cashier to that employee that had  *)
(* begun by that day.                                                      *)
OnlyConfirmedPays ==
  ~Purging => \A x \in Stored, e \in Employee :
    attribution[x] = e \/ x \in sales[e] =>
      \E m \in RowsOf(CashierAt(x)) :
        mapping[m].employee = e /\ mapping[m].confirmed /\ mapping[m].from <= DayOf[x]
=============================================================================
