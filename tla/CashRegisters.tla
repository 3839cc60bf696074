---------------------------- MODULE CashRegisters ----------------------------
(***************************************************************************)
(* The cash registers of a company (settings/integrations/ofd/actions.ts,  *)
(* settings/ofd/astral/steps-actions.ts, lib/ofd/cash-register-service.ts):*)
(* adding, binding, editing, disabling, archiving and deleting a register, *)
(* with the history of its drives and of its bindings.                     *)
(*                                                                         *)
(* activeMappingKey is unique: a statement that would repeat one fails and *)
(* takes its transaction with it.  Left out: the dates of the history, the *)
(* register's names and its type, moving it to another connection of its   *)
(* provider, the settings PIN, and the closed payroll period that refuses  *)
(* a purge.                                                                *)
(***************************************************************************)
EXTENDS FiscalState

OnlyRegisters == UNCHANGED <<connection, sync, receipt, item, daily, category, rule,
                             identity, mapping, attribution, sales>>

Row(c, d, k, e) ==
  [conn |-> c, drive |-> d, club |-> k, legal |-> e, isActive |-> TRUE, key |-> d, status |-> "active"]

\* Another register of the provider that holds the active key of a drive.
KeyTaken(p, d, r) == \E q \in Existing \ {r} : ProviderAt(q) = p /\ register[q].key = d

AddRegister(r, c, d, k, e) ==
  /\ "add" \in scenario.calls /\ ProviderOf[c] = "taxcom"
  /\ register[r] = NoRegister /\ ~KeyTaken("taxcom", d, r)
  /\ register' = [register EXCEPT ![r] = Row(c, d, k, IF e = None THEN connection[c].legal ELSE e)]
  /\ OnlyRegisters /\ UNCHANGED <<history, scenario, job>>

\* updateOfdMapping: a plain update, which records no assignment.
UpdateBinding(r, k, e) ==
  /\ "update" \in scenario.calls /\ r \in Existing /\ ProviderAt(r) = "taxcom"
  /\ register' = [register EXCEPT ![r].club = k, ![r].legal = e]
  /\ OnlyRegisters /\ UNCHANGED <<history, scenario, job>>

-----------------------------------------------------------------------------
(* The full edit.                                                          *)

\* Another drive only where the scenario has the call "renumber".
BeginEdit(s, r, d, k, e) ==
  /\ r \in Existing
  /\ d # register[r].drive => /\ "renumber" \in scenario.calls
                              /\ \A q \in Existing \ {r} :
                                   ProviderAt(q) = ProviderAt(r) /\ register[q].drive = d
                                     => register[q].key = None
  /\ Begin(s, "edit", [Idle EXCEPT !.step = "edit reads", !.register = r, !.seen = register[r],
                       !.to = [drive |-> d, club |-> k, legal |-> e]])

\* The transaction reads the open assignment and the active drive of the register.
EditReads(s) ==
  /\ At(s, "edit reads")
  /\ LET h == history[job[s].register]
     IN  job' = [job EXCEPT ![s].step = "edit writes",
                            ![s].read = [drives |-> {x \in h.drives : x.active},
                                         assignments |-> {x \in h.assignments : x.open}]]
  /\ UNCHANGED rows

\* recordFiscalDriveChange: the drive it replaces is the active row, if there is one.
DriveChange(rs, open, d) ==
  IF \E x \in open : x.drive = d THEN rs
  ELSE {IF x \in open THEN [x EXCEPT !.active = FALSE] ELSE x : x \in rs}
         \cup {[drive |-> d, active |-> TRUE]}

\* recordAssignmentChange.
AssignmentChange(rs, open, b) ==
  IF b \in open THEN rs
  ELSE {IF x \in open THEN [x EXCEPT !.open = FALSE] ELSE x : x \in rs} \cup {b}

\* Mutant: the edit leaves the active key as it is.
KeyAfterEdit_Kept(row, d) == row.key

\* A register that is disabled takes the key as well; an archived one keeps what it has.
KeyAfterEdit(row, d) == IF row.status = "active" THEN d ELSE row.key

EditWrites(s) ==
  /\ At(s, "edit writes")
  /\ LET j   == job[s]
         r   == j.register
         key == KeyAfterEdit(j.seen, j.to.drive)
     IN  IF r \notin Existing \/ (key # None /\ KeyTaken(ProviderAt(r), key, r))
         THEN UNCHANGED <<register, history>>
         ELSE /\ register' = [register EXCEPT ![r].drive = j.to.drive, ![r].club = j.to.club,
                                              ![r].legal = j.to.legal, ![r].key = key]
              /\ history' = [history EXCEPT
                   ![r].drives = IF j.to.drive = j.seen.drive THEN @
                                 ELSE DriveChange(@, j.read.drives, j.to.drive),
                   ![r].assignments = AssignmentChange(@, j.read.assignments,
                     [club |-> j.to.club, legal |-> j.to.legal, open |-> TRUE])]
  /\ Finish(s) /\ OnlyRegisters

-----------------------------------------------------------------------------
(* Switching on and off.                                                   *)

\* The page lists the registers of Taxcom connections.
BeginToggle(s, r) ==
  /\ r \in Existing /\ ProviderAt(r) = "taxcom"
  /\ Begin(s, "toggle", [Idle EXCEPT !.step = "toggle", !.register = r, !.seen = register[r]])

\* A plain update from the row read.
Toggle(s) ==
  /\ At(s, "toggle")
  /\ LET r  == job[s].register
         on == ~job[s].seen.isActive
         d  == job[s].seen.drive
     IN  IF r \notin Existing \/ (on /\ KeyTaken("taxcom", d, r))
         THEN UNCHANGED register
         ELSE register' = [register EXCEPT ![r].isActive = on, ![r].key = IF on THEN d ELSE None]
  /\ Finish(s) /\ OnlyRegisters /\ UNCHANGED history

ToggleConnection(c) ==
  /\ "toggle connection" \in scenario.calls
  /\ connection' = [connection EXCEPT ![c].isActive = ~@]
  /\ UNCHANGED <<register, history, sync, receipt, item, daily, category, rule, identity, mapping,
                 attribution, sales, scenario, job>>

\* selectAstralOrganization.
SelectOrganization(c, e) ==
  /\ "organization" \in scenario.calls /\ ProviderOf[c] = "astral"
  /\ connection' = [connection EXCEPT ![c].legal = e]
  /\ UNCHANGED <<register, history, sync, receipt, item, daily, category, rule, identity, mapping,
                 attribution, sales, scenario, job>>

\* bindAstralKkt: the row of the drive, or a new one under a free id.
BeginBind(s, c, d, k, e) ==
  /\ ProviderOf[c] = "astral"
  /\ \E r \in Register :
       /\ LET found == {q \in Existing : ProviderAt(q) = "astral" /\ register[q].drive = d}
          IN  r \in (IF found # {} THEN found ELSE Register \ Existing)
       /\ Begin(s, "bind", [Idle EXCEPT !.step = "bind", !.register = r, !.conn = c,
                            !.seen = register[r], !.to = [drive |-> d, club |-> k, legal |-> e]])

\* The status of a row that is bound again stays what it was.
Bind(s) ==
  /\ At(s, "bind")
  /\ LET j == job[s]
         r == j.register
         b == Row(j.conn, j.to.drive, j.to.club, j.to.legal)
     IN  \/ /\ (r \in Existing) = (j.seen # NoRegister)
            /\ ~KeyTaken("astral", j.to.drive, r)
            /\ register' = [register EXCEPT
                 ![r] = IF r \in Existing THEN [b EXCEPT !.status = register[r].status] ELSE b]
         \/ /\ (r \in Existing) # (j.seen # NoRegister) \/ KeyTaken("astral", j.to.drive, r)
            /\ UNCHANGED register
  /\ Finish(s) /\ OnlyRegisters /\ UNCHANGED history

\* unbindAstralKkt finds a row of the drive and disables it.
Unbind(r) ==
  /\ "unbind" \in scenario.calls /\ r \in Existing /\ ProviderAt(r) = "astral"
  /\ register' = [register EXCEPT ![r].isActive = FALSE, ![r].key = None]
  /\ OnlyRegisters /\ UNCHANGED <<history, scenario, job>>

-----------------------------------------------------------------------------
(* Deletion.                                                               *)

\* cashRegisterUsage: what was imported from the drive the register has now.
ImportedBy(r) == {x \in Stored : DriveOf[x] = register[r].drive /\ SourceOf[x] = ProviderAt(r)}

CashiersOf(r) ==
  {i \in Identity : identity[i] # NoIdentity /\ i[1] = register[r].conn /\ i[2] = register[r].drive}

\* Mutant: only cashiers and attributed sales keep a register.
BlockingHistory_Receipts(r) ==
  CashiersOf(r) # {} \/ \E x \in ImportedBy(r) : attribution[x] # None

BlockingHistory(r) == ImportedBy(r) # {} \/ CashiersOf(r) # {}

BeginDelete(s, r) ==
  /\ r \in Existing
  /\ Begin(s, "delete", [Idle EXCEPT !.register = r,
                         !.step = IF BlockingHistory(r) THEN "archive" ELSE "hard delete"])

Archive(s) ==
  /\ At(s, "archive")
  /\ LET r == job[s].register
     IN  IF r \notin Existing THEN UNCHANGED <<register, history>>
         ELSE /\ history' = [history EXCEPT ![r].assignments = {[x EXCEPT !.open = FALSE] : x \in @}]
              /\ register' = [register EXCEPT ![r].status = "archived", ![r].isActive = FALSE,
                                              ![r].key = None]
  /\ Finish(s) /\ OnlyRegisters

HardDelete(s) ==
  /\ At(s, "hard delete")
  /\ register' = [register EXCEPT ![job[s].register] = NoRegister]
  /\ history' = [history EXCEPT ![job[s].register] = NoHistory]
  /\ Finish(s) /\ OnlyRegisters

\* purgeCashRegisterHistory: the receipts are listed before the transaction.  The
\* summaries stay.
BeginPurge(s, r) ==
  /\ r \in Existing
  /\ Begin(s, "purge", [Idle EXCEPT !.step = "purge", !.register = r, !.seen = register[r],
                        !.batch = ImportedBy(r)])

Purge(s) ==
  /\ At(s, "purge")
  /\ LET j == job[s]
         r == j.register
         d == j.seen.drive
         p == ProviderOf[j.seen.conn]
         Gone(x) == DriveOf[x] = d /\ SourceOf[x] = p
         gone == {i \in Identity : i[1] = j.seen.conn /\ i[2] = d}
     IN  IF r \notin Existing
         THEN UNCHANGED <<register, history, receipt, item, identity, mapping, attribution>>
         ELSE /\ attribution' = [x \in Receipt |-> IF x \in j.batch THEN None ELSE attribution[x]]
              /\ item' = [x \in Receipt |-> IF Gone(x) THEN NoItem ELSE item[x]]
              /\ receipt' = [x \in Receipt |-> IF Gone(x) THEN NoReceipt ELSE receipt[x]]
              /\ mapping' = [m \in Mid |-> IF mapping[m].cashier \in gone THEN NoMapping ELSE mapping[m]]
              /\ identity' = [i \in Identity |-> IF i \in gone THEN NoIdentity ELSE identity[i]]
              /\ register' = [register EXCEPT ![r] = NoRegister]
              /\ history' = [history EXCEPT ![r] = NoHistory]
  /\ Finish(s)
  /\ UNCHANGED <<connection, sync, daily, category, rule, sales>>
=============================================================================
