----------------------------- MODULE FiscalState -----------------------------
(***************************************************************************)
(* The rows of the fiscal data (OFD) part and the requests that work on    *)
(* them: connections to the two providers, cash registers with their       *)
(* history, imported receipts with their lines, daily and category         *)
(* summaries, cashiers with their mappings, and the sales attributed to    *)
(* employees.                                                              *)
(*                                                                         *)
(* A sum over rows is the set of the rows summed; a receipt has one line.  *)
(* Its drive, provider, day and cashier's name are constants of it.        *)
(***************************************************************************)
EXTENDS Integers, FiniteSets, TLC

CONSTANTS
  Slot,        \* requests that may run at once
  Connection,
  ProviderOf,  \* of a connection: "taxcom" or "astral"
  Register,    \* ids of cash registers
  Drive,       \* fiscal drives, by their number
  Club, Legal,
  Receipt,
  DriveOf,     \* the drive that issued a receipt
  SourceOf,    \* the provider that has it
  DayOf,
  CashierOf,   \* the cashier's name on it, or "none"
  Employee,
  Mid,         \* ids of cashier mappings
  Scenarios    \* which requests may run together, in which slots, on which rows

ASSUME NamesAssumption    == "none" \notin Drive \cup Employee
ASSUME ProviderAssumption == ProviderOf \in [Connection -> {"taxcom", "astral"}]
ASSUME ReceiptAssumption  == /\ DriveOf \in [Receipt -> Drive]
                             /\ SourceOf \in [Receipt -> {"taxcom", "astral"}]
                             /\ DayOf \in [Receipt -> Nat \ {0}]

VARIABLES
  connection,  \* OfdConnection: active or not, its legal entity
  register,    \* OfdCashRegisterMapping
  history,     \* OfdFiscalDrive and OfdCashRegisterAssignment rows of a register
  sync,        \* OfdSyncRun: how many runs of a connection are running, how the last one ended
  receipt,     \* OfdReceiptImport: the binding a receipt was imported with
  item,        \* OfdReceiptItem
  daily,       \* OfdDailySalesSummary
  category,    \* OfdRevenueCategoryDailySummary
  rule,        \* OfdRevenueCategoryRule: the category that lines fall into now
  identity,    \* OfdCashierIdentity
  mapping,     \* OfdCashierMapping
  attribution, \* PayrollSalesAttribution, by receipt
  sales,       \* the automatic sales of an employee's calculation
  scenario,    \* chosen at the start
  job          \* what each request does

rows == <<connection, register, history, sync, receipt, item, daily, category, rule,
          identity, mapping, attribution, sales>>
vars == <<rows, scenario, job>>

None == "none"

Provider   == {"taxcom", "astral"}
Category   == {"other", "membership"}
LegalOrNot == Legal \cup {None}

\* A summary is kept per provider, club, legal entity and day; one that is missing is empty.
SummaryKey == Provider \X Club \X LegalOrNot \X {DayOf[x] : x \in Receipt}

NoRegister == [status |-> None]
NoHistory  == [drives |-> {}, assignments |-> {}]
NoReceipt  == [conn |-> None]
NoItem     == [club |-> None]
NoIdentity == [status |-> None]
NoMapping  == [cashier |-> <<>>]

\* One cashier per connection, drive and name.
Identity == Connection \X Drive \X ({CashierOf[x] : x \in Receipt} \ {None})

Stored   == {x \in Receipt : receipt[x] # NoReceipt}
Existing == {r \in Register : register[r] # NoRegister}

ProviderAt(r) == ProviderOf[register[r].conn]

-----------------------------------------------------------------------------
Idle ==
  [step |-> "idle", call |-> None, queue |-> {}, conn |-> None, legal |-> None, todo |-> {},
   batch |-> {}, touched |-> {}, key |-> <<>>, read |-> {}, rule |-> None, bad |-> FALSE,
   good |-> FALSE, register |-> None, to |-> [employee |-> None], seen |-> NoRegister,
   receipt |-> None, sums |-> [e \in Employee |-> {}], locks |-> {}]

Begin(s, call, j) ==
  /\ call \in scenario.calls /\ s \in scenario.slots /\ job[s].step = "idle"
  /\ job' = [job EXCEPT ![s] = j]
  /\ UNCHANGED <<rows, scenario>>

At(s, step)   == job[s].step = step /\ UNCHANGED scenario
Goto(s, step) == job' = [job EXCEPT ![s].step = step]
Finish(s)     == job' = [job EXCEPT ![s] = Idle]

\* The process ends in the middle of a request: what is committed stays.
Crash(s) ==
  /\ "crash" \in scenario.calls /\ job[s].step # "idle"
  /\ Finish(s)
  /\ UNCHANGED <<rows, scenario>>
=============================================================================
