---------------------------- MODULE FiscalImport ----------------------------
(***************************************************************************)
(* Importing receipts (lib/ofd/importer.ts, lib/ofd/astral/importer.ts,    *)
(* lib/ofd/daily.ts) and sorting their lines into categories again.        *)
(*                                                                         *)
(* A batch takes its connections one after the other.  An import opens a   *)
(* run, reads the active registers, fetches receipts register by register  *)
(* (Taxcom) or page by page (Astral), stores the new ones and their lines, *)
(* and at the end sums up again every day it touched.  An exception leaves *)
(* the run as it is: running.                                              *)
(*                                                                         *)
(* Left out: the day range (one import covers one period), money other     *)
(* than the set of receipts summed, the counters of a run, an Astral       *)
(* connection without an organization, a sale both providers report.       *)
(***************************************************************************)
EXTENDS FiscalState

OnlySync == UNCHANGED <<connection, register, history, receipt, item, daily, category, rule,
                        identity, mapping, attribution, sales>>

-----------------------------------------------------------------------------
(* Opening and closing a run.                                              *)

\* The cron and "synchronise now" take every active connection.
BeginBatch(s) ==
  Begin(s, "batch", [Idle EXCEPT !.step = "batch", !.call = "import",
                     !.queue = {c \in Connection : connection[c].isActive}])

BeginImport(s, c) == Begin(s, "import", [Idle EXCEPT !.step = "batch", !.call = "import", !.queue = {c}])

\* already_running.
Busy(c) == sync[c].running > 0

\* The next connection of the batch; one that is inactive or busy is passed over.
TakeConnection(s) ==
  /\ At(s, "batch")
  /\ \/ /\ job[s].queue = {} /\ Finish(s)
     \/ \E c \in job[s].queue :
          LET left == [Idle EXCEPT !.step = "batch", !.call = "import", !.queue = job[s].queue \ {c}]
          IN  job' = [job EXCEPT ![s] =
                IF ~connection[c].isActive \/ Busy(c) THEN left
                ELSE [left EXCEPT !.step = "open", !.conn = c, !.legal = connection[c].legal]]
  /\ UNCHANGED rows

\* What the batch goes on with after an import, whether it returns or throws.
NextConnection(s) ==
  job' = [job EXCEPT ![s] = [Idle EXCEPT !.step = "batch", !.call = "import", !.queue = job[s].queue]]

OpenRun(s) ==
  /\ At(s, "open")
  /\ sync' = [sync EXCEPT ![job[s].conn].running = @ + 1]
  /\ Goto(s, "registers")
  /\ OnlySync

\* Taxcom: every active register of the company.  Astral: those of the connection's entity.
Selected(s) ==
  LET p == ProviderOf[job[s].conn]
  IN  {r \in Existing : /\ ProviderAt(r) = p /\ register[r].isActive /\ register[r].key # None
                        /\ p = "astral" /\ job[s].legal # None => register[r].legal = job[s].legal}

\* A receipt is booked under the legal entity of its own register.  Only Astral falls back.
BookedLegal(s, r) ==
  IF register[r].legal = None /\ ProviderOf[job[s].conn] = "astral" THEN job[s].legal
  ELSE register[r].legal

\* The category rules are read right after.
ReadRegisters(s) ==
  /\ At(s, "registers")
  /\ job' = [job EXCEPT
       ![s].todo = {[drive |-> register[r].drive, club |-> register[r].club, legal |-> BookedLegal(s, r)]
                    : r \in Selected(s)},
       ![s].rule = rule,
       ![s].step = IF Selected(s) = {} THEN "close" ELSE "next",
       ![s].bad = Selected(s) = {}]
  /\ UNCHANGED rows

\* The provider's session is open in another account.
WrongAccount(s) ==
  /\ At(s, "registers") /\ ProviderOf[job[s].conn] = "taxcom" /\ Selected(s) # {}
  /\ job' = [job EXCEPT ![s].step = "close", ![s].bad = TRUE]
  /\ UNCHANGED rows

Outcome(s) ==
  IF ~job[s].bad THEN "success" ELSE IF job[s].good THEN "partial_failed" ELSE "failed"

CloseRun(s) ==
  /\ At(s, "close")
  /\ sync' = [sync EXCEPT ![job[s].conn] = [running |-> @.running - 1, last |-> Outcome(s)]]
  /\ NextConnection(s)
  /\ OnlySync

-----------------------------------------------------------------------------
(* Receipts.                                                               *)

Keys(s, batch) == {<<ProviderOf[job[s].conn], b.club, b.legal, DayOf[b.receipt]>> : b \in batch}

\* Mutant: the days of a register whose fetch failed are not summed up.
Touched_Complete(s, batch) == IF job[s].bad THEN {} ELSE Keys(s, batch)

\* The days to sum up: of receipts stored now, and of those stored before.
Touched(s, batch) == Keys(s, batch)

Batch(got, m) == {[receipt |-> x, club |-> m.club, legal |-> m.legal] : x \in got}

\* A register without a legal entity is passed over.
SkipRegister(s, m) ==
  /\ m.legal = None
  /\ job' = [job EXCEPT ![s].todo = @ \ {m}, ![s].bad = TRUE]

\* The receipts of the days and shifts that answer.
TakeRegister(s, m, got, failed) ==
  /\ m.legal # None
  /\ job' = [job EXCEPT ![s].todo = @ \ {m}, ![s].batch = Batch(got, m),
                        ![s].bad = @ \/ failed, ![s].good = @ \/ ~failed,
                        ![s].step = IF got = {} THEN "next" ELSE "check"]

\* Taxcom, the next register.
FetchRegister(s) ==
  /\ At(s, "next") /\ ProviderOf[job[s].conn] = "taxcom"
  /\ \E m \in job[s].todo :
       \/ SkipRegister(s, m)
       \/ \E got \in SUBSET {x \in Receipt : DriveOf[x] = m.drive /\ SourceOf[x] = "taxcom"},
             failed \in BOOLEAN : TakeRegister(s, m, got, failed)
  /\ UNCHANGED rows

\* Astral, the next page: receipts of drives that are bound; an error ends the paging.
FetchPage(s) ==
  /\ At(s, "next") /\ ProviderOf[job[s].conn] = "astral"
  /\ \/ \E failed \in BOOLEAN : job' = [job EXCEPT ![s].bad = failed, ![s].step = "sum up"]
     \/ \E got \in SUBSET {x \in Receipt : SourceOf[x] = "astral"} \ {{}} :
          /\ \A x \in got : \E m \in job[s].todo : m.drive = DriveOf[x]
          /\ job' = [job EXCEPT ![s].batch = UNION {Batch({x \in got : DriveOf[x] = m.drive}, m)
                                                    : m \in job[s].todo},
                                ![s].step = "check"]
  /\ UNCHANGED rows

EndOfRegisters(s) ==
  /\ At(s, "next") /\ ProviderOf[job[s].conn] = "taxcom" /\ job[s].todo = {}
  /\ Goto(s, "sum up")
  /\ UNCHANGED rows

\* The receipts not stored yet.
CheckStored(s) ==
  /\ At(s, "check")
  /\ LET fresh == {b \in job[s].batch : b.receipt \notin Stored}
     IN  job' = [job EXCEPT ![s].read = fresh,
                            ![s].step = IF fresh = {} THEN "items" ELSE "store",
                            ![s].touched = IF fresh = {} THEN @ \cup Touched(s, job[s].batch) ELSE @]
  /\ UNCHANGED rows

OnlyReceipts == UNCHANGED <<connection, register, history, sync, item, daily, category, rule,
                            identity, mapping, attribution, sales>>

\* One statement for all of them; dedupeKey is unique, so it fails as a whole.
StoreReceipts(s) ==
  /\ At(s, "store")
  /\ LET fresh == job[s].read
         c     == job[s].conn
     IN  IF \E b \in fresh : b.receipt \in Stored
         THEN NextConnection(s) /\ UNCHANGED receipt
         ELSE /\ receipt' = [x \in Receipt |->
                   IF \E b \in fresh : b.receipt = x
                   THEN LET b == CHOOSE b \in fresh : b.receipt = x
                        IN  [conn |-> c, club |-> b.club, legal |-> b.legal]
                   ELSE receipt[x]]
              /\ job' = [job EXCEPT ![s].step = "items", ![s].good = TRUE,
                                    ![s].touched = @ \cup Touched(s, job[s].batch)]
  /\ OnlyReceipts

\* The lines of one club are stored under the legal entity of its first receipt.
Leads(batch) ==
  {lead \in [{b.club : b \in batch} -> {b.legal : b \in batch}] :
     \A k \in DOMAIN lead : \E b \in batch : b.club = k /\ b.legal = lead[k]}

\* The lines that come with the receipts or can be fetched, for stored ones without lines,
\* under the binding of this import.  A failure is recorded and the import goes on.
SaveItems(s) ==
  /\ At(s, "items")
  /\ \E some \in SUBSET {b \in job[s].batch : b.receipt \in Stored /\ item[b.receipt] = NoItem},
        lead \in Leads(job[s].batch) :
       item' = [x \in Receipt |->
         IF \E b \in some : b.receipt = x
         THEN LET b == CHOOSE b \in some : b.receipt = x
              IN  [club |-> b.club, legal |-> lead[b.club], category |-> job[s].rule]
         ELSE item[x]]
  /\ job' = [job EXCEPT ![s].step = "next", ![s].batch = {}, ![s].read = {}]
  /\ UNCHANGED <<connection, register, history, sync, receipt, daily, category, rule,
                 identity, mapping, attribution, sales>>

-----------------------------------------------------------------------------
(* Summing up.                                                             *)

ReceiptsOf(k) ==
  {x \in Stored : k = <<ProviderOf[receipt[x].conn], receipt[x].club, receipt[x].legal, DayOf[x]>>}

WithLines == {x \in Receipt : item[x] # NoItem}

LinesKey(x) == <<SourceOf[x], item[x].club, item[x].legal, DayOf[x]>>

LinesOf(k) == {<<item[x].category, x>> : x \in {x \in WithLines : LinesKey(x) = k}}

OnlySummaries == UNCHANGED <<connection, register, history, sync, receipt, item, rule,
                             identity, mapping, attribution, sales>>

NextDay(s) ==
  /\ At(s, "sum up")
  /\ \/ /\ job[s].touched = {}
        /\ IF job[s].call = "reclassify" THEN Finish(s) ELSE Goto(s, "close")
     \/ \E k \in job[s].touched :
          job' = [job EXCEPT ![s].key = k, ![s].touched = @ \ {k},
                    ![s].step = IF job[s].call = "reclassify" THEN "read lines" ELSE "read day"]
  /\ UNCHANGED rows

ReadDay(s) ==
  /\ At(s, "read day")
  /\ job' = [job EXCEPT ![s].read = ReceiptsOf(job[s].key), ![s].step = "write day"]
  /\ UNCHANGED rows

WriteDay(s) ==
  /\ At(s, "write day")
  /\ daily' = [daily EXCEPT ![job[s].key] = job[s].read]
  /\ Goto(s, "read lines")
  /\ OnlySummaries /\ UNCHANGED category

ReadLines(s) ==
  /\ At(s, "read lines")
  /\ job' = [job EXCEPT ![s].read = LinesOf(job[s].key), ![s].step = "clear"]
  /\ UNCHANGED rows

\* deleteMany and createMany, not in a transaction.
ClearCategories(s) ==
  /\ At(s, "clear")
  /\ category' = [category EXCEPT ![job[s].key] = {}]
  /\ Goto(s, "write categories")
  /\ OnlySummaries /\ UNCHANGED daily

\* summaryKey is unique per category: rows written meanwhile make the statement fail.
WriteCategories(s) ==
  /\ At(s, "write categories")
  /\ LET Of(lines) == {l[1] : l \in lines}
         k == job[s].key
     IN  IF Of(category[k]) \cap Of(job[s].read) # {}
         THEN /\ IF job[s].call = "reclassify" THEN Finish(s) ELSE NextConnection(s)
              /\ UNCHANGED category
         ELSE /\ category' = [category EXCEPT ![k] = @ \cup job[s].read]
              /\ job' = [job EXCEPT ![s].step = "sum up", ![s].key = <<>>, ![s].read = {}]
  /\ OnlySummaries /\ UNCHANGED daily

-----------------------------------------------------------------------------
(* reclassifyOfdReceiptItemsForCompany: line by line, then the days.       *)

\* No handler writes rules: they come with a release or are entered into the database.
SaveRule(c) ==
  /\ "rule" \in scenario.calls /\ c # rule
  /\ rule' = c
  /\ UNCHANGED <<connection, register, history, sync, receipt, item, daily, category,
                 identity, mapping, attribution, sales, scenario, job>>

BeginReclassify(s) ==
  Begin(s, "reclassify",
    [Idle EXCEPT !.step = "lines", !.call = "reclassify", !.rule = rule,
                 !.todo = {x \in WithLines : item[x].category # rule},
                 !.touched = {LinesKey(x) : x \in WithLines}])

Reclassify(s) ==
  /\ At(s, "lines")
  /\ \/ /\ job[s].todo = {} /\ Goto(s, "sum up") /\ UNCHANGED item
     \/ \E x \in job[s].todo :
          IF item[x] = NoItem THEN Finish(s) /\ UNCHANGED item
          ELSE /\ item' = [item EXCEPT ![x].category = job[s].rule]
               /\ job' = [job EXCEPT ![s].todo = @ \ {x}]
  /\ UNCHANGED <<connection, register, history, sync, receipt, daily, category, rule,
                 identity, mapping, attribution, sales>>
=============================================================================
