-------------------------- MODULE NotificationOutbox --------------------------
(***************************************************************************)
(* The durable outbox (lib/notifications/outbox.ts) over the connections   *)
(* of TelegramLinking.  Handlers insert rows; the cron calls the drain     *)
(* endpoint, and a call that takes long overlaps the next one.             *)
(*                                                                         *)
(* A drain works through the list it read first.  The answer of the bot    *)
(* API is one of: ok; lost (the send timed out, or the network failed,     *)
(* with the message arrived or not); busy (429, 5xx and the rest that is   *)
(* retried); blocked (403); malformed (400).  Telegram is configured; a    *)
(* payload always parses, being what JSON.stringify wrote.                 *)
(***************************************************************************)
EXTENDS TelegramLinking, Sequences, SequencesExt

CONSTANTS
  Notes,         \* bound: how many notifications are written
  Drain,         \* slots of the drain endpoint
  Batch,         \* rows that a drain takes: 50 in the code
  MaxAttempts    \* 5 in the code

ASSUME OutboxAssumption == Notes \in Nat /\ {Batch, MaxAttempts} \subseteq Nat \ {0}

Note == 1 .. Notes   \* in the order of createdAt

VARIABLES
  outbox,    \* the NotificationOutbox rows
  drain,     \* what each drain does
  copies,    \* how often a message of the row arrived
  doubt      \* how often the answer to a message of the row was lost

vars == <<linkVars, outbox, drain, copies, doubt>>

NoRow == [status |-> "none", to |-> None, attempts |-> 0, due |-> FALSE]
Still == [at |-> "idle", list |-> <<>>, chat |-> None, answer |-> None]

Init ==
  /\ LinkInit
  /\ outbox = [n \in Note |-> NoRow]
  /\ drain = [d \in Drain |-> Still]
  /\ copies = [n \in Note |-> 0]
  /\ doubt = [n \in Note |-> 0]

-----------------------------------------------------------------------------
\* enqueueNotification, for a recipient who is active: the events' functions
\* swallow a failure, after which there is no row.
Enqueue(n, u) ==
  /\ "notify" \in scenario.calls /\ u \in enabled
  /\ n = 1 + Cardinality({m \in Note : outbox[m] # NoRow}) /\ n <= scenario.notes
  /\ outbox' = [outbox EXCEPT ![n] = [NoRow EXCEPT !.status = "pending", !.to = u, !.due = TRUE]]
  /\ UNCHANGED <<linkVars, drain, copies, doubt>>

\* nextAttemptAt comes.
BackoffEnds(n) ==
  /\ outbox[n].status = "pending" /\ ~outbox[n].due
  /\ outbox' = [outbox EXCEPT ![n].due = TRUE]
  /\ UNCHANGED <<linkVars, drain, copies, doubt>>

-----------------------------------------------------------------------------
(* drainNotificationOutbox.                                                *)

Due == {n \in Note : outbox[n].status = "pending" /\ outbox[n].due}

\* The first rows that are due, each with the attempts it has now.
DueList ==
  LET rows == SetToSortSeq(Due, LAMBDA m, n : m < n)
  IN [i \in 1 .. (IF Len(rows) < Batch THEN Len(rows) ELSE Batch) |->
        [id |-> rows[i], attempts |-> outbox[rows[i]].attempts]]

\* A drain that finds nothing returns at once.
StartDrain(d) ==
  /\ d \in scenario.drains /\ drain[d] = Still /\ Due # {}
  /\ drain' = [drain EXCEPT ![d] = [Still EXCEPT !.at = "claim", !.list = DueList]]
  /\ UNCHANGED <<linkVars, outbox, copies, doubt>>

Row(d) == drain[d].list[1]

NextRow(d) == IF Len(drain[d].list) = 1 THEN Still
            ELSE [Still EXCEPT !.at = "claim", !.list = Tail(drain[d].list)]

\* Mutant: the claim does not look at the status.
Claimable_Any(n) == TRUE

\* The row is still pending, whatever happened since the list was read.
Claimable(n) == outbox[n].status = "pending"

Claim(d) ==
  /\ drain[d].at = "claim"
  /\ IF Claimable(Row(d).id)
     THEN /\ outbox' = [outbox EXCEPT ![Row(d).id].status = "sending"]
          /\ drain' = [drain EXCEPT ![d].at = "chat"]
     ELSE /\ drain' = [drain EXCEPT ![d] = NextRow(d)]
          /\ UNCHANGED outbox
  /\ UNCHANGED <<linkVars, copies, doubt>>

\* getActiveChatId: a chat of the recipient's.
FindChat(d) ==
  /\ drain[d].at = "chat"
  /\ LET chats == linked[outbox[Row(d).id].to] IN
     \/ chats = {} /\ drain' = [drain EXCEPT ![d].at = "skip"]
     \/ \E c \in chats : drain' = [drain EXCEPT ![d].at = "send", ![d].chat = c]
  /\ UNCHANGED <<linkVars, outbox, copies, doubt>>

\* sendTelegramMessage: what the bot API does, and what it answers.
Send(d) ==
  /\ drain[d].at = "send"
  /\ \E answer \in {"ok", "lost", "busy", "blocked", "malformed"} :
       LET n == Row(d).id IN
       /\ \/ answer \in {"ok", "lost"} /\ copies' = [copies EXCEPT ![n] = @ + 1]
          \/ answer # "ok" /\ UNCHANGED copies
       /\ doubt' = [doubt EXCEPT ![n] = @ + (IF answer = "lost" THEN 1 ELSE 0)]
       /\ drain' = [drain EXCEPT ![d].answer = answer,
                                 ![d].at = IF answer = "blocked" THEN "block" ELSE "record"]
  /\ UNCHANGED <<linkVars, outbox>>

\* A chat that blocked the bot is disconnected, whoever has it.
Block(d) ==
  /\ drain[d].at = "block"
  /\ linked' = [u \in User |-> linked[u] \ {drain[d].chat}]
  /\ drain' = [drain EXCEPT ![d].at = "skip"]
  /\ UNCHANGED <<enabled, code, scenario, job, outbox, copies, doubt>>

Skip(d) ==
  /\ drain[d].at = "skip"
  /\ outbox' = [outbox EXCEPT ![Row(d).id].status = "skipped"]
  /\ drain' = [drain EXCEPT ![d] = NextRow(d)]
  /\ UNCHANGED <<linkVars, copies, doubt>>

\* Mutant: a failed attempt is not counted.
Counted_Not(seen) == seen

\* One more than the row had when the list was read.
Counted(seen) == seen + 1

Retried(row, seen) ==
  [row EXCEPT !.attempts = Counted(seen), !.due = FALSE,
              !.status = IF Counted(seen) >= MaxAttempts THEN "failed" ELSE "pending"]

\* What becomes of a row by the answer to its message.
Outcome(row, answer, seen) ==
  CASE answer = "ok"        -> [row EXCEPT !.status = "sent"]
    [] answer = "malformed" -> [row EXCEPT !.status = "failed", !.attempts = @ + 1]
    [] OTHER -> Retried(row, seen)

Record(d) ==
  /\ drain[d].at = "record"
  /\ outbox' = [outbox EXCEPT ![Row(d).id] = Outcome(@, drain[d].answer, Row(d).attempts)]
  /\ drain' = [drain EXCEPT ![d] = NextRow(d)]
  /\ UNCHANGED <<linkVars, copies, doubt>>

\* The process ends in the middle of a drain.  Bound: a drain that may crash
\* does so once, and another slot stands for the calls that follow.
Crash(d) ==
  /\ d \in scenario.mortal /\ drain[d].at \notin {"idle", "dead"}
  /\ drain' = [drain EXCEPT ![d] = [Still EXCEPT !.at = "dead"]]
  /\ UNCHANGED <<linkVars, outbox, copies, doubt>>

DrainStep(d) == Claim(d) \/ FindChat(d) \/ Send(d) \/ Block(d) \/ Skip(d) \/ Record(d)

Next ==
  \/ LinkNext /\ UNCHANGED <<outbox, drain, copies, doubt>>
  \/ \E n \in Note : BackoffEnds(n) \/ \E u \in User : Enqueue(n, u)
  \/ \E d \in Drain : StartDrain(d) \/ DrainStep(d) \/ Crash(d)

\* The cron keeps calling, time passes, and every statement and send returns
\* (a send has a timeout of 12 seconds).
Fairness ==
  /\ \A n \in Note : WF_vars(BackoffEnds(n))
  /\ \A d \in Drain : WF_vars(StartDrain(d)) /\ WF_vars(DrainStep(d))

Spec == Init /\ [][Next]_vars /\ Fairness

-----------------------------------------------------------------------------
Phase(n) ==
  CASE outbox[n].status \in {"pending", "sending"}  -> "waiting"
    [] outbox[n].status \in {"skipped", "failed"}   -> "given up"
    [] OTHER -> outbox[n].status

Promise == INSTANCE MessageDelivery WITH phase <- [n \in Note |-> Phase(n)]

(* The outbox keeps the promise of MessageDelivery with drains that        *)
(* overlap and crash: "parallel drains never double-send", a message       *)
(* arrives twice only after an answer was lost, and a row that is settled  *)
(* stays as it is.                                                         *)
DeliversAsPromised == Promise!DeliverySpec

Holds(d, n) == drain[d].at \notin {"idle", "claim", "dead"} /\ Row(d).id = n

\* Claimed by a drain that ended before it recorded the outcome: nothing
\* looks at such a row again.
Orphaned(n) == outbox[n].status = "sending" /\ ~\E d \in Drain : Holds(d, n)

(* Every notification that was written is in the end settled, or left      *)
(* behind by a drain that crashed with it, however often sends fail.       *)
RowsSettle ==
  \A n \in Note :
    outbox[n].status = "pending" ~> Phase(n) \in {"sent", "given up"} \/ Orphaned(n)
=============================================================================
