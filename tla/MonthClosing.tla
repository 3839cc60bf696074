---------------------------- MODULE MonthClosing ----------------------------
(***************************************************************************)
(* Closing one month of a company and reopening it under control: the      *)
(* chief accountant closes, asks for a reopening with a reason, an owner   *)
(* approves or rejects it, and the chief accountant executes an approved   *)
(* request (month-close-actions.ts and month-reopen-actions.ts).           *)
(*                                                                         *)
(* As in InvoiceContour a handler reads, decides, and writes at a later    *)
(* await.  The close of the company is a row of MonthClose whose club is   *)
(* null; its unique index does not cover null clubs, so the handler looks  *)
(* for a row and creates one when it finds none.                           *)
(***************************************************************************)
EXTENDS Naturals, FiniteSets

CONSTANTS
  Slot,        \* request slots
  Person,      \* the callers
  ChiefOf,     \* the users who are chief accountants of the company
  OwnerOf,     \* the users who own it
  CloseRow,    \* MonthClose rows the company may have for the month
  RequestId,
  MaxExecuted  \* bound: executions counted per request

NoClose == "no row"
NoUser  == "no user"

ASSUME UsersAssumption == ChiefOf \subseteq Person /\ OwnerOf \subseteq Person
ASSUME NamesAssumption == NoClose \notin CloseRow /\ NoUser \notin Person
ASSUME BoundAssumption == MaxExecuted \in Nat

VARIABLES
  close,     \* the MonthClose rows of the month that exist: open or closed
  reopening, \* the MonthReopenRequest rows that exist, by id
  handler,   \* what each request slot is doing
  executed   \* history: how often each request reopened the month

monthVars == <<close, reopening, handler, executed>>

Reopening == [status : {"pending", "approved", "rejected", "executed"},
              by : Person, reviewer : Person \cup {NoUser}]

Free == [pc |-> "idle", kind |-> "none"]

CloseJob   == [pc : {"write"}, kind : {"close"}, row : CloseRow \cup {NoClose}]
AskJob     == [pc : {"active", "create"}, kind : {"ask"}, by : Person]
ReviewJob  == [pc : {"write"}, kind : {"approve", "reject"}, by : Person, id : RequestId]
ExecuteJob == [pc : {"find", "claim", "commit"}, kind : {"execute"}, id : RequestId,
               row : CloseRow \cup {NoClose}]

Handler == {Free} \cup CloseJob \cup AskJob \cup ReviewJob \cup ExecuteJob

TypeOK ==
  /\ DOMAIN close \subseteq CloseRow /\ close \in [DOMAIN close -> {"open", "closed"}]
  /\ DOMAIN reopening \subseteq RequestId /\ reopening \in [DOMAIN reopening -> Reopening]
  /\ handler \in [Slot -> Handler]
  /\ executed \in [RequestId -> 0 .. MaxExecuted]

MonthInit ==
  /\ close = [w \in {} |-> "open"]
  /\ reopening = [q \in {} |-> Free]
  /\ handler = [r \in Slot |-> Free]
  /\ executed = [q \in RequestId |-> 0]

-----------------------------------------------------------------------------
Extend(f, x, value) == [y \in DOMAIN f \cup {x} |-> IF y = x THEN value ELSE f[y]]

Start(r, j) ==
  /\ handler[r] = Free
  /\ handler' = [handler EXCEPT ![r] = j]
  /\ UNCHANGED <<close, reopening, executed>>

Running(r, kind, pc) == handler[r].kind = kind /\ handler[r].pc = pc

Stop(r) == handler' = [handler EXCEPT ![r] = Free]

IsMonthClosed == \E w \in DOMAIN close : close[w] = "closed"

ActiveRequests == {q \in DOMAIN reopening : reopening[q].status \in {"pending", "approved"}}

\* One of the rows a query without an order may return, or NoClose.
AnyOf(rows) == IF rows = {} THEN {NoClose} ELSE rows

-----------------------------------------------------------------------------
(* closeMonth: find the row, then update it or create one.                 *)

BeginClose(r, u) ==
  /\ u \in ChiefOf
  /\ \E w \in AnyOf(DOMAIN close) : Start(r, [pc |-> "write", kind |-> "close", row |-> w])

WriteClose(r) ==
  /\ Running(r, "close", "write")
  /\ \/ /\ handler[r].row # NoClose
        /\ close' = [close EXCEPT ![handler[r].row] = "closed"]
     \/ /\ handler[r].row = NoClose
        /\ \E w \in CloseRow \ DOMAIN close : close' = Extend(close, w, "closed")
  /\ Stop(r)
  /\ UNCHANGED <<reopening, executed>>

-----------------------------------------------------------------------------
(* requestMonthReopen.                                                     *)

BeginAsk(r, u) ==
  /\ u \in ChiefOf
  /\ IsMonthClosed
  /\ Start(r, [pc |-> "active", kind |-> "ask", by |-> u])

\* At most one active request per month.
FindActive(r) ==
  /\ Running(r, "ask", "active")
  /\ IF ActiveRequests # {}
       THEN Stop(r)
       ELSE handler' = [handler EXCEPT ![r].pc = "create"]
  /\ UNCHANGED <<close, reopening, executed>>

CreateRequest(r) ==
  /\ Running(r, "ask", "create")
  /\ \E q \in RequestId \ DOMAIN reopening :
       reopening' = Extend(reopening, q,
         [status |-> "pending", by |-> handler[r].by, reviewer |-> NoUser])
  /\ Stop(r)
  /\ UNCHANGED <<close, executed>>

-----------------------------------------------------------------------------
(* approveMonthReopen and rejectMonthReopen.                               *)

\* Mutant: an owner may decide on their own request.
BeginReview_OwnRequest(r, u, kind, q) ==
  /\ u \in OwnerOf
  /\ reopening[q].status = "pending"
  /\ Start(r, [pc |-> "write", kind |-> kind, by |-> u, id |-> q])

\* An owner, never the requester, while the request is pending.
BeginReview(r, u, kind, q) ==
  /\ u \in OwnerOf
  /\ reopening[q].status = "pending"
  /\ reopening[q].by # u
  /\ Start(r, [pc |-> "write", kind |-> kind, by |-> u, id |-> q])

\* A plain update by id.
WriteReview(r) ==
  LET j == handler[r] IN
  /\ j.kind \in {"approve", "reject"} /\ j.pc = "write"
  /\ reopening' = [reopening EXCEPT
       ![j.id].status = IF j.kind = "approve" THEN "approved" ELSE "rejected",
       ![j.id].reviewer = j.by]
  /\ Stop(r)
  /\ UNCHANGED <<close, executed>>

-----------------------------------------------------------------------------
(* executeMonthReopen.                                                     *)

BeginExecute(r, u, q) ==
  /\ u \in ChiefOf
  /\ reopening[q].status = "approved"
  /\ Start(r, [pc |-> "find", kind |-> "execute", id |-> q, row |-> NoClose])

\* The transaction looks for a closed row first.
FindClosed(r) ==
  LET closed == {w \in DOMAIN close : close[w] = "closed"} IN
  /\ Running(r, "execute", "find")
  /\ IF closed = {}
       THEN Stop(r)
       ELSE \E w \in closed : handler' = [handler EXCEPT ![r].pc = "claim", ![r].row = w]
  /\ UNCHANGED <<close, reopening, executed>>

\* Another transaction has claimed request q and not committed yet.
RequestInFlight(r, q) ==
  \E p \in Slot \ {r} : Running(p, "execute", "commit") /\ handler[p].id = q

\* Compare-and-set approved -> executed; the row stays locked until the commit.
ClaimRequest(r) ==
  /\ Running(r, "execute", "claim")
  /\ ~RequestInFlight(r, handler[r].id)
  /\ IF reopening[handler[r].id].status = "approved"
       THEN handler' = [handler EXCEPT ![r].pc = "commit"]
       ELSE Stop(r)
  /\ UNCHANGED <<close, reopening, executed>>

\* Mutant: the month is opened, and the request stays approved.
CommitExecute_ForgetsRequest(r) ==
  LET j == handler[r] IN
  /\ Running(r, "execute", "commit")
  /\ close' = [close EXCEPT ![j.row] = "open"]
  /\ executed' = [executed EXCEPT ![j.id] = IF @ < MaxExecuted THEN @ + 1 ELSE @]
  /\ Stop(r)
  /\ UNCHANGED reopening

CommitExecute(r) ==
  LET j == handler[r] IN
  /\ Running(r, "execute", "commit")
  /\ close' = [close EXCEPT ![j.row] = "open"]
  /\ reopening' = [reopening EXCEPT ![j.id].status = "executed"]
  /\ executed' = [executed EXCEPT ![j.id] = IF @ < MaxExecuted THEN @ + 1 ELSE @]
  /\ Stop(r)

-----------------------------------------------------------------------------
\* A request dies; its transaction, if any, is rolled back.
Die(r) ==
  /\ handler[r] # Free
  /\ Stop(r)
  /\ UNCHANGED <<close, reopening, executed>>

Arrive(r) ==
  \E u \in Person :
    \/ BeginClose(r, u)
    \/ BeginAsk(r, u)
    \/ \E q \in DOMAIN reopening :
         \/ BeginReview(r, u, "approve", q) \/ BeginReview(r, u, "reject", q)
         \/ BeginExecute(r, u, q)

\* The review of a request waits for a transaction that has claimed it.
GoOn(r) ==
  \/ WriteClose(r)
  \/ FindActive(r) \/ CreateRequest(r)
  \/ handler[r].kind \in {"approve", "reject"} /\ ~RequestInFlight(r, handler[r].id) /\ WriteReview(r)
  \/ FindClosed(r) \/ ClaimRequest(r) \/ CommitExecute(r)

MonthNext == \E r \in Slot : Arrive(r) \/ GoOn(r) \/ Die(r)

MonthSpec == MonthInit /\ [][MonthNext]_monthVars

-----------------------------------------------------------------------------
(* What holds when requests are handled one at a time.                     *)

\* A request reopens the month at most once, however often the month is closed
\* again ("a request can never be executed twice").
ExecutedOnce == \A q \in RequestId : executed[q] <= 1

-----------------------------------------------------------------------------
(* What holds under every interleaving.                                    *)

\* The month is reopened only by a request that an owner who did not ask for it
\* has approved: nobody reopens a month alone.
ReopeningIsApproved ==
  \A q \in DOMAIN reopening :
    reopening[q].status = "executed" \/ executed[q] > 0 =>
      reopening[q].reviewer \in OwnerOf /\ reopening[q].reviewer # reopening[q].by
=============================================================================
