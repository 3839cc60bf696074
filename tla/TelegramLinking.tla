--------------------------- MODULE TelegramLinking ---------------------------
(***************************************************************************)
(* Linking a chat with the bot to a user (lib/telegram/linking.ts): codes  *)
(* made on the security page, consumed by the webhook when the bot gets    *)
(* them in a chat.                                                         *)
(*                                                                         *)
(* at is what a request does next: a BeginX reads and evaluates guards,    *)
(* and each action that follows is one statement.  The transaction of a    *)
(* consumption is two actions, Take with the row lock of the code and      *)
(* Commit; what it writes is not seen by others before it commits.  A      *)
(* connection that is not active is only history: it is left out, and so   *)
(* are the rate limit on codes and the moment of a connection, by which a  *)
(* user's newest chat would be told from the others.                       *)
(***************************************************************************)
EXTENDS Integers, FiniteSets

CONSTANTS
  Req,        \* request slots of the web application
  User,
  Chat,
  Codes,      \* bound: how many link codes are made
  MaxTries,   \* refused uses that a code survives: 5 in the code
  Scenarios   \* which requests and events may occur together, and what is linked at the start

ASSUME TriesAssumption == MaxTries \in Nat \ {0} /\ Codes \in Nat

\* Exactly one active connection per user and per chat, at most.
Exclusive(connected) ==
  \A u, v \in User, c, d \in Chat :
    c \in connected[u] /\ d \in connected[v] => (u = v <=> c = d)

\* A behaviour starts with exclusive connections.
ASSUME ScenarioAssumption ==
  \A s \in Scenarios : /\ IsFiniteSet(s.slots)
                       /\ s.linked \in [User -> SUBSET Chat] /\ Exclusive(s.linked)

Code == 1 .. Codes

VARIABLES
  enabled,    \* users that are active
  linked,     \* the chats actively connected to each user
  code,       \* the TelegramLinkCode rows
  scenario,   \* chosen at the start
  job         \* what each request does

None == "none"

ASSUME NamesAssumption == None \notin User

NoCode == [user |-> None, used |-> FALSE, expired |-> FALSE, tries |-> 0, chat |-> None]
Idle   == [at |-> "idle", user |-> None, code |-> None, chat |-> None, others |-> {}]

linkRows == <<enabled, linked, code>>
linkVars == <<linkRows, scenario, job>>

LinkInit ==
  /\ scenario \in Scenarios
  /\ enabled = User
  /\ linked = scenario.linked
  /\ code = [k \in Code |-> NoCode]
  /\ job = [r \in Req |-> Idle]

Begin(r, call, j) ==
  /\ call \in scenario.calls /\ r \in scenario.slots /\ job[r] = Idle
  /\ job' = [job EXCEPT ![r] = j]
  /\ UNCHANGED <<linkRows, scenario>>

At(r, step) == job[r].at = step /\ UNCHANGED <<enabled, scenario>>
Goto(r, step) == job' = [job EXCEPT ![r] = IF step = "idle" THEN Idle ELSE [@ EXCEPT !.at = step]]

\* Writers of a row wait for the transaction that holds its lock.
Locked(k) == \E r \in Req : job[r].at = "commit" /\ job[r].code = k

-----------------------------------------------------------------------------
\* createTelegramLinkCode: two statements, with no transaction around them.
BeginCode(r, u) == u \in enabled /\ Begin(r, "code", [Idle EXCEPT !.at = "retire", !.user = u])

Retire(r) ==
  /\ At(r, "retire")
  /\ ~\E k \in Code : code[k].user = job[r].user /\ Locked(k)
  /\ code' = [k \in Code |-> IF code[k].user = job[r].user THEN [code[k] EXCEPT !.used = TRUE]
                             ELSE code[k]]
  /\ Goto(r, "create")
  /\ UNCHANGED linked

Create(r) ==
  /\ At(r, "create")
  /\ LET k == 1 + Cardinality({l \in Code : code[l] # NoCode}) IN
     /\ k <= scenario.codes
     /\ code' = [code EXCEPT ![k].user = job[r].user]
  /\ Goto(r, "idle")
  /\ UNCHANGED linked

-----------------------------------------------------------------------------
Valid(k) == ~code[k].used /\ ~code[k].expired /\ code[k].tries < MaxTries

Owners(c) == {u \in User : c \in linked[u]}

\* consumeLinkCode, up to its transaction: three reads, then a decision.  Of a
\* chat's owners, the third finds any one.
BeginConsume(r, k, c) ==
  /\ code[k] # NoCode
  /\ \E owner \in IF Owners(c) = {} THEN {None} ELSE Owners(c) :
     LET u == code[k].user
         refused == ~Valid(k) \/ u \notin enabled \/ owner \notin {None, u}
     IN /\ ~(refused /\ code[k].used)   \* refused and nothing written
        /\ Begin(r, "start", [Idle EXCEPT !.at = IF refused THEN "refuse" ELSE "take",
                              !.user = u, !.code = k, !.chat = c])

\* Counted up to the limit: beyond it the code stays refused.
Refuse(r) ==
  /\ At(r, "refuse") /\ ~Locked(job[r].code)
  /\ code' = [code EXCEPT ![job[r].code].tries = IF @ < MaxTries THEN @ + 1 ELSE @]
  /\ Goto(r, "idle")
  /\ UNCHANGED linked

\* Mutant: the code is not looked at again inside the transaction.
StillValid_Unchecked(k) == TRUE

StillValid(k) == Valid(k)

\* Mutant: the user's other connections stay active.
Others_Kept(r) == {}

Others(r) == linked[job[r].user] \ {job[r].chat}

\* The compare-and-set on the code; then the user's other active connections,
\* as far as they are committed, are made inactive.
Take(r) ==
  /\ At(r, "take") /\ ~Locked(job[r].code)
  /\ IF StillValid(job[r].code)
     THEN job' = [job EXCEPT ![r].at = "commit", ![r].others = Others(r)]
     ELSE Goto(r, "idle")
  /\ UNCHANGED <<linked, code>>

\* The connection to this chat is created, or made active again.
Commit(r) ==
  /\ At(r, "commit")
  /\ linked' = [linked EXCEPT ![job[r].user] = (@ \ job[r].others) \cup {job[r].chat}]
  /\ code' = [code EXCEPT ![job[r].code].used = TRUE, ![job[r].code].chat = job[r].chat]
  /\ Goto(r, "idle")

\* unlinkTelegramForUser.
Unlink(u) ==
  /\ "unlink" \in scenario.calls /\ u \in enabled /\ linked[u] # {}
  /\ linked' = [linked EXCEPT ![u] = {}]
  /\ UNCHANGED <<enabled, code, scenario, job>>

-----------------------------------------------------------------------------
\* Ten minutes pass.
CodeExpires(k) ==
  /\ "code expires" \in scenario.calls /\ code[k] # NoCode /\ ~code[k].used /\ ~code[k].expired
  /\ code' = [code EXCEPT ![k].expired = TRUE]
  /\ UNCHANGED <<enabled, linked, scenario, job>>

\* An administrator deactivates an account: its connections stay.
Deactivate(u) ==
  /\ "deactivate" \in scenario.calls /\ u \in enabled
  /\ enabled' = enabled \ {u}
  /\ UNCHANGED <<linked, code, scenario, job>>

LinkNext ==
  \/ \E r \in Req : \/ \E u \in User : BeginCode(r, u)
                    \/ \E k \in Code, c \in Chat : BeginConsume(r, k, c)
                    \/ Retire(r) \/ Create(r) \/ Refuse(r) \/ Take(r) \/ Commit(r)
  \/ \E u \in User : Unlink(u) \/ Deactivate(u)
  \/ \E k \in Code : CodeExpires(k)

-----------------------------------------------------------------------------
(* "Exactly one ACTIVE connection per user and per chat": with one request *)
(* at a time a user has at most one chat, and a chat at most one user,     *)
(* however codes, chats and accounts change in between.                    *)
ConnectionsAreExclusive ==
  Cardinality(scenario.slots) = 1 =>
    /\ \A u \in User : Cardinality(linked[u]) <= 1
    /\ \A c \in Chat : Cardinality(Owners(c)) <= 1

(* A chat becomes connected to a user only by a code of that user which    *)
(* was not used before and records that chat: of two uses of one code, in  *)
(* two chats at once, one connects.                                        *)
LinksUseACode ==
  [][\A u \in User, c \in Chat :
       c \in linked'[u] \ linked[u] =>
         \E k \in Code : /\ code[k].user = u /\ ~code[k].used
                         /\ code'[k].used /\ code'[k].chat = c]_linkVars
=============================================================================
