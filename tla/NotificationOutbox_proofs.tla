---------------------- MODULE NotificationOutbox_proofs ----------------------
(***************************************************************************)
(* Proofs about linking chats and about the outbox: a connection uses up a *)
(* code, connections stay exclusive while requests do not overlap, and the *)
(* outbox implements MessageDelivery, for any number of requests, codes,   *)
(* users, chats, drains and notifications.                                 *)
(***************************************************************************)
EXTENDS NotificationOutbox, FiniteSetTheorems, TLAPS

-----------------------------------------------------------------------------
(* The invariants.                                                         *)

CodeRow == [user : User \cup {None}, used : BOOLEAN, expired : BOOLEAN, tries : Nat,
            chat : Chat \cup {None}]

LinkJob == [at : {"idle", "retire", "create", "refuse", "take", "commit"},
            user : User \cup {None}, code : Code \cup {None}, chat : Chat \cup {None},
            others : SUBSET Chat]

LinkTyped ==
  /\ scenario \in Scenarios
  /\ linked \in [User -> SUBSET Chat]
  /\ code \in [Code -> CodeRow]
  /\ job \in [Req -> LinkJob]

\* Codes are made in the order of their numbers, so the next number is free.
CodesAreInOrder ==
  \A k, l \in Code : l <= k /\ code[k] # NoCode => code[l] # NoCode

\* A code that was made is of a user.
CodesHaveUsers == \A k \in Code : code[k] # NoCode => code[k].user \in User

\* A request under way is for a user, and a consumption for a code of that user.
JobIsGrounded(j) ==
  /\ j.at # "idle" => j.user \in User
  /\ j.at \in {"refuse", "take", "commit"} =>
       j.code \in Code /\ j.chat \in Chat /\ code[j.code].user = j.user

JobsAreGrounded == \A r \in Req : JobIsGrounded(job[r])

\* The code that a consumption holds is unused and held by no other.
CodesAreHeldOnce ==
  \A r \in Req : job[r].at = "commit" =>
    /\ ~code[job[r].code].used
    /\ \A s \in Req : job[s].at = "commit" /\ job[s].code = job[r].code => s = r

LinkInv ==
  LinkTyped /\ CodesAreInOrder /\ CodesHaveUsers /\ JobsAreGrounded /\ CodesAreHeldOnce

\* What the only request in flight has read of the connections is still so.
SerialInv ==
  Cardinality(scenario.slots) = 1 =>
    /\ Exclusive(linked)
    /\ \A r \in Req :
         /\ job[r] # Idle => r \in scenario.slots
         /\ job[r].at \in {"take", "commit"} => Owners(job[r].chat) \subseteq {job[r].user}
         /\ job[r].at = "commit" => linked[job[r].user] \subseteq job[r].others \cup {job[r].chat}

RowShape(row) ==
  /\ row = [status |-> row.status, to |-> row.to, attempts |-> row.attempts, due |-> row.due]
  /\ row.status \in {"none", "pending", "sending", "sent", "skipped", "failed"}

DrainShape(j) ==
  /\ j = [at |-> j.at, list |-> j.list, chat |-> j.chat, answer |-> j.answer]
  /\ j.at \in {"idle", "claim", "chat", "send", "block", "skip", "record", "dead"}

OutboxTyped ==
  /\ outbox = [n \in Note |-> outbox[n]]
  /\ \A n \in Note : RowShape(outbox[n])
  /\ drain = [d \in Drain |-> drain[d]]
  /\ \A d \in Drain : DrainShape(drain[d])
  /\ copies \in [Note -> Nat] /\ doubt \in [Note -> Nat]

RowsAreInOrder ==
  \A m, n \in Note : m <= n /\ outbox[n] # NoRow => outbox[m] # NoRow

\* A row that a drain has claimed is marked as such, and claimed by no other.
RowsAreHeldOnce ==
  \A d \in Drain, n \in Note : Holds(d, n) =>
    /\ outbox[n].status = "sending"
    /\ \A e \in Drain : Holds(e, n) => e = d

\* Before a row is sent, the answer to each of its arrivals was lost; an answer that
\* is to be recorded as ok follows an arrival.
ArrivalsAreAnswered ==
  \A n \in Note :
    /\ outbox[n].status \in {"none", "pending"} => copies[n] <= doubt[n]
    /\ \A d \in Drain : Holds(d, n) =>
         IF drain[d].at = "record" /\ drain[d].answer = "ok" THEN copies[n] > 0
         ELSE copies[n] <= doubt[n]

OutboxInv == OutboxTyped /\ RowsAreInOrder /\ RowsAreHeldOnce /\ ArrivalsAreAnswered

-----------------------------------------------------------------------------
(* Numbers that are given out in order.                                    *)

\* The rows numbered so far are an initial segment, so that one more than their count
\* is a number that is free, and all below it are taken: this is what the models use
\* for the ids that the database makes.
LEMMA NextIsFree ==
  ASSUME NEW n \in Nat, NEW S \in SUBSET (1 .. n),
         \A k \in S : \A l \in 1 .. n : l <= k => l \in S
  PROVE  /\ Cardinality(S) \in Nat
         /\ 1 + Cardinality(S) \notin S
         /\ \A l \in 1 .. n : l <= Cardinality(S) => l \in S
<1>1. IsFiniteSet(S) /\ Cardinality(S) \in Nat
  <2>1. IsFiniteSet(1 .. n)
    BY FS_Interval
  <2> QED
    BY <2>1, FS_Subset, FS_CardinalityType
<1>2. 1 + Cardinality(S) \notin S
  <2>1. SUFFICES ASSUME 1 + Cardinality(S) \in S
                 PROVE  FALSE
    OBVIOUS
  <2>2. 1 .. (1 + Cardinality(S)) \subseteq S
    BY <1>1, <2>1
  <2>3. Cardinality(1 .. (1 + Cardinality(S))) = 1 + Cardinality(S)
    BY <1>1, FS_Interval
  <2>4. Cardinality(1 .. (1 + Cardinality(S))) <= Cardinality(S)
    BY <1>1, <2>2, FS_Subset
  <2> QED
    BY <1>1, <2>3, <2>4
<1>3. ASSUME NEW l \in 1 .. n, l <= Cardinality(S), l \notin S
      PROVE  FALSE
  <2>1. S \subseteq 1 .. (l - 1)
    BY <1>3
  <2>2. IsFiniteSet(1 .. (l - 1)) /\ Cardinality(1 .. (l - 1)) = l - 1
    BY FS_Interval
  <2>3. Cardinality(S) <= Cardinality(1 .. (l - 1))
    BY <2>1, <2>2, FS_Subset
  <2> QED
    BY <1>1, <1>3, <2>2, <2>3
<1> QED
  BY <1>1, <1>2, <1>3

\* A set in which any two members are equal has at most one.
LEMMA AtMostOne ==
  ASSUME NEW S, \A x, y \in S : x = y
  PROVE  Cardinality(S) <= 1
<1>1. CASE S = {}
  BY <1>1, FS_EmptySet
<1>2. CASE S # {}
  <2>1. PICK x \in S : TRUE
    BY <1>2
  <2>2. S = {x}
    BY <2>1
  <2>3. Cardinality({x}) = 1
    BY FS_Singleton
  <2> QED
    BY <2>2, <2>3
<1> QED
  BY <1>1, <1>2

-----------------------------------------------------------------------------
(* Linking.                                                                *)

\* The initial state: nobody asks for anything.
LEMMA LinkInvInit == LinkInit => LinkInv /\ SerialInv
<1> SUFFICES ASSUME LinkInit PROVE LinkInv /\ SerialInv
  OBVIOUS
<1> USE DEF LinkInit, Idle, NoCode
<1>1. LinkTyped
  BY ScenarioAssumption DEF LinkTyped, LinkJob, CodeRow
<1>2. CodesAreInOrder /\ CodesHaveUsers /\ JobsAreGrounded /\ CodesAreHeldOnce
  BY DEF CodesAreInOrder, CodesHaveUsers, JobsAreGrounded, JobIsGrounded, CodesAreHeldOnce
<1>3. SerialInv
  BY ScenarioAssumption DEF SerialInv
<1> QED
  BY <1>1, <1>2, <1>3 DEF LinkInv

\* The rows that are codes are those of a user.
LEMMA MadeCodes ==
  ASSUME LinkInv
  PROVE  \A k \in Code : code[k] # NoCode <=> code[k].user \in User
<1>1. NoCode.user \notin User
  BY NamesAssumption DEF NoCode
<1> QED
  BY <1>1 DEF LinkInv, CodesHaveUsers

\* One job changes, into one that is typed, grounded and does not hold a code, and no
\* code changes: what most steps of a request amount to.
LEMMA JobStepKeeps ==
  ASSUME LinkInv, NEW r \in Req, NEW j \in LinkJob,
         job' = [job EXCEPT ![r] = j], JobIsGrounded(j), j.at # "commit",
         UNCHANGED <<linkRows, scenario>>
  PROVE  LinkInv'
<1> USE DEF LinkInv, LinkTyped, linkRows
<1>1. LinkTyped'
  OBVIOUS
<1>2. CodesAreInOrder' /\ CodesHaveUsers'
  BY DEF CodesAreInOrder, CodesHaveUsers
<1>3. JobsAreGrounded'
  BY DEF JobsAreGrounded, JobIsGrounded
<1>4. CodesAreHeldOnce'
  BY DEF CodesAreHeldOnce
<1> QED
  BY <1>1, <1>2, <1>3, <1>4

\* The rows of codes change, but no code loses its user or, while it is held, becomes
\* used; and a job ends or goes on without holding a code.
LEMMA CodeStepKeeps ==
  ASSUME LinkInv, NEW r \in Req, NEW j \in LinkJob,
         job' = [job EXCEPT ![r] = j], JobIsGrounded(j), j.at \in {"idle", "create"},
         scenario' = scenario, linked' \in [User -> SUBSET Chat],
         code' \in [Code -> CodeRow], CodesAreInOrder', CodesHaveUsers',
         \A k \in Code : code[k].user \in User => code'[k].user = code[k].user,
         \A s \in Req : s # r /\ job[s].at = "commit" => ~code'[job[s].code].used
  PROVE  LinkInv'
<1> USE DEF LinkInv, LinkTyped
<1>1. LinkTyped'
  OBVIOUS
<1>2. JobsAreGrounded'
  BY DEF JobsAreGrounded, JobIsGrounded
<1>3. CodesAreHeldOnce'
  BY DEF CodesAreHeldOnce
<1> QED
  BY <1>1, <1>2, <1>3

\* The job that a request has after its last statement.
LEMMA IdleIsGrounded == Idle \in LinkJob /\ JobIsGrounded(Idle)
BY DEF Idle, LinkJob, JobIsGrounded

LEMMA BeginCodeKeeps ==
  ASSUME LinkInv, NEW r \in Req, NEW u \in User, BeginCode(r, u)
  PROVE  LinkInv'
<1> DEFINE j == [Idle EXCEPT !.at = "retire", !.user = u]
<1>1. j \in LinkJob /\ JobIsGrounded(j) /\ j.at = "retire"
  BY DEF Idle, LinkJob, JobIsGrounded
<1>2. job' = [job EXCEPT ![r] = j] /\ UNCHANGED <<linkRows, scenario>>
  BY DEF BeginCode, Begin
<1> QED
  BY <1>1, <1>2, JobStepKeeps

LEMMA BeginConsumeKeeps ==
  ASSUME LinkInv, NEW r \in Req, NEW k \in Code, NEW c \in Chat, BeginConsume(r, k, c)
  PROVE  LinkInv'
<1>1. code[k].user \in User
  BY DEF BeginConsume, LinkInv, CodesHaveUsers
<1>2. PICK at \in {"refuse", "take"} :
        Begin(r, "start", [Idle EXCEPT !.at = at, !.user = code[k].user, !.code = k, !.chat = c])
  BY DEF BeginConsume
<1> DEFINE j == [Idle EXCEPT !.at = at, !.user = code[k].user, !.code = k, !.chat = c]
<1>3. j \in LinkJob /\ JobIsGrounded(j) /\ j.at # "commit"
  BY <1>1 DEF Idle, LinkJob, JobIsGrounded
<1>4. job' = [job EXCEPT ![r] = j] /\ UNCHANGED <<linkRows, scenario>>
  BY <1>2 DEF Begin
<1> QED
  BY <1>3, <1>4, JobStepKeeps

\* Codes change, but none that exists changes its user, and none comes to exist.
LEMMA UsersKept ==
  ASSUME LinkInv, code' \in [Code -> CodeRow],
         \A k \in Code : code'[k] = code[k] \/ (code[k].user \in User /\ code'[k].user = code[k].user)
  PROVE  CodesAreInOrder' /\ CodesHaveUsers'
<1>1. \A k \in Code : code[k] # NoCode <=> code[k].user \in User
  BY MadeCodes
<1>2. \A k \in Code : code'[k] # NoCode <=> code'[k].user \in User
  BY <1>1, NamesAssumption DEF NoCode
<1>3. \A k \in Code : code'[k] # NoCode <=> code[k] # NoCode
  BY <1>1, <1>2
<1> QED
  BY <1>2, <1>3 DEF LinkInv, CodesAreInOrder, CodesHaveUsers

\* A code that a consumption holds is not one of those that are retired, since it would
\* be locked.
LEMMA RetireKeeps ==
  ASSUME LinkInv, NEW r \in Req, Retire(r)
  PROVE  LinkInv'
<1> DEFINE j == [job[r] EXCEPT !.at = "create"]
<1>1. job[r] \in LinkJob /\ job[r].at = "retire" /\ job[r].user \in User
  BY DEF LinkInv, LinkTyped, JobsAreGrounded, JobIsGrounded, Retire, At
<1>2. j \in LinkJob /\ JobIsGrounded(j) /\ j.at = "create"
  BY <1>1 DEF LinkJob, JobIsGrounded
<1>3. job' = [job EXCEPT ![r] = j] /\ UNCHANGED <<scenario, linked>>
  BY DEF Retire, At, Goto
<1>4. \A k \in Code : code[k] \in CodeRow
  BY DEF LinkInv, LinkTyped
<1>5. /\ code' \in [Code -> CodeRow]
      /\ \A k \in Code : code'[k] = code[k] \/ (code[k].user \in User /\ code'[k].user = code[k].user)
  BY <1>1, <1>4 DEF Retire, CodeRow
<1>6. ASSUME NEW s \in Req, job[s].at = "commit"
      PROVE  ~code'[job[s].code].used
  <2>1. job[s].code \in Code /\ ~code[job[s].code].used
    BY <1>6 DEF LinkInv, JobsAreGrounded, JobIsGrounded, CodesAreHeldOnce
  <2>2. code[job[s].code].user # job[r].user
    BY <1>6, <2>1 DEF Retire, Locked
  <2> QED
    BY <2>1, <2>2 DEF Retire
<1>7. CodesAreInOrder' /\ CodesHaveUsers'
  BY <1>5, UsersKept
<1>8. linked' \in [User -> SUBSET Chat]
  BY <1>3 DEF LinkInv, LinkTyped
<1> HIDE DEF j
<1> QED
  BY <1>2, <1>3, <1>5, <1>6, <1>7, <1>8, CodeStepKeeps

\* The number of the code that Create makes is free.
LEMMA NextCode ==
  ASSUME LinkInv
  PROVE  LET S == {l \in Code : code[l] # NoCode} IN
         /\ Cardinality(S) \in Nat
         /\ 1 + Cardinality(S) \notin S
         /\ \A l \in Code : l <= Cardinality(S) => l \in S
<1> DEFINE S == {l \in Code : code[l] # NoCode}
<1>1. Codes \in Nat /\ S \in SUBSET (1 .. Codes)
  BY TriesAssumption DEF Code
<1>2. \A k \in S : \A l \in 1 .. Codes : l <= k => l \in S
  BY DEF LinkInv, CodesAreInOrder, Code
<1> HIDE DEF S
<1>3. /\ Cardinality(S) \in Nat
      /\ 1 + Cardinality(S) \notin S
      /\ \A l \in 1 .. Codes : l <= Cardinality(S) => l \in S
  BY <1>1, <1>2, NextIsFree
<1> QED
  BY <1>3 DEF S, Code

LEMMA CreateKeeps ==
  ASSUME LinkInv, NEW r \in Req, Create(r)
  PROVE  LinkInv'
<1> DEFINE S == {l \in Code : code[l] # NoCode}
           next == 1 + Cardinality(S)
<1>1. job[r] \in LinkJob /\ job[r].at = "create" /\ job[r].user \in User
  BY DEF LinkInv, LinkTyped, JobsAreGrounded, JobIsGrounded, Create, At
<1>2. job' = [job EXCEPT ![r] = Idle] /\ UNCHANGED <<scenario, linked>>
  BY DEF Create, At, Goto
<1>3. code' = [code EXCEPT ![next].user = job[r].user]
  BY DEF Create
<1>4. Cardinality(S) \in Nat /\ next \notin S /\ \A l \in Code : l <= Cardinality(S) => l \in S
  BY NextCode
<1> HIDE DEF next
<1>5. /\ code \in [Code -> CodeRow] /\ code' \in [Code -> CodeRow]
      /\ \A k \in Code : code'[k] = IF k = next THEN [code[k] EXCEPT !.user = job[r].user] ELSE code[k]
  BY <1>1, <1>3 DEF LinkInv, LinkTyped, CodeRow
<1>6. \A k \in Code : code[k] # NoCode <=> code[k].user \in User
  BY MadeCodes
<1>7. \A k \in Code : code'[k] # NoCode <=> k = next \/ code[k] # NoCode
  BY <1>1, <1>5, NamesAssumption DEF NoCode, CodeRow
<1>8. CodesAreInOrder'
  <2>1. SUFFICES ASSUME NEW k \in Code, NEW l \in Code, l <= k, code'[k] # NoCode
                 PROVE  code'[l] # NoCode
    BY DEF CodesAreInOrder
  <2>2. k \in Int /\ l \in Int
    BY TriesAssumption DEF Code
  <2>3. CASE k = next
    BY <1>4, <1>7, <2>1, <2>2, <2>3 DEF next
  <2>4. CASE code[k] # NoCode
    BY <1>7, <2>1, <2>4 DEF LinkInv, CodesAreInOrder
  <2> QED
    BY <1>7, <2>1, <2>3, <2>4
<1>9. CodesHaveUsers'
  BY <1>1, <1>5, <1>6, <1>7 DEF CodesHaveUsers, CodeRow
<1>10. \A k \in Code : code[k].user \in User => code'[k] = code[k]
  BY <1>4, <1>5, <1>6
<1>11. \A s \in Req : s # r /\ job[s].at = "commit" => ~code'[job[s].code].used
  BY <1>10 DEF LinkInv, LinkTyped, JobsAreGrounded, JobIsGrounded, CodesAreHeldOnce
<1>12. linked' \in [User -> SUBSET Chat]
  BY <1>2 DEF LinkInv, LinkTyped
<1>13. Idle.at = "idle"
  BY DEF Idle
<1> QED
  BY <1>2, <1>5, <1>8, <1>9, <1>10, <1>11, <1>12, <1>13, IdleIsGrounded, CodeStepKeeps

LEMMA RefuseKeeps ==
  ASSUME LinkInv, NEW r \in Req, Refuse(r)
  PROVE  LinkInv'
<1>1. job[r].code \in Code /\ code[job[r].code].user \in User
  BY DEF LinkInv, JobsAreGrounded, JobIsGrounded, Refuse, At
<1>2. PICK k : k = job[r].code
  OBVIOUS
<1>3. job' = [job EXCEPT ![r] = Idle] /\ UNCHANGED <<scenario, linked>>
  BY DEF Refuse, At, Goto
<1>4. \A l \in Code : code[l] \in CodeRow
  BY DEF LinkInv, LinkTyped
<1>5. /\ code' \in [Code -> CodeRow]
      /\ \A l \in Code : code'[l] = code[l] \/ (code[l].user \in User /\ code'[l].user = code[l].user)
      /\ \A l \in Code : code'[l].used = code[l].used
  <2>1. code' = [code EXCEPT ![k].tries = IF @ < MaxTries THEN @ + 1 ELSE @]
    BY <1>2 DEF Refuse
  <2>2. (IF code[k].tries < MaxTries THEN code[k].tries + 1 ELSE code[k].tries) \in Nat
    BY <1>1, <1>2, <1>4 DEF CodeRow
  <2> QED
    BY <1>1, <1>2, <1>4, <2>1, <2>2 DEF LinkInv, LinkTyped, CodeRow
<1>6. CodesAreInOrder' /\ CodesHaveUsers'
  BY <1>5, UsersKept
<1>7. \A s \in Req : s # r /\ job[s].at = "commit" => ~code'[job[s].code].used
  BY <1>5 DEF LinkInv, JobsAreGrounded, JobIsGrounded, CodesAreHeldOnce
<1>8. linked' \in [User -> SUBSET Chat]
  BY <1>3 DEF LinkInv, LinkTyped
<1>9. Idle.at = "idle"
  BY DEF Idle
<1> QED
  BY <1>3, <1>5, <1>6, <1>7, <1>8, <1>9, IdleIsGrounded, CodeStepKeeps

\* The compare-and-set waits for the code's lock and sees it unused.
LEMMA TakeKeeps ==
  ASSUME LinkInv, NEW r \in Req, Take(r)
  PROVE  LinkInv'
<1>1. UNCHANGED <<linkRows, scenario>> /\ job[r].at = "take"
  BY DEF Take, At, linkRows
<1>2. CASE job' = [job EXCEPT ![r] = Idle]
  BY <1>1, <1>2, IdleIsGrounded, JobStepKeeps DEF Idle
<1>3. CASE ~code[job[r].code].used /\ job' = [job EXCEPT ![r].at = "commit", ![r].others = Others(r)]
  <2>1. job[r] \in LinkJob /\ JobIsGrounded(job[r])
    BY DEF LinkInv, LinkTyped, JobsAreGrounded
  <2>2. Others(r) \in SUBSET Chat
    BY <1>1, <2>1 DEF Others, LinkInv, LinkTyped, JobIsGrounded
  <2>3. PICK j : j = [job[r] EXCEPT !.at = "commit", !.others = Others(r)]
    OBVIOUS
  <2>4. j \in LinkJob /\ JobIsGrounded(j) /\ j.at = "commit" /\ j.code = job[r].code
    BY <1>1, <2>1, <2>2, <2>3 DEF LinkJob, JobIsGrounded
  <2>5. job' = [job EXCEPT ![r] = j]
    BY <1>3, <2>3 DEF LinkInv, LinkTyped
  <2>6. \A s \in Req : job[s].at = "commit" => job[s].code # j.code
    BY <2>4 DEF Take, Locked
  <2>7. /\ job \in [Req -> LinkJob] /\ job' \in [Req -> LinkJob]
        /\ \A s \in Req : job'[s] = IF s = r THEN j ELSE job[s]
    BY <2>4, <2>5 DEF LinkInv, LinkTyped
  <2>8. LinkTyped' /\ CodesAreInOrder' /\ CodesHaveUsers'
    BY <1>1, <2>7 DEF LinkInv, LinkTyped, linkRows, CodesAreInOrder, CodesHaveUsers
  <2>9. JobsAreGrounded'
    BY <1>1, <2>4, <2>7 DEF LinkInv, linkRows, JobsAreGrounded, JobIsGrounded
  <2>10. CodesAreHeldOnce'
    BY <1>1, <1>3, <2>4, <2>6, <2>7 DEF LinkInv, linkRows, CodesAreHeldOnce
  <2> QED
    BY <2>8, <2>9, <2>10 DEF LinkInv
<1> QED
  BY <1>2, <1>3 DEF Take, Goto, StillValid, Valid

LEMMA CommitKeeps ==
  ASSUME LinkInv, NEW r \in Req, Commit(r)
  PROVE  LinkInv'
<1>1. job[r] \in LinkJob /\ job[r].at = "commit"
  BY DEF LinkInv, LinkTyped, Commit, At
<1>2. /\ job[r].code \in Code /\ job[r].chat \in Chat /\ job[r].user \in User
      /\ code[job[r].code].user = job[r].user
  BY <1>1 DEF LinkInv, JobsAreGrounded, JobIsGrounded
<1>3. PICK k, c, u : k = job[r].code /\ c = job[r].chat /\ u = job[r].user
  OBVIOUS
<1>4. job' = [job EXCEPT ![r] = Idle] /\ scenario' = scenario
  BY DEF Commit, At, Goto
<1>5. linked' \in [User -> SUBSET Chat]
  BY <1>2 DEF LinkInv, LinkTyped, Commit
<1>6. \A l \in Code : code[l] \in CodeRow
  BY DEF LinkInv, LinkTyped
<1>7. /\ code' \in [Code -> CodeRow]
      /\ \A l \in Code : code'[l] = code[l] \/ (code[l].user \in User /\ code'[l].user = code[l].user)
      /\ \A l \in Code : l # k => code'[l] = code[l]
  <2>1. code' = [code EXCEPT ![k] = [code[k] EXCEPT !.used = TRUE, !.chat = c]]
    BY <1>2, <1>3 DEF Commit, LinkInv, LinkTyped
  <2>2. [code[k] EXCEPT !.used = TRUE, !.chat = c] \in CodeRow
    BY <1>2, <1>3, <1>6 DEF CodeRow
  <2> QED
    BY <1>2, <1>3, <1>6, <2>1, <2>2 DEF LinkInv, LinkTyped, CodeRow
<1>8. CodesAreInOrder' /\ CodesHaveUsers'
  BY <1>7, UsersKept
<1>9. \A s \in Req : s # r /\ job[s].at = "commit" => ~code'[job[s].code].used
  BY <1>1, <1>3, <1>7 DEF LinkInv, JobsAreGrounded, JobIsGrounded, CodesAreHeldOnce
<1>10. Idle.at = "idle"
  BY DEF Idle
<1> QED
  BY <1>4, <1>5, <1>7, <1>8, <1>9, <1>10, IdleIsGrounded, CodeStepKeeps

\* No job and no code changes: what people do on the security page, what an
\* administrator does, and a chat that blocks the bot.
LEMMA ConnectionsStepKeeps ==
  ASSUME LinkInv, linked' \in [User -> SUBSET Chat], UNCHANGED <<code, scenario, job>>
  PROVE  LinkInv'
<1> USE DEF LinkInv
<1>1. LinkTyped'
  BY DEF LinkTyped
<1>2. CodesAreInOrder' /\ CodesHaveUsers' /\ JobsAreGrounded' /\ CodesAreHeldOnce'
  BY DEF CodesAreInOrder, CodesHaveUsers, JobsAreGrounded, JobIsGrounded, CodesAreHeldOnce
<1> QED
  BY <1>1, <1>2

LEMMA CodeExpiresKeeps ==
  ASSUME LinkInv, NEW k \in Code, CodeExpires(k)
  PROVE  LinkInv'
<1>1. code \in [Code -> CodeRow] /\ code[k].user \in User
  BY DEF CodeExpires, LinkInv, LinkTyped, CodesHaveUsers
<1>2. /\ code' \in [Code -> CodeRow]
      /\ \A l \in Code : code'[l] = code[l] \/ (code[l].user \in User /\ code'[l].user = code[l].user)
      /\ \A l \in Code : code'[l].used = code[l].used /\ code'[l].user = code[l].user
  BY <1>1 DEF CodeExpires, CodeRow
<1>3. CodesAreInOrder' /\ CodesHaveUsers'
  BY <1>2, UsersKept
<1>4. LinkTyped'
  BY <1>2 DEF LinkInv, LinkTyped, CodeExpires
<1>5. JobsAreGrounded' /\ CodesAreHeldOnce'
  BY <1>2 DEF LinkInv, CodeExpires, JobsAreGrounded, JobIsGrounded, CodesAreHeldOnce
<1> QED
  BY <1>3, <1>4, <1>5 DEF LinkInv

\* Every step of linking, a drain that disconnects a chat, and every other step of a
\* drain keep the invariant of linking.
LEMMA LinkInvStep == LinkInv /\ [Next]_vars => LinkInv'
<1> SUFFICES ASSUME LinkInv, [Next]_vars PROVE LinkInv'
  OBVIOUS
<1>1. ASSUME NEW r \in Req, NEW u \in User, BeginCode(r, u) PROVE LinkInv'
  BY <1>1, BeginCodeKeeps
<1>2. ASSUME NEW r \in Req, NEW k \in Code, NEW c \in Chat, BeginConsume(r, k, c) PROVE LinkInv'
  BY <1>2, BeginConsumeKeeps
<1>3. ASSUME NEW r \in Req, Retire(r) PROVE LinkInv'
  BY <1>3, RetireKeeps
<1>4. ASSUME NEW r \in Req, Create(r) PROVE LinkInv'
  BY <1>4, CreateKeeps
<1>5. ASSUME NEW r \in Req, Refuse(r) PROVE LinkInv'
  BY <1>5, RefuseKeeps
<1>6. ASSUME NEW r \in Req, Take(r) PROVE LinkInv'
  BY <1>6, TakeKeeps
<1>7. ASSUME NEW r \in Req, Commit(r) PROVE LinkInv'
  BY <1>7, CommitKeeps
<1>8. ASSUME NEW u \in User, Unlink(u) \/ Deactivate(u) PROVE LinkInv'
  <2>1. linked' \in [User -> SUBSET Chat] /\ UNCHANGED <<code, scenario, job>>
    BY <1>8 DEF Unlink, Deactivate, LinkInv, LinkTyped
  <2> QED
    BY <2>1, ConnectionsStepKeeps
<1>9. ASSUME NEW k \in Code, CodeExpires(k) PROVE LinkInv'
  BY <1>9, CodeExpiresKeeps
<1>10. ASSUME NEW d \in Drain, Block(d) PROVE LinkInv'
  <2>1. linked' \in [User -> SUBSET Chat] /\ UNCHANGED <<code, scenario, job>>
    BY <1>10 DEF Block, LinkInv, LinkTyped
  <2> QED
    BY <2>1, ConnectionsStepKeeps
<1>11. CASE UNCHANGED linkVars
  <2>1. linked' \in [User -> SUBSET Chat] /\ UNCHANGED <<code, scenario, job>>
    BY <1>11 DEF linkVars, linkRows, LinkInv, LinkTyped
  <2> QED
    BY <2>1, ConnectionsStepKeeps
<1> QED
  BY <1>1, <1>2, <1>3, <1>4, <1>5, <1>6, <1>7, <1>8, <1>9, <1>10, <1>11
     DEF Next, LinkNext, vars, BackoffEnds, Enqueue, StartDrain, DrainStep, Claim, FindChat, Send,
         Skip, Record, Crash

-----------------------------------------------------------------------------
(* A connection uses up a code.                                            *)

\* Only the commit of a consumption connects a chat; every other step of any part
\* leaves each user's chats as they are, or fewer.
LEMMA OnlyCommitConnects ==
  ASSUME LinkInv, [Next]_vars
  PROVE  \/ \E r \in Req : Commit(r)
         \/ \A u \in User : linked'[u] \subseteq linked[u]
<1>1. linked \in [User -> SUBSET Chat]
  BY DEF LinkInv, LinkTyped
<1>2. ASSUME NEW r \in Req, NEW u \in User, BeginCode(r, u) PROVE linked' = linked
  BY <1>2 DEF BeginCode, Begin, linkRows
<1>3. ASSUME NEW r \in Req, NEW k \in Code, NEW c \in Chat, BeginConsume(r, k, c) PROVE linked' = linked
  BY <1>3 DEF BeginConsume, Begin, linkRows
<1>4. ASSUME NEW r \in Req, Retire(r) \/ Create(r) \/ Refuse(r) \/ Take(r) PROVE linked' = linked
  BY <1>4 DEF Retire, Create, Refuse, Take
<1>5. ASSUME NEW u \in User, Unlink(u) \/ Deactivate(u)
      PROVE  \A v \in User : linked'[v] \subseteq linked[v]
  BY <1>1, <1>5 DEF Unlink, Deactivate
<1>6. ASSUME NEW k \in Code, CodeExpires(k) PROVE linked' = linked
  BY <1>6 DEF CodeExpires
<1>7. ASSUME NEW d \in Drain, Block(d)
      PROVE  \A v \in User : linked'[v] \subseteq linked[v]
  BY <1>1, <1>7 DEF Block
<1>8. CASE UNCHANGED linkVars
  BY <1>8 DEF linkVars, linkRows
<1> QED
  BY <1>2, <1>3, <1>4, <1>5, <1>6, <1>7, <1>8
     DEF Next, LinkNext, vars, BackoffEnds, Enqueue, StartDrain, DrainStep, Claim, FindChat, Send,
         Skip, Record, Crash

\* A chat becomes connected to a user only by a code of that user which was not used
\* before and records that chat (consumeLinkCode): whatever happened between the reads
\* and the transaction, its compare-and-set found the code unused, and the lock of the
\* code's row keeps it so until the connection is written.
THEOREM LinksByCode == Spec => LinksUseACode
<1>1. Init => LinkInv
  BY LinkInvInit DEF Init
<1>2. LinkInv /\ [Next]_vars =>
        [\A u \in User, c \in Chat :
           c \in linked'[u] \ linked[u] =>
             \E k \in Code : /\ code[k].user = u /\ ~code[k].used
                             /\ code'[k].used /\ code'[k].chat = c]_linkVars
  <2>1. SUFFICES ASSUME LinkInv, [Next]_vars, NEW u \in User, NEW c \in Chat,
                        c \in linked'[u], c \notin linked[u]
                 PROVE  \E k \in Code : /\ code[k].user = u /\ ~code[k].used
                                        /\ code'[k].used /\ code'[k].chat = c
    OBVIOUS
  <2>2. PICK r \in Req : Commit(r)
    BY <2>1, OnlyCommitConnects
  <2>3. job[r].at = "commit" /\ linked \in [User -> SUBSET Chat] /\ code \in [Code -> CodeRow]
    BY <2>1, <2>2 DEF Commit, At, LinkInv, LinkTyped
  <2>4. /\ job[r].code \in Code /\ code[job[r].code].user = job[r].user
        /\ ~code[job[r].code].used
    BY <2>1, <2>3 DEF LinkInv, JobsAreGrounded, JobIsGrounded, CodesAreHeldOnce
  <2>5. u = job[r].user /\ c = job[r].chat
    BY <2>1, <2>2, <2>3 DEF Commit
  <2>6. code'[job[r].code].used /\ code'[job[r].code].chat = job[r].chat
    BY <2>2, <2>3, <2>4 DEF Commit, CodeRow
  <2> QED
    BY <2>4, <2>5, <2>6
<1> QED
  BY <1>1, <1>2, LinkInvStep, PTL DEF Spec, LinksUseACode

-----------------------------------------------------------------------------
(* Connections are exclusive while requests do not overlap.                *)

\* Fewer connections, and nothing else of linking.
LEMMA FewerStaySerial ==
  ASSUME LinkInv, SerialInv, linked' \in [User -> SUBSET Chat],
         \A u \in User : linked'[u] \subseteq linked[u], UNCHANGED <<scenario, job>>
  PROVE  SerialInv'
BY DEF SerialInv, Exclusive, Owners, LinkInv, LinkTyped, JobsAreGrounded, JobIsGrounded

\* A request of the only slot goes on, with the same connections, and without having
\* read any, or with what it has read just now.
LEMMA RequestStaysSerial ==
  ASSUME LinkInv, SerialInv, NEW r \in Req, NEW j \in LinkJob, r \in scenario.slots,
         job' = [job EXCEPT ![r] = j], UNCHANGED <<scenario, linked>>,
         Cardinality(scenario.slots) = 1 =>
           /\ j.at \in {"take", "commit"} => Owners(j.chat) \subseteq {j.user}
           /\ j.at = "commit" => linked[j.user] \subseteq j.others \cup {j.chat}
  PROVE  SerialInv'
<1>1. /\ job \in [Req -> LinkJob] /\ job' \in [Req -> LinkJob]
      /\ \A s \in Req : job'[s] = IF s = r THEN j ELSE job[s]
  BY DEF LinkInv, LinkTyped
<1>2. \A c : Owners(c)' = Owners(c)
  BY DEF Owners
<1> QED
  BY <1>1, <1>2 DEF SerialInv

\* The guard on the chat's owner finds any one of them; as there is at most one, it
\* has found them all.
LEMMA ConsumptionStaysSerial ==
  ASSUME LinkInv, SerialInv, NEW r \in Req, NEW k \in Code, NEW c \in Chat, BeginConsume(r, k, c)
  PROVE  SerialInv'
<1>1. code[k].user \in User
  BY DEF BeginConsume, LinkInv, CodesHaveUsers
<1>2. PICK at \in {"refuse", "take"} :
        /\ Begin(r, "start", [Idle EXCEPT !.at = at, !.user = code[k].user, !.code = k, !.chat = c])
        /\ at = "take" =>
             \E owner \in IF Owners(c) = {} THEN {None} ELSE Owners(c) : owner \in {None, code[k].user}
  BY DEF BeginConsume
<1>3. PICK j : j = [Idle EXCEPT !.at = at, !.user = code[k].user, !.code = k, !.chat = c]
  OBVIOUS
<1>4. j \in LinkJob /\ j.at = at /\ j.user = code[k].user /\ j.chat = c
  BY <1>1, <1>3 DEF Idle, LinkJob
<1>5. job' = [job EXCEPT ![r] = j] /\ r \in scenario.slots /\ UNCHANGED <<scenario, linked>>
  BY <1>2, <1>3 DEF Begin, linkRows
<1>6. Cardinality(scenario.slots) = 1 /\ at = "take" => Owners(c) \subseteq {code[k].user}
  BY <1>1, <1>2, NamesAssumption DEF SerialInv, Exclusive, Owners
<1> QED
  BY <1>2, <1>4, <1>5, <1>6, RequestStaysSerial

\* A request ends or goes on with what it has.
LEMMA StatementStaysSerial ==
  ASSUME LinkInv, SerialInv, NEW r \in Req, Retire(r) \/ Create(r) \/ Refuse(r) \/ Take(r)
  PROVE  SerialInv'
<1>1. job[r] \in LinkJob /\ job[r].at \in {"retire", "create", "refuse", "take"}
  BY DEF LinkInv, LinkTyped, Retire, Create, Refuse, Take, At
<1>2. UNCHANGED <<scenario, linked>>
  BY DEF Retire, Create, Refuse, Take, At
<1>3. ASSUME NEW j \in LinkJob, job' = [job EXCEPT ![r] = j],
             \/ j.at \in {"idle", "create"}
             \/ /\ j.at = "commit" /\ j.chat = job[r].chat /\ j.user = job[r].user
                /\ job[r].at = "take" /\ j.others = Others(r)
      PROVE  SerialInv'
  <2>1. CASE Cardinality(scenario.slots) # 1
    BY <1>2, <2>1 DEF SerialInv
  <2>2. CASE Cardinality(scenario.slots) = 1
    <3>1. r \in scenario.slots
      BY <1>1, <2>2 DEF SerialInv, Idle
    <3>2. job[r].at = "take" => Owners(job[r].chat) \subseteq {job[r].user}
      BY <2>2 DEF SerialInv
    <3>3. linked[job[r].user] \subseteq Others(r) \cup {job[r].chat}
      BY DEF Others
    <3> QED
      BY <1>2, <1>3, <3>1, <3>2, <3>3, RequestStaysSerial
  <2> QED
    BY <2>1, <2>2
<1>4. CASE Retire(r)
  <2>1. job' = [job EXCEPT ![r] = [job[r] EXCEPT !.at = "create"]]
    BY <1>4 DEF Retire, Goto
  <2>2. [job[r] EXCEPT !.at = "create"] \in LinkJob /\ [job[r] EXCEPT !.at = "create"].at = "create"
    BY <1>1 DEF LinkJob
  <2> QED
    BY <1>3, <2>1, <2>2
<1>5. CASE job' = [job EXCEPT ![r] = Idle]
  BY <1>3, <1>5, IdleIsGrounded DEF Idle
<1>6. CASE Take(r) /\ job' = [job EXCEPT ![r].at = "commit", ![r].others = Others(r)]
  <2>1. PICK j : j = [job[r] EXCEPT !.at = "commit", !.others = Others(r)]
    OBVIOUS
  <2>2. job[r].at = "take" /\ job[r].user \in User
    BY <1>6 DEF Take, At, LinkInv, JobsAreGrounded, JobIsGrounded
  <2>3. Others(r) \in SUBSET Chat
    BY <2>2 DEF Others, LinkInv, LinkTyped
  <2>4. j \in LinkJob /\ j.at = "commit" /\ j.chat = job[r].chat /\ j.user = job[r].user
        /\ j.others = Others(r)
    BY <1>1, <2>1, <2>3 DEF LinkJob
  <2>5. job' = [job EXCEPT ![r] = j]
    BY <1>6, <2>1 DEF LinkInv, LinkTyped
  <2> QED
    BY <1>3, <2>2, <2>4, <2>5
<1> QED
  BY <1>4, <1>5, <1>6 DEF Create, Refuse, Take, Goto

\* The user's chats become the new one alone, and nobody else has that.
LEMMA CommitStaysSerial ==
  ASSUME LinkInv, SerialInv, NEW r \in Req, Commit(r)
  PROVE  SerialInv'
<1>1. /\ linked \in [User -> SUBSET Chat] /\ job \in [Req -> LinkJob]
      /\ job[r].at = "commit" /\ job[r].user \in User /\ job[r].chat \in Chat
  BY DEF LinkInv, LinkTyped, JobsAreGrounded, JobIsGrounded, Commit, At
<1>2. PICK u, c : u = job[r].user /\ c = job[r].chat
  OBVIOUS
<1>3. job' = [job EXCEPT ![r] = Idle] /\ scenario' = scenario
  BY DEF Commit, At, Goto
<1>4. SUFFICES ASSUME Cardinality(scenario.slots) = 1
               PROVE  /\ Exclusive(linked)'
                      /\ \A s \in Req : job'[s] = Idle
  <2>1. Idle.at = "idle"
    BY DEF Idle
  <2> QED
    BY <1>3, <1>4, <2>1 DEF SerialInv
<1>5. \A v \in User : linked'[v] = IF v = u THEN {c} ELSE linked[v]
  <2>1. linked[u] \subseteq job[r].others \cup {c}
    BY <1>1, <1>2, <1>4 DEF SerialInv
  <2> QED
    BY <1>1, <1>2, <2>1 DEF Commit
<1>6. \A v \in User : c \in linked[v] => v = u
  BY <1>1, <1>2, <1>4 DEF SerialInv, Owners
<1>7. Exclusive(linked)
  BY <1>4 DEF SerialInv
<1>8. \A v, w \in User, x, y \in Chat :
        x \in linked'[v] /\ y \in linked'[w] => (v = w <=> x = y)
  BY <1>5, <1>6, <1>7 DEF Exclusive
<1>9. ASSUME NEW s \in Req PROVE job'[s] = Idle
  <2>1. PICK p : scenario.slots = {p}
    BY <1>4, ScenarioAssumption, FS_Singleton DEF LinkInv, LinkTyped
  <2>2. r \in scenario.slots /\ (job[s] # Idle => s \in scenario.slots)
    BY <1>1, <1>4 DEF SerialInv, Idle
  <2> QED
    BY <1>1, <1>3, <2>1, <2>2
<1> QED
  BY <1>8, <1>9 DEF Exclusive

LEMMA SerialInvStep == LinkInv /\ SerialInv /\ [Next]_vars => SerialInv'
<1> SUFFICES ASSUME LinkInv, SerialInv, [Next]_vars PROVE SerialInv'
  OBVIOUS
<1>1. linked \in [User -> SUBSET Chat]
  BY DEF LinkInv, LinkTyped
<1>2. ASSUME NEW r \in Req, NEW u \in User, BeginCode(r, u) PROVE SerialInv'
  <2>1. PICK j : j = [Idle EXCEPT !.at = "retire", !.user = u]
    OBVIOUS
  <2>2. j \in LinkJob /\ j.at = "retire"
    BY <2>1 DEF Idle, LinkJob
  <2>3. job' = [job EXCEPT ![r] = j] /\ r \in scenario.slots /\ UNCHANGED <<scenario, linked>>
    BY <1>2, <2>1 DEF BeginCode, Begin, linkRows
  <2> QED
    BY <2>2, <2>3, RequestStaysSerial
<1>3. ASSUME NEW r \in Req, NEW k \in Code, NEW c \in Chat, BeginConsume(r, k, c) PROVE SerialInv'
  BY <1>3, ConsumptionStaysSerial
<1>4. ASSUME NEW r \in Req, Retire(r) \/ Create(r) \/ Refuse(r) \/ Take(r) PROVE SerialInv'
  BY <1>4, StatementStaysSerial
<1>5. ASSUME NEW r \in Req, Commit(r) PROVE SerialInv'
  BY <1>5, CommitStaysSerial
<1>6. ASSUME NEW u \in User, Unlink(u) \/ Deactivate(u) PROVE SerialInv'
  <2>1. /\ linked' \in [User -> SUBSET Chat] /\ UNCHANGED <<scenario, job>>
        /\ \A v \in User : linked'[v] \subseteq linked[v]
    BY <1>1, <1>6 DEF Unlink, Deactivate
  <2> QED
    BY <2>1, FewerStaySerial
<1>7. ASSUME NEW d \in Drain, Block(d) PROVE SerialInv'
  <2>1. /\ linked' \in [User -> SUBSET Chat] /\ UNCHANGED <<scenario, job>>
        /\ \A v \in User : linked'[v] \subseteq linked[v]
    BY <1>1, <1>7 DEF Block
  <2> QED
    BY <2>1, FewerStaySerial
<1>8. ASSUME UNCHANGED <<linked, scenario, job>> PROVE SerialInv'
  BY <1>1, <1>8, FewerStaySerial
<1> QED
  BY <1>2, <1>3, <1>4, <1>5, <1>6, <1>7, <1>8
     DEF Next, LinkNext, vars, linkVars, linkRows, CodeExpires, BackoffEnds, Enqueue, StartDrain,
         DrainStep, Claim, FindChat, Send, Skip, Record, Crash

\* With one request at a time a user has at most one chat and a chat at most one user,
\* whatever codes are made, used, refused and expire, and whatever chats are unlinked or
\* block the bot in between ("exactly one ACTIVE connection per user and per chat").
THEOREM LinksAreExclusive == Spec => []ConnectionsAreExclusive
<1>1. Init => LinkInv /\ SerialInv
  BY LinkInvInit DEF Init
<1>2. LinkInv /\ SerialInv => ConnectionsAreExclusive
  <2>1. SUFFICES ASSUME LinkInv, SerialInv, Cardinality(scenario.slots) = 1
                 PROVE  /\ \A u \in User : Cardinality(linked[u]) <= 1
                        /\ \A c \in Chat : Cardinality(Owners(c)) <= 1
    BY DEF ConnectionsAreExclusive
  <2>2. Exclusive(linked) /\ linked \in [User -> SUBSET Chat]
    BY <2>1 DEF SerialInv, LinkInv, LinkTyped
  <2>3. ASSUME NEW u \in User PROVE Cardinality(linked[u]) <= 1
    <3>1. \A x, y \in linked[u] : x = y
      BY <2>2 DEF Exclusive
    <3> QED
      BY <3>1, AtMostOne
  <2>4. ASSUME NEW c \in Chat PROVE Cardinality(Owners(c)) <= 1
    <3>1. \A u, v \in Owners(c) : u = v
      BY <2>2 DEF Exclusive, Owners
    <3> QED
      BY <3>1, AtMostOne
  <2> QED
    BY <2>3, <2>4
<1> QED
  BY <1>1, <1>2, LinkInvStep, SerialInvStep, PTL DEF Spec

-----------------------------------------------------------------------------
(* Delivery.                                                               *)

\* A drain that is like e has claimed the row n.
HoldsAs(e, n) == e.at \notin {"idle", "claim", "dead"} /\ e.list[1].id = n

LEMMA HoldsIs == \A d, n : Holds(d, n) <=> HoldsAs(drain[d], n)
BY DEF Holds, HoldsAs, Row

LEMMA OutboxInvInit == Init => OutboxInv
<1> SUFFICES ASSUME Init PROVE OutboxInv
  OBVIOUS
<1> USE DEF Init
<1>1. OutboxTyped
  BY DEF OutboxTyped, RowShape, DrainShape, NoRow, Still
<1>2. RowsAreInOrder /\ RowsAreHeldOnce /\ ArrivalsAreAnswered
  BY DEF RowsAreInOrder, RowsAreHeldOnce, ArrivalsAreAnswered, Holds, Still
<1> QED
  BY <1>1, <1>2 DEF OutboxInv

\* The row n stays as it is.
RowStays(n) == outbox'[n] = outbox[n] /\ copies'[n] = copies[n] /\ doubt'[n] = doubt[n]

\* The row n moves, with the drain d that moves on to e: no other holds it, it remains a
\* row that was made, and its arrivals are answered if it waits or is held.
RowMoves(d, e, n) ==
  /\ \A x \in Drain : Holds(x, n) => x = d
  /\ RowShape(outbox'[n])
  /\ outbox[n].status # "none" /\ outbox'[n].status # "none"
  /\ outbox'[n].status = "pending" => copies'[n] <= doubt'[n]
  /\ HoldsAs(e, n) =>
       /\ outbox'[n].status = "sending"
       /\ IF e.at = "record" /\ e.answer = "ok" THEN copies'[n] > 0
          ELSE copies'[n] <= doubt'[n]

\* One drain moves on to e, and of the rows only one may move: what every step of a
\* drain amounts to.
LEMMA DrainStepKeeps ==
  ASSUME OutboxInv, NEW d \in Drain, NEW e,
         drain' = [drain EXCEPT ![d] = e], DrainShape(e),
         outbox' = [m \in Note |-> outbox'[m]],
         copies' \in [Note -> Nat], doubt' \in [Note -> Nat],
         \A m \in Note : RowMoves(d, e, m) \/ (RowStays(m) /\ ~HoldsAs(e, m))
  PROVE  OutboxInv'
<1> USE DEF OutboxInv
<1>1. \A x \in Drain : drain'[x] = IF x = d THEN e ELSE drain[x]
  BY DEF OutboxTyped
<1>2. OutboxTyped'
  <2>1. \A m \in Note : RowShape(outbox'[m])
    BY DEF OutboxTyped, RowMoves, RowStays
  <2> QED
    BY <1>1, <2>1 DEF OutboxTyped
<1>3. \A x \in Drain, m \in Note : Holds(x, m)' <=> HoldsAs(drain'[x], m)
  BY HoldsIs DEF Holds, HoldsAs, Row
<1>4. \A x \in Drain, m \in Note : x # d => (Holds(x, m)' <=> Holds(x, m))
  BY <1>1, <1>3, HoldsIs
<1>5. \A m \in Note : Holds(d, m)' <=> HoldsAs(e, m)
  BY <1>1, <1>3
<1>6. \A m \in Note : outbox'[m] # NoRow <=> outbox[m] # NoRow
  <2>1. NoRow.status = "none"
    BY DEF NoRow
  <2> QED
    BY <2>1 DEF RowMoves, RowStays
<1>7. RowsAreInOrder'
  BY <1>6 DEF RowsAreInOrder
<1>8. RowsAreHeldOnce'
  BY <1>4, <1>5 DEF RowsAreHeldOnce, RowMoves, RowStays
<1>9. ArrivalsAreAnswered'
  BY <1>1, <1>4, <1>5 DEF ArrivalsAreAnswered, RowMoves, RowStays
<1> QED
  BY <1>2, <1>7, <1>8, <1>9

\* The phases of a note as MessageDelivery sees them: nothing moves.
LEMMA Stutters ==
  ASSUME \A n \in Note : Phase(n)' = Phase(n), UNCHANGED <<copies, doubt>>
  PROVE  UNCHANGED Promise!deliveryVars
BY DEF Promise!deliveryVars

\* A note that waits is settled.
LEMMA Settles ==
  ASSUME NEW n \in Note, Phase(n) = "waiting", UNCHANGED <<copies, doubt>>,
         \A m \in Note : m # n => Phase(m)' = Phase(m),
         Phase(n)' = "given up" \/ (Phase(n)' = "sent" /\ copies[n] > 0)
  PROVE  Promise!DeliveryNext
<1>1. CASE Phase(n)' = "given up"
  <2>1. Promise!GiveUp(n)
    BY <1>1 DEF Promise!GiveUp
  <2> QED
    BY <2>1 DEF Promise!DeliveryNext
<1>2. CASE Phase(n)' = "sent" /\ copies[n] > 0
  <2>1. Promise!Confirm(n)
    BY <1>2 DEF Promise!Confirm
  <2> QED
    BY <2>1 DEF Promise!DeliveryNext
<1> QED
  BY <1>1, <1>2

\* The number of the row that Enqueue makes is free.
LEMMA NextNote ==
  ASSUME OutboxInv
  PROVE  LET S == {m \in Note : outbox[m] # NoRow} IN
         /\ Cardinality(S) \in Nat
         /\ 1 + Cardinality(S) \notin S
         /\ \A l \in Note : l <= Cardinality(S) => l \in S
<1> DEFINE S == {m \in Note : outbox[m] # NoRow}
<1>1. Notes \in Nat /\ S \in SUBSET (1 .. Notes)
  BY OutboxAssumption DEF Note
<1>2. \A k \in S : \A l \in 1 .. Notes : l <= k => l \in S
  BY DEF OutboxInv, RowsAreInOrder, Note
<1> HIDE DEF S
<1>3. /\ Cardinality(S) \in Nat
      /\ 1 + Cardinality(S) \notin S
      /\ \A l \in 1 .. Notes : l <= Cardinality(S) => l \in S
  BY <1>1, <1>2, NextIsFree
<1> QED
  BY <1>3 DEF S, Note

LEMMA EnqueueDelivers ==
  ASSUME OutboxInv, NEW n \in Note, NEW u \in User, Enqueue(n, u)
  PROVE  OutboxInv' /\ Promise!DeliveryNext
<1> USE DEF OutboxInv
<1> DEFINE S == {m \in Note : outbox[m] # NoRow}
<1>1. n = 1 + Cardinality(S) /\ UNCHANGED <<drain, copies, doubt>>
  BY DEF Enqueue
<1>2. Cardinality(S) \in Nat /\ n \notin S /\ \A l \in Note : l <= Cardinality(S) => l \in S
  BY <1>1, NextNote
<1>3. outbox[n] = NoRow
  BY <1>2
<1>4. \A m \in Note : m < n => outbox[m] # NoRow
  <2>1. n \in Int /\ \A m \in Note : m \in Int
    BY OutboxAssumption DEF Note
  <2> QED
    BY <1>1, <1>2, <2>1
<1> HIDE DEF S
<1>5. PICK row : row = [NoRow EXCEPT !.status = "pending", !.to = u, !.due = TRUE]
  OBVIOUS
<1>6. RowShape(row) /\ row.status = "pending" /\ row # NoRow /\ NoRow.status = "none"
  BY <1>5 DEF RowShape, NoRow
<1>7. /\ outbox' = [m \in Note |-> outbox'[m]]
      /\ \A m \in Note : outbox'[m] = IF m = n THEN row ELSE outbox[m]
  BY <1>5 DEF Enqueue, OutboxTyped
<1>8. OutboxTyped'
  BY <1>1, <1>6, <1>7 DEF OutboxTyped
<1>9. RowsAreInOrder'
  <2>1. SUFFICES ASSUME NEW k \in Note, NEW l \in Note, l <= k, outbox'[k] # NoRow
                 PROVE  outbox'[l] # NoRow
    BY DEF RowsAreInOrder
  <2>2. k \in Int /\ l \in Int /\ n \in Int
    BY OutboxAssumption DEF Note
  <2> QED
    BY <1>4, <1>6, <1>7, <2>1, <2>2 DEF RowsAreInOrder
<1>10. \A d \in Drain, m \in Note : Holds(d, m)' <=> Holds(d, m)
  BY <1>1 DEF Holds, Row
<1>11. \A d \in Drain : ~Holds(d, n)
  BY <1>3, <1>6 DEF RowsAreHeldOnce
<1>12. RowsAreHeldOnce'
  BY <1>7, <1>10, <1>11 DEF RowsAreHeldOnce
<1>13. ArrivalsAreAnswered'
  BY <1>1, <1>3, <1>6, <1>7, <1>10 DEF ArrivalsAreAnswered
<1>14. Phase(n) = "none" /\ Phase(n)' = "waiting" /\ \A m \in Note : m # n => Phase(m)' = Phase(m)
  BY <1>3, <1>6, <1>7 DEF Phase
<1>15. Promise!Ask(n)
  BY <1>1, <1>14 DEF Promise!Ask
<1>16. Promise!DeliveryNext
  BY <1>15 DEF Promise!DeliveryNext
<1> QED
  BY <1>8, <1>9, <1>12, <1>13, <1>16

LEMMA BackoffDelivers ==
  ASSUME OutboxInv, NEW n \in Note, BackoffEnds(n)
  PROVE  OutboxInv' /\ UNCHANGED Promise!deliveryVars
<1> USE DEF OutboxInv
<1>1. outbox[n].status = "pending" /\ UNCHANGED <<drain, copies, doubt>>
  BY DEF BackoffEnds
<1>2. PICK row : row = [outbox[n] EXCEPT !.due = TRUE]
  OBVIOUS
<1>3. RowShape(row) /\ row.status = outbox[n].status
  <2>1. RowShape(outbox[n])
    BY DEF OutboxTyped
  <2> QED
    BY <1>2, <2>1 DEF RowShape
<1>4. /\ outbox' = [m \in Note |-> outbox'[m]]
      /\ \A m \in Note : outbox'[m] = IF m = n THEN row ELSE outbox[m]
  BY <1>2 DEF BackoffEnds, OutboxTyped
<1>5. OutboxTyped'
  BY <1>1, <1>3, <1>4 DEF OutboxTyped
<1>6. NoRow.status = "none"
  BY DEF NoRow
<1>7. RowsAreInOrder'
  BY <1>1, <1>3, <1>4, <1>6 DEF RowsAreInOrder
<1>8. \A d \in Drain, m \in Note : Holds(d, m)' <=> Holds(d, m)
  BY <1>1 DEF Holds, Row
<1>9. RowsAreHeldOnce'
  BY <1>3, <1>4, <1>8 DEF RowsAreHeldOnce
<1>10. ArrivalsAreAnswered'
  BY <1>1, <1>3, <1>4, <1>8 DEF ArrivalsAreAnswered
<1>11. \A m \in Note : Phase(m)' = Phase(m)
  BY <1>3, <1>4 DEF Phase
<1> QED
  BY <1>1, <1>5, <1>7, <1>9, <1>10, <1>11, Stutters

\* A drain that starts, or that ends before its work is done, changes no row.
LEMMA StartOrCrashDelivers ==
  ASSUME OutboxInv, NEW d \in Drain, StartDrain(d) \/ Crash(d)
  PROVE  OutboxInv' /\ UNCHANGED Promise!deliveryVars
<1> USE DEF OutboxInv
<1>1. UNCHANGED <<outbox, copies, doubt>>
  BY DEF StartDrain, Crash
<1>2. PICK e : /\ drain' = [drain EXCEPT ![d] = e]
               /\ DrainShape(e) /\ e.at \in {"claim", "dead"}
  <2>1. CASE StartDrain(d)
    <3>1. PICK e : e = [Still EXCEPT !.at = "claim", !.list = DueList]
      OBVIOUS
    <3>2. DrainShape(e) /\ e.at = "claim"
      BY <3>1 DEF DrainShape, Still
    <3> QED
      BY <2>1, <3>1, <3>2 DEF StartDrain
  <2>2. CASE Crash(d)
    <3>1. PICK e : e = [Still EXCEPT !.at = "dead"]
      OBVIOUS
    <3>2. DrainShape(e) /\ e.at = "dead"
      BY <3>1 DEF DrainShape, Still
    <3> QED
      BY <2>2, <3>1, <3>2 DEF Crash
  <2> QED
    BY <2>1, <2>2
<1>3. \A m \in Note : ~HoldsAs(e, m)
  BY <1>2 DEF HoldsAs
<1>4. OutboxTyped
  OBVIOUS
<1>5. /\ outbox' = [m \in Note |-> outbox'[m]]
      /\ copies' \in [Note -> Nat] /\ doubt' \in [Note -> Nat]
      /\ \A m \in Note : RowStays(m)
  BY <1>1, <1>4 DEF OutboxTyped, RowStays
<1>6. OutboxInv'
  BY <1>2, <1>3, <1>5, DrainStepKeeps
<1>7. \A m \in Note : Phase(m)' = Phase(m)
  BY <1>1 DEF Phase
<1> QED
  BY <1>1, <1>6, <1>7, Stutters

\* What a drain is after it is done with a row: it holds none.
LEMMA NextRowHoldsNone ==
  ASSUME NEW d \in Drain
  PROVE  DrainShape(NextRow(d)) /\ \A n : ~HoldsAs(NextRow(d), n)
<1>1. CASE NextRow(d) = Still
  BY <1>1 DEF Still, DrainShape, HoldsAs
<1>2. CASE NextRow(d) = [Still EXCEPT !.at = "claim", !.list = Tail(drain[d].list)]
  <2>1. PICK e : e = [Still EXCEPT !.at = "claim", !.list = Tail(drain[d].list)]
    OBVIOUS
  <2>2. DrainShape(e) /\ e.at = "claim"
    BY <2>1 DEF Still, DrainShape
  <2>3. NextRow(d) = e
    BY <1>2, <2>1
  <2> QED
    BY <2>2, <2>3 DEF HoldsAs
<1> QED
  BY <1>1, <1>2 DEF NextRow

\* Of two drains that have read the same row as due, the claim lets one through.
LEMMA ClaimDelivers ==
  ASSUME OutboxInv, NEW d \in Drain, Claim(d)
  PROVE  OutboxInv' /\ UNCHANGED Promise!deliveryVars
<1> USE DEF OutboxInv
<1>1. PICK n : n = Row(d).id
  OBVIOUS
<1>2. UNCHANGED <<copies, doubt>> /\ drain[d].at = "claim" /\ DrainShape(drain[d])
  BY DEF Claim, OutboxTyped
<1>3. OutboxTyped
  OBVIOUS
<1>4. CASE outbox[n].status = "pending" /\ outbox' = [outbox EXCEPT ![n].status = "sending"]
           /\ drain' = [drain EXCEPT ![d].at = "chat"]
  <2>1. PICK e : e = [drain[d] EXCEPT !.at = "chat"]
    OBVIOUS
  <2>2. DrainShape(e) /\ e.at = "chat" /\ e.list = drain[d].list
    BY <1>2, <2>1 DEF DrainShape
  <2>3. drain' = [drain EXCEPT ![d] = e]
    BY <1>3, <1>4, <2>1 DEF OutboxTyped
  <2>4. \A m : HoldsAs(e, m) <=> m = n
    BY <1>1, <2>2 DEF HoldsAs, Row
  <2>5. \A m \in Note : m # n => outbox'[m] = outbox[m]
    BY <1>3, <1>4 DEF OutboxTyped
  <2>6. outbox' = [m \in Note |-> outbox'[m]]
    BY <1>3, <1>4 DEF OutboxTyped
  <2>7. ASSUME n \in Note
        PROVE  /\ RowShape(outbox'[n]) /\ outbox'[n].status = "sending"
               /\ \A x \in Drain : ~Holds(x, n)
               /\ copies[n] <= doubt[n]
    <3>1. PICK row : row = [outbox[n] EXCEPT !.status = "sending"]
      OBVIOUS
    <3>2. outbox'[n] = row
      BY <1>3, <1>4, <2>7, <3>1 DEF OutboxTyped
    <3>3. RowShape(row) /\ row.status = "sending"
      BY <1>3, <2>7, <3>1 DEF OutboxTyped, RowShape
    <3>4. \A x \in Drain : ~Holds(x, n)
      BY <1>4, <2>7 DEF RowsAreHeldOnce
    <3>5. copies[n] <= doubt[n]
      BY <1>4, <2>7 DEF ArrivalsAreAnswered
    <3> QED
      BY <3>2, <3>3, <3>4, <3>5
  <2>8. copies' \in [Note -> Nat] /\ doubt' \in [Note -> Nat]
    BY <1>2, <1>3 DEF OutboxTyped
  <2>9. OutboxInv'
    <3>1. \A m \in Note : m # n => RowStays(m) /\ ~HoldsAs(e, m)
      BY <1>2, <2>4, <2>5 DEF RowStays
    <3>2. n \in Note => RowMoves(d, e, n)
      BY <1>2, <1>4, <2>2, <2>7 DEF RowMoves
    <3> QED
      BY <2>2, <2>3, <2>6, <2>8, <3>1, <3>2, DrainStepKeeps
  <2>10. \A m \in Note : Phase(m)' = Phase(m)
    BY <1>4, <2>5, <2>7 DEF Phase
  <2> QED
    BY <1>2, <2>9, <2>10, Stutters
<1>5. CASE drain' = [drain EXCEPT ![d] = NextRow(d)] /\ outbox' = outbox
  <2>1. PICK e : e = NextRow(d)
    OBVIOUS
  <2>2. DrainShape(e) /\ \A m : ~HoldsAs(e, m)
    BY <2>1, NextRowHoldsNone
  <2>3. /\ outbox' = [m \in Note |-> outbox'[m]]
        /\ copies' \in [Note -> Nat] /\ doubt' \in [Note -> Nat]
        /\ \A m \in Note : RowStays(m)
    BY <1>2, <1>3, <1>5 DEF OutboxTyped, RowStays
  <2>4. OutboxInv'
    BY <1>5, <2>1, <2>2, <2>3, DrainStepKeeps
  <2>5. \A m \in Note : Phase(m)' = Phase(m)
    BY <1>5 DEF Phase
  <2> QED
    BY <1>2, <2>4, <2>5, Stutters
<1> QED
  BY <1>1, <1>4, <1>5 DEF Claim, Claimable

\* A drain that goes on with its row, changing nothing of it: the choice of a chat, and
\* the disconnection of one.
LEMMA GoingOnDelivers ==
  ASSUME OutboxInv, NEW d \in Drain, NEW e, drain[d].at \in {"chat", "send", "block"},
         drain' = [drain EXCEPT ![d] = e], DrainShape(e), e.list = drain[d].list,
         e.at \in {"send", "skip", "block"}, UNCHANGED <<outbox, copies, doubt>>
  PROVE  OutboxInv' /\ UNCHANGED Promise!deliveryVars
<1> USE DEF OutboxInv
<1>1. PICK n : n = Row(d).id
  OBVIOUS
<1>2. \A m : Holds(d, m) <=> m = n
  BY <1>1 DEF Holds
<1>3. \A m : HoldsAs(e, m) <=> m = n
  BY <1>1 DEF HoldsAs, Row
<1>4. OutboxTyped
  OBVIOUS
<1>5. /\ outbox' = [m \in Note |-> outbox'[m]]
      /\ copies' \in [Note -> Nat] /\ doubt' \in [Note -> Nat]
      /\ \A m \in Note : RowShape(outbox[m]) /\ RowStays(m)
  BY <1>4 DEF OutboxTyped, RowStays
<1>6. n \in Note => RowMoves(d, e, n)
  BY <1>2, <1>5 DEF RowsAreHeldOnce, ArrivalsAreAnswered, RowMoves
<1>7. OutboxInv'
  BY <1>3, <1>5, <1>6, DrainStepKeeps
<1>8. \A m \in Note : Phase(m)' = Phase(m)
  BY DEF Phase
<1> QED
  BY <1>7, <1>8, Stutters

LEMMA FindChatDelivers ==
  ASSUME OutboxInv, NEW d \in Drain, FindChat(d) \/ Block(d)
  PROVE  OutboxInv' /\ UNCHANGED Promise!deliveryVars
<1>1. /\ drain = [x \in Drain |-> drain[x]] /\ DrainShape(drain[d])
      /\ drain[d].at \in {"chat", "block"} /\ UNCHANGED <<outbox, copies, doubt>>
  BY DEF OutboxInv, OutboxTyped, FindChat, Block
<1>2. CASE drain' = [drain EXCEPT ![d].at = "skip"]
  <2>1. PICK e : e = [drain[d] EXCEPT !.at = "skip"]
    OBVIOUS
  <2>2. DrainShape(e) /\ e.list = drain[d].list /\ e.at = "skip" /\ drain' = [drain EXCEPT ![d] = e]
    BY <1>1, <1>2, <2>1 DEF DrainShape
  <2> QED
    BY <1>1, <2>2, GoingOnDelivers
<1>3. ASSUME NEW c, drain' = [drain EXCEPT ![d].at = "send", ![d].chat = c]
      PROVE  OutboxInv' /\ UNCHANGED Promise!deliveryVars
  <2>1. PICK e : e = [drain[d] EXCEPT !.at = "send", !.chat = c]
    OBVIOUS
  <2>2. DrainShape(e) /\ e.list = drain[d].list /\ e.at = "send" /\ drain' = [drain EXCEPT ![d] = e]
    BY <1>1, <1>3, <2>1 DEF DrainShape
  <2> QED
    BY <1>1, <2>2, GoingOnDelivers
<1> QED
  BY <1>2, <1>3 DEF FindChat, Block

\* The bot's answer: an arrival, an arrival or nothing whose answer is lost, or a refusal.
LEMMA SendDelivers ==
  ASSUME OutboxInv, NEW d \in Drain, Send(d)
  PROVE  OutboxInv' /\ [Promise!DeliveryNext]_(Promise!deliveryVars)
<1> USE DEF OutboxInv
<1>1. PICK n : n = Row(d).id
  OBVIOUS
<1>2. OutboxTyped /\ drain[d].at = "send" /\ DrainShape(drain[d]) /\ outbox' = outbox
  BY DEF OutboxTyped, Send
<1>3. PICK answer \in {"ok", "lost", "busy", "blocked", "malformed"} :
        /\ \/ answer \in {"ok", "lost"} /\ copies' = [copies EXCEPT ![n] = @ + 1]
           \/ answer # "ok" /\ UNCHANGED copies
        /\ doubt' = [doubt EXCEPT ![n] = @ + (IF answer = "lost" THEN 1 ELSE 0)]
        /\ drain' = [drain EXCEPT ![d].answer = answer,
                                  ![d].at = IF answer = "blocked" THEN "block" ELSE "record"]
  BY <1>1 DEF Send
<1>4. PICK e : e = [drain[d] EXCEPT !.answer = answer,
                                    !.at = IF answer = "blocked" THEN "block" ELSE "record"]
  OBVIOUS
<1>5. /\ DrainShape(e) /\ e.list = drain[d].list /\ e.answer = answer
      /\ e.at = IF answer = "blocked" THEN "block" ELSE "record"
  BY <1>2, <1>4 DEF DrainShape
<1>6. drain' = [drain EXCEPT ![d] = e]
  BY <1>2, <1>3, <1>4 DEF OutboxTyped
<1>7. \A m : (Holds(d, m) <=> m = n) /\ (HoldsAs(e, m) <=> m = n)
  BY <1>1, <1>2, <1>5 DEF Holds, HoldsAs, Row
<1>8. /\ copies \in [Note -> Nat] /\ doubt \in [Note -> Nat]
      /\ copies' \in [Note -> Nat] /\ doubt' \in [Note -> Nat]
      /\ outbox' = [m \in Note |-> outbox'[m]]
      /\ \A m \in Note : RowShape(outbox'[m])
      /\ \A m \in Note : m # n => copies'[m] = copies[m] /\ doubt'[m] = doubt[m]
  <2>1. outbox' = [m \in Note |-> outbox'[m]] /\ \A m \in Note : RowShape(outbox'[m])
    BY <1>2 DEF OutboxTyped
  <2>2. copies \in [Note -> Nat] /\ doubt \in [Note -> Nat]
    BY <1>2 DEF OutboxTyped
  <2>3. CASE n \in Note
    <3>1. copies[n] + 1 \in Nat /\ doubt[n] + (IF answer = "lost" THEN 1 ELSE 0) \in Nat
      BY <2>2, <2>3
    <3> QED
      BY <1>3, <2>1, <2>2, <2>3, <3>1
  <2>4. CASE n \notin Note
    <3>1. copies' = copies /\ doubt' = doubt
      BY <1>3, <2>2, <2>4
    <3> QED
      BY <2>1, <2>2, <3>1
  <2> QED
    BY <2>3, <2>4
<1>9. ASSUME n \in Note
      PROVE  /\ outbox[n].status = "sending" /\ copies[n] <= doubt[n]
             /\ copies[n] \in Nat /\ doubt[n] \in Nat
             /\ \A x \in Drain : Holds(x, n) => x = d
  BY <1>2, <1>7, <1>8, <1>9 DEF RowsAreHeldOnce, ArrivalsAreAnswered
<1>10. n \in Note => IF answer = "ok" THEN copies'[n] > 0 ELSE copies'[n] <= doubt'[n]
  BY <1>3, <1>8, <1>9
<1>11. OutboxInv'
  <2>1. \A m \in Note : m # n => RowStays(m) /\ ~HoldsAs(e, m)
    BY <1>2, <1>7, <1>8 DEF RowStays
  <2>2. n \in Note => RowMoves(d, e, n)
    BY <1>2, <1>5, <1>8, <1>9, <1>10 DEF RowMoves
  <2> QED
    BY <1>5, <1>6, <1>8, <2>1, <2>2, DrainStepKeeps
<1>12. \A m \in Note : Phase(m)' = Phase(m)
  BY <1>2 DEF Phase
<1>13. CASE n \notin Note
  <2>1. UNCHANGED <<copies, doubt>>
    BY <1>3, <1>8, <1>13
  <2> QED
    BY <1>11, <1>12, <2>1, Stutters
<1>14. CASE n \in Note
  <2>1. Phase(n) = "waiting" /\ copies[n] <= doubt[n]
    BY <1>9, <1>14 DEF Phase
  <2>2. CASE answer = "ok"
    <3>1. copies' = [copies EXCEPT ![n] = @ + 1] /\ doubt' = doubt
      BY <1>3, <1>8, <1>14, <2>2
    <3>2. Promise!Arrive(n)
      BY <1>12, <1>14, <2>1, <3>1 DEF Promise!Arrive
    <3> QED
      BY <1>11, <1>14, <3>2 DEF Promise!DeliveryNext
  <2>3. CASE answer = "lost"
    <3>1. copies' \in {copies, [copies EXCEPT ![n] = @ + 1]} /\ doubt' = [doubt EXCEPT ![n] = @ + 1]
      BY <1>3, <2>3
    <3>2. Promise!LoseAnswer(n)
      BY <1>12, <1>14, <2>1, <3>1 DEF Promise!LoseAnswer
    <3> QED
      BY <1>11, <1>14, <3>2 DEF Promise!DeliveryNext
  <2>4. CASE answer \notin {"ok", "lost"}
    <3>1. UNCHANGED <<copies, doubt>>
      BY <1>3, <1>8, <1>14, <2>4
    <3> QED
      BY <1>11, <1>12, <3>1, Stutters
  <2> QED
    BY <2>2, <2>3, <2>4
<1> QED
  BY <1>13, <1>14

\* The outcome of a row is recorded: the row was claimed by this drain alone, it is
\* settled or waits for another attempt, and it is sent only if it arrived.
LEMMA OutcomeDelivers ==
  ASSUME OutboxInv, NEW d \in Drain, Skip(d) \/ Record(d)
  PROVE  OutboxInv' /\ [Promise!DeliveryNext]_(Promise!deliveryVars)
<1> USE DEF OutboxInv
<1>1. PICK n : n = Row(d).id
  OBVIOUS
<1>2. /\ OutboxTyped /\ UNCHANGED <<copies, doubt>> /\ drain[d].at \in {"skip", "record"}
      /\ drain' = [drain EXCEPT ![d] = NextRow(d)]
  BY DEF OutboxTyped, Skip, Record
<1>3. PICK e : e = NextRow(d)
  OBVIOUS
<1>4. DrainShape(e) /\ \A m : ~HoldsAs(e, m)
  BY <1>3, NextRowHoldsNone
<1>5. PICK row : outbox' = [outbox EXCEPT ![n] = row] /\ row = outbox'[n]
  <2>1. PICK new : outbox' = [outbox EXCEPT ![n] = new]
    BY <1>1 DEF Skip, Record
  <2>2. CASE n \in Note
    <3>1. outbox'[n] = new
      BY <1>2, <2>1, <2>2 DEF OutboxTyped
    <3> QED
      BY <2>1, <3>1
  <2>3. CASE n \notin Note
    <3>1. outbox' = outbox /\ [outbox EXCEPT ![n] = outbox'[n]] = outbox
      BY <1>2, <2>1, <2>3 DEF OutboxTyped
    <3> QED
      BY <3>1
  <2> QED
    BY <2>2, <2>3
<1>6. /\ outbox' = [m \in Note |-> outbox'[m]]
      /\ copies' \in [Note -> Nat] /\ doubt' \in [Note -> Nat]
      /\ \A m \in Note : m # n => outbox'[m] = outbox[m]
  BY <1>2, <1>5 DEF OutboxTyped
<1>7. ASSUME n \in Note
      PROVE  /\ RowShape(outbox'[n]) /\ outbox'[n].status \in {"skipped", "sent", "failed", "pending"}
             /\ outbox'[n].status = "sent" => drain[d].at = "record" /\ drain[d].answer = "ok"
             /\ outbox'[n].status = "pending" => ~(drain[d].at = "record" /\ drain[d].answer = "ok")
  <2>1. RowShape(outbox[n]) /\ outbox = [m \in Note |-> outbox[m]]
    BY <1>2, <1>7 DEF OutboxTyped
  <2>2. CASE Skip(d)
    <3>1. outbox'[n] = [outbox[n] EXCEPT !.status = "skipped"]
      BY <1>1, <1>7, <2>1, <2>2 DEF Skip
    <3>2. PICK skipped : skipped = [outbox[n] EXCEPT !.status = "skipped"] /\ outbox'[n] = skipped
      BY <3>1
    <3>3. RowShape(skipped) /\ skipped.status = "skipped"
      BY <2>1, <3>2 DEF RowShape
    <3> QED
      BY <3>1, <3>2, <3>3
  <2>3. CASE Record(d)
    <3>1. outbox'[n] = Outcome(outbox[n], drain[d].answer, Row(d).attempts)
      BY <1>1, <1>7, <2>1, <2>3 DEF Record
    <3>2. drain[d].at = "record"
      BY <2>3 DEF Record
    <3>3. CASE drain[d].answer = "ok"
      <4>1. outbox'[n] = [outbox[n] EXCEPT !.status = "sent"]
        BY <3>1, <3>3 DEF Outcome
      <4> QED
        BY <2>1, <3>2, <3>3, <4>1 DEF RowShape
    <3>4. CASE drain[d].answer = "malformed"
      <4>1. outbox'[n] = [outbox[n] EXCEPT !.status = "failed", !.attempts = @ + 1]
        BY <3>1, <3>4 DEF Outcome
      <4> QED
        BY <2>1, <4>1 DEF RowShape
    <3>5. CASE drain[d].answer \notin {"ok", "malformed"}
      <4>1. outbox'[n] = Retried(outbox[n], Row(d).attempts)
        BY <3>1, <3>5 DEF Outcome
      <4>2. PICK status \in {"failed", "pending"} :
              outbox'[n] = [outbox[n] EXCEPT !.attempts = Counted(Row(d).attempts), !.due = FALSE,
                                             !.status = status]
        BY <4>1 DEF Retried
      <4> HIDE DEF Counted
      <4> QED
        BY <2>1, <3>5, <4>2 DEF RowShape
    <3> QED
      BY <3>3, <3>4, <3>5
  <2> QED
    BY <2>2, <2>3
<1>8. \A m : Holds(d, m) <=> m = n
  BY <1>1, <1>2 DEF Holds
<1>9. ASSUME n \in Note
      PROVE  /\ outbox[n].status = "sending" /\ \A x \in Drain : Holds(x, n) => x = d
             /\ IF drain[d].at = "record" /\ drain[d].answer = "ok" THEN copies[n] > 0
                ELSE copies[n] <= doubt[n]
  BY <1>8, <1>9 DEF RowsAreHeldOnce, ArrivalsAreAnswered
<1>10. OutboxInv'
  <2>1. \A m \in Note : m # n => RowStays(m) /\ ~HoldsAs(e, m)
    BY <1>2, <1>4, <1>6 DEF RowStays
  <2>2. n \in Note => RowMoves(d, e, n)
    BY <1>2, <1>4, <1>7, <1>9 DEF RowMoves
  <2> QED
    BY <1>2, <1>3, <1>4, <1>6, <2>1, <2>2, DrainStepKeeps
<1>11. \A m \in Note : m # n => Phase(m)' = Phase(m)
  BY <1>6 DEF Phase
<1>12. CASE n \notin Note
  BY <1>2, <1>10, <1>11, <1>12, Stutters
<1>13. CASE n \in Note
  <2>1. Phase(n) = "waiting"
    BY <1>9, <1>13 DEF Phase
  <2>2. CASE outbox'[n].status = "pending"
    <3>1. Phase(n)' = "waiting"
      BY <2>2 DEF Phase
    <3> QED
      BY <1>2, <1>10, <1>11, <2>1, <3>1, Stutters
  <2>3. CASE outbox'[n].status \in {"skipped", "failed"}
    <3>1. Phase(n)' = "given up"
      BY <2>3 DEF Phase
    <3> QED
      BY <1>2, <1>10, <1>11, <1>13, <2>1, <3>1, Settles
  <2>4. CASE outbox'[n].status = "sent"
    <3>1. Phase(n)' = "sent" /\ copies[n] > 0
      BY <1>7, <1>9, <1>13, <2>4 DEF Phase
    <3> QED
      BY <1>2, <1>10, <1>11, <1>13, <2>1, <3>1, Settles
  <2> QED
    BY <1>7, <1>13, <2>2, <2>3, <2>4
<1> QED
  BY <1>12, <1>13

\* Whatever happens, a notification makes a step of MessageDelivery or none.
LEMMA OutboxStep ==
  OutboxInv /\ [Next]_vars => OutboxInv' /\ [Promise!DeliveryNext]_(Promise!deliveryVars)
<1> SUFFICES ASSUME OutboxInv, [Next]_vars
             PROVE  OutboxInv' /\ [Promise!DeliveryNext]_(Promise!deliveryVars)
  OBVIOUS
<1>1. ASSUME NEW n \in Note, NEW u \in User, Enqueue(n, u)
      PROVE  OutboxInv' /\ [Promise!DeliveryNext]_(Promise!deliveryVars)
  BY <1>1, EnqueueDelivers
<1>2. ASSUME NEW n \in Note, BackoffEnds(n)
      PROVE  OutboxInv' /\ [Promise!DeliveryNext]_(Promise!deliveryVars)
  BY <1>2, BackoffDelivers
<1>3. ASSUME NEW d \in Drain, StartDrain(d) \/ Crash(d)
      PROVE  OutboxInv' /\ [Promise!DeliveryNext]_(Promise!deliveryVars)
  BY <1>3, StartOrCrashDelivers
<1>4. ASSUME NEW d \in Drain, DrainStep(d)
      PROVE  OutboxInv' /\ [Promise!DeliveryNext]_(Promise!deliveryVars)
  BY <1>4, ClaimDelivers, FindChatDelivers, SendDelivers, OutcomeDelivers DEF DrainStep
<1>5. CASE UNCHANGED <<outbox, drain, copies, doubt>>
  <2>1. OutboxInv'
    BY <1>5 DEF OutboxInv, OutboxTyped, RowsAreInOrder, RowsAreHeldOnce, ArrivalsAreAnswered, Holds, Row
  <2>2. \A n \in Note : Phase(n)' = Phase(n)
    BY <1>5 DEF Phase
  <2> QED
    BY <1>5, <2>1, <2>2, Stutters
<1> QED
  BY <1>1, <1>2, <1>3, <1>4, <1>5 DEF Next, vars

\* The outbox keeps the promise of MessageDelivery: with drains that overlap, die, and
\* lose answers, a row that is settled stays so, a message is recorded as sent only if it
\* arrived, and it arrives again only when the answer to every earlier arrival was lost
\* ("parallel drains never double-send").
THEOREM ImplementsDelivery == Spec => DeliversAsPromised
<1>1. Init => OutboxInv
  BY OutboxInvInit
<1>2. Init => Promise!DeliveryInit
  <2>1. SUFFICES ASSUME Init PROVE \A n \in Note : Phase(n) = "none"
    BY DEF Init, Promise!DeliveryInit
  <2> QED
    BY <2>1 DEF Init, NoRow, Phase
<1> QED
  BY <1>1, <1>2, OutboxStep, PTL DEF Spec, DeliversAsPromised, Promise!DeliverySpec
=============================================================================
