--------------------------- MODULE Accounts_proofs ---------------------------
(***************************************************************************)
(* What holds of Accounts for every number of requests, users and rows.    *)
(* However requests interleave, a login challenge opens one session at     *)
(* most, and an invitation gives its access once.  When they do not, those *)
(* who leave hold nothing, an owner remains, and the browser is signed in  *)
(* by no session that its accounts do not hold.                            *)
(***************************************************************************)
EXTENDS Accounts, FiniteSetTheorems, SequenceTheorems, TLAPS

-----------------------------------------------------------------------------
(* The rows.                                                               *)

ChallengeRow == [user : User, purpose : Purpose, code : Nat, tries : Nat, here : BOOLEAN,
                 consumed : BOOLEAN, revoked : BOOLEAN, expired : BOOLEAN]

SessionRow == [user : User, by : Challenge \cup {None}, revoked : BOOLEAN]

InviteRow == [status : {"none", "pending", "revoked", "accepted"},
              address : Address \cup {None}, role : InviteRoles \cup {None},
              token : Nat, sends : Nat, recent : BOOLEAN, expired : BOOLEAN]

Challenges == [Challenge -> ChallengeRow \cup {NoChallenge}]
Sessions   == [Session -> SessionRow \cup {NoSession}]
Invites    == [Invite -> InviteRow]

\* A challenge never changes its user or its purpose, and stays consumed.
ChallengesKept(old, new) ==
  /\ new \in Challenges
  /\ \A c \in Challenge : old[c] # NoChallenge =>
       /\ new[c].user = old[c].user /\ new[c].purpose = old[c].purpose
       /\ old[c].consumed => new[c].consumed

\* No session is opened, and each keeps its user and its challenge.
SessionsKept(old, new) ==
  /\ new \in Sessions
  /\ \A s \in NewSession :
       /\ new[s] = NoSession <=> old[s] = NoSession
       /\ new[s].user = old[s].user /\ new[s].by = old[s].by

\* No challenge is no login.
LEMMA NoChallengeIsBare ==
  /\ NoChallenge.purpose \notin Purpose
  /\ \A row : row.purpose \in Purpose => row # NoChallenge
<1>1. NoChallenge.purpose = None
  BY DEF NoChallenge
<1>2. None \notin Purpose
  BY DEF None, Purpose
<1>3. QED
  BY <1>1, <1>2

LEMMA ChallengesStay ==
  ASSUME NEW cs \in Challenges
  PROVE  ChallengesKept(cs, cs)
BY DEF ChallengesKept

LEMMA SessionsStay ==
  ASSUME NEW ss \in Sessions
  PROVE  SessionsKept(ss, ss)
BY DEF SessionsKept

LEMMA SupersededKeeps ==
  ASSUME challenge \in Challenges, NEW chosen
  PROVE  ChallengesKept(challenge, Superseded(chosen))
<1>1. ASSUME NEW c \in Challenge
      PROVE  /\ Superseded(chosen)[c] \in ChallengeRow \cup {NoChallenge}
             /\ challenge[c] # NoChallenge =>
                  /\ Superseded(chosen)[c].user = challenge[c].user
                  /\ Superseded(chosen)[c].purpose = challenge[c].purpose
                  /\ challenge[c].consumed => Superseded(chosen)[c].consumed
  <2>1. CASE c \in chosen /\ Live(c)
    <3>1. challenge[c] \in ChallengeRow
      BY <2>1 DEF Live, Challenges
    <3>2. Superseded(chosen)[c] = [challenge[c] EXCEPT !.revoked = TRUE]
      BY <2>1 DEF Superseded
    <3>3. QED
      BY <3>1, <3>2 DEF ChallengeRow
  <2>2. CASE ~(c \in chosen /\ Live(c))
    BY <2>2 DEF Superseded, Challenges
  <2>3. QED
    BY <2>1, <2>2
<1>2. Superseded(chosen) \in Challenges
  <2>1. Superseded(chosen) = [c \in Challenge |-> Superseded(chosen)[c]]
    BY DEF Superseded
  <2>2. QED
    BY <1>1, <2>1 DEF Challenges
<1>3. QED
  BY <1>1, <1>2 DEF ChallengesKept

LEMMA RevokedKeeps ==
  ASSUME session \in Sessions, NEW chosen
  PROVE  SessionsKept(session, Revoked(chosen))
<1>1. ASSUME NEW s \in Session
      PROVE  /\ Revoked(chosen)[s] \in SessionRow \cup {NoSession}
             /\ Revoked(chosen)[s] = NoSession <=> session[s] = NoSession
             /\ Revoked(chosen)[s].user = session[s].user
             /\ Revoked(chosen)[s].by = session[s].by
  <2>1. CASE s \in chosen /\ session[s] # NoSession
    <3>1. session[s] \in SessionRow
      BY <2>1 DEF Sessions
    <3>2. Revoked(chosen)[s] = [session[s] EXCEPT !.revoked = TRUE]
      BY <2>1 DEF Revoked
    <3>3. Revoked(chosen)[s].revoked = TRUE /\ NoSession.revoked = FALSE
      BY <3>1, <3>2 DEF SessionRow, NoSession
    <3>4. QED
      BY <2>1, <3>1, <3>2, <3>3 DEF SessionRow
  <2>2. CASE ~(s \in chosen /\ session[s] # NoSession)
    BY <2>2 DEF Revoked, Sessions
  <2>3. QED
    BY <2>1, <2>2
<1>2. Revoked(chosen) \in Sessions
  <2>1. Revoked(chosen) = [s \in Session |-> Revoked(chosen)[s]]
    BY DEF Revoked
  <2>2. QED
    BY <1>1, <2>1 DEF Sessions
<1>3. QED
  BY <1>1, <1>2 DEF SessionsKept, Session

-----------------------------------------------------------------------------
(* What a request that has begun will still do.                            *)

IsJob(j) ==
  /\ j = [kind |-> j.kind, todo |-> j.todo, by |-> j.by, of |-> j.of, on |-> j.on,
          seen |-> j.seen, count |-> j.count]
  /\ j.count \in Nat

AskSteps   == {<<"register", "supersede", "challenge">>, <<"supersede", "challenge">>,
               <<"challenge">>}
CodeSteps  == {<<"resend">>, <<"miss">>, <<"lock">>}
EnterSteps == {FirstLogin, NextLogin}

\* What a login does once its challenge is consumed, from each step on.
FromVerified == <<"verified", "pending", "invites", "others", "session", "attach">>
FromPending  == <<"pending", "invites", "others", "session", "attach">>
FromInvites  == <<"invites", "others", "session", "attach">>
FromOthers   == <<"others", "session", "attach">>
FromSession  == <<"session", "attach">>

OpenSteps == {FromVerified, FromPending, FromInvites, FromOthers, FromSession}

OtherStep ==
  {"consume", "attach", "keep", "intent", "switch", "forget", "sign off", "repoint", "empty",
   "drop box", "drop cookie", "sign off all", "end",
   "grant", "rotate", "revoke", "remove access", "activate", "deactivate", "revoke sessions",
   "recheck", "convert", "may delete", "check", "tombstone", "lookup", "restore"}

\* A code is about to be sent.
Asking(j) == j.todo \in AskSteps /\ j.of \in User /\ j.by \in Purpose

\* A code is sent again, or a wrong one was entered.
Coding(j, cs) == j.todo \in CodeSteps /\ j.on \in Challenge /\ cs[j.on] # NoChallenge

\* The right code was entered, of a login.
Entered(j, cs) ==
  /\ j.todo \in EnterSteps
  /\ j.on \in Challenge /\ cs[j.on].purpose = "login" /\ cs[j.on].user = j.of

\* The challenge of a login is consumed, and its session is not yet open.
Opening(j, cs, ss) ==
  /\ j.todo \in OpenSteps
  /\ j.on \in Challenge /\ cs[j.on].purpose = "login" /\ cs[j.on].user = j.of
  /\ cs[j.on].consumed
  /\ \A s \in NewSession : ss[s] # NoSession => ss[s].by # j.on
  /\ j.todo = FromInvites => j.seen \subseteq Invite

\* An invitation is made or accepted.
Inviting(j)  == j.todo = <<"invite">> /\ j.of \in Address /\ j.on \in InviteRoles
Accepting(j) == j.todo = <<"accept">> /\ j.on \in Invite

Planned(j, cs, ss) ==
  /\ IsJob(j)
  /\ \/ Asking(j) \/ Coding(j, cs) \/ Entered(j, cs) \/ Opening(j, cs, ss)
     \/ Inviting(j) \/ Accepting(j) \/ j.todo \in Seq(OtherStep)

RowsAreTyped == challenge \in Challenges /\ session \in Sessions /\ invite \in Invites

JobsArePlanned ==
  /\ job = [r \in Req |-> job[r]]
  /\ \A r \in Req : Planned(job[r], challenge, session)

\* No two requests are opening a session for one challenge.
OpeningsAreApart ==
  \A q, r \in Req :
    (q # r /\ job[q].todo \in OpenSteps /\ job[r].todo \in OpenSteps) => job[q].on # job[r].on

\* Every session that was opened names the challenge that opened it.
SessionsNameTheirCode ==
  \A s \in NewSession : session[s] # NoSession => session[s].by \in Challenge

LoginInv ==
  RowsAreTyped /\ JobsArePlanned /\ OpeningsAreApart /\ SessionsNameTheirCode /\ LoginsAreSpent

\* A plan stays one, while no session is opened.
LEMMA PlanIsKept ==
  ASSUME NEW j, NEW cs \in Challenges, NEW ds, NEW ss, NEW ts,
         Planned(j, cs, ss), ChallengesKept(cs, ds), SessionsKept(ss, ts)
  PROVE  Planned(j, ds, ts)
<1>1. \A c \in Challenge : cs[c] # NoChallenge => ds[c] # NoChallenge
  <2>1. \A row : row.purpose \in Purpose => row # NoChallenge
    BY NoChallengeIsBare
  <2>2. \A c \in Challenge : cs[c] # NoChallenge => cs[c].purpose \in Purpose
    BY DEF Challenges, ChallengeRow
  <2>3. QED
    BY <2>1, <2>2 DEF ChallengesKept
<1>2. \A c \in Challenge : cs[c].purpose = "login" => cs[c] # NoChallenge
  BY NoChallengeIsBare DEF Purpose
<1>3. Coding(j, cs) => Coding(j, ds)
  BY <1>1 DEF Coding
<1>4. Entered(j, cs) => Entered(j, ds)
  BY <1>2 DEF Entered, ChallengesKept
<1>5. Opening(j, cs, ss) => Opening(j, ds, ts)
  BY <1>2 DEF Opening, ChallengesKept, SessionsKept
<1>6. QED
  BY <1>3, <1>4, <1>5 DEF Planned

\* A session of a login stays one, while none is opened.
LEMMA LoginsStaySpent ==
  ASSUME RowsAreTyped, SessionsNameTheirCode, LoginsAreSpent,
         ChallengesKept(challenge, challenge'), SessionsKept(session, session')
  PROVE  SessionsNameTheirCode' /\ LoginsAreSpent'
<1>1. ASSUME NEW s \in NewSession, session'[s] # NoSession
      PROVE  /\ session'[s].by \in Challenge /\ challenge[session'[s].by] # NoChallenge
             /\ session[s] # NoSession
  <2>1. session[s] # NoSession /\ session'[s].by = session[s].by
    BY <1>1 DEF SessionsKept
  <2>2. session[s].by \in Challenge /\ challenge[session[s].by].purpose = "login"
    BY <2>1 DEF LoginsAreSpent, SessionsNameTheirCode
  <2>3. QED
    BY <2>1, <2>2, NoChallengeIsBare DEF Purpose
<1>2. QED
  BY <1>1 DEF LoginsAreSpent, SessionsNameTheirCode, ChallengesKept, SessionsKept

LEMMA LoginTails ==
  /\ Tail(FirstLogin) = FromVerified /\ Tail(NextLogin) = FromOthers
  /\ Tail(FromVerified) = FromPending /\ Tail(FromPending) = FromInvites
  /\ Tail(FromInvites) = FromOthers /\ Tail(FromOthers) = FromSession
  /\ FromVerified # FromInvites /\ FromPending # FromInvites
  /\ FromOthers # FromInvites /\ FromSession # FromInvites
BY DEF FirstLogin, NextLogin, FromVerified, FromPending, FromInvites, FromOthers, FromSession

LEMMA LoginHeads ==
  /\ Head(FromVerified) = "verified" /\ Head(FromPending) = "pending"
  /\ Head(FromInvites) = "invites" /\ Head(FromOthers) = "others" /\ Head(FromSession) = "session"
  /\ Len(FirstLogin) # 1 /\ Len(NextLogin) # 1
  /\ \A todo \in OpenSteps :
       /\ todo # <<>> /\ Len(todo) # 1
       /\ Head(todo) \in {"verified", "pending", "invites", "others", "session"}
  /\ Head(FirstLogin) = "consume" /\ Head(NextLogin) = "consume"
BY DEF FirstLogin, NextLogin, FromVerified, FromPending, FromInvites, FromOthers, FromSession, OpenSteps

-----------------------------------------------------------------------------
(* One request goes on, and no session is opened.                          *)

LEMMA StepKeeps ==
  ASSUME LoginInv, NEW r \in Req, NEW j, job' = [job EXCEPT ![r] = j],
         Planned(j, challenge', session'),
         j.todo \in OpenSteps => \A q \in Req \ {r} : job[q].todo \in OpenSteps => job[q].on # j.on,
         ChallengesKept(challenge, challenge'), SessionsKept(session, session'), invite' \in Invites
  PROVE  LoginInv'
<1>1. /\ \A q \in Req \ {r} : job'[q] = job[q]
      /\ job'[r] = j /\ job' = [q \in Req |-> job'[q]]
  BY DEF LoginInv, JobsArePlanned
<1>2. RowsAreTyped'
  BY DEF RowsAreTyped, ChallengesKept, SessionsKept
<1>3. \A q \in Req \ {r} : Planned(job'[q], challenge', session')
  <2>1. SUFFICES ASSUME NEW q \in Req \ {r}
                 PROVE  Planned(job[q], challenge', session')
    BY <1>1
  <2>2. Planned(job[q], challenge, session) /\ challenge \in Challenges
    BY DEF LoginInv, JobsArePlanned, RowsAreTyped
  <2>3. QED
    BY <2>2, PlanIsKept
<1>4. JobsArePlanned'
  BY <1>1, <1>3 DEF JobsArePlanned
<1>5. OpeningsAreApart'
  <2>1. ASSUME NEW p \in Req, NEW q \in Req, p # q, job'[p].todo \in OpenSteps, job'[q].todo \in OpenSteps
        PROVE  job'[p].on # job'[q].on
    <3>1. CASE p # r /\ q # r
      BY <1>1, <2>1, <3>1 DEF LoginInv, OpeningsAreApart
    <3>2. CASE p = r
      BY <1>1, <2>1, <3>2
    <3>3. CASE q = r
      BY <1>1, <2>1, <3>3
    <3>4. QED
      BY <3>1, <3>2, <3>3
  <2>2. QED
    BY <2>1 DEF OpeningsAreApart
<1>6. SessionsNameTheirCode' /\ LoginsAreSpent'
  BY LoginsStaySpent DEF LoginInv
<1>7. QED
  BY <1>2, <1>4, <1>5, <1>6 DEF LoginInv

\* A plan that opens no session and sends no code asks nothing of the rows.
LEMMA OtherPlan ==
  ASSUME NEW j, IsJob(j), j.todo \in Seq(OtherStep), NEW cs, NEW ss
  PROVE  Planned(j, cs, ss) /\ j.todo \notin OpenSteps
<1>1. ASSUME j.todo \in OpenSteps
      PROVE  FALSE
  <2>1. j.todo # <<>> /\ Head(j.todo) \in {"verified", "pending", "invites", "others", "session"}
    BY <1>1, LoginHeads
  <2>2. Head(j.todo) \in OtherStep
    BY <2>1
  <2>3. QED
    BY <2>1, <2>2 DEF OtherStep
<1>2. QED
  BY <1>1 DEF Planned

LEMMA IdleIsPlanned == IsJob(Idle) /\ Idle.todo \in Seq(OtherStep)
BY DEF IsJob, Idle

\* What remains of such a plan.
LEMMA RestOfOther ==
  ASSUME NEW j, IsJob(j), j.todo \in Seq(OtherStep), j.todo # <<>>
  PROVE  IsJob(Rest(j)) /\ Rest(j).todo \in Seq(OtherStep)
<1>1. CASE Len(j.todo) = 1
  BY <1>1, IdleIsPlanned DEF Rest
<1>2. CASE Len(j.todo) # 1
  <2>1. Rest(j) = [j EXCEPT !.todo = Tail(j.todo)]
    BY <1>2 DEF Rest
  <2>2. Tail(j.todo) \in Seq(OtherStep)
    OBVIOUS
  <2>3. QED
    BY <2>1, <2>2 DEF IsJob
<1>3. QED
  BY <1>1, <1>2

\* The next step tells which plan a request is on.
LEMMA PlanOfStep ==
  ASSUME LoginInv, NEW r \in Req, NEW step, At(r, step)
  PROVE  /\ IsJob(job[r]) /\ job[r].todo # <<>>
         /\ step \in OtherStep \ {"consume"} => job[r].todo \in Seq(OtherStep)
         /\ step = "consume" => \/ Entered(job[r], challenge)
                               \/ job[r].todo \in Seq(OtherStep)
         /\ step \in {"verified", "pending", "invites", "others", "session"} =>
              Opening(job[r], challenge, session) /\ Head(job[r].todo) = step
         /\ step \in {"register", "supersede", "challenge"} => Asking(job[r])
         /\ step \in {"resend", "miss", "lock"} => Coding(job[r], challenge)
         /\ step = "invite" => Inviting(job[r])
         /\ step = "accept" => Accepting(job[r])
<1> DEFINE j == job[r]
<1>1. Planned(j, challenge, session) /\ j.todo # <<>> /\ Head(j.todo) = step
  BY DEF LoginInv, JobsArePlanned, At
<1>2. Asking(j) => step \in {"register", "supersede", "challenge"}
  BY <1>1 DEF Asking, AskSteps
<1>3. Coding(j, challenge) => step \in {"resend", "miss", "lock"}
  BY <1>1 DEF Coding, CodeSteps
<1>4. Entered(j, challenge) => step = "consume"
  BY <1>1 DEF Entered, EnterSteps, FirstLogin, NextLogin
<1>5. Opening(j, challenge, session) => step \in {"verified", "pending", "invites", "others", "session"}
  BY <1>1, LoginHeads DEF Opening
<1>6. (Inviting(j) => step = "invite") /\ (Accepting(j) => step = "accept")
  BY <1>1 DEF Inviting, Accepting
<1>7. j.todo \in Seq(OtherStep) => step \in OtherStep
  BY <1>1
<1> HIDE DEF j
<1>8. /\ IsJob(j)
      /\ \/ Asking(j) \/ Coding(j, challenge) \/ Entered(j, challenge) \/ Opening(j, challenge, session)
         \/ Inviting(j) \/ Accepting(j) \/ j.todo \in Seq(OtherStep)
  BY <1>1 DEF Planned
<1>9. /\ IsJob(j) /\ j.todo # <<>>
      /\ step \in OtherStep \ {"consume"} => j.todo \in Seq(OtherStep)
      /\ step = "consume" => Entered(j, challenge) \/ j.todo \in Seq(OtherStep)
      /\ step \in {"verified", "pending", "invites", "others", "session"} =>
           Opening(j, challenge, session) /\ Head(j.todo) = step
      /\ step \in {"register", "supersede", "challenge"} => Asking(j)
      /\ step \in {"resend", "miss", "lock"} => Coding(j, challenge)
      /\ step = "invite" => Inviting(j)
      /\ step = "accept" => Accepting(j)
  BY <1>1, <1>2, <1>3, <1>4, <1>5, <1>6, <1>7, <1>8 DEF OtherStep
<1>10. QED
  BY <1>9 DEF j

\* A handler begins.
LEMMA BeginKeeps ==
  ASSUME LoginInv, NEW r \in Req, NEW j, Begin(r, j),
         Planned(j, challenge, session), j.todo \notin OpenSteps
  PROVE  LoginInv'
<1>1. /\ job' = [job EXCEPT ![r] = j]
      /\ challenge' = challenge /\ session' = session /\ invite' = invite
  BY DEF Begin, rows
<1>2. /\ challenge \in Challenges /\ session \in Sessions /\ invite \in Invites
  BY DEF LoginInv, RowsAreTyped
<1>3. ChallengesKept(challenge, challenge') /\ SessionsKept(session, session')
  BY <1>1, <1>2, ChallengesStay, SessionsStay
<1>4. Planned(j, challenge', session')
  BY <1>1
<1>5. QED
  BY <1>1, <1>2, <1>3, <1>4, StepKeeps

\* A handler goes on with such a plan, or ends.
LEMMA OtherKeeps ==
  ASSUME LoginInv, NEW r \in Req, NEW j, job' = [job EXCEPT ![r] = j],
         IsJob(j), j.todo \in Seq(OtherStep),
         ChallengesKept(challenge, challenge'), SessionsKept(session, session'), invite' \in Invites
  PROVE  LoginInv'
<1>1. Planned(j, challenge', session') /\ j.todo \notin OpenSteps
  BY OtherPlan
<1>2. QED
  BY <1>1, StepKeeps

LEMMA FinishKeeps ==
  ASSUME LoginInv, NEW r \in Req, Finish(r),
         ChallengesKept(challenge, challenge'), SessionsKept(session, session'), invite' \in Invites
  PROVE  LoginInv'
<1>1. job' = [job EXCEPT ![r] = Idle]
  BY DEF Finish, Set
<1>2. QED
  BY <1>1, IdleIsPlanned, OtherKeeps

LEMMA ProceedKeeps ==
  ASSUME LoginInv, NEW r \in Req, NEW step \in OtherStep \ {"consume"}, At(r, step), Proceed(r),
         ChallengesKept(challenge, challenge'), SessionsKept(session, session'), invite' \in Invites
  PROVE  LoginInv'
<1>1. job' = [job EXCEPT ![r] = Rest(job[r])]
  BY DEF Proceed, Set
<1>2. IsJob(job[r]) /\ job[r].todo \in Seq(OtherStep) /\ job[r].todo # <<>>
  BY PlanOfStep
<1>3. PICK j : j = Rest(job[r])
  OBVIOUS
<1>4. IsJob(j) /\ j.todo \in Seq(OtherStep)
  BY <1>2, <1>3, RestOfOther
<1>5. QED
  BY <1>1, <1>3, <1>4, OtherKeeps

\* The rows of logins stay as they are.
LEMMA RowsStay ==
  ASSUME LoginInv, UNCHANGED <<challenge, session, invite>>
  PROVE  /\ ChallengesKept(challenge, challenge')
         /\ SessionsKept(session, session')
         /\ invite' \in Invites
BY ChallengesStay, SessionsStay DEF LoginInv, RowsAreTyped

LEMMA SupersedingKeeps ==
  ASSUME LoginInv, NEW chosen, challenge' = Superseded(chosen)
  PROVE  ChallengesKept(challenge, challenge')
BY SupersededKeeps DEF LoginInv, RowsAreTyped

LEMMA RevokingKeeps ==
  ASSUME LoginInv, NEW chosen, session' = Revoked(chosen)
  PROVE  SessionsKept(session, session')
BY RevokedKeeps DEF LoginInv, RowsAreTyped


-----------------------------------------------------------------------------
(* One request at a time: what it may count on.                            *)

\* The steps that leave users and access as they are, and ask nothing of them.
CalmStep ==
  {"consume", "attach", "keep", "intent", "switch", "forget", "sign off", "repoint", "empty",
   "drop box", "drop cookie", "sign off all", "end",
   "rotate", "revoke", "revoke sessions", "lookup", "restore"}

PresentIn(us) == {u \in User : us[u].active /\ ~us[u].deleted}

\* An account is deleted by a check and, right after it, the write.
Checking(todo) ==
  /\ todo # <<>> /\ Head(todo) = "check"
  /\ Tail(todo) # <<>> /\ Head(Tail(todo)) = "tombstone"
  /\ Tail(Tail(todo)) \in Seq(CalmStep)

Erasing(todo) == todo # <<>> /\ Head(todo) = "tombstone" /\ Tail(todo) \in Seq(CalmStep)

\* What those who manage accounts have seen of them still holds.
Guarded(j, us, ac) ==
  \/ j.todo \in Seq(CalmStep)
  \/ j.todo \in {<<"grant">>, <<"activate">>} /\ ~us[j.of].deleted
  \/ j.todo = <<"deactivate">> /\ Owners(ac, PresentIn(us)) # {j.of}
  \/ /\ j.todo = <<"remove access">>
     /\ \A u \in User : j.on = <<u, "owner", "company">> => Owners(ac, PresentIn(us)) # {u}
  \/ /\ j.todo \in {<<"recheck", "convert">>, <<"convert">>}
     /\ ~us[j.of].deleted /\ j.on \in DOMAIN Counterpart
  \/ j.todo \in {<<"consume", "may delete", "check", "tombstone">>,
                 <<"may delete", "check", "tombstone">>}
  \/ Checking(j.todo)
  \/ Erasing(j.todo) /\ ~SoleOwnerBlocks(ac, PresentIn(us), j.of)

\* What the handler of a plan has seen of the accounts still holds of them.
Grounded(j, us, ac) ==
  /\ j.todo \in AskSteps =>
       \/ j.by = "account_restore" \/ ~us[j.of].deleted
       \/ j.todo = <<"register", "supersede", "challenge">>
  /\ j.todo \in EnterSteps \cup OpenSteps => us[j.of].active
  /\ j.todo = <<"accept">> => ~us[j.of].deleted
  /\ j.todo \in Seq(OtherStep) => Guarded(j, us, ac)

IsUser(x) == x = [active |-> x.active, deleted |-> x.deleted, verified |-> x.verified,
                  address |-> x.address]

UsersAreShaped == user = [u \in User |-> user[u]] /\ \A u \in User : IsUser(user[u])

\* The parts of LeftAccountsHoldNothing.
InactiveAreSignedOff ==
  \A s \in Session : session[s] # NoSession /\ ~session[s].revoked => user[session[s].user].active

DeletedAreBare ==
  \A u \in User : user[u].deleted =>
    ~user[u].active /\ RolesIn(access, u) = {} /\ user[u].address = None

DeletedHaveNoCode ==
  \A u \in User, c \in Challenge :
    user[u].deleted /\ Live(c) /\ challenge[c].user = u => challenge[c].purpose = "account_restore"

RowsAreKept ==
  InactiveAreSignedOff /\ DeletedAreBare /\ DeletedHaveNoCode /\ Owners(access, Present) # {}

AccountsAreKept == RowsAreKept /\ \A r \in Req : Grounded(job[r], user, access)

SlotInv ==
  /\ LoginInv /\ UsersAreShaped
  /\ scenario \in Scenarios
  /\ \A r \in Req \ scenario.slots : job[r] = Idle
  /\ OneAtATime => AccountsAreKept

LEMMA PlanHeads ==
  ASSUME NEW todo, todo # <<>>
  PROVE  /\ todo \in AskSteps => Head(todo) \in {"register", "supersede", "challenge"}
         /\ todo \in CodeSteps => Head(todo) \in {"resend", "miss", "lock"}
         /\ todo \in EnterSteps => Head(todo) = "consume"
         /\ todo \in OpenSteps => Head(todo) \in {"verified", "pending", "invites", "others", "session"}
         /\ todo = <<"accept">> => Head(todo) = "accept"
         /\ todo = <<"invite">> => Head(todo) = "invite"
         /\ todo \in Seq(OtherStep) => Head(todo) \in OtherStep
<1>1. todo \in AskSteps => Head(todo) \in {"register", "supersede", "challenge"}
  BY DEF AskSteps
<1>2. todo \in CodeSteps => Head(todo) \in {"resend", "miss", "lock"}
  BY DEF CodeSteps
<1>3. todo \in EnterSteps => Head(todo) = "consume"
  BY LoginHeads DEF EnterSteps
<1>4. QED
  BY <1>1, <1>2, <1>3, LoginHeads

\* A plan whose next step changes no account asks nothing of them.
LEMMA FreePlan ==
  ASSUME NEW j, j.todo # <<>>, Head(j.todo) \in {"resend", "miss", "lock", "invite"}, NEW us, NEW ac
  PROVE  Grounded(j, us, ac)
<1>1. /\ j.todo \notin AskSteps /\ j.todo \notin EnterSteps /\ j.todo \notin OpenSteps
      /\ j.todo # <<"accept">> /\ j.todo \notin Seq(OtherStep)
  BY PlanHeads DEF OtherStep
<1>2. QED
  BY <1>1 DEF Grounded

LEMMA CalmIsOther == CalmStep \subseteq OtherStep
BY DEF CalmStep, OtherStep

LEMMA CalmPlan ==
  ASSUME NEW j, j.todo \in Seq(CalmStep), NEW us, NEW ac
  PROVE  Grounded(j, us, ac)
<1>1. CASE j.todo = <<>>
  BY <1>1, LoginHeads DEF Grounded, Guarded, AskSteps, EnterSteps, FirstLogin, NextLogin
<1>2. CASE j.todo # <<>>
  <2>1. Head(j.todo) \in CalmStep
    BY <1>2
  <2>2. j.todo \notin AskSteps /\ j.todo \notin OpenSteps /\ j.todo # <<"accept">>
    BY <1>2, <2>1, PlanHeads DEF CalmStep
  <2>3. j.todo \notin EnterSteps
    <3>1. SUFFICES ASSUME j.todo \in EnterSteps
                   PROVE  FALSE
      OBVIOUS
    <3>2. Tail(j.todo) \in {FromVerified, FromOthers}
      BY <3>1, LoginTails DEF EnterSteps
    <3>3. Tail(j.todo) \in Seq(CalmStep) /\ Tail(j.todo) # <<>>
      BY <1>2, <3>2, LoginHeads DEF OpenSteps
    <3>4. Head(Tail(j.todo)) \in CalmStep
      BY <3>3
    <3>5. QED
      BY <3>2, <3>4, LoginHeads DEF CalmStep
  <2>4. QED
    BY <2>2, <2>3 DEF Grounded, Guarded
<1>3. QED
  BY <1>1, <1>2

LEMMA IdleIsGrounded ==
  ASSUME NEW us, NEW ac
  PROVE  Grounded(Idle, us, ac)
<1>1. Idle.todo \in Seq(CalmStep)
  BY DEF Idle
<1>2. QED
  BY <1>1, CalmPlan

LEMMA RestOfCalm ==
  ASSUME NEW j, IsJob(j), j.todo \in Seq(CalmStep), j.todo # <<>>
  PROVE  IsJob(Rest(j)) /\ Rest(j).todo \in Seq(CalmStep)
<1>1. CASE Len(j.todo) = 1
  BY <1>1, IdleIsPlanned DEF Rest, Idle
<1>2. CASE Len(j.todo) # 1
  <2>1. Rest(j) = [j EXCEPT !.todo = Tail(j.todo)]
    BY <1>2 DEF Rest
  <2>2. Tail(j.todo) \in Seq(CalmStep)
    OBVIOUS
  <2>3. QED
    BY <2>1, <2>2 DEF IsJob
<1>3. QED
  BY <1>1, <1>2

LEMMA GuardedHeads ==
  /\ Head(<<"grant">>) = "grant" /\ Head(<<"activate">>) = "activate"
  /\ Head(<<"deactivate">>) = "deactivate" /\ Head(<<"remove access">>) = "remove access"
  /\ Head(<<"recheck", "convert">>) = "recheck" /\ Head(<<"convert">>) = "convert"
  /\ Head(<<"consume", "may delete", "check", "tombstone">>) = "consume"
  /\ Head(<<"may delete", "check", "tombstone">>) = "may delete"
  /\ <<"grant">> # <<>> /\ <<"activate">> # <<>> /\ <<"deactivate">> # <<>>
  /\ <<"remove access">> # <<>> /\ <<"recheck", "convert">> # <<>>
OBVIOUS

\* The next step tells what the plan asks of the accounts.
LEMMA GroundOfStep ==
  ASSUME NEW j, NEW us, NEW ac, Grounded(j, us, ac), j.todo \in Seq(OtherStep), j.todo # <<>>,
         NEW step, Head(j.todo) = step
  PROVE  /\ step \in CalmStep \ {"consume"} => j.todo \in Seq(CalmStep)
         /\ step = "consume" => \/ j.todo \in Seq(CalmStep)
                               \/ j.todo = <<"consume", "may delete", "check", "tombstone">>
         /\ step = "grant" => j.todo = <<"grant">> /\ ~us[j.of].deleted
         /\ step = "activate" => j.todo = <<"activate">> /\ ~us[j.of].deleted
         /\ step = "deactivate" => j.todo = <<"deactivate">> /\ Owners(ac, PresentIn(us)) # {j.of}
         /\ step = "remove access" =>
              /\ j.todo = <<"remove access">>
              /\ \A u \in User : j.on = <<u, "owner", "company">> => Owners(ac, PresentIn(us)) # {u}
         /\ step \in {"recheck", "convert"} =>
              /\ j.todo = IF step = "recheck" THEN <<"recheck", "convert">> ELSE <<"convert">>
              /\ ~us[j.of].deleted /\ j.on \in DOMAIN Counterpart
         /\ step = "may delete" => j.todo = <<"may delete", "check", "tombstone">>
         /\ step = "check" => Checking(j.todo)
         /\ step = "tombstone" => Erasing(j.todo) /\ ~SoleOwnerBlocks(ac, PresentIn(us), j.of)
<1>1. /\ j.todo \in Seq(CalmStep) => step \in CalmStep
      /\ j.todo = <<"grant">> => step = "grant"
      /\ j.todo = <<"activate">> => step = "activate"
      /\ j.todo = <<"deactivate">> => step = "deactivate"
      /\ j.todo = <<"remove access">> => step = "remove access"
      /\ j.todo = <<"recheck", "convert">> => step = "recheck"
      /\ j.todo = <<"convert">> => step = "convert"
      /\ j.todo = <<"consume", "may delete", "check", "tombstone">> => step = "consume"
      /\ j.todo = <<"may delete", "check", "tombstone">> => step = "may delete"
      /\ Checking(j.todo) => step = "check"
      /\ Erasing(j.todo) => step = "tombstone"
  <2>1. j.todo \in Seq(CalmStep) => step \in CalmStep
    OBVIOUS
  <2>2. /\ j.todo = <<"grant">> => step = "grant"
        /\ j.todo = <<"activate">> => step = "activate"
        /\ j.todo = <<"deactivate">> => step = "deactivate"
        /\ j.todo = <<"remove access">> => step = "remove access"
        /\ j.todo = <<"recheck", "convert">> => step = "recheck"
        /\ j.todo = <<"convert">> => step = "convert"
        /\ j.todo = <<"consume", "may delete", "check", "tombstone">> => step = "consume"
        /\ j.todo = <<"may delete", "check", "tombstone">> => step = "may delete"
    BY GuardedHeads, Zenon
  <2>3. (Checking(j.todo) => step = "check") /\ (Erasing(j.todo) => step = "tombstone")
    BY DEF Checking, Erasing
  <2>4. QED
    BY <2>1, <2>2, <2>3
<1>2. /\ "consume" \in CalmStep
      /\ CalmStep \cap {"grant", "activate", "deactivate", "remove access", "recheck", "convert",
                       "may delete", "check", "tombstone"} = {}
  BY DEF CalmStep
<1>3. \/ j.todo \in Seq(CalmStep)
      \/ j.todo \in {<<"grant">>, <<"activate">>} /\ ~us[j.of].deleted
      \/ j.todo = <<"deactivate">> /\ Owners(ac, PresentIn(us)) # {j.of}
      \/ /\ j.todo = <<"remove access">>
         /\ \A u \in User : j.on = <<u, "owner", "company">> => Owners(ac, PresentIn(us)) # {u}
      \/ /\ j.todo \in {<<"recheck", "convert">>, <<"convert">>}
         /\ ~us[j.of].deleted /\ j.on \in DOMAIN Counterpart
      \/ j.todo \in {<<"consume", "may delete", "check", "tombstone">>,
                     <<"may delete", "check", "tombstone">>}
      \/ Checking(j.todo)
      \/ Erasing(j.todo) /\ ~SoleOwnerBlocks(ac, PresentIn(us), j.of)
  BY DEF Grounded, Guarded
<1>4. CASE j.todo \in Seq(CalmStep)
  BY <1>1, <1>2, <1>4
<1>5. CASE j.todo \in {<<"grant">>, <<"activate">>} /\ ~us[j.of].deleted
  BY <1>1, <1>2, <1>5
<1>6. CASE j.todo = <<"deactivate">> /\ Owners(ac, PresentIn(us)) # {j.of}
  BY <1>1, <1>2, <1>6
<1>7. CASE /\ j.todo = <<"remove access">>
           /\ \A u \in User : j.on = <<u, "owner", "company">> => Owners(ac, PresentIn(us)) # {u}
  BY <1>1, <1>2, <1>7
<1>8. CASE /\ j.todo \in {<<"recheck", "convert">>, <<"convert">>}
           /\ ~us[j.of].deleted /\ j.on \in DOMAIN Counterpart
  BY <1>1, <1>2, <1>8
<1>9. CASE j.todo \in {<<"consume", "may delete", "check", "tombstone">>,
                       <<"may delete", "check", "tombstone">>}
  BY <1>1, <1>2, <1>9
<1>10. CASE Checking(j.todo)
  BY <1>1, <1>2, <1>10
<1>11. CASE Erasing(j.todo) /\ ~SoleOwnerBlocks(ac, PresentIn(us), j.of)
  BY <1>1, <1>2, <1>11
<1>12. QED
  BY <1>3, <1>4, <1>5, <1>6, <1>7, <1>8, <1>9, <1>10, <1>11

\* A code is about to be sent to an account that may have it.
LEMMA AskGround ==
  ASSUME NEW j, j.todo \in AskSteps, NEW us, NEW ac, j.by = "account_restore" \/ ~us[j.of].deleted
  PROVE  Grounded(j, us, ac)
<1>1. j.todo # <<>> /\ Head(j.todo) \in {"register", "supersede", "challenge"}
  BY DEF AskSteps
<1>2. /\ j.todo \notin EnterSteps /\ j.todo \notin OpenSteps /\ j.todo # <<"accept">>
      /\ j.todo \notin Seq(OtherStep)
  BY <1>1, PlanHeads DEF OtherStep
<1>3. QED
  BY <1>2 DEF Grounded

\* A session is about to be opened for an account that is active.
LEMMA OpenGround ==
  ASSUME NEW j, j.todo \in OpenSteps, NEW us, NEW ac, us[j.of].active
  PROVE  Grounded(j, us, ac)
<1>1. j.todo # <<>> /\ Head(j.todo) \in {"verified", "pending", "invites", "others", "session"}
  BY LoginHeads
<1>2. j.todo \notin AskSteps /\ j.todo # <<"accept">> /\ j.todo \notin Seq(OtherStep)
  BY <1>1, PlanHeads DEF OtherStep
<1>3. QED
  BY <1>2 DEF Grounded

\* What manages accounts, once begun.
LEMMA GuardedGround ==
  ASSUME NEW j, j.todo \in Seq(OtherStep), j.todo # <<>>, Head(j.todo) # "consume",
         NEW us, NEW ac, Guarded(j, us, ac)
  PROVE  Grounded(j, us, ac)
<1>1. j.todo \notin AskSteps /\ j.todo \notin EnterSteps /\ j.todo \notin OpenSteps
      /\ j.todo # <<"accept">>
  BY PlanHeads DEF OtherStep
<1>2. QED
  BY <1>1 DEF Grounded

\* A step of a request is one of the slots' requests.
LEMMA StepHasSlot ==
  ASSUME SlotInv, NEW r \in Req, NEW step, At(r, step)
  PROVE  r \in scenario.slots
<1>1. Idle.todo = <<>>
  BY DEF Idle
<1>2. QED
  BY <1>1 DEF SlotInv, At

\* The one request goes on.
LEMMA SlotStep ==
  ASSUME SlotInv, LoginInv', UsersAreShaped', scenario' = scenario,
         NEW r \in Req, r \in scenario.slots, NEW j, job' = [job EXCEPT ![r] = j],
         OneAtATime => RowsAreKept' /\ Grounded(j, user', access')
  PROVE  SlotInv'
<1>1. /\ \A q \in Req \ {r} : job'[q] = job[q]
      /\ job'[r] = j
  BY DEF SlotInv, LoginInv, JobsArePlanned
<1>2. \A q \in Req \ scenario'.slots : job'[q] = Idle
  BY <1>1 DEF SlotInv
<1>3. OneAtATime' => OneAtATime
  BY DEF OneAtATime
<1>4. ASSUME OneAtATime
      PROVE  AccountsAreKept'
  <2>1. PICK x : scenario.slots = {x}
    <3>1. IsFiniteSet(scenario.slots)
      BY ScenarioAssumption DEF SlotInv
    <3>2. QED
      BY <1>4, <3>1, FS_Singleton DEF OneAtATime
  <2>2. \A q \in Req \ {r} : job'[q] = Idle
    BY <1>1, <2>1 DEF SlotInv
  <2>3. \A q \in Req : Grounded(job'[q], user', access')
    BY <1>1, <1>4, <2>2, IdleIsGrounded
  <2>4. QED
    BY <1>4, <2>3 DEF AccountsAreKept
<1>5. QED
  BY <1>2, <1>3, <1>4 DEF SlotInv

LiveIn(cs, c) == cs[c] # NoChallenge /\ ~cs[c].consumed /\ ~cs[c].revoked

\* No code comes to be live or another's.
CodesCalm(old, new) ==
  \A c \in Challenge : LiveIn(new, c) =>
    LiveIn(old, c) /\ new[c].user = old[c].user /\ new[c].purpose = old[c].purpose

\* No session is opened, and none is brought back.
SessionsCalm(old, new) ==
  \A s \in Session : new[s] # NoSession /\ ~new[s].revoked =>
    old[s] # NoSession /\ ~old[s].revoked /\ new[s].user = old[s].user

LEMMA SameIsCalm ==
  ASSUME NEW cs, NEW ss
  PROVE  CodesCalm(cs, cs) /\ SessionsCalm(ss, ss)
BY DEF CodesCalm, SessionsCalm

LEMMA SupersededIsCalm ==
  ASSUME challenge \in Challenges, NEW chosen
  PROVE  /\ CodesCalm(challenge, Superseded(chosen))
         /\ \A c \in Challenge : LiveIn(Superseded(chosen), c) => c \notin chosen
<1>1. SUFFICES ASSUME NEW c \in Challenge, LiveIn(Superseded(chosen), c)
               PROVE  c \notin chosen /\ Superseded(chosen)[c] = challenge[c]
  BY DEF CodesCalm, LiveIn
<1>2. ASSUME c \in chosen /\ Live(c)
      PROVE  FALSE
  <2>1. challenge[c] \in ChallengeRow
    BY <1>2 DEF Live, Challenges
  <2>2. Superseded(chosen)[c] = [challenge[c] EXCEPT !.revoked = TRUE]
    BY <1>2 DEF Superseded
  <2>3. Superseded(chosen)[c].revoked
    BY <2>1, <2>2 DEF ChallengeRow
  <2>4. QED
    BY <1>1, <2>3 DEF LiveIn
<1>3. Superseded(chosen)[c] = challenge[c]
  BY <1>2 DEF Superseded
<1>4. QED
  BY <1>1, <1>2, <1>3 DEF Live, LiveIn

LEMMA RevokedIsCalm ==
  ASSUME session \in Sessions, NEW chosen
  PROVE  /\ SessionsCalm(session, Revoked(chosen))
         /\ \A s \in Session : Revoked(chosen)[s] # NoSession /\ ~Revoked(chosen)[s].revoked =>
              s \notin chosen
<1>1. SUFFICES ASSUME NEW s \in Session, Revoked(chosen)[s] # NoSession, ~Revoked(chosen)[s].revoked
               PROVE  s \notin chosen /\ Revoked(chosen)[s] = session[s]
  BY DEF SessionsCalm
<1>2. ASSUME s \in chosen /\ session[s] # NoSession
      PROVE  FALSE
  <2>1. session[s] \in SessionRow
    BY <1>2 DEF Sessions
  <2>2. Revoked(chosen)[s] = [session[s] EXCEPT !.revoked = TRUE]
    BY <1>2 DEF Revoked
  <2>3. Revoked(chosen)[s].revoked
    BY <2>1, <2>2 DEF SessionRow
  <2>4. QED
    BY <1>1, <2>3
<1>3. Revoked(chosen)[s] = session[s]
  BY <1>2 DEF Revoked
<1>4. QED
  BY <1>1, <1>2, <1>3

\* The accounts keep their standing, access is given to none that is deleted,
\* and neither a session nor a code appears.
LEMMA StandingKeeps ==
  ASSUME LoginInv, RowsAreKept,
         \A u \in User : /\ user'[u].active = user[u].active /\ user'[u].deleted = user[u].deleted
                         /\ user'[u].address = user[u].address,
         access \subseteq access',
         \A u \in User : user[u].deleted => \A row \in access' \ access : row[1] # u,
         CodesCalm(challenge, challenge'), SessionsCalm(session, session')
  PROVE  RowsAreKept'
<1>1. InactiveAreSignedOff'
  BY DEF RowsAreKept, InactiveAreSignedOff, SessionsCalm, LoginInv, RowsAreTyped, Sessions, SessionRow
<1>2. DeletedAreBare'
  BY DEF RowsAreKept, DeletedAreBare, RolesIn
<1>3. DeletedHaveNoCode'
  BY DEF RowsAreKept, DeletedHaveNoCode, CodesCalm, LiveIn, Live
<1>4. (Owners(access, Present) # {})'
  BY DEF RowsAreKept, Owners, Present, Active
<1>5. QED
  BY <1>1, <1>2, <1>3, <1>4 DEF RowsAreKept

LEMMA CalmRows ==
  ASSUME LoginInv, RowsAreKept, UNCHANGED <<user, access>>,
         CodesCalm(challenge, challenge'), SessionsCalm(session, session')
  PROVE  RowsAreKept'
BY StandingKeeps

LEMMA CalmKeeps ==
  ASSUME SlotInv, LoginInv', scenario' = scenario, UNCHANGED <<user, access>>,
         NEW r \in Req, r \in scenario.slots, NEW j, job' = [job EXCEPT ![r] = j],
         CodesCalm(challenge, challenge'), SessionsCalm(session, session'),
         OneAtATime => Grounded(j, user, access)
  PROVE  SlotInv'
<1>1. UsersAreShaped'
  BY DEF UsersAreShaped, SlotInv, IsUser
<1>2. ASSUME OneAtATime
      PROVE  RowsAreKept'
  BY <1>2, CalmRows DEF SlotInv, AccountsAreKept
<1>3. QED
  BY <1>1, <1>2, SlotStep

LEMMA EventIsCalm ==
  ASSUME SlotInv, LoginInv', scenario' = scenario, UNCHANGED <<user, access, job>>,
         CodesCalm(challenge, challenge'), SessionsCalm(session, session')
  PROVE  SlotInv'
<1>1. UsersAreShaped'
  BY DEF UsersAreShaped, SlotInv, IsUser
<1>2. ASSUME OneAtATime
      PROVE  AccountsAreKept'
  BY <1>2, CalmRows DEF SlotInv, AccountsAreKept
<1>3. (OneAtATime' => OneAtATime) /\ \A r \in Req \ scenario'.slots : job'[r] = Idle
  BY DEF OneAtATime, SlotInv
<1>4. QED
  BY <1>1, <1>2, <1>3 DEF SlotInv

LEMMA BeginSlot ==
  ASSUME SlotInv, LoginInv', NEW r \in Req, NEW j, Begin(r, j),
         OneAtATime => Grounded(j, user, access)
  PROVE  SlotInv'
<1>1. /\ scenario' = scenario /\ UNCHANGED <<user, access>> /\ r \in scenario.slots
      /\ job' = [job EXCEPT ![r] = j] /\ challenge' = challenge /\ session' = session
  BY DEF Begin, rows
<1>2. CodesCalm(challenge, challenge') /\ SessionsCalm(session, session')
  BY <1>1, SameIsCalm
<1>3. QED
  BY <1>1, <1>2, CalmKeeps

\* A handler ends, or goes on with such a plan.
LEMMA FinishCalm ==
  ASSUME SlotInv, LoginInv', NEW r \in Req, r \in scenario.slots, Finish(r), UNCHANGED <<user, access>>,
         CodesCalm(challenge, challenge'), SessionsCalm(session, session')
  PROVE  SlotInv'
<1>1. scenario' = scenario /\ job' = [job EXCEPT ![r] = Idle]
  BY DEF Finish, Set
<1>2. QED
  BY <1>1, CalmKeeps, IdleIsGrounded

LEMMA ProceedCalm ==
  ASSUME SlotInv, LoginInv', NEW r \in Req, NEW step \in CalmStep \ {"consume"}, At(r, step), Proceed(r),
         UNCHANGED <<user, access>>,
         CodesCalm(challenge, challenge'), SessionsCalm(session, session')
  PROVE  SlotInv'
<1>1. scenario' = scenario /\ job' = [job EXCEPT ![r] = Rest(job[r])] /\ r \in scenario.slots
  BY StepHasSlot DEF Proceed, Set
<1>2. PICK j : j = Rest(job[r])
  OBVIOUS
<1>3. step \in OtherStep \ {"consume"}
  BY CalmIsOther
<1>4. IsJob(job[r]) /\ job[r].todo \in Seq(OtherStep) /\ job[r].todo # <<>>
  BY <1>3, PlanOfStep DEF SlotInv
<1>5. ASSUME OneAtATime
      PROVE  Grounded(j, user, access)
  <2>1. Grounded(job[r], user, access) /\ Head(job[r].todo) = step
    BY <1>5 DEF SlotInv, AccountsAreKept, At
  <2>2. job[r].todo \in Seq(CalmStep)
    BY <1>4, <2>1, GroundOfStep
  <2>3. QED
    BY <1>2, <1>4, <2>2, RestOfCalm, CalmPlan
<1>6. job' = [job EXCEPT ![r] = j]
  BY <1>1, <1>2
<1>7. QED
  BY <1>1, <1>5, <1>6, CalmKeeps

-----------------------------------------------------------------------------
(* Handlers begin.                                                         *)

\* A plan that a handler may begin with.
Fits(j) ==
  /\ Planned(j, challenge, session) /\ j.todo \notin OpenSteps
  /\ AccountsAreKept => Grounded(j, user, access)

LEMMA BeginFits ==
  ASSUME LoginInv, NEW r \in Req, \E j : Begin(r, j) /\ Fits(j)
  PROVE  LoginInv' /\ (SlotInv => SlotInv')
<1>1. PICK j : Begin(r, j) /\ Fits(j)
  OBVIOUS
<1>2. LoginInv'
  BY <1>1, BeginKeeps DEF Fits
<1>3. ASSUME SlotInv
      PROVE  SlotInv'
  <2>1. OneAtATime => Grounded(j, user, access)
    BY <1>1, <1>3 DEF Fits, SlotInv
  <2>2. QED
    BY <1>1, <1>2, <1>3, <2>1, BeginSlot
<1>4. QED
  BY <1>2, <1>3

LEMMA CalmFits ==
  ASSUME LoginInv, NEW j, IsJob(j), j.todo \in Seq(CalmStep)
  PROVE  Fits(j)
<1>1. j.todo \in Seq(OtherStep)
  BY CalmIsOther
<1>2. Planned(j, challenge, session) /\ j.todo \notin OpenSteps
  BY <1>1, OtherPlan
<1>3. Grounded(j, user, access)
  BY CalmPlan
<1>4. QED
  BY <1>2, <1>3 DEF Fits

LEMMA GuardedFits ==
  ASSUME LoginInv, NEW j, IsJob(j), j.todo \in Seq(OtherStep), j.todo # <<>>, Head(j.todo) # "consume",
         AccountsAreKept => Guarded(j, user, access)
  PROVE  Fits(j)
<1>1. Planned(j, challenge, session) /\ j.todo \notin OpenSteps
  BY OtherPlan
<1>2. QED
  BY <1>1, GuardedGround DEF Fits

LEMMA CodeFits ==
  ASSUME LoginInv, NEW j, IsJob(j), Coding(j, challenge)
  PROVE  Fits(j)
<1>1. Planned(j, challenge, session) /\ j.todo \notin OpenSteps
  BY LoginHeads DEF Planned, Coding, CodeSteps
<1>2. j.todo # <<>> /\ Head(j.todo) \in {"resend", "miss", "lock"}
  BY DEF Coding, CodeSteps
<1>3. QED
  BY <1>1, <1>2, FreePlan DEF Fits

LEMMA AskFits ==
  ASSUME LoginInv, NEW j, IsJob(j), j.todo = <<"supersede", "challenge">>, j.of \in User, j.by \in Purpose,
         AccountsAreKept => j.by = "account_restore" \/ ~user[j.of].deleted
  PROVE  Fits(j)
<1>1. Planned(j, challenge, session) /\ j.todo \notin OpenSteps
  BY LoginHeads DEF Planned, Asking, AskSteps
<1>2. j.todo \in AskSteps
  BY DEF AskSteps
<1>3. QED
  BY <1>1, <1>2, AskGround DEF Fits

-----------------------------------------------------------------------------
(* The handlers of AccountLogin begin.                                     *)

LEMMA RegisterFits ==
  ASSUME LoginInv, NEW r \in Req, NEW u \in User, NEW a \in Address, BeginRegister(r, u, a)
  PROVE  \E j : Begin(r, j) /\ Fits(j)
<1>1. PICK j : j = [Job("register", <<"register", "supersede", "challenge">>)
                    EXCEPT !.of = u, !.on = a, !.by = "login"]
  OBVIOUS
<1>2. Begin(r, j)
  BY <1>1 DEF BeginRegister
<1>3. IsJob(j) /\ Asking(j) /\ j.todo = <<"register", "supersede", "challenge">>
  BY <1>1 DEF IsJob, Asking, AskSteps, Job, Idle, Purpose
<1>4. Planned(j, challenge, session) /\ j.todo \notin OpenSteps
  BY <1>3, LoginHeads DEF Planned, Asking, AskSteps
<1>5. j.todo # <<>> /\ Head(j.todo) = "register"
  BY <1>3
<1>6. j.todo \notin EnterSteps /\ j.todo # <<"accept">> /\ j.todo \notin Seq(OtherStep)
  BY <1>5, PlanHeads DEF OtherStep
<1>7. Fits(j)
  BY <1>3, <1>4, <1>6 DEF Fits, Grounded
<1>8. QED
  BY <1>2, <1>7

LEMMA LoginFits ==
  ASSUME LoginInv, NEW r \in Req, NEW u \in User, NEW here \in BOOLEAN, BeginLogin(r, u, here)
  PROVE  \E j : Begin(r, j) /\ Fits(j)
<1>1. PICK n \in Nat : n = IF here THEN 1 ELSE 0
  OBVIOUS
<1>2. PICK j : j = [Job("login", <<"supersede", "challenge">>)
                    EXCEPT !.of = u, !.by = "login", !.count = n]
  OBVIOUS
<1>3. Begin(r, j) /\ ~user[u].deleted
  BY <1>1, <1>2 DEF BeginLogin
<1>4. IsJob(j) /\ j.todo = <<"supersede", "challenge">> /\ j.of = u /\ j.by \in Purpose
  BY <1>2 DEF IsJob, Job, Idle, Purpose
<1>5. QED
  BY <1>3, <1>4, AskFits

LEMMA ResendFits ==
  ASSUME LoginInv, NEW r \in Req, NEW c \in Challenge, BeginResend(r, c)
  PROVE  \E j : Begin(r, j) /\ Fits(j)
<1>1. PICK j : j = [Job("resend", <<"resend">>) EXCEPT !.on = c]
  OBVIOUS
<1>2. Begin(r, j) /\ challenge[c] # NoChallenge
  BY <1>1 DEF BeginResend, Usable, Live
<1>3. IsJob(j) /\ Coding(j, challenge)
  BY <1>1, <1>2 DEF IsJob, Coding, CodeSteps, Job, Idle
<1>4. QED
  BY <1>2, <1>3, CodeFits

\* A login has a plan of two steps or more, and the second is not its end.
LEMMA EnterIsNotOther ==
  ASSUME NEW todo \in EnterSteps
  PROVE  todo # <<>> /\ Head(todo) = "consume" /\ todo \notin Seq(OtherStep)
<1>1. todo # <<>> /\ Head(todo) = "consume"
  BY LoginHeads DEF EnterSteps, FirstLogin, NextLogin
<1>2. SUFFICES ASSUME todo \in Seq(OtherStep)
               PROVE  FALSE
  BY <1>1
<1>3. Tail(todo) \in Seq(OtherStep) /\ Tail(todo) \in {FromVerified, FromOthers}
  BY <1>1, <1>2, LoginTails DEF EnterSteps
<1>4. Tail(todo) # <<>>
  BY <1>3, LoginHeads DEF OpenSteps
<1>5. Head(Tail(todo)) \in OtherStep
  BY <1>3, <1>4
<1>6. QED
  BY <1>3, <1>5, LoginHeads DEF OtherStep

LEMMA DeletionIsOther == <<"consume", "may delete", "check", "tombstone">> \in Seq(OtherStep)
BY DEF OtherStep

LEMMA DeletionPlan ==
  ASSUME NEW todo, todo = <<"consume", "may delete", "check", "tombstone">>
  PROVE  /\ todo \in Seq(OtherStep) /\ todo # <<>> /\ Head(todo) = "consume"
         /\ todo \notin AskSteps /\ todo \notin EnterSteps /\ todo \notin OpenSteps
         /\ todo # <<"accept">>
<1>1. todo \in Seq(OtherStep)
  BY DeletionIsOther, Zenon
<1>2. Head(todo) = "consume"
  BY GuardedHeads, Zenon
<1>3. todo # <<>>
  OBVIOUS
<1>4. todo \notin AskSteps /\ todo \notin OpenSteps /\ todo # <<"accept">>
  <2>1. /\ todo \in AskSteps => Head(todo) \in {"register", "supersede", "challenge"}
        /\ todo \in OpenSteps => Head(todo) \in {"verified", "pending", "invites", "others", "session"}
        /\ todo = <<"accept">> => Head(todo) = "accept"
    BY <1>3, PlanHeads, Zenon
  <2>2. QED
    BY <1>2, <2>1, Zenon
<1>5. todo \notin EnterSteps
  BY <1>1, EnterIsNotOther
<1>6. QED
  BY <1>1, <1>2, <1>3, <1>4, <1>5

\* A wrong code, too many of them, or the right one, of a login or another.
LEMMA VerifyFits ==
  ASSUME LoginInv, NEW r \in Req, NEW c \in Challenge, NEW right \in BOOLEAN, NEW u \in User,
         BeginVerify(r, c, right, u)
  PROVE  \E j : Begin(r, j) /\ Fits(j)
<1>1. PICK todo : todo = IF challenge[c].tries >= MaxAttempts THEN <<"lock">>
                         ELSE IF right THEN AfterCode(c) ELSE <<"miss">>
  OBVIOUS
<1>2. PICK of, a : of = challenge[c].user /\ a = {user[u].address}
  OBVIOUS
<1>3. PICK j : j = [Job("verify", todo) EXCEPT !.on = c, !.of = u, !.by = of, !.seen = a]
  OBVIOUS
<1>4. /\ Begin(r, j) /\ challenge[c] # NoChallenge
      /\ challenge[c].purpose = "login" => u = challenge[c].user /\ user[u].active
  BY <1>1, <1>2, <1>3 DEF BeginVerify, Usable, Live
<1>5. challenge[c].purpose \in Purpose
  BY <1>4 DEF LoginInv, RowsAreTyped, Challenges, ChallengeRow
<1>6. IsJob(j) /\ j.todo = todo /\ j.on = c /\ j.of = u
  BY <1>3 DEF IsJob, Job, Idle
<1>7. todo \in {<<"lock">>, <<"miss">>} \/ todo = AfterCode(c)
  BY <1>1
<1>8. CASE todo \in {<<"lock">>, <<"miss">>}
  <2>1. Coding(j, challenge)
    BY <1>4, <1>6, <1>8 DEF Coding, CodeSteps
  <2>2. QED
    BY <1>4, <1>6, <2>1, CodeFits
<1>9. CASE todo = AfterCode(c) /\ challenge[c].purpose = "login"
  <2>1. todo \in EnterSteps
    <3>1. AfterCode(c) = IF user[challenge[c].user].verified THEN NextLogin ELSE FirstLogin
      BY <1>9 DEF AfterCode
    <3>2. QED
      BY <1>9, <3>1 DEF EnterSteps
  <2>2. Entered(j, challenge)
    BY <1>4, <1>6, <1>9, <2>1 DEF Entered
  <2>3. Planned(j, challenge, session) /\ j.todo \notin OpenSteps
    BY <1>6, <2>2, LoginHeads DEF Planned, Entered, EnterSteps
  <2>4. todo \notin AskSteps /\ todo # <<"accept">> /\ todo \notin Seq(OtherStep)
    BY <2>1, EnterIsNotOther, PlanHeads
  <2>5. Fits(j)
    BY <1>4, <1>6, <1>9, <2>3, <2>4 DEF Fits, Grounded
  <2>6. QED
    BY <1>4, <2>5
<1>10. CASE todo = AfterCode(c) /\ challenge[c].purpose = "owner_delete"
  <2>1. todo = <<"consume", "may delete", "check", "tombstone">>
    BY <1>10 DEF AfterCode
  <2>2. Planned(j, challenge, session) /\ j.todo \notin OpenSteps
    BY <1>6, <2>1, DeletionPlan, OtherPlan
  <2>3. Grounded(j, user, access)
    BY <1>6, <2>1, DeletionPlan DEF Grounded, Guarded
  <2>4. QED
    BY <1>4, <2>2, <2>3 DEF Fits
<1>11. CASE todo = AfterCode(c) /\ challenge[c].purpose = "account_restore"
  <2>1. todo = <<"consume", "lookup", "restore">>
    BY <1>11 DEF AfterCode
  <2>2. <<"consume", "lookup", "restore">> \in Seq(CalmStep)
    BY DEF CalmStep
  <2>3. QED
    BY <1>4, <1>6, <2>1, <2>2, CalmFits
<1>12. QED
  BY <1>5, <1>7, <1>8, <1>9, <1>10, <1>11 DEF Purpose

LEMMA RemovingIsCalm == Removing \in Seq(CalmStep)
BY DEF Removing, CalmStep

LEMMA LeavingIsCalm == LeaveSteps \in Seq(CalmStep)
<1>1. LeaveSteps \in {<<"drop cookie">>, <<"drop box">>, Removing}
  BY DEF LeaveSteps
<1>2. <<"drop cookie">> \in Seq(CalmStep) /\ <<"drop box">> \in Seq(CalmStep)
  BY DEF CalmStep
<1>3. QED
  BY <1>1, <1>2, RemovingIsCalm

\* The browser's own handlers begin.
LEMMA BrowserFits ==
  ASSUME LoginInv, NEW r \in Req,
         \/ BeginAddAccount(r) \/ BeginSignOut(r) \/ BeginLogoutAll(r)
         \/ \E u \in User : BeginSwitch(r, u) \/ BeginRemoveAccount(r, u)
         \/ \E chosen \in SUBSET Session : BeginEndOwn(r, chosen)
  PROVE  \E j : Begin(r, j) /\ Fits(j)
<1>1. PICK current, whose : current = CurrentSession /\ whose = session[CurrentSession].user
  OBVIOUS
<1>2. PICK active, stored, kept : /\ active = device.active /\ stored = device.stored
                                  /\ kept = IF device.box /\ device.active # None
                                            THEN device.stored[device.active] ELSE None
  OBVIOUS
<1>3. PICK leave : leave = LeaveSteps
  OBVIOUS
<1>4. leave \in Seq(CalmStep)
  BY <1>3, LeavingIsCalm
<1>5. ASSUME BeginAddAccount(r)
      PROVE  \E j : Begin(r, j) /\ Fits(j)
  <2>1. PICK j : j = [Job("add", <<"keep", "intent">>) EXCEPT !.on = current, !.of = whose]
    OBVIOUS
  <2>2. Begin(r, j)
    BY <1>1, <1>5, <2>1 DEF BeginAddAccount
  <2>3. IsJob(j) /\ j.todo = <<"keep", "intent">>
    BY <2>1 DEF IsJob, Job, Idle
  <2>4. <<"keep", "intent">> \in Seq(CalmStep)
    BY DEF CalmStep
  <2>5. QED
    BY <2>2, <2>3, <2>4, CalmFits
<1>6. ASSUME BeginSignOut(r)
      PROVE  \E j : Begin(r, j) /\ Fits(j)
  <2>1. PICK j : j = [Job("sign out", leave) EXCEPT !.of = active, !.on = kept]
    OBVIOUS
  <2>2. Begin(r, j)
    BY <1>2, <1>3, <1>6, <2>1 DEF BeginSignOut
  <2>3. IsJob(j) /\ j.todo = leave
    BY <2>1 DEF IsJob, Job, Idle
  <2>4. QED
    BY <1>4, <2>2, <2>3, CalmFits
<1>7. ASSUME BeginLogoutAll(r)
      PROVE  \E j : Begin(r, j) /\ Fits(j)
  <2>1. PICK j : j = Job("log out all", <<"sign off all", "drop box", "drop cookie">>)
    OBVIOUS
  <2>2. Begin(r, j)
    BY <1>7, <2>1 DEF BeginLogoutAll
  <2>3. IsJob(j) /\ j.todo = <<"sign off all", "drop box", "drop cookie">>
    BY <2>1 DEF IsJob, Job, Idle
  <2>4. <<"sign off all", "drop box", "drop cookie">> \in Seq(CalmStep)
    BY DEF CalmStep
  <2>5. QED
    BY <2>2, <2>3, <2>4, CalmFits
<1>8. ASSUME NEW u \in User, BeginSwitch(r, u)
      PROVE  \E j : Begin(r, j) /\ Fits(j)
  <2>1. PICK j : j = [Job("switch", <<"switch">>) EXCEPT !.of = u]
    OBVIOUS
  <2>2. Begin(r, j)
    BY <1>8, <2>1 DEF BeginSwitch
  <2>3. IsJob(j) /\ j.todo = <<"switch">>
    BY <2>1 DEF IsJob, Job, Idle
  <2>4. <<"switch">> \in Seq(CalmStep)
    BY DEF CalmStep
  <2>5. QED
    BY <2>2, <2>3, <2>4, CalmFits
<1>9. ASSUME NEW u \in User, BeginRemoveAccount(r, u)
      PROVE  \E j : Begin(r, j) /\ Fits(j)
  <2>1. PICK s : s = stored[u]
    OBVIOUS
  <2>2. PICK j : j = [Job("remove", Removing) EXCEPT !.of = u, !.on = s]
    OBVIOUS
  <2>3. Begin(r, j)
    BY <1>2, <1>9, <2>1, <2>2 DEF BeginRemoveAccount
  <2>4. IsJob(j) /\ j.todo = Removing
    BY <2>2 DEF IsJob, Job, Idle
  <2>5. QED
    BY <2>3, <2>4, RemovingIsCalm, CalmFits
<1>10. ASSUME NEW chosen \in SUBSET Session, BeginEndOwn(r, chosen)
       PROVE  \E j : Begin(r, j) /\ Fits(j)
  <2>1. PICK todo : todo = IF chosen = SessionsOf(session[CurrentSession].user)
                           THEN <<"end">> \o LeaveSteps ELSE <<"end">>
    OBVIOUS
  <2>2. PICK j : j = [Job("end own", todo) EXCEPT !.seen = chosen, !.of = active, !.on = kept]
    OBVIOUS
  <2>3. Begin(r, j)
    BY <1>2, <1>10, <2>1, <2>2 DEF BeginEndOwn
  <2>4. IsJob(j) /\ j.todo = todo
    BY <2>2 DEF IsJob, Job, Idle
  <2>5. <<"end">> \in Seq(CalmStep)
    BY DEF CalmStep
  <2>6. todo \in Seq(CalmStep)
    BY <1>3, <1>4, <2>1, <2>5
  <2>7. QED
    BY <2>3, <2>4, <2>6, CalmFits
<1>11. QED
  BY <1>5, <1>6, <1>7, <1>8, <1>9, <1>10

-----------------------------------------------------------------------------
(* The steps of AccountLogin.                                              *)

LEMMA RegisterKeeps ==
  ASSUME LoginInv, NEW r \in Req, Register(r)
  PROVE  LoginInv'
<1>1. ChallengesKept(challenge, challenge') /\ SessionsKept(session, session') /\ invite' \in Invites
  BY RowsStay DEF Register, rows
<1>2. At(r, "register") /\ (Finish(r) \/ Proceed(r))
  BY DEF Register
<1>3. CASE Finish(r)
  BY <1>1, <1>3, FinishKeeps
<1>4. CASE Proceed(r)
  <2>1. IsJob(job[r]) /\ Asking(job[r]) /\ Head(job[r].todo) = "register"
    BY <1>2, PlanOfStep DEF At
  <2>2. job[r].todo = <<"register", "supersede", "challenge">>
    BY <2>1 DEF Asking, AskSteps
  <2>3. PICK j : j = [job[r] EXCEPT !.todo = <<"supersede", "challenge">>]
    OBVIOUS
  <2>4. Rest(job[r]) = j
    BY <2>2, <2>3 DEF Rest
  <2>5. Planned(j, challenge', session') /\ j.todo \notin OpenSteps
    BY <2>1, <2>3, LoginHeads DEF Planned, IsJob, Asking, AskSteps
  <2>6. job' = [job EXCEPT ![r] = j]
    BY <1>4, <2>4 DEF Proceed, Set
  <2>7. QED
    BY <1>1, <2>5, <2>6, StepKeeps
<1>5. QED
  BY <1>2, <1>3, <1>4

LEMMA SupersedeKeeps ==
  ASSUME LoginInv, NEW r \in Req, Supersede(r)
  PROVE  LoginInv'
<1>1. /\ ChallengesKept(challenge, challenge')
      /\ SessionsKept(session, session') /\ invite' \in Invites
  BY SupersedingKeeps, SessionsStay DEF Supersede, LoginInv, RowsAreTyped
<1>2. At(r, "supersede") /\ Proceed(r)
  BY DEF Supersede
<1>3. IsJob(job[r]) /\ Asking(job[r]) /\ Head(job[r].todo) = "supersede"
  BY <1>2, PlanOfStep DEF At
<1>4. job[r].todo = <<"supersede", "challenge">>
  BY <1>3 DEF Asking, AskSteps
<1>5. PICK j : j = [job[r] EXCEPT !.todo = <<"challenge">>]
  OBVIOUS
<1>6. Rest(job[r]) = j
  BY <1>4, <1>5 DEF Rest
<1>7. Planned(j, challenge', session') /\ j.todo \notin OpenSteps
  BY <1>3, <1>5, LoginHeads DEF Planned, IsJob, Asking, AskSteps
<1>8. job' = [job EXCEPT ![r] = j]
  BY <1>2, <1>6 DEF Proceed, Set
<1>9. QED
  BY <1>1, <1>7, <1>8, StepKeeps

LEMMA CreateChallengeKeeps ==
  ASSUME LoginInv, NEW r \in Req, CreateChallenge(r)
  PROVE  LoginInv'
<1>1. At(r, "challenge") /\ Proceed(r) /\ challenge \in Challenges
  BY DEF CreateChallenge, LoginInv, RowsAreTyped
<1>2. Asking(job[r]) /\ Head(job[r].todo) = "challenge"
  BY <1>1, PlanOfStep DEF At
<1>3. job[r].todo = <<"challenge">>
  BY <1>2 DEF Asking, AskSteps
<1>4. Finish(r)
  BY <1>1, <1>3 DEF Proceed, Finish, Rest
<1>5. PICK row : row = [NoChallenge EXCEPT !.user = job[r].of, !.purpose = job[r].by, !.code = 1,
                                           !.here = job[r].count = 1]
  OBVIOUS
<1>6. row \in ChallengeRow
  BY <1>2, <1>5 DEF Asking, ChallengeRow, NoChallenge
<1>7. PICK c \in Challenge : challenge[c] = NoChallenge /\ challenge' = [challenge EXCEPT ![c] = row]
  BY <1>5 DEF CreateChallenge
<1>8. ChallengesKept(challenge, challenge')
  BY <1>1, <1>6, <1>7 DEF ChallengesKept, Challenges
<1>9. SessionsKept(session, session') /\ invite' \in Invites
  BY SessionsStay DEF CreateChallenge, LoginInv, RowsAreTyped
<1>10. QED
  BY <1>4, <1>8, <1>9, FinishKeeps

\* One challenge is written, keeping its user and its purpose, and is not revived.
LEMMA WritingKeeps ==
  ASSUME LoginInv, NEW c \in Challenge, challenge[c] # NoChallenge,
         NEW row \in ChallengeRow, challenge' = [challenge EXCEPT ![c] = row],
         row.user = challenge[c].user, row.purpose = challenge[c].purpose,
         challenge[c].consumed => row.consumed, challenge[c].revoked => row.revoked
  PROVE  ChallengesKept(challenge, challenge') /\ CodesCalm(challenge, challenge')
<1>1. challenge \in Challenges
  BY DEF LoginInv, RowsAreTyped
<1>2. challenge' \in Challenges
  BY <1>1 DEF Challenges
<1>3. ChallengesKept(challenge, challenge')
  BY <1>1, <1>2 DEF ChallengesKept, Challenges
<1>4. CodesCalm(challenge, challenge')
  BY <1>1 DEF CodesCalm, LiveIn, Challenges
<1>5. QED
  BY <1>3, <1>4

LEMMA CodeStepsKeep ==
  ASSUME LoginInv, NEW r \in Req, Resend(r) \/ Miss(r) \/ Lock(r)
  PROVE  LoginInv' /\ CodesCalm(challenge, challenge')
<1>1. PICK step \in {"resend", "miss", "lock"} : At(r, step)
  BY DEF Resend, Miss, Lock
<1>2. IsJob(job[r]) /\ Coding(job[r], challenge) /\ Head(job[r].todo) = step
  BY <1>1, PlanOfStep DEF At
<1>3. PICK c, row : c = job[r].on /\ row = challenge[c]
  OBVIOUS
<1>4. c \in Challenge /\ row \in ChallengeRow /\ challenge[c] # NoChallenge
  BY <1>2, <1>3 DEF Coding, LoginInv, RowsAreTyped, Challenges
<1>5. SessionsKept(session, session') /\ invite' \in Invites
  BY SessionsStay DEF Resend, Miss, Lock, LoginInv, RowsAreTyped
<1>6. ASSUME Resend(r)
      PROVE  LoginInv' /\ CodesCalm(challenge, challenge')
  <2>1. PICK new : new = [row EXCEPT !.code = row.code + 1, !.expired = FALSE]
    OBVIOUS
  <2>2. challenge' = [challenge EXCEPT ![c] = new]
    BY <1>3, <1>4, <1>6, <2>1 DEF Resend, ChallengeRow, LoginInv, RowsAreTyped, Challenges
  <2>3. /\ new \in ChallengeRow /\ new.user = row.user /\ new.purpose = row.purpose
        /\ new.consumed = row.consumed /\ (row.revoked => new.revoked)
    <3>1. row.code + 1 \in Nat
      BY <1>4 DEF ChallengeRow
    <3>2. QED
      BY <1>4, <2>1, <3>1 DEF ChallengeRow
  <2>4. ChallengesKept(challenge, challenge') /\ CodesCalm(challenge, challenge')
    BY <1>3, <1>4, <2>2, <2>3, WritingKeeps
  <2>5. Finish(r)
    <3>1. At(r, "resend") /\ Proceed(r)
      BY <1>6 DEF Resend
    <3>2. job[r].todo = <<"resend">>
      BY <1>2, <3>1 DEF Coding, CodeSteps, At
    <3>3. QED
      BY <3>1, <3>2 DEF Proceed, Finish, Rest
  <2>6. QED
    BY <1>5, <2>4, <2>5, FinishKeeps
<1>7. ASSUME Miss(r)
      PROVE  LoginInv' /\ CodesCalm(challenge, challenge')
  <2>1. PICK new : new = [row EXCEPT !.tries = row.tries + 1]
    OBVIOUS
  <2>2. challenge' = [challenge EXCEPT ![c] = new]
    BY <1>3, <1>7, <2>1 DEF Miss
  <2>3. /\ new \in ChallengeRow /\ new.user = row.user /\ new.purpose = row.purpose
        /\ new.consumed = row.consumed /\ (row.revoked => new.revoked)
    BY <1>4, <2>1 DEF ChallengeRow
  <2>4. ChallengesKept(challenge, challenge') /\ CodesCalm(challenge, challenge')
    BY <1>3, <1>4, <2>2, <2>3, WritingKeeps
  <2>5. PICK j : j = [job[r] EXCEPT !.todo = <<"lock">>]
    OBVIOUS
  <2>6. Finish(r) \/ Set(r, j)
    BY <1>7, <2>5 DEF Miss, Finish
  <2>7. CASE Set(r, j)
    <3>1. challenge'[c] # NoChallenge
      <4>1. new.purpose \in Purpose
        BY <2>3 DEF ChallengeRow
      <4>2. challenge'[c] = new
        BY <1>4, <2>2 DEF LoginInv, RowsAreTyped, Challenges
      <4>3. QED
        BY <4>1, <4>2, NoChallengeIsBare
    <3>2. IsJob(j) /\ j.todo = <<"lock">> /\ j.on = c
      BY <1>2, <1>3, <2>5 DEF IsJob
    <3>3. Planned(j, challenge', session') /\ j.todo \notin OpenSteps
      BY <1>4, <3>1, <3>2, LoginHeads DEF Planned, Coding, CodeSteps
    <3>4. job' = [job EXCEPT ![r] = j]
      BY <2>7 DEF Set
    <3>5. QED
      BY <1>5, <2>4, <3>3, <3>4, StepKeeps
  <2>8. QED
    BY <1>5, <2>4, <2>6, <2>7, FinishKeeps
<1>8. ASSUME Lock(r)
      PROVE  LoginInv' /\ CodesCalm(challenge, challenge')
  <2>1. PICK new : new = [row EXCEPT !.revoked = TRUE]
    OBVIOUS
  <2>2. challenge' = [challenge EXCEPT ![c] = new] /\ Finish(r)
    BY <1>3, <1>8, <2>1 DEF Lock
  <2>3. /\ new \in ChallengeRow /\ new.user = row.user /\ new.purpose = row.purpose
        /\ new.consumed = row.consumed /\ (row.revoked => new.revoked)
    BY <1>4, <2>1 DEF ChallengeRow
  <2>4. ChallengesKept(challenge, challenge') /\ CodesCalm(challenge, challenge')
    BY <1>3, <1>4, <2>2, <2>3, WritingKeeps
  <2>5. QED
    BY <1>5, <2>2, <2>4, FinishKeeps
<1>9. QED
  BY <1>6, <1>7, <1>8

-----------------------------------------------------------------------------
(* The steps of a login whose code was right.                              *)

LEMMA OpenPlan ==
  ASSUME LoginInv, NEW r \in Req, job[r].todo \in OpenSteps
  PROVE  Opening(job[r], challenge, session)
<1>1. PICK step \in {"verified", "pending", "invites", "others", "session"} : At(r, step)
  BY LoginHeads DEF At
<1>2. QED
  BY <1>1, PlanOfStep

\* The plan goes on, for the same account and by the same challenge.
LEMMA OpeningKeeps ==
  ASSUME LoginInv, NEW r \in Req, Opening(job[r], challenge, session),
         NEW j, IsJob(j), j.todo \in OpenSteps, j.on = job[r].on, j.of = job[r].of,
         j.todo = FromInvites => j.seen \subseteq Invite,
         job' = [job EXCEPT ![r] = j],
         ChallengesKept(challenge, challenge'), SessionsKept(session, session'), invite' \in Invites
  PROVE  LoginInv'
<1>1. Opening(j, challenge, session)
  BY DEF Opening
<1>2. challenge \in Challenges
  BY DEF LoginInv, RowsAreTyped
<1>3. Planned(j, challenge', session')
  <2>1. Planned(j, challenge, session)
    BY <1>1 DEF Planned
  <2>2. QED
    BY <1>2, <2>1, PlanIsKept
<1>4. \A q \in Req \ {r} : job[q].todo \in OpenSteps => job[q].on # j.on
  BY DEF LoginInv, OpeningsAreApart, Opening
<1>5. QED
  BY <1>3, <1>4, StepKeeps

\* What remains of the plan.
LEMMA RestOfOpening ==
  ASSUME LoginInv, NEW r \in Req, NEW step \in {"verified", "pending", "invites", "others"}, At(r, step)
  PROVE  /\ IsJob(Rest(job[r])) /\ Rest(job[r]).todo \in OpenSteps
         /\ Rest(job[r]).on = job[r].on /\ Rest(job[r]).of = job[r].of
         /\ Rest(job[r]).todo = FromInvites <=> step = "pending"
         /\ Opening(job[r], challenge, session)
<1>1. IsJob(job[r]) /\ Opening(job[r], challenge, session) /\ Head(job[r].todo) = step
  BY PlanOfStep
<1>2. job[r].todo \in OpenSteps
  BY <1>1 DEF Opening
<1>3. /\ Len(job[r].todo) # 1 /\ Tail(job[r].todo) \in OpenSteps
      /\ Tail(job[r].todo) = FromInvites <=> step = "pending"
  <2>1. /\ Len(job[r].todo) # 1 /\ Head(job[r].todo) = step
        /\ job[r].todo \in {FromVerified, FromPending, FromInvites, FromOthers}
    BY <1>1, <1>2, LoginHeads DEF OpenSteps
  <2>2. QED
    BY <2>1, LoginTails, LoginHeads DEF OpenSteps
<1>4. PICK j : j = [job[r] EXCEPT !.todo = Tail(job[r].todo)]
  OBVIOUS
<1>5. Rest(job[r]) = j
  BY <1>3, <1>4 DEF Rest
<1>6. /\ IsJob(j) /\ j.todo = Tail(job[r].todo)
      /\ j.on = job[r].on /\ j.of = job[r].of /\ j.seen = job[r].seen
  BY <1>1, <1>4 DEF IsJob
<1>7. QED
  BY <1>1, <1>3, <1>4, <1>5, <1>6

LEMMA LoginRowsKeep ==
  ASSUME LoginInv, NEW r \in Req, VerifyAddress(r) \/ SupersedeOthers(r)
  PROVE  LoginInv'
<1>1. /\ ChallengesKept(challenge, challenge')
      /\ SessionsKept(session, session') /\ invite' \in Invites
  <2>1. CASE VerifyAddress(r)
    BY <2>1, RowsStay DEF VerifyAddress
  <2>2. CASE SupersedeOthers(r)
    BY <2>2, SupersedingKeeps, SessionsStay DEF SupersedeOthers, LoginInv, RowsAreTyped
  <2>3. QED
    BY <2>1, <2>2
<1>2. PICK step \in {"verified", "others"} : At(r, step) /\ step # "pending"
  BY DEF VerifyAddress, SupersedeOthers
<1>3. PICK j : /\ Rest(job[r]) = j /\ IsJob(j)
               /\ j.todo \in OpenSteps /\ j.on = job[r].on /\ j.of = job[r].of
               /\ j.todo # FromInvites
               /\ Opening(job[r], challenge, session)
  <2>1. PICK j : j = Rest(job[r])
    OBVIOUS
  <2>2. step \in {"verified", "pending", "invites", "others"}
    BY <1>2
  <2>3. QED
    BY <1>2, <2>1, <2>2, RestOfOpening
<1>4. job' = [job EXCEPT ![r] = j]
  BY <1>3 DEF VerifyAddress, SupersedeOthers, Proceed, Set
<1>5. QED
  BY <1>1, <1>3, <1>4, OpeningKeeps

LEMMA ConsumeKeeps ==
  ASSUME LoginInv, NEW r \in Req, Consume(r)
  PROVE  LoginInv' /\ CodesCalm(challenge, challenge')
<1>1. /\ SessionsKept(session, session') /\ invite' \in Invites
      /\ challenge \in Challenges
  BY SessionsStay DEF Consume, LoginInv, RowsAreTyped
<1>2. At(r, "consume")
  BY DEF Consume
<1>3. /\ IsJob(job[r]) /\ job[r].todo # <<>>
      /\ Entered(job[r], challenge) \/ job[r].todo \in Seq(OtherStep)
  BY <1>2, PlanOfStep
<1>4. CASE ~Unconsumed(job[r].on)
  <2>1. Finish(r) /\ ChallengesKept(challenge, challenge') /\ CodesCalm(challenge, challenge')
    BY <1>1, <1>4, ChallengesStay, SameIsCalm DEF Consume
  <2>2. QED
    BY <1>1, <2>1, FinishKeeps
<1>5. CASE Unconsumed(job[r].on)
  <2>1. PICK c : c = job[r].on
    OBVIOUS
  <2>2. Proceed(r) /\ challenge' = [challenge EXCEPT ![c].consumed = TRUE]
    BY <1>5, <2>1 DEF Consume
  <2>3. ChallengesKept(challenge, challenge') /\ CodesCalm(challenge, challenge')
    <3>1. CASE c \in Challenge
      <4>1. challenge[c] # NoChallenge /\ challenge[c] \in ChallengeRow
        BY <1>1, <1>5, <2>1, <3>1 DEF Unconsumed, Live, Challenges
      <4>2. PICK old, new : old = challenge[c] /\ new = [old EXCEPT !.consumed = TRUE]
        OBVIOUS
      <4>3. challenge' = [challenge EXCEPT ![c] = new]
        BY <2>2, <4>2
      <4>4. /\ new \in ChallengeRow /\ new.user = old.user /\ new.purpose = old.purpose
            /\ new.consumed = TRUE /\ new.revoked = old.revoked
        BY <4>1, <4>2 DEF ChallengeRow
      <4>5. QED
        BY <3>1, <4>1, <4>2, <4>3, <4>4, WritingKeeps
    <3>2. CASE c \notin Challenge
      <4>1. challenge' = challenge
        BY <1>1, <2>2, <3>2 DEF Challenges
      <4>2. QED
        BY <1>1, <4>1, ChallengesStay, SameIsCalm
    <3>3. QED
      BY <3>1, <3>2
  <2>4. CASE job[r].todo \in Seq(OtherStep)
    <3>1. PICK j : j = Rest(job[r])
      OBVIOUS
    <3>2. IsJob(j) /\ j.todo \in Seq(OtherStep)
      BY <1>3, <2>4, <3>1, RestOfOther
    <3>3. job' = [job EXCEPT ![r] = j]
      BY <2>2, <3>1 DEF Proceed, Set
    <3>4. QED
      BY <1>1, <2>3, <3>2, <3>3, OtherKeeps
  <2>5. CASE Entered(job[r], challenge)
    <3>1. PICK j : j = [job[r] EXCEPT !.todo = Tail(job[r].todo)]
      OBVIOUS
    <3>2. /\ Len(job[r].todo) # 1 /\ Tail(job[r].todo) \in OpenSteps
          /\ Tail(job[r].todo) # FromInvites
      BY <2>5, LoginTails, LoginHeads DEF Entered, EnterSteps, OpenSteps
    <3>3. Rest(job[r]) = j
      BY <3>1, <3>2 DEF Rest
    <3>4. /\ IsJob(j) /\ j.todo = Tail(job[r].todo)
          /\ j.on = c /\ j.of = job[r].of
      BY <1>3, <2>1, <3>1 DEF IsJob
    <3>5. job' = [job EXCEPT ![r] = j]
      BY <2>2, <3>3 DEF Proceed, Set
    <3>6. c \in Challenge /\ challenge[c].purpose = "login" /\ challenge[c].user = job[r].of
      BY <2>1, <2>5 DEF Entered
    <3>7. ~challenge[c].consumed /\ challenge[c] # NoChallenge
      BY <1>5, <2>1 DEF Unconsumed, Live
    <3>8. challenge[c] \in ChallengeRow
      BY <1>1, <3>6, <3>7 DEF Challenges
    <3>9. challenge'[c].purpose = "login" /\ challenge'[c].user = job[r].of /\ challenge'[c].consumed
      BY <1>1, <2>2, <3>6, <3>8 DEF Challenges, ChallengeRow
    <3>10. \A s \in NewSession : session'[s] # NoSession => session'[s].by # c
      BY <3>7 DEF Consume, LoginInv, LoginsAreSpent
    <3>11. Planned(j, challenge', session')
      BY <3>2, <3>4, <3>6, <3>9, <3>10 DEF Planned, Opening
    <3>12. \A q \in Req \ {r} : job[q].todo \in OpenSteps => job[q].on # j.on
      BY <3>4, <3>7, OpenPlan DEF Opening
    <3>13. QED
      BY <1>1, <2>3, <3>5, <3>11, <3>12, StepKeeps
  <2>6. QED
    BY <1>3, <2>4, <2>5
<1>6. QED
  BY <1>4, <1>5

\* The invitations that wait for the address are found, then accepted.
LEMMA FindPendingKeeps ==
  ASSUME LoginInv, NEW r \in Req, FindPending(r)
  PROVE  LoginInv'
<1>1. At(r, "pending")
  BY DEF FindPending
<1>2. PICK k : /\ Rest(job[r]) = k /\ IsJob(k)
               /\ k.todo = FromInvites /\ k.on = job[r].on /\ k.of = job[r].of
               /\ Opening(job[r], challenge, session)
  <2>1. PICK k : k = Rest(job[r])
    OBVIOUS
  <2>2. QED
    BY <1>1, <2>1, RestOfOpening
<1>3. PICK found : found = {i \in Invite : Applicable(i, job[r].seen)}
  OBVIOUS
<1>4. PICK j : j = [k EXCEPT !.seen = found]
  OBVIOUS
<1>5. job' = [job EXCEPT ![r] = j]
  BY <1>2, <1>3, <1>4 DEF FindPending, Set
<1>6. /\ IsJob(j) /\ j.todo = FromInvites /\ j.on = job[r].on /\ j.of = job[r].of
      /\ j.seen \subseteq Invite
  BY <1>2, <1>3, <1>4 DEF IsJob
<1>7. j.todo \in OpenSteps
  BY <1>6 DEF OpenSteps
<1>8. /\ ChallengesKept(challenge, challenge')
      /\ SessionsKept(session, session') /\ invite' \in Invites
  BY RowsStay DEF FindPending, rows
<1>9. QED
  BY <1>2, <1>5, <1>6, <1>7, <1>8, OpeningKeeps

LEMMA AcceptedInvites ==
  ASSUME LoginInv, NEW u, NEW i, Accepted(u, i)
  PROVE  invite' \in Invites
<1>1. invite \in Invites
  BY DEF LoginInv, RowsAreTyped
<1>2. CASE invite' = invite
  BY <1>1, <1>2
<1>3. CASE invite' = [invite EXCEPT ![i].status = "accepted"]
  <2>1. CASE i \in Invite
    <3>1. PICK old, new : old = invite[i] /\ new = [old EXCEPT !.status = "accepted"]
      OBVIOUS
    <3>2. invite' = [invite EXCEPT ![i] = new]
      BY <1>3, <3>1
    <3>3. new \in InviteRow
      BY <1>1, <2>1, <3>1 DEF Invites, InviteRow
    <3>4. QED
      BY <1>1, <3>2, <3>3 DEF Invites
  <2>2. CASE i \notin Invite
    BY <1>1, <1>3, <2>2 DEF Invites
  <2>3. QED
    BY <2>1, <2>2
<1>4. QED
  BY <1>2, <1>3 DEF Accepted

LEMMA ApplyPendingKeeps ==
  ASSUME LoginInv, NEW r \in Req, ApplyPending(r)
  PROVE  LoginInv'
<1>1. At(r, "invites")
  BY DEF ApplyPending
<1>2. /\ IsJob(job[r]) /\ Opening(job[r], challenge, session)
      /\ job[r].todo = FromInvites
  BY <1>1, PlanOfStep, LoginHeads DEF Opening, OpenSteps
<1>3. /\ ChallengesKept(challenge, challenge') /\ SessionsKept(session, session')
      /\ invite' \in Invites
  <2>1. challenge' = challenge /\ session' = session
    BY DEF ApplyPending, rows
  <2>2. invite' = invite \/ \E i : Accepted(job[r].of, i)
    BY DEF ApplyPending, rows
  <2>3. invite' \in Invites
    BY <2>2, AcceptedInvites DEF LoginInv, RowsAreTyped
  <2>4. QED
    BY <2>1, <2>3, ChallengesStay, SessionsStay DEF LoginInv, RowsAreTyped
<1>4. CASE Proceed(r)
  <2>1. PICK j : /\ Rest(job[r]) = j /\ IsJob(j)
                 /\ j.todo \in OpenSteps /\ j.on = job[r].on /\ j.of = job[r].of
                 /\ j.todo # FromInvites
    <3>1. PICK j : j = Rest(job[r])
      OBVIOUS
    <3>2. QED
      BY <1>1, <3>1, RestOfOpening
  <2>2. job' = [job EXCEPT ![r] = j]
    BY <1>4, <2>1 DEF Proceed, Set
  <2>3. QED
    BY <1>2, <1>3, <2>1, <2>2, OpeningKeeps
<1>5. ASSUME NEW i, Set(r, [job[r] EXCEPT !.seen = job[r].seen \ {i}])
      PROVE  LoginInv'
  <2>1. PICK j : j = [job[r] EXCEPT !.seen = job[r].seen \ {i}]
    OBVIOUS
  <2>2. job' = [job EXCEPT ![r] = j]
    BY <1>5, <2>1 DEF Set
  <2>3. /\ IsJob(j) /\ j.todo = FromInvites /\ j.on = job[r].on /\ j.of = job[r].of
        /\ j.seen \subseteq job[r].seen
    BY <1>2, <2>1 DEF IsJob
  <2>4. j.todo \in OpenSteps /\ j.seen \subseteq Invite
    BY <1>2, <2>3 DEF OpenSteps, Opening
  <2>5. QED
    BY <1>2, <1>3, <2>2, <2>3, <2>4, OpeningKeeps
<1>6. QED
  BY <1>4, <1>5 DEF ApplyPending

\* The session of a login is opened.
LEMMA CreateSessionKeeps ==
  ASSUME LoginInv, NEW r \in Req, CreateSession(r)
  PROVE  LoginInv'
<1>1. At(r, "session")
  BY DEF CreateSession
<1>2. /\ IsJob(job[r]) /\ Opening(job[r], challenge, session)
      /\ job[r].todo = FromSession
  BY <1>1, PlanOfStep, LoginHeads DEF Opening, OpenSteps
<1>3. PICK c, u : c = job[r].on /\ u = job[r].of
  OBVIOUS
<1>4. /\ c \in Challenge /\ challenge[c].purpose = "login" /\ challenge[c].user = u
      /\ challenge[c].consumed
      /\ \A s \in NewSession : session[s] # NoSession => session[s].by # c
  BY <1>2, <1>3 DEF Opening
<1>5. PICK row : row = [NoSession EXCEPT !.user = u, !.by = c]
  OBVIOUS
<1>6. PICK s \in NewSession :
        /\ session[s] = NoSession
        /\ session' = [session EXCEPT ![s] = row]
        /\ Finish(r) \/ Set(r, [Rest(job[r]) EXCEPT !.on = s])
  BY <1>3, <1>5 DEF CreateSession
<1>7. challenge \in Challenges /\ challenge' = challenge /\ session \in Sessions
      /\ invite' = invite /\ invite \in Invites
  BY DEF CreateSession, LoginInv, RowsAreTyped
<1>8. row \in SessionRow /\ row.user = u /\ row.by = c
  <2>1. challenge[c] \in ChallengeRow
    BY <1>4, <1>7, NoChallengeIsBare DEF Challenges, Purpose
  <2>2. u \in User
    BY <1>4, <2>1 DEF ChallengeRow
  <2>3. QED
    BY <1>4, <1>5, <2>2 DEF SessionRow, NoSession
<1>9. session' \in Sessions /\ session'[s] = row
      /\ \A t \in NewSession \ {s} : session'[t] = session[t]
  BY <1>6, <1>7, <1>8 DEF Sessions, Session
<1>10. RowsAreTyped'
  BY <1>7, <1>9 DEF RowsAreTyped
<1>11. PICK j : /\ job' = [job EXCEPT ![r] = j] /\ IsJob(j) /\ j.todo \in Seq(OtherStep)
  <2>1. CASE Finish(r)
    BY <2>1, IdleIsPlanned DEF Finish, Set
  <2>2. CASE Set(r, [Rest(job[r]) EXCEPT !.on = s])
    <3>1. PICK k : k = [job[r] EXCEPT !.todo = Tail(job[r].todo)]
      OBVIOUS
    <3>2. Rest(job[r]) = k /\ k.todo = <<"attach">> /\ IsJob(k)
      BY <1>2, <3>1 DEF Rest, FromSession, IsJob
    <3>3. PICK j : j = [k EXCEPT !.on = s]
      OBVIOUS
    <3>4. job' = [job EXCEPT ![r] = j]
      BY <2>2, <3>2, <3>3 DEF Set
    <3>5. <<"attach">> \in Seq(OtherStep)
      BY DEF OtherStep
    <3>6. IsJob(j) /\ j.todo = <<"attach">>
      BY <3>2, <3>3 DEF IsJob
    <3>7. QED
      BY <3>4, <3>5, <3>6
  <2>3. QED
    BY <1>6, <2>1, <2>2
<1>12. /\ \A q \in Req \ {r} : job'[q] = job[q]
       /\ job'[r] = j /\ job' = [q \in Req |-> job'[q]]
  BY <1>11 DEF LoginInv, JobsArePlanned
<1>13. \A q \in Req \ {r} : Planned(job'[q], challenge', session')
  <2>1. SUFFICES ASSUME NEW q \in Req \ {r}
                 PROVE  Planned(job[q], challenge, session')
    BY <1>7, <1>12
  <2>2. Planned(job[q], challenge, session)
    BY DEF LoginInv, JobsArePlanned
  <2>3. ASSUME Opening(job[q], challenge, session)
        PROVE  Opening(job[q], challenge, session')
    <3>1. job[q].on # c
      BY <1>2, <1>3, <2>3 DEF LoginInv, OpeningsAreApart, Opening
    <3>2. QED
      BY <1>8, <1>9, <2>3, <3>1 DEF Opening
  <2>4. QED
    BY <2>2, <2>3 DEF Planned
<1>14. Planned(j, challenge', session') /\ j.todo \notin OpenSteps
  BY <1>11, OtherPlan
<1>15. JobsArePlanned'
  BY <1>12, <1>13, <1>14 DEF JobsArePlanned
<1>16. OpeningsAreApart'
  BY <1>12, <1>14 DEF OpeningsAreApart, LoginInv
<1>17. SessionsNameTheirCode'
  BY <1>4, <1>8, <1>9 DEF SessionsNameTheirCode, LoginInv
<1>18. LoginsAreSpent'
  BY <1>4, <1>7, <1>8, <1>9 DEF LoginsAreSpent, LoginInv
<1>19. QED
  BY <1>10, <1>15, <1>16, <1>17, <1>18 DEF LoginInv

-----------------------------------------------------------------------------
(* The browser's own steps, and those of LoginNext as a whole.             *)

\* At most sessions are revoked.
LEMMA SessionRowsStay ==
  ASSUME LoginInv, UNCHANGED <<challenge, invite>>,
         session' = session \/ \E chosen : session' = Revoked(chosen)
  PROVE  /\ ChallengesKept(challenge, challenge')
         /\ SessionsKept(session, session')
         /\ invite' \in Invites
BY ChallengesStay, SessionsStay, RevokingKeeps DEF LoginInv, RowsAreTyped

LEMMA BrowserKeeps ==
  ASSUME LoginInv, NEW r \in Req,
         \/ Attach(r) \/ AttachFails(r) \/ KeepCurrent(r) \/ SetIntent(r) \/ Switch(r) \/ Forget(r)
         \/ SignOffStored(r) \/ Repoint(r) \/ DropEmpty(r) \/ DropBox(r) \/ DropCookie(r)
         \/ SignOffAll(r) \/ EndOwn(r)
  PROVE  LoginInv'
<1>1. /\ ChallengesKept(challenge, challenge')
      /\ SessionsKept(session, session') /\ invite' \in Invites
  <2>1. UNCHANGED <<challenge, invite>>
    BY DEF Attach, AttachFails, KeepCurrent, SetIntent, Switch, Forget, SignOffStored,
           Repoint, DropEmpty, DropBox, DropCookie, SignOffAll, EndOwn, rows
  <2>2. session' = session \/ \E chosen : session' = Revoked(chosen)
    BY DEF Attach, AttachFails, KeepCurrent, SetIntent, Switch, Forget, SignOffStored,
           Repoint, DropEmpty, DropBox, DropCookie, SignOffAll, EndOwn, rows
  <2>3. QED
    BY <2>1, <2>2, SessionRowsStay
<1>2. CASE Attach(r) \/ AttachFails(r)
  BY <1>1, <1>2, FinishKeeps DEF Attach, AttachFails
<1>3. CASE ~(Attach(r) \/ AttachFails(r))
  <2>1. \E step \in OtherStep \ {"consume"} : At(r, step) /\ Proceed(r)
    <3>1. CASE KeepCurrent(r)
      BY <3>1 DEF KeepCurrent, OtherStep
    <3>2. CASE SetIntent(r)
      BY <3>2 DEF SetIntent, OtherStep
    <3>3. CASE Switch(r)
      BY <3>3 DEF Switch, OtherStep
    <3>4. CASE Forget(r)
      BY <3>4 DEF Forget, OtherStep
    <3>5. CASE SignOffStored(r)
      BY <3>5 DEF SignOffStored, OtherStep
    <3>6. CASE Repoint(r)
      BY <3>6 DEF Repoint, OtherStep
    <3>7. CASE DropEmpty(r)
      BY <3>7 DEF DropEmpty, OtherStep
    <3>8. CASE DropBox(r)
      BY <3>8 DEF DropBox, OtherStep
    <3>9. CASE DropCookie(r)
      BY <3>9 DEF DropCookie, OtherStep
    <3>10. CASE SignOffAll(r)
      BY <3>10 DEF SignOffAll, OtherStep
    <3>11. CASE EndOwn(r)
      BY <3>11 DEF EndOwn, OtherStep
    <3>12. QED
      BY <1>3, <3>1, <3>2, <3>3, <3>4, <3>5, <3>6, <3>7, <3>8, <3>9, <3>10, <3>11
  <2>2. QED
    BY <1>1, <2>1, ProceedKeeps
<1>4. QED
  BY <1>2, <1>3

\* No request goes on.
LEMMA EventKeeps ==
  ASSUME LoginInv, job' = job,
         ChallengesKept(challenge, challenge'), SessionsKept(session, session'), invite' \in Invites
  PROVE  LoginInv'
<1>1. RowsAreTyped'
  BY DEF RowsAreTyped, ChallengesKept, SessionsKept
<1>2. JobsArePlanned'
  <2>1. \A q \in Req : Planned(job[q], challenge', session')
    BY PlanIsKept DEF LoginInv, JobsArePlanned, RowsAreTyped
  <2>2. QED
    BY <2>1 DEF LoginInv, JobsArePlanned
<1>3. OpeningsAreApart'
  BY DEF LoginInv, OpeningsAreApart
<1>4. SessionsNameTheirCode' /\ LoginsAreSpent'
  BY LoginsStaySpent DEF LoginInv
<1>5. QED
  BY <1>1, <1>2, <1>3, <1>4 DEF LoginInv

LEMMA ChallengeExpiresKeeps ==
  ASSUME LoginInv, NEW c \in Challenge, ChallengeExpires(c)
  PROVE  LoginInv' /\ CodesCalm(challenge, challenge')
<1>1. PICK old, new : old = challenge[c] /\ new = [old EXCEPT !.expired = TRUE]
  OBVIOUS
<1>2. challenge[c] # NoChallenge /\ challenge[c] \in ChallengeRow
  BY DEF ChallengeExpires, Live, LoginInv, RowsAreTyped, Challenges
<1>3. challenge' = [challenge EXCEPT ![c] = new]
  BY <1>1 DEF ChallengeExpires
<1>4. /\ new \in ChallengeRow /\ new.user = old.user /\ new.purpose = old.purpose
      /\ new.consumed = old.consumed /\ new.revoked = old.revoked
  BY <1>1, <1>2 DEF ChallengeRow
<1>5. ChallengesKept(challenge, challenge') /\ CodesCalm(challenge, challenge')
  BY <1>1, <1>2, <1>3, <1>4, WritingKeeps
<1>6. job' = job /\ SessionsKept(session, session') /\ invite' \in Invites
  BY SessionsStay DEF ChallengeExpires, Event, LoginInv, RowsAreTyped
<1>7. QED
  BY <1>5, <1>6, EventKeeps

LEMMA LoginNextKeeps ==
  ASSUME LoginInv, LoginNext
  PROVE  LoginInv'
<1>1. ASSUME NEW r \in Req, NEW u \in User, NEW a \in Address, BeginRegister(r, u, a)
      PROVE  LoginInv'
  BY <1>1, RegisterFits, BeginFits
<1>2. ASSUME NEW r \in Req, NEW u \in User, NEW here \in BOOLEAN, BeginLogin(r, u, here)
      PROVE  LoginInv'
  BY <1>2, LoginFits, BeginFits
<1>3. ASSUME NEW r \in Req, NEW c \in Challenge, BeginResend(r, c)
      PROVE  LoginInv'
  BY <1>3, ResendFits, BeginFits
<1>4. ASSUME NEW r \in Req, NEW c \in Challenge, NEW right \in BOOLEAN, NEW u \in User,
             BeginVerify(r, c, right, u)
      PROVE  LoginInv'
  BY <1>4, VerifyFits, BeginFits
<1>5. ASSUME NEW r \in Req,
             \/ BeginAddAccount(r) \/ BeginSignOut(r) \/ BeginLogoutAll(r)
             \/ \E u \in User : BeginSwitch(r, u) \/ BeginRemoveAccount(r, u)
             \/ \E chosen \in SUBSET Session : BeginEndOwn(r, chosen)
      PROVE  LoginInv'
  BY <1>5, BrowserFits, BeginFits
<1>6. ASSUME NEW r \in Req,
             \/ Register(r) \/ Supersede(r) \/ CreateChallenge(r) \/ Resend(r) \/ Miss(r) \/ Lock(r)
             \/ Consume(r) \/ VerifyAddress(r) \/ SupersedeOthers(r) \/ CreateSession(r)
      PROVE  LoginInv'
  BY <1>6, RegisterKeeps, SupersedeKeeps, CreateChallengeKeeps, CodeStepsKeep, ConsumeKeeps,
     LoginRowsKeep, CreateSessionKeeps
<1>7. ASSUME NEW r \in Req,
             \/ Attach(r) \/ AttachFails(r) \/ KeepCurrent(r) \/ SetIntent(r) \/ Switch(r) \/ Forget(r)
             \/ SignOffStored(r) \/ Repoint(r) \/ DropEmpty(r) \/ DropBox(r) \/ DropCookie(r)
             \/ SignOffAll(r) \/ EndOwn(r)
      PROVE  LoginInv'
  BY <1>7, BrowserKeeps
<1>8. ASSUME NEW c \in Challenge, ChallengeExpires(c)
      PROVE  LoginInv'
  BY <1>8, ChallengeExpiresKeeps
<1>9. QED
  BY <1>1, <1>2, <1>3, <1>4, <1>5, <1>6, <1>7, <1>8 DEF LoginNext


-----------------------------------------------------------------------------
(* The handlers of AccountMembers begin.                                   *)

\* Who is active is not deleted, and a deleted account has no access.
LEMMA DeletedHaveLeft ==
  ASSUME AccountsAreKept
  PROVE  /\ Active = PresentIn(user) /\ Present = PresentIn(user)
         /\ \A u \in User : user[u].active => ~user[u].deleted
         /\ \A u \in User : RolesIn(access, u) # {} => ~user[u].deleted
BY DEF AccountsAreKept, RowsAreKept, DeletedAreBare, Active, Present, PresentIn

LEMMA ShortPlans ==
  /\ <<"grant">> \in Seq(OtherStep) /\ <<"activate">> \in Seq(OtherStep)
  /\ <<"deactivate">> \in Seq(OtherStep) /\ <<"remove access">> \in Seq(OtherStep)
  /\ <<"recheck", "convert">> \in Seq(OtherStep) /\ <<"convert">> \in Seq(OtherStep)
BY DEF OtherStep

\* A plan of one of these asks something of the accounts.
LEMMA ShortFits ==
  ASSUME LoginInv, NEW j, IsJob(j),
         j.todo \in {<<"grant">>, <<"activate">>, <<"deactivate">>, <<"remove access">>,
                     <<"recheck", "convert">>},
         AccountsAreKept => Guarded(j, user, access)
  PROVE  Fits(j)
<1>1. j.todo \in Seq(OtherStep)
  BY ShortPlans, Zenon
<1>2. Head(j.todo) \in {"grant", "activate", "deactivate", "remove access", "recheck"}
  BY GuardedHeads, Zenon
<1>3. j.todo # <<>>
  BY GuardedHeads, Zenon
<1>4. Head(j.todo) # "consume"
  BY <1>2
<1>5. QED
  BY <1>1, <1>3, <1>4, GuardedFits

LEMMA InviteFits ==
  ASSUME LoginInv, NEW r \in Req, NEW actor \in User, NEW a \in Address, NEW role \in InviteRoles,
         BeginInvite(r, actor, a, role)
  PROVE  \E j : Begin(r, j) /\ Fits(j)
<1>1. ASSUME NEW u \in User, CanBeGranted(u),
             Begin(r, [Job("invite", <<"grant">>) EXCEPT !.of = u, !.on = role])
      PROVE  \E j : Begin(r, j) /\ Fits(j)
  <2>1. PICK j : j = [Job("invite", <<"grant">>) EXCEPT !.of = u, !.on = role]
    OBVIOUS
  <2>2. IsJob(j) /\ j.todo = <<"grant">> /\ j.of = u
    BY <2>1 DEF IsJob, Job, Idle
  <2>3. Guarded(j, user, access)
    BY <1>1, <2>2 DEF Guarded, CanBeGranted, Present
  <2>4. Fits(j)
    BY <2>2, <2>3, ShortFits
  <2>5. QED
    BY <1>1, <2>1, <2>4
<1>2. ASSUME Begin(r, [Job("invite", <<"invite">>) EXCEPT !.of = a, !.on = role])
      PROVE  \E j : Begin(r, j) /\ Fits(j)
  <2>1. PICK j : j = [Job("invite", <<"invite">>) EXCEPT !.of = a, !.on = role]
    OBVIOUS
  <2>2. IsJob(j) /\ Inviting(j)
    BY <2>1 DEF IsJob, Job, Idle, Inviting
  <2>3. Planned(j, challenge, session) /\ j.todo \notin OpenSteps
    BY <2>2, LoginHeads DEF Planned, Inviting
  <2>4. j.todo # <<>> /\ Head(j.todo) = "invite"
    BY <2>2 DEF Inviting
  <2>5. Fits(j)
    BY <2>3, <2>4, FreePlan DEF Fits
  <2>6. QED
    BY <1>2, <2>1, <2>5
<1>3. QED
  BY <1>1, <1>2 DEF BeginInvite

LEMMA AcceptFits ==
  ASSUME LoginInv, NEW r \in Req, NEW u \in User, NEW i \in Invite, BeginAccept(r, u, i)
  PROVE  \E j : Begin(r, j) /\ Fits(j)
<1>1. PICK j : j = [Job("accept", <<"accept">>) EXCEPT !.of = u, !.on = i]
  OBVIOUS
<1>2. Begin(r, j) /\ ~user[u].deleted
  BY <1>1 DEF BeginAccept, Present
<1>3. IsJob(j) /\ Accepting(j) /\ j.todo = <<"accept">> /\ j.of = u
  BY <1>1 DEF IsJob, Job, Idle, Accepting
<1>4. Planned(j, challenge, session) /\ j.todo \notin OpenSteps
  BY <1>3, LoginHeads DEF Planned, Accepting
<1>5. j.todo # <<>> /\ Head(j.todo) = "accept"
  BY <1>3
<1>6. j.todo \notin AskSteps /\ j.todo \notin EnterSteps /\ j.todo \notin Seq(OtherStep)
  BY <1>5, PlanHeads DEF OtherStep
<1>7. Fits(j)
  BY <1>2, <1>3, <1>4, <1>6 DEF Fits, Grounded
<1>8. QED
  BY <1>2, <1>7

\* Invitations, access and roles.
LEMMA AccessFits ==
  ASSUME LoginInv, NEW r \in Req,
         \/ \E u \in User, i \in Invite : BeginRotate(r, u, i) \/ BeginRevokeInvite(r, u, i)
         \/ \E u \in User, row \in access : BeginRemoveAccess(r, u, row)
         \/ \E actor, u \in User :
              \/ \E active \in BOOLEAN : BeginSetActive(r, actor, u, active)
              \/ BeginRevokeSessions(r, actor, u) \/ BeginConvert(r, actor, u)
  PROVE  \E j : Begin(r, j) /\ Fits(j)
<1>1. ASSUME NEW u \in User, NEW i \in Invite, BeginRotate(r, u, i)
      PROVE  \E j : Begin(r, j) /\ Fits(j)
  <2>1. PICK n : n = invite[i].sends
    OBVIOUS
  <2>2. n \in Nat
    BY <2>1 DEF LoginInv, RowsAreTyped, Invites, InviteRow
  <2>3. PICK j : j = [Job("rotate", <<"rotate">>) EXCEPT !.on = i, !.count = n]
    OBVIOUS
  <2>4. Begin(r, j)
    BY <1>1, <2>1, <2>3 DEF BeginRotate
  <2>5. IsJob(j) /\ j.todo = <<"rotate">>
    BY <2>2, <2>3 DEF IsJob, Job, Idle
  <2>6. <<"rotate">> \in Seq(CalmStep)
    BY DEF CalmStep
  <2>7. QED
    BY <2>4, <2>5, <2>6, CalmFits
<1>2. ASSUME NEW u \in User, NEW i \in Invite, BeginRevokeInvite(r, u, i)
      PROVE  \E j : Begin(r, j) /\ Fits(j)
  <2>1. PICK j : j = [Job("revoke", <<"revoke">>) EXCEPT !.on = i]
    OBVIOUS
  <2>2. Begin(r, j)
    BY <1>2, <2>1 DEF BeginRevokeInvite
  <2>3. IsJob(j) /\ j.todo = <<"revoke">>
    BY <2>1 DEF IsJob, Job, Idle
  <2>4. <<"revoke">> \in Seq(CalmStep)
    BY DEF CalmStep
  <2>5. QED
    BY <2>2, <2>3, <2>4, CalmFits
<1>3. ASSUME NEW u \in User, NEW row \in access, BeginRemoveAccess(r, u, row)
      PROVE  \E j : Begin(r, j) /\ Fits(j)
  <2>1. PICK j : j = [Job("remove access", <<"remove access">>) EXCEPT !.of = row[1], !.on = row]
    OBVIOUS
  <2>2. Begin(r, j) /\ MayRemove(access, Active, u, row)
    BY <1>3, <2>1 DEF BeginRemoveAccess
  <2>3. IsJob(j) /\ j.todo = <<"remove access">> /\ j.on = row
    BY <2>1 DEF IsJob, Job, Idle
  <2>4. ASSUME AccountsAreKept
        PROVE  Guarded(j, user, access)
    <3>1. ASSUME NEW x \in User, row = <<x, "owner", "company">>
          PROVE  Owners(access, PresentIn(user)) # {x}
      <4>1. row[1] = x /\ row[2] = "owner" /\ row[3] = "company"
        BY <3>1
      <4>2. ~IsLastActiveOwner(access, Active, x)
        BY <2>2, <4>1 DEF MayRemove
      <4>3. QED
        BY <2>4, <4>2, DeletedHaveLeft DEF IsLastActiveOwner
    <3>2. QED
      BY <2>3, <3>1 DEF Guarded
  <2>5. Fits(j)
    BY <2>3, <2>4, ShortFits
  <2>6. QED
    BY <2>2, <2>5
<1>4. ASSUME NEW actor \in User, NEW u \in User, NEW active \in BOOLEAN, BeginSetActive(r, actor, u, active)
      PROVE  \E j : Begin(r, j) /\ Fits(j)
  <2>1. PICK todo \in {<<"activate">>, <<"deactivate">>} :
          todo = IF active THEN <<"activate">> ELSE <<"deactivate">>
    OBVIOUS
  <2>2. PICK j : j = [Job("set active", todo) EXCEPT !.of = u]
    OBVIOUS
  <2>3. Begin(r, j) /\ AssertCanManageUser(access, actor, u) /\ (active \/ ~IsLastActiveOwner(access, Active, u))
    BY <1>4, <2>1, <2>2 DEF BeginSetActive
  <2>4. IsJob(j) /\ j.todo = todo /\ j.of = u
    BY <2>2 DEF IsJob, Job, Idle
  <2>5. ASSUME AccountsAreKept
        PROVE  Guarded(j, user, access)
    <3>1. CASE active
      BY <2>1, <2>3, <2>4, <2>5, <3>1, DeletedHaveLeft DEF AssertCanManageUser, Guarded
    <3>2. CASE ~active
      BY <2>1, <2>3, <2>4, <2>5, <3>2, DeletedHaveLeft DEF IsLastActiveOwner, Guarded
    <3>3. QED
      BY <3>1, <3>2
  <2>6. Fits(j)
    BY <2>1, <2>4, <2>5, ShortFits
  <2>7. QED
    BY <2>3, <2>6
<1>5. ASSUME NEW actor \in User, NEW u \in User, BeginRevokeSessions(r, actor, u)
      PROVE  \E j : Begin(r, j) /\ Fits(j)
  <2>1. PICK j : j = [Job("revoke sessions", <<"revoke sessions">>) EXCEPT !.of = u]
    OBVIOUS
  <2>2. Begin(r, j)
    BY <1>5, <2>1 DEF BeginRevokeSessions
  <2>3. IsJob(j) /\ j.todo = <<"revoke sessions">>
    BY <2>1 DEF IsJob, Job, Idle
  <2>4. <<"revoke sessions">> \in Seq(CalmStep)
    BY DEF CalmStep
  <2>5. QED
    BY <2>2, <2>3, <2>4, CalmFits
<1>6. ASSUME NEW actor \in User, NEW u \in User, BeginConvert(r, actor, u)
      PROVE  \E j : Begin(r, j) /\ Fits(j)
  <2>1. PICK shape : shape = Shape(u)
    OBVIOUS
  <2>2. PICK j : j = [Job("convert", <<"recheck", "convert">>) EXCEPT !.of = u, !.on = shape]
    OBVIOUS
  <2>3. Begin(r, j) /\ ~user[u].deleted /\ shape \in DOMAIN Counterpart
    BY <1>6, <2>1, <2>2 DEF BeginConvert, Present
  <2>4. IsJob(j) /\ j.todo = <<"recheck", "convert">> /\ j.of = u /\ j.on = shape
    BY <2>2 DEF IsJob, Job, Idle
  <2>5. Guarded(j, user, access)
    BY <2>3, <2>4 DEF Guarded
  <2>6. Fits(j)
    BY <2>4, <2>5, ShortFits
  <2>7. QED
    BY <2>3, <2>6
<1>7. QED
  BY <1>1, <1>2, <1>3, <1>4, <1>5, <1>6

LEMMA DeletionSteps ==
  /\ <<"check", "tombstone">> \in Seq(OtherStep) /\ Len(<<"check", "tombstone">>) = 2
  /\ <<"check", "tombstone">>[1] = "check" /\ <<"check", "tombstone">>[2] = "tombstone"
BY DEF OtherStep

\* A check and the write, and then what the browser does.
LEMMA CheckingPlan ==
  ASSUME NEW rest \in Seq(CalmStep)
  PROVE  LET todo == <<"check", "tombstone">> \o rest IN Checking(todo) /\ todo \in Seq(OtherStep)
<1>1. PICK head : head = <<"check", "tombstone">>
  OBVIOUS
<1>2. head \in Seq(OtherStep) /\ Len(head) = 2 /\ head[1] = "check" /\ head[2] = "tombstone"
  BY <1>1, DeletionSteps, Zenon
<1>3. PICK todo : todo = head \o rest
  OBVIOUS
<1>4. rest \in Seq(OtherStep)
  BY CalmIsOther
<1>5. /\ todo \in Seq(OtherStep) /\ Len(todo) = 2 + Len(rest)
      /\ \A i \in 1 .. 2 + Len(rest) : todo[i] = IF i <= 2 THEN head[i] ELSE rest[i - 2]
  <2>1. /\ head \o rest \in Seq(OtherStep)
        /\ Len(head \o rest) = Len(head) + Len(rest)
        /\ \A i \in 1 .. Len(head) + Len(rest) :
             (head \o rest)[i] = IF i <= Len(head) THEN head[i] ELSE rest[i - Len(head)]
    BY <1>2, <1>4, ConcatProperties, Zenon
  <2>2. QED
    BY <1>2, <1>3, <2>1
<1>6. /\ todo[1] = "check" /\ todo[2] = "tombstone"
      /\ \A i \in 1 .. Len(rest) : todo[i + 2] = rest[i]
  BY <1>2, <1>5
<1>7. PICK second : second = Tail(todo)
  OBVIOUS
<1>8. /\ todo # <<>> /\ Head(todo) = "check"
      /\ second \in Seq(OtherStep) /\ Len(second) = 1 + Len(rest) /\ second[1] = "tombstone"
      /\ \A i \in 1 .. Len(rest) : second[i + 1] = rest[i]
  BY <1>5, <1>6, <1>7
<1>9. PICK third : third = Tail(second)
  OBVIOUS
<1>10. /\ second # <<>> /\ Head(second) = "tombstone"
       /\ third \in Seq(OtherStep) /\ Len(third) = Len(rest)
       /\ \A i \in 1 .. Len(rest) : third[i] = rest[i]
  BY <1>8, <1>9
<1>11. third \in Seq(CalmStep)
  BY <1>10
<1>12. Checking(todo)
  BY <1>7, <1>8, <1>9, <1>10, <1>11 DEF Checking
<1>13. QED
  BY <1>1, <1>3, <1>5, <1>12

\* Deletions and restorations.
LEMMA DeletionFits ==
  ASSUME LoginInv, NEW r \in Req,
         \/ \E u \in User, here \in BOOLEAN : BeginDeleteSelf(r, u, here)
         \/ \E actor, u \in User : BeginOwnerDeletion(r, actor, u)
         \/ \E u \in User : BeginRestore(r, u)
         \/ \E u \in User, a \in Address : BeginAlternateRestore(r, u, a)
  PROVE  \E j : Begin(r, j) /\ Fits(j)
<1>1. ASSUME NEW u \in User, NEW here \in BOOLEAN, BeginDeleteSelf(r, u, here)
      PROVE  \E j : Begin(r, j) /\ Fits(j)
  <2>1. PICK leave : leave = IF here THEN LeaveSteps ELSE <<>>
    OBVIOUS
  <2>2. PICK todo : todo = <<"check", "tombstone">> \o leave
    OBVIOUS
  <2>3. PICK j : j = [Job("delete", todo) EXCEPT !.of = u]
    OBVIOUS
  <2>4. Begin(r, j)
    BY <1>1, <2>1, <2>2, <2>3 DEF BeginDeleteSelf
  <2>5. IsJob(j) /\ j.todo = todo
    BY <2>3 DEF IsJob, Job, Idle
  <2>6. leave \in Seq(CalmStep)
    BY <2>1, LeavingIsCalm
  <2>7. Checking(todo) /\ todo \in Seq(OtherStep)
    BY <2>2, <2>6, CheckingPlan
  <2>8. j.todo # <<>> /\ Head(j.todo) # "consume" /\ Guarded(j, user, access)
    BY <2>5, <2>7 DEF Checking, Guarded
  <2>9. QED
    BY <2>4, <2>5, <2>7, <2>8, GuardedFits
<1>2. ASSUME NEW actor \in User, NEW u \in User, BeginOwnerDeletion(r, actor, u)
      PROVE  \E j : Begin(r, j) /\ Fits(j)
  <2>1. PICK j : j = [Job("owner deletion", <<"supersede", "challenge">>)
                      EXCEPT !.of = actor, !.by = "owner_delete"]
    OBVIOUS
  <2>2. Begin(r, j) /\ user[actor].active
    BY <1>2, <2>1 DEF BeginOwnerDeletion, SignedIn, SessionRowValid
  <2>3. IsJob(j) /\ j.todo = <<"supersede", "challenge">> /\ j.of = actor /\ j.by \in Purpose
    BY <2>1 DEF IsJob, Job, Idle, Purpose
  <2>4. AccountsAreKept => ~user[actor].deleted
    BY <2>2, DeletedHaveLeft
  <2>5. QED
    BY <2>2, <2>3, <2>4, AskFits
<1>3. ASSUME NEW u \in User, BeginRestore(r, u)
      PROVE  \E j : Begin(r, j) /\ Fits(j)
  <2>1. PICK j : j = [Job("restore", <<"supersede", "challenge">>)
                      EXCEPT !.of = u, !.by = "account_restore"]
    OBVIOUS
  <2>2. Begin(r, j)
    BY <1>3, <2>1 DEF BeginRestore
  <2>3. /\ IsJob(j) /\ j.todo = <<"supersede", "challenge">> /\ j.of = u
        /\ j.by = "account_restore" /\ j.by \in Purpose
    BY <2>1 DEF IsJob, Job, Idle, Purpose
  <2>4. QED
    BY <2>2, <2>3, AskFits
<1>4. ASSUME NEW u \in User, NEW a \in Address, BeginAlternateRestore(r, u, a)
      PROVE  \E j : Begin(r, j) /\ Fits(j)
  <2>1. PICK j : j = [Job("alternate restore", <<"restore">>) EXCEPT !.of = u, !.on = a]
    OBVIOUS
  <2>2. Begin(r, j)
    BY <1>4, <2>1 DEF BeginAlternateRestore
  <2>3. IsJob(j) /\ j.todo = <<"restore">>
    BY <2>1 DEF IsJob, Job, Idle
  <2>4. <<"restore">> \in Seq(CalmStep)
    BY DEF CalmStep
  <2>5. QED
    BY <2>2, <2>3, <2>4, CalmFits
<1>5. QED
  BY <1>1, <1>2, <1>3, <1>4

(* The steps of AccountMembers.                                            *)

\* One invitation is written.
LEMMA InviteWritten ==
  ASSUME LoginInv, NEW i, NEW row, i \in Invite => row \in InviteRow,
         invite' = [invite EXCEPT ![i] = row]
  PROVE  invite' \in Invites
<1>1. invite \in Invites
  BY DEF LoginInv, RowsAreTyped
<1>2. QED
  BY <1>1 DEF Invites

LEMMA InviteStepsKeep ==
  ASSUME LoginInv, NEW r \in Req, CreateInvite(r) \/ Accept(r)
  PROVE  LoginInv'
<1>1. ChallengesKept(challenge, challenge') /\ SessionsKept(session, session')
  BY ChallengesStay, SessionsStay DEF CreateInvite, Accept, LoginInv, RowsAreTyped
<1>2. CASE CreateInvite(r)
  <2>1. At(r, "invite") /\ Proceed(r)
    BY <1>2 DEF CreateInvite
  <2>2. Inviting(job[r])
    BY <2>1, PlanOfStep
  <2>3. Finish(r)
    BY <2>1, <2>2 DEF Inviting, Proceed, Finish, Rest
  <2>4. PICK row : row = [status |-> "pending", address |-> job[r].of, role |-> job[r].on,
                          token |-> 1, sends |-> 1, recent |-> TRUE, expired |-> FALSE]
    OBVIOUS
  <2>5. row \in InviteRow
    BY <2>2, <2>4 DEF Inviting, InviteRow
  <2>6. \E i \in Invite : invite' = [invite EXCEPT ![i] = row]
    BY <1>2, <2>4 DEF CreateInvite
  <2>7. invite' \in Invites
    BY <2>5, <2>6, InviteWritten
  <2>8. QED
    BY <1>1, <2>3, <2>7, FinishKeeps
<1>3. CASE Accept(r)
  <2>1. At(r, "accept") /\ Proceed(r)
    BY <1>3 DEF Accept
  <2>2. Accepting(job[r])
    BY <2>1, PlanOfStep
  <2>3. Finish(r)
    BY <2>1, <2>2 DEF Accepting, Proceed, Finish, Rest
  <2>4. invite' \in Invites
    BY <1>3, AcceptedInvites DEF Accept
  <2>5. QED
    BY <1>1, <2>3, <2>4, FinishKeeps
<1>4. QED
  BY <1>2, <1>3

\* An invitation is sent again or revoked.
LEMMA InviteChangesKeep ==
  ASSUME LoginInv, NEW r \in Req, Rotate(r) \/ RevokeInvite(r)
  PROVE  LoginInv'
<1>1. ChallengesKept(challenge, challenge') /\ SessionsKept(session, session')
  BY ChallengesStay, SessionsStay DEF Rotate, RevokeInvite, LoginInv, RowsAreTyped
<1>2. PICK i, n, old : i = job[r].on /\ n = job[r].count /\ old = invite[i]
  OBVIOUS
<1>3. invite \in Invites
  BY DEF LoginInv, RowsAreTyped
<1>4. i \in Invite => old \in InviteRow
  BY <1>2, <1>3 DEF Invites
<1>5. CASE Rotate(r)
  <2>1. At(r, "rotate") /\ Proceed(r)
    BY <1>5 DEF Rotate
  <2>2. IsJob(job[r])
    BY <2>1, PlanOfStep
  <2>3. n \in Nat
    BY <1>2, <2>2 DEF IsJob
  <2>4. PICK new : new = [old EXCEPT !.token = old.token + 1, !.sends = n + 1, !.recent = TRUE,
                                     !.expired = FALSE]
    OBVIOUS
  <2>5. i \in Invite => new \in InviteRow
    <3>1. SUFFICES ASSUME i \in Invite
                   PROVE  new \in InviteRow
      OBVIOUS
    <3>2. old.token + 1 \in Nat /\ n + 1 \in Nat
      BY <1>4, <2>3, <3>1 DEF InviteRow
    <3>3. QED
      BY <1>4, <2>4, <3>1, <3>2 DEF InviteRow
  <2>6. invite' = invite \/ invite' = [invite EXCEPT ![i] = new]
    <3>1. CASE ~AsRead(r)
      BY <1>5, <3>1 DEF Rotate
    <3>2. CASE AsRead(r) /\ i \in Invite
      BY <1>2, <1>3, <1>5, <2>4, <3>2 DEF Rotate, Invites
    <3>3. CASE AsRead(r) /\ i \notin Invite
      BY <1>2, <1>3, <1>5, <3>3 DEF Rotate, Invites
    <3>4. QED
      BY <3>1, <3>2, <3>3
  <2>7. invite' \in Invites
    BY <1>3, <2>5, <2>6, InviteWritten
  <2>8. "rotate" \in OtherStep \ {"consume"}
    BY DEF OtherStep
  <2>9. QED
    BY <1>1, <2>1, <2>7, <2>8, ProceedKeeps
<1>6. CASE RevokeInvite(r)
  <2>1. At(r, "revoke") /\ Proceed(r)
    BY <1>6 DEF RevokeInvite
  <2>2. PICK new : new = [old EXCEPT !.status = "revoked"]
    OBVIOUS
  <2>3. i \in Invite => new \in InviteRow
    BY <1>4, <2>2 DEF InviteRow
  <2>4. invite' = invite \/ invite' = [invite EXCEPT ![i] = new]
    BY <1>2, <1>6, <2>2 DEF RevokeInvite
  <2>5. invite' \in Invites
    BY <1>3, <2>3, <2>4, InviteWritten
  <2>6. "revoke" \in OtherStep \ {"consume"}
    BY DEF OtherStep
  <2>7. QED
    BY <1>1, <2>1, <2>5, <2>6, ProceedKeeps
<1>7. QED
  BY <1>5, <1>6

LEMMA InviteEventsKeep ==
  ASSUME LoginInv, NEW i \in Invite, InviteCools(i) \/ InviteExpires(i)
  PROVE  LoginInv'
<1>1. ChallengesKept(challenge, challenge') /\ SessionsKept(session, session') /\ job' = job
  BY ChallengesStay, SessionsStay DEF InviteCools, InviteExpires, Event, LoginInv, RowsAreTyped
<1>2. PICK old, cool, late : /\ old = invite[i] /\ cool = [old EXCEPT !.recent = FALSE]
                            /\ late = [old EXCEPT !.expired = TRUE]
  OBVIOUS
<1>3. old \in InviteRow
  BY <1>2 DEF LoginInv, RowsAreTyped, Invites
<1>4. cool \in InviteRow /\ late \in InviteRow
  BY <1>2, <1>3 DEF InviteRow
<1>5. invite' = [invite EXCEPT ![i] = cool] \/ invite' = [invite EXCEPT ![i] = late]
  BY <1>2 DEF InviteCools, InviteExpires
<1>6. invite' \in Invites
  BY <1>4, <1>5, InviteWritten
<1>7. QED
  BY <1>1, <1>6, EventKeeps

\* The next step of a plan that opens no session and sends no code: what
\* remains of it, with another row to look at.
LEMMA OtherGoesOn ==
  ASSUME LoginInv, NEW r \in Req, NEW step \in OtherStep \ {"consume"}, At(r, step),
         NEW x, job' = [job EXCEPT ![r] = [Rest(job[r]) EXCEPT !.on = x]],
         ChallengesKept(challenge, challenge'), SessionsKept(session, session'), invite' \in Invites
  PROVE  LoginInv'
<1>1. IsJob(job[r]) /\ job[r].todo \in Seq(OtherStep) /\ job[r].todo # <<>>
  BY PlanOfStep
<1>2. PICK k : k = Rest(job[r])
  OBVIOUS
<1>3. PICK j : j = [k EXCEPT !.on = x]
  OBVIOUS
<1>4. IsJob(k) /\ k.todo \in Seq(OtherStep)
  BY <1>1, <1>2, RestOfOther
<1>5. IsJob(j) /\ j.todo = k.todo
  BY <1>3, <1>4 DEF IsJob
<1>6. job' = [job EXCEPT ![r] = j]
  BY <1>2, <1>3
<1>7. QED
  BY <1>4, <1>5, <1>6, OtherKeeps

LEMMA AccessStepsKeep ==
  ASSUME LoginInv, NEW r \in Req,
         \/ Grant(r) \/ RemoveAccess(r) \/ Activate(r) \/ Deactivate(r) \/ RevokeSessions(r)
         \/ Convert(r) \/ Recheck(r)
  PROVE  LoginInv'
<1>1. /\ ChallengesKept(challenge, challenge')
      /\ SessionsKept(session, session') /\ invite' \in Invites
  <2>1. UNCHANGED <<challenge, invite>>
    BY DEF Grant, RemoveAccess, Activate, Deactivate, RevokeSessions, Convert, Recheck, rows
  <2>2. session' = session \/ \E chosen : session' = Revoked(chosen)
    BY DEF Grant, RemoveAccess, Activate, Deactivate, RevokeSessions, Convert, Recheck, rows,
           SessionsLeft, RevokeAllSessionsForUser
  <2>3. QED
    BY <2>1, <2>2, SessionRowsStay
<1>2. CASE Finish(r)
  BY <1>1, <1>2, FinishKeeps
<1>3. CASE Proceed(r)
  <2>1. \E step \in OtherStep \ {"consume"} : At(r, step)
    <3>1. CASE Grant(r)
      BY <3>1 DEF Grant, OtherStep
    <3>2. CASE RemoveAccess(r)
      BY <3>2 DEF RemoveAccess, OtherStep
    <3>3. CASE Activate(r)
      BY <3>3 DEF Activate, OtherStep
    <3>4. CASE Deactivate(r)
      BY <3>4 DEF Deactivate, OtherStep
    <3>5. CASE RevokeSessions(r)
      BY <3>5 DEF RevokeSessions, OtherStep
    <3>6. CASE Convert(r)
      BY <3>6 DEF Convert, OtherStep
    <3>7. CASE Recheck(r)
      BY <3>7 DEF Recheck, OtherStep
    <3>8. QED
      BY <3>1, <3>2, <3>3, <3>4, <3>5, <3>6, <3>7
  <2>2. QED
    BY <1>1, <1>3, <2>1, ProceedKeeps
<1>4. QED
  BY <1>2, <1>3 DEF Grant, RemoveAccess, Activate, Deactivate, RevokeSessions, Convert, Recheck

\* The invitations to an address are withdrawn.
LEMMA WithdrawnInvites ==
  ASSUME LoginInv, NEW a,
         invite' = [i \in Invite |-> IF invite[i].address = a /\ invite[i].status # "accepted"
                                     THEN NoInvite ELSE invite[i]]
  PROVE  invite' \in Invites
<1>1. NoInvite \in InviteRow
  BY DEF NoInvite, InviteRow
<1>2. QED
  BY <1>1 DEF LoginInv, RowsAreTyped, Invites

LEMMA DeletionStepsKeep ==
  ASSUME LoginInv, NEW r \in Req, MayDelete(r) \/ CheckDeletion(r) \/ Tombstone(r)
  PROVE  LoginInv'
<1>1. PICK step \in OtherStep \ {"consume"} : At(r, step)
  <2>1. {"may delete", "check", "tombstone"} \subseteq OtherStep \ {"consume"}
    BY DEF OtherStep
  <2>2. QED
    BY <2>1 DEF MayDelete, CheckDeletion, Tombstone
<1>2. /\ ChallengesKept(challenge, challenge')
      /\ SessionsKept(session, session') /\ invite' \in Invites
  <2>1. CASE UNCHANGED rows
    BY <2>1, RowsStay DEF rows
  <2>2. CASE ~UNCHANGED rows
    <3>1. /\ challenge' = Superseded(CodesOf(job[r].of))
          /\ session' = Revoked(SessionsOf(job[r].of))
          /\ invite' = [i \in Invite |-> IF invite[i].address = job[r].on /\ invite[i].status # "accepted"
                                         THEN NoInvite ELSE invite[i]]
      BY <2>2 DEF MayDelete, CheckDeletion, Tombstone, RevokeAllSessionsForUser
    <3>2. QED
      BY <3>1, SupersedingKeeps, RevokingKeeps, WithdrawnInvites
  <2>3. QED
    BY <2>1, <2>2
<1>3. CASE Finish(r)
  BY <1>2, <1>3, FinishKeeps
<1>4. CASE Proceed(r)
  BY <1>1, <1>2, <1>4, ProceedKeeps
<1>5. ASSUME NEW x, Set(r, [Rest(job[r]) EXCEPT !.on = x])
      PROVE  LoginInv'
  BY <1>1, <1>2, <1>5, OtherGoesOn DEF Set
<1>6. ASSUME NEW x, Set(r, Rest([job[r] EXCEPT !.on = x]))
      PROVE  LoginInv'
  <2>1. IsJob(job[r]) /\ job[r].todo \in Seq(OtherStep) /\ job[r].todo # <<>>
    BY <1>1, PlanOfStep
  <2>2. PICK k : k = [job[r] EXCEPT !.on = x]
    OBVIOUS
  <2>3. IsJob(k) /\ k.todo = job[r].todo
    BY <2>1, <2>2 DEF IsJob
  <2>4. PICK j : j = Rest(k)
    OBVIOUS
  <2>5. IsJob(j) /\ j.todo \in Seq(OtherStep)
    BY <2>1, <2>3, <2>4, RestOfOther
  <2>6. job' = [job EXCEPT ![r] = j]
    BY <1>6, <2>2, <2>4 DEF Set
  <2>7. QED
    BY <1>2, <2>5, <2>6, OtherKeeps
<1>7. QED
  BY <1>3, <1>4, <1>5, <1>6 DEF MayDelete, CheckDeletion, Tombstone

LEMMA RestoreStepsKeep ==
  ASSUME LoginInv, NEW r \in Req, Lookup(r) \/ Restore(r)
  PROVE  LoginInv'
<1>1. PICK step \in OtherStep \ {"consume"} : At(r, step)
  <2>1. {"lookup", "restore"} \subseteq OtherStep \ {"consume"}
    BY DEF OtherStep
  <2>2. QED
    BY <2>1 DEF Lookup, Restore
<1>2. /\ ChallengesKept(challenge, challenge')
      /\ SessionsKept(session, session') /\ invite' \in Invites
  <2>1. CASE UNCHANGED rows
    BY <2>1, RowsStay DEF rows
  <2>2. CASE ~UNCHANGED rows
    <3>1. challenge' = Superseded(CodesOf(job[r].of)) /\ UNCHANGED <<session, invite>>
      BY <2>2 DEF Lookup, Restore
    <3>2. QED
      BY <3>1, SupersedingKeeps, SessionsStay DEF LoginInv, RowsAreTyped
  <2>3. QED
    BY <2>1, <2>2
<1>3. CASE Finish(r)
  BY <1>2, <1>3, FinishKeeps
<1>4. CASE Proceed(r)
  BY <1>1, <1>2, <1>4, ProceedKeeps
<1>5. ASSUME NEW x, Set(r, [Rest(job[r]) EXCEPT !.on = x])
      PROVE  LoginInv'
  BY <1>1, <1>2, <1>5, OtherGoesOn DEF Set
<1>6. QED
  BY <1>3, <1>4, <1>5 DEF Lookup, Restore

LEMMA MembersNextKeeps ==
  ASSUME LoginInv, MembersNext
  PROVE  LoginInv'
<1>1. ASSUME NEW r \in Req, NEW u \in User, NEW a \in Address, NEW role \in InviteRoles,
             BeginInvite(r, u, a, role)
      PROVE  LoginInv'
  BY <1>1, InviteFits, BeginFits
<1>2. ASSUME NEW r \in Req, NEW u \in User, NEW i \in Invite, BeginAccept(r, u, i)
      PROVE  LoginInv'
  BY <1>2, AcceptFits, BeginFits
<1>3. ASSUME NEW r \in Req,
             \/ \E u \in User, i \in Invite : BeginRotate(r, u, i) \/ BeginRevokeInvite(r, u, i)
             \/ \E u \in User, row \in access : BeginRemoveAccess(r, u, row)
             \/ \E actor, u \in User :
                  \/ \E active \in BOOLEAN : BeginSetActive(r, actor, u, active)
                  \/ BeginRevokeSessions(r, actor, u) \/ BeginConvert(r, actor, u)
      PROVE  LoginInv'
  BY <1>3, AccessFits, BeginFits
<1>4. ASSUME NEW r \in Req,
             \/ \E u \in User, here \in BOOLEAN : BeginDeleteSelf(r, u, here)
             \/ \E actor, u \in User : BeginOwnerDeletion(r, actor, u)
             \/ \E u \in User : BeginRestore(r, u)
             \/ \E u \in User, a \in Address : BeginAlternateRestore(r, u, a)
      PROVE  LoginInv'
  BY <1>4, DeletionFits, BeginFits
<1>5. ASSUME NEW r \in Req,
             \/ Grant(r) \/ RemoveAccess(r) \/ Activate(r) \/ Deactivate(r) \/ RevokeSessions(r)
             \/ Convert(r) \/ Recheck(r)
      PROVE  LoginInv'
  BY <1>5, AccessStepsKeep
<1>6. ASSUME NEW r \in Req,
             \/ CreateInvite(r) \/ Accept(r) \/ Rotate(r) \/ RevokeInvite(r)
             \/ FindPending(r) \/ ApplyPending(r)
             \/ MayDelete(r) \/ CheckDeletion(r) \/ Tombstone(r) \/ Lookup(r) \/ Restore(r)
      PROVE  LoginInv'
  BY <1>6, InviteStepsKeep, InviteChangesKeep, FindPendingKeeps, ApplyPendingKeeps,
     DeletionStepsKeep, RestoreStepsKeep
<1>7. ASSUME NEW i \in Invite, InviteCools(i) \/ InviteExpires(i)
      PROVE  LoginInv'
  BY <1>7, InviteEventsKeep
<1>8. QED
  BY <1>1, <1>2, <1>3, <1>4, <1>5, <1>6, <1>7 DEF MembersNext

LEMMA InitLogins ==
  ASSUME Init
  PROVE  LoginInv
<1>1. RowsAreTyped
  <2>1. challenge \in Challenges
    BY DEF Init, Challenges
  <2>2. session \in Sessions
    <3>1. ASSUME NEW s \in Session
          PROVE  session[s] \in SessionRow \cup {NoSession}
      <4>1. CASE s \in scenario.signed
        <5>1. s \in User
          BY <4>1, ScenarioAssumption DEF Init
        <5>2. session[s] = [NoSession EXCEPT !.user = s]
          BY <4>1 DEF Init
        <5>3. QED
          BY <5>1, <5>2 DEF SessionRow, NoSession
      <4>2. CASE s \notin scenario.signed
        BY <4>2 DEF Init
      <4>3. QED
        BY <4>1, <4>2
    <3>2. session = [s \in Session |-> session[s]]
      BY DEF Init
    <3>3. QED
      BY <3>1, <3>2 DEF Sessions
  <2>3. invite \in Invites
    <3>1. NoInvite \in InviteRow
      BY DEF NoInvite, InviteRow
    <3>2. QED
      BY <3>1 DEF Init, Invites
  <2>4. QED
    BY <2>1, <2>2, <2>3 DEF RowsAreTyped
<1>2. \A r \in Req : Planned(job[r], challenge, session) /\ job[r].todo \notin OpenSteps
  BY IdleIsPlanned, OtherPlan DEF Init
<1>3. JobsArePlanned /\ OpeningsAreApart
  BY <1>2 DEF JobsArePlanned, OpeningsAreApart, Init
<1>4. \A s \in NewSession : session[s] = NoSession
  BY NamesAssumption, ScenarioAssumption DEF Init, Session
<1>5. SessionsNameTheirCode /\ LoginsAreSpent
  BY <1>4 DEF SessionsNameTheirCode, LoginsAreSpent
<1>6. QED
  BY <1>1, <1>3, <1>5 DEF LoginInv

LEMMA NextKeepsLogins ==
  ASSUME LoginInv, [Next]_vars
  PROVE  LoginInv'
<1>1. CASE UNCHANGED vars
  <2>1. job' = job /\ UNCHANGED <<challenge, session, invite>>
    BY <1>1 DEF vars, rows
  <2>2. QED
    BY <2>1, RowsStay, EventKeeps
<1>2. ASSUME NEW r \in Req, Crash(r)
      PROVE  LoginInv'
  <2>1. Finish(r) /\ UNCHANGED <<challenge, session, invite>>
    BY <1>2 DEF Crash, rows
  <2>2. QED
    BY <2>1, RowsStay, FinishKeeps
<1>3. QED
  BY <1>1, <1>2, LoginNextKeeps, MembersNextKeeps DEF Next

\* A session that was opened is the outcome of a login challenge of that user
\* which was consumed, and a challenge opens one at most, however many
\* requests submit its code at once.
THEOREM LoginOpensOnce == Spec => []LoginsAreSpent
<1>1. Init => LoginInv
  BY InitLogins
<1>2. LoginInv /\ [Next]_vars => LoginInv'
  BY NextKeepsLogins
<1>3. LoginInv => LoginsAreSpent
  BY DEF LoginInv
<1>4. QED
  BY <1>1, <1>2, <1>3, PTL DEF Spec

-----------------------------------------------------------------------------
(* Where access comes from.                                                *)

\* What InvitesGrantOnce says of a step.
GivesOnce ==
  \A row \in access' \ access :
    \/ \E r \in Req : At(r, "grant") \/ At(r, "convert")
    \/ \E i \in Invite : /\ Pending(i) /\ invite'[i].status = "accepted"
                         /\ row[2] = invite[i].role

LEMMA LoginGivesNothing ==
  ASSUME LoginNext
  PROVE  access' = access
<1>1. ASSUME NEW r \in Req, NEW j, Begin(r, j)
      PROVE  access' = access
  BY <1>1 DEF Begin, rows
<1>2. ASSUME NEW r \in Req,
             \/ \E u \in User, a \in Address : BeginRegister(r, u, a)
             \/ \E u \in User, here \in BOOLEAN : BeginLogin(r, u, here)
             \/ \E c \in Challenge : BeginResend(r, c)
             \/ \E c \in Challenge, right \in BOOLEAN, u \in User : BeginVerify(r, c, right, u)
      PROVE  access' = access
  BY <1>1, <1>2 DEF BeginRegister, BeginLogin, BeginResend, BeginVerify
<1>3. ASSUME NEW r \in Req,
             \/ BeginAddAccount(r) \/ BeginSignOut(r) \/ BeginLogoutAll(r)
             \/ \E u \in User : BeginSwitch(r, u) \/ BeginRemoveAccount(r, u)
             \/ \E chosen \in SUBSET Session : BeginEndOwn(r, chosen)
      PROVE  access' = access
  BY <1>1, <1>3 DEF BeginAddAccount, BeginSignOut, BeginLogoutAll, BeginSwitch, BeginRemoveAccount,
     BeginEndOwn
<1>4. ASSUME NEW r \in Req,
             \/ Register(r) \/ Supersede(r) \/ CreateChallenge(r) \/ Resend(r) \/ Miss(r) \/ Lock(r)
             \/ Consume(r) \/ VerifyAddress(r) \/ SupersedeOthers(r) \/ CreateSession(r)
      PROVE  access' = access
  BY <1>4 DEF Register, Supersede, CreateChallenge, Resend, Miss, Lock, Consume, VerifyAddress,
     SupersedeOthers, CreateSession, rows
<1>5. ASSUME NEW r \in Req,
             \/ Attach(r) \/ AttachFails(r) \/ KeepCurrent(r) \/ SetIntent(r) \/ Switch(r) \/ Forget(r)
             \/ SignOffStored(r) \/ Repoint(r) \/ DropEmpty(r) \/ DropBox(r) \/ DropCookie(r)
             \/ SignOffAll(r) \/ EndOwn(r)
      PROVE  access' = access
  BY <1>5 DEF Attach, AttachFails, KeepCurrent, SetIntent, Switch, Forget, SignOffStored, Repoint,
     DropEmpty, DropBox, DropCookie, SignOffAll, EndOwn, rows
<1>6. ASSUME NEW c \in Challenge, ChallengeExpires(c)
      PROVE  access' = access
  BY <1>6 DEF ChallengeExpires
<1>7. QED
  BY <1>2, <1>3, <1>4, <1>5, <1>6 DEF LoginNext

LEMMA AcceptedGives ==
  ASSUME LoginInv, NEW u, NEW i \in Invite, Accepted(u, i)
  PROVE  GivesOnce
<1>1. SUFFICES ASSUME NEW row \in access' \ access
               PROVE  Pending(i) /\ invite'[i].status = "accepted" /\ row[2] = invite[i].role
  BY DEF GivesOnce
<1>2. StillPending(i)
  BY DEF Accepted
<1>3. /\ invite' = [invite EXCEPT ![i].status = "accepted"]
      /\ row = <<u, invite[i].role, ScopeOf(invite[i].role)>>
  BY <1>2 DEF Accepted
<1>4. invite \in Invites
  BY DEF LoginInv, RowsAreTyped
<1>5. invite'[i].status = "accepted"
  BY <1>3, <1>4 DEF Invites, InviteRow
<1>6. QED
  BY <1>2, <1>3, <1>5 DEF StillPending

LEMMA MembersGiveOnce ==
  ASSUME LoginInv, MembersNext
  PROVE  GivesOnce
<1>1. ASSUME NEW r \in Req, NEW j, Begin(r, j)
      PROVE  access' = access
  BY <1>1 DEF Begin, rows
<1>2. ASSUME NEW r \in Req,
             \/ \E u \in User, a \in Address, role \in InviteRoles : BeginInvite(r, u, a, role)
             \/ \E u \in User, i \in Invite :
                  BeginRotate(r, u, i) \/ BeginRevokeInvite(r, u, i) \/ BeginAccept(r, u, i)
             \/ \E u \in User, row \in access : BeginRemoveAccess(r, u, row)
      PROVE  access' = access
  BY <1>1, <1>2 DEF BeginInvite, BeginRotate, BeginRevokeInvite, BeginAccept, BeginRemoveAccess
<1>3. ASSUME NEW r \in Req,
             \/ \E actor, u \in User :
                  \/ \E active \in BOOLEAN : BeginSetActive(r, actor, u, active)
                  \/ BeginRevokeSessions(r, actor, u) \/ BeginConvert(r, actor, u)
                  \/ BeginOwnerDeletion(r, actor, u)
             \/ \E u \in User, here \in BOOLEAN : BeginDeleteSelf(r, u, here)
             \/ \E u \in User : BeginRestore(r, u)
             \/ \E u \in User, a \in Address : BeginAlternateRestore(r, u, a)
      PROVE  access' = access
  BY <1>1, <1>3 DEF BeginSetActive, BeginRevokeSessions, BeginConvert, BeginOwnerDeletion,
     BeginDeleteSelf, BeginRestore, BeginAlternateRestore
<1>4. ASSUME NEW r \in Req,
             \/ CreateInvite(r) \/ Rotate(r) \/ RevokeInvite(r) \/ FindPending(r) \/ RemoveAccess(r)
             \/ Activate(r) \/ Deactivate(r) \/ RevokeSessions(r) \/ Recheck(r) \/ MayDelete(r)
             \/ CheckDeletion(r) \/ Tombstone(r) \/ Lookup(r) \/ Restore(r)
      PROVE  access' \subseteq access
  BY <1>4 DEF CreateInvite, Rotate, RevokeInvite, FindPending, RemoveAccess, Activate, Deactivate,
     RevokeSessions, Recheck, MayDelete, CheckDeletion, Tombstone, Lookup, Restore, rows
<1>5. ASSUME NEW i \in Invite, InviteCools(i) \/ InviteExpires(i)
      PROVE  access' = access
  BY <1>5 DEF InviteCools, InviteExpires
<1>6. ASSUME access' \subseteq access
      PROVE  GivesOnce
  BY <1>6 DEF GivesOnce
<1>7. ASSUME NEW r \in Req, Grant(r) \/ Convert(r)
      PROVE  GivesOnce
  BY <1>7 DEF GivesOnce, Grant, Convert
<1>8. ASSUME NEW r \in Req, Accept(r)
      PROVE  GivesOnce
  <2>1. At(r, "accept") /\ Accepted(job[r].of, job[r].on)
    BY <1>8 DEF Accept
  <2>2. job[r].on \in Invite
    BY <2>1, PlanOfStep DEF Accepting
  <2>3. QED
    BY <2>1, <2>2, AcceptedGives
<1>9. ASSUME NEW r \in Req, ApplyPending(r)
      PROVE  GivesOnce
  <2>1. At(r, "invites")
    BY <1>9 DEF ApplyPending
  <2>2. job[r].seen \subseteq Invite
    BY <2>1, PlanOfStep, LoginHeads DEF Opening, OpenSteps
  <2>3. access' = access \/ \E i \in job[r].seen : Accepted(job[r].of, i)
    BY <1>9 DEF ApplyPending, rows
  <2>4. QED
    BY <1>6, <2>2, <2>3, AcceptedGives
<1>10. QED
  BY <1>2, <1>3, <1>4, <1>5, <1>6, <1>7, <1>8, <1>9 DEF MembersNext

\* However requests interleave, access comes from a grant, a conversion, or an
\* invitation at the moment it is accepted, which it is once.
THEOREM InvitationGrantsOnce == Spec => InvitesGrantOnce
<1>1. Init => LoginInv
  BY InitLogins
<1>2. LoginInv /\ [Next]_vars => LoginInv'
  BY NextKeepsLogins
<1>3. LoginInv /\ [Next]_vars => [GivesOnce]_vars
  <2>1. ASSUME access' = access
        PROVE  GivesOnce
    BY <2>1 DEF GivesOnce
  <2>2. ASSUME NEW r \in Req, Crash(r)
        PROVE  access' = access
    BY <2>2 DEF Crash, rows
  <2>3. QED
    BY <2>1, <2>2, LoginGivesNothing, MembersGiveOnce DEF Next
<1>4. [][GivesOnce]_vars => InvitesGrantOnce
  BY PTL DEF InvitesGrantOnce, GivesOnce
<1>5. QED
  BY <1>1, <1>2, <1>3, <1>4, PTL DEF Spec

-----------------------------------------------------------------------------
(* One request at a time: the steps of AccountLogin.                       *)

LEMMA StepIsGrounded ==
  ASSUME SlotInv, NEW r \in Req, NEW step, At(r, step)
  PROVE  /\ r \in scenario.slots
         /\ IsJob(job[r]) /\ job[r].todo # <<>> /\ Head(job[r].todo) = step
         /\ OneAtATime => RowsAreKept /\ Grounded(job[r], user, access)
<1>1. LoginInv
  BY DEF SlotInv
<1>2. IsJob(job[r]) /\ job[r].todo # <<>>
  BY <1>1, PlanOfStep
<1>3. QED
  BY <1>2, StepHasSlot DEF SlotInv, AccountsAreKept, At

\* One user is written.
LEMMA UserWritten ==
  ASSUME UsersAreShaped, NEW u, NEW row, u \in User => IsUser(row), user' = [user EXCEPT ![u] = row]
  PROVE  UsersAreShaped' /\ \A x \in User : user'[x] = IF x = u THEN row ELSE user[x]
<1>1. \A x \in User : user'[x] = IF x = u THEN row ELSE user[x]
  BY DEF UsersAreShaped
<1>2. user' = [x \in User |-> user'[x]]
  BY DEF UsersAreShaped
<1>3. QED
  BY <1>1, <1>2 DEF UsersAreShaped, IsUser

\* One user becomes active, and is not deleted.
LEMMA ActiveKeeps ==
  ASSUME LoginInv, RowsAreKept, NEW u, \A x \in User \ {u} : user'[x] = user[x],
         u \in User => user'[u].active /\ ~user'[u].deleted,
         access' = access, CodesCalm(challenge, challenge'), SessionsCalm(session, session')
  PROVE  RowsAreKept'
<1>1. InactiveAreSignedOff'
  BY DEF RowsAreKept, InactiveAreSignedOff, SessionsCalm, LoginInv, RowsAreTyped, Sessions, SessionRow
<1>2. DeletedAreBare'
  BY DEF RowsAreKept, DeletedAreBare, RolesIn
<1>3. DeletedHaveNoCode'
  BY DEF RowsAreKept, DeletedHaveNoCode, CodesCalm, LiveIn, Live
<1>4. (Owners(access, Present) # {})'
  BY DEF RowsAreKept, Owners, Present, Active
<1>5. QED
  BY <1>1, <1>2, <1>3, <1>4 DEF RowsAreKept

LEMMA RegisterSlot ==
  ASSUME SlotInv, LoginInv', NEW r \in Req, Register(r)
  PROVE  SlotInv'
<1>1. At(r, "register") /\ LoginInv
  BY DEF Register, SlotInv
<1>2. /\ r \in scenario.slots /\ IsJob(job[r]) /\ Head(job[r].todo) = "register" /\ Asking(job[r])
      /\ OneAtATime => RowsAreKept /\ Grounded(job[r], user, access)
  BY <1>1, StepIsGrounded, PlanOfStep
<1>3. CASE Finish(r) /\ UNCHANGED rows
  <2>1. UNCHANGED <<user, access, challenge, session>>
    BY <1>3 DEF rows
  <2>2. QED
    BY <1>2, <1>3, <2>1, SameIsCalm, FinishCalm
<1>4. CASE ~(Finish(r) /\ UNCHANGED rows)
  <2>1. PICK u, a : u = job[r].of /\ a = job[r].on
    OBVIOUS
  <2>2. PICK row : row = [NoUser EXCEPT !.active = TRUE, !.address = a]
    OBVIOUS
  <2>3. /\ user' = [user EXCEPT ![u] = row] /\ Proceed(r)
        /\ UNCHANGED <<access, challenge, session>>
    BY <1>4, <2>1, <2>2 DEF Register
  <2>4. row.active /\ ~row.deleted /\ IsUser(row)
    BY <2>2 DEF NoUser, IsUser
  <2>5. UsersAreShaped' /\ \A x \in User : user'[x] = IF x = u THEN row ELSE user[x]
    BY <2>3, <2>4, UserWritten DEF SlotInv
  <2>6. PICK j : j = [job[r] EXCEPT !.todo = <<"supersede", "challenge">>]
    OBVIOUS
  <2>7. Rest(job[r]) = j
    <3>1. job[r].todo = <<"register", "supersede", "challenge">>
      BY <1>2 DEF Asking, AskSteps
    <3>2. QED
      BY <2>6, <3>1 DEF Rest
  <2>8. j.todo \in AskSteps /\ j.of = u /\ u \in User
    BY <1>2, <2>1, <2>6 DEF IsJob, AskSteps, Asking
  <2>9. ASSUME OneAtATime
        PROVE  RowsAreKept' /\ Grounded(j, user', access')
    <3>1. /\ \A x \in User \ {u} : user'[x] = user[x]
          /\ u \in User => user'[u].active /\ ~user'[u].deleted
      BY <2>4, <2>5
    <3>2. RowsAreKept'
      BY <1>1, <1>2, <2>3, <2>9, <3>1, SameIsCalm, ActiveKeeps
    <3>3. QED
      BY <2>4, <2>5, <2>8, <3>2, AskGround
  <2>10. scenario' = scenario /\ job' = [job EXCEPT ![r] = j]
    BY <2>3, <2>7 DEF Proceed, Set
  <2>11. QED
    BY <1>2, <2>5, <2>9, <2>10, SlotStep
<1>5. QED
  BY <1>3, <1>4

LEMMA SupersedeSlot ==
  ASSUME SlotInv, LoginInv', NEW r \in Req, Supersede(r)
  PROVE  SlotInv'
<1>1. At(r, "supersede") /\ LoginInv /\ challenge \in Challenges
  BY DEF Supersede, SlotInv, LoginInv, RowsAreTyped
<1>2. /\ r \in scenario.slots /\ IsJob(job[r]) /\ Head(job[r].todo) = "supersede" /\ Asking(job[r])
      /\ OneAtATime => RowsAreKept /\ Grounded(job[r], user, access)
  BY <1>1, StepIsGrounded, PlanOfStep
<1>3. job[r].todo = <<"supersede", "challenge">>
  BY <1>2 DEF Asking, AskSteps
<1>4. PICK j : j = [job[r] EXCEPT !.todo = <<"challenge">>]
  OBVIOUS
<1>5. Rest(job[r]) = j
  BY <1>3, <1>4 DEF Rest
<1>6. j.todo \in AskSteps /\ j.of = job[r].of /\ j.by = job[r].by
  BY <1>2, <1>4 DEF IsJob, AskSteps
<1>7. ASSUME OneAtATime
      PROVE  Grounded(j, user, access)
  <2>1. job[r].todo \in AskSteps /\ job[r].todo # <<"register", "supersede", "challenge">>
    BY <1>3 DEF AskSteps
  <2>2. j.by = "account_restore" \/ ~user[j.of].deleted
    BY <1>2, <1>6, <1>7, <2>1 DEF Grounded
  <2>3. QED
    BY <1>6, <2>2, AskGround
<1>8. /\ scenario' = scenario /\ job' = [job EXCEPT ![r] = j]
      /\ UNCHANGED <<user, access, session>>
  BY <1>5 DEF Supersede, Proceed, Set
<1>9. CodesCalm(challenge, challenge') /\ SessionsCalm(session, session')
  BY <1>1, <1>8, SupersededIsCalm, SameIsCalm DEF Supersede
<1>10. QED
  BY <1>2, <1>7, <1>8, <1>9, CalmKeeps

LEMMA CreateChallengeSlot ==
  ASSUME SlotInv, LoginInv', NEW r \in Req, CreateChallenge(r)
  PROVE  SlotInv'
<1>1. At(r, "challenge") /\ LoginInv /\ challenge \in Challenges
  BY DEF CreateChallenge, SlotInv, LoginInv, RowsAreTyped
<1>2. /\ r \in scenario.slots /\ Head(job[r].todo) = "challenge" /\ Asking(job[r])
      /\ OneAtATime => RowsAreKept /\ Grounded(job[r], user, access)
  BY <1>1, StepIsGrounded, PlanOfStep
<1>3. job[r].todo = <<"challenge">>
  BY <1>2 DEF Asking, AskSteps
<1>4. PICK row : row = [NoChallenge EXCEPT !.user = job[r].of, !.purpose = job[r].by, !.code = 1,
                                           !.here = job[r].count = 1]
  OBVIOUS
<1>5. row.user = job[r].of /\ row.purpose = job[r].by
  BY <1>4 DEF NoChallenge
<1>6. PICK c \in Challenge : challenge[c] = NoChallenge /\ challenge' = [challenge EXCEPT ![c] = row]
  BY <1>4 DEF CreateChallenge
<1>7. challenge'[c] = row /\ \A d \in Challenge \ {c} : challenge'[d] = challenge[d]
  BY <1>1, <1>6 DEF Challenges
<1>8. UNCHANGED <<user, access, session, scenario>> /\ job' = [job EXCEPT ![r] = Idle]
  BY <1>3 DEF CreateChallenge, Proceed, Set, Rest
<1>9. ASSUME OneAtATime
      PROVE  RowsAreKept'
  <2>1. job[r].by = "account_restore" \/ ~user[job[r].of].deleted
    <3>1. job[r].todo \in AskSteps /\ job[r].todo # <<"register", "supersede", "challenge">>
      BY <1>3 DEF AskSteps
    <3>2. QED
      BY <1>2, <1>9, <3>1 DEF Grounded
  <2>2. DeletedHaveNoCode'
    BY <1>2, <1>5, <1>7, <1>8, <1>9, <2>1 DEF RowsAreKept, DeletedHaveNoCode, Live
  <2>3. (InactiveAreSignedOff /\ DeletedAreBare /\ Owners(access, Present) # {})'
    BY <1>2, <1>8, <1>9
       DEF RowsAreKept, InactiveAreSignedOff, DeletedAreBare, RolesIn, Owners, Present, Active
  <2>4. QED
    BY <2>2, <2>3 DEF RowsAreKept
<1>10. UsersAreShaped'
  BY <1>8 DEF SlotInv, UsersAreShaped, IsUser
<1>11. QED
  BY <1>2, <1>8, <1>9, <1>10, IdleIsGrounded, SlotStep

LEMMA CodeStepsSlot ==
  ASSUME SlotInv, LoginInv', NEW r \in Req, Resend(r) \/ Miss(r) \/ Lock(r)
  PROVE  SlotInv'
<1>1. PICK step \in {"resend", "miss", "lock"} : At(r, step)
  BY DEF Resend, Miss, Lock
<1>2. /\ r \in scenario.slots /\ IsJob(job[r]) /\ Coding(job[r], challenge)
      /\ Head(job[r].todo) = step
  BY <1>1, StepIsGrounded, PlanOfStep DEF SlotInv
<1>3. CodesCalm(challenge, challenge') /\ SessionsCalm(session, session') /\ UNCHANGED <<user, access>>
  BY CodeStepsKeep, SameIsCalm DEF SlotInv, Resend, Miss, Lock
<1>4. CASE Resend(r) \/ Lock(r)
  <2>1. Finish(r)
    <3>1. CASE Resend(r)
      <4>1. job[r].todo = <<"resend">>
        BY <1>2, <3>1 DEF Resend, At, Coding, CodeSteps
      <4>2. QED
        BY <3>1, <4>1 DEF Resend, Proceed, Finish, Rest
    <3>2. QED
      BY <1>4, <3>1 DEF Lock
  <2>2. QED
    BY <1>2, <1>3, <2>1, FinishCalm
<1>5. CASE Miss(r)
  <2>1. PICK j : j = [job[r] EXCEPT !.todo = <<"lock">>]
    OBVIOUS
  <2>2. Finish(r) \/ Set(r, j)
    BY <1>5, <2>1 DEF Miss, Finish
  <2>3. CASE Set(r, j)
    <3>1. j.todo # <<>> /\ Head(j.todo) = "lock"
      BY <1>2, <2>1 DEF IsJob
    <3>2. Grounded(j, user, access)
      BY <3>1, FreePlan
    <3>3. QED
      BY <1>2, <1>3, <2>3, <3>2, CalmKeeps DEF Set
  <2>4. QED
    BY <1>2, <1>3, <2>2, <2>3, FinishCalm
<1>6. QED
  BY <1>4, <1>5

LEMMA TailOfFour == \A a, b, c, d : Tail(<<a, b, c, d>>) = <<b, c, d>>
OBVIOUS

\* What follows a consumed code that deletes an account.
LEMMA RestOfDeletion ==
  /\ Len(<<"consume", "may delete", "check", "tombstone">>) # 1
  /\ Tail(<<"consume", "may delete", "check", "tombstone">>) = <<"may delete", "check", "tombstone">>
  /\ <<"may delete", "check", "tombstone">> # <<>>
<1>1. Tail(<<"consume", "may delete", "check", "tombstone">>) = <<"may delete", "check", "tombstone">>
  BY TailOfFour, Zenon
<1>2. Len(<<"consume", "may delete", "check", "tombstone">>) # 1
  OBVIOUS
<1>3. <<"may delete", "check", "tombstone">> # <<>>
  OBVIOUS
<1>4. QED
  BY <1>1, <1>2, <1>3, Zenon

LEMMA RestOfCheck ==
  /\ Len(<<"may delete", "check", "tombstone">>) # 1
  /\ Tail(<<"may delete", "check", "tombstone">>) = <<"check", "tombstone">>
  /\ <<"check", "tombstone">> # <<>> /\ Head(<<"check", "tombstone">>) = "check"
OBVIOUS

LEMMA RestOfErasing ==
  /\ Tail(<<"check", "tombstone">>) = <<"tombstone">>
  /\ <<"tombstone">> # <<>> /\ Head(<<"tombstone">>) = "tombstone" /\ Tail(<<"tombstone">>) = <<>>
OBVIOUS

LEMMA DeletionRestIsOther == <<"may delete", "check", "tombstone">> \in Seq(OtherStep)
BY DEF OtherStep

LEMMA ConsumeSlot ==
  ASSUME SlotInv, LoginInv', NEW r \in Req, Consume(r)
  PROVE  SlotInv'
<1>1. At(r, "consume") /\ LoginInv
  BY DEF Consume, SlotInv
<1>2. /\ r \in scenario.slots /\ IsJob(job[r]) /\ job[r].todo # <<>> /\ Head(job[r].todo) = "consume"
      /\ Entered(job[r], challenge) \/ job[r].todo \in Seq(OtherStep)
      /\ OneAtATime => Grounded(job[r], user, access)
  BY <1>1, StepIsGrounded, PlanOfStep
<1>3. CodesCalm(challenge, challenge') /\ SessionsCalm(session, session') /\ UNCHANGED <<user, access>>
  BY <1>1, ConsumeKeeps, SameIsCalm DEF Consume
<1>4. CASE Finish(r)
  BY <1>2, <1>3, <1>4, FinishCalm
<1>5. CASE Proceed(r)
  <2>1. PICK j : j = Rest(job[r])
    OBVIOUS
  <2>2. scenario' = scenario /\ job' = [job EXCEPT ![r] = j]
    BY <1>5, <2>1 DEF Proceed, Set
  <2>3. ASSUME OneAtATime
        PROVE  Grounded(j, user, access)
    <3>1. CASE Entered(job[r], challenge)
      <4>1. job[r].todo \in EnterSteps /\ user[job[r].of].active
        BY <1>2, <2>3, <3>1 DEF Entered, Grounded
      <4>2. Len(job[r].todo) # 1 /\ Tail(job[r].todo) \in OpenSteps
        BY <4>1, LoginTails, LoginHeads DEF EnterSteps, OpenSteps
      <4>3. PICK k : k = [job[r] EXCEPT !.todo = Tail(job[r].todo)]
        OBVIOUS
      <4>4. j = k
        BY <2>1, <4>2, <4>3 DEF Rest
      <4>5. j.todo \in OpenSteps /\ j.of = job[r].of
        BY <1>2, <4>2, <4>3, <4>4 DEF IsJob
      <4>6. QED
        BY <4>1, <4>5, OpenGround
    <3>2. CASE job[r].todo \in Seq(OtherStep)
      <4>1. \/ job[r].todo \in Seq(CalmStep)
            \/ job[r].todo = <<"consume", "may delete", "check", "tombstone">>
        BY <1>2, <2>3, <3>2, GroundOfStep
      <4>2. CASE job[r].todo \in Seq(CalmStep)
        BY <1>2, <2>1, <4>2, RestOfCalm, CalmPlan
      <4>3. CASE job[r].todo = <<"consume", "may delete", "check", "tombstone">>
        <5>1. PICK k : k = [job[r] EXCEPT !.todo = Tail(job[r].todo)]
          OBVIOUS
        <5>2. Len(job[r].todo) # 1 /\ Tail(job[r].todo) = <<"may delete", "check", "tombstone">>
          BY <4>3, RestOfDeletion, Zenon
        <5>3. j = k
          BY <2>1, <5>1, <5>2 DEF Rest
        <5>4. j.todo = Tail(job[r].todo)
          BY <1>2, <5>1, <5>3 DEF IsJob
        <5>5. j.todo = <<"may delete", "check", "tombstone">>
          BY <5>2, <5>4, Zenon
        <5>6. j.todo \in Seq(OtherStep) /\ j.todo # <<>> /\ Head(j.todo) = "may delete"
          BY <5>5, DeletionRestIsOther, RestOfDeletion, GuardedHeads, Zenon
        <5>7. Guarded(j, user, access)
          BY <5>5, Zenon DEF Guarded
        <5>8. Head(j.todo) # "consume"
          BY <5>6
        <5>9. QED
          BY <5>6, <5>7, <5>8, GuardedGround
      <4>4. QED
        BY <4>1, <4>2, <4>3
    <3>3. QED
      BY <1>2, <3>1, <3>2
  <2>4. QED
    BY <1>2, <1>3, <2>2, <2>3, CalmKeeps
<1>6. QED
  BY <1>4, <1>5 DEF Consume

\* A login goes on, and its user stays active.
LEMMA OpeningSlot ==
  ASSUME SlotInv, LoginInv', scenario' = scenario, UsersAreShaped',
         NEW r \in Req, NEW step \in {"verified", "pending", "invites", "others"}, At(r, step),
         NEW j, j.todo \in OpenSteps, j.of = job[r].of, job' = [job EXCEPT ![r] = j],
         OneAtATime => RowsAreKept',
         \A u \in User : user[u].active => user'[u].active
  PROVE  SlotInv'
<1>1. LoginInv
  BY DEF SlotInv
<1>2. r \in scenario.slots /\ (OneAtATime => Grounded(job[r], user, access))
  BY StepIsGrounded
<1>3. Opening(job[r], challenge, session)
  BY <1>1, RestOfOpening
<1>4. job[r].of \in User
  <2>1. challenge[job[r].on] \in ChallengeRow
    BY <1>1, <1>3, NoChallengeIsBare DEF Opening, LoginInv, RowsAreTyped, Challenges, Purpose
  <2>2. QED
    BY <1>3, <2>1 DEF Opening, ChallengeRow
<1>5. ASSUME OneAtATime
      PROVE  Grounded(j, user', access')
  <2>1. user[job[r].of].active
    BY <1>2, <1>3, <1>5 DEF Opening, Grounded
  <2>2. user'[j.of].active
    BY <1>4, <2>1
  <2>3. QED
    BY <2>2, OpenGround
<1>6. QED
  BY <1>2, <1>5, SlotStep

\* One user's address is verified.
LEMMA VerifiedIsUser ==
  ASSUME UsersAreShaped, NEW u
  PROVE  \E row : /\ row = [user[u] EXCEPT !.verified = TRUE]
                  /\ u \in User => /\ IsUser(row) /\ row.active = user[u].active
                                   /\ row.deleted = user[u].deleted /\ row.address = user[u].address
<1>1. PICK old, row : old = user[u] /\ row = [old EXCEPT !.verified = TRUE]
  OBVIOUS
<1>2. IsUser(old) => /\ IsUser(row) /\ row.active = old.active
                     /\ row.deleted = old.deleted /\ row.address = old.address
  BY <1>1 DEF IsUser
<1>3. u \in User => IsUser(old)
  BY <1>1 DEF UsersAreShaped
<1>4. QED
  BY <1>1, <1>2, <1>3

LEMMA LoginRowsSlot ==
  ASSUME SlotInv, LoginInv', NEW r \in Req, VerifyAddress(r) \/ SupersedeOthers(r)
  PROVE  SlotInv'
<1>1. PICK step \in {"verified", "others"} : At(r, step) /\ LoginInv
  BY DEF VerifyAddress, SupersedeOthers, SlotInv
<1>2. PICK j : j = Rest(job[r])
  OBVIOUS
<1>3. scenario' = scenario /\ job' = [job EXCEPT ![r] = j] /\ UNCHANGED <<access, session>>
  BY <1>2 DEF VerifyAddress, SupersedeOthers, Proceed, Set
<1>4. step \in {"verified", "pending", "invites", "others"}
  OBVIOUS
<1>5. j.todo \in OpenSteps /\ j.of = job[r].of
  BY <1>1, <1>2, <1>4, RestOfOpening
<1>6. OneAtATime => RowsAreKept
  BY DEF SlotInv, AccountsAreKept
<1>7. CASE VerifyAddress(r)
  <2> PICK u : u = job[r].of
    OBVIOUS
  <2>1. PICK row : /\ row = [user[u] EXCEPT !.verified = TRUE]
                   /\ u \in User => /\ IsUser(row) /\ row.active = user[u].active
                                    /\ row.deleted = user[u].deleted
                                    /\ row.address = user[u].address
    BY VerifiedIsUser DEF SlotInv
  <2>2. user' = [user EXCEPT ![u] = row] /\ challenge' = challenge
    BY <1>7, <2>1 DEF VerifyAddress
  <2>3. u \in User => /\ IsUser(row) /\ row.active = user[u].active
                      /\ row.deleted = user[u].deleted /\ row.address = user[u].address
    BY <2>1
  <2>4. UsersAreShaped' /\ \A x \in User : user'[x] = IF x = u THEN row ELSE user[x]
    <3>1. UsersAreShaped
      BY DEF SlotInv
    <3>2. u \in User => IsUser(row)
      BY <2>3
    <3>3. user' = [user EXCEPT ![u] = row]
      BY <2>2
    <3>4. \A x \in User : user'[x] = IF x = u THEN row ELSE user[x]
      BY <3>1, <3>3 DEF UsersAreShaped
    <3>5. UsersAreShaped'
      <4>1. user' = [x \in User |-> user'[x]]
        BY <3>1, <3>3 DEF UsersAreShaped
      <4>2. \A x \in User : IsUser(user'[x])
        BY <3>1, <3>2, <3>4 DEF UsersAreShaped
      <4>3. QED
        BY <4>1, <4>2 DEF UsersAreShaped, IsUser
    <3>6. QED
      BY <3>4, <3>5
  <2>5. OneAtATime => RowsAreKept'
    <3>1. \A x \in User : /\ user'[x].active = user[x].active /\ user'[x].deleted = user[x].deleted
                          /\ user'[x].address = user[x].address
      BY <2>3, <2>4
    <3>2. CodesCalm(challenge, challenge') /\ SessionsCalm(session, session')
      BY <1>3, <2>2, SameIsCalm
    <3>3. access \subseteq access' /\ access' \ access = {}
      BY <1>3
    <3>4. QED
      BY <1>1, <1>6, <3>1, <3>2, <3>3, StandingKeeps
  <2>6. \A x \in User : user[x].active => user'[x].active
    BY <2>3, <2>4
  <2>7. QED
    BY <1>1, <1>3, <1>4, <1>5, <2>4, <2>5, <2>6, OpeningSlot
<1>8. CASE SupersedeOthers(r)
  <2>1. user' = user /\ challenge' = Superseded(CodesOf(job[r].of))
    BY <1>8 DEF SupersedeOthers
  <2>2. CodesCalm(challenge, challenge') /\ SessionsCalm(session, session')
    BY <1>1, <1>3, <2>1, SupersededIsCalm, SameIsCalm DEF LoginInv, RowsAreTyped
  <2>3. OneAtATime => RowsAreKept'
    BY <1>1, <1>3, <1>6, <2>1, <2>2, CalmRows
  <2>4. UsersAreShaped'
    BY <2>1 DEF SlotInv, UsersAreShaped, IsUser
  <2>5. QED
    BY <1>1, <1>3, <1>4, <1>5, <2>1, <2>3, <2>4, OpeningSlot
<1>9. QED
  BY <1>7, <1>8

\* A session is opened for an account that is active.
LEMMA CreateSessionSlot ==
  ASSUME SlotInv, LoginInv', NEW r \in Req, CreateSession(r)
  PROVE  SlotInv'
<1>1. At(r, "session") /\ LoginInv
  BY DEF CreateSession, SlotInv
<1>2. /\ r \in scenario.slots /\ IsJob(job[r]) /\ Opening(job[r], challenge, session)
      /\ job[r].todo = FromSession
      /\ OneAtATime => RowsAreKept /\ Grounded(job[r], user, access)
  BY <1>1, StepIsGrounded, PlanOfStep, LoginHeads DEF Opening, OpenSteps
<1>3. PICK row : row = [NoSession EXCEPT !.user = job[r].of, !.by = job[r].on]
  OBVIOUS
<1>4. row.user = job[r].of
  BY <1>3 DEF NoSession
<1>5. PICK s \in NewSession :
        /\ session' = [session EXCEPT ![s] = row]
        /\ Finish(r) \/ Set(r, [Rest(job[r]) EXCEPT !.on = s])
        /\ UNCHANGED <<user, access, challenge>>
  BY <1>3 DEF CreateSession
<1>6. PICK j : /\ scenario' = scenario /\ job' = [job EXCEPT ![r] = j]
               /\ j.todo \in Seq(CalmStep)
  <2>1. CASE Finish(r)
    <3>1. Idle.todo \in Seq(CalmStep)
      BY DEF Idle
    <3>2. QED
      BY <2>1, <3>1 DEF Finish, Set
  <2>2. CASE Set(r, [Rest(job[r]) EXCEPT !.on = s])
    <3>1. PICK k : k = [job[r] EXCEPT !.todo = Tail(job[r].todo)]
      OBVIOUS
    <3>2. Rest(job[r]) = k /\ k.todo = <<"attach">> /\ IsJob(k)
      BY <1>2, <3>1 DEF Rest, FromSession, IsJob
    <3>3. PICK j : j = [k EXCEPT !.on = s]
      OBVIOUS
    <3>4. scenario' = scenario /\ job' = [job EXCEPT ![r] = j]
      BY <2>2, <3>2, <3>3 DEF Set
    <3>5. <<"attach">> \in Seq(CalmStep)
      BY DEF CalmStep
    <3>6. j.todo = <<"attach">>
      BY <3>2, <3>3 DEF IsJob
    <3>7. QED
      BY <3>4, <3>5, <3>6
  <2>3. QED
    BY <1>5, <2>1, <2>2
<1>7. Grounded(j, user', access')
  BY <1>6, CalmPlan
<1>8. UsersAreShaped'
  BY <1>5 DEF SlotInv, UsersAreShaped, IsUser
<1>9. ASSUME OneAtATime
      PROVE  RowsAreKept'
  <2>1. user[job[r].of].active
    BY <1>2, <1>9 DEF Opening, Grounded
  <2>2. InactiveAreSignedOff'
    <3>1. \A t \in Session : session'[t] = IF t = s THEN row ELSE session[t]
      BY <1>1, <1>5 DEF LoginInv, RowsAreTyped, Sessions
    <3>2. QED
      BY <1>2, <1>4, <1>5, <1>9, <2>1, <3>1 DEF RowsAreKept, InactiveAreSignedOff
  <2>3. (DeletedAreBare /\ DeletedHaveNoCode /\ Owners(access, Present) # {})'
    BY <1>2, <1>5, <1>9
       DEF RowsAreKept, DeletedAreBare, DeletedHaveNoCode, Live, RolesIn, Owners, Present, Active
  <2>4. QED
    BY <2>2, <2>3 DEF RowsAreKept
<1>10. QED
  BY <1>2, <1>6, <1>7, <1>8, <1>9, SlotStep


\* The steps of the browser change no account.
LEMMA BrowserSlot ==
  ASSUME SlotInv, LoginInv', NEW r \in Req,
         \/ Attach(r) \/ AttachFails(r) \/ KeepCurrent(r) \/ SetIntent(r) \/ Switch(r) \/ Forget(r)
         \/ SignOffStored(r) \/ Repoint(r) \/ DropEmpty(r) \/ DropBox(r) \/ DropCookie(r)
         \/ SignOffAll(r) \/ EndOwn(r)
  PROVE  SlotInv'
<1>1. UNCHANGED <<user, access, challenge>> /\ session \in Sessions
  BY DEF Attach, AttachFails, KeepCurrent, SetIntent, Switch, Forget, SignOffStored,
         Repoint, DropEmpty, DropBox, DropCookie, SignOffAll, EndOwn, rows,
         SlotInv, LoginInv, RowsAreTyped
<1>2. session' = session \/ \E chosen : session' = Revoked(chosen)
  BY DEF Attach, AttachFails, KeepCurrent, SetIntent, Switch, Forget, SignOffStored,
         Repoint, DropEmpty, DropBox, DropCookie, SignOffAll, EndOwn, rows
<1>3. CodesCalm(challenge, challenge') /\ SessionsCalm(session, session')
  BY <1>1, <1>2, SameIsCalm, RevokedIsCalm
<1>4. CASE Attach(r) \/ AttachFails(r)
  <2>1. r \in scenario.slots /\ Finish(r)
    BY <1>4, StepHasSlot DEF Attach, AttachFails
  <2>2. QED
    BY <1>1, <1>3, <2>1, FinishCalm
<1>5. CASE ~(Attach(r) \/ AttachFails(r))
  <2>1. PICK step \in {"keep", "intent", "switch", "forget", "sign off", "repoint", "empty",
                       "drop box", "drop cookie", "sign off all", "end"} : At(r, step) /\ Proceed(r)
    BY <1>5 DEF KeepCurrent, SetIntent, Switch, Forget, SignOffStored,
                Repoint, DropEmpty, DropBox, DropCookie, SignOffAll, EndOwn
  <2>2. step \in CalmStep \ {"consume"}
    BY DEF CalmStep
  <2>3. QED
    BY <1>1, <1>3, <2>1, <2>2, ProceedCalm
<1>6. QED
  BY <1>4, <1>5

LEMMA ChallengeExpiresSlot ==
  ASSUME SlotInv, LoginInv', NEW c \in Challenge, ChallengeExpires(c)
  PROVE  SlotInv'
<1>1. scenario' = scenario /\ UNCHANGED <<user, access, session, job>>
  BY DEF ChallengeExpires, Event
<1>2. CodesCalm(challenge, challenge') /\ SessionsCalm(session, session')
  BY <1>1, ChallengeExpiresKeeps, SameIsCalm DEF SlotInv
<1>3. QED
  BY <1>1, <1>2, EventIsCalm

LEMMA FindPendingSlot ==
  ASSUME SlotInv, LoginInv', NEW r \in Req, FindPending(r)
  PROVE  SlotInv'
<1>1. At(r, "pending") /\ LoginInv
  BY DEF FindPending, SlotInv
<1>2. PICK k : /\ Rest(job[r]) = k /\ IsJob(k) /\ k.todo \in OpenSteps /\ k.of = job[r].of
  <2>1. PICK k : k = Rest(job[r])
    OBVIOUS
  <2>2. QED
    BY <1>1, <2>1, RestOfOpening
<1>3. PICK found : found = {i \in Invite : Applicable(i, job[r].seen)}
  OBVIOUS
<1>4. PICK j : j = [k EXCEPT !.seen = found]
  OBVIOUS
<1>5. /\ scenario' = scenario /\ job' = [job EXCEPT ![r] = j]
      /\ UNCHANGED <<user, access, challenge, session>>
  BY <1>2, <1>3, <1>4 DEF FindPending, Set, rows
<1>6. j.todo \in OpenSteps /\ j.of = job[r].of
  BY <1>2, <1>4 DEF IsJob
<1>7. UsersAreShaped'
  BY <1>5 DEF SlotInv, UsersAreShaped, IsUser
<1>8. ASSUME OneAtATime
      PROVE  RowsAreKept'
  BY <1>1, <1>5, <1>8, CalmRows, SameIsCalm DEF SlotInv, AccountsAreKept
<1>9. QED
  BY <1>1, <1>5, <1>6, <1>7, <1>8, OpeningSlot

\* An invitation gives access to an account that is not deleted.
LEMMA AcceptedStands ==
  ASSUME SlotInv, NEW u, NEW i, Accepted(u, i), UNCHANGED <<challenge, session>>,
         OneAtATime => ~user[u].deleted
  PROVE  /\ UsersAreShaped'
         /\ \A x \in User : user'[x].active = user[x].active
         /\ OneAtATime => RowsAreKept'
<1>1. LoginInv /\ UsersAreShaped /\ (OneAtATime => RowsAreKept)
  BY DEF SlotInv, AccountsAreKept
<1>2. CodesCalm(challenge, challenge') /\ SessionsCalm(session, session')
  BY SameIsCalm
<1>3. CASE UNCHANGED <<user, access>>
  <2>1. UsersAreShaped'
    BY <1>1, <1>3 DEF UsersAreShaped, IsUser
  <2>2. QED
    BY <1>1, <1>2, <1>3, <2>1, CalmRows
<1>4. CASE ~UNCHANGED <<user, access>>
  <2>1. PICK row : /\ row = [user[u] EXCEPT !.verified = TRUE]
                   /\ u \in User => /\ IsUser(row) /\ row.active = user[u].active
                                    /\ row.deleted = user[u].deleted
                                    /\ row.address = user[u].address
    BY <1>1, VerifiedIsUser
  <2>2. user' = [user EXCEPT ![u] = row]
    BY <1>4, <2>1 DEF Accepted
  <2>3. PICK given : given[1] = u /\ access' = access \cup {given}
    BY <1>4 DEF Accepted
  <2>4. UsersAreShaped' /\ \A x \in User : user'[x] = IF x = u THEN row ELSE user[x]
    <3>1. user = [x \in User |-> user[x]]
      BY <1>1 DEF UsersAreShaped
    <3>2. \A x \in User : user'[x] = IF x = u THEN row ELSE user[x]
      BY <2>2, <3>1
    <3>3. user' = [x \in User |-> user'[x]]
      BY <2>2, <3>1
    <3>4. \A x \in User : IsUser(user'[x])
      BY <1>1, <2>1, <3>2 DEF UsersAreShaped
    <3>5. QED
      BY <3>2, <3>3, <3>4 DEF UsersAreShaped, IsUser
  <2>5. \A x \in User : /\ user'[x].active = user[x].active /\ user'[x].deleted = user[x].deleted
                        /\ user'[x].address = user[x].address
    BY <2>1, <2>4
  <2>6. ASSUME OneAtATime
        PROVE  RowsAreKept'
    <3>1. access \subseteq access' /\ \A x \in access' \ access : x[1] = u
      BY <2>3
    <3>2. QED
      BY <1>1, <1>2, <2>5, <2>6, <3>1, StandingKeeps
  <2>7. QED
    BY <2>4, <2>5, <2>6
<1>5. QED
  BY <1>3, <1>4

LEMMA ApplyPendingSlot ==
  ASSUME SlotInv, LoginInv', NEW r \in Req, ApplyPending(r)
  PROVE  SlotInv'
<1>1. At(r, "invites") /\ LoginInv
  BY DEF ApplyPending, SlotInv
<1>2. IsJob(job[r]) /\ job[r].todo \in OpenSteps
  BY <1>1, PlanOfStep DEF Opening
<1>3. UNCHANGED <<challenge, session, scenario>>
  BY DEF ApplyPending, Proceed, Set, rows
<1>4. UNCHANGED <<user, access>> \/ \E i : job[r].of \in Present /\ Accepted(job[r].of, i)
  BY DEF ApplyPending, rows
<1>5. /\ UsersAreShaped' /\ (OneAtATime => RowsAreKept')
      /\ \A x \in User : user'[x].active = user[x].active
  <2>1. CASE UNCHANGED <<user, access>>
    <3>1. UsersAreShaped'
      BY <2>1 DEF SlotInv, UsersAreShaped, IsUser
    <3>2. OneAtATime => RowsAreKept'
      BY <1>1, <1>3, <2>1, CalmRows, SameIsCalm DEF SlotInv, AccountsAreKept
    <3>3. QED
      BY <2>1, <3>1, <3>2
  <2>2. ASSUME NEW i, job[r].of \in Present, Accepted(job[r].of, i)
        PROVE  /\ UsersAreShaped' /\ (OneAtATime => RowsAreKept')
               /\ \A x \in User : user'[x].active = user[x].active
    <3>1. PICK u : u = job[r].of
      OBVIOUS
    <3>2. ~user[u].deleted /\ Accepted(u, i)
      BY <2>2, <3>1 DEF Present
    <3>3. QED
      BY <1>3, <3>2, AcceptedStands
  <2>3. QED
    BY <1>4, <2>1, <2>2
<1>6. PICK j : /\ j.todo \in OpenSteps /\ j.of = job[r].of /\ job' = [job EXCEPT ![r] = j]
  <2>1. CASE Proceed(r)
    <3>1. PICK j : j = Rest(job[r])
      OBVIOUS
    <3>2. j.todo \in OpenSteps /\ j.of = job[r].of
      BY <1>1, <3>1, RestOfOpening
    <3>3. QED
      BY <2>1, <3>1, <3>2 DEF Proceed, Set
  <2>2. ASSUME NEW i, Set(r, [job[r] EXCEPT !.seen = job[r].seen \ {i}])
        PROVE  \E j : j.todo \in OpenSteps /\ j.of = job[r].of /\ job' = [job EXCEPT ![r] = j]
    <3>1. PICK j : j = [job[r] EXCEPT !.seen = job[r].seen \ {i}]
      OBVIOUS
    <3>2. j.todo \in OpenSteps /\ j.of = job[r].of
      BY <1>2, <3>1 DEF IsJob
    <3>3. QED
      BY <2>2, <3>1, <3>2 DEF Set
  <2>3. QED
    BY <2>1, <2>2 DEF ApplyPending
<1>7. QED
  BY <1>1, <1>3, <1>5, <1>6, OpeningSlot

LEMMA LoginNextSlot ==
  ASSUME SlotInv, LoginInv', LoginNext
  PROVE  SlotInv'
<1> LoginInv
  BY DEF SlotInv
<1>1. ASSUME NEW r \in Req, NEW u \in User, NEW a \in Address, BeginRegister(r, u, a)
      PROVE  SlotInv'
  BY <1>1, RegisterFits, BeginFits
<1>2. ASSUME NEW r \in Req, NEW u \in User, NEW here \in BOOLEAN, BeginLogin(r, u, here)
      PROVE  SlotInv'
  BY <1>2, LoginFits, BeginFits
<1>3. ASSUME NEW r \in Req, NEW c \in Challenge, BeginResend(r, c)
      PROVE  SlotInv'
  BY <1>3, ResendFits, BeginFits
<1>4. ASSUME NEW r \in Req, NEW c \in Challenge, NEW right \in BOOLEAN, NEW u \in User,
             BeginVerify(r, c, right, u)
      PROVE  SlotInv'
  BY <1>4, VerifyFits, BeginFits
<1>5. ASSUME NEW r \in Req,
             \/ BeginAddAccount(r) \/ BeginSignOut(r) \/ BeginLogoutAll(r)
             \/ \E u \in User : BeginSwitch(r, u) \/ BeginRemoveAccount(r, u)
             \/ \E chosen \in SUBSET Session : BeginEndOwn(r, chosen)
      PROVE  SlotInv'
  BY <1>5, BrowserFits, BeginFits
<1>6. ASSUME NEW r \in Req,
             \/ Register(r) \/ Supersede(r) \/ CreateChallenge(r) \/ Resend(r) \/ Miss(r) \/ Lock(r)
             \/ Consume(r) \/ VerifyAddress(r) \/ SupersedeOthers(r) \/ CreateSession(r)
      PROVE  SlotInv'
  BY <1>6, RegisterSlot, SupersedeSlot, CreateChallengeSlot, CodeStepsSlot, ConsumeSlot,
     LoginRowsSlot, CreateSessionSlot
<1>7. ASSUME NEW r \in Req,
             \/ Attach(r) \/ AttachFails(r) \/ KeepCurrent(r) \/ SetIntent(r) \/ Switch(r) \/ Forget(r)
             \/ SignOffStored(r) \/ Repoint(r) \/ DropEmpty(r) \/ DropBox(r) \/ DropCookie(r)
             \/ SignOffAll(r) \/ EndOwn(r)
      PROVE  SlotInv'
  BY <1>7, BrowserSlot
<1>8. ASSUME NEW c \in Challenge, ChallengeExpires(c)
      PROVE  SlotInv'
  BY <1>8, ChallengeExpiresSlot
<1>9. QED
  BY <1>1, <1>2, <1>3, <1>4, <1>5, <1>6, <1>7, <1>8 DEF LoginNext

-----------------------------------------------------------------------------
(* One request at a time: the steps of AccountMembers.                     *)

LEMMA InviteStepsSlot ==
  ASSUME SlotInv, LoginInv', NEW r \in Req, CreateInvite(r) \/ Accept(r)
  PROVE  SlotInv'
<1>1. PICK step \in {"invite", "accept"} : At(r, step) /\ LoginInv /\ Proceed(r)
  BY DEF CreateInvite, Accept, SlotInv
<1>2. /\ r \in scenario.slots /\ job[r].todo \in {<<"invite">>, <<"accept">>}
      /\ step = "accept" => job[r].todo = <<"accept">>
      /\ OneAtATime => Grounded(job[r], user, access)
  BY <1>1, StepIsGrounded, PlanOfStep DEF Inviting, Accepting
<1>3. /\ scenario' = scenario /\ job' = [job EXCEPT ![r] = Idle]
      /\ UNCHANGED <<challenge, session>>
  BY <1>1, <1>2 DEF Proceed, Set, Rest, CreateInvite, Accept
<1>4. CASE CreateInvite(r)
  <2>1. Finish(r) /\ UNCHANGED <<user, access>>
    BY <1>3, <1>4 DEF CreateInvite, Finish, Set
  <2>2. QED
    BY <1>2, <1>3, <2>1, SameIsCalm, FinishCalm
<1>5. CASE Accept(r)
  <2>1. PICK u, i : u = job[r].of /\ i = job[r].on
    OBVIOUS
  <2>2. Accepted(u, i) /\ At(r, "accept")
    BY <1>5, <2>1 DEF Accept
  <2>3. ASSUME OneAtATime
        PROVE  ~user[u].deleted
    <3>1. job[r].todo = <<"accept">>
      BY <2>2, PlanOfStep, <1>1 DEF Accepting
    <3>2. QED
      BY <1>2, <2>1, <2>3, <3>1 DEF Grounded
  <2>4. UsersAreShaped' /\ (OneAtATime => RowsAreKept')
    BY <1>3, <2>2, <2>3, AcceptedStands
  <2>5. QED
    BY <1>2, <1>3, <2>4, IdleIsGrounded, SlotStep
<1>6. QED
  BY <1>4, <1>5

\* Invitations that are sent again or revoked, sessions that are revoked.
LEMMA CalmStepsSlot ==
  ASSUME SlotInv, LoginInv', NEW r \in Req, Rotate(r) \/ RevokeInvite(r) \/ RevokeSessions(r)
  PROVE  SlotInv'
<1>1. PICK step \in {"rotate", "revoke", "revoke sessions"} : At(r, step) /\ Proceed(r)
  BY DEF Rotate, RevokeInvite, RevokeSessions
<1>2. UNCHANGED <<user, access, challenge>> /\ session \in Sessions
  BY DEF Rotate, RevokeInvite, RevokeSessions, SlotInv, LoginInv, RowsAreTyped
<1>3. session' = session \/ \E chosen : session' = Revoked(chosen)
  BY DEF Rotate, RevokeInvite, RevokeSessions, RevokeAllSessionsForUser
<1>4. CodesCalm(challenge, challenge') /\ SessionsCalm(session, session')
  BY <1>2, <1>3, SameIsCalm, RevokedIsCalm
<1>5. step \in CalmStep \ {"consume"}
  BY DEF CalmStep
<1>6. QED
  BY <1>1, <1>2, <1>4, <1>5, ProceedCalm

LEMMA InviteEventsSlot ==
  ASSUME SlotInv, LoginInv', NEW i \in Invite, InviteCools(i) \/ InviteExpires(i)
  PROVE  SlotInv'
<1>1. scenario' = scenario /\ UNCHANGED <<user, access, job, challenge, session>>
  BY DEF InviteCools, InviteExpires, Event
<1>2. CodesCalm(challenge, challenge') /\ SessionsCalm(session, session')
  BY <1>1, SameIsCalm
<1>3. QED
  BY <1>1, <1>2, EventIsCalm

\* What a step that manages accounts has seen of them.
LEMMA GuardOfStep ==
  ASSUME SlotInv, NEW r \in Req, NEW step \in OtherStep \ {"consume"}, At(r, step)
  PROVE  /\ r \in scenario.slots /\ LoginInv /\ UsersAreShaped
         /\ IsJob(job[r]) /\ job[r].todo \in Seq(OtherStep) /\ job[r].todo # <<>>
         /\ Head(job[r].todo) = step
         /\ OneAtATime => RowsAreKept /\ Grounded(job[r], user, access)
BY StepIsGrounded, PlanOfStep DEF SlotInv

\* The one step of a short plan is done, when requests do not overlap.
LEMMA ShortPlanEnds ==
  ASSUME NEW r \in Req, Proceed(r),
         job[r].todo \in {<<"grant">>, <<"activate">>, <<"deactivate">>, <<"remove access">>, <<"convert">>}
  PROVE  Rest(job[r]) = Idle
BY DEF Rest

\* One that changes accounts is done.
LEMMA ShortStep ==
  ASSUME SlotInv, LoginInv', UsersAreShaped', NEW r \in Req,
         NEW step \in {"grant", "activate", "deactivate", "remove access", "convert"}, At(r, step), Proceed(r),
         OneAtATime => RowsAreKept'
  PROVE  SlotInv'
<1>1. step \in OtherStep \ {"consume"}
  BY DEF OtherStep
<1>2. PICK j : j = Rest(job[r])
  OBVIOUS
<1>3. scenario' = scenario /\ job' = [job EXCEPT ![r] = j] /\ r \in scenario.slots
  BY <1>1, <1>2, GuardOfStep DEF Proceed, Set
<1>4. ASSUME OneAtATime
      PROVE  Grounded(j, user', access')
  <2>1. /\ Grounded(job[r], user, access) /\ job[r].todo \in Seq(OtherStep) /\ job[r].todo # <<>>
        /\ Head(job[r].todo) = step
    BY <1>1, <1>4, GuardOfStep
  <2>2. job[r].todo \in {<<"grant">>, <<"activate">>, <<"deactivate">>, <<"remove access">>, <<"convert">>}
    BY <2>1, GroundOfStep
  <2>3. QED
    BY <1>2, <2>2, ShortPlanEnds, IdleIsGrounded
<1>5. QED
  BY <1>3, <1>4, SlotStep

\* One user's account is made active or not.
LEMMA ActiveIsUser ==
  ASSUME UsersAreShaped, NEW u, NEW b,
         user' = [user EXCEPT ![u].active = b]
  PROVE  /\ UsersAreShaped'
         /\ \A x \in User \ {u} : user'[x] = user[x]
         /\ u \in User => /\ user'[u].active = b /\ user'[u].deleted = user[u].deleted
                          /\ user'[u].address = user[u].address
<1>1. PICK old, row : old = user[u] /\ row = [old EXCEPT !.active = b]
  OBVIOUS
<1>2. u \in User => /\ IsUser(row) /\ row.active = b /\ row.deleted = old.deleted
                    /\ row.address = old.address
  BY <1>1 DEF UsersAreShaped, IsUser
<1>3. user' = [user EXCEPT ![u] = row] /\ user = [x \in User |-> user[x]]
  BY <1>1 DEF UsersAreShaped
<1>4. \A x \in User : user'[x] = IF x = u THEN row ELSE user[x]
  BY <1>3
<1>5. user' = [x \in User |-> user'[x]]
  BY <1>3
<1>6. \A x \in User : IsUser(user'[x])
  BY <1>2, <1>4 DEF UsersAreShaped
<1>7. UsersAreShaped'
  BY <1>5, <1>6 DEF UsersAreShaped, IsUser
<1>8. QED
  BY <1>1, <1>2, <1>4, <1>7

LEMMA GrantSlot ==
  ASSUME SlotInv, LoginInv', NEW r \in Req, Grant(r)
  PROVE  SlotInv'
<1>1. At(r, "grant") /\ Proceed(r) /\ "grant" \in OtherStep \ {"consume"}
  BY DEF Grant, OtherStep
<1>2. PICK given : given[1] = job[r].of /\ access' = access \cup {given}
  BY DEF Grant
<1>3. UNCHANGED <<user, challenge, session>>
  BY DEF Grant
<1>4. UsersAreShaped'
  BY <1>3 DEF SlotInv, UsersAreShaped, IsUser
<1>5. ASSUME OneAtATime
      PROVE  RowsAreKept'
  <2>1. LoginInv /\ RowsAreKept /\ ~user[job[r].of].deleted
    BY <1>1, <1>5, GuardOfStep, GroundOfStep
  <2>2. \A u \in User : user[u].deleted => \A row \in access' \ access : row[1] # u
    BY <1>2, <2>1
  <2>3. access \subseteq access'
    BY <1>2
  <2>4. QED
    BY <1>3, <2>1, <2>2, <2>3, SameIsCalm, StandingKeeps
<1>6. QED
  BY <1>1, <1>4, <1>5, ShortStep

LEMMA ActivateSlot ==
  ASSUME SlotInv, LoginInv', NEW r \in Req, Activate(r)
  PROVE  SlotInv'
<1>1. At(r, "activate") /\ Proceed(r) /\ "activate" \in OtherStep \ {"consume"}
  BY DEF Activate, OtherStep
<1>2. PICK u : u = job[r].of
  OBVIOUS
<1>3. /\ user' = [user EXCEPT ![u].active = TRUE]
      /\ UNCHANGED <<access, challenge, session>>
  BY <1>2 DEF Activate
<1>4. /\ UsersAreShaped'
      /\ \A x \in User \ {u} : user'[x] = user[x]
      /\ u \in User => user'[u].active /\ user'[u].deleted = user[u].deleted
  BY <1>3, ActiveIsUser DEF SlotInv
<1>5. ASSUME OneAtATime
      PROVE  RowsAreKept'
  <2>1. LoginInv /\ RowsAreKept /\ ~user[u].deleted
    BY <1>1, <1>2, <1>5, GuardOfStep, GroundOfStep
  <2>2. u \in User => user'[u].active /\ ~user'[u].deleted
    BY <1>4, <2>1
  <2>3. QED
    BY <1>3, <1>4, <2>1, <2>2, SameIsCalm, ActiveKeeps
<1>6. QED
  BY <1>1, <1>4, <1>5, ShortStep

\* An account leaves, with its sessions, and another owner stays.
LEMMA LeavingKeeps ==
  ASSUME LoginInv, RowsAreKept, NEW u, \A x \in User \ {u} : user'[x] = user[x],
         access' \subseteq access, CodesCalm(challenge, challenge'), SessionsCalm(session, session'),
         u \in User => /\ ~user'[u].active
                       /\ user'[u].deleted => /\ RolesIn(access', u) = {} /\ user'[u].address = None
                                              /\ \A c \in Challenge :
                                                   LiveIn(challenge', c) /\ challenge'[c].user = u =>
                                                     challenge'[c].purpose = "account_restore",
         \A s \in Session : session'[s] # NoSession /\ ~session'[s].revoked => session[s].user # u,
         NEW o \in User \ {u}, user[o].active, ~user[o].deleted, <<o, "owner", "company">> \in access'
  PROVE  RowsAreKept'
<1>1. InactiveAreSignedOff'
  BY DEF RowsAreKept, InactiveAreSignedOff, SessionsCalm, LoginInv, RowsAreTyped, Sessions, SessionRow
<1>2. DeletedAreBare'
  BY DEF RowsAreKept, DeletedAreBare, RolesIn
<1>3. DeletedHaveNoCode'
  BY DEF RowsAreKept, DeletedHaveNoCode, CodesCalm, LiveIn, Live
<1>4. (Owners(access, Present) # {})'
  BY DEF Owners, Present, Active
<1>5. QED
  BY <1>1, <1>2, <1>3, <1>4 DEF RowsAreKept

LEMMA DeactivateSlot ==
  ASSUME SlotInv, LoginInv', NEW r \in Req, Deactivate(r)
  PROVE  SlotInv'
<1>1. At(r, "deactivate") /\ Proceed(r) /\ "deactivate" \in OtherStep \ {"consume"}
  BY DEF Deactivate, OtherStep
<1>2. PICK u : u = job[r].of
  OBVIOUS
<1>3. /\ user' = [user EXCEPT ![u].active = FALSE] /\ session' = Revoked(SessionsOf(u))
      /\ UNCHANGED <<access, challenge>>
  BY <1>2 DEF Deactivate, SessionsLeft, RevokeAllSessionsForUser
<1>4. /\ UsersAreShaped'
      /\ \A x \in User \ {u} : user'[x] = user[x]
      /\ u \in User => /\ ~user'[u].active /\ user'[u].deleted = user[u].deleted
                       /\ user'[u].address = user[u].address
  BY <1>3, ActiveIsUser DEF SlotInv
<1>5. ASSUME OneAtATime
      PROVE  RowsAreKept'
  <2>1. LoginInv /\ RowsAreKept /\ Owners(access, PresentIn(user)) # {u}
    BY <1>1, <1>2, <1>5, GuardOfStep, GroundOfStep
  <2>2. PICK o \in User \ {u} : user[o].active /\ ~user[o].deleted /\ <<o, "owner", "company">> \in access
    BY <2>1 DEF RowsAreKept, Owners, PresentIn, Present, Active
  <2>3. session \in Sessions
    BY <2>1 DEF LoginInv, RowsAreTyped
  <2>4. /\ SessionsCalm(session, session') /\ CodesCalm(challenge, challenge')
        /\ \A s \in Session : session'[s] # NoSession /\ ~session'[s].revoked => session[s].user # u
    BY <1>3, <2>3, RevokedIsCalm, SameIsCalm DEF SessionsOf
  <2>5. \A c \in Challenge : u \in User /\ user[u].deleted /\ LiveIn(challenge', c) /\ challenge'[c].user = u =>
                               challenge'[c].purpose = "account_restore"
    BY <1>3, <2>1 DEF RowsAreKept, DeletedHaveNoCode, LiveIn, Live
  <2>6. u \in User => /\ ~user'[u].active
                      /\ user'[u].deleted => /\ RolesIn(access', u) = {} /\ user'[u].address = None
                                             /\ \A c \in Challenge :
                                                  LiveIn(challenge', c) /\ challenge'[c].user = u =>
                                                    challenge'[c].purpose = "account_restore"
    BY <1>3, <1>4, <2>1, <2>5 DEF RowsAreKept, DeletedAreBare
  <2>7. access' \subseteq access /\ <<o, "owner", "company">> \in access'
    BY <1>3, <2>2
  <2>8. QED
    BY <1>4, <2>1, <2>2, <2>4, <2>6, <2>7, LeavingKeeps
<1>6. QED
  BY <1>1, <1>4, <1>5, ShortStep

LEMMA RemoveAccessSlot ==
  ASSUME SlotInv, LoginInv', NEW r \in Req, RemoveAccess(r)
  PROVE  SlotInv'
<1>1. At(r, "remove access") /\ Proceed(r) /\ "remove access" \in OtherStep \ {"consume"}
  BY DEF RemoveAccess, OtherStep
<1>2. /\ UNCHANGED <<user, challenge>>
      /\ session' = session \/ \E chosen : session' = Revoked(chosen)
      /\ access' = access \/ access' = access \ {job[r].on}
  BY DEF RemoveAccess, RevokeAllSessionsForUser
<1>3. UsersAreShaped'
  BY <1>2 DEF SlotInv, UsersAreShaped, IsUser
<1>4. ASSUME OneAtATime
      PROVE  RowsAreKept'
  <2>1. /\ LoginInv /\ RowsAreKept
        /\ \A u \in User : job[r].on = <<u, "owner", "company">> => Owners(access, PresentIn(user)) # {u}
    <3>1. /\ LoginInv /\ RowsAreKept /\ Grounded(job[r], user, access)
          /\ job[r].todo \in Seq(OtherStep) /\ job[r].todo # <<>> /\ Head(job[r].todo) = "remove access"
      BY <1>1, <1>4, GuardOfStep
    <3>2. PICK j : j = job[r]
      OBVIOUS
    <3>3. \A u \in User : j.on = <<u, "owner", "company">> => Owners(access, PresentIn(user)) # {u}
      <4>1. Grounded(j, user, access) /\ j.todo \in Seq(OtherStep) /\ j.todo # <<>>
        BY <3>1, <3>2
      <4>2. Head(j.todo) = "remove access"
        BY <3>1, <3>2
      <4>3. QED
        BY <4>1, <4>2, GroundOfStep, Zenon
    <3>4. QED
      BY <3>1, <3>2, <3>3
  <2>2. session \in Sessions
    BY <2>1 DEF LoginInv, RowsAreTyped
  <2>3. CodesCalm(challenge, challenge') /\ SessionsCalm(session, session')
    BY <1>2, <2>2, RevokedIsCalm, SameIsCalm
  <2>4. PICK o \in User : user[o].active /\ ~user[o].deleted /\ <<o, "owner", "company">> \in access
    BY <2>1 DEF RowsAreKept, Owners, Present, Active
  <2>5. PICK q \in User : user[q].active /\ ~user[q].deleted /\ <<q, "owner", "company">> \in access'
    <3>1. CASE job[r].on # <<o, "owner", "company">>
      BY <1>2, <2>4, <3>1
    <3>2. CASE job[r].on = <<o, "owner", "company">>
      <4>1. PICK p \in User \ {o} : user[p].active /\ ~user[p].deleted /\ <<p, "owner", "company">> \in access
        BY <2>1, <2>4, <3>2 DEF Owners, PresentIn
      <4>2. <<p, "owner", "company">> # job[r].on
        BY <3>2
      <4>3. QED
        BY <1>2, <4>1, <4>2
    <3>3. QED
      BY <3>1, <3>2
  <2>6. access' \subseteq access
    BY <1>2
  <2>7. (Owners(access, Present) # {})'
    BY <1>2, <2>5 DEF Owners, Present, Active
  <2>8. InactiveAreSignedOff'
    BY <1>2, <2>1, <2>3 DEF RowsAreKept, InactiveAreSignedOff, SessionsCalm
  <2>9. DeletedAreBare' /\ DeletedHaveNoCode'
    BY <1>2, <2>1, <2>6 DEF RowsAreKept, DeletedAreBare, DeletedHaveNoCode, RolesIn, Live
  <2>10. QED
    BY <2>7, <2>8, <2>9 DEF RowsAreKept
<1>5. QED
  BY <1>1, <1>3, <1>4, ShortStep

\* An owner stays an owner when another account is converted.
LEMMA ConvertSlot ==
  ASSUME SlotInv, LoginInv', NEW r \in Req, Convert(r)
  PROVE  SlotInv'
<1>1. At(r, "convert") /\ Proceed(r) /\ "convert" \in OtherStep \ {"consume"}
  BY DEF Convert, OtherStep
<1>2. PICK u, shape : u = job[r].of /\ shape = job[r].on
  OBVIOUS
<1>3. /\ UNCHANGED <<user, challenge, session>>
      /\ access' = access \/ access' = Converted(u, shape)
  BY <1>2 DEF Convert
<1>4. UsersAreShaped'
  BY <1>3 DEF SlotInv, UsersAreShaped, IsUser
<1>5. ASSUME OneAtATime
      PROVE  RowsAreKept'
  <2>1. LoginInv /\ RowsAreKept /\ ~user[u].deleted /\ shape \in DOMAIN Counterpart
    BY <1>1, <1>2, <1>5, GuardOfStep, GroundOfStep
  <2>2. HeldAs[shape] # "owner"
    BY <2>1 DEF Counterpart, HeldAs
  <2>3. PICK o \in User : user[o].active /\ ~user[o].deleted /\ <<o, "owner", "company">> \in access
    BY <2>1 DEF RowsAreKept, Owners, Present, Active
  <2>4. <<o, "owner", "company">> \in access'
    <3>1. CASE access' = access
      BY <2>3, <3>1
    <3>2. CASE access' = Converted(u, shape)
      <4>1. \A s \in Scope : <<o, "owner", "company">> # <<u, HeldAs[shape], s>>
        BY <2>2
      <4>2. QED
        BY <2>3, <3>2, <4>1 DEF Converted
    <3>3. QED
      BY <1>3, <3>1, <3>2
  <2>5. (Owners(access, Present) # {})'
    BY <1>3, <2>3, <2>4 DEF Owners, Present, Active
  <2>6. \A row \in access' : row \in access \/ row[1] = u
    BY <1>3 DEF Converted
  <2>7. DeletedAreBare'
    BY <1>3, <2>1, <2>6 DEF RowsAreKept, DeletedAreBare, RolesIn
  <2>8. InactiveAreSignedOff' /\ DeletedHaveNoCode'
    BY <1>3, <2>1 DEF RowsAreKept, InactiveAreSignedOff, DeletedHaveNoCode, Live
  <2>9. QED
    BY <2>5, <2>7, <2>8 DEF RowsAreKept
<1>6. QED
  BY <1>1, <1>4, <1>5, ShortStep

\* One step of two or more is done that leaves the accounts as they are: what
\* remains may count on what that step has seen.
LEMMA RecheckSlot ==
  ASSUME SlotInv, LoginInv', NEW r \in Req, Recheck(r)
  PROVE  SlotInv'
<1>1. At(r, "recheck") /\ "recheck" \in OtherStep \ {"consume"}
  BY DEF Recheck, OtherStep
<1>2. UNCHANGED <<user, access, challenge, session>> /\ r \in scenario.slots
  BY <1>1, GuardOfStep DEF Recheck, rows
<1>3. CodesCalm(challenge, challenge') /\ SessionsCalm(session, session')
  BY <1>2, SameIsCalm
<1>4. CASE Finish(r)
  BY <1>2, <1>3, <1>4, FinishCalm
<1>5. CASE Proceed(r)
  <2>1. PICK j : j = Rest(job[r])
    OBVIOUS
  <2>2. scenario' = scenario /\ job' = [job EXCEPT ![r] = j]
    BY <1>5, <2>1 DEF Proceed, Set
  <2>3. ASSUME OneAtATime
        PROVE  Grounded(j, user, access)
    <3>1. /\ IsJob(job[r]) /\ job[r].todo = <<"recheck", "convert">>
          /\ ~user[job[r].of].deleted /\ job[r].on \in DOMAIN Counterpart
      BY <1>1, <2>3, GuardOfStep, GroundOfStep
    <3>2. PICK k : k = [job[r] EXCEPT !.todo = <<"convert">>]
      OBVIOUS
    <3>3. j = k
      BY <2>1, <3>1, <3>2 DEF Rest
    <3>4. j.todo = <<"convert">> /\ j.of = job[r].of /\ j.on = job[r].on
      BY <3>1, <3>2, <3>3 DEF IsJob
    <3>5. Guarded(j, user, access)
      BY <3>1, <3>4 DEF Guarded
    <3>6. j.todo \in Seq(OtherStep)
      BY <3>4, ShortPlans, Zenon
    <3>7. j.todo # <<>> /\ Head(j.todo) # "consume"
      BY <3>4
    <3>8. QED
      BY <3>5, <3>6, <3>7, GuardedGround
  <2>4. QED
    BY <1>2, <1>3, <2>2, <2>3, CalmKeeps
<1>6. QED
  BY <1>4, <1>5 DEF Recheck

LEMMA MayDeleteSlot ==
  ASSUME SlotInv, LoginInv', NEW r \in Req, MayDelete(r)
  PROVE  SlotInv'
<1>1. At(r, "may delete") /\ "may delete" \in OtherStep \ {"consume"}
  BY DEF MayDelete, OtherStep
<1>2. UNCHANGED <<user, access, challenge, session>> /\ r \in scenario.slots
  BY <1>1, GuardOfStep DEF MayDelete, rows
<1>3. CodesCalm(challenge, challenge') /\ SessionsCalm(session, session')
  BY <1>2, SameIsCalm
<1>4. CASE Finish(r)
  BY <1>2, <1>3, <1>4, FinishCalm
<1>5. CASE Proceed(r)
  <2>1. PICK j : j = Rest(job[r])
    OBVIOUS
  <2>2. scenario' = scenario /\ job' = [job EXCEPT ![r] = j]
    BY <1>5, <2>1 DEF Proceed, Set
  <2>3. ASSUME OneAtATime
        PROVE  Grounded(j, user, access)
    <3>1. IsJob(job[r]) /\ job[r].todo = <<"may delete", "check", "tombstone">>
      BY <1>1, <2>3, GuardOfStep, GroundOfStep
    <3>2. PICK k : k = [job[r] EXCEPT !.todo = Tail(job[r].todo)]
      OBVIOUS
    <3>3. Len(job[r].todo) # 1 /\ Tail(job[r].todo) = <<"check", "tombstone">>
      BY <3>1, RestOfCheck, Zenon
    <3>4. j = k
      BY <2>1, <3>2, <3>3 DEF Rest
    <3>5. j.todo = <<"check", "tombstone">>
      BY <3>1, <3>2, <3>3, <3>4 DEF IsJob
    <3>6. Checking(<<"check", "tombstone">>)
      <4>1. <<>> \in Seq(CalmStep)
        OBVIOUS
      <4>2. QED
        BY <4>1, RestOfCheck, RestOfErasing, Zenon DEF Checking
    <3>7. j.todo \in Seq(OtherStep)
      BY <3>5, DeletionSteps, Zenon
    <3>8. Guarded(j, user, access)
      BY <3>5, <3>6 DEF Guarded
    <3>9. j.todo # <<>> /\ Head(j.todo) # "consume"
      BY <3>5, <3>6 DEF Checking
    <3>10. QED
      BY <3>7, <3>8, <3>9, GuardedGround
  <2>4. QED
    BY <1>2, <1>3, <2>2, <2>3, CalmKeeps
<1>6. QED
  BY <1>4, <1>5 DEF MayDelete

LEMMA CheckDeletionSlot ==
  ASSUME SlotInv, LoginInv', NEW r \in Req, CheckDeletion(r)
  PROVE  SlotInv'
<1>1. At(r, "check") /\ "check" \in OtherStep \ {"consume"}
  BY DEF CheckDeletion, OtherStep
<1>2. UNCHANGED <<user, access, challenge, session>> /\ r \in scenario.slots
  BY <1>1, GuardOfStep DEF CheckDeletion, rows
<1>3. CodesCalm(challenge, challenge') /\ SessionsCalm(session, session')
  BY <1>2, SameIsCalm
<1>4. CASE Finish(r)
  BY <1>2, <1>3, <1>4, FinishCalm
<1>5. CASE ~Finish(r)
  <2>1. PICK k, x : k = Rest(job[r]) /\ x = user[job[r].of].address
    OBVIOUS
  <2>2. PICK j : j = [k EXCEPT !.on = x]
    OBVIOUS
  <2>3. /\ scenario' = scenario /\ job' = [job EXCEPT ![r] = j]
        /\ ~SoleOwnerBlocks(access, Present, job[r].of)
    BY <1>5, <2>1, <2>2 DEF CheckDeletion, Set
  <2>4. ASSUME OneAtATime
        PROVE  Grounded(j, user, access)
    <3>1. IsJob(job[r]) /\ Checking(job[r].todo) /\ job[r].todo \in Seq(OtherStep)
      BY <1>1, <2>4, GuardOfStep, GroundOfStep
    <3>2. PICK todo : todo = Tail(job[r].todo)
      OBVIOUS
    <3>3. Len(job[r].todo) # 1 /\ Erasing(todo) /\ todo \in Seq(OtherStep)
      BY <3>1, <3>2 DEF Checking, Erasing
    <3>4. PICK m : m = [job[r] EXCEPT !.todo = todo]
      OBVIOUS
    <3>5. k = m
      BY <2>1, <3>2, <3>3, <3>4 DEF Rest
    <3>6. j.todo = todo /\ j.of = job[r].of
      BY <2>2, <3>1, <3>4, <3>5 DEF IsJob
    <3>7. Present = PresentIn(user)
      BY <2>4, DeletedHaveLeft DEF SlotInv
    <3>8. Guarded(j, user, access)
      BY <2>3, <3>3, <3>6, <3>7 DEF Guarded
    <3>9. j.todo # <<>> /\ Head(j.todo) # "consume"
      BY <3>3, <3>6 DEF Erasing
    <3>10. QED
      BY <3>3, <3>6, <3>8, <3>9, GuardedGround
  <2>5. QED
    BY <1>2, <1>3, <2>3, <2>4, CalmKeeps
<1>6. QED
  BY <1>4, <1>5

\* A write that follows the check leaves another owner.
LEMMA OwnerStays ==
  ASSUME RowsAreKept, NEW u, ~SoleOwnerBlocks(access, Present, u)
  PROVE  \E o \in User \ {u} : user[o].active /\ ~user[o].deleted /\ <<o, "owner", "company">> \in access
<1>1. PICK o \in User : user[o].active /\ ~user[o].deleted /\ <<o, "owner", "company">> \in access
  BY DEF RowsAreKept, Owners, Present, Active
<1>2. CASE o # u
  BY <1>1, <1>2
<1>3. CASE o = u
  <2>1. Owners(access, Present \ {u}) # {}
    BY <1>1, <1>3 DEF SoleOwnerBlocks
  <2>2. QED
    BY <2>1 DEF Owners, Present, Active
<1>4. QED
  BY <1>2, <1>3

\* The plan of a deletion that was checked, once the account is written.
LEMMA RestOfErasure ==
  ASSUME NEW j, IsJob(j), Erasing(j.todo), NEW x
  PROVE  Rest([j EXCEPT !.on = x]).todo \in Seq(CalmStep)
<1>1. PICK k : k = [j EXCEPT !.on = x]
  OBVIOUS
<1>2. IsJob(k) /\ k.todo = j.todo
  BY <1>1 DEF IsJob
<1>3. Tail(k.todo) \in Seq(CalmStep)
  BY <1>2 DEF Erasing
<1>4. Rest(k).todo \in Seq(CalmStep)
  <2>1. CASE Len(k.todo) = 1
    <3>1. Rest(k) = Idle
      BY <2>1 DEF Rest
    <3>2. <<>> \in Seq(CalmStep)
      OBVIOUS
    <3>3. QED
      BY <3>1, <3>2 DEF Idle
  <2>2. CASE Len(k.todo) # 1
    <3>1. PICK todo : todo = Tail(k.todo)
      OBVIOUS
    <3>2. PICK m : m = [k EXCEPT !.todo = todo]
      OBVIOUS
    <3>3. Rest(k) = m
      BY <2>2, <3>1, <3>2 DEF Rest
    <3>4. m.todo = todo
      BY <1>2, <3>2 DEF IsJob
    <3>5. QED
      BY <1>3, <3>1, <3>3, <3>4
  <2>3. QED
    BY <2>1, <2>2
<1>5. QED
  BY <1>1, <1>4

LEMMA TombstoneSlot ==
  ASSUME SlotInv, LoginInv', NEW r \in Req, Tombstone(r)
  PROVE  SlotInv'
<1>1. At(r, "tombstone") /\ "tombstone" \in OtherStep \ {"consume"}
  BY DEF Tombstone, OtherStep
<1>2. /\ r \in scenario.slots /\ IsJob(job[r]) /\ LoginInv /\ UsersAreShaped
      /\ session \in Sessions /\ challenge \in Challenges
  BY <1>1, GuardOfStep DEF LoginInv, RowsAreTyped
<1>3. PICK u, a, x : u = job[r].of /\ a = job[r].on /\ x = device.stored[u]
  OBVIOUS
<1>4. CASE user[u].deleted
  <2>1. Finish(r) /\ UNCHANGED <<user, access, challenge, session>>
    BY <1>3, <1>4 DEF Tombstone, rows
  <2>2. QED
    BY <1>2, <2>1, SameIsCalm, FinishCalm
<1>5. CASE ~user[u].deleted
  <2>1. PICK row : row = [NoUser EXCEPT !.deleted = TRUE]
    OBVIOUS
  <2>2. ~row.active /\ row.deleted /\ row.address = None /\ IsUser(row)
    BY <2>1 DEF NoUser, IsUser
  <2>3. /\ user' = [user EXCEPT ![u] = row] /\ access' = access \ AccessOf(u)
        /\ session' = Revoked(SessionsOf(u)) /\ challenge' = Superseded(CodesOf(u))
        /\ scenario' = scenario
    BY <1>3, <1>5, <2>1 DEF Tombstone, Set, RevokeAllSessionsForUser
  <2>4. PICK j : j = Rest([job[r] EXCEPT !.on = x])
    OBVIOUS
  <2>5. job' = [job EXCEPT ![r] = j]
    BY <1>3, <1>5, <2>4 DEF Tombstone, Set
  <2>6. \A y \in User : user'[y] = IF y = u THEN row ELSE user[y]
    BY <1>2, <2>3 DEF UsersAreShaped
  <2>7. UsersAreShaped'
    <3>1. user' = [y \in User |-> user'[y]]
      BY <1>2, <2>3 DEF UsersAreShaped
    <3>2. \A y \in User : IsUser(user'[y])
      BY <1>2, <2>2, <2>6 DEF UsersAreShaped
    <3>3. QED
      BY <3>1, <3>2 DEF UsersAreShaped, IsUser
  <2>8. ASSUME OneAtATime
        PROVE  RowsAreKept' /\ Grounded(j, user', access')
    <3>1. /\ RowsAreKept /\ Grounded(job[r], user, access)
          /\ job[r].todo \in Seq(OtherStep) /\ job[r].todo # <<>> /\ Head(job[r].todo) = "tombstone"
      BY <1>1, <2>8, GuardOfStep
    <3>2. Erasing(job[r].todo) /\ ~SoleOwnerBlocks(access, PresentIn(user), u)
      BY <1>3, <3>1, GroundOfStep
    <3>3. Present = PresentIn(user)
      BY <2>8, DeletedHaveLeft DEF SlotInv
    <3>4. PICK o \in User \ {u} : user[o].active /\ ~user[o].deleted /\ <<o, "owner", "company">> \in access
      BY <3>1, <3>2, <3>3, OwnerStays
    <3>5. access' \subseteq access /\ <<o, "owner", "company">> \in access'
      BY <2>3, <3>4 DEF AccessOf
    <3>6. /\ CodesCalm(challenge, challenge') /\ SessionsCalm(session, session')
          /\ \A s \in Session : session'[s] # NoSession /\ ~session'[s].revoked => session[s].user # u
      BY <1>2, <2>3, RevokedIsCalm, SupersededIsCalm DEF SessionsOf
    <3>7. \A c \in Challenge : LiveIn(challenge', c) => challenge'[c].user # u
      BY <1>2, <2>3, SupersededIsCalm DEF CodesOf, CodesCalm
    <3>8. RolesIn(access', u) = {}
      BY <2>3 DEF RolesIn, AccessOf
    <3>9. u \in User => /\ ~user'[u].active
                        /\ user'[u].deleted => /\ RolesIn(access', u) = {} /\ user'[u].address = None
                                               /\ \A c \in Challenge :
                                                    LiveIn(challenge', c) /\ challenge'[c].user = u =>
                                                      challenge'[c].purpose = "account_restore"
      BY <2>2, <2>6, <3>7, <3>8
    <3>10. \A y \in User \ {u} : user'[y] = user[y]
      BY <2>6
    <3>11. RowsAreKept'
      BY <1>2, <3>1, <3>4, <3>5, <3>6, <3>9, <3>10, LeavingKeeps
    <3>12. j.todo \in Seq(CalmStep)
      BY <1>2, <2>4, <3>2, RestOfErasure
    <3>13. QED
      BY <3>11, <3>12, CalmPlan
  <2>9. QED
    BY <1>2, <2>3, <2>5, <2>7, <2>8, SlotStep
<1>6. QED
  BY <1>4, <1>5

LEMMA RestoreStepsSlot ==
  ASSUME SlotInv, LoginInv', NEW r \in Req, Lookup(r) \/ Restore(r)
  PROVE  SlotInv'
<1>1. PICK step \in {"lookup", "restore"} : At(r, step)
  BY DEF Lookup, Restore
<1>2. step \in CalmStep \ {"consume"} /\ step \in OtherStep \ {"consume"}
  BY DEF CalmStep, OtherStep
<1>3. /\ r \in scenario.slots /\ IsJob(job[r]) /\ LoginInv /\ UsersAreShaped /\ challenge \in Challenges
      /\ OneAtATime => RowsAreKept
  BY <1>1, <1>2, GuardOfStep DEF LoginInv, RowsAreTyped
<1>4. PICK k : k = Rest(job[r])
  OBVIOUS
<1>5. IsJob(k) /\ (OneAtATime => k.todo \in Seq(CalmStep))
  <2>1. IsJob(job[r]) /\ job[r].todo \in Seq(OtherStep) /\ job[r].todo # <<>> /\ Head(job[r].todo) = step
    BY <1>1, <1>2, GuardOfStep
  <2>2. IsJob(k)
    BY <1>4, <2>1, RestOfOther
  <2>3. ASSUME OneAtATime
        PROVE  k.todo \in Seq(CalmStep)
    <3>1. Grounded(job[r], user, access)
      BY <1>1, <1>2, <2>3, GuardOfStep
    <3>2. job[r].todo \in Seq(CalmStep)
      BY <1>2, <2>1, <3>1, GroundOfStep
    <3>3. QED
      BY <1>4, <2>1, <3>2, RestOfCalm
  <2>4. QED
    BY <2>2, <2>3
<1>6. CASE UNCHANGED rows
  <2>1. UNCHANGED <<user, access, challenge, session>>
    BY <1>6 DEF rows
  <2>2. CodesCalm(challenge, challenge') /\ SessionsCalm(session, session')
    BY <2>1, SameIsCalm
  <2>3. CASE Finish(r)
    BY <1>3, <2>1, <2>2, <2>3, FinishCalm
  <2>4. CASE Proceed(r)
    BY <1>1, <1>2, <2>1, <2>2, <2>4, ProceedCalm
  <2>5. ASSUME NEW x, Set(r, [Rest(job[r]) EXCEPT !.on = x])
        PROVE  SlotInv'
    <3>1. PICK j : j = [k EXCEPT !.on = x]
      OBVIOUS
    <3>2. scenario' = scenario /\ job' = [job EXCEPT ![r] = j]
      BY <1>4, <2>5, <3>1 DEF Set
    <3>3. j.todo = k.todo
      BY <1>5, <3>1 DEF IsJob
    <3>4. OneAtATime => Grounded(j, user, access)
      BY <1>5, <3>3, CalmPlan
    <3>5. QED
      BY <1>3, <2>1, <2>2, <3>2, <3>4, CalmKeeps
  <2>6. QED
    BY <2>3, <2>4, <2>5 DEF Lookup, Restore
<1>7. CASE ~UNCHANGED rows
  <2>1. PICK u, a : u = job[r].of /\ a = job[r].on
    OBVIOUS
  <2>2. PICK row : row = [active |-> TRUE, deleted |-> FALSE, verified |-> TRUE, address |-> a]
    OBVIOUS
  <2>3. /\ user' = [user EXCEPT ![u] = row] /\ challenge' = Superseded(CodesOf(u))
        /\ UNCHANGED <<access, session>> /\ scenario' = scenario /\ job' = [job EXCEPT ![r] = k]
    BY <1>4, <1>7, <2>1, <2>2 DEF Lookup, Restore, Proceed, Set
  <2>4. row.active /\ ~row.deleted /\ IsUser(row)
    BY <2>2 DEF IsUser
  <2>5. \A y \in User : user'[y] = IF y = u THEN row ELSE user[y]
    BY <1>3, <2>3 DEF UsersAreShaped
  <2>6. UsersAreShaped'
    <3>1. user' = [y \in User |-> user'[y]]
      BY <1>3, <2>3 DEF UsersAreShaped
    <3>2. \A y \in User : IsUser(user'[y])
      BY <1>3, <2>4, <2>5 DEF UsersAreShaped
    <3>3. QED
      BY <3>1, <3>2 DEF UsersAreShaped, IsUser
  <2>7. CodesCalm(challenge, challenge') /\ SessionsCalm(session, session')
    BY <1>3, <2>3, SupersededIsCalm, SameIsCalm
  <2>8. /\ \A y \in User \ {u} : user'[y] = user[y]
        /\ u \in User => user'[u].active /\ ~user'[u].deleted
    BY <2>4, <2>5
  <2>9. OneAtATime => RowsAreKept'
    BY <1>3, <2>3, <2>7, <2>8, ActiveKeeps
  <2>10. OneAtATime => Grounded(k, user', access')
    BY <1>5, CalmPlan
  <2>11. QED
    BY <1>3, <2>3, <2>6, <2>9, <2>10, SlotStep
<1>8. QED
  BY <1>6, <1>7

LEMMA MembersNextSlot ==
  ASSUME SlotInv, LoginInv', MembersNext
  PROVE  SlotInv'
<1> LoginInv
  BY DEF SlotInv
<1>1. ASSUME NEW r \in Req, NEW u \in User, NEW a \in Address, NEW role \in InviteRoles,
             BeginInvite(r, u, a, role)
      PROVE  SlotInv'
  BY <1>1, InviteFits, BeginFits
<1>2. ASSUME NEW r \in Req, NEW u \in User, NEW i \in Invite, BeginAccept(r, u, i)
      PROVE  SlotInv'
  BY <1>2, AcceptFits, BeginFits
<1>3. ASSUME NEW r \in Req,
             \/ \E u \in User, i \in Invite : BeginRotate(r, u, i) \/ BeginRevokeInvite(r, u, i)
             \/ \E u \in User, row \in access : BeginRemoveAccess(r, u, row)
             \/ \E actor, u \in User :
                  \/ \E active \in BOOLEAN : BeginSetActive(r, actor, u, active)
                  \/ BeginRevokeSessions(r, actor, u) \/ BeginConvert(r, actor, u)
      PROVE  SlotInv'
  BY <1>3, AccessFits, BeginFits
<1>4. ASSUME NEW r \in Req,
             \/ \E u \in User, here \in BOOLEAN : BeginDeleteSelf(r, u, here)
             \/ \E actor, u \in User : BeginOwnerDeletion(r, actor, u)
             \/ \E u \in User : BeginRestore(r, u)
             \/ \E u \in User, a \in Address : BeginAlternateRestore(r, u, a)
      PROVE  SlotInv'
  BY <1>4, DeletionFits, BeginFits
<1>5. ASSUME NEW r \in Req,
             \/ Grant(r) \/ RemoveAccess(r) \/ Activate(r) \/ Deactivate(r) \/ RevokeSessions(r)
             \/ Convert(r) \/ Recheck(r)
      PROVE  SlotInv'
  BY <1>5, GrantSlot, RemoveAccessSlot, ActivateSlot, DeactivateSlot, CalmStepsSlot, ConvertSlot,
     RecheckSlot
<1>6. ASSUME NEW r \in Req,
             \/ CreateInvite(r) \/ Accept(r) \/ Rotate(r) \/ RevokeInvite(r)
             \/ FindPending(r) \/ ApplyPending(r)
             \/ MayDelete(r) \/ CheckDeletion(r) \/ Tombstone(r) \/ Lookup(r) \/ Restore(r)
      PROVE  SlotInv'
  BY <1>6, InviteStepsSlot, CalmStepsSlot, FindPendingSlot, ApplyPendingSlot,
     MayDeleteSlot, CheckDeletionSlot, TombstoneSlot, RestoreStepsSlot
<1>7. ASSUME NEW i \in Invite, InviteCools(i) \/ InviteExpires(i)
      PROVE  SlotInv'
  BY <1>7, InviteEventsSlot
<1>8. QED
  BY <1>1, <1>2, <1>3, <1>4, <1>5, <1>6, <1>7 DEF MembersNext

LEMMA CrashSlot ==
  ASSUME SlotInv, LoginInv', NEW r \in Req, Crash(r)
  PROVE  SlotInv'
<1>1. r \in scenario.slots
  BY DEF Crash, SlotInv
<1>2. Finish(r) /\ UNCHANGED <<user, access, challenge, session>>
  BY DEF Crash, rows
<1>3. CodesCalm(challenge, challenge') /\ SessionsCalm(session, session')
  BY <1>2, SameIsCalm
<1>4. QED
  BY <1>1, <1>2, <1>3, FinishCalm

LEMMA InitSlot ==
  ASSUME Init
  PROVE  SlotInv
<1>1. UsersAreShaped
  <2>1. IsUser(NoUser)
    BY DEF IsUser, NoUser
  <2>2. \A u \in User : IsUser([active |-> TRUE, deleted |-> FALSE,
                               verified |-> u \notin scenario.fresh, address |-> AddressOf[u]])
    BY DEF IsUser
  <2>3. \A u \in User : IsUser(user[u])
    BY <2>1, <2>2 DEF Init
  <2>4. QED
    BY <2>3 DEF Init, UsersAreShaped
<1>2. \A u \in User : /\ ~user[u].deleted
                      /\ Registered(u) => user[u].active
  BY DEF Init, NoUser
<1>3. InactiveAreSignedOff
  <2>1. ASSUME NEW s \in Session, session[s] # NoSession
        PROVE  user[session[s].user].active
    <3>1. s \in scenario.signed /\ session[s] = [NoSession EXCEPT !.user = s]
      BY <2>1 DEF Init
    <3>2. s \in User /\ session[s].user = s
      BY <3>1, ScenarioAssumption DEF Init, NoSession
    <3>3. QED
      BY <1>2, <3>1, <3>2 DEF Registered
  <2>2. QED
    BY <2>1 DEF InactiveAreSignedOff
<1>4. DeletedAreBare /\ DeletedHaveNoCode
  BY <1>2 DEF DeletedAreBare, DeletedHaveNoCode
<1>5. Owners(access, Present) # {}
  <2>1. PICK o \in User : <<o, "owner", "company">> \in scenario.access
    BY ScenarioAssumption DEF Init
  <2>2. RolesIn(scenario.access, o) # {}
    BY <2>1 DEF RolesIn
  <2>3. user[o].active /\ ~user[o].deleted
    BY <1>2, <2>2 DEF Registered
  <2>4. QED
    BY <2>1, <2>3 DEF Init, Owners, Present, Active
<1>6. AccountsAreKept
  BY <1>3, <1>4, <1>5, IdleIsGrounded DEF AccountsAreKept, RowsAreKept, Init
<1>7. LoginInv
  BY InitLogins
<1>8. QED
  BY <1>1, <1>6, <1>7 DEF SlotInv, Init

LEMMA NextKeepsSlot ==
  ASSUME SlotInv, [Next]_vars
  PROVE  SlotInv'
<1>1. LoginInv'
  BY NextKeepsLogins DEF SlotInv
<1>2. CASE UNCHANGED vars
  <2>1. scenario' = scenario /\ UNCHANGED <<user, access, job, challenge, session>>
    BY <1>2 DEF vars, rows
  <2>2. CodesCalm(challenge, challenge') /\ SessionsCalm(session, session')
    BY <2>1, SameIsCalm
  <2>3. QED
    BY <1>1, <2>1, <2>2, EventIsCalm
<1>3. ASSUME NEW r \in Req, Crash(r)
      PROVE  SlotInv'
  BY <1>1, <1>3, CrashSlot
<1>4. QED
  BY <1>1, <1>2, <1>3, LoginNextSlot, MembersNextSlot DEF Next

\* When requests do not overlap, an account that is not active has no session
\* that stands, and one that is deleted holds nothing but the way back: at
\* every step of every handler, and wherever one crashes.
THEOREM LeaversHoldNothing == Spec => []LeftAccountsHoldNothing
<1>1. Init => SlotInv
  BY InitSlot
<1>2. SlotInv /\ [Next]_vars => SlotInv'
  BY NextKeepsSlot
<1>3. SlotInv => LeftAccountsHoldNothing
  BY DEF SlotInv, AccountsAreKept, RowsAreKept, InactiveAreSignedOff, DeletedAreBare,
         DeletedHaveNoCode, LeftAccountsHoldNothing
<1>4. QED
  BY <1>1, <1>2, <1>3, PTL DEF Spec

\* When requests do not overlap, whoever removes, deactivates, deletes or
\* converts whom, an owner who is active remains.
THEOREM OwnerRemains == Spec => []CompanyKeepsAnOwner
<1>1. Init => SlotInv
  BY InitSlot
<1>2. SlotInv /\ [Next]_vars => SlotInv'
  BY NextKeepsSlot
<1>3. SlotInv => CompanyKeepsAnOwner
  BY DEF SlotInv, AccountsAreKept, RowsAreKept, CompanyKeepsAnOwner
<1>4. QED
  BY <1>1, <1>2, <1>3, PTL DEF Spec

-----------------------------------------------------------------------------
(* The browser, while one request at a time goes through to its end.       *)

\* What the browser holds are sessions that were opened, each with its account.
BoxHolds(d, ss) ==
  /\ d = [cookie |-> d.cookie, box |-> d.box, stored |-> d.stored, active |-> d.active,
          intent |-> d.intent]
  /\ d.stored = [u \in User |-> d.stored[u]]
  /\ d.box \in BOOLEAN /\ d.active \in User \cup {None}
  /\ d.cookie # None => d.cookie \in NewSession /\ ss[d.cookie] # NoSession
  /\ \A u \in User : d.stored[u] # None =>
       d.stored[u] \in NewSession /\ ss[d.stored[u]] # NoSession /\ ss[d.stored[u]].user = u

\* The other cookie names a session that stands and that no account holds.
Adrift(d, ss) ==
  /\ d.box /\ d.cookie # None /\ ~ss[d.cookie].revoked
  /\ \A u \in User : d.stored[u] # d.cookie

\* The steps that neither hold nor let go of the session of an account.
StillStep == OtherStep \ {"attach", "keep", "switch", "forget", "sign off"}

LoginPlans == AskSteps \cup CodeSteps \cup EnterSteps \cup OpenSteps \cup {<<"invite">>, <<"accept">>}

Plain(todo) == todo \in LoginPlans \/ todo \in Seq(StillStep)

SigningOff == <<"sign off", "repoint", "empty">>

\* What a handler carries to the browser is still what the browser holds.
Carries(j, d, ss) ==
  \/ Plain(j.todo)
  \/ /\ j.todo = <<"attach">> /\ j.of \in User /\ j.on = d.cookie
     /\ j.on # None => ss[j.on].user = j.of
  \/ /\ j.todo = <<"keep", "intent">>
     /\ j.of \in User /\ j.on \in NewSession /\ ss[j.on] # NoSession /\ ss[j.on].user = j.of
     /\ j.on = IF d.box THEN d.stored[j.of] ELSE d.cookie
  \/ j.todo = <<"switch">> /\ j.of \in User
  \/ j.todo \in {Removing, <<"end">> \o Removing} /\ j.on = d.stored[j.of]
  \/ j.todo = SigningOff
  \/ j.todo \in {<<"check", "tombstone">> \o Removing, <<"tombstone">> \o Removing}

\* It is about to be held, or to be revoked.
Excuses(j, d) == j.todo = <<"attach">> \/ (j.todo = SigningOff /\ j.on = d.cookie)

BrowserIsKept ==
  /\ BoxHolds(device, session)
  /\ \A r \in Req : Carries(job[r], device, session)
  /\ Adrift(device, session) => \E r \in Req : Excuses(job[r], device)

\* When the property speaks of the browser.
Watched == Serial /\ "attach failure" \notin scenario.calls

CookieInv == SlotInv /\ (Watched => BrowserIsKept)
-----------------------------------------------------------------------------
(* Plans that neither hold nor let go.                                     *)

LEMMA LoginPlanRest ==
  /\ \A todo \in LoginPlans : todo # <<>>
  /\ \A todo \in LoginPlans : Head(todo) # "session" => Len(todo) = 1 \/ Tail(todo) \in LoginPlans
  /\ \A todo \in LoginPlans : Head(todo) \notin {"attach", "keep", "switch", "forget", "sign off",
                                                "end", "check", "tombstone"}
<1>1. ASSUME NEW todo \in AskSteps
      PROVE  /\ todo # <<>> /\ Head(todo) \in {"register", "supersede", "challenge"}
             /\ Len(todo) = 1 \/ Tail(todo) \in AskSteps
  <2>1. CASE todo = <<"register", "supersede", "challenge">>
    <3>1. Tail(todo) = <<"supersede", "challenge">>
      BY <2>1
    <3>2. QED
      BY <2>1, <3>1 DEF AskSteps
  <2>2. CASE todo = <<"supersede", "challenge">>
    <3>1. Tail(todo) = <<"challenge">>
      BY <2>2
    <3>2. QED
      BY <2>2, <3>1 DEF AskSteps
  <2>3. CASE todo = <<"challenge">>
    BY <2>3
  <2>4. QED
    BY <2>1, <2>2, <2>3 DEF AskSteps
<1>2. ASSUME NEW todo \in CodeSteps \cup {<<"invite">>, <<"accept">>}
      PROVE  /\ todo # <<>> /\ Len(todo) = 1
             /\ Head(todo) \in {"resend", "miss", "lock", "invite", "accept"}
  BY DEF CodeSteps
<1>3. ASSUME NEW todo \in EnterSteps
      PROVE  todo # <<>> /\ Head(todo) = "consume" /\ Tail(todo) \in OpenSteps
  <2>1. FirstLogin # <<>> /\ NextLogin # <<>>
    BY DEF FirstLogin, NextLogin
  <2>2. QED
    BY <2>1, LoginHeads, LoginTails DEF EnterSteps, OpenSteps
<1>4. ASSUME NEW todo \in OpenSteps
      PROVE  /\ todo # <<>> /\ Head(todo) \in {"verified", "pending", "invites", "others", "session"}
             /\ Head(todo) # "session" => Tail(todo) \in OpenSteps
  BY LoginHeads, LoginTails DEF OpenSteps
<1>5. QED
  BY <1>1, <1>2, <1>3, <1>4 DEF LoginPlans

LEMMA PlainRest ==
  ASSUME NEW j, IsJob(j), Plain(j.todo), j.todo # <<>>, Head(j.todo) # "session"
  PROVE  Plain(Rest(j).todo)
<1>1. CASE Len(j.todo) = 1
  BY <1>1 DEF Rest, Idle, Plain
<1>2. CASE Len(j.todo) # 1
  <2>1. PICK k : k = [j EXCEPT !.todo = Tail(j.todo)]
    OBVIOUS
  <2>2. Rest(j) = k
    BY <1>2, <2>1 DEF Rest
  <2>3. k.todo = Tail(j.todo)
    BY <2>1 DEF IsJob
  <2>4. j.todo \in LoginPlans => Tail(j.todo) \in LoginPlans
    BY <1>2, LoginPlanRest
  <2>5. j.todo \in Seq(StillStep) => Tail(j.todo) \in Seq(StillStep)
    OBVIOUS
  <2>6. QED
    BY <2>2, <2>3, <2>4, <2>5 DEF Plain
<1>3. QED
  BY <1>1, <1>2

LEMMA IdleIsPlain == Plain(Idle.todo)
<1>1. Idle.todo = <<>> /\ <<>> \in Seq(StillStep)
  BY DEF Idle
<1>2. QED
  BY <1>1 DEF Plain

LEMMA IdleIsCarried ==
  ASSUME NEW d, NEW ss
  PROVE  Carries(Idle, d, ss) /\ ~Excuses(Idle, d)
<1>1. Idle.todo = <<>> /\ <<>> \in Seq(StillStep)
  BY DEF Idle
<1>2. <<>> # <<"attach">> /\ <<>> # SigningOff
  BY DEF SigningOff
<1>3. QED
  BY <1>1, <1>2 DEF Carries, Plain, Excuses

LEMMA PlanShapes ==
  /\ Head(<<"attach">>) = "attach" /\ Head(<<"keep", "intent">>) = "keep"
  /\ Head(<<"switch">>) = "switch" /\ Head(Removing) = "forget" /\ Head(SigningOff) = "sign off"
  /\ Head(<<"end">> \o Removing) = "end"
  /\ Head(<<"check", "tombstone">> \o Removing) = "check"
  /\ Head(<<"tombstone">> \o Removing) = "tombstone"
  /\ Tail(<<"keep", "intent">>) = <<"intent">> /\ Len(<<"keep", "intent">>) # 1
  /\ Tail(Removing) = SigningOff /\ Len(Removing) # 1
  /\ Tail(SigningOff) = <<"repoint", "empty">> /\ Len(SigningOff) # 1
  /\ Tail(<<"end">> \o Removing) = Removing /\ Len(<<"end">> \o Removing) # 1
  /\ Tail(<<"check", "tombstone">> \o Removing) = <<"tombstone">> \o Removing
  /\ Len(<<"check", "tombstone">> \o Removing) # 1
  /\ Tail(<<"tombstone">> \o Removing) = Removing /\ Len(<<"tombstone">> \o Removing) # 1
<1>1. /\ Head(<<"attach">>) = "attach" /\ Head(<<"keep", "intent">>) = "keep"
      /\ Head(<<"switch">>) = "switch"
      /\ Tail(<<"keep", "intent">>) = <<"intent">> /\ Len(<<"keep", "intent">>) # 1
  OBVIOUS
<1>2. /\ Head(Removing) = "forget" /\ Head(SigningOff) = "sign off"
      /\ Len(Removing) # 1 /\ Len(SigningOff) # 1
  BY DEF Removing, SigningOff
<1>3. Tail(SigningOff) = <<"repoint", "empty">>
  BY DEF SigningOff
<1>4. Tail(Removing) = SigningOff
  BY TailOfFour, Zenon DEF Removing, SigningOff
<1>5. /\ Removing \in Seq(OtherStep) /\ <<"end">> \in Seq(OtherStep)
      /\ <<"tombstone">> \in Seq(OtherStep) /\ <<"check">> \in Seq(OtherStep)
      /\ Len(Removing) > 0
  <2>1. Removing \in Seq(OtherStep)
    BY RemovingIsCalm, CalmIsOther
  <2>2. Len(Removing) > 0
    BY DEF Removing
  <2>3. {"end", "tombstone", "check"} \subseteq OtherStep
    BY DEF OtherStep
  <2>4. QED
    BY <2>1, <2>2, <2>3
<1>6. ASSUME NEW a \in OtherStep, NEW s \in Seq(OtherStep), Len(s) > 0
      PROVE  Head(<<a>> \o s) = a /\ Tail(<<a>> \o s) = s /\ Len(<<a>> \o s) # 1
  BY <1>6
<1>7. <<"check", "tombstone">> = <<"check">> \o <<"tombstone">>
  OBVIOUS
<1>8. PICK s : s = Removing
  OBVIOUS
<1>9. <<"check", "tombstone">> \o s = <<"check">> \o (<<"tombstone">> \o s)
  BY <1>5, <1>7, <1>8
<1>10. PICK t : t = <<"tombstone">> \o s
  OBVIOUS
<1>11. t \in Seq(OtherStep) /\ Len(t) > 0
  BY <1>5, <1>8, <1>10
<1>12. /\ Head(<<"end">> \o s) = "end" /\ Tail(<<"end">> \o s) = s /\ Len(<<"end">> \o s) # 1
       /\ Head(t) = "tombstone" /\ Tail(t) = s /\ Len(t) # 1
  BY <1>5, <1>6, <1>8, <1>10
<1>13. /\ Head(<<"check">> \o t) = "check" /\ Tail(<<"check">> \o t) = t
       /\ Len(<<"check">> \o t) # 1
  BY <1>6, <1>11
<1>14. /\ Head(<<"end">> \o Removing) = "end" /\ Tail(<<"end">> \o Removing) = Removing
       /\ Len(<<"end">> \o Removing) # 1
       /\ Head(<<"tombstone">> \o Removing) = "tombstone" /\ Len(<<"tombstone">> \o Removing) # 1
       /\ Tail(<<"tombstone">> \o Removing) = Removing
  BY <1>8, <1>10, <1>12, Zenon
<1>15. /\ Head(<<"check", "tombstone">> \o Removing) = "check"
       /\ Len(<<"check", "tombstone">> \o Removing) # 1
       /\ Tail(<<"check", "tombstone">> \o Removing) = <<"tombstone">> \o Removing
  BY <1>8, <1>9, <1>10, <1>13, Zenon
<1>16. QED
  BY <1>1, <1>2, <1>3, <1>4, <1>14, <1>15, Zenon
\* The next step tells what a handler carries.
LEMMA CarriedAt ==
  ASSUME NEW j, NEW d, NEW ss, Carries(j, d, ss), j.todo # <<>>, NEW step, Head(j.todo) = step
  PROVE  /\ step \notin {"attach", "keep", "switch", "forget", "sign off", "end", "check", "tombstone"} =>
              Plain(j.todo)
         /\ step = "attach" => /\ j.todo = <<"attach">> /\ j.of \in User /\ j.on = d.cookie
                               /\ j.on # None => ss[j.on].user = j.of
         /\ step = "keep" =>
              /\ j.todo = <<"keep", "intent">>
              /\ j.of \in User /\ j.on \in NewSession /\ ss[j.on] # NoSession /\ ss[j.on].user = j.of
              /\ j.on = IF d.box THEN d.stored[j.of] ELSE d.cookie
         /\ step = "switch" => j.todo = <<"switch">> /\ j.of \in User
         /\ step = "forget" => j.todo = Removing /\ j.on = d.stored[j.of]
         /\ step = "sign off" => j.todo = SigningOff
         /\ step = "end" => Plain(j.todo) \/ (j.todo = <<"end">> \o Removing /\ j.on = d.stored[j.of])
         /\ step = "check" => Plain(j.todo) \/ j.todo = <<"check", "tombstone">> \o Removing
         /\ step = "tombstone" => Plain(j.todo) \/ j.todo = <<"tombstone">> \o Removing
<1>1. Plain(j.todo) => step \notin {"attach", "keep", "switch", "forget", "sign off"}
  <2>1. j.todo \in Seq(StillStep) => step \in StillStep
    OBVIOUS
  <2>2. QED
    BY <2>1, LoginPlanRest DEF Plain, StillStep
<1>2. PICK removing, ending, checking, erasing :
        /\ removing = Removing /\ ending = <<"end">> \o Removing
        /\ checking = <<"check", "tombstone">> \o Removing /\ erasing = <<"tombstone">> \o Removing
  OBVIOUS
<1>3. /\ Head(removing) = "forget" /\ Head(ending) = "end" /\ Head(checking) = "check"
      /\ Head(erasing) = "tombstone" /\ Head(SigningOff) = "sign off"
      /\ Head(<<"attach">>) = "attach" /\ Head(<<"keep", "intent">>) = "keep"
      /\ Head(<<"switch">>) = "switch"
  BY <1>2, PlanShapes, Zenon
<1>4. PICK off, keep, attach, switch : /\ off = SigningOff /\ keep = <<"keep", "intent">>
                                       /\ attach = <<"attach">> /\ switch = <<"switch">>
  OBVIOUS
<1>5. /\ \/ Plain(j.todo)
         \/ /\ j.todo = attach /\ j.of \in User /\ j.on = d.cookie
            /\ j.on # None => ss[j.on].user = j.of
         \/ /\ j.todo = keep
            /\ j.of \in User /\ j.on \in NewSession /\ ss[j.on] # NoSession /\ ss[j.on].user = j.of
            /\ j.on = IF d.box THEN d.stored[j.of] ELSE d.cookie
         \/ j.todo = switch /\ j.of \in User
         \/ (j.todo = removing \/ j.todo = ending) /\ j.on = d.stored[j.of]
         \/ j.todo = off
         \/ j.todo = checking \/ j.todo = erasing
      /\ j.todo = removing => step = "forget"
      /\ j.todo = ending => step = "end"
      /\ j.todo = checking => step = "check"
      /\ j.todo = erasing => step = "tombstone"
      /\ j.todo = off => step = "sign off"
      /\ j.todo = attach => step = "attach"
      /\ j.todo = keep => step = "keep"
      /\ j.todo = switch => step = "switch"
  <2>1. /\ j.todo = removing => step = "forget"
        /\ j.todo = ending => step = "end"
        /\ j.todo = checking => step = "check"
        /\ j.todo = erasing => step = "tombstone"
        /\ j.todo = off => step = "sign off"
        /\ j.todo = attach => step = "attach"
        /\ j.todo = keep => step = "keep"
        /\ j.todo = switch => step = "switch"
    BY <1>3, <1>4, Zenon
  <2>2. \/ Plain(j.todo)
        \/ /\ j.todo = attach /\ j.of \in User /\ j.on = d.cookie
           /\ j.on # None => ss[j.on].user = j.of
        \/ /\ j.todo = keep
           /\ j.of \in User /\ j.on \in NewSession /\ ss[j.on] # NoSession /\ ss[j.on].user = j.of
           /\ j.on = IF d.box THEN d.stored[j.of] ELSE d.cookie
        \/ j.todo = switch /\ j.of \in User
        \/ (j.todo = removing \/ j.todo = ending) /\ j.on = d.stored[j.of]
        \/ j.todo = off
        \/ j.todo = checking \/ j.todo = erasing
    BY <1>2, <1>4 DEF Carries
  <2>3. QED
    BY <2>1, <2>2
<1>6. /\ step \notin {"attach", "keep", "switch", "forget", "sign off", "end", "check", "tombstone"} =>
           Plain(j.todo)
      /\ step = "attach" => /\ j.todo = attach /\ j.of \in User /\ j.on = d.cookie
                            /\ j.on # None => ss[j.on].user = j.of
      /\ step = "keep" =>
           /\ j.todo = keep
           /\ j.of \in User /\ j.on \in NewSession /\ ss[j.on] # NoSession /\ ss[j.on].user = j.of
           /\ j.on = IF d.box THEN d.stored[j.of] ELSE d.cookie
      /\ step = "switch" => j.todo = switch /\ j.of \in User
      /\ step = "forget" => j.todo = removing /\ j.on = d.stored[j.of]
      /\ step = "sign off" => j.todo = off
      /\ step = "end" => Plain(j.todo) \/ (j.todo = ending /\ j.on = d.stored[j.of])
      /\ step = "check" => Plain(j.todo) \/ j.todo = checking
      /\ step = "tombstone" => Plain(j.todo) \/ j.todo = erasing
  BY <1>1, <1>5
<1>7. step = "attach" => /\ j.todo = <<"attach">> /\ j.of \in User /\ j.on = d.cookie
                         /\ j.on # None => ss[j.on].user = j.of
  BY <1>4, <1>6, Zenon
<1>8. step = "keep" =>
        /\ j.todo = <<"keep", "intent">>
        /\ j.of \in User /\ j.on \in NewSession /\ ss[j.on] # NoSession /\ ss[j.on].user = j.of
        /\ j.on = IF d.box THEN d.stored[j.of] ELSE d.cookie
  BY <1>4, <1>6, Zenon
<1>9. /\ step = "switch" => j.todo = <<"switch">> /\ j.of \in User
      /\ step = "sign off" => j.todo = SigningOff
  BY <1>4, <1>6, Zenon
<1>10. step = "forget" => j.todo = Removing /\ j.on = d.stored[j.of]
  BY <1>2, <1>6, Zenon
<1>11. step = "end" => Plain(j.todo) \/ (j.todo = <<"end">> \o Removing /\ j.on = d.stored[j.of])
  <2>1. step = "end" => Plain(j.todo) \/ (j.todo = ending /\ j.on = d.stored[j.of])
    BY <1>6, Zenon
  <2>2. QED
    BY <1>2, <2>1, Zenon
<1>12. /\ step = "check" => Plain(j.todo) \/ j.todo = <<"check", "tombstone">> \o Removing
       /\ step = "tombstone" => Plain(j.todo) \/ j.todo = <<"tombstone">> \o Removing
  BY <1>2, <1>6, Zenon
<1>13. step \notin {"attach", "keep", "switch", "forget", "sign off", "end", "check", "tombstone"} =>
         Plain(j.todo)
  BY <1>6, Zenon
<1>14. QED
  BY <1>7, <1>8, <1>9, <1>10, <1>11, <1>12, <1>13, Zenon

-----------------------------------------------------------------------------
(* One request goes on, or begins.                                         *)

\* No session is lost or opened, and none is brought back.
LEMMA BoxStays ==
  ASSUME NEW d, NEW ss, NEW ts, BoxHolds(d, ss), SessionsKept(ss, ts), SessionsCalm(ss, ts)
  PROVE  BoxHolds(d, ts) /\ (Adrift(d, ts) => Adrift(d, ss))
<1>1. BoxHolds(d, ts)
  BY DEF BoxHolds, SessionsKept
<1>2. ASSUME Adrift(d, ts)
      PROVE  Adrift(d, ss)
  <2>1. PICK c : c = d.cookie
    OBVIOUS
  <2>2. c \in NewSession /\ ss[c] # NoSession /\ ts[c] # NoSession /\ ~ts[c].revoked
    BY <1>2, <2>1 DEF BoxHolds, Adrift, SessionsKept
  <2>3. c \in Session
    BY <2>2 DEF Session
  <2>4. ~ss[c].revoked
    BY <2>2, <2>3 DEF SessionsCalm
  <2>5. QED
    BY <1>2, <2>1, <2>4 DEF Adrift
<1>3. QED
  BY <1>1, <1>2

\* The sessions are as they were, or some of them are revoked.
OnlyRevoked == session' = session \/ \E chosen : session' = Revoked(chosen)

LEMMA OnlyRevokedKeeps ==
  ASSUME LoginInv, OnlyRevoked
  PROVE  SessionsKept(session, session') /\ SessionsCalm(session, session')
<1>1. session \in Sessions
  BY DEF LoginInv, RowsAreTyped
<1>2. QED
  BY <1>1, SessionsStay, RevokedKeeps, SameIsCalm, RevokedIsCalm DEF OnlyRevoked

\* The one request of which something is under way.
LEMMA OneSlot ==
  ASSUME SlotInv, OneAtATime, NEW r \in Req, r \in scenario.slots
  PROVE  \A q \in Req \ {r} : job[q] = Idle
<1>1. PICK x : scenario.slots = {x}
  <2>1. IsFiniteSet(scenario.slots)
    BY ScenarioAssumption DEF SlotInv
  <2>2. QED
    BY <2>1, FS_Singleton DEF OneAtATime
<1>2. QED
  BY <1>1 DEF SlotInv

LEMMA BrowserStep ==
  ASSUME SlotInv, OneAtATime, NEW r \in Req, r \in scenario.slots,
         NEW j, job' = [job EXCEPT ![r] = j],
         BoxHolds(device', session'), Carries(j, device', session'),
         Adrift(device', session') => Excuses(j, device')
  PROVE  BrowserIsKept'
<1>1. job'[r] = j /\ \A q \in Req \ {r} : job'[q] = Idle
  BY OneSlot DEF SlotInv, LoginInv, JobsArePlanned
<1>2. \A q \in Req : Carries(job'[q], device', session')
  BY <1>1, IdleIsCarried
<1>3. Adrift(device', session') => \E q \in Req : Excuses(job'[q], device')
  BY <1>1
<1>4. QED
  BY <1>2, <1>3 DEF BrowserIsKept

\* Nothing is adrift before a step that is not its excuse.
LEMMA NothingAdrift ==
  ASSUME SlotInv, OneAtATime, BrowserIsKept, NEW r \in Req, r \in scenario.slots,
         ~Excuses(job[r], device)
  PROVE  ~Adrift(device, session)
<1>1. \A q \in Req : ~Excuses(job[q], device)
  BY OneSlot, IdleIsCarried
<1>2. QED
  BY <1>1 DEF BrowserIsKept

LEMMA NotExcused ==
  ASSUME NEW r \in Req, NEW step, At(r, step), step \notin {"attach", "sign off"}, NEW d
  PROVE  ~Excuses(job[r], d)
BY PlanShapes DEF At, Excuses

\* The browser is left alone.
LEMMA StillStepKeeps ==
  ASSUME SlotInv, OneAtATime, BrowserIsKept, NEW r \in Req, r \in scenario.slots,
         ~Excuses(job[r], device),
         NEW j, job' = [job EXCEPT ![r] = j], device' = device, OnlyRevoked,
         Carries(j, device, session')
  PROVE  BrowserIsKept'
<1>1. SessionsKept(session, session') /\ SessionsCalm(session, session')
  BY OnlyRevokedKeeps DEF SlotInv
<1>2. BoxHolds(device, session') /\ (Adrift(device, session') => Adrift(device, session))
  BY <1>1, BoxStays DEF BrowserIsKept
<1>3. ~Adrift(device, session)
  BY NothingAdrift
<1>4. BoxHolds(device', session') /\ Carries(j, device', session') /\ ~Adrift(device', session')
  BY <1>2, <1>3
<1>5. QED
  BY <1>4, BrowserStep

\* Another row is written.
LEMMA EventLeavesBrowser ==
  ASSUME BrowserIsKept, UNCHANGED <<job, device, session>>
  PROVE  BrowserIsKept'
BY DEF BrowserIsKept

\* A handler begins.
LEMMA BrowserBegins ==
  ASSUME SlotInv, OneAtATime, BrowserIsKept, NEW r \in Req, NEW j, Begin(r, j),
         Carries(j, device, session)
  PROVE  BrowserIsKept'
<1>1. /\ job[r] = Idle /\ job' = [job EXCEPT ![r] = j] /\ r \in scenario.slots
      /\ device' = device /\ session' = session
  BY DEF Begin, rows
<1>2. ~Excuses(job[r], device)
  BY <1>1, IdleIsCarried
<1>3. OnlyRevoked
  BY <1>1 DEF OnlyRevoked
<1>4. Carries(j, device, session')
  BY <1>1
<1>5. QED
  BY <1>1, <1>2, <1>3, <1>4, StillStepKeeps

\* The next step of a plan that neither holds nor lets go.
LEMMA PlainStepKeeps ==
  ASSUME SlotInv, OneAtATime, BrowserIsKept, NEW r \in Req, NEW step, At(r, step),
         step \notin {"attach", "sign off"},
         NEW j, job' = [job EXCEPT ![r] = j], Plain(j.todo), device' = device, OnlyRevoked
  PROVE  BrowserIsKept'
<1>1. r \in scenario.slots /\ ~Excuses(job[r], device)
  BY StepHasSlot, NotExcused
<1>2. Carries(j, device, session')
  BY DEF Carries
<1>3. QED
  BY <1>1, <1>2, StillStepKeeps

PlainAt(r, step) == At(r, step) /\ step \notin {"attach", "keep", "switch", "forget", "sign off",
                                                "end", "check", "tombstone", "session"}

LEMMA PlainProceeds ==
  ASSUME SlotInv, OneAtATime, BrowserIsKept, NEW r \in Req, NEW step, PlainAt(r, step),
         device' = device, OnlyRevoked, Proceed(r)
  PROVE  BrowserIsKept'
<1>1. At(r, step) /\ job' = [job EXCEPT ![r] = Rest(job[r])]
  BY DEF PlainAt, Proceed, Set
<1>2. PICK j, k : j = job[r] /\ k = Rest(job[r])
  OBVIOUS
<1>3. IsJob(j) /\ j.todo # <<>> /\ Head(j.todo) = step /\ Carries(j, device, session)
  BY <1>1, <1>2, PlanOfStep DEF SlotInv, At, BrowserIsKept
<1>4. Plain(j.todo)
  BY <1>3, CarriedAt DEF PlainAt
<1>5. Plain(k.todo)
  BY <1>2, <1>3, <1>4, PlainRest DEF PlainAt
<1>6. QED
  BY <1>1, <1>2, <1>5, PlainStepKeeps DEF PlainAt

LEMMA PlainFinishes ==
  ASSUME SlotInv, OneAtATime, BrowserIsKept, NEW r \in Req, NEW step, At(r, step),
         step \notin {"attach", "sign off"},
         device' = device, OnlyRevoked, Finish(r)
  PROVE  BrowserIsKept'
<1>1. job' = [job EXCEPT ![r] = Idle]
  BY DEF Finish, Set
<1>2. Plain(Idle.todo)
  BY IdleIsPlain
<1>3. QED
  BY <1>1, <1>2, PlainStepKeeps

\* What remains of a job has the rest of its steps.
LEMMA RestIsJob ==
  ASSUME NEW j, IsJob(j)
  PROVE  IsJob(Rest(j)) /\ (Len(j.todo) # 1 => Rest(j).todo = Tail(j.todo))
<1>1. CASE Len(j.todo) = 1
  BY <1>1, IdleIsPlanned DEF Rest
<1>2. CASE Len(j.todo) # 1
  <2>1. PICK k : k = [j EXCEPT !.todo = Tail(j.todo)]
    OBVIOUS
  <2>2. Rest(j) = k /\ k.todo = Tail(j.todo) /\ IsJob(k)
    BY <1>2, <2>1 DEF Rest, IsJob
  <2>3. QED
    BY <2>2
<1>3. QED
  BY <1>1, <1>2

LEMMA PlainGoesOn ==
  ASSUME SlotInv, OneAtATime, BrowserIsKept, NEW r \in Req, NEW step, PlainAt(r, step),
         device' = device, OnlyRevoked,
         NEW j, job' = [job EXCEPT ![r] = j], j.todo = Rest(job[r]).todo \/ j.todo = job[r].todo
  PROVE  BrowserIsKept'
<1>1. At(r, step)
  BY DEF PlainAt
<1>2. PICK i, k : i = job[r] /\ k = Rest(job[r])
  OBVIOUS
<1>3. IsJob(i) /\ i.todo # <<>> /\ Head(i.todo) = step /\ Carries(i, device, session)
  BY <1>1, <1>2, PlanOfStep DEF SlotInv, At, BrowserIsKept
<1>4. Plain(i.todo)
  BY <1>3, CarriedAt DEF PlainAt
<1>5. Plain(k.todo)
  BY <1>2, <1>3, <1>4, PlainRest DEF PlainAt
<1>6. Plain(j.todo)
  BY <1>2, <1>4, <1>5
<1>7. QED
  BY <1>1, <1>6, PlainStepKeeps DEF PlainAt

-----------------------------------------------------------------------------
(* The steps that leave the browser alone.                                 *)

LEMMA LoginLeavesBrowser ==
  ASSUME SlotInv, OneAtATime, BrowserIsKept, NEW r \in Req,
         \/ Register(r) \/ Supersede(r) \/ CreateChallenge(r) \/ Resend(r) \/ Lock(r)
         \/ Consume(r) \/ VerifyAddress(r) \/ SupersedeOthers(r) \/ SignOffAll(r)
  PROVE  BrowserIsKept'
<1>1. device' = device /\ OnlyRevoked
  BY DEF Register, Supersede, CreateChallenge, Resend, Lock, Consume, VerifyAddress, SupersedeOthers,
         SignOffAll, rows, OnlyRevoked
<1>2. PICK step \in {"register", "supersede", "challenge", "resend", "lock", "consume", "verified",
                     "others", "sign off all"} :
        At(r, step) /\ (Proceed(r) \/ Finish(r))
  BY DEF Register, Supersede, CreateChallenge, Resend, Lock, Consume, VerifyAddress, SupersedeOthers,
         SignOffAll
<1>3. PlainAt(r, step)
  BY <1>2 DEF PlainAt
<1>4. QED
  BY <1>1, <1>2, <1>3, PlainProceeds, PlainFinishes

LEMMA MissLeavesBrowser ==
  ASSUME SlotInv, OneAtATime, BrowserIsKept, NEW r \in Req, Miss(r)
  PROVE  BrowserIsKept'
<1>1. At(r, "miss") /\ device' = device /\ OnlyRevoked
  BY DEF Miss, OnlyRevoked
<1>2. PICK j : j = IF challenge'[job[r].on].tries >= MaxAttempts
                   THEN [job[r] EXCEPT !.todo = <<"lock">>] ELSE Idle
  OBVIOUS
<1>3. job' = [job EXCEPT ![r] = j]
  BY <1>2 DEF Miss, Set
<1>4. IsJob(job[r])
  BY <1>1, PlanOfStep DEF SlotInv
<1>5. Plain(j.todo)
  <2>1. PICK k : k = [job[r] EXCEPT !.todo = <<"lock">>]
    OBVIOUS
  <2>2. k.todo = <<"lock">>
    BY <1>4, <2>1 DEF IsJob
  <2>3. j = k \/ j = Idle
    BY <1>2, <2>1
  <2>4. QED
    BY <2>2, <2>3, IdleIsPlain DEF Plain, LoginPlans, CodeSteps
<1>6. QED
  BY <1>1, <1>3, <1>5, PlainStepKeeps

LEMMA MembersLeaveBrowser ==
  ASSUME SlotInv, OneAtATime, BrowserIsKept, NEW r \in Req,
         \/ Grant(r) \/ CreateInvite(r) \/ Rotate(r) \/ RevokeInvite(r) \/ Accept(r)
         \/ RemoveAccess(r) \/ Activate(r) \/ Deactivate(r) \/ RevokeSessions(r) \/ Recheck(r)
         \/ Convert(r) \/ MayDelete(r) \/ Restore(r)
  PROVE  BrowserIsKept'
<1>1. device' = device
  BY DEF Grant, CreateInvite, Rotate, RevokeInvite, Accept, RemoveAccess, Activate, Deactivate,
         RevokeSessions, Recheck, Convert, MayDelete, Restore, rows
<1>2. OnlyRevoked
  BY DEF Grant, CreateInvite, Rotate, RevokeInvite, Accept, RemoveAccess, Activate, Deactivate,
         RevokeSessions, Recheck, Convert, MayDelete, Restore, rows, OnlyRevoked,
         RevokeAllSessionsForUser, SessionsLeft
<1>3. PICK step \in {"grant", "invite", "rotate", "revoke", "accept", "remove access", "activate",
                     "deactivate", "revoke sessions", "recheck", "convert", "may delete", "restore"} :
        At(r, step) /\ (Proceed(r) \/ Finish(r))
  BY DEF Grant, CreateInvite, Rotate, RevokeInvite, Accept, RemoveAccess, Activate, Deactivate,
         RevokeSessions, Recheck, Convert, MayDelete, Restore
<1>4. PlainAt(r, step)
  BY <1>3 DEF PlainAt
<1>5. QED
  BY <1>1, <1>2, <1>3, <1>4, PlainProceeds, PlainFinishes

LEMMA LookupsLeaveBrowser ==
  ASSUME SlotInv, OneAtATime, BrowserIsKept, NEW r \in Req,
         FindPending(r) \/ ApplyPending(r) \/ Lookup(r)
  PROVE  BrowserIsKept'
<1>1. device' = device /\ OnlyRevoked
  BY DEF FindPending, ApplyPending, Lookup, rows, OnlyRevoked
<1>2. PICK step \in {"pending", "invites", "lookup"} : At(r, step)
  BY DEF FindPending, ApplyPending, Lookup
<1>3. PlainAt(r, step)
  BY <1>2 DEF PlainAt
<1>4. IsJob(job[r]) /\ IsJob(Rest(job[r]))
  BY <1>2, PlanOfStep, RestIsJob DEF SlotInv
<1>5. \/ Proceed(r) \/ Finish(r)
      \/ \E x : Set(r, [Rest(job[r]) EXCEPT !.seen = x])
      \/ \E x : Set(r, [Rest(job[r]) EXCEPT !.on = x])
      \/ \E x : Set(r, [job[r] EXCEPT !.seen = x])
  BY DEF FindPending, ApplyPending, Lookup
<1>6. CASE Proceed(r) \/ Finish(r)
  BY <1>1, <1>2, <1>3, <1>6, PlainProceeds, PlainFinishes
<1>7. ASSUME NEW x, \/ Set(r, [Rest(job[r]) EXCEPT !.seen = x])
                    \/ Set(r, [Rest(job[r]) EXCEPT !.on = x])
                    \/ Set(r, [job[r] EXCEPT !.seen = x])
      PROVE  BrowserIsKept'
  <2>1. PICK k, l : k = Rest(job[r]) /\ l = job[r]
    OBVIOUS
  <2>2. PICK a, b, c : a = [k EXCEPT !.seen = x] /\ b = [k EXCEPT !.on = x] /\ c = [l EXCEPT !.seen = x]
    OBVIOUS
  <2>3. a.todo = k.todo /\ b.todo = k.todo /\ c.todo = l.todo
    BY <1>4, <2>1, <2>2 DEF IsJob
  <2>4. PICK j \in {a, b, c} : job' = [job EXCEPT ![r] = j]
    BY <1>7, <2>1, <2>2 DEF Set
  <2>5. j.todo = Rest(job[r]).todo \/ j.todo = job[r].todo
    BY <2>1, <2>3, <2>4
  <2>6. QED
    BY <1>1, <1>3, <2>4, <2>5, PlainGoesOn
<1>8. QED
  BY <1>5, <1>6, <1>7

-----------------------------------------------------------------------------
(* What the steps of the browser make of its box.                          *)

LEMMA BoxForgets ==
  ASSUME NEW d, NEW ss, BoxHolds(d, ss), NEW u, NEW e, e = [d EXCEPT !.stored[u] = None]
  PROVE  BoxHolds(e, ss) /\ (Adrift(e, ss) => Adrift(d, ss) \/ d.stored[u] = d.cookie)
<1>1. /\ e.cookie = d.cookie /\ e.box = d.box /\ e.active = d.active /\ e.intent = d.intent
      /\ e.stored = [d.stored EXCEPT ![u] = None]
      /\ e = [cookie |-> e.cookie, box |-> e.box, stored |-> e.stored, active |-> e.active,
              intent |-> e.intent]
  BY DEF BoxHolds
<1>2. /\ e.stored = [v \in User |-> e.stored[v]]
      /\ \A v \in User : e.stored[v] = IF v = u THEN None ELSE d.stored[v]
  BY <1>1 DEF BoxHolds
<1>3. BoxHolds(e, ss)
  BY <1>1, <1>2 DEF BoxHolds
<1>4. Adrift(e, ss) => Adrift(d, ss) \/ d.stored[u] = d.cookie
  BY <1>1, <1>2 DEF Adrift
<1>5. QED
  BY <1>3, <1>4

Taken(d, u, s) == [d EXCEPT !.box = TRUE, !.stored[u] = s, !.active = u]

LEMMA BoxTakes ==
  ASSUME NEW d, NEW ss, BoxHolds(d, ss), NEW u \in User, NEW s,
         s # None => s \in NewSession /\ ss[s] # NoSession /\ ss[s].user = u,
         NEW e, e = Taken(d, u, s)
  PROVE  /\ BoxHolds(e, ss) /\ e.cookie = d.cookie /\ e.box /\ e.stored[u] = s
         /\ Adrift(e, ss) => s # d.cookie /\ (d.box /\ d.stored[u] = s => Adrift(d, ss))
<1>1. /\ e.cookie = d.cookie /\ e.box = TRUE /\ e.active = u /\ e.intent = d.intent
      /\ e.stored = [d.stored EXCEPT ![u] = s]
      /\ e = [cookie |-> e.cookie, box |-> e.box, stored |-> e.stored, active |-> e.active,
              intent |-> e.intent]
  BY DEF BoxHolds, Taken
<1>2. /\ e.stored = [v \in User |-> e.stored[v]]
      /\ \A v \in User : e.stored[v] = IF v = u THEN s ELSE d.stored[v]
  BY <1>1 DEF BoxHolds
<1>3. BoxHolds(e, ss)
  <2>1. \A v \in User : e.stored[v] # None =>
          e.stored[v] \in NewSession /\ ss[e.stored[v]] # NoSession /\ ss[e.stored[v]].user = v
    BY <1>2 DEF BoxHolds
  <2>2. e.cookie # None => e.cookie \in NewSession /\ ss[e.cookie] # NoSession
    BY <1>1 DEF BoxHolds
  <2>3. QED
    BY <1>1, <1>2, <2>1, <2>2 DEF BoxHolds
<1>4. Adrift(e, ss) => s # d.cookie /\ (d.box /\ d.stored[u] = s => Adrift(d, ss))
  BY <1>1, <1>2 DEF Adrift
<1>5. QED
  BY <1>1, <1>2, <1>3, <1>4

\* Another account becomes the active one, or a login is awaited.
LEMMA BoxTurns ==
  ASSUME NEW d, NEW ss, BoxHolds(d, ss), NEW u \in User \cup {None}, NEW b, NEW e,
         e \in {[d EXCEPT !.active = u], [d EXCEPT !.intent = b]}
  PROVE  BoxHolds(e, ss) /\ e.cookie = d.cookie /\ (Adrift(e, ss) => Adrift(d, ss))
<1>1. CASE e = [d EXCEPT !.active = u]
  <2>1. /\ e.cookie = d.cookie /\ e.box = d.box /\ e.active = u /\ e.stored = d.stored
        /\ e = [cookie |-> e.cookie, box |-> e.box, stored |-> e.stored, active |-> e.active,
                intent |-> e.intent]
    BY <1>1 DEF BoxHolds
  <2>2. QED
    BY <2>1 DEF BoxHolds, Adrift
<1>2. CASE e = [d EXCEPT !.intent = b]
  <2>1. /\ e.cookie = d.cookie /\ e.box = d.box /\ e.active = d.active /\ e.stored = d.stored
        /\ e = [cookie |-> e.cookie, box |-> e.box, stored |-> e.stored, active |-> e.active,
                intent |-> e.intent]
    BY <1>2 DEF BoxHolds
  <2>2. QED
    BY <2>1 DEF BoxHolds, Adrift
<1>3. QED
  BY <1>1, <1>2

Unboxed(d) == [d EXCEPT !.box = FALSE, !.stored = [u \in User |-> None], !.active = None]

\* The cookie is dropped, or the box.
LEMMA BoxDrops ==
  ASSUME NEW d, NEW ss, BoxHolds(d, ss), NEW e,
         e = [d EXCEPT !.cookie = None] \/ e = Unboxed(d)
  PROVE  BoxHolds(e, ss) /\ ~Adrift(e, ss)
<1>1. CASE e = [d EXCEPT !.cookie = None]
  <2>1. /\ e.cookie = None /\ e.box = d.box /\ e.active = d.active /\ e.stored = d.stored
        /\ e = [cookie |-> e.cookie, box |-> e.box, stored |-> e.stored, active |-> e.active,
                intent |-> e.intent]
    BY <1>1 DEF BoxHolds
  <2>2. QED
    BY <2>1 DEF BoxHolds, Adrift
<1>2. CASE e = Unboxed(d)
  <2>1. /\ e.cookie = d.cookie /\ e.box = FALSE /\ e.active = None
        /\ e.stored = [u \in User |-> None]
        /\ e = [cookie |-> e.cookie, box |-> e.box, stored |-> e.stored, active |-> e.active,
                intent |-> e.intent]
    BY <1>2 DEF BoxHolds, Unboxed
  <2>2. QED
    BY <2>1 DEF BoxHolds, Adrift
<1>3. QED
  BY <1>1, <1>2

-----------------------------------------------------------------------------
(* The steps that let go of what the browser holds.                        *)

LEMMA PlainPlanGoesOn ==
  ASSUME SlotInv, OneAtATime, BrowserIsKept, NEW r \in Req, NEW step, At(r, step),
         step \notin {"attach", "sign off", "session"}, Plain(job[r].todo),
         device' = device, OnlyRevoked,
         NEW j, job' = [job EXCEPT ![r] = j], j.todo = Rest(job[r]).todo
  PROVE  BrowserIsKept'
<1>1. PICK i, k : i = job[r] /\ k = Rest(job[r])
  OBVIOUS
<1>2. IsJob(i) /\ i.todo # <<>> /\ Head(i.todo) = step /\ Plain(i.todo)
  BY <1>1, PlanOfStep DEF SlotInv, At
<1>3. Plain(k.todo)
  BY <1>1, <1>2, PlainRest
<1>4. Plain(j.todo)
  BY <1>1, <1>3
<1>5. QED
  BY <1>4, PlainStepKeeps

LEMMA EndOwnKeepsBrowser ==
  ASSUME SlotInv, OneAtATime, BrowserIsKept, NEW r \in Req, EndOwn(r)
  PROVE  BrowserIsKept'
<1>1. At(r, "end") /\ device' = device /\ OnlyRevoked /\ job' = [job EXCEPT ![r] = Rest(job[r])]
  BY DEF EndOwn, OnlyRevoked, Proceed, Set
<1>2. PICK i, k : i = job[r] /\ k = Rest(job[r])
  OBVIOUS
<1>3. IsJob(i) /\ i.todo # <<>> /\ Head(i.todo) = "end" /\ Carries(i, device, session)
  BY <1>1, <1>2, PlanOfStep DEF SlotInv, At, BrowserIsKept
<1>4. Plain(i.todo) \/ (i.todo = <<"end">> \o Removing /\ i.on = device.stored[i.of])
  BY <1>3, CarriedAt
<1>5. CASE Plain(i.todo)
  BY <1>1, <1>2, <1>5, PlainPlanGoesOn
<1>6. CASE i.todo = <<"end">> \o Removing /\ i.on = device.stored[i.of]
  <2>1. Len(i.todo) # 1 /\ Tail(i.todo) = Removing
    BY <1>6, PlanShapes, Zenon
  <2>2. k = [i EXCEPT !.todo = Removing]
    BY <1>2, <2>1 DEF Rest
  <2>3. k.todo = Removing /\ k.on = device.stored[k.of]
    BY <1>3, <1>6, <2>2 DEF IsJob
  <2>4. Carries(k, device, session')
    BY <2>3 DEF Carries
  <2>5. r \in scenario.slots /\ ~Excuses(job[r], device)
    BY <1>1, StepHasSlot, NotExcused
  <2>6. QED
    BY <1>1, <1>2, <2>4, <2>5, StillStepKeeps
<1>7. QED
  BY <1>4, <1>5, <1>6

LEMMA CheckLeavesBrowser ==
  ASSUME SlotInv, OneAtATime, BrowserIsKept, NEW r \in Req, CheckDeletion(r)
  PROVE  BrowserIsKept'
<1>1. At(r, "check") /\ device' = device /\ OnlyRevoked
  BY DEF CheckDeletion, OnlyRevoked, rows
<1>2. PICK i, k, a : i = job[r] /\ k = Rest(job[r]) /\ a = user[job[r].of].address
  OBVIOUS
<1>3. PICK j : j = [k EXCEPT !.on = a]
  OBVIOUS
<1>4. Finish(r) \/ job' = [job EXCEPT ![r] = j]
  BY <1>2, <1>3 DEF CheckDeletion, Set
<1>5. IsJob(i) /\ i.todo # <<>> /\ Head(i.todo) = "check" /\ Carries(i, device, session)
  BY <1>1, <1>2, PlanOfStep DEF SlotInv, At, BrowserIsKept
<1>6. j.todo = k.todo /\ (Len(i.todo) # 1 => k.todo = Tail(i.todo))
  BY <1>2, <1>3, <1>5, RestIsJob DEF IsJob
<1>7. CASE Finish(r)
  BY <1>1, <1>7, PlainFinishes
<1>8. CASE job' = [job EXCEPT ![r] = j]
  <2>1. CASE Plain(i.todo)
    BY <1>1, <1>2, <1>6, <1>8, <2>1, PlainPlanGoesOn
  <2>2. CASE i.todo = <<"check", "tombstone">> \o Removing
    <3>1. j.todo = <<"tombstone">> \o Removing
      BY <1>6, <2>2, PlanShapes, Zenon
    <3>2. Carries(j, device, session')
      BY <3>1 DEF Carries
    <3>3. r \in scenario.slots /\ ~Excuses(job[r], device)
      BY <1>1, StepHasSlot, NotExcused
    <3>4. QED
      BY <1>1, <1>8, <3>2, <3>3, StillStepKeeps
  <2>3. QED
    BY <1>5, <2>1, <2>2, CarriedAt
<1>9. QED
  BY <1>4, <1>7, <1>8

LEMMA TombstoneKeepsBrowser ==
  ASSUME SlotInv, OneAtATime, BrowserIsKept, NEW r \in Req, Tombstone(r)
  PROVE  BrowserIsKept'
<1>1. At(r, "tombstone") /\ device' = device /\ OnlyRevoked
  BY DEF Tombstone, OnlyRevoked, rows, RevokeAllSessionsForUser
<1>2. PICK i, s : i = job[r] /\ s = device.stored[job[r].of]
  OBVIOUS
<1>3. PICK l : l = [i EXCEPT !.on = s]
  OBVIOUS
<1>4. PICK j, k : j = Rest(l) /\ k = Rest(i)
  OBVIOUS
<1>5. Finish(r) \/ job' = [job EXCEPT ![r] = j]
  BY <1>2, <1>3, <1>4 DEF Tombstone, Set
<1>6. IsJob(i) /\ i.todo # <<>> /\ Head(i.todo) = "tombstone" /\ Carries(i, device, session)
  BY <1>1, <1>2, PlanOfStep DEF SlotInv, At, BrowserIsKept
<1>7. IsJob(l) /\ l.todo = i.todo /\ l.of = i.of /\ l.on = s
  BY <1>3, <1>6 DEF IsJob
<1>8. j.todo = k.todo
  BY <1>4, <1>6, <1>7, RestIsJob DEF Rest
<1>9. CASE Finish(r)
  BY <1>1, <1>9, PlainFinishes
<1>10. CASE job' = [job EXCEPT ![r] = j]
  <2>1. CASE Plain(i.todo)
    BY <1>1, <1>2, <1>4, <1>8, <1>10, <2>1, PlainPlanGoesOn
  <2>2. CASE i.todo = <<"tombstone">> \o Removing
    <3>1. Len(l.todo) # 1 /\ Tail(l.todo) = Removing
      BY <1>7, <2>2, PlanShapes, Zenon
    <3>2. j = [l EXCEPT !.todo = Removing]
      BY <1>4, <3>1 DEF Rest
    <3>3. j.todo = Removing /\ j.on = s /\ j.of = i.of
      BY <1>7, <3>2 DEF IsJob
    <3>4. Carries(j, device, session')
      BY <1>2, <3>3 DEF Carries
    <3>5. r \in scenario.slots /\ ~Excuses(job[r], device)
      BY <1>1, StepHasSlot, NotExcused
    <3>6. QED
      BY <1>1, <1>10, <3>4, <3>5, StillStepKeeps
  <2>3. QED
    BY <1>6, <2>1, <2>2, CarriedAt
<1>11. QED
  BY <1>5, <1>9, <1>10

LEMMA SignOffKeepsBrowser ==
  ASSUME SlotInv, OneAtATime, BrowserIsKept, NEW r \in Req, SignOffStored(r)
  PROVE  BrowserIsKept'
<1>1. /\ At(r, "sign off") /\ device' = device /\ session' = Revoked({job[r].on})
      /\ job' = [job EXCEPT ![r] = Rest(job[r])] /\ r \in scenario.slots
  BY StepHasSlot DEF SignOffStored, Proceed, Set
<1>2. PICK i, k : i = job[r] /\ k = Rest(job[r])
  OBVIOUS
<1>3. IsJob(i) /\ i.todo # <<>> /\ Head(i.todo) = "sign off" /\ Carries(i, device, session)
  BY <1>1, <1>2, PlanOfStep DEF SlotInv, At, BrowserIsKept
<1>4. i.todo = SigningOff
  BY <1>3, CarriedAt
<1>5. Plain(k.todo)
  <2>1. k.todo = <<"repoint", "empty">>
    BY <1>2, <1>3, <1>4, RestIsJob, PlanShapes, Zenon
  <2>2. <<"repoint", "empty">> \in Seq(StillStep)
    BY DEF StillStep, OtherStep
  <2>3. QED
    BY <2>1, <2>2 DEF Plain
<1>6. SessionsKept(session, session') /\ SessionsCalm(session, session')
  BY <1>1, OnlyRevokedKeeps DEF SlotInv, OnlyRevoked
<1>7. BoxHolds(device', session') /\ (Adrift(device, session') => Adrift(device, session))
  BY <1>1, <1>6, BoxStays DEF BrowserIsKept
<1>8. ~Adrift(device, session')
  <2>1. SUFFICES ASSUME Adrift(device, session')
                 PROVE  FALSE
    OBVIOUS
  <2>2. \E q \in Req : Excuses(job[q], device)
    BY <1>7, <2>1 DEF BrowserIsKept
  <2>3. Excuses(i, device)
    BY <1>1, <1>2, <2>2, OneSlot, IdleIsCarried
  <2>4. i.on = device.cookie
    BY <1>4, <2>3, PlanShapes DEF Excuses
  <2>5. device.cookie \in NewSession /\ session[device.cookie] # NoSession
    BY <2>1 DEF BrowserIsKept, BoxHolds, Adrift
  <2>6. /\ session \in Sessions /\ device.cookie \in Session
        /\ Revoked({device.cookie})[device.cookie] # NoSession
    <3>1. session \in Sessions /\ device.cookie \in Session
      BY <2>5 DEF SlotInv, LoginInv, RowsAreTyped, Session
    <3>2. QED
      BY <2>5, <3>1, RevokedKeeps DEF SessionsKept
  <2>7. Revoked({device.cookie})[device.cookie].revoked
    BY <2>6, RevokedIsCalm
  <2>8. QED
    BY <1>1, <1>2, <2>1, <2>4, <2>7 DEF Adrift
<1>9. Carries(k, device', session')
  BY <1>5 DEF Carries
<1>10. QED
  BY <1>1, <1>2, <1>7, <1>8, <1>9, BrowserStep

LEMMA ForgetKeepsBrowser ==
  ASSUME SlotInv, OneAtATime, BrowserIsKept, NEW r \in Req, Forget(r)
  PROVE  BrowserIsKept'
<1>1. /\ At(r, "forget") /\ device' = [device EXCEPT !.stored[job[r].of] = None]
      /\ session' = session
      /\ job' = [job EXCEPT ![r] = Rest(job[r])] /\ r \in scenario.slots
  BY StepHasSlot DEF Forget, Proceed, Set
<1>2. PICK i, k : i = job[r] /\ k = Rest(job[r])
  OBVIOUS
<1>3. IsJob(i) /\ i.todo # <<>> /\ Head(i.todo) = "forget" /\ Carries(i, device, session)
  BY <1>1, <1>2, PlanOfStep DEF SlotInv, At, BrowserIsKept
<1>4. i.todo = Removing /\ i.on = device.stored[i.of]
  BY <1>3, CarriedAt
<1>5. k.todo = SigningOff /\ k.on = i.on
  <2>1. Len(i.todo) # 1 /\ Tail(i.todo) = SigningOff
    BY <1>4, PlanShapes, Zenon
  <2>2. k = [i EXCEPT !.todo = SigningOff]
    BY <1>2, <2>1 DEF Rest
  <2>3. QED
    BY <1>3, <2>2 DEF IsJob
<1>6. PICK d, e, u : d = device /\ e = device' /\ u = i.of
  OBVIOUS
<1>7. e = [d EXCEPT !.stored[u] = None] /\ BoxHolds(d, session)
  BY <1>1, <1>2, <1>6 DEF BrowserIsKept
<1>8. BoxHolds(e, session) /\ (Adrift(e, session) => Adrift(d, session) \/ d.stored[u] = d.cookie)
  BY <1>7, BoxForgets
<1>9. e.cookie = d.cookie
  BY <1>7 DEF BoxHolds
<1>10. ~Adrift(d, session)
  BY <1>1, <1>6, NothingAdrift, NotExcused
<1>11. Adrift(e, session) => Excuses(k, e)
  BY <1>4, <1>5, <1>6, <1>8, <1>9, <1>10 DEF Excuses
<1>12. Carries(k, e, session)
  BY <1>5 DEF Carries
<1>13. QED
  BY <1>1, <1>2, <1>6, <1>8, <1>11, <1>12, BrowserStep

\* The browser changes, and nothing is adrift in it.
LEMMA PlainStepSettles ==
  ASSUME SlotInv, OneAtATime, BrowserIsKept, NEW r \in Req, NEW step, PlainAt(r, step), Proceed(r),
         BoxHolds(device', session'), ~Adrift(device', session')
  PROVE  BrowserIsKept'
<1>1. At(r, step) /\ job' = [job EXCEPT ![r] = Rest(job[r])] /\ r \in scenario.slots
  BY StepHasSlot DEF PlainAt, Proceed, Set
<1>2. PICK j, k : j = job[r] /\ k = Rest(job[r])
  OBVIOUS
<1>3. IsJob(j) /\ j.todo # <<>> /\ Head(j.todo) = step /\ Carries(j, device, session)
  BY <1>1, <1>2, PlanOfStep DEF SlotInv, At, BrowserIsKept
<1>4. Plain(j.todo)
  BY <1>3, CarriedAt DEF PlainAt
<1>5. Plain(k.todo)
  BY <1>2, <1>3, <1>4, PlainRest DEF PlainAt
<1>6. Carries(k, device', session')
  BY <1>5 DEF Carries
<1>7. QED
  BY <1>1, <1>2, <1>6, BrowserStep

LEMMA TurnsKeepBrowser ==
  ASSUME SlotInv, OneAtATime, BrowserIsKept, NEW r \in Req,
         SetIntent(r) \/ Repoint(r) \/ DropEmpty(r)
  PROVE  BrowserIsKept'
<1>1. session' = session /\ Proceed(r)
  BY DEF SetIntent, Repoint, DropEmpty
<1>2. PICK step \in {"intent", "repoint", "empty"} : At(r, step)
  BY DEF SetIntent, Repoint, DropEmpty
<1>3. PlainAt(r, step) /\ r \in scenario.slots
  BY <1>2, StepHasSlot DEF PlainAt
<1>4. BoxHolds(device, session) /\ ~Adrift(device, session)
  BY <1>2, <1>3, NothingAdrift, NotExcused DEF BrowserIsKept
<1>5. \/ device' = device
      \/ \E u \in User \cup {None} : device' \in {[device EXCEPT !.active = u], [device EXCEPT !.intent = TRUE]}
      \/ device' = NoBox
  BY DEF SetIntent, Repoint, DropEmpty, Stored
<1>6. BoxHolds(device', session) /\ ~Adrift(device', session)
  <2>1. PICK d, e : d = device /\ e = device'
    OBVIOUS
  <2>2. CASE device' = device
    BY <1>4, <2>2
  <2>3. ASSUME NEW u \in User \cup {None},
               device' \in {[device EXCEPT !.active = u], [device EXCEPT !.intent = TRUE]}
        PROVE  BoxHolds(device', session) /\ ~Adrift(device', session)
    <3>1. e \in {[d EXCEPT !.active = u], [d EXCEPT !.intent = TRUE]} /\ BoxHolds(d, session)
      BY <1>4, <2>1, <2>3
    <3>2. BoxHolds(e, session) /\ (Adrift(e, session) => Adrift(d, session))
      BY <3>1, BoxTurns
    <3>3. QED
      BY <1>4, <2>1, <3>2
  <2>4. CASE device' = NoBox
    <3>1. e = Unboxed(d)
      BY <2>1, <2>4 DEF NoBox, Unboxed
    <3>2. BoxHolds(e, session) /\ ~Adrift(e, session)
      BY <1>4, <2>1, <3>1, BoxDrops
    <3>3. QED
      BY <2>1, <3>2
  <2>5. QED
    BY <1>5, <2>2, <2>3, <2>4
<1>7. QED
  BY <1>1, <1>3, <1>6, PlainStepSettles

LEMMA DropsKeepBrowser ==
  ASSUME SlotInv, OneAtATime, BrowserIsKept, NEW r \in Req, DropBox(r) \/ DropCookie(r)
  PROVE  BrowserIsKept'
<1>1. OnlyRevoked /\ Proceed(r)
  BY DEF DropBox, DropCookie, OnlyRevoked
<1>2. PICK step \in {"drop box", "drop cookie"} : At(r, step)
  BY DEF DropBox, DropCookie
<1>3. PlainAt(r, step)
  BY <1>2 DEF PlainAt
<1>4. PICK d, e : d = device /\ e = device'
  OBVIOUS
<1>5. BoxHolds(d, session')
  BY <1>1, <1>4, OnlyRevokedKeeps, BoxStays DEF SlotInv, BrowserIsKept
<1>6. e = [d EXCEPT !.cookie = None] \/ e = Unboxed(d)
  BY <1>4 DEF DropBox, DropCookie, NoBox, Unboxed
<1>7. BoxHolds(e, session') /\ ~Adrift(e, session')
  BY <1>5, <1>6, BoxDrops
<1>8. QED
  BY <1>1, <1>3, <1>4, <1>7, PlainStepSettles

LEMMA SwitchKeepsBrowser ==
  ASSUME SlotInv, OneAtATime, BrowserIsKept, NEW r \in Req, Switch(r)
  PROVE  BrowserIsKept'
<1>1. /\ At(r, "switch") /\ device' = [device EXCEPT !.active = job[r].of] /\ session' = session
      /\ job' = [job EXCEPT ![r] = Rest(job[r])] /\ r \in scenario.slots
  BY StepHasSlot DEF Switch, Proceed, Set
<1>2. PICK i, k : i = job[r] /\ k = Rest(job[r])
  OBVIOUS
<1>3. IsJob(i) /\ i.todo # <<>> /\ Head(i.todo) = "switch" /\ Carries(i, device, session)
  BY <1>1, <1>2, PlanOfStep DEF SlotInv, At, BrowserIsKept
<1>4. i.todo = <<"switch">> /\ i.of \in User
  BY <1>3, CarriedAt
<1>5. k = Idle
  <2>1. Len(i.todo) = 1
    BY <1>4
  <2>2. QED
    BY <1>2, <2>1 DEF Rest
<1>6. PICK d, e, u : d = device /\ e = device' /\ u = i.of
  OBVIOUS
<1>7. e = [d EXCEPT !.active = u] /\ BoxHolds(d, session) /\ u \in User \cup {None}
  BY <1>1, <1>2, <1>4, <1>6 DEF BrowserIsKept
<1>8. BoxHolds(e, session) /\ (Adrift(e, session) => Adrift(d, session))
  <2>1. e \in {[d EXCEPT !.active = u], [d EXCEPT !.intent = TRUE]}
    BY <1>7
  <2>2. QED
    BY <1>7, <2>1, BoxTurns
<1>9. ~Adrift(d, session)
  BY <1>1, <1>6, NothingAdrift, NotExcused
<1>10. QED
  BY <1>1, <1>2, <1>5, <1>6, <1>8, <1>9, IdleIsCarried, BrowserStep

-----------------------------------------------------------------------------
(* The steps by which the browser takes a session.                         *)

LEMMA KeepKeepsBrowser ==
  ASSUME SlotInv, OneAtATime, BrowserIsKept, NEW r \in Req, KeepCurrent(r)
  PROVE  BrowserIsKept'
<1>1. /\ At(r, "keep") /\ device' = Attached(job[r].of, job[r].on) /\ session' = session
      /\ job' = [job EXCEPT ![r] = Rest(job[r])] /\ r \in scenario.slots
  BY StepHasSlot DEF KeepCurrent, Proceed, Set
<1>2. PICK i, k : i = job[r] /\ k = Rest(job[r])
  OBVIOUS
<1>3. IsJob(i) /\ i.todo # <<>> /\ Head(i.todo) = "keep" /\ Carries(i, device, session)
  BY <1>1, <1>2, PlanOfStep DEF SlotInv, At, BrowserIsKept
<1>4. PICK d, e, u, s : d = device /\ e = device' /\ u = i.of /\ s = i.on
  OBVIOUS
<1>5. /\ i.todo = <<"keep", "intent">>
      /\ u \in User /\ s \in NewSession /\ session[s] # NoSession /\ session[s].user = u
      /\ s = IF d.box THEN d.stored[u] ELSE d.cookie
  BY <1>3, <1>4, CarriedAt
<1>6. Plain(k.todo)
  <2>1. k.todo = <<"intent">>
    BY <1>2, <1>3, <1>5, RestIsJob, PlanShapes, Zenon
  <2>2. <<"intent">> \in Seq(StillStep)
    BY DEF StillStep, OtherStep
  <2>3. QED
    BY <2>1, <2>2 DEF Plain
<1>7. e = Taken(d, u, s) /\ BoxHolds(d, session)
  BY <1>1, <1>2, <1>4 DEF Attached, BrowserIsKept, Taken
<1>8. /\ BoxHolds(e, session)
      /\ Adrift(e, session) => s # d.cookie /\ (d.box /\ d.stored[u] = s => Adrift(d, session))
  BY <1>5, <1>7, BoxTakes
<1>9. ~Adrift(d, session)
  BY <1>1, <1>4, NothingAdrift, NotExcused
<1>10. BoxHolds(e, session) /\ ~Adrift(e, session) /\ Carries(k, e, session)
  BY <1>5, <1>6, <1>8, <1>9 DEF Carries
<1>11. QED
  BY <1>1, <1>2, <1>4, <1>10, BrowserStep

LEMMA AttachKeepsBrowser ==
  ASSUME SlotInv, OneAtATime, BrowserIsKept, NEW r \in Req, Attach(r)
  PROVE  BrowserIsKept'
<1>1. /\ At(r, "attach") /\ device' = LoginAttached(job[r].of, job[r].on) /\ session' = session
      /\ job' = [job EXCEPT ![r] = Idle] /\ r \in scenario.slots
  BY StepHasSlot DEF Attach, Finish, Set
<1>2. PICK i : i = job[r]
  OBVIOUS
<1>3. i.todo # <<>> /\ Head(i.todo) = "attach" /\ Carries(i, device, session)
  BY <1>1, <1>2 DEF At, BrowserIsKept
<1>4. PICK d, e, u, s : d = device /\ e = device' /\ u = i.of /\ s = i.on
  OBVIOUS
<1>5. u \in User /\ s = d.cookie /\ (s # None => session[s].user = u) /\ BoxHolds(d, session)
  BY <1>3, <1>4, CarriedAt DEF BrowserIsKept
<1>6. PICK a : a = Taken(d, u, s)
  OBVIOUS
<1>7. BoxHolds(a, session) /\ ~Adrift(a, session)
  <2>1. s # None => s \in NewSession /\ session[s] # NoSession /\ session[s].user = u
    BY <1>5 DEF BoxHolds
  <2>2. BoxHolds(a, session) /\ (Adrift(a, session) => s # d.cookie)
    BY <1>5, <1>6, <2>1, BoxTakes
  <2>3. QED
    BY <1>5, <2>2
<1>8. BoxHolds(e, session) /\ ~Adrift(e, session)
  <2>1. CASE d.intent \/ d.box
    <3>1. e = [a EXCEPT !.intent = FALSE]
      BY <1>1, <1>2, <1>4, <1>6, <2>1 DEF LoginAttached, Attached, Taken
    <3>2. None \in User \cup {None} /\ e \in {[a EXCEPT !.active = None], [a EXCEPT !.intent = FALSE]}
      BY <3>1
    <3>3. BoxHolds(e, session) /\ (Adrift(e, session) => Adrift(a, session))
      BY <1>7, <3>2, BoxTurns
    <3>4. QED
      BY <1>7, <3>3
  <2>2. CASE ~(d.intent \/ d.box)
    <3>1. e = d
      BY <1>1, <1>4, <2>2 DEF LoginAttached
    <3>2. QED
      BY <1>5, <2>2, <3>1 DEF Adrift
  <2>3. QED
    BY <2>1, <2>2
<1>9. QED
  BY <1>1, <1>4, <1>8, IdleIsCarried, BrowserStep

Named(d, s) == [d EXCEPT !.cookie = s]

Opened(ss, s, row) == [ss EXCEPT ![s] = row]

LEMMA SessionOpens ==
  ASSUME NEW d, NEW ss \in Sessions, BoxHolds(d, ss), NEW s \in NewSession, ss[s] = NoSession,
         NEW row \in SessionRow
  PROVE  /\ BoxHolds(d, Opened(ss, s, row)) /\ (Adrift(d, Opened(ss, s, row)) => Adrift(d, ss))
         /\ BoxHolds(Named(d, s), Opened(ss, s, row)) /\ Named(d, s).cookie = s
<1> PICK ts, e : ts = Opened(ss, s, row) /\ e = Named(d, s)
  OBVIOUS
<1>1. row # NoSession
  BY NamesAssumption DEF SessionRow, NoSession
<1>2. ts[s] = row /\ \A t \in NewSession \ {s} : ts[t] = ss[t]
  BY DEF Sessions, Session, Opened
<1>3. BoxHolds(d, ts)
  <2>1. \A t \in NewSession : ss[t] # NoSession => ts[t] = ss[t]
    BY <1>2
  <2>2. QED
    BY <2>1 DEF BoxHolds
<1>4. Adrift(d, ts) => Adrift(d, ss)
  BY <1>2 DEF BoxHolds, Adrift
<1>5. BoxHolds(e, ts) /\ e.cookie = s
  <2>1. /\ e.cookie = s /\ e.box = d.box /\ e.active = d.active /\ e.stored = d.stored
        /\ e = [cookie |-> e.cookie, box |-> e.box, stored |-> e.stored, active |-> e.active,
                intent |-> e.intent]
    BY DEF BoxHolds, Named
  <2>2. QED
    BY <1>1, <1>2, <1>3, <2>1 DEF BoxHolds
<1>6. QED
  BY <1>3, <1>4, <1>5

LEMMA CreateSessionKeepsBrowser ==
  ASSUME SlotInv, OneAtATime, BrowserIsKept, NEW r \in Req, CreateSession(r)
  PROVE  BrowserIsKept'
<1>1. At(r, "session") /\ r \in scenario.slots /\ LoginInv
  BY StepHasSlot DEF CreateSession, SlotInv
<1>2. PICK i, c, u : i = job[r] /\ c = job[r].on /\ u = job[r].of
  OBVIOUS
<1>3. /\ IsJob(i) /\ Opening(i, challenge, session) /\ i.todo = FromSession /\ i.on = c /\ i.of = u
  BY <1>1, <1>2, PlanOfStep, LoginHeads DEF Opening, OpenSteps
<1>4. PICK row : row = [NoSession EXCEPT !.user = u, !.by = c]
  OBVIOUS
<1>5. PICK s \in NewSession :
        /\ session[s] = NoSession
        /\ session' = [session EXCEPT ![s] = row]
        /\ \/ device' = [device EXCEPT !.cookie = s] /\ Set(r, [Rest(i) EXCEPT !.on = s])
           \/ Finish(r) /\ UNCHANGED device
  BY <1>2, <1>4 DEF CreateSession
<1>6. row \in SessionRow /\ row.user = u /\ u \in User /\ session \in Sessions
  <2>1. /\ c \in Challenge /\ challenge[c].purpose = "login" /\ challenge[c].user = u
        /\ challenge \in Challenges /\ session \in Sessions
    BY <1>1, <1>3 DEF Opening, LoginInv, RowsAreTyped
  <2>2. challenge[c] \in ChallengeRow
    BY <2>1, NoChallengeIsBare DEF Challenges, Purpose
  <2>3. u \in User
    BY <2>1, <2>2 DEF ChallengeRow
  <2>4. QED
    BY <1>4, <2>1, <2>3 DEF SessionRow, NoSession
<1>7. PICK d, e, ts : d = device /\ e = device' /\ ts = session'
  OBVIOUS
<1>8. PICK f : f = Named(d, s)
  OBVIOUS
<1>9. /\ BoxHolds(d, ts) /\ (Adrift(d, ts) => Adrift(d, session))
      /\ BoxHolds(f, ts) /\ f.cookie = s
  <2>1. ts = Opened(session, s, row) /\ BoxHolds(d, session)
    BY <1>5, <1>7 DEF BrowserIsKept, Opened
  <2>2. /\ session \in Sessions /\ row \in SessionRow
        /\ s \in NewSession /\ session[s] = NoSession
    BY <1>5, <1>6
  <2>3. BoxHolds(d, ts) /\ (Adrift(d, ts) => Adrift(d, session)) /\ BoxHolds(f, ts) /\ f.cookie = s
    BY <1>8, <2>1, <2>2, SessionOpens
  <2>4. QED
    BY <2>3, Zenon
<1>10. CASE device' = [device EXCEPT !.cookie = s] /\ Set(r, [Rest(i) EXCEPT !.on = s])
  <2>1. PICK k : k = [i EXCEPT !.todo = Tail(i.todo)]
    OBVIOUS
  <2>2. Rest(i) = k /\ k.todo = <<"attach">> /\ IsJob(k) /\ k.of = u
    BY <1>3, <2>1 DEF Rest, FromSession, IsJob
  <2>3. PICK j : j = [k EXCEPT !.on = s]
    OBVIOUS
  <2>4. job' = [job EXCEPT ![r] = j] /\ j.todo = <<"attach">> /\ j.on = s /\ j.of = u
    BY <1>10, <2>2, <2>3 DEF Set, IsJob
  <2>5. ts[s].user = u
    BY <1>5, <1>6, <1>7 DEF Sessions, Session
  <2>6. e = f
    BY <1>7, <1>8, <1>10 DEF Named
  <2>7. Carries(j, e, ts) /\ Excuses(j, e)
    BY <1>6, <1>9, <2>4, <2>5, <2>6 DEF Carries, Excuses
  <2>8. QED
    BY <1>1, <1>7, <1>9, <2>4, <2>6, <2>7, BrowserStep
<1>11. CASE Finish(r) /\ UNCHANGED device
  <2>1. job' = [job EXCEPT ![r] = Idle] /\ d = e
    BY <1>7, <1>11 DEF Finish, Set
  <2>2. ~Adrift(d, session)
    BY <1>1, <1>7, NothingAdrift, NotExcused
  <2>3. QED
    BY <1>1, <1>7, <1>9, <2>1, <2>2, IdleIsCarried, BrowserStep
<1>12. QED
  BY <1>5, <1>10, <1>11

-----------------------------------------------------------------------------
(* Handlers begin.                                                         *)

LEMMA PlainBegins ==
  ASSUME SlotInv, OneAtATime, BrowserIsKept, NEW r \in Req, NEW j, Begin(r, j), Plain(j.todo)
  PROVE  BrowserIsKept'
<1>1. Carries(j, device, session)
  BY DEF Carries
<1>2. QED
  BY <1>1, BrowserBegins

LEMMA ShortIsPlain ==
  /\ \A step \in StillStep : Plain(<<step>>)
  /\ Plain(<<"recheck", "convert">>)
  /\ Plain(<<"consume", "may delete", "check", "tombstone">>)
  /\ Plain(<<"consume", "lookup", "restore">>)
  /\ Plain(<<"sign off all", "drop box", "drop cookie">>)
  /\ Plain(<<"check", "tombstone">>)
  /\ \A todo \in LoginPlans : Plain(todo)
<1>1. \A step \in StillStep : <<step>> \in Seq(StillStep)
  OBVIOUS
<1>2. <<"recheck", "convert">> \in Seq(StillStep)
  BY DEF StillStep, OtherStep
<1>3. <<"consume", "may delete", "check", "tombstone">> \in Seq(StillStep)
  BY DEF StillStep, OtherStep
<1>4. <<"consume", "lookup", "restore">> \in Seq(StillStep)
  BY DEF StillStep, OtherStep
<1>5. <<"sign off all", "drop box", "drop cookie">> \in Seq(StillStep)
  BY DEF StillStep, OtherStep
<1>6. <<"check", "tombstone">> \in Seq(StillStep)
  BY DEF StillStep, OtherStep
<1>7. QED
  BY <1>1, <1>2, <1>3, <1>4, <1>5, <1>6, Zenon DEF Plain

LEMMA AsksBegin ==
  ASSUME SlotInv, OneAtATime, BrowserIsKept, NEW r \in Req,
         \/ \E u \in User, a \in Address : BeginRegister(r, u, a)
         \/ \E u \in User, here \in BOOLEAN : BeginLogin(r, u, here)
         \/ \E c \in Challenge : BeginResend(r, c)
         \/ \E actor, u \in User : BeginOwnerDeletion(r, actor, u)
         \/ \E u \in User : BeginRestore(r, u)
  PROVE  BrowserIsKept'
<1>1. ASSUME NEW u \in User, NEW a \in Address, BeginRegister(r, u, a)
      PROVE  BrowserIsKept'
  <2>1. PICK j : j = [Job("register", <<"register", "supersede", "challenge">>) EXCEPT !.of = u, !.on = a, !.by = "login"]
    OBVIOUS
  <2>2. Begin(r, j)
    BY <1>1, <2>1 DEF BeginRegister
  <2>3. j.todo = <<"register", "supersede", "challenge">>
    BY <2>1 DEF Job, Idle
  <2>4. Plain(j.todo)
    BY <2>3, ShortIsPlain DEF LoginPlans, AskSteps
  <2>5. QED
    BY <2>2, <2>4, PlainBegins
<1>2. ASSUME NEW u \in User, NEW here \in BOOLEAN, BeginLogin(r, u, here)
      PROVE  BrowserIsKept'
  <2>1. PICK j : j = [Job("login", <<"supersede", "challenge">>) EXCEPT !.of = u, !.by = "login", !.count = IF here THEN 1 ELSE 0]
    OBVIOUS
  <2>2. Begin(r, j)
    BY <1>2, <2>1 DEF BeginLogin
  <2>3. j.todo = <<"supersede", "challenge">>
    BY <2>1 DEF Job, Idle
  <2>4. Plain(j.todo)
    BY <2>3, ShortIsPlain DEF LoginPlans, AskSteps
  <2>5. QED
    BY <2>2, <2>4, PlainBegins
<1>3. ASSUME NEW c \in Challenge, BeginResend(r, c)
      PROVE  BrowserIsKept'
  <2>1. PICK j : j = [Job("resend", <<"resend">>) EXCEPT !.on = c]
    OBVIOUS
  <2>2. Begin(r, j)
    BY <1>3, <2>1 DEF BeginResend
  <2>3. j.todo = <<"resend">>
    BY <2>1 DEF Job, Idle
  <2>4. Plain(j.todo)
    BY <2>3, ShortIsPlain DEF LoginPlans, CodeSteps
  <2>5. QED
    BY <2>2, <2>4, PlainBegins
<1>4. ASSUME NEW actor \in User, NEW u \in User, BeginOwnerDeletion(r, actor, u)
      PROVE  BrowserIsKept'
  <2>1. PICK j : j = [Job("owner deletion", <<"supersede", "challenge">>) EXCEPT !.of = actor, !.by = "owner_delete"]
    OBVIOUS
  <2>2. Begin(r, j)
    BY <1>4, <2>1 DEF BeginOwnerDeletion
  <2>3. j.todo = <<"supersede", "challenge">>
    BY <2>1 DEF Job, Idle
  <2>4. Plain(j.todo)
    BY <2>3, ShortIsPlain DEF LoginPlans, AskSteps
  <2>5. QED
    BY <2>2, <2>4, PlainBegins
<1>5. ASSUME NEW u \in User, BeginRestore(r, u)
      PROVE  BrowserIsKept'
  <2>1. PICK j : j = [Job("restore", <<"supersede", "challenge">>) EXCEPT !.of = u, !.by = "account_restore"]
    OBVIOUS
  <2>2. Begin(r, j)
    BY <1>5, <2>1 DEF BeginRestore
  <2>3. j.todo = <<"supersede", "challenge">>
    BY <2>1 DEF Job, Idle
  <2>4. Plain(j.todo)
    BY <2>3, ShortIsPlain DEF LoginPlans, AskSteps
  <2>5. QED
    BY <2>2, <2>4, PlainBegins
<1>6. QED
  BY <1>1, <1>2, <1>3, <1>4, <1>5

LEMMA MembersBegin ==
  ASSUME SlotInv, OneAtATime, BrowserIsKept, NEW r \in Req,
         \/ \E u \in User, i \in Invite : BeginRotate(r, u, i)
         \/ \E u \in User, i \in Invite : BeginRevokeInvite(r, u, i)
         \/ \E u \in User, i \in Invite : BeginAccept(r, u, i)
         \/ \E u \in User, row \in access : BeginRemoveAccess(r, u, row)
         \/ \E actor, u \in User : BeginRevokeSessions(r, actor, u)
         \/ \E actor, u \in User : BeginConvert(r, actor, u)
         \/ \E u \in User, a \in Address : BeginAlternateRestore(r, u, a)
         \/ BeginLogoutAll(r)
  PROVE  BrowserIsKept'
<1>1. ASSUME NEW u \in User, NEW i \in Invite, BeginRotate(r, u, i)
      PROVE  BrowserIsKept'
  <2>1. PICK j : j = [Job("rotate", <<"rotate">>) EXCEPT !.on = i, !.count = invite[i].sends]
    OBVIOUS
  <2>2. Begin(r, j)
    BY <1>1, <2>1 DEF BeginRotate
  <2>3. j.todo = <<"rotate">>
    BY <2>1 DEF Job, Idle
  <2>4. Plain(j.todo)
    BY <2>3, ShortIsPlain DEF StillStep, OtherStep
  <2>5. QED
    BY <2>2, <2>4, PlainBegins
<1>2. ASSUME NEW u \in User, NEW i \in Invite, BeginRevokeInvite(r, u, i)
      PROVE  BrowserIsKept'
  <2>1. PICK j : j = [Job("revoke", <<"revoke">>) EXCEPT !.on = i]
    OBVIOUS
  <2>2. Begin(r, j)
    BY <1>2, <2>1 DEF BeginRevokeInvite
  <2>3. j.todo = <<"revoke">>
    BY <2>1 DEF Job, Idle
  <2>4. Plain(j.todo)
    BY <2>3, ShortIsPlain DEF StillStep, OtherStep
  <2>5. QED
    BY <2>2, <2>4, PlainBegins
<1>3. ASSUME NEW u \in User, NEW i \in Invite, BeginAccept(r, u, i)
      PROVE  BrowserIsKept'
  <2>1. PICK j : j = [Job("accept", <<"accept">>) EXCEPT !.of = u, !.on = i]
    OBVIOUS
  <2>2. Begin(r, j)
    BY <1>3, <2>1 DEF BeginAccept
  <2>3. j.todo = <<"accept">>
    BY <2>1 DEF Job, Idle
  <2>4. Plain(j.todo)
    BY <2>3, ShortIsPlain DEF LoginPlans
  <2>5. QED
    BY <2>2, <2>4, PlainBegins
<1>4. ASSUME NEW u \in User, NEW row \in access, BeginRemoveAccess(r, u, row)
      PROVE  BrowserIsKept'
  <2>1. PICK j : j = [Job("remove access", <<"remove access">>) EXCEPT !.of = row[1], !.on = row]
    OBVIOUS
  <2>2. Begin(r, j)
    BY <1>4, <2>1 DEF BeginRemoveAccess
  <2>3. j.todo = <<"remove access">>
    BY <2>1 DEF Job, Idle
  <2>4. Plain(j.todo)
    BY <2>3, ShortIsPlain DEF StillStep, OtherStep
  <2>5. QED
    BY <2>2, <2>4, PlainBegins
<1>5. ASSUME NEW actor \in User, NEW u \in User, BeginRevokeSessions(r, actor, u)
      PROVE  BrowserIsKept'
  <2>1. PICK j : j = [Job("revoke sessions", <<"revoke sessions">>) EXCEPT !.of = u]
    OBVIOUS
  <2>2. Begin(r, j)
    BY <1>5, <2>1 DEF BeginRevokeSessions
  <2>3. j.todo = <<"revoke sessions">>
    BY <2>1 DEF Job, Idle
  <2>4. Plain(j.todo)
    BY <2>3, ShortIsPlain DEF StillStep, OtherStep
  <2>5. QED
    BY <2>2, <2>4, PlainBegins
<1>6. ASSUME NEW actor \in User, NEW u \in User, BeginConvert(r, actor, u)
      PROVE  BrowserIsKept'
  <2>1. PICK j : j = [Job("convert", <<"recheck", "convert">>) EXCEPT !.of = u, !.on = Shape(u)]
    OBVIOUS
  <2>2. Begin(r, j)
    BY <1>6, <2>1 DEF BeginConvert
  <2>3. j.todo = <<"recheck", "convert">>
    BY <2>1 DEF Job, Idle
  <2>4. Plain(j.todo)
    BY <2>3, ShortIsPlain DEF StillStep, OtherStep
  <2>5. QED
    BY <2>2, <2>4, PlainBegins
<1>7. ASSUME NEW u \in User, NEW a \in Address, BeginAlternateRestore(r, u, a)
      PROVE  BrowserIsKept'
  <2>1. PICK j : j = [Job("alternate restore", <<"restore">>) EXCEPT !.of = u, !.on = a]
    OBVIOUS
  <2>2. Begin(r, j)
    BY <1>7, <2>1 DEF BeginAlternateRestore
  <2>3. j.todo = <<"restore">>
    BY <2>1 DEF Job, Idle
  <2>4. Plain(j.todo)
    BY <2>3, ShortIsPlain DEF StillStep, OtherStep
  <2>5. QED
    BY <2>2, <2>4, PlainBegins
<1>8. ASSUME BeginLogoutAll(r)
      PROVE  BrowserIsKept'
  <2>1. PICK j : j = Job("log out all", <<"sign off all", "drop box", "drop cookie">>)
    OBVIOUS
  <2>2. Begin(r, j)
    BY <1>8, <2>1 DEF BeginLogoutAll
  <2>3. j.todo = <<"sign off all", "drop box", "drop cookie">>
    BY <2>1 DEF Job, Idle
  <2>4. Plain(j.todo)
    BY <2>3, ShortIsPlain DEF StillStep, OtherStep
  <2>5. QED
    BY <2>2, <2>4, PlainBegins
<1>9. QED
  BY <1>1, <1>2, <1>3, <1>4, <1>5, <1>6, <1>7, <1>8

LEMMA ChoicesBegin ==
  ASSUME SlotInv, OneAtATime, BrowserIsKept, NEW r \in Req,
         \/ \E c \in Challenge, right \in BOOLEAN, u \in User : BeginVerify(r, c, right, u)
         \/ \E u \in User, a \in Address, role \in InviteRoles : BeginInvite(r, u, a, role)
         \/ \E actor, u \in User, active \in BOOLEAN : BeginSetActive(r, actor, u, active)
  PROVE  BrowserIsKept'
<1>1. ASSUME NEW c \in Challenge, NEW right \in BOOLEAN, NEW u \in User, BeginVerify(r, c, right, u)
      PROVE  BrowserIsKept'
  <2>1. PICK todo : todo = IF challenge[c].tries >= MaxAttempts THEN <<"lock">>
                           ELSE IF right THEN AfterCode(c) ELSE <<"miss">>
    OBVIOUS
  <2>2. PICK whose, a : whose = challenge[c].user /\ a = {user[u].address}
    OBVIOUS
  <2>3. PICK j : j = [Job("verify", todo) EXCEPT !.on = c, !.of = u, !.by = whose, !.seen = a]
    OBVIOUS
  <2>4. Begin(r, j)
    BY <1>1, <2>1, <2>2, <2>3 DEF BeginVerify
  <2>5. j.todo = todo
    BY <2>3 DEF Job, Idle
  <2>6. AfterCode(c) \in {<<"consume", "may delete", "check", "tombstone">>,
                         <<"consume", "lookup", "restore">>, NextLogin, FirstLogin}
    BY DEF AfterCode
  <2>7. {<<"lock">>, <<"miss">>, NextLogin, FirstLogin} \subseteq LoginPlans
    BY DEF LoginPlans, CodeSteps, EnterSteps
  <2>8. Plain(AfterCode(c)) /\ Plain(<<"lock">>) /\ Plain(<<"miss">>)
    BY <2>6, <2>7, ShortIsPlain
  <2>9. Plain(todo)
    BY <2>1, <2>8
  <2>10. QED
    BY <2>4, <2>5, <2>9, PlainBegins
<1>2. ASSUME NEW u \in User, NEW a \in Address, NEW role \in InviteRoles, BeginInvite(r, u, a, role)
      PROVE  BrowserIsKept'
  <2>1. \/ \E v \in User : Begin(r, [Job("invite", <<"grant">>) EXCEPT !.of = v, !.on = role])
        \/ Begin(r, [Job("invite", <<"invite">>) EXCEPT !.of = a, !.on = role])
    BY <1>2 DEF BeginInvite
  <2>2. Plain(<<"grant">>) /\ Plain(<<"invite">>)
    BY ShortIsPlain DEF LoginPlans, StillStep, OtherStep
  <2>3. ASSUME NEW v \in User, Begin(r, [Job("invite", <<"grant">>) EXCEPT !.of = v, !.on = role])
        PROVE  BrowserIsKept'
    <3>1. PICK j : j = [Job("invite", <<"grant">>) EXCEPT !.of = v, !.on = role]
      OBVIOUS
    <3>2. Begin(r, j) /\ j.todo = <<"grant">>
      BY <2>3, <3>1 DEF Job, Idle
    <3>3. QED
      BY <2>2, <3>2, PlainBegins
  <2>4. ASSUME Begin(r, [Job("invite", <<"invite">>) EXCEPT !.of = a, !.on = role])
        PROVE  BrowserIsKept'
    <3>1. PICK j : j = [Job("invite", <<"invite">>) EXCEPT !.of = a, !.on = role]
      OBVIOUS
    <3>2. Begin(r, j) /\ j.todo = <<"invite">>
      BY <2>4, <3>1 DEF Job, Idle
    <3>3. QED
      BY <2>2, <3>2, PlainBegins
  <2>5. QED
    BY <2>1, <2>3, <2>4
<1>3. ASSUME NEW actor \in User, NEW u \in User, NEW active \in BOOLEAN,
             BeginSetActive(r, actor, u, active)
      PROVE  BrowserIsKept'
  <2>1. PICK todo : todo = IF active THEN <<"activate">> ELSE <<"deactivate">>
    OBVIOUS
  <2>2. PICK j : j = [Job("set active", todo) EXCEPT !.of = u]
    OBVIOUS
  <2>3. Begin(r, j)
    BY <1>3, <2>1, <2>2 DEF BeginSetActive
  <2>4. j.todo = todo
    BY <2>2 DEF Job, Idle
  <2>5. Plain(<<"activate">>) /\ Plain(<<"deactivate">>)
    BY ShortIsPlain DEF StillStep, OtherStep
  <2>6. QED
    BY <2>1, <2>3, <2>4, <2>5, PlainBegins
<1>4. QED
  BY <1>1, <1>2, <1>3

\* What leaving the browser takes: nothing it holds, or the active account.
LEMMA LeavingSteps ==
  /\ LeaveSteps \in Seq(StillStep) \/ LeaveSteps = Removing
  /\ LeaveSteps = Removing => device.box /\ device.active # None
<1>1. /\ LeaveSteps = <<"drop cookie">> \/ LeaveSteps = <<"drop box">>
         \/ (LeaveSteps = Removing /\ device.box /\ device.active # None)
  BY DEF LeaveSteps
<1>2. <<"drop cookie">> \in Seq(StillStep) /\ <<"drop box">> \in Seq(StillStep)
  BY DEF StillStep, OtherStep
<1>3. Head(<<"drop cookie">>) # "forget" /\ Head(<<"drop box">>) # "forget"
  OBVIOUS
<1>4. <<"drop cookie">> # Removing /\ <<"drop box">> # Removing
  BY <1>3, PlanShapes
<1>5. QED
  BY <1>1, <1>2, <1>4

LEMMA LeavingBegins ==
  ASSUME SlotInv, OneAtATime, BrowserIsKept, NEW r \in Req,
         \/ BeginSignOut(r)
         \/ \E u \in User : BeginRemoveAccount(r, u)
         \/ \E chosen \in SUBSET Session : BeginEndOwn(r, chosen)
         \/ \E u \in User, here \in BOOLEAN : BeginDeleteSelf(r, u, here)
  PROVE  BrowserIsKept'
<1>1. PICK active, kept : /\ active = device.active
                          /\ kept = IF device.box /\ device.active # None
                                    THEN device.stored[device.active] ELSE None
  OBVIOUS
<1>2. PICK leave : leave = LeaveSteps
  OBVIOUS
<1>3. /\ leave \in Seq(StillStep) \/ leave = Removing
      /\ leave = Removing => kept = device.stored[active]
  BY <1>1, <1>2, LeavingSteps
<1>4. ASSUME BeginSignOut(r)
      PROVE  BrowserIsKept'
  <2>1. PICK j : j = [Job("sign out", leave) EXCEPT !.of = active, !.on = kept]
    OBVIOUS
  <2>2. Begin(r, j)
    BY <1>1, <1>2, <1>4, <2>1 DEF BeginSignOut
  <2>3. j.todo = leave /\ j.of = active /\ j.on = kept
    BY <2>1 DEF Job, Idle
  <2>4. Carries(j, device, session)
    BY <1>3, <2>3 DEF Carries, Plain
  <2>5. QED
    BY <2>2, <2>4, BrowserBegins
<1>5. ASSUME NEW u \in User, BeginRemoveAccount(r, u)
      PROVE  BrowserIsKept'
  <2>1. PICK s : s = device.stored[u]
    OBVIOUS
  <2>2. PICK j : j = [Job("remove", Removing) EXCEPT !.of = u, !.on = s]
    OBVIOUS
  <2>3. Begin(r, j)
    BY <1>5, <2>1, <2>2 DEF BeginRemoveAccount
  <2>4. j.todo = Removing /\ j.on = device.stored[j.of]
    BY <2>1, <2>2 DEF Job, Idle
  <2>5. Carries(j, device, session)
    BY <2>4 DEF Carries
  <2>6. QED
    BY <2>3, <2>5, BrowserBegins
<1>6. ASSUME NEW chosen \in SUBSET Session, BeginEndOwn(r, chosen)
      PROVE  BrowserIsKept'
  <2>1. PICK todo : todo = IF chosen = SessionsOf(session[CurrentSession].user)
                           THEN <<"end">> \o LeaveSteps ELSE <<"end">>
    OBVIOUS
  <2>2. PICK j : j = [Job("end own", todo) EXCEPT !.seen = chosen, !.of = active, !.on = kept]
    OBVIOUS
  <2>3. Begin(r, j)
    BY <1>1, <1>6, <2>1, <2>2 DEF BeginEndOwn
  <2>4. j.todo = todo /\ j.of = active /\ j.on = kept
    BY <2>2 DEF Job, Idle
  <2>5. <<"end">> \in Seq(StillStep)
    BY DEF StillStep, OtherStep
  <2>6. leave \in Seq(StillStep) => <<"end">> \o leave \in Seq(StillStep)
    BY <2>5
  <2>7. todo \in Seq(StillStep) \/ (todo = <<"end">> \o Removing /\ leave = Removing)
    BY <1>2, <1>3, <2>1, <2>5, <2>6
  <2>8. Carries(j, device, session)
    BY <1>3, <2>4, <2>7 DEF Carries, Plain
  <2>9. QED
    BY <2>3, <2>8, BrowserBegins
<1>7. ASSUME NEW u \in User, NEW here \in BOOLEAN, BeginDeleteSelf(r, u, here)
      PROVE  BrowserIsKept'
  <2>1. PICK todo : todo = <<"check", "tombstone">> \o IF here THEN LeaveSteps ELSE <<>>
    OBVIOUS
  <2>2. PICK j : j = [Job("delete", todo) EXCEPT !.of = u]
    OBVIOUS
  <2>3. Begin(r, j)
    BY <1>7, <2>1, <2>2 DEF BeginDeleteSelf
  <2>4. j.todo = todo
    BY <2>2 DEF Job, Idle
  <2>5. <<"check", "tombstone">> \in Seq(StillStep)
    BY DEF StillStep, OtherStep
  <2>6. ASSUME NEW rest \in Seq(StillStep)
        PROVE  <<"check", "tombstone">> \o rest \in Seq(StillStep)
    BY <2>5
  <2>7. <<>> \in Seq(StillStep)
    OBVIOUS
  <2>8. PICK rest : rest = IF here THEN LeaveSteps ELSE <<>>
    OBVIOUS
  <2>9. rest \in Seq(StillStep) \/ rest = Removing
    BY <1>2, <1>3, <2>7, <2>8
  <2>10. todo = <<"check", "tombstone">> \o rest
    BY <2>1, <2>8, Zenon
  <2>11. Carries(j, device, session)
    BY <2>4, <2>6, <2>9, <2>10 DEF Carries, Plain
  <2>12. QED
    BY <2>3, <2>11, BrowserBegins
<1>8. QED
  BY <1>4, <1>5, <1>6, <1>7

LEMMA CurrentIsHeld ==
  ASSUME BoxHolds(device, session), session \in Sessions, CurrentSession # None,
         NEW s, s = CurrentSession, NEW u, u = session[s].user
  PROVE  /\ u \in User /\ s \in NewSession /\ session[s] # NoSession
         /\ s = IF device.box THEN device.stored[u] ELSE device.cookie
<1>1. CASE device.box
  <2>1. device.active # None /\ s = device.stored[device.active] /\ s # None
    BY <1>1 DEF CurrentSession
  <2>2. device.active \in User
    BY <2>1 DEF BoxHolds
  <2>3. s \in NewSession /\ session[s] # NoSession /\ session[s].user = device.active
    BY <2>1, <2>2 DEF BoxHolds
  <2>4. QED
    BY <1>1, <2>1, <2>2, <2>3
<1>2. CASE ~device.box
  <2>1. s = device.cookie /\ s # None
    BY <1>2 DEF CurrentSession
  <2>2. s \in NewSession /\ session[s] # NoSession
    BY <2>1 DEF BoxHolds
  <2>3. session[s] \in SessionRow
    BY <2>2 DEF Sessions, Session
  <2>4. QED
    BY <1>2, <2>1, <2>2, <2>3 DEF SessionRow
<1>3. QED
  BY <1>1, <1>2

LEMMA BrowserHandlersBegin ==
  ASSUME SlotInv, OneAtATime, BrowserIsKept, NEW r \in Req,
         BeginAddAccount(r) \/ \E u \in User : BeginSwitch(r, u)
  PROVE  BrowserIsKept'
<1>1. ASSUME BeginAddAccount(r)
      PROVE  BrowserIsKept'
  <2>1. PICK s, u : s = CurrentSession /\ u = session[CurrentSession].user
    OBVIOUS
  <2>2. PICK j : j = [Job("add", <<"keep", "intent">>) EXCEPT !.on = s, !.of = u]
    OBVIOUS
  <2>3. Begin(r, j) /\ CurrentSession # None
    BY <1>1, <2>1, <2>2 DEF BeginAddAccount
  <2>4. j.todo = <<"keep", "intent">> /\ j.on = s /\ j.of = u
    BY <2>2 DEF Job, Idle
  <2>5. BoxHolds(device, session) /\ session \in Sessions
    BY DEF BrowserIsKept, SlotInv, LoginInv, RowsAreTyped
  <2>6. u = session[s].user
    BY <2>1
  <2>7. /\ u \in User /\ s \in NewSession /\ session[s] # NoSession
        /\ s = IF device.box THEN device.stored[u] ELSE device.cookie
    BY <2>1, <2>3, <2>5, <2>6, CurrentIsHeld
  <2>8. Carries(j, device, session)
    BY <2>4, <2>6, <2>7 DEF Carries
  <2>9. QED
    BY <2>3, <2>8, BrowserBegins
<1>2. ASSUME NEW u \in User, BeginSwitch(r, u)
      PROVE  BrowserIsKept'
  <2>1. PICK j : j = [Job("switch", <<"switch">>) EXCEPT !.of = u]
    OBVIOUS
  <2>2. Begin(r, j)
    BY <1>2, <2>1 DEF BeginSwitch
  <2>3. j.todo = <<"switch">> /\ j.of = u
    BY <2>1 DEF Job, Idle
  <2>4. Carries(j, device, session)
    BY <2>3 DEF Carries
  <2>5. QED
    BY <2>2, <2>4, BrowserBegins
<1>3. QED
  BY <1>1, <1>2

-----------------------------------------------------------------------------
(* Every step.                                                             *)

LEMMA NextKeepsBrowser ==
  ASSUME SlotInv, Watched, BrowserIsKept, [Next]_vars
  PROVE  BrowserIsKept'
<1>1. OneAtATime /\ "crash" \notin scenario.calls /\ "attach failure" \notin scenario.calls
  BY DEF Watched, Serial
<1>2. CASE UNCHANGED vars
  BY <1>2, EventLeavesBrowser DEF vars, rows
<1>3. ASSUME NEW r \in Req, Crash(r)
      PROVE  BrowserIsKept'
  BY <1>1, <1>3 DEF Crash
<1>4. CASE LoginNext
  <2>1. ASSUME NEW r \in Req,
               \/ \E u \in User, a \in Address : BeginRegister(r, u, a)
               \/ \E u \in User, here \in BOOLEAN : BeginLogin(r, u, here)
               \/ \E c \in Challenge : BeginResend(r, c)
               \/ \E c \in Challenge, right \in BOOLEAN, u \in User : BeginVerify(r, c, right, u)
        PROVE  BrowserIsKept'
    BY <1>1, <2>1, AsksBegin, ChoicesBegin
  <2>2. ASSUME NEW r \in Req,
               \/ BeginAddAccount(r) \/ BeginSignOut(r) \/ BeginLogoutAll(r)
               \/ \E u \in User : BeginSwitch(r, u) \/ BeginRemoveAccount(r, u)
               \/ \E chosen \in SUBSET Session : BeginEndOwn(r, chosen)
        PROVE  BrowserIsKept'
    BY <1>1, <2>2, BrowserHandlersBegin, LeavingBegins, MembersBegin
  <2>3. ASSUME NEW r \in Req,
               \/ Register(r) \/ Supersede(r) \/ CreateChallenge(r) \/ Resend(r) \/ Miss(r) \/ Lock(r)
               \/ Consume(r) \/ VerifyAddress(r) \/ SupersedeOthers(r) \/ CreateSession(r)
        PROVE  BrowserIsKept'
    BY <1>1, <2>3, LoginLeavesBrowser, MissLeavesBrowser, CreateSessionKeepsBrowser
  <2>4. ASSUME NEW r \in Req,
               \/ Attach(r) \/ AttachFails(r) \/ KeepCurrent(r) \/ SetIntent(r) \/ Switch(r)
        PROVE  BrowserIsKept'
    <3>1. ~AttachFails(r)
      BY <1>1 DEF AttachFails
    <3>2. QED
      BY <1>1, <2>4, <3>1, AttachKeepsBrowser, KeepKeepsBrowser, TurnsKeepBrowser, SwitchKeepsBrowser
  <2>5. ASSUME NEW r \in Req,
               \/ Forget(r) \/ SignOffStored(r) \/ Repoint(r) \/ DropEmpty(r) \/ DropBox(r)
               \/ DropCookie(r) \/ SignOffAll(r) \/ EndOwn(r)
        PROVE  BrowserIsKept'
    BY <1>1, <2>5, ForgetKeepsBrowser, SignOffKeepsBrowser, TurnsKeepBrowser, DropsKeepBrowser,
       LoginLeavesBrowser, EndOwnKeepsBrowser
  <2>6. ASSUME NEW c \in Challenge, ChallengeExpires(c)
        PROVE  BrowserIsKept'
    BY <2>6, EventLeavesBrowser DEF ChallengeExpires, Event
  <2>7. QED
    BY <1>4, <2>1, <2>2, <2>3, <2>4, <2>5, <2>6 DEF LoginNext
<1>5. CASE MembersNext
  <2>1. ASSUME NEW r \in Req,
               \/ \E u \in User, a \in Address, role \in InviteRoles : BeginInvite(r, u, a, role)
               \/ \E u \in User, i \in Invite :
                    BeginRotate(r, u, i) \/ BeginRevokeInvite(r, u, i) \/ BeginAccept(r, u, i)
               \/ \E u \in User, row \in access : BeginRemoveAccess(r, u, row)
               \/ \E actor, u \in User :
                    \/ \E active \in BOOLEAN : BeginSetActive(r, actor, u, active)
                    \/ BeginRevokeSessions(r, actor, u) \/ BeginConvert(r, actor, u)
                    \/ BeginOwnerDeletion(r, actor, u)
        PROVE  BrowserIsKept'
    BY <1>1, <2>1, ChoicesBegin, MembersBegin, AsksBegin
  <2>2. ASSUME NEW r \in Req,
               \/ \E u \in User, here \in BOOLEAN : BeginDeleteSelf(r, u, here)
               \/ \E u \in User : BeginRestore(r, u)
               \/ \E u \in User, a \in Address : BeginAlternateRestore(r, u, a)
        PROVE  BrowserIsKept'
    BY <1>1, <2>2, LeavingBegins, AsksBegin, MembersBegin
  <2>3. ASSUME NEW r \in Req,
               \/ Grant(r) \/ CreateInvite(r) \/ Rotate(r) \/ RevokeInvite(r) \/ Accept(r)
               \/ RemoveAccess(r) \/ Activate(r) \/ Deactivate(r) \/ RevokeSessions(r) \/ Recheck(r)
               \/ Convert(r) \/ MayDelete(r) \/ Restore(r)
        PROVE  BrowserIsKept'
    BY <1>1, <2>3, MembersLeaveBrowser
  <2>4. ASSUME NEW r \in Req,
               FindPending(r) \/ ApplyPending(r) \/ CheckDeletion(r) \/ Tombstone(r) \/ Lookup(r)
        PROVE  BrowserIsKept'
    BY <1>1, <2>4, LookupsLeaveBrowser, CheckLeavesBrowser, TombstoneKeepsBrowser
  <2>5. ASSUME NEW i \in Invite, InviteCools(i) \/ InviteExpires(i)
        PROVE  BrowserIsKept'
    BY <2>5, EventLeavesBrowser DEF InviteCools, InviteExpires, Event
  <2>6. QED
    BY <1>5, <2>1, <2>2, <2>3, <2>4, <2>5 DEF MembersNext
<1>6. QED
  BY <1>2, <1>3, <1>4, <1>5 DEF Next

LEMMA InitBrowser ==
  ASSUME Init
  PROVE  BrowserIsKept
<1>1. device = [cookie |-> None, box |-> FALSE, stored |-> [u \in User |-> None],
                active |-> None, intent |-> FALSE]
  BY DEF Init
<1>2. BoxHolds(device, session) /\ ~Adrift(device, session)
  BY <1>1 DEF BoxHolds, Adrift
<1>3. \A r \in Req : Carries(job[r], device, session)
  BY IdleIsCarried DEF Init
<1>4. QED
  BY <1>2, <1>3 DEF BrowserIsKept

\* No step changes what may happen together: each writes its own slot.
LEMMA SlotStepsKeepScenario ==
  ASSUME NEW r
  PROVE  /\ \A j : Begin(r, j) => scenario' = scenario
         /\ \A j : Set(r, j) => scenario' = scenario
         /\ Proceed(r) => scenario' = scenario
         /\ Finish(r) => scenario' = scenario
BY DEF Begin, Set, Proceed, Finish

LEMMA ScenarioStays ==
  ASSUME [Next]_vars
  PROVE  scenario' = scenario
<1>1. CASE UNCHANGED vars
  BY <1>1 DEF vars
<1>2. ASSUME NEW r \in Req, Crash(r)
      PROVE  scenario' = scenario
  BY <1>2, SlotStepsKeepScenario DEF Crash
<1>3. CASE LoginNext
  <2>1. ASSUME NEW r \in Req,
               \/ \E u \in User, a \in Address : BeginRegister(r, u, a)
               \/ \E u \in User, here \in BOOLEAN : BeginLogin(r, u, here)
               \/ \E c \in Challenge : BeginResend(r, c)
               \/ \E c \in Challenge, right \in BOOLEAN, u \in User : BeginVerify(r, c, right, u)
        PROVE  scenario' = scenario
    BY <2>1, SlotStepsKeepScenario, Zenon DEF BeginRegister, BeginLogin, BeginResend, BeginVerify
  <2>2. ASSUME NEW r \in Req,
               \/ BeginAddAccount(r) \/ BeginSignOut(r) \/ BeginLogoutAll(r)
               \/ \E u \in User : BeginSwitch(r, u) \/ BeginRemoveAccount(r, u)
               \/ \E chosen \in SUBSET Session : BeginEndOwn(r, chosen)
        PROVE  scenario' = scenario
    BY <2>2, SlotStepsKeepScenario, Zenon
       DEF BeginAddAccount, BeginSignOut, BeginLogoutAll, BeginSwitch, BeginRemoveAccount, BeginEndOwn
  <2>3. ASSUME NEW r \in Req,
               \/ Register(r) \/ Supersede(r) \/ CreateChallenge(r) \/ Resend(r) \/ Miss(r) \/ Lock(r)
               \/ Consume(r) \/ VerifyAddress(r) \/ SupersedeOthers(r) \/ CreateSession(r)
        PROVE  scenario' = scenario
    BY <2>3, SlotStepsKeepScenario, Zenon
       DEF Register, Supersede, CreateChallenge, Resend, Miss, Lock, Consume, VerifyAddress,
           SupersedeOthers, CreateSession
  <2>4. ASSUME NEW r \in Req,
               \/ Attach(r) \/ AttachFails(r) \/ KeepCurrent(r) \/ SetIntent(r) \/ Switch(r)
               \/ Forget(r) \/ SignOffStored(r) \/ Repoint(r) \/ DropEmpty(r) \/ DropBox(r)
               \/ DropCookie(r) \/ SignOffAll(r) \/ EndOwn(r)
        PROVE  scenario' = scenario
    BY <2>4, SlotStepsKeepScenario, Zenon
       DEF Attach, AttachFails, KeepCurrent, SetIntent, Switch, Forget, SignOffStored, Repoint,
           DropEmpty, DropBox, DropCookie, SignOffAll, EndOwn
  <2>5. ASSUME NEW c \in Challenge, ChallengeExpires(c)
        PROVE  scenario' = scenario
    BY <2>5 DEF ChallengeExpires, Event
  <2>6. QED
    BY <1>3, <2>1, <2>2, <2>3, <2>4, <2>5 DEF LoginNext
<1>4. CASE MembersNext
  <2>1. ASSUME NEW r \in Req,
               \/ \E u \in User, a \in Address, role \in InviteRoles : BeginInvite(r, u, a, role)
               \/ \E u \in User, i \in Invite :
                    BeginRotate(r, u, i) \/ BeginRevokeInvite(r, u, i) \/ BeginAccept(r, u, i)
               \/ \E u \in User, row \in access : BeginRemoveAccess(r, u, row)
               \/ \E actor, u \in User :
                    \/ \E active \in BOOLEAN : BeginSetActive(r, actor, u, active)
                    \/ BeginRevokeSessions(r, actor, u) \/ BeginConvert(r, actor, u)
                    \/ BeginOwnerDeletion(r, actor, u)
        PROVE  scenario' = scenario
    BY <2>1, SlotStepsKeepScenario, Zenon
       DEF BeginInvite, BeginRotate, BeginRevokeInvite, BeginAccept, BeginRemoveAccess, BeginSetActive,
           BeginRevokeSessions, BeginConvert, BeginOwnerDeletion
  <2>2. ASSUME NEW r \in Req,
               \/ \E u \in User, here \in BOOLEAN : BeginDeleteSelf(r, u, here)
               \/ \E u \in User : BeginRestore(r, u)
               \/ \E u \in User, a \in Address : BeginAlternateRestore(r, u, a)
        PROVE  scenario' = scenario
    BY <2>2, SlotStepsKeepScenario, Zenon DEF BeginDeleteSelf, BeginRestore, BeginAlternateRestore
  <2>3. ASSUME NEW r \in Req,
               \/ Grant(r) \/ CreateInvite(r) \/ Rotate(r) \/ RevokeInvite(r) \/ Accept(r)
               \/ RemoveAccess(r) \/ Activate(r) \/ Deactivate(r) \/ RevokeSessions(r) \/ Recheck(r)
               \/ Convert(r) \/ MayDelete(r) \/ Restore(r)
        PROVE  scenario' = scenario
    BY <2>3, SlotStepsKeepScenario, Zenon
       DEF Grant, CreateInvite, Rotate, RevokeInvite, Accept, RemoveAccess, Activate, Deactivate,
           RevokeSessions, Recheck, Convert, MayDelete, Restore
  <2>4. ASSUME NEW r \in Req,
               FindPending(r) \/ ApplyPending(r) \/ CheckDeletion(r) \/ Tombstone(r) \/ Lookup(r)
        PROVE  scenario' = scenario
    BY <2>4, SlotStepsKeepScenario DEF FindPending, ApplyPending, CheckDeletion, Tombstone, Lookup
  <2>5. ASSUME NEW i \in Invite, InviteCools(i) \/ InviteExpires(i)
        PROVE  scenario' = scenario
    BY <2>5 DEF InviteCools, InviteExpires, Event
  <2>6. QED
    BY <1>4, <2>1, <2>2, <2>3, <2>4, <2>5 DEF MembersNext
<1>5. QED
  BY <1>1, <1>2, <1>3, <1>4 DEF Next

\* When requests do not overlap, and none crashes or fails to attach, the
\* session of the browser's other cookie, while the browser holds accounts, is
\* revoked or is one of theirs: whoever signs out of all of them is signed out.
THEOREM CookieStaysStored == Spec => []CookieIsStored
<1>1. Init => CookieInv
  BY InitSlot, InitBrowser DEF CookieInv
<1>2. CookieInv /\ [Next]_vars => CookieInv'
  <2>1. SUFFICES ASSUME CookieInv, [Next]_vars
                 PROVE  CookieInv'
    OBVIOUS
  <2>2. SlotInv'
    BY <2>1, NextKeepsSlot DEF CookieInv
  <2>3. scenario' = scenario
    BY <2>1, ScenarioStays
  <2>4. ASSUME Watched
        PROVE  BrowserIsKept'
    BY <2>1, <2>4, NextKeepsBrowser DEF CookieInv
  <2>5. Watched' => Watched
    BY <2>3 DEF Watched, Serial, OneAtATime
  <2>6. QED
    BY <2>2, <2>4, <2>5 DEF CookieInv
<1>3. CookieInv => CookieIsStored
  <2>1. SUFFICES ASSUME CookieInv, Watched, Quiet
                 PROVE  ~Adrift(device, session)
    BY DEF CookieIsStored, Watched, Adrift
  <2>2. \A r \in Req : ~Excuses(job[r], device)
    BY <2>1, IdleIsCarried DEF Quiet
  <2>3. QED
    BY <2>1, <2>2 DEF CookieInv, BrowserIsKept
<1>4. QED
  BY <1>1, <1>2, <1>3, PTL DEF Spec
=============================================================================
