---------------------------- MODULE AccountLogin ----------------------------
(***************************************************************************)
(* Signing in and out: registration, the code that completes a login       *)
(* (lib/login-challenge.ts), the codes of sensitive actions                *)
(* (lib/action-challenge.ts), sessions (lib/session.ts), and the browser   *)
(* with several accounts (lib/account-container.ts).                       *)
(***************************************************************************)
EXTENDS AccountState

-----------------------------------------------------------------------------
(* registerAction, loginAction, startActionChallenge.  here: the request   *)
(* comes from the browser that is modelled.                                *)

BeginRegister(r, u, a) ==
  /\ user[u] = NoUser /\ ~Held(a)
  /\ Begin(r, [Job("register", <<"register", "supersede", "challenge">>)
               EXCEPT !.of = u, !.on = a, !.by = "login"])

\* The address is unique: the second of two registrations fails.
Register(r) ==
  /\ At(r, "register")
  /\ IF Held(job[r].on) \/ user[job[r].of] # NoUser THEN Finish(r) /\ UNCHANGED rows
     ELSE /\ user' = [user EXCEPT ![job[r].of] = [NoUser EXCEPT !.active = TRUE, !.address = job[r].on]]
          /\ Proceed(r)
          /\ UNCHANGED <<access, invite, challenge, session, recovery, device>>

BeginLogin(r, u, here) ==
  /\ here \in scenario.from
  /\ user[u].active /\ ~user[u].deleted   \* a deleted account has no password
  /\ Begin(r, [Job("login", <<"supersede", "challenge">>) EXCEPT !.of = u, !.by = "login",
               !.count = IF here THEN 1 ELSE 0])

\* by: the purpose of the code.
Supersede(r) ==
  /\ At(r, "supersede")
  /\ challenge' = Superseded({c \in CodesOf(job[r].of) : challenge[c].purpose = job[r].by})
  /\ Proceed(r)
  /\ UNCHANGED <<user, access, invite, session, recovery, device>>

CreateChallenge(r) ==
  /\ At(r, "challenge")
  /\ Cardinality({c \in Challenge : challenge[c] # NoChallenge}) < scenario.codes
  /\ \E c \in {x \in Challenge : challenge[x] = NoChallenge} :
       challenge' = [challenge EXCEPT ![c] = [NoChallenge EXCEPT
                       !.user = job[r].of, !.purpose = job[r].by, !.code = 1, !.here = job[r].count = 1]]
  /\ Proceed(r)
  /\ UNCHANGED <<user, access, invite, session, recovery, device>>

-----------------------------------------------------------------------------
(* getCurrentChallenge and getActionChallenge, then resendCurrentChallenge *)
(* and the first half of verifying.                                        *)

Usable(c) ==
  /\ Live(c) /\ ~challenge[c].expired
  /\ challenge[c].purpose = "login" => user[challenge[c].user].active

BeginResend(r, c) ==
  /\ Usable(c) /\ challenge[c].purpose = "login" /\ challenge[c].code <= MaxResends
  /\ Begin(r, [Job("resend", <<"resend">>) EXCEPT !.on = c])

Resend(r) ==
  /\ At(r, "resend")
  /\ challenge' = [challenge EXCEPT ![job[r].on].code = @ + 1, ![job[r].on].expired = FALSE]
  /\ Proceed(r)
  /\ UNCHANGED <<user, access, invite, session, recovery, device>>

\* What follows the right code, by the purpose of the challenge.
FirstLogin == <<"consume", "verified", "pending", "invites", "others", "session", "attach">>
NextLogin  == <<"consume", "others", "session", "attach">>

AfterCode(c) ==
  CASE challenge[c].purpose = "owner_delete"    -> <<"consume", "may delete", "check", "tombstone">>
    [] challenge[c].purpose = "account_restore" -> <<"consume", "lookup", "restore">>
    [] OTHER -> IF user[challenge[c].user].verified THEN NextLogin ELSE FirstLogin

\* The code that is entered is the one last sent, or a wrong one.  of: whom
\* the form names: the account to delete, or that of the recovery link.
BeginVerify(r, c, right, u) ==
  /\ Usable(c)
  /\ challenge[c].purpose = "owner_delete" => SignedIn(challenge[c].user)
  /\ challenge[c].purpose = "login" => u = challenge[c].user
  /\ right \/ "wrong code" \in scenario.calls
  /\ Begin(r, [Job("verify", IF challenge[c].tries >= MaxAttempts THEN <<"lock">>
                             ELSE IF right THEN AfterCode(c) ELSE <<"miss">>)
               EXCEPT !.on = c, !.of = u, !.by = challenge[c].user, !.seen = {user[u].address}])

Miss(r) ==
  /\ At(r, "miss")
  /\ challenge' = [challenge EXCEPT ![job[r].on].tries = @ + 1]
  /\ Set(r, IF challenge'[job[r].on].tries >= MaxAttempts THEN [job[r] EXCEPT !.todo = <<"lock">>]
            ELSE Idle)
  /\ UNCHANGED <<user, access, invite, session, recovery, device>>

Lock(r) ==
  /\ At(r, "lock")
  /\ challenge' = [challenge EXCEPT ![job[r].on].revoked = TRUE]
  /\ Finish(r)
  /\ UNCHANGED <<user, access, invite, session, recovery, device>>

-----------------------------------------------------------------------------
(* verifyCurrentChallenge, once the code is right.                         *)

\* Mutant: the challenge is consumed without looking at what it is now.
Unconsumed_Any(c) == TRUE

Unconsumed(c) == Live(c)

Consume(r) ==
  /\ At(r, "consume")
  /\ IF Unconsumed(job[r].on)
     THEN challenge' = [challenge EXCEPT ![job[r].on].consumed = TRUE] /\ Proceed(r)
     ELSE Finish(r) /\ UNCHANGED challenge
  /\ UNCHANGED <<user, access, invite, session, recovery, device>>

\* updateMany where emailVerifiedAt is null.
VerifyAddress(r) ==
  /\ At(r, "verified")
  /\ user' = [user EXCEPT ![job[r].of].verified = TRUE]
  /\ Proceed(r)
  /\ UNCHANGED <<access, invite, challenge, session, recovery, device>>

SupersedeOthers(r) ==
  /\ At(r, "others")
  /\ challenge' = Superseded(CodesOf(job[r].of))
  /\ Proceed(r)
  /\ UNCHANGED <<user, access, invite, session, recovery, device>>

\* createSession looks at nothing; the cookie goes to the browser that asked.
CreateSession(r) ==
  /\ At(r, "session")
  /\ \E s \in {x \in NewSession : session[x] = NoSession} :
       /\ session' = [session EXCEPT ![s] = [NoSession EXCEPT !.user = job[r].of, !.by = job[r].on]]
       /\ IF challenge[job[r].on].here
          THEN /\ device' = [device EXCEPT !.cookie = s]
               /\ Set(r, [Rest(job[r]) EXCEPT !.on = s])
          ELSE Finish(r) /\ UNCHANGED device
  /\ UNCHANGED <<user, access, invite, challenge, recovery>>

\* Mutant: the account is made the active one without its session.
Attached_Active(u, s) == [device EXCEPT !.box = TRUE, !.active = u]

\* attachSessionToContainerRecord.
Attached(u, s) == [device EXCEPT !.box = TRUE, !.stored[u] = s, !.active = u]

\* completeLoginAttach: the intent makes a container, else one must exist.
LoginAttached(u, s) ==
  IF device.intent \/ device.box THEN [Attached(u, s) EXCEPT !.intent = FALSE] ELSE device

Attach(r) ==
  /\ At(r, "attach")
  /\ device' = LoginAttached(job[r].of, job[r].on)
  /\ Finish(r)
  /\ UNCHANGED <<user, access, invite, challenge, session, recovery>>

\* An error while attaching is swallowed: the session stands.
AttachFails(r) ==
  /\ "attach failure" \in scenario.calls
  /\ At(r, "attach")
  /\ Finish(r)
  /\ UNCHANGED rows

-----------------------------------------------------------------------------
(* The session of a request from the browser: getValidSession.             *)

CurrentSession ==
  IF device.box
  THEN IF device.active # None /\ SessionRowValid(device.stored[device.active])
       THEN device.stored[device.active] ELSE None
  ELSE IF SessionRowValid(device.cookie) THEN device.cookie ELSE None

BeginAddAccount(r) ==
  /\ CurrentSession # None
  /\ Begin(r, [Job("add", <<"keep", "intent">>) EXCEPT !.on = CurrentSession,
               !.of = session[CurrentSession].user])

KeepCurrent(r) ==
  /\ At(r, "keep")
  /\ device' = Attached(job[r].of, job[r].on)
  /\ Proceed(r)
  /\ UNCHANGED <<user, access, invite, challenge, session, recovery>>

SetIntent(r) ==
  /\ At(r, "intent")
  /\ device' = [device EXCEPT !.intent = TRUE]
  /\ Proceed(r)
  /\ UNCHANGED <<user, access, invite, challenge, session, recovery>>

\* switchAccount: the account must still be signed in.
BeginSwitch(r, u) ==
  /\ device.box /\ SessionRowValid(device.stored[u])
  /\ Begin(r, [Job("switch", <<"switch">>) EXCEPT !.of = u])

Switch(r) ==
  /\ At(r, "switch")
  /\ device' = [device EXCEPT !.active = job[r].of]
  /\ Proceed(r)
  /\ UNCHANGED <<user, access, invite, challenge, session, recovery>>

-----------------------------------------------------------------------------
(* Leaving: removeStoredAccountRecord, revokeCurrentSession, signOut,      *)
(* logoutAllAction and the revocations of one's own sessions.              *)

Removing == <<"forget", "sign off", "repoint", "empty">>

BeginRemoveAccount(r, u) ==
  /\ device.box /\ device.stored[u] # None
  /\ Begin(r, [Job("remove", Removing) EXCEPT !.of = u, !.on = device.stored[u]])

\* revokeCurrentSession: the container governs; without an active account it
\* is only dropped.
LeaveSteps ==
  IF ~device.box THEN <<"drop cookie">> ELSE IF device.active = None THEN <<"drop box">> ELSE Removing

BeginSignOut(r) ==
  Begin(r, [Job("sign out", LeaveSteps) EXCEPT !.of = device.active,
            !.on = IF device.box /\ device.active # None THEN device.stored[device.active] ELSE None])

Forget(r) ==
  /\ At(r, "forget")
  /\ device' = [device EXCEPT !.stored[job[r].of] = None]
  /\ Proceed(r)
  /\ UNCHANGED <<user, access, invite, challenge, session, recovery>>

SignOffStored(r) ==
  /\ At(r, "sign off")
  /\ session' = Revoked({job[r].on})
  /\ Proceed(r)
  /\ UNCHANGED <<user, access, invite, challenge, recovery, device>>

Stored == {u \in User : device.stored[u] # None}

\* Which account was used last is left open.
Repoint(r) ==
  /\ At(r, "repoint")
  /\ \/ /\ device.active = job[r].of
        /\ IF Stored = {} THEN device' = [device EXCEPT !.active = None]
           ELSE \E u \in Stored : device' = [device EXCEPT !.active = u]
     \/ device.active # job[r].of /\ UNCHANGED device
  /\ Proceed(r)
  /\ UNCHANGED <<user, access, invite, challenge, session, recovery>>

NoBox == [device EXCEPT !.box = FALSE, !.stored = [u \in User |-> None], !.active = None]

\* The container is revoked when no account remains in it.
DropEmpty(r) ==
  /\ At(r, "empty")
  /\ device' = IF Stored = {} THEN NoBox ELSE device
  /\ Proceed(r)
  /\ UNCHANGED <<user, access, invite, challenge, session, recovery>>

DropBox(r) ==
  /\ At(r, "drop box")
  /\ device' = NoBox
  /\ Proceed(r)
  /\ UNCHANGED <<user, access, invite, challenge, session, recovery>>

DropCookie(r) ==
  /\ At(r, "drop cookie")
  /\ session' = Revoked({device.cookie})
  /\ device' = [device EXCEPT !.cookie = None]
  /\ Proceed(r)
  /\ UNCHANGED <<user, access, invite, challenge, recovery>>

BeginLogoutAll(r) == Begin(r, Job("log out all", <<"sign off all", "drop box", "drop cookie">>))

SignOffAll(r) ==
  /\ At(r, "sign off all")
  /\ session' = IF device.box THEN Revoked({device.stored[u] : u \in Stored}) ELSE session
  /\ Proceed(r)
  /\ UNCHANGED <<user, access, invite, challenge, recovery, device>>

\* endOwnSession of another session, endOtherOwnSessions, endAllOwnSessions.
BeginEndOwn(r, chosen) ==
  /\ CurrentSession # None
  /\ LET mine == SessionsOf(session[CurrentSession].user)
         all  == chosen = mine
     IN  /\ chosen \subseteq mine
         /\ \/ all \/ chosen = mine \ {CurrentSession}
            \/ \E s \in mine \ {CurrentSession} : chosen = {s}
         /\ Begin(r, [Job("end own", IF all THEN <<"end">> \o LeaveSteps ELSE <<"end">>)
                      EXCEPT !.seen = chosen, !.of = device.active,
                      !.on = IF device.box /\ device.active # None
                             THEN device.stored[device.active] ELSE None])

EndOwn(r) ==
  /\ At(r, "end")
  /\ session' = Revoked(job[r].seen)
  /\ Proceed(r)
  /\ UNCHANGED <<user, access, invite, challenge, recovery, device>>

-----------------------------------------------------------------------------
\* A code is not entered within ten minutes.
ChallengeExpires(c) ==
  /\ Event("challenge expires")
  /\ Live(c) /\ ~challenge[c].expired
  /\ challenge' = [challenge EXCEPT ![c].expired = TRUE]
  /\ UNCHANGED <<user, access, invite, session, recovery, device>>

LoginNext ==
  \/ \E r \in Req :
       \/ \E u \in User, a \in Address : BeginRegister(r, u, a)
       \/ \E u \in User, here \in BOOLEAN : BeginLogin(r, u, here)
       \/ \E c \in Challenge : BeginResend(r, c)
       \/ \E c \in Challenge, right \in BOOLEAN, u \in User : BeginVerify(r, c, right, u)
       \/ BeginAddAccount(r) \/ BeginSignOut(r) \/ BeginLogoutAll(r)
       \/ \E u \in User : BeginSwitch(r, u) \/ BeginRemoveAccount(r, u)
       \/ \E chosen \in SUBSET Session : BeginEndOwn(r, chosen)
       \/ Register(r) \/ Supersede(r) \/ CreateChallenge(r) \/ Resend(r) \/ Miss(r) \/ Lock(r)
       \/ Consume(r) \/ VerifyAddress(r) \/ SupersedeOthers(r) \/ CreateSession(r)
       \/ Attach(r) \/ AttachFails(r) \/ KeepCurrent(r) \/ SetIntent(r) \/ Switch(r)
       \/ Forget(r) \/ SignOffStored(r) \/ Repoint(r) \/ DropEmpty(r) \/ DropBox(r) \/ DropCookie(r)
       \/ SignOffAll(r) \/ EndOwn(r)
  \/ \E c \in Challenge : ChallengeExpires(c)
=============================================================================
