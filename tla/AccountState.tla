---------------------------- MODULE AccountState ----------------------------
(***************************************************************************)
(* The rows of accounts in one company: users, their access, invitations,  *)
(* one-time codes, sessions and recovery records; and one browser that may *)
(* hold several accounts (lib/account-container.ts).                       *)
(*                                                                         *)
(* A handler is a job of a request slot, as in PayrollTotals: begun with   *)
(* the guards it evaluates on what it reads, and with todo, the statements *)
(* that follow; each later action is one statement or one transaction.     *)
(*                                                                         *)
(* An address is an email; None is the tombstone of a deleted account.  A  *)
(* password is always right.  Left out, because they only refuse: the      *)
(* rate limits of logins and of codes, archived clubs, platform admins,    *)
(* the application's address.  Delivery of mail is left out as well.       *)
(***************************************************************************)
EXTENDS Integers, Sequences, FiniteSets, TLC

CONSTANTS
  Req,          \* request slots
  User,         \* accounts, registered or not
  Address,      \* email addresses
  AddressOf,    \* the address of each account that exists at the start
  Invite,       \* ids of invitations
  Challenge,    \* ids of one-time code challenges
  NewSession,   \* ids of the sessions that are created
  InviteRoles,  \* the roles people are invited with
  MaxAttempts,  \* wrong codes that a challenge survives: 5 in the code
  MaxSends,     \* sends of an invitation in 24 hours: 5 in the code
  MaxResends,   \* bound: how often a code is sent again
  Scenarios     \* which handlers and events may occur together, in how many slots, on which rows

MemberRole == {"owner", "general_director", "regional_director", "chief_accountant",
               "accountant", "manager", "marketer"}

\* An access row is <<user, role, scope>>: inside one company with one club there
\* are only two scopes.
Scope == {"company", "club"}

\* Only a manager is invited to a club.
ScopeOf(role) == IF role = "manager" THEN "club" ELSE "company"

None == "no row"

Session == User \cup NewSession

Purpose == {"login", "owner_delete", "account_restore"}

ASSUME NamesAssumption    == None \notin User /\ User \cap NewSession = {}
ASSUME AddressAssumption  == AddressOf \in [User -> Address]
ASSUME RolesAssumption    == InviteRoles \subseteq MemberRole
ASSUME AttemptsAssumption == {MaxAttempts, MaxSends} \subseteq Nat \ {0} /\ MaxResends \in Nat

\* A behaviour starts in a company with an owner, and with sessions of its users.
ASSUME ScenarioAssumption ==
  \A s \in Scenarios : /\ IsFiniteSet(s.slots) /\ s.signed \subseteq User
                       /\ \E u \in User : <<u, "owner", "company">> \in s.access

VARIABLES
  user,        \* the User rows
  access,      \* the CompanyUserAccess and ClubUserAccess rows
  invite,      \* the Invite rows
  challenge,   \* the EmailOtpChallenge rows
  session,     \* the Session rows
  recovery,    \* the address an open AccountDeletion row of each user keeps
  device,      \* one browser: its cookies, and its AccountSessionContainer
  scenario,    \* chosen at the start
  job          \* what each request slot is doing

rows == <<user, access, invite, challenge, session, recovery, device>>
vars == <<rows, scenario, job>>

NoUser      == [active |-> FALSE, deleted |-> FALSE, verified |-> FALSE, address |-> None]
NoInvite    == [status |-> "none", address |-> None, role |-> None, token |-> 0, sends |-> 0,
                recent |-> FALSE, expired |-> FALSE]
NoChallenge == [user |-> None, purpose |-> None, code |-> 0, tries |-> 0, here |-> FALSE,
                consumed |-> FALSE, revoked |-> FALSE, expired |-> FALSE]
NoSession   == [user |-> None, by |-> None, revoked |-> FALSE]

Idle == [kind |-> "none", todo |-> <<>>, by |-> None, of |-> None, on |-> None, seen |-> {},
         count |-> 0]

Job(kind, todo) == [Idle EXCEPT !.kind = kind, !.todo = todo]

-----------------------------------------------------------------------------
Begin(r, j) ==
  /\ j.kind \in scenario.calls
  /\ r \in scenario.slots /\ job[r] = Idle
  /\ job' = [job EXCEPT ![r] = j]
  /\ UNCHANGED <<rows, scenario>>

At(r, step) == job[r].todo # <<>> /\ Head(job[r].todo) = step

Rest(j) == IF Len(j.todo) = 1 THEN Idle ELSE [j EXCEPT !.todo = Tail(@)]

Set(r, j)  == job' = [job EXCEPT ![r] = j] /\ UNCHANGED scenario
Proceed(r) == Set(r, Rest(job[r]))
Finish(r)  == Set(r, Idle)

Event(e) == e \in scenario.calls /\ UNCHANGED <<scenario, job>>

-----------------------------------------------------------------------------
Active == {u \in User : user[u].active}

\* isActive and not deleted: who counts as an owner that remains.
Present == {u \in Active : ~user[u].deleted}

Held(a) == \E u \in User : user[u].address = a

\* isValid and sessionRowValid: a session stands for its user.
SessionRowValid(s) ==
  s # None /\ session[s] # NoSession /\ ~session[s].revoked /\ user[session[s].user].active

\* requireUser, for a request from somewhere.
SignedIn(u) == \E s \in Session : session[s].user = u /\ SessionRowValid(s)

Live(c) == challenge[c] # NoChallenge /\ ~challenge[c].consumed /\ ~challenge[c].revoked

CodesOf(u) == {c \in Challenge : challenge[c].user = u}

\* Revoke the challenges that are chosen and live.
Superseded(chosen) ==
  [c \in Challenge |-> IF c \in chosen /\ Live(c) THEN [challenge[c] EXCEPT !.revoked = TRUE]
                       ELSE challenge[c]]

\* Revoke the sessions that are chosen and exist.
Revoked(chosen) ==
  [s \in Session |-> IF s \in chosen /\ session[s] # NoSession
                     THEN [session[s] EXCEPT !.revoked = TRUE] ELSE session[s]]

SessionsOf(u) == {s \in Session : session[s].user = u}

RevokeAllSessionsForUser(u) == Revoked(SessionsOf(u))

-----------------------------------------------------------------------------
(* Who may do what to whom, by the access rows (lib/access.ts,             *)
(* lib/employee-roles.ts, lib/account-deletion.ts).                        *)

RolesIn(granted, u) == {row[2] : row \in {x \in granted : x[1] = u}}

Satisfies(held, required) ==
  \/ held = required
  \/ held = "regional_director" /\ required = "manager"
  \/ held = "chief_accountant" /\ required = "accountant"

HasCompanyRole(granted, u, roles) ==
  \E row \in granted : row[1] = u /\ row[3] = "company" /\ \E role \in roles : Satisfies(row[2], role)

CanManageCompanyUsers(granted, u) == HasCompanyRole(granted, u, {"owner", "general_director"})

CanManageClubUsers(granted, u) ==
  \E held \in RolesIn(granted, u), role \in {"owner", "general_director", "regional_director"} :
    Satisfies(held, role)

GetInvitableRoles(granted, u) ==
  LET roles == RolesIn(granted, u) IN
       (IF "owner" \in roles THEN {"owner", "chief_accountant"} ELSE {})
  \cup (IF "owner" \in roles /\ ~\E row \in granted : row[2] = "general_director" /\ row[3] = "company"
        THEN {"general_director"} ELSE {})
  \cup (IF "general_director" \in roles
        THEN {"regional_director", "chief_accountant", "accountant", "manager", "marketer"} ELSE {})
  \cup (IF "regional_director" \in roles THEN {"manager"} ELSE {})

Owners(granted, among) == {u \in among : <<u, "owner", "company">> \in granted}

IsLastActiveOwner(granted, active, u) == Owners(granted, active) = {u}

\* A regional director of the whole company has no club row, and manages no one.
AssertCanManageUser(granted, actor, u) ==
  LET held == RolesIn(granted, u) IN
  /\ actor # u
  /\ held # {}
  /\ \/ HasCompanyRole(granted, actor, {"owner"})
     \/ /\ HasCompanyRole(granted, actor, {"general_director"})
        /\ held \cap {"owner", "general_director"} = {}
     \/ /\ ~CanManageCompanyUsers(granted, actor)
        /\ <<actor, "regional_director", "club">> \in granted
        /\ held = {"manager"} /\ <<u, "manager", "club">> \in granted

\* May actor take this access row away?
MayRemove(granted, active, actor, row) ==
  /\ row[1] # actor
  /\ IF row[3] = "club" THEN CanManageClubUsers(granted, actor)
     ELSE /\ CanManageCompanyUsers(granted, actor)
          /\ row[2] \in {"owner", "general_director"} => HasCompanyRole(granted, actor, {"owner"})
          /\ row[2] = "owner" => ~IsLastActiveOwner(granted, active, row[1])

ClassifyRoleShape(roles) ==
  CASE roles = {} -> "none"
    [] roles \cap {"owner", "general_director", "accountant", "chief_accountant"} # {} -> "other"
    [] {"manager", "regional_director"} \subseteq roles -> "mixed"
    [] "regional_director" \in roles -> "regional"
    [] "manager" \in roles -> "manager"
    [] OTHER -> "other"

\* Mutant: an owner may always leave.
SoleOwnerBlocks_Never(granted, active, u) == FALSE

\* The company would be left without an owner.
SoleOwnerBlocks(granted, active, u) ==
  <<u, "owner", "company">> \in granted /\ Owners(granted, active \ {u}) = {}

CheckOwnerDeletionEligibility(granted, active, actor, u) ==
  /\ actor # u
  /\ <<actor, "owner", "company">> \in granted
  /\ RolesIn(granted, u) # {}
  /\ ~SoleOwnerBlocks(granted, active, u)
=============================================================================
