--------------------------- MODULE AccountMembers ---------------------------
(***************************************************************************)
(* The people of a company: invitations (app/(app)/users/actions.ts,       *)
(* lib/invite-service.ts), taking access away, conversions between manager *)
(* and regional director (app/(app)/users/role-actions.ts), deactivation,  *)
(* deletion (lib/account-deletion.ts) and restoration                      *)
(* (lib/account-restore.ts).                                               *)
(***************************************************************************)
EXTENDS AccountLogin

-----------------------------------------------------------------------------
(* createInvite: an account that has verified the address is given access  *)
(* at once, any other address an invitation.                               *)

Pending(i) == invite[i].status = "pending"

CanBeGranted(u) == u \in Present /\ user[u].verified

BeginInvite(r, actor, a, role) ==
  /\ SignedIn(actor) /\ role \in GetInvitableRoles(access, actor)
  /\ ScopeOf(role) = "club" => CanManageClubUsers(access, actor)
  /\ \A u \in User : user[u].address = a => <<u, role, ScopeOf(role)>> \notin access
  /\ \/ \E u \in User :
          /\ user[u].address = a /\ CanBeGranted(u)
          /\ Begin(r, [Job("invite", <<"grant">>) EXCEPT !.of = u, !.on = role])
     \/ /\ ~\E u \in User : user[u].address = a /\ CanBeGranted(u)
        /\ ~\E i \in Invite : /\ Pending(i) /\ ~invite[i].expired
                              /\ invite[i].address = a /\ invite[i].role = role
        /\ Begin(r, [Job("invite", <<"invite">>) EXCEPT !.of = a, !.on = role])

\* grantDirectAccess: an upsert, whatever has become of the account.
Grant(r) ==
  /\ At(r, "grant")
  /\ access' = access \cup {<<job[r].of, job[r].on, ScopeOf(job[r].on)>>}
  /\ Proceed(r)
  /\ UNCHANGED <<user, invite, challenge, session, recovery, device>>

CreateInvite(r) ==
  /\ At(r, "invite")
  /\ \E i \in {x \in Invite : invite[x] = NoInvite} :
       invite' = [invite EXCEPT ![i] = [status |-> "pending", address |-> job[r].of, role |-> job[r].on,
                                        token |-> 1, sends |-> 1, recent |-> TRUE, expired |-> FALSE]]
  /\ Proceed(r)
  /\ UNCHANGED <<user, access, challenge, session, recovery, device>>

-----------------------------------------------------------------------------
(* resendInvite and regenerateInviteLink (rotateInviteToken), revokeInvite.*)

CanManageInvite(actor, i) ==
  IF ScopeOf(invite[i].role) = "club" THEN CanManageClubUsers(access, actor)
                                      ELSE CanManageCompanyUsers(access, actor)

\* evaluateSendGate: a minute since the last send, and not too many in a day.
BeginRotate(r, actor, i) ==
  /\ SignedIn(actor) /\ Pending(i) /\ CanManageInvite(actor, i)
  /\ ~invite[i].recent /\ invite[i].sends < MaxSends
  /\ Begin(r, [Job("rotate", <<"rotate">>) EXCEPT !.on = i, !.count = invite[i].sends])

\* lastSentAt and sendCountInWindow are those the gate was given: a send since
\* has changed the first, and the end of the window does not change them.
AsRead(r) == Pending(job[r].on) /\ ~invite[job[r].on].recent /\ invite[job[r].on].sends = job[r].count

Rotate(r) ==
  /\ At(r, "rotate")
  /\ invite' = IF AsRead(r)
               THEN [invite EXCEPT ![job[r].on].token = @ + 1, ![job[r].on].sends = job[r].count + 1,
                                   ![job[r].on].recent = TRUE, ![job[r].on].expired = FALSE]
               ELSE invite
  /\ Proceed(r)
  /\ UNCHANGED <<user, access, challenge, session, recovery, device>>

BeginRevokeInvite(r, actor, i) ==
  /\ SignedIn(actor) /\ Pending(i) /\ CanManageInvite(actor, i)
  /\ Begin(r, [Job("revoke", <<"revoke">>) EXCEPT !.on = i])

RevokeInvite(r) ==
  /\ At(r, "revoke")
  /\ invite' = IF Pending(job[r].on) THEN [invite EXCEPT ![job[r].on].status = "revoked"] ELSE invite
  /\ Proceed(r)
  /\ UNCHANGED <<user, access, challenge, session, recovery, device>>

InviteCools(i) ==
  /\ Event("minute") /\ Pending(i) /\ invite[i].recent
  /\ invite' = [invite EXCEPT ![i].recent = FALSE]
  /\ UNCHANGED <<user, access, challenge, session, recovery, device>>

InviteExpires(i) ==
  /\ Event("invite expires") /\ Pending(i) /\ ~invite[i].expired
  /\ invite' = [invite EXCEPT ![i].expired = TRUE]
  /\ UNCHANGED <<user, access, challenge, session, recovery, device>>

-----------------------------------------------------------------------------
(* applyInvite: by the page of the invitation, or for every invitation of  *)
(* an address that has just been verified.                                 *)

Applicable(i, addresses) == Pending(i) /\ ~invite[i].expired /\ invite[i].address \in addresses

BeginAccept(r, u, i) ==
  /\ SignedIn(u) /\ u \in Present /\ Applicable(i, {user[u].address})
  /\ Begin(r, [Job("accept", <<"accept">>) EXCEPT !.of = u, !.on = i])

\* Mutant: the invitation is taken as it was read.
StillPending_Read(i) == invite[i] # NoInvite

StillPending(i) == Pending(i) /\ ~invite[i].expired

Accepted(u, i) ==
  IF StillPending(i)
  THEN /\ invite' = [invite EXCEPT ![i].status = "accepted"]
       /\ access' = access \cup {<<u, invite[i].role, ScopeOf(invite[i].role)>>}
       /\ user' = [user EXCEPT ![u].verified = TRUE]
  ELSE UNCHANGED <<invite, access, user>>

Accept(r) ==
  /\ At(r, "accept")
  /\ Accepted(job[r].of, job[r].on)
  /\ Proceed(r)
  /\ UNCHANGED <<challenge, session, recovery, device>>

FindPending(r) ==
  /\ At(r, "pending")
  /\ Set(r, [Rest(job[r]) EXCEPT !.seen = {i \in Invite : Applicable(i, job[r].seen)}])
  /\ UNCHANGED rows

\* One after the other, in the order they were made, which is left open.  The
\* user is read before each; as elsewhere, this refusal ends the one only.
ApplyPending(r) ==
  /\ At(r, "invites")
  /\ \/ /\ job[r].seen = {} /\ Proceed(r) /\ UNCHANGED rows
     \/ \E i \in job[r].seen :
          /\ IF job[r].of \in Present THEN Accepted(job[r].of, i) ELSE UNCHANGED <<invite, access, user>>
          /\ Set(r, [job[r] EXCEPT !.seen = @ \ {i}])
          /\ UNCHANGED <<challenge, session, recovery, device>>

-----------------------------------------------------------------------------
(* removeAccess, adminSetUserActive, adminRevokeUserSessions.              *)

BeginRemoveAccess(r, actor, row) ==
  /\ SignedIn(actor) /\ row \in access /\ MayRemove(access, Active, actor, row)
  /\ Begin(r, [Job("remove access", <<"remove access">>) EXCEPT !.of = row[1], !.on = row])

\* Deleting a row that is gone fails the transaction.
RemoveAccess(r) ==
  /\ At(r, "remove access")
  /\ IF job[r].on \in access
     THEN /\ access' = access \ {job[r].on}
          /\ session' = RevokeAllSessionsForUser(job[r].of)
     ELSE UNCHANGED <<access, session>>
  /\ Proceed(r)
  /\ UNCHANGED <<user, invite, challenge, recovery, device>>

BeginSetActive(r, actor, u, active) ==
  /\ SignedIn(actor) /\ AssertCanManageUser(access, actor, u)
  /\ active \/ ~IsLastActiveOwner(access, Active, u)
  /\ Begin(r, [Job("set active", IF active THEN <<"activate">> ELSE <<"deactivate">>) EXCEPT !.of = u])

Activate(r) ==
  /\ At(r, "activate")
  /\ user' = [user EXCEPT ![job[r].of].active = TRUE]
  /\ Proceed(r)
  /\ UNCHANGED <<access, invite, challenge, session, recovery, device>>

\* Mutant: an account is deactivated without its sessions.
SessionsLeft_All(u) == session

SessionsLeft(u) == RevokeAllSessionsForUser(u)

Deactivate(r) ==
  /\ At(r, "deactivate")
  /\ user' = [user EXCEPT ![job[r].of].active = FALSE]
  /\ session' = SessionsLeft(job[r].of)
  /\ Proceed(r)
  /\ UNCHANGED <<access, invite, challenge, recovery, device>>

BeginRevokeSessions(r, actor, u) ==
  /\ SignedIn(actor) /\ AssertCanManageUser(access, actor, u)
  /\ Begin(r, [Job("revoke sessions", <<"revoke sessions">>) EXCEPT !.of = u])

RevokeSessions(r) ==
  /\ At(r, "revoke sessions")
  /\ session' = RevokeAllSessionsForUser(job[r].of)
  /\ Proceed(r)
  /\ UNCHANGED <<user, access, invite, challenge, recovery, device>>

-----------------------------------------------------------------------------
(* promoteToRegional and demoteToManager, on the one club.                 *)

Counterpart == [manager |-> "regional_director", regional |-> "manager"]
HeldAs      == [manager |-> "manager", regional |-> "regional_director"]

Shape(u) == ClassifyRoleShape(RolesIn(access, u))

BeginConvert(r, actor, u) ==
  /\ SignedIn(actor) /\ HasCompanyRole(access, actor, {"general_director"})
  /\ u # actor /\ u \in Present /\ Shape(u) \in DOMAIN Counterpart
  /\ Begin(r, [Job("convert", <<"recheck", "convert">>) EXCEPT !.of = u, !.on = Shape(u)])

Recheck(r) ==
  /\ At(r, "recheck")
  /\ IF Shape(job[r].of) = job[r].on THEN Proceed(r) ELSE Finish(r)
  /\ UNCHANGED rows

Converted(u, shape) ==
  (access \ {<<u, HeldAs[shape], s>> : s \in Scope}) \cup {<<u, Counterpart[shape], "club">>}

\* The new row is unique: it is there when another conversion was first.
Convert(r) ==
  /\ At(r, "convert")
  /\ access' = IF <<job[r].of, Counterpart[job[r].on], "club">> \in access THEN access
               ELSE Converted(job[r].of, job[r].on)
  /\ Proceed(r)
  /\ UNCHANGED <<user, invite, challenge, session, recovery, device>>

-----------------------------------------------------------------------------
(* deleteCurrentAccount; startOwnerDeletion and confirmOwnerDeletion;      *)
(* finalizeDeletion.                                                       *)

\* here: from the browser that is modelled, whose session is then left.
BeginDeleteSelf(r, u, here) ==
  /\ SignedIn(u) /\ u \in Present /\ ~SoleOwnerBlocks(access, Present, u)
  /\ here => CurrentSession # None /\ session[CurrentSession].user = u
  /\ Begin(r, [Job("delete", <<"check", "tombstone">> \o IF here THEN LeaveSteps ELSE <<>>)
               EXCEPT !.of = u])

BeginOwnerDeletion(r, actor, u) ==
  /\ SignedIn(actor) /\ ~user[u].deleted
  /\ CheckOwnerDeletionEligibility(access, Present, actor, u)
  /\ Begin(r, [Job("owner deletion", <<"supersede", "challenge">>) EXCEPT !.of = actor,
               !.by = "owner_delete"])

\* With the code verified, before the transaction.
MayDelete(r) ==
  /\ At(r, "may delete")
  /\ IF /\ ~user[job[r].of].deleted
        /\ CheckOwnerDeletionEligibility(access, Present, job[r].by, job[r].of)
     THEN Proceed(r) ELSE Finish(r)
  /\ UNCHANGED rows

\* The transaction of finalizeDeletion reads first: of: the account.
CheckDeletion(r) ==
  /\ At(r, "check")
  /\ IF user[job[r].of] = NoUser \/ user[job[r].of].deleted \/ SoleOwnerBlocks(access, Present, job[r].of)
     THEN Finish(r) ELSE Set(r, [Rest(job[r]) EXCEPT !.on = user[job[r].of].address])
  /\ UNCHANGED rows

AccessOf(u) == {row \in access : row[1] = u}

\* ... then writes: only the first of two writes.
Tombstone(r) ==
  /\ At(r, "tombstone")
  /\ LET u == job[r].of IN
     IF user[u].deleted THEN Finish(r) /\ UNCHANGED rows
     ELSE /\ user' = [user EXCEPT ![u] = [NoUser EXCEPT !.deleted = TRUE]]
          /\ access' = access \ AccessOf(u)
          /\ session' = RevokeAllSessionsForUser(u)
          /\ challenge' = Superseded(CodesOf(u))
          /\ invite' = [i \in Invite |-> IF invite[i].address = job[r].on /\ invite[i].status # "accepted"
                                         THEN NoInvite ELSE invite[i]]
          /\ recovery' = [recovery EXCEPT ![u] = job[r].on]
          /\ Set(r, Rest([job[r] EXCEPT !.on = device.stored[u]]))
          /\ UNCHANGED device

-----------------------------------------------------------------------------
(* startRestore, confirmRestore, systemAdminAlternateRestore.              *)

\* lookupByRecoveryToken: the address must not be another account's by now.
Restorable(u) == recovery[u] # None /\ user[u].deleted /\ ~Held(recovery[u])

BeginRestore(r, u) ==
  /\ Restorable(u)
  /\ Begin(r, [Job("restore", <<"supersede", "challenge">>) EXCEPT !.of = u, !.by = "account_restore"])

Lookup(r) ==
  /\ At(r, "lookup")
  /\ IF Restorable(job[r].of) THEN Set(r, [Rest(job[r]) EXCEPT !.on = recovery[job[r].of]]) ELSE Finish(r)
  /\ UNCHANGED rows

\* A platform admin restores the account under another address.
BeginAlternateRestore(r, u, a) ==
  /\ recovery[u] # None
  /\ Begin(r, [Job("alternate restore", <<"restore">>) EXCEPT !.of = u, !.on = a])

\* The conditional update and the unique address decide.
Restore(r) ==
  /\ At(r, "restore")
  /\ LET u == job[r].of IN
     IF user[u].deleted /\ recovery[u] # None /\ ~Held(job[r].on)
     THEN /\ user' = [user EXCEPT ![u] = [active |-> TRUE, deleted |-> FALSE, verified |-> TRUE,
                                          address |-> job[r].on]]
          /\ recovery' = [recovery EXCEPT ![u] = None]
          /\ challenge' = Superseded(CodesOf(u))
          /\ UNCHANGED <<access, invite, session, device>>
     ELSE UNCHANGED rows
  /\ Proceed(r)

-----------------------------------------------------------------------------
MembersNext ==
  \/ \E r \in Req :
       \/ \E u \in User, a \in Address, role \in InviteRoles : BeginInvite(r, u, a, role)
       \/ \E u \in User, i \in Invite :
            BeginRotate(r, u, i) \/ BeginRevokeInvite(r, u, i) \/ BeginAccept(r, u, i)
       \/ \E u \in User, row \in access : BeginRemoveAccess(r, u, row)
       \/ \E actor, u \in User :
            \/ \E active \in BOOLEAN : BeginSetActive(r, actor, u, active)
            \/ BeginRevokeSessions(r, actor, u) \/ BeginConvert(r, actor, u)
            \/ BeginOwnerDeletion(r, actor, u)
       \/ \E u \in User, here \in BOOLEAN : BeginDeleteSelf(r, u, here)
       \/ \E u \in User : BeginRestore(r, u)
       \/ \E u \in User, a \in Address : BeginAlternateRestore(r, u, a)
       \/ Grant(r) \/ CreateInvite(r) \/ Rotate(r) \/ RevokeInvite(r) \/ Accept(r)
       \/ FindPending(r) \/ ApplyPending(r) \/ RemoveAccess(r) \/ Activate(r) \/ Deactivate(r)
       \/ RevokeSessions(r) \/ Recheck(r) \/ Convert(r) \/ MayDelete(r) \/ CheckDeletion(r)
       \/ Tombstone(r) \/ Lookup(r) \/ Restore(r)
  \/ \E i \in Invite : InviteCools(i) \/ InviteExpires(i)
=============================================================================
