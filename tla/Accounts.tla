------------------------------ MODULE Accounts ------------------------------
(***************************************************************************)
(* The accounts of a company as a whole: signing in and out, and what the  *)
(* people who manage a company do to the accounts of others, over the same *)
(* rows.  A behaviour has the handlers of one scenario.                    *)
(***************************************************************************)
EXTENDS AccountMembers

Registered(u) == u \in scenario.signed \cup scenario.fresh \/ RolesIn(scenario.access, u) # {}

Init ==
  /\ scenario \in Scenarios
  /\ user = [u \in User |-> IF ~Registered(u) THEN NoUser
                            ELSE [active |-> TRUE, deleted |-> FALSE,
                                  verified |-> u \notin scenario.fresh, address |-> AddressOf[u]]]
  /\ access = scenario.access
  /\ invite = [i \in Invite |-> NoInvite]
  /\ challenge = [c \in Challenge |-> NoChallenge]
  /\ session = [s \in Session |-> IF s \in scenario.signed THEN [NoSession EXCEPT !.user = s]
                                  ELSE NoSession]
  /\ recovery = [u \in User |-> None]
  /\ device = [cookie |-> None, box |-> FALSE, stored |-> [u \in User |-> None],
               active |-> None, intent |-> FALSE]
  /\ job = [r \in Req |-> Idle]

\* The process ends: what was written stays, and the rest is not done.
Crash(r) ==
  /\ "crash" \in scenario.calls /\ job[r] # Idle
  /\ Finish(r)
  /\ UNCHANGED rows

Next == LoginNext \/ MembersNext \/ \E r \in Req : Crash(r)

Spec == Init /\ [][Next]_vars

-----------------------------------------------------------------------------
Quiet       == \A r \in Req : job[r] = Idle
OneAtATime  == Cardinality(scenario.slots) = 1
Serial      == OneAtATime /\ "crash" \notin scenario.calls

(* A session that was opened is the outcome of a login challenge of that   *)
(* user which was consumed, and a challenge opens at most one, however     *)
(* many requests submit its code.                                          *)
LoginsAreSpent ==
  \A s, t \in NewSession :
    session[s] # NoSession =>
      /\ LET c == challenge[session[s].by] IN
         c.consumed /\ c.purpose = "login" /\ c.user = session[s].user
      /\ s # t /\ session[t] # NoSession => session[s].by # session[t].by

(* When requests do not overlap, an account that is not active has no      *)
(* session left unrevoked, so that activating or restoring it brings none  *)
(* back; and one that is deleted holds no access, no address and no code   *)
(* but the one that restores it: at every step, and wherever one crashes.  *)
LeftAccountsHoldNothing ==
  OneAtATime =>
    /\ \A s \in Session : session[s] # NoSession /\ ~session[s].revoked => user[session[s].user].active
    /\ \A u \in User : user[u].deleted =>
         /\ ~user[u].active /\ RolesIn(access, u) = {} /\ user[u].address = None
         /\ \A c \in Challenge : Live(c) /\ challenge[c].user = u =>
              challenge[c].purpose = "account_restore"

(* When requests do not overlap, the company always has an owner who is    *)
(* active and not deleted, whoever removed, deactivated, deleted or        *)
(* converted whom.                                                         *)
CompanyKeepsAnOwner == OneAtATime => Owners(access, Present) # {}

(* However requests interleave, access comes from a grant, a conversion or *)
(* an invitation at the moment it is accepted: one that was accepted,      *)
(* revoked or withdrawn gives nothing again, even after the access it gave *)
(* was taken away.                                                         *)
InvitesGrantOnce ==
  [][\A row \in access' \ access :
       \/ \E r \in Req : At(r, "grant") \/ At(r, "convert")
       \/ \E i \in Invite : /\ Pending(i) /\ invite'[i].status = "accepted"
                            /\ row[2] = invite[i].role]_vars

(* While the browser holds several accounts, the session of its other      *)
(* cookie is revoked or is one of theirs: signing out of all of them, one  *)
(* by one, leaves nobody signed in.                                        *)
CookieIsStored ==
  Serial /\ Quiet /\ "attach failure" \notin scenario.calls =>
    (device.box /\ device.cookie # None /\ ~session[device.cookie].revoked =>
       \E u \in User : device.stored[u] = device.cookie)
=============================================================================
