----------------------------- MODULE MCAccounts -----------------------------
(***************************************************************************)
(* Small instances of Accounts for TLC.                                    *)
(***************************************************************************)
EXTENDS Accounts

CONSTANTS r1, r2, olga, oleg, mila, c1, c2, c3, s1, s2, s3, i1, i2

MCReq        == {r1, r2}
MCUser       == {olga, oleg, mila}
MCAddress    == {"olga@", "oleg@", "mila@"}
MCAddressOf  == (olga :> "olga@") @@ (oleg :> "oleg@") @@ (mila :> "mila@")
MCChallenge  == {c1, c2, c3}
MCNewSession == {s1, s2, s3}
MCInvite     == {i1, i2}
MCInviteRoles == {"manager", "general_director"}

Symmetric == Permutations({c1, c2, c3}) \cup Permutations({s1, s2, s3}) \cup Permutations({i1, i2})

Two   == {<<olga, "owner", "company">>, <<oleg, "owner", "company">>}
Staff == {<<olga, "owner", "company">>, <<oleg, "general_director", "company">>,
          <<mila, "manager", "club">>}

Of(calls, slots, codes) ==
  [calls |-> calls, slots |-> slots, codes |-> codes, from |-> {FALSE},
   access |-> Two, signed |-> {}, fresh |-> {}]

\* One request at a time: deactivation, deletion and restoration of accounts.
Lifecycle == [Of({"login", "verify", "set active", "revoke sessions", "delete", "owner deletion",
                  "restore", "crash"}, {r1}, 3)
              EXCEPT !.signed = {olga, oleg}]

\* One request at a time: restored under another address, or too late under its own.
Addresses == [Of({"register", "verify", "delete", "restore", "alternate restore",
                  "challenge expires", "wrong code"}, {r1}, 2)
              EXCEPT !.signed = {olga, oleg}]

\* One request at a time: invitations, access and roles.
Members == [Of({"invite", "accept", "revoke", "remove access", "convert", "set active", "delete",
                "crash"}, {r1}, 0)
            EXCEPT !.access = Staff, !.signed = {olga, oleg}]

\* One request at a time: invitations wait for an account to be registered.
Newcomer == [Of({"register", "verify", "invite", "accept", "minute", "rotate", "invite expires"}, {r1}, 1)
             EXCEPT !.signed = {olga}]

\* One request at a time: a browser with two accounts.
Browser == [Of({"login", "verify", "add", "switch", "remove", "sign out", "log out all", "end own",
                "delete"}, {r1}, 3)
            EXCEPT !.from = {TRUE}]

\* Two requests at a time: logins.
Logins == [Of({"login", "resend", "verify", "wrong code", "attach failure", "crash"}, {r1, r2}, 2)
           EXCEPT !.access = {<<olga, "owner", "company">>}, !.from = {TRUE}]

\* Two requests at a time: invitations and access.
Invitations == [Of({"invite", "accept", "rotate", "revoke", "minute", "remove access", "crash"},
                   {r1, r2}, 0)
                EXCEPT !.access = Staff \ {<<mila, "manager", "club">>},
                       !.signed = {oleg, mila}, !.fresh = {mila}]

MCScenarios == {Lifecycle, Addresses, Members, Newcomer, Browser, Logins, Invitations}
=============================================================================
