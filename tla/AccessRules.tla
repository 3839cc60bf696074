----------------------------- MODULE AccessRules -----------------------------
(***************************************************************************)
(* The roles of a user and what they imply (lib/auth.ts, lib/access.ts).   *)
(* Inside one company and one club the scope of a role plays no part.      *)
(***************************************************************************)

Role == {"manager", "regional_director", "accountant", "chief_accountant",
         "owner", "general_director"}

\* A chief accountant holds every accountant permission.
ExpandEffectiveRoles(roles) ==
  roles \cup (IF "chief_accountant" \in roles THEN {"accountant"} ELSE {})

CanMutateOperationalRecords(roles) ==
  roles \cap {"manager", "regional_director", "accountant", "chief_accountant"} # {}

CanCreateOperational(roles) == roles \cap {"manager", "regional_director"} # {}

\* A plain manager sees only the records they created.
IsManagerOnly(roles) ==
  /\ "manager" \in roles
  /\ roles \cap {"owner", "general_director", "regional_director",
                 "accountant", "chief_accountant"} = {}
=============================================================================
