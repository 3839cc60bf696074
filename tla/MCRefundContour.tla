--------------------------- MODULE MCRefundContour ---------------------------
(***************************************************************************)
(* Small instances of RefundContour for TLC.                               *)
(***************************************************************************)
EXTENDS RefundContour

CONSTANTS r1, r2, mgr, reg, chief, f1, f2, f3

MCReq     == {r1, r2}
MCUser    == {mgr, reg, chief}
MCRolesOf == (mgr :> {"manager"}) @@ (reg :> {"regional_director"}) @@ (chief :> {"chief_accountant"})
MCFile    == {f1, f2, f3}

Symmetric == Permutations(MCFile)

Empty == [f \in MCFile |-> NoDoc]
Full  == [Empty EXCEPT ![f1] = [slot |-> "shared", active |-> TRUE],
                       ![f2] = [slot |-> "page 3", active |-> TRUE]]

\* A draft that is filled in.
Filled == WithCalculation([Draft(mgr, "membership") EXCEPT !.requisites = TRUE],
                          [type |-> "membership", sum |-> 1, of |-> "remaining"])

\* One request at a time, from nothing to paid.
Serial == [calls |-> {"create", "upload", "remove", "type", "requisites", "inputs", "calculate",
                      "submit", "cancel", "approve", "return", "pay"},
           slots |-> {r1}, refund |-> NoRefund, doc |-> Empty]

\* Two requests at a time: uploads, removals and failures.
Uploads == [calls |-> {"upload", "remove", "type", "database fails", "crash"}, slots |-> {r1, r2},
            refund |-> Draft(mgr, "membership"), doc |-> Empty]

\* Two requests at a time: a draft that is filled in is submitted, reviewed and paid.
Decisions == [calls |-> {"inputs", "calculate", "submit", "cancel", "approve", "return", "pay"},
              slots |-> {r1, r2}, refund |-> Filled, doc |-> Full]

\* Two requests at a time on a refund of the old process.
Old == [calls |-> {"old", "regional"}, slots |-> {r1, r2}, refund |-> NoRefund, doc |-> Empty]

\* One request at a time, on a draft calculated before fingerprints were kept.
Unfingerprinted ==
  [calls |-> Decisions.calls \cup {"type", "requisites"}, slots |-> {r1},
   refund |-> [Filled EXCEPT !.calc.hash = None], doc |-> Full]

MCScenarios == {Serial, Uploads, Decisions, Old, Unfingerprinted}
=============================================================================
