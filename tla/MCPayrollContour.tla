-------------------------- MODULE MCPayrollContour --------------------------
(* Small instances of PayrollContour for TLC.                              *)
EXTENDS PayrollContour

CONSTANTS r1, r2, mgr, reg, acc, gd, a1, a2, k1, k2, t1, t2, v1, v2, d1, d2, q1, q2

MCRolesOf == mgr :> {"manager"} @@ reg :> {"regional_director"}
             @@ acc :> {"chief_accountant"} @@ gd :> {"general_director"}

Scenario(calls, slots, start) == [calls |-> calls, slots |-> slots, start |-> start]

Lead == {"create", "generate", "inputs", "transition"}

\* One request at a time: what the handlers do one after the other.
OneAfterTheOther ==
  {Scenario(Lead \cup calls, {r1}, 0) : calls \in
     {{"adjust", "cancel_adjustment", "payment"},
      {"adjust", "payment", "settle", "writeoff"},
      {"employee_advance", "approve_advance", "cancel_employee_advance", "advance",
       "cancel_advance", "payment", "raise"},
      {"approved_advance", "raise", "tranche", "reverse_tranche", "cancel_employee_advance"},
      {"propose", "decide", "approve_change", "materialize"}}}

\* The same from an approved month on, where payments are also reversed.
AfterApproval ==
  {Scenario({"transition", "adjust", "cancel_adjustment", "payment", "reversal"}, {r1}, 2)}

\* The page of expenses, between payments and between tranches.
ExpensePage ==
  {Scenario({"transition", "payment", "reversal", "cancel_expense", "edit_expense"}, {r1}, 2),
   Scenario(Lead \cup {"approved_advance", "tranche", "reverse_tranche", "cancel_expense"}, {r1}, 0),
   Scenario({"payment", "reversal", "cancel_expense"}, {r1, r2}, 2)}

\* Two requests at a time, in a month that was approved.
AtOnce ==
  {Scenario({"payment", "reversal", "transition", "crash"}, {r1, r2}, 2),
   Scenario({"propose", "decide", "approve_change", "materialize", "crash"}, {r1, r2}, 2),
   Scenario({"propose", "approve_change", "failure"}, {r1, r2}, 2)}

MCScenarios == OneAfterTheOther \cup AfterApproval \cup ExpensePage \cup AtOnce

Symmetry == Permutations(Adjustment) \cup Permutations(Key)
            \cup Permutations(Tranche) \cup Permutations(Voucher) \cup Permutations(Debt)
            \cup Permutations(Request)
=============================================================================
