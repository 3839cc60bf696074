----------------------- MODULE MonthlyContours_proofs -----------------------
(***************************************************************************)
(* What holds, for every value of the constants, of the two parts that     *)
(* work by the month: of PayrollContour, and of MonthClosing, which has no *)
(* state in common with it.                                                *)
(***************************************************************************)
EXTENDS PayrollContour, MonthClosing, SumLemmas, TLAPS

-----------------------------------------------------------------------------
(* The course of a handler: at the step t of a handler of the kind, which  *)
(* steps remain after it.                                                  *)
Course(kind, t, rest) ==
  \/ t = "create" /\ kind = "create" /\ rest = <<>>
  \/ t = "seed" /\ kind = "generate" /\ rest \in {<<>>, <<"sum", "total">>}
  \/ /\ t = "sum" /\ rest = <<"total">>
     /\ kind \in {"generate", "inputs", "adjust", "cancel_adjustment", "cancel_advance",
                  "cancel_employee_advance", "tranche", "reverse_tranche"}
  \/ t = "sum" /\ kind = "approve_change" /\ rest = <<"total", "applied">>
  \/ /\ t = "total" /\ rest = <<>>
     /\ kind \in {"generate", "inputs", "adjust", "cancel_adjustment", "cancel_advance",
                  "cancel_employee_advance", "tranche", "reverse_tranche"}
  \/ t = "total" /\ kind = "approve_change" /\ rest = <<"applied">>
  \/ t = "inputs" /\ kind = "inputs" /\ rest = <<"sum", "total">>
  \/ /\ t = "move"
     /\ rest \in {<<>>, <<"lock", "bill", "owe">>, <<"remainder", "debt", "shut">>}
     /\ kind = "transition"
  \/ t = "lock" /\ kind = "transition" /\ rest = <<"bill", "owe">>
  \/ t = "bill" /\ kind = "transition" /\ rest = <<"owe">>
  \/ t = "owe" /\ kind = "transition" /\ rest = <<>>
  \/ t = "remainder" /\ kind = "transition" /\ rest = <<"debt", "shut">>
  \/ t = "debt" /\ kind = "transition" /\ rest = <<"shut">>
  \/ t = "shut" /\ kind = "transition" /\ rest = <<>>
  \/ t = "adjust" /\ kind = "adjust" /\ rest = <<"sum", "total">>
  \/ t = "unadjust" /\ kind = "cancel_adjustment" /\ rest = <<"sum", "total">>
  \/ t = "start" /\ kind \in {"payment", "reversal"} /\ rest = <<"commit">>
  \/ t = "commit" /\ kind \in {"payment", "reversal"} /\ rest = <<>>
  \/ t = "repay" /\ kind = "settle" /\ rest = <<"settle">>
  \/ t = "settle" /\ kind = "settle" /\ rest = <<>>
  \/ t = "writeoff" /\ kind = "writeoff" /\ rest = <<>>
  \/ t = "fold" /\ kind = "advance" /\ rest = <<"issue">>
  \/ t = "fold" /\ kind \in {"employee_advance", "approve_advance"} /\ rest = <<"payout">>
  \/ t = "issue" /\ kind = "advance" /\ rest = <<>>
  \/ t = "record" /\ kind = "employee_advance" /\ rest = <<"fold", "payout">>
  \/ t = "payout" /\ kind \in {"employee_advance", "approve_advance"} /\ rest = <<>>
  \/ t = "request" /\ kind = "employee_advance" /\ rest = <<>>
  \/ /\ t = "refund" /\ rest = <<"cancel", "sum", "total">>
     /\ kind \in {"cancel_advance", "cancel_employee_advance"}
  \/ /\ t = "refund" /\ rest \in {<<"reverse", "sum", "total">>, <<"reverse">>}
     /\ kind = "reverse_tranche"
  \/ /\ t = "cancel" /\ rest = <<"sum", "total">>
     /\ kind \in {"cancel_advance", "cancel_employee_advance"}
  \/ t = "approved" /\ kind = "approved_advance" /\ rest = <<>>
  \/ t = "raise" /\ kind = "raise" /\ rest = <<>>
  \/ t = "ceiling" /\ kind = "tranche" /\ rest = <<"tranche", "sum", "total">>
  \/ t = "tranche" /\ kind = "tranche" /\ rest = <<"sum", "total">>
  \/ t = "reverse" /\ kind = "reverse_tranche" /\ rest \in {<<"sum", "total">>, <<>>}
  \/ t = "propose" /\ kind = "propose" /\ rest = <<>>
  \/ t = "decide" /\ kind = "decide" /\ rest = <<>>
  \/ t = "version" /\ kind \in {"materialize", "approve_change"} /\ rest = <<>>
  \/ /\ t = "claim" /\ kind = "approve_change"
     /\ rest \in {<<"bonus", "sum", "total", "applied">>, <<"pending", "version">>,
                  <<"overrides", "override", "effective", "auto", "sum", "total", "applied">>}
  \/ t = "bonus" /\ kind = "approve_change" /\ rest = <<"sum", "total", "applied">>
  \/ t = "applied" /\ kind = "approve_change" /\ rest = <<>>
  \/ /\ t = "overrides" /\ rest = <<"override", "effective", "auto", "sum", "total", "applied">>
     /\ kind = "approve_change"
  \/ /\ t = "override" /\ rest = <<"effective", "auto", "sum", "total", "applied">>
     /\ kind = "approve_change"
  \/ t = "effective" /\ kind = "approve_change" /\ rest = <<"auto", "sum", "total", "applied">>
  \/ t = "auto" /\ kind = "approve_change" /\ rest = <<"sum", "total", "applied">>
  \/ t = "pending" /\ kind = "approve_change" /\ rest = <<"version">>
  \/ t = "release" /\ kind = "approve_change" /\ rest = <<>>
  \/ t = "page" /\ kind \in {"cancel_expense", "edit_expense"} /\ rest = <<>>

\* The step t is the next of todo, and rest is what then remains of it.
First(todo, t, rest) ==
  /\ todo # <<>> /\ Head(todo) = t
  /\ IF Len(todo) = 1 THEN rest = <<>> ELSE rest # <<>> /\ Tail(todo) = rest

Planned(kind, todo) == \E t, rest : First(todo, t, rest) /\ Course(kind, t, rest)

(* The plans that occur, taken apart.                                      *)
LEMMA Firsts ==
  /\ First(<<"applied">>, "applied", <<>>)
  /\ First(<<"approved">>, "approved", <<>>)
  /\ First(<<"commit">>, "commit", <<>>)
  /\ First(<<"create">>, "create", <<>>)
  /\ First(<<"decide">>, "decide", <<>>)
  /\ First(<<"issue">>, "issue", <<>>)
  /\ First(<<"move">>, "move", <<>>)
  /\ First(<<"owe">>, "owe", <<>>)
  /\ First(<<"page">>, "page", <<>>)
  /\ First(<<"payout">>, "payout", <<>>)
  /\ First(<<"propose">>, "propose", <<>>)
  /\ First(<<"raise">>, "raise", <<>>)
  /\ First(<<"release">>, "release", <<>>)
  /\ First(<<"request">>, "request", <<>>)
  /\ First(<<"reverse">>, "reverse", <<>>)
  /\ First(<<"seed">>, "seed", <<>>)
  /\ First(<<"settle">>, "settle", <<>>)
  /\ First(<<"shut">>, "shut", <<>>)
  /\ First(<<"total">>, "total", <<>>)
  /\ First(<<"version">>, "version", <<>>)
  /\ First(<<"writeoff">>, "writeoff", <<>>)
  /\ First(<<"bill", "owe">>, "bill", <<"owe">>)
  /\ First(<<"debt", "shut">>, "debt", <<"shut">>)
  /\ First(<<"fold", "issue">>, "fold", <<"issue">>)
  /\ First(<<"fold", "payout">>, "fold", <<"payout">>)
  /\ First(<<"pending", "version">>, "pending", <<"version">>)
  /\ First(<<"refund", "reverse">>, "refund", <<"reverse">>)
  /\ First(<<"repay", "settle">>, "repay", <<"settle">>)
  /\ First(<<"start", "commit">>, "start", <<"commit">>)
  /\ First(<<"sum", "total">>, "sum", <<"total">>)
  /\ First(<<"total", "applied">>, "total", <<"applied">>)
  /\ First(<<"adjust", "sum", "total">>, "adjust", <<"sum", "total">>)
  /\ First(<<"cancel", "sum", "total">>, "cancel", <<"sum", "total">>)
  /\ First(<<"claim", "pending", "version">>, "claim", <<"pending", "version">>)
  /\ First(<<"inputs", "sum", "total">>, "inputs", <<"sum", "total">>)
  /\ First(<<"lock", "bill", "owe">>, "lock", <<"bill", "owe">>)
  /\ First(<<"record", "fold", "payout">>, "record", <<"fold", "payout">>)
  /\ First(<<"remainder", "debt", "shut">>, "remainder", <<"debt", "shut">>)
  /\ First(<<"reverse", "sum", "total">>, "reverse", <<"sum", "total">>)
  /\ First(<<"seed", "sum", "total">>, "seed", <<"sum", "total">>)
  /\ First(<<"sum", "total", "applied">>, "sum", <<"total", "applied">>)
  /\ First(<<"tranche", "sum", "total">>, "tranche", <<"sum", "total">>)
  /\ First(<<"unadjust", "sum", "total">>, "unadjust", <<"sum", "total">>)
  /\ First(<<"auto", "sum", "total", "applied">>, "auto", <<"sum", "total", "applied">>)
  /\ First(<<"bonus", "sum", "total", "applied">>, "bonus", <<"sum", "total", "applied">>)
  /\ First(<<"ceiling", "tranche", "sum", "total">>, "ceiling", <<"tranche", "sum", "total">>)
  /\ First(<<"move", "lock", "bill", "owe">>, "move", <<"lock", "bill", "owe">>)
  /\ First(<<"move", "remainder", "debt", "shut">>, "move", <<"remainder", "debt", "shut">>)
  /\ First(<<"refund", "cancel", "sum", "total">>, "refund", <<"cancel", "sum", "total">>)
  /\ First(<<"refund", "reverse", "sum", "total">>, "refund", <<"reverse", "sum", "total">>)
  /\ First(<<"claim", "bonus", "sum", "total", "applied">>, "claim", <<"bonus", "sum", "total",
       "applied">>)
  /\ First(<<"effective", "auto", "sum", "total", "applied">>, "effective", <<"auto", "sum",
       "total", "applied">>)
  /\ First(<<"override", "effective", "auto", "sum", "total", "applied">>, "override",
       <<"effective", "auto", "sum", "total", "applied">>)
  /\ First(<<"overrides", "override", "effective", "auto", "sum", "total", "applied">>,
       "overrides", <<"override", "effective", "auto", "sum", "total", "applied">>)
  /\ First(<<"claim", "overrides", "override", "effective", "auto", "sum", "total",
       "applied">>, "claim", <<"overrides", "override", "effective", "auto", "sum", "total",
            "applied">>)
<1>1. First(<<"applied">>, "applied", <<>>)  BY DEF First
<1>2. First(<<"approved">>, "approved", <<>>)  BY DEF First
<1>3. First(<<"commit">>, "commit", <<>>)  BY DEF First
<1>4. First(<<"create">>, "create", <<>>)  BY DEF First
<1>5. First(<<"decide">>, "decide", <<>>)  BY DEF First
<1>6. First(<<"issue">>, "issue", <<>>)  BY DEF First
<1>7. First(<<"move">>, "move", <<>>)  BY DEF First
<1>8. First(<<"owe">>, "owe", <<>>)  BY DEF First
<1>8a. First(<<"page">>, "page", <<>>)  BY DEF First
<1>9. First(<<"payout">>, "payout", <<>>)  BY DEF First
<1>10. First(<<"propose">>, "propose", <<>>)  BY DEF First
<1>11. First(<<"raise">>, "raise", <<>>)  BY DEF First
<1>12. First(<<"release">>, "release", <<>>)  BY DEF First
<1>13. First(<<"request">>, "request", <<>>)  BY DEF First
<1>14. First(<<"reverse">>, "reverse", <<>>)  BY DEF First
<1>15. First(<<"seed">>, "seed", <<>>)  BY DEF First
<1>16. First(<<"settle">>, "settle", <<>>)  BY DEF First
<1>17. First(<<"shut">>, "shut", <<>>)  BY DEF First
<1>18. First(<<"total">>, "total", <<>>)  BY DEF First
<1>19. First(<<"version">>, "version", <<>>)  BY DEF First
<1>20. First(<<"writeoff">>, "writeoff", <<>>)  BY DEF First
<1>21. First(<<"bill", "owe">>, "bill", <<"owe">>)  BY DEF First
<1>22. First(<<"debt", "shut">>, "debt", <<"shut">>)  BY DEF First
<1>23. First(<<"fold", "issue">>, "fold", <<"issue">>)  BY DEF First
<1>24. First(<<"fold", "payout">>, "fold", <<"payout">>)  BY DEF First
<1>25. First(<<"pending", "version">>, "pending", <<"version">>)  BY DEF First
<1>26. First(<<"refund", "reverse">>, "refund", <<"reverse">>)  BY DEF First
<1>27. First(<<"repay", "settle">>, "repay", <<"settle">>)  BY DEF First
<1>28. First(<<"start", "commit">>, "start", <<"commit">>)  BY DEF First
<1>29. First(<<"sum", "total">>, "sum", <<"total">>)  BY DEF First
<1>30. First(<<"total", "applied">>, "total", <<"applied">>)  BY DEF First
<1>31. First(<<"adjust", "sum", "total">>, "adjust", <<"sum", "total">>)  BY DEF First
<1>32. First(<<"cancel", "sum", "total">>, "cancel", <<"sum", "total">>)  BY DEF First
<1>33. First(<<"claim", "pending", "version">>, "claim", <<"pending", "version">>)  BY DEF First
<1>34. First(<<"inputs", "sum", "total">>, "inputs", <<"sum", "total">>)  BY DEF First
<1>35. First(<<"lock", "bill", "owe">>, "lock", <<"bill", "owe">>)  BY DEF First
<1>36. First(<<"record", "fold", "payout">>, "record", <<"fold", "payout">>)  BY DEF First
<1>37. First(<<"remainder", "debt", "shut">>, "remainder", <<"debt", "shut">>)  BY DEF First
<1>38. First(<<"reverse", "sum", "total">>, "reverse", <<"sum", "total">>)  BY DEF First
<1>39. First(<<"seed", "sum", "total">>, "seed", <<"sum", "total">>)  BY DEF First
<1>40. First(<<"sum", "total", "applied">>, "sum", <<"total", "applied">>)  BY DEF First
<1>41. First(<<"tranche", "sum", "total">>, "tranche", <<"sum", "total">>)  BY DEF First
<1>42. First(<<"unadjust", "sum", "total">>, "unadjust", <<"sum", "total">>)  BY DEF First
<1>43. First(<<"auto", "sum", "total", "applied">>, "auto", <<"sum", "total", "applied">>)
  BY DEF First
<1>44. First(<<"bonus", "sum", "total", "applied">>, "bonus", <<"sum", "total", "applied">>)
  BY DEF First
<1>45. First(<<"ceiling", "tranche", "sum", "total">>, "ceiling", <<"tranche", "sum", "total">>)
  BY DEF First
<1>46. First(<<"move", "lock", "bill", "owe">>, "move", <<"lock", "bill", "owe">>)  BY DEF First
<1>47. First(<<"move", "remainder", "debt", "shut">>, "move", <<"remainder", "debt", "shut">>)
  BY DEF First
<1>48. First(<<"refund", "cancel", "sum", "total">>, "refund", <<"cancel", "sum", "total">>)
  BY DEF First
<1>49. First(<<"refund", "reverse", "sum", "total">>, "refund", <<"reverse", "sum", "total">>)
  BY DEF First
<1>50. First(<<"claim", "bonus", "sum", "total", "applied">>, "claim", <<"bonus", "sum",
         "total", "applied">>)
  BY DEF First
<1>51. First(<<"effective", "auto", "sum", "total", "applied">>, "effective", <<"auto", "sum",
         "total", "applied">>)
  BY DEF First
<1>52. First(<<"override", "effective", "auto", "sum", "total", "applied">>, "override",
         <<"effective", "auto", "sum", "total", "applied">>)
  BY DEF First
<1>53. First(<<"overrides", "override", "effective", "auto", "sum", "total", "applied">>,
         "overrides", <<"override", "effective", "auto", "sum", "total", "applied">>)
  BY DEF First
<1>54. First(<<"claim", "overrides", "override", "effective", "auto", "sum", "total",
         "applied">>, "claim", <<"overrides", "override", "effective", "auto", "sum", "total",
              "applied">>)
  BY DEF First
<1> QED BY <1>1, <1>2, <1>3, <1>4, <1>5, <1>6, <1>7, <1>8, <1>8a, <1>9, <1>10, <1>11, <1>12, <1>13,
      <1>14, <1>15, <1>16, <1>17, <1>18, <1>19, <1>20, <1>21, <1>22, <1>23, <1>24, <1>25,
        <1>26, <1>27, <1>28, <1>29, <1>30, <1>31, <1>32, <1>33, <1>34, <1>35, <1>36, <1>37,
          <1>38, <1>39, <1>40, <1>41, <1>42, <1>43, <1>44, <1>45, <1>46, <1>47, <1>48, <1>49,
            <1>50, <1>51, <1>52, <1>53, <1>54

(* What remains of a plan is a plan.                                       *)
LEMMA CourseGoesOn ==
  ASSUME NEW kind, NEW t, NEW rest, Course(kind, t, rest), rest # <<>>
  PROVE  Planned(kind, rest)
<1>1. CASE rest = <<"applied">>
  <2>1. First(rest, "applied", <<>>)  BY <1>1, Firsts
  <2>2. Course(kind, "applied", <<>>)  BY <1>1 DEF Course
  <2> QED BY <2>1, <2>2 DEF Planned
<1>2. CASE rest = <<"commit">>
  <2>1. First(rest, "commit", <<>>)  BY <1>2, Firsts
  <2>2. Course(kind, "commit", <<>>)  BY <1>2 DEF Course
  <2> QED BY <2>1, <2>2 DEF Planned
<1>3. CASE rest = <<"issue">>
  <2>1. First(rest, "issue", <<>>)  BY <1>3, Firsts
  <2>2. Course(kind, "issue", <<>>)  BY <1>3 DEF Course
  <2> QED BY <2>1, <2>2 DEF Planned
<1>4. CASE rest = <<"owe">>
  <2>1. First(rest, "owe", <<>>)  BY <1>4, Firsts
  <2>2. Course(kind, "owe", <<>>)  BY <1>4 DEF Course
  <2> QED BY <2>1, <2>2 DEF Planned
<1>5. CASE rest = <<"payout">>
  <2>1. First(rest, "payout", <<>>)  BY <1>5, Firsts
  <2>2. Course(kind, "payout", <<>>)  BY <1>5 DEF Course
  <2> QED BY <2>1, <2>2 DEF Planned
<1>6. CASE rest = <<"reverse">>
  <2>1. First(rest, "reverse", <<>>)  BY <1>6, Firsts
  <2>2. Course(kind, "reverse", <<>>)  BY <1>6 DEF Course
  <2> QED BY <2>1, <2>2 DEF Planned
<1>7. CASE rest = <<"settle">>
  <2>1. First(rest, "settle", <<>>)  BY <1>7, Firsts
  <2>2. Course(kind, "settle", <<>>)  BY <1>7 DEF Course
  <2> QED BY <2>1, <2>2 DEF Planned
<1>8. CASE rest = <<"shut">>
  <2>1. First(rest, "shut", <<>>)  BY <1>8, Firsts
  <2>2. Course(kind, "shut", <<>>)  BY <1>8 DEF Course
  <2> QED BY <2>1, <2>2 DEF Planned
<1>9. CASE rest = <<"total">>
  <2>1. First(rest, "total", <<>>)  BY <1>9, Firsts
  <2>2. Course(kind, "total", <<>>)  BY <1>9 DEF Course
  <2> QED BY <2>1, <2>2 DEF Planned
<1>10. CASE rest = <<"version">>
  <2>1. First(rest, "version", <<>>)  BY <1>10, Firsts
  <2>2. Course(kind, "version", <<>>)  BY <1>10 DEF Course
  <2> QED BY <2>1, <2>2 DEF Planned
<1>11. CASE rest = <<"bill", "owe">>
  <2>1. First(rest, "bill", <<"owe">>)  BY <1>11, Firsts
  <2>2. Course(kind, "bill", <<"owe">>)  BY <1>11 DEF Course
  <2> QED BY <2>1, <2>2 DEF Planned
<1>12. CASE rest = <<"debt", "shut">>
  <2>1. First(rest, "debt", <<"shut">>)  BY <1>12, Firsts
  <2>2. Course(kind, "debt", <<"shut">>)  BY <1>12 DEF Course
  <2> QED BY <2>1, <2>2 DEF Planned
<1>13. CASE rest = <<"fold", "payout">>
  <2>1. First(rest, "fold", <<"payout">>)  BY <1>13, Firsts
  <2>2. Course(kind, "fold", <<"payout">>)  BY <1>13 DEF Course
  <2> QED BY <2>1, <2>2 DEF Planned
<1>14. CASE rest = <<"pending", "version">>
  <2>1. First(rest, "pending", <<"version">>)  BY <1>14, Firsts
  <2>2. Course(kind, "pending", <<"version">>)  BY <1>14 DEF Course
  <2> QED BY <2>1, <2>2 DEF Planned
<1>15. CASE rest = <<"sum", "total">>
  <2>1. First(rest, "sum", <<"total">>)  BY <1>15, Firsts
  <2>2. Course(kind, "sum", <<"total">>)  BY <1>15 DEF Course
  <2> QED BY <2>1, <2>2 DEF Planned
<1>16. CASE rest = <<"total", "applied">>
  <2>1. First(rest, "total", <<"applied">>)  BY <1>16, Firsts
  <2>2. Course(kind, "total", <<"applied">>)  BY <1>16 DEF Course
  <2> QED BY <2>1, <2>2 DEF Planned
<1>17. CASE rest = <<"cancel", "sum", "total">>
  <2>1. First(rest, "cancel", <<"sum", "total">>)  BY <1>17, Firsts
  <2>2. Course(kind, "cancel", <<"sum", "total">>)  BY <1>17 DEF Course
  <2> QED BY <2>1, <2>2 DEF Planned
<1>18. CASE rest = <<"lock", "bill", "owe">>
  <2>1. First(rest, "lock", <<"bill", "owe">>)  BY <1>18, Firsts
  <2>2. Course(kind, "lock", <<"bill", "owe">>)  BY <1>18 DEF Course
  <2> QED BY <2>1, <2>2 DEF Planned
<1>19. CASE rest = <<"remainder", "debt", "shut">>
  <2>1. First(rest, "remainder", <<"debt", "shut">>)  BY <1>19, Firsts
  <2>2. Course(kind, "remainder", <<"debt", "shut">>)  BY <1>19 DEF Course
  <2> QED BY <2>1, <2>2 DEF Planned
<1>20. CASE rest = <<"reverse", "sum", "total">>
  <2>1. First(rest, "reverse", <<"sum", "total">>)  BY <1>20, Firsts
  <2>2. Course(kind, "reverse", <<"sum", "total">>)  BY <1>20 DEF Course
  <2> QED BY <2>1, <2>2 DEF Planned
<1>21. CASE rest = <<"sum", "total", "applied">>
  <2>1. First(rest, "sum", <<"total", "applied">>)  BY <1>21, Firsts
  <2>2. Course(kind, "sum", <<"total", "applied">>)  BY <1>21 DEF Course
  <2> QED BY <2>1, <2>2 DEF Planned
<1>22. CASE rest = <<"tranche", "sum", "total">>
  <2>1. First(rest, "tranche", <<"sum", "total">>)  BY <1>22, Firsts
  <2>2. Course(kind, "tranche", <<"sum", "total">>)  BY <1>22 DEF Course
  <2> QED BY <2>1, <2>2 DEF Planned
<1>23. CASE rest = <<"auto", "sum", "total", "applied">>
  <2>1. First(rest, "auto", <<"sum", "total", "applied">>)  BY <1>23, Firsts
  <2>2. Course(kind, "auto", <<"sum", "total", "applied">>)  BY <1>23 DEF Course
  <2> QED BY <2>1, <2>2 DEF Planned
<1>24. CASE rest = <<"bonus", "sum", "total", "applied">>
  <2>1. First(rest, "bonus", <<"sum", "total", "applied">>)  BY <1>24, Firsts
  <2>2. Course(kind, "bonus", <<"sum", "total", "applied">>)  BY <1>24 DEF Course
  <2> QED BY <2>1, <2>2 DEF Planned
<1>25. CASE rest = <<"effective", "auto", "sum", "total", "applied">>
  <2>1. First(rest, "effective", <<"auto", "sum", "total", "applied">>)  BY <1>25, Firsts
  <2>2. Course(kind, "effective", <<"auto", "sum", "total", "applied">>)  BY <1>25 DEF Course
  <2> QED BY <2>1, <2>2 DEF Planned
<1>26. CASE rest = <<"override", "effective", "auto", "sum", "total", "applied">>
  <2>1. First(rest, "override", <<"effective", "auto", "sum", "total", "applied">>)
    BY <1>26, Firsts
  <2>2. Course(kind, "override", <<"effective", "auto", "sum", "total", "applied">>)
    BY <1>26 DEF Course
  <2> QED BY <2>1, <2>2 DEF Planned
<1>27. CASE rest = <<"overrides", "override", "effective", "auto", "sum", "total", "applied">>
  <2>1. First(rest, "overrides", <<"override", "effective", "auto", "sum", "total", "applied">>)
    BY <1>27, Firsts
  <2>2. Course(kind, "overrides", <<"override", "effective", "auto", "sum", "total",
          "applied">>)
    BY <1>27 DEF Course
  <2> QED BY <2>1, <2>2 DEF Planned
<1>28. \/ rest = <<"applied">>
       \/ rest = <<"commit">>
       \/ rest = <<"issue">>
       \/ rest = <<"owe">>
       \/ rest = <<"payout">>
       \/ rest = <<"reverse">>
       \/ rest = <<"settle">>
       \/ rest = <<"shut">>
       \/ rest = <<"total">>
       \/ rest = <<"version">>
       \/ rest = <<"bill", "owe">>
       \/ rest = <<"debt", "shut">>
       \/ rest = <<"fold", "payout">>
       \/ rest = <<"pending", "version">>
       \/ rest = <<"sum", "total">>
       \/ rest = <<"total", "applied">>
       \/ rest = <<"cancel", "sum", "total">>
       \/ rest = <<"lock", "bill", "owe">>
       \/ rest = <<"remainder", "debt", "shut">>
       \/ rest = <<"reverse", "sum", "total">>
       \/ rest = <<"sum", "total", "applied">>
       \/ rest = <<"tranche", "sum", "total">>
       \/ rest = <<"auto", "sum", "total", "applied">>
       \/ rest = <<"bonus", "sum", "total", "applied">>
       \/ rest = <<"effective", "auto", "sum", "total", "applied">>
       \/ rest = <<"override", "effective", "auto", "sum", "total", "applied">>
       \/ rest = <<"overrides", "override", "effective", "auto", "sum", "total", "applied">>
  BY DEF Course
<1> QED BY <1>1, <1>2, <1>3, <1>4, <1>5, <1>6, <1>7, <1>8, <1>9, <1>10, <1>11, <1>12, <1>13,
      <1>14, <1>15, <1>16, <1>17, <1>18, <1>19, <1>20, <1>21, <1>22, <1>23, <1>24, <1>25,
        <1>26, <1>27, <1>28

-----------------------------------------------------------------------------
(* The handlers under way are those of the scenario, each somewhere on its *)
(* course, and a request keeps its kind.                                   *)

IsJob(j) ==
  j = [kind |-> j.kind, todo |-> j.todo, row |-> j.row, to |-> j.to, amount |-> j.amount,
       earned |-> j.earned, net |-> j.net, paid |-> j.paid, found |-> j.found,
       overrides |-> j.overrides, tries |-> j.tries, stale |-> j.stale]

IsRequest(x) ==
  /\ x = [status |-> x.status, kind |-> x.kind, amount |-> x.amount, by |-> x.by,
          claimed |-> x.claimed, version |-> x.version]
  /\ x = NoRequest \/ x.kind \in ChangeKind

UnderWay(r) ==
  /\ r \in scenario.slots /\ job[r].kind \in scenario.calls
  /\ Planned(job[r].kind, job[r].todo)

OnRequest == {"decide", "approve_change", "materialize"}

HasTarget(r) ==
  /\ job[r].kind = "propose" => job[r].to \in ChangeKind
  /\ job[r].kind \in OnRequest =>
       job[r].row \in Request /\ request[job[r].row].kind \in ChangeKind

Placed ==
  /\ scenario \in Scenarios
  /\ job = [r \in Req |-> job[r]]
  /\ request = [q \in Request |-> request[q]]
  /\ \A q \in Request : IsRequest(request[q])
  /\ \A r \in Req : /\ IsJob(job[r])
                    /\ job[r] = Idle \/ UnderWay(r)
                    /\ HasTarget(r)

-----------------------------------------------------------------------------
\* A handler that is at a step is on its course there.
LEMMA AtStep ==
  ASSUME Placed, NEW r \in Req, NEW t, At(r, t)
  PROVE  /\ job[r] # Idle /\ IsJob(job[r])
         /\ r \in scenario.slots /\ job[r].kind \in scenario.calls
         /\ \E rest : First(job[r].todo, t, rest) /\ Course(job[r].kind, t, rest)
<1>1. job[r] # Idle  BY DEF At, Idle
<1>2. IsJob(job[r]) /\ UnderWay(r)  BY <1>1 DEF Placed
<1>3. PICK s, rest : First(job[r].todo, s, rest) /\ Course(job[r].kind, s, rest)
  BY <1>2 DEF UnderWay, Planned
<1>4. s = t  BY <1>3 DEF First, At
<1> QED BY <1>1, <1>2, <1>3, <1>4 DEF UnderWay

\* What a job becomes when its step is done.
LEMMA RestIs ==
  ASSUME NEW j, IsJob(j), NEW t, NEW rest, First(j.todo, t, rest)
  PROVE  Rest(j) = IF rest = <<>> THEN Idle ELSE [j EXCEPT !.todo = rest]
<1>1. CASE Len(j.todo) = 1  BY <1>1 DEF First, Rest
<1>2. CASE Len(j.todo) # 1
  <2>1. Tail(j.todo) = rest  BY <1>2 DEF First
  <2>2. rest # <<>>
    BY <1>2, <2>1 DEF First
  <2> QED BY <1>2, <2>1, <2>2 DEF Rest, IsJob
<1> QED BY <1>1, <1>2


\* The other handlers stay where they are; an open transaction may have gone stale.
OthersStay(r) ==
  /\ job' = [q \in Req |-> job'[q]]
  /\ \A q \in Req \ {r} : \/ job'[q] = job[q]
                         \/ (At(q, "commit") /\ job'[q] = [job[q] EXCEPT !.stale = TRUE])

RequestsKeepTheirKind ==
  /\ request' = [q \in Request |-> request'[q]]
  /\ \A q \in Request : /\ IsRequest(request'[q])
                        /\ request[q].kind \in ChangeKind => request'[q].kind = request[q].kind

\* The job has gone on: it is over, or the same handler with a plan.
GoneOn(r, j) ==
  \/ j = Idle
  \/ /\ IsJob(j) /\ Planned(j.kind, j.todo)
     /\ j.kind = job[r].kind /\ j.row = job[r].row
     /\ j.kind = "propose" => j.to = job[r].to

\* A stale transaction is the same job otherwise.
LEMMA StaleIs ==
  ASSUME NEW j, IsJob(j), NEW k, k \in {j, [j EXCEPT !.stale = TRUE]}
  PROVE  /\ IsJob(k) /\ k.kind = j.kind /\ k.todo = j.todo /\ k.row = j.row /\ k.to = j.to
         /\ k.amount = j.amount /\ k.earned = j.earned /\ k.net = j.net /\ k.paid = j.paid
         /\ k.found = j.found /\ k.overrides = j.overrides
BY DEF IsJob

\* The slots still hold jobs under way, when each slot goes on or stays as it was.
LEMMA JobsGoOn ==
  ASSUME Placed, NEW r \in Req, UnderWay(r), NEW j, GoneOn(r, j), job'[r] = j, OthersStay(r),
         scenario' = scenario, RequestsKeepTheirKind
  PROVE  Placed'
<1>1. ASSUME NEW q \in Req
      PROVE IsJob(job'[q]) /\ (job'[q] = Idle \/ UnderWay(q)') /\ HasTarget(q)'
  <2>1. CASE q = r
    <3>1. CASE j = Idle
      BY <2>1, <3>1 DEF Idle, IsJob, HasTarget, OnRequest
    <3>2. CASE j # Idle
      <4>1. /\ IsJob(j) /\ Planned(j.kind, j.todo)
            /\ j.kind = job[r].kind /\ j.row = job[r].row
            /\ j.kind = "propose" => j.to = job[r].to
        BY <3>2 DEF GoneOn
      <4>2. UnderWay(q)'  BY <4>1, <2>1 DEF UnderWay
      <4>3. HasTarget(r)  BY DEF Placed
      <4>4. HasTarget(q)'  BY <4>1, <4>3, <2>1 DEF HasTarget, RequestsKeepTheirKind
      <4> QED BY <4>1, <4>2, <4>4, <2>1
    <3> QED BY <3>1, <3>2
  <2>2. CASE q # r
    <3>1. IsJob(job[q]) /\ (job[q] = Idle \/ UnderWay(q)) /\ HasTarget(q)  BY DEF Placed
    <3>2. job'[q] = job[q] \/ (At(q, "commit") /\ job'[q] = [job[q] EXCEPT !.stale = TRUE])
      BY <2>2 DEF OthersStay
    <3>3. /\ IsJob(job'[q]) /\ job'[q].kind = job[q].kind /\ job'[q].todo = job[q].todo
          /\ job'[q].row = job[q].row /\ job'[q].to = job[q].to
      BY <3>1, <3>2, StaleIs
    <3>4. HasTarget(q)'  BY <3>1, <3>3 DEF HasTarget, RequestsKeepTheirKind
    <3>5. At(q, "commit") => job[q] # Idle  BY DEF At, Idle
    <3>6. job'[q] = Idle \/ UnderWay(q)'
      BY <3>1, <3>2, <3>3, <3>5 DEF UnderWay
    <3> QED BY <3>3, <3>4, <3>6
  <2> QED BY <2>1, <2>2
<1>2. \A q \in Request : IsRequest(request[q])'
  BY DEF RequestsKeepTheirKind
<1> QED BY <1>1, <1>2 DEF Placed, OthersStay, RequestsKeepTheirKind

\* A job that has just begun.
LEMMA JobsBegin ==
  ASSUME Placed, NEW r \in Req, NEW j, Begin(r, j), IsJob(j), Planned(j.kind, j.todo),
         j.kind = "propose" => j.to \in ChangeKind,
         j.kind \in OnRequest => j.row \in Request /\ request[j.row].kind \in ChangeKind
  PROVE  Placed'
<1>1. /\ r \in scenario.slots /\ j.kind \in scenario.calls
      /\ job' = [job EXCEPT ![r] = j] /\ scenario' = scenario /\ request' = request
  BY DEF Begin, rows
<1>2. job = [q \in Req |-> job[q]]  BY DEF Placed
<1>3. job'[r] = j /\ job' = [q \in Req |-> job'[q]] /\ \A q \in Req : q # r => job'[q] = job[q]
  BY <1>1, <1>2
<1>4. ASSUME NEW q \in Req
      PROVE IsJob(job'[q]) /\ (job'[q] = Idle \/ UnderWay(q)') /\ HasTarget(q)'
  <2>1. CASE q = r
    BY <2>1, <1>1, <1>3 DEF UnderWay, HasTarget
  <2>2. CASE q # r
    <3>1. IsJob(job[q]) /\ (job[q] = Idle \/ UnderWay(q)) /\ HasTarget(q)  BY DEF Placed
    <3>2. job'[q] = job[q]  BY <1>3, <2>2
    <3> QED BY <1>1, <3>1, <3>2 DEF UnderWay, HasTarget
  <2> QED BY <2>1, <2>2
<1> QED BY <1>1, <1>3, <1>4 DEF Placed

\* Begun with a plan that occurs at the start of a course.
LEMMA BeginsWith ==
  ASSUME NEW kind, NEW todo, NEW t, NEW rest, First(todo, t, rest), Course(kind, t, rest)
  PROVE  Planned(kind, todo)
BY DEF Planned

\* Every way to leave the other handlers where they are.
LEMMA SetIs ==
  ASSUME Placed, NEW r \in Req, NEW j, Set(r, j)
  PROVE  job'[r] = j /\ OthersStay(r) /\ scenario' = scenario
<1>1. job = [q \in Req |-> job[q]]  BY DEF Placed
<1> QED BY <1>1 DEF Set, OthersStay

\* A statement that commits rows makes every open transaction stale.
LEMMA ProceedWritingIs ==
  ASSUME NEW r \in Req, ProceedWriting(r)
  PROVE  job'[r] = Rest(job[r]) /\ OthersStay(r) /\ scenario' = scenario
BY DEF ProceedWriting, OthersStay

\* A handler under way, and what remains for it after its step.
LEMMA Remains ==
  ASSUME Placed, NEW r \in Req, NEW t, At(r, t), NEW j, IsJob(j),
         j.todo = job[r].todo, j.kind = job[r].kind, j.row = job[r].row,
         j.kind = "propose" => j.to = job[r].to
  PROVE  GoneOn(r, Rest(j)) /\ UnderWay(r)
<1>1. UnderWay(r)  BY AtStep DEF Placed
<1>2. PICK rest : First(job[r].todo, t, rest) /\ Course(job[r].kind, t, rest)  BY AtStep
<1>3. Rest(j) = IF rest = <<>> THEN Idle ELSE [j EXCEPT !.todo = rest]  BY <1>2, RestIs
<1>4. CASE rest = <<>>  BY <1>1, <1>3, <1>4 DEF GoneOn
<1>5. CASE rest # <<>>
  <2>1. Planned(j.kind, rest)  BY <1>2, <1>5, CourseGoesOn
  <2>2. Rest(j) = [j EXCEPT !.todo = rest]  BY <1>3, <1>5
  <2>3. IsJob(Rest(j)) /\ Rest(j).kind = j.kind /\ Rest(j).todo = rest /\ Rest(j).row = j.row
        /\ Rest(j).to = j.to
    BY <2>2 DEF IsJob
  <2> QED BY <1>1, <2>1, <2>3 DEF GoneOn
<1> QED BY <1>4, <1>5


-----------------------------------------------------------------------------
(* What the handlers begin with: the guards and inputs that matter below.  *)

BegunOnPeriod(j) ==
  \/ j.kind = "create" /\ j.todo = <<"create">>
  \/ /\ j.kind = "generate" /\ calc = NoCalc /\ ~IsLocked(period)
     /\ \/ j.todo = <<"seed">> /\ j.amount = 0
        \/ j.todo = <<"seed", "sum", "total">> /\ j.amount \in Amount
  \/ /\ j.kind = "inputs" /\ j.todo = <<"inputs", "sum", "total">>
     /\ calc # NoCalc /\ ~IsLocked(period) /\ j.amount \in Amount
     /\ j.net = j.amount + Overrides(calc)
  \/ /\ j.kind = "transition"
     /\ \E action \in PayrollAction :
          /\ period \in Moves[action].from
          /\ j.todo = Consequences(action) /\ j.to = Moves[action].to
          /\ action \in {"regional_approve", "accounting_approve"} => calc.status # "draft"
  \/ /\ j.kind = "adjust" /\ j.todo = <<"adjust", "sum", "total">>
     /\ calc # NoCalc /\ period # "closed" /\ \E a \in Amount : j.amount = a \/ j.amount = -a
  \/ /\ j.kind = "cancel_adjustment" /\ j.todo = <<"unadjust", "sum", "total">>
     /\ calc # NoCalc /\ period # "closed"
     /\ j.row \in Adjustment /\ adjustment[j.row].status = "approved"
  \/ /\ j.kind = "payment" /\ j.todo = <<"start", "commit">>
     /\ calc # NoCalc /\ IsPayable(period) /\ j.row \in Key /\ j.amount \in Amount
  \/ /\ j.kind = "reversal" /\ j.todo = <<"start", "commit">>
     /\ period # "closed" /\ j.row \in Key /\ payment[j.row].status = "confirmed"
  \/ /\ j.kind = "settle" /\ j.todo = <<"repay", "settle">>
     /\ j.row \in Debt /\ IsOpen(j.row) /\ j.amount \in Amount
     /\ j.net = debt[j.row].outstanding - j.amount
  \/ j.kind = "writeoff" /\ j.todo = <<"writeoff">> /\ j.row \in Debt /\ IsOpen(j.row)

BegunOnAdvance(j) ==
  \/ /\ j.kind = "advance" /\ j.todo = <<"fold", "issue">>
     /\ calc # NoCalc /\ ~Current /\ j.amount \in Amount /\ j.earned = calc.net
  \/ /\ j.kind = "employee_advance"
     /\ j.todo \in {<<"record", "fold", "payout">>, <<"request">>}
     /\ ~Current /\ j.amount \in Amount
  \/ /\ j.kind = "approve_advance" /\ j.todo = <<"fold", "payout">>
     /\ advance.status = "requested" /\ j.amount = advance.amount
  \/ /\ j.kind = "cancel_advance" /\ j.todo = <<"refund", "cancel", "sum", "total">>
     /\ advance.status = "paid" /\ j.row = advance.expense
  \/ /\ j.kind = "cancel_employee_advance" /\ Current /\ j.row = advance.expense
     /\ \/ advance.status = "paid" /\ j.todo = <<"refund", "cancel", "sum", "total">>
        \/ advance.status # "paid" /\ j.todo = <<"cancel", "sum", "total">>
  \/ j.kind = "approved_advance" /\ j.todo = <<"approved">> /\ ~Current /\ j.amount \in Amount
  \/ /\ j.kind = "raise" /\ j.todo = <<"raise">> /\ advance # NoAdvance
     /\ j.amount \in Amount /\ j.amount > advance.approved
     /\ j.to = IF advance.status = "canceled" THEN "canceled" ELSE "approved"
  \/ /\ j.kind = "tranche" /\ j.todo = <<"ceiling", "tranche", "sum", "total">>
     /\ advance.status \in {"approved", "paid"} /\ (advance.expense = None \/ AnyTranche)
     /\ j.row \in Tranche /\ tranche[j.row] = NoRow
     /\ j.amount \in Amount /\ j.net = advance.approved
  \/ /\ j.kind = "reverse_tranche" /\ j.row \in Tranche /\ tranche[j.row].status = "paid"
     /\ \/ calc # NoCalc /\ j.todo = <<"refund", "reverse", "sum", "total">>
        \/ calc = NoCalc /\ j.todo = <<"refund", "reverse">>

BegunOnRequest(j) ==
  \/ /\ j.kind = "propose" /\ j.todo = <<"propose">> /\ calc # NoCalc
     /\ j.to \in ChangeKind /\ j.amount \in Amount
  \/ /\ j.kind = "decide" /\ j.todo = <<"decide">> /\ j.row \in Request
     /\ \E d \in DOMAIN StatusAfter :
          request[j.row].status \in AllowedFrom[d] /\ j.to = StatusAfter[d]
  \/ /\ j.kind = "approve_change" /\ j.todo = Effect(request[j.row].kind)
     /\ j.row \in Request /\ request[j.row].status \in AllowedFrom["approve"]
     /\ j.amount = request[j.row].amount
  \/ /\ j.kind = "materialize" /\ j.todo = <<"version">> /\ j.row \in Request
     /\ request[j.row].kind = "future"

BegunOnPage(j) ==
  j.kind \in {"cancel_expense", "edit_expense"} /\ j.todo = <<"page">> /\ j.row \in Payout

HasBegun(r) ==
  \E j : /\ Begin(r, j) /\ IsJob(j)
         /\ \/ BegunOnPeriod(j)
            \/ BegunOnAdvance(j)
            \/ BegunOnRequest(j)
            \/ BegunOnPage(j)

\* The statements and transactions of the handlers.
Statement(r) ==
  \/ Create(r) \/ Seed(r) \/ Inputs(r)
  \/ MovePeriod(r) \/ Lock(r) \/ Bill(r) \/ Owe(r) \/ Remainder(r) \/ OpenDebt(r) \/ Shut(r)
  \/ Adjust(r) \/ CancelAdjustment(r)
  \/ StartPayment(r) \/ CommitPayment(r) \/ StartReversal(r) \/ CommitReversal(r) \/ Retry(r)
  \/ Repay(r) \/ Settle(r) \/ WriteOff(r)
  \/ Fold(r) \/ Issue(r) \/ RequestAdvance(r) \/ RecordAdvance(r) \/ PayAdvance(r)
  \/ CancelAdvance(r) \/ ApproveAmount(r) \/ Raise(r)
  \/ Ceiling(r) \/ PayTranche(r) \/ ReverseTranche(r)
  \/ Propose(r) \/ Decide(r) \/ Claim(r) \/ Bonus(r)
  \/ ReadOverrides(r) \/ WriteOverrides(r) \/ ReadEffective(r) \/ WriteAuto(r)
  \/ MarkApplied(r) \/ MarkPending(r) \/ Materialize(r) \/ FailApproval(r) \/ Release(r)
  \/ Sum(r) \/ Total(r) \/ Refund(r) \/ RewriteExpense(r) \/ Crash(r)

\* The fields of a job as it begins.
LEMMA JobIs ==
  ASSUME NEW kind, NEW todo
  PROVE  /\ IsJob(Job(kind, todo)) /\ Job(kind, todo).kind = kind /\ Job(kind, todo).todo = todo
         /\ Job(kind, todo).amount = 0
<1> DEFINE i == Idle
<1>1. IsJob(i) /\ i.amount = 0  BY DEF IsJob, Idle
<1>2. Job(kind, todo) = [i EXCEPT !.kind = kind, !.todo = todo]  BY DEF Job
<1> HIDE DEF i
<1> QED BY <1>1, <1>2 DEF IsJob

\* Every handler of the period begins with what BegunOnPeriod says.
LEMMA PeriodBegins ==
  ASSUME NEW r \in Req, NEW u \in User,
         \/ BeginCreate(r, u)
         \/ \E a \in Amount : \/ BeginGenerate(r, u, a)
                              \/ BeginInputs(r, u, a)
                              \/ BeginAdjust(r, u, a)
         \/ \E action \in PayrollAction : BeginTransition(r, u, action)
         \/ \E i \in Adjustment : BeginCancelAdjustment(r, u, i)
         \/ \E k \in Key : \/ BeginReversal(r, u, k)
                           \/ \E a \in Amount : BeginPayment(r, u, k, a)
         \/ \E d \in Debt : \/ BeginWriteOff(r, u, d)
                            \/ \E a \in Amount : BeginSettle(r, u, d, a)
  PROVE  HasBegun(r)
<1>1. ASSUME BeginCreate(r, u) PROVE HasBegun(r)
  <2> DEFINE b == Job("create", <<"create">>)
  <2>1. IsJob(b) /\ b.kind = "create" /\ b.todo = <<"create">> /\ b.amount = 0  BY JobIs
  <2>2. PICK j : j = b  OBVIOUS
  <2>3. Begin(r, j)  BY <1>1, <2>2 DEF BeginCreate
  <2> HIDE DEF b
  <2>4. /\ IsJob(j) /\ j.kind = b.kind /\ j.todo = b.todo /\ j.amount = b.amount
    BY <2>1, <2>2 DEF IsJob
  <2>5. BegunOnPeriod(j)
    BY <1>1, <2>1, <2>4 DEF BeginCreate, BegunOnPeriod
  <2> QED BY <2>3, <2>4, <2>5 DEF HasBegun
<1>2. ASSUME NEW a \in Amount, BeginGenerate(r, u, a) PROVE HasBegun(r)
  <2>1. ASSUME Begin(r, Job("generate", <<"seed">>)) PROVE HasBegun(r)
    <3> DEFINE b == Job("generate", <<"seed">>)
    <3>1. IsJob(b) /\ b.kind = "generate" /\ b.todo = <<"seed">> /\ b.amount = 0  BY JobIs
    <3>2. PICK j : j = b  OBVIOUS
    <3>3. Begin(r, j)  BY <2>1, <3>2
    <3> HIDE DEF b
    <3>4. /\ IsJob(j) /\ j.kind = b.kind /\ j.todo = b.todo /\ j.amount = b.amount
      BY <3>1, <3>2 DEF IsJob
    <3>5. BegunOnPeriod(j)
      BY <1>2, <2>1, <3>1, <3>4 DEF BeginGenerate, BegunOnPeriod
    <3> QED BY <3>3, <3>4, <3>5 DEF HasBegun
  <2>2. ASSUME Begin(r, [Job("generate", <<"seed", "sum", "total">>) EXCEPT !.amount = a])
        PROVE HasBegun(r)
    <3> DEFINE b == Job("generate", <<"seed", "sum", "total">>)
    <3>1. IsJob(b) /\ b.kind = "generate" /\ b.todo = <<"seed", "sum", "total">> /\ b.amount = 0
      BY JobIs
    <3>2. PICK j : j = [b EXCEPT !.amount = a]  OBVIOUS
    <3>3. Begin(r, j)  BY <2>2, <3>2
    <3> HIDE DEF b
    <3>4. /\ IsJob(j) /\ j.kind = b.kind /\ j.todo = b.todo
          /\ j.amount = a
      BY <3>1, <3>2 DEF IsJob
    <3>5. BegunOnPeriod(j)
      BY <1>2, <2>2, <3>1, <3>4 DEF BeginGenerate, BegunOnPeriod
    <3> QED BY <3>3, <3>4, <3>5 DEF HasBegun
  <2> QED BY <1>2, <2>1, <2>2 DEF BeginGenerate
<1>3. ASSUME NEW a \in Amount, BeginInputs(r, u, a) PROVE HasBegun(r)
  <2> DEFINE b == Job("inputs", <<"inputs", "sum", "total">>)
  <2>1. IsJob(b) /\ b.kind = "inputs" /\ b.todo = <<"inputs", "sum", "total">> /\ b.amount = 0
    BY JobIs
  <2>2. PICK j : j = [b EXCEPT !.amount = a, !.net = a + Overrides(calc)]  OBVIOUS
  <2>3. Begin(r, j)  BY <1>3, <2>2 DEF BeginInputs
  <2> HIDE DEF b
  <2>4. /\ IsJob(j) /\ j.kind = b.kind /\ j.todo = b.todo
        /\ j.amount = a
        /\ j.net = a + Overrides(calc)
    BY <2>1, <2>2 DEF IsJob
  <2>5. BegunOnPeriod(j)
    BY <1>3, <2>1, <2>4 DEF BeginInputs, BegunOnPeriod
  <2> QED BY <2>3, <2>4, <2>5 DEF HasBegun
<1>4. ASSUME NEW action \in PayrollAction, BeginTransition(r, u, action) PROVE HasBegun(r)
  <2> DEFINE b == Job("transition", Consequences(action))
  <2>1. IsJob(b) /\ b.kind = "transition" /\ b.todo = Consequences(action) /\ b.amount = 0
    BY JobIs
  <2>2. PICK j : j = [b EXCEPT !.to = Moves[action].to]  OBVIOUS
  <2>3. Begin(r, j)  BY <1>4, <2>2 DEF BeginTransition
  <2> HIDE DEF b
  <2>4. /\ IsJob(j) /\ j.kind = b.kind /\ j.todo = b.todo /\ j.amount = b.amount
        /\ j.to = Moves[action].to
    BY <2>1, <2>2 DEF IsJob
  <2>5. BegunOnPeriod(j)
    BY <1>4, <2>1, <2>4 DEF BeginTransition, BegunOnPeriod, MayMove
  <2> QED BY <2>3, <2>4, <2>5 DEF HasBegun
<1>5. ASSUME NEW a \in Amount, BeginAdjust(r, u, a) PROVE HasBegun(r)
  <2>1. ASSUME NEW amount \in {a, -a},
               Begin(r, [Job("adjust", <<"adjust", "sum", "total">>) EXCEPT !.amount = amount])
                     PROVE HasBegun(r)
    <3> DEFINE b == Job("adjust", <<"adjust", "sum", "total">>)
    <3>1. IsJob(b) /\ b.kind = "adjust" /\ b.todo = <<"adjust", "sum", "total">> /\ b.amount = 0
      BY JobIs
    <3>2. PICK j : j = [b EXCEPT !.amount = amount]  OBVIOUS
    <3>3. Begin(r, j)  BY <2>1, <3>2
    <3> HIDE DEF b
    <3>4. /\ IsJob(j) /\ j.kind = b.kind /\ j.todo = b.todo
          /\ j.amount = amount
      BY <3>1, <3>2 DEF IsJob
    <3>5. BegunOnPeriod(j)
      BY <1>5, <2>1, <3>1, <3>4 DEF BeginAdjust, BegunOnPeriod, MayAdjust
    <3> QED BY <3>3, <3>4, <3>5 DEF HasBegun
  <2> QED BY <1>5, <2>1 DEF BeginAdjust
<1>6. ASSUME NEW i \in Adjustment, BeginCancelAdjustment(r, u, i) PROVE HasBegun(r)
  <2> DEFINE b == Job("cancel_adjustment", <<"unadjust", "sum", "total">>)
  <2>1. IsJob(b) /\ b.kind = "cancel_adjustment" /\ b.todo = <<"unadjust", "sum", "total">>
        /\ b.amount = 0
    BY JobIs
  <2>2. PICK j : j = [b EXCEPT !.row = i]  OBVIOUS
  <2>3. Begin(r, j)  BY <1>6, <2>2 DEF BeginCancelAdjustment
  <2> HIDE DEF b
  <2>4. /\ IsJob(j) /\ j.kind = b.kind /\ j.todo = b.todo /\ j.amount = b.amount
        /\ j.row = i
    BY <2>1, <2>2 DEF IsJob
  <2>5. BegunOnPeriod(j)
    BY <1>6, <2>1, <2>4 DEF BeginCancelAdjustment, BegunOnPeriod, MayAdjust
  <2> QED BY <2>3, <2>4, <2>5 DEF HasBegun
<1>7. ASSUME NEW k \in Key, NEW a \in Amount, BeginPayment(r, u, k, a) PROVE HasBegun(r)
  <2> DEFINE b == Job("payment", <<"start", "commit">>)
  <2>1. IsJob(b) /\ b.kind = "payment" /\ b.todo = <<"start", "commit">> /\ b.amount = 0
    BY JobIs
  <2>2. PICK j : j = [b EXCEPT !.row = k, !.amount = a, !.tries = 1]  OBVIOUS
  <2>3. Begin(r, j)  BY <1>7, <2>2 DEF BeginPayment
  <2> HIDE DEF b
  <2>4. /\ IsJob(j) /\ j.kind = b.kind /\ j.todo = b.todo
        /\ j.row = k
        /\ j.amount = a
    BY <2>1, <2>2 DEF IsJob
  <2>5. BegunOnPeriod(j)
    BY <1>7, <2>1, <2>4 DEF BeginPayment, BegunOnPeriod
  <2> QED BY <2>3, <2>4, <2>5 DEF HasBegun
<1>8. ASSUME NEW k \in Key, BeginReversal(r, u, k) PROVE HasBegun(r)
  <2> DEFINE b == Job("reversal", <<"start", "commit">>)
  <2>1. IsJob(b) /\ b.kind = "reversal" /\ b.todo = <<"start", "commit">> /\ b.amount = 0
    BY JobIs
  <2>2. PICK j : j = [b EXCEPT !.row = k, !.tries = 1]  OBVIOUS
  <2>3. Begin(r, j)  BY <1>8, <2>2 DEF BeginReversal
  <2> HIDE DEF b
  <2>4. /\ IsJob(j) /\ j.kind = b.kind /\ j.todo = b.todo /\ j.amount = b.amount
        /\ j.row = k
    BY <2>1, <2>2 DEF IsJob
  <2>5. BegunOnPeriod(j)
    BY <1>8, <2>1, <2>4 DEF BeginReversal, BegunOnPeriod
  <2> QED BY <2>3, <2>4, <2>5 DEF HasBegun
<1>9. ASSUME NEW d \in Debt, NEW a \in Amount, BeginSettle(r, u, d, a) PROVE HasBegun(r)
  <2> DEFINE b == Job("settle", <<"repay", "settle">>)
  <2>1. IsJob(b) /\ b.kind = "settle" /\ b.todo = <<"repay", "settle">> /\ b.amount = 0
    BY JobIs
  <2>2. PICK j : j = [b EXCEPT !.row = d, !.amount = a, !.net = debt[d].outstanding - a]
    OBVIOUS
  <2>3. Begin(r, j)  BY <1>9, <2>2 DEF BeginSettle
  <2> HIDE DEF b
  <2>4. /\ IsJob(j) /\ j.kind = b.kind /\ j.todo = b.todo
        /\ j.row = d
        /\ j.amount = a
        /\ j.net = debt[d].outstanding - a
    BY <2>1, <2>2 DEF IsJob
  <2>5. BegunOnPeriod(j)
    BY <1>9, <2>1, <2>4 DEF BeginSettle, BegunOnPeriod
  <2> QED BY <2>3, <2>4, <2>5 DEF HasBegun
<1>10. ASSUME NEW d \in Debt, BeginWriteOff(r, u, d) PROVE HasBegun(r)
  <2> DEFINE b == Job("writeoff", <<"writeoff">>)
  <2>1. IsJob(b) /\ b.kind = "writeoff" /\ b.todo = <<"writeoff">> /\ b.amount = 0  BY JobIs
  <2>2. PICK j : j = [b EXCEPT !.row = d]  OBVIOUS
  <2>3. Begin(r, j)  BY <1>10, <2>2 DEF BeginWriteOff
  <2> HIDE DEF b
  <2>4. /\ IsJob(j) /\ j.kind = b.kind /\ j.todo = b.todo /\ j.amount = b.amount
        /\ j.row = d
    BY <2>1, <2>2 DEF IsJob
  <2>5. BegunOnPeriod(j)
    BY <1>10, <2>1, <2>4 DEF BeginWriteOff, BegunOnPeriod
  <2> QED BY <2>3, <2>4, <2>5 DEF HasBegun
<1> QED BY <1>1, <1>2, <1>3, <1>4, <1>5, <1>6, <1>7, <1>8, <1>9, <1>10

\* Every handler of the advance begins with what BegunOnAdvance says.
LEMMA AdvanceBegins ==
  ASSUME NEW r \in Req, NEW u \in User,
         \/ BeginApproveAdvance(r, u) \/ BeginCancelAdvance(r,
              u) \/ BeginCancelEmployeeAdvance(r, u)
         \/ \E a \in Amount : \/ BeginAdvance(r, u, a) \/ BeginEmployeeAdvance(r, u, a)
                              \/ BeginApprovedAdvance(r, u, a) \/ BeginRaise(r, u, a)
         \/ \E k \in Tranche : \/ BeginReverseTranche(r, u, k)
                               \/ \E a \in Amount : BeginTranche(r, u, k, a)
  PROVE  HasBegun(r)
<1>1. ASSUME NEW a \in Amount, BeginAdvance(r, u, a) PROVE HasBegun(r)
  <2> DEFINE b == Job("advance", <<"fold", "issue">>)
  <2>1. IsJob(b) /\ b.kind = "advance" /\ b.todo = <<"fold", "issue">> /\ b.amount = 0  BY JobIs
  <2>2. PICK j : j = [b EXCEPT !.amount = a, !.earned = calc.net]  OBVIOUS
  <2>3. Begin(r, j)  BY <1>1, <2>2 DEF BeginAdvance
  <2> HIDE DEF b
  <2>4. /\ IsJob(j) /\ j.kind = b.kind /\ j.todo = b.todo
        /\ j.amount = a
        /\ j.earned = calc.net
    BY <2>1, <2>2 DEF IsJob
  <2>5. BegunOnAdvance(j)
    BY <1>1, <2>1, <2>4 DEF BeginAdvance, BegunOnAdvance
  <2> QED BY <2>3, <2>4, <2>5 DEF HasBegun
<1>2. ASSUME NEW a \in Amount, BeginEmployeeAdvance(r, u, a) PROVE HasBegun(r)
  <2>1. ASSUME NEW earned, NEW todo \in {<<"record", "fold", "payout">>, <<"request">>},
               Begin(r, [Job("employee_advance", todo) EXCEPT !.amount = a, !.earned = earned])
                     PROVE HasBegun(r)
    <3> DEFINE b == Job("employee_advance", todo)
    <3>1. IsJob(b) /\ b.kind = "employee_advance" /\ b.todo = todo /\ b.amount = 0  BY JobIs
    <3>2. PICK j : j = [b EXCEPT !.amount = a, !.earned = earned]  OBVIOUS
    <3>3. Begin(r, j)  BY <2>1, <3>2
    <3> HIDE DEF b
    <3>4. /\ IsJob(j) /\ j.kind = b.kind /\ j.todo = b.todo
          /\ j.amount = a
          /\ j.earned = earned
      BY <3>1, <3>2 DEF IsJob
    <3>5. BegunOnAdvance(j)
      BY <1>2, <2>1, <3>1, <3>4 DEF BeginEmployeeAdvance, BegunOnAdvance
    <3> QED BY <3>3, <3>4, <3>5 DEF HasBegun
  <2> QED BY <1>2, <2>1 DEF BeginEmployeeAdvance
<1>3. ASSUME BeginApproveAdvance(r, u) PROVE HasBegun(r)
  <2> DEFINE b == Job("approve_advance", <<"fold", "payout">>)
  <2>1. IsJob(b) /\ b.kind = "approve_advance" /\ b.todo = <<"fold", "payout">> /\ b.amount = 0
    BY JobIs
  <2>2. PICK j : j = [b EXCEPT !.amount = advance.amount]  OBVIOUS
  <2>3. Begin(r, j)  BY <1>3, <2>2 DEF BeginApproveAdvance
  <2> HIDE DEF b
  <2>4. /\ IsJob(j) /\ j.kind = b.kind /\ j.todo = b.todo
        /\ j.amount = advance.amount
    BY <2>1, <2>2 DEF IsJob
  <2>5. BegunOnAdvance(j)
    BY <1>3, <2>1, <2>4 DEF BeginApproveAdvance, BegunOnAdvance
  <2> QED BY <2>3, <2>4, <2>5 DEF HasBegun
<1>4. ASSUME BeginCancelAdvance(r, u) PROVE HasBegun(r)
  <2> DEFINE b == Job("cancel_advance", <<"refund", "cancel", "sum", "total">>)
  <2>1. IsJob(b) /\ b.kind = "cancel_advance" /\ b.todo = <<"refund", "cancel", "sum", "total">>
        /\ b.amount = 0
    BY JobIs
  <2>2. PICK j : j = [b EXCEPT !.row = advance.expense]  OBVIOUS
  <2>3. Begin(r, j)  BY <1>4, <2>2 DEF BeginCancelAdvance
  <2> HIDE DEF b
  <2>4. /\ IsJob(j) /\ j.kind = b.kind /\ j.todo = b.todo /\ j.amount = b.amount
        /\ j.row = advance.expense
    BY <2>1, <2>2 DEF IsJob
  <2>5. BegunOnAdvance(j)
    BY <1>4, <2>1, <2>4 DEF BeginCancelAdvance, BegunOnAdvance
  <2> QED BY <2>3, <2>4, <2>5 DEF HasBegun
<1>5. ASSUME BeginCancelEmployeeAdvance(r, u) PROVE HasBegun(r)
  <2> DEFINE b == Job("cancel_employee_advance", IF advance.status = "paid" THEN <<"refund",
        "cancel", "sum", "total">> ELSE <<"cancel", "sum", "total">>)
  <2>1. IsJob(b) /\ b.kind = "cancel_employee_advance"
        /\ b.todo = (IF advance.status = "paid" THEN <<"refund", "cancel", "sum", "total">>
             ELSE <<"cancel", "sum", "total">>) /\ b.amount = 0
    BY JobIs
  <2>2. PICK j : j = [b EXCEPT !.row = advance.expense]  OBVIOUS
  <2>3. Begin(r, j)  BY <1>5, <2>2 DEF BeginCancelEmployeeAdvance
  <2> HIDE DEF b
  <2>4. /\ IsJob(j) /\ j.kind = b.kind /\ j.todo = b.todo /\ j.amount = b.amount
        /\ j.row = advance.expense
    BY <2>1, <2>2 DEF IsJob
  <2>5. BegunOnAdvance(j)
    BY <1>5, <2>1, <2>4 DEF BeginCancelEmployeeAdvance, BegunOnAdvance
  <2> QED BY <2>3, <2>4, <2>5 DEF HasBegun
<1>6. ASSUME NEW a \in Amount, BeginApprovedAdvance(r, u, a) PROVE HasBegun(r)
  <2>1. ASSUME NEW earned, Begin(r, [Job("approved_advance", <<"approved">>)
          EXCEPT !.amount = a, !.earned = earned])
        PROVE HasBegun(r)
    <3> DEFINE b == Job("approved_advance", <<"approved">>)
    <3>1. IsJob(b) /\ b.kind = "approved_advance" /\ b.todo = <<"approved">> /\ b.amount = 0
      BY JobIs
    <3>2. PICK j : j = [b EXCEPT !.amount = a, !.earned = earned]  OBVIOUS
    <3>3. Begin(r, j)  BY <2>1, <3>2
    <3> HIDE DEF b
    <3>4. /\ IsJob(j) /\ j.kind = b.kind /\ j.todo = b.todo
          /\ j.amount = a
          /\ j.earned = earned
      BY <3>1, <3>2 DEF IsJob
    <3>5. BegunOnAdvance(j)
      BY <1>6, <2>1, <3>1, <3>4 DEF BeginApprovedAdvance, BegunOnAdvance
    <3> QED BY <3>3, <3>4, <3>5 DEF HasBegun
  <2> QED BY <1>6, <2>1 DEF BeginApprovedAdvance
<1>7. ASSUME NEW a \in Amount, BeginRaise(r, u, a) PROVE HasBegun(r)
  <2> DEFINE b == Job("raise", <<"raise">>)
  <2>1. IsJob(b) /\ b.kind = "raise" /\ b.todo = <<"raise">> /\ b.amount = 0  BY JobIs
  <2>2. PICK j : j = [b
          EXCEPT !.amount = a, !.to = IF advance.status = "canceled" THEN "canceled"
               ELSE "approved"]
    OBVIOUS
  <2>3. Begin(r, j)  BY <1>7, <2>2 DEF BeginRaise
  <2> HIDE DEF b
  <2>4. /\ IsJob(j) /\ j.kind = b.kind /\ j.todo = b.todo
        /\ j.amount = a
        /\ j.to = (IF advance.status = "canceled" THEN "canceled" ELSE "approved")
    BY <2>1, <2>2 DEF IsJob
  <2>5. BegunOnAdvance(j)
    BY <1>7, <2>1, <2>4 DEF BeginRaise, BegunOnAdvance
  <2> QED BY <2>3, <2>4, <2>5 DEF HasBegun
<1>8. ASSUME NEW k \in Tranche, NEW a \in Amount, BeginTranche(r, u, k, a) PROVE HasBegun(r)
  <2> DEFINE b == Job("tranche", <<"ceiling", "tranche", "sum", "total">>)
  <2>1. IsJob(b) /\ b.kind = "tranche" /\ b.todo = <<"ceiling", "tranche", "sum", "total">>
        /\ b.amount = 0
    BY JobIs
  <2>2. PICK j : j = [b EXCEPT !.row = k, !.amount = a, !.net = advance.approved]  OBVIOUS
  <2>3. Begin(r, j)  BY <1>8, <2>2 DEF BeginTranche
  <2> HIDE DEF b
  <2>4. /\ IsJob(j) /\ j.kind = b.kind /\ j.todo = b.todo
        /\ j.row = k
        /\ j.amount = a
        /\ j.net = advance.approved
    BY <2>1, <2>2 DEF IsJob
  <2>5. BegunOnAdvance(j)
    BY <1>8, <2>1, <2>4 DEF BeginTranche, BegunOnAdvance
  <2> QED BY <2>3, <2>4, <2>5 DEF HasBegun
<1>9. ASSUME NEW k \in Tranche, BeginReverseTranche(r, u, k) PROVE HasBegun(r)
  <2> DEFINE b == Job("reverse_tranche", IF calc # NoCalc THEN <<"refund", "reverse", "sum",
        "total">> ELSE <<"refund", "reverse">>)
  <2>1. IsJob(b) /\ b.kind = "reverse_tranche"
        /\ b.todo = (IF calc # NoCalc THEN <<"refund", "reverse", "sum", "total">>
             ELSE <<"refund", "reverse">>) /\ b.amount = 0
    BY JobIs
  <2>2. PICK j : j = [b EXCEPT !.row = k]  OBVIOUS
  <2>3. Begin(r, j)  BY <1>9, <2>2 DEF BeginReverseTranche
  <2> HIDE DEF b
  <2>4. /\ IsJob(j) /\ j.kind = b.kind /\ j.todo = b.todo /\ j.amount = b.amount
        /\ j.row = k
    BY <2>1, <2>2 DEF IsJob
  <2>5. BegunOnAdvance(j)
    BY <1>9, <2>1, <2>4 DEF BeginReverseTranche, BegunOnAdvance
  <2> QED BY <2>3, <2>4, <2>5 DEF HasBegun
<1> QED BY <1>1, <1>2, <1>3, <1>4, <1>5, <1>6, <1>7, <1>8, <1>9

\* Every handler of a change request begins with what BegunOnRequest says.
LEMMA ChangeBegins ==
  ASSUME NEW r \in Req, NEW u \in User,
         \/ \E a \in Amount, kind \in ChangeKind : BeginPropose(r, u, a, kind)
         \/ \E q \in Request : \/ BeginApproveChange(r, u, q) \/ BeginMaterialize(r, u, q)
                               \/ \E d \in DOMAIN StatusAfter : BeginDecide(r, u, q, d)
  PROVE  HasBegun(r)
<1>1. ASSUME NEW a \in Amount, NEW kind \in ChangeKind, BeginPropose(r, u, a, kind)
      PROVE HasBegun(r)
  <2> DEFINE b == Job("propose", <<"propose">>)
  <2>1. IsJob(b) /\ b.kind = "propose" /\ b.todo = <<"propose">> /\ b.amount = 0  BY JobIs
  <2>2. PICK j : j = [b EXCEPT !.row = u, !.to = kind, !.amount = a]  OBVIOUS
  <2>3. Begin(r, j)  BY <1>1, <2>2 DEF BeginPropose
  <2> HIDE DEF b
  <2>4. /\ IsJob(j) /\ j.kind = b.kind /\ j.todo = b.todo
        /\ j.row = u
        /\ j.to = kind
        /\ j.amount = a
    BY <2>1, <2>2 DEF IsJob
  <2>5. BegunOnRequest(j)
    BY <1>1, <2>1, <2>4 DEF BeginPropose, BegunOnRequest
  <2> QED BY <2>3, <2>4, <2>5 DEF HasBegun
<1>2. ASSUME NEW q \in Request, BeginApproveChange(r, u, q) PROVE HasBegun(r)
  <2> DEFINE b == Job("approve_change", Effect(request[q].kind))
  <2>1. IsJob(b) /\ b.kind = "approve_change" /\ b.todo = Effect(request[q].kind)
        /\ b.amount = 0
    BY JobIs
  <2>2. PICK j : j = [b EXCEPT !.row = q, !.amount = request[q].amount]  OBVIOUS
  <2>3. Begin(r, j)  BY <1>2, <2>2 DEF BeginApproveChange
  <2> HIDE DEF b
  <2>4. /\ IsJob(j) /\ j.kind = b.kind /\ j.todo = b.todo
        /\ j.row = q
        /\ j.amount = request[q].amount
    BY <2>1, <2>2 DEF IsJob
  <2>5. BegunOnRequest(j)
    BY <1>2, <2>1, <2>4 DEF BeginApproveChange, BegunOnRequest
  <2> QED BY <2>3, <2>4, <2>5 DEF HasBegun
<1>3. ASSUME NEW q \in Request, BeginMaterialize(r, u, q) PROVE HasBegun(r)
  <2> DEFINE b == Job("materialize", <<"version">>)
  <2>1. IsJob(b) /\ b.kind = "materialize" /\ b.todo = <<"version">> /\ b.amount = 0  BY JobIs
  <2>2. PICK j : j = [b EXCEPT !.row = q]  OBVIOUS
  <2>3. Begin(r, j)  BY <1>3, <2>2 DEF BeginMaterialize
  <2> HIDE DEF b
  <2>4. /\ IsJob(j) /\ j.kind = b.kind /\ j.todo = b.todo /\ j.amount = b.amount
        /\ j.row = q
    BY <2>1, <2>2 DEF IsJob
  <2>5. BegunOnRequest(j)
    BY <1>3, <2>1, <2>4 DEF BeginMaterialize, BegunOnRequest
  <2> QED BY <2>3, <2>4, <2>5 DEF HasBegun
<1>4. ASSUME NEW q \in Request, NEW d \in DOMAIN StatusAfter, BeginDecide(r, u, q, d)
      PROVE HasBegun(r)
  <2> DEFINE b == Job("decide", <<"decide">>)
  <2>1. IsJob(b) /\ b.kind = "decide" /\ b.todo = <<"decide">> /\ b.amount = 0  BY JobIs
  <2>2. PICK j : j = [b EXCEPT !.row = q, !.to = StatusAfter[d]]  OBVIOUS
  <2>3. Begin(r, j)  BY <1>4, <2>2 DEF BeginDecide
  <2> HIDE DEF b
  <2>4. /\ IsJob(j) /\ j.kind = b.kind /\ j.todo = b.todo /\ j.amount = b.amount
        /\ j.row = q
        /\ j.to = StatusAfter[d]
    BY <2>1, <2>2 DEF IsJob
  <2>5. BegunOnRequest(j)
    BY <1>4, <2>1, <2>4 DEF BeginDecide, BegunOnRequest
  <2> QED BY <2>3, <2>4, <2>5 DEF HasBegun
<1> QED BY <1>1, <1>2, <1>3, <1>4

\* The page of expenses begins with what BegunOnPage says.
LEMMA PageBegins ==
  ASSUME NEW r \in Req, NEW u \in User, NEW e \in Payout,
         \/ BeginCancelExpense(r, u, e)
         \/ \E a \in Amount \cup {0} : BeginEditExpense(r, u, e, a)
  PROVE  HasBegun(r)
<1>1. ASSUME BeginCancelExpense(r, u, e) PROVE HasBegun(r)
  <2> DEFINE b == Job("cancel_expense", <<"page">>)
  <2>1. IsJob(b) /\ b.kind = "cancel_expense" /\ b.todo = <<"page">> /\ b.amount = 0  BY JobIs
  <2>2. PICK j : j = [b EXCEPT !.row = e]  OBVIOUS
  <2>3. Begin(r, j)  BY <1>1, <2>2 DEF BeginCancelExpense
  <2> HIDE DEF b
  <2>4. IsJob(j) /\ j.kind = b.kind /\ j.todo = b.todo /\ j.row = e  BY <2>1, <2>2 DEF IsJob
  <2>5. BegunOnPage(j)  BY <2>1, <2>4 DEF BegunOnPage
  <2> QED BY <2>3, <2>4, <2>5 DEF HasBegun
<1>2. ASSUME NEW a \in Amount \cup {0}, BeginEditExpense(r, u, e, a) PROVE HasBegun(r)
  <2> DEFINE b == Job("edit_expense", <<"page">>)
  <2>1. IsJob(b) /\ b.kind = "edit_expense" /\ b.todo = <<"page">> /\ b.amount = 0  BY JobIs
  <2>2. PICK j : j = [b EXCEPT !.row = e, !.amount = a]  OBVIOUS
  <2>3. Begin(r, j)  BY <1>2, <2>2 DEF BeginEditExpense
  <2> HIDE DEF b
  <2>4. IsJob(j) /\ j.kind = b.kind /\ j.todo = b.todo /\ j.row = e  BY <2>1, <2>2 DEF IsJob
  <2>5. BegunOnPage(j)  BY <2>1, <2>4 DEF BegunOnPage
  <2> QED BY <2>3, <2>4, <2>5 DEF HasBegun
<1> QED BY <1>1, <1>2

\* A step of the system is a beginning or a statement.
LEMMA NextIs ==
  ASSUME Next
  PROVE  \E r \in Req : HasBegun(r) \/ Statement(r)
<1>1. CASE PeriodNext  BY <1>1, PeriodBegins DEF PeriodNext, Statement
<1>2. CASE AdvanceNext  BY <1>2, AdvanceBegins DEF AdvanceNext, Statement
<1>3. CASE ChangeNext  BY <1>3, ChangeBegins DEF ChangeNext, Statement
<1>4. CASE SharedNext  BY <1>4 DEF SharedNext, Statement
<1>5. CASE PageNext  BY <1>5, PageBegins DEF PageNext, Statement
<1> QED BY <1>1, <1>2, <1>3, <1>4, <1>5 DEF Next

\* The plans that handlers begin with.
LEMMA Starts ==
  /\ Planned("create", <<"create">>)
  /\ Planned("generate", <<"seed">>)
  /\ Planned("generate", <<"seed", "sum", "total">>)
  /\ Planned("inputs", <<"inputs", "sum", "total">>)
  /\ Planned("transition", <<"move">>)
  /\ Planned("transition", <<"move", "lock", "bill", "owe">>)
  /\ Planned("transition", <<"move", "remainder", "debt", "shut">>)
  /\ Planned("adjust", <<"adjust", "sum", "total">>)
  /\ Planned("cancel_adjustment", <<"unadjust", "sum", "total">>)
  /\ Planned("payment", <<"start", "commit">>)
  /\ Planned("reversal", <<"start", "commit">>)
  /\ Planned("settle", <<"repay", "settle">>)
  /\ Planned("writeoff", <<"writeoff">>)
  /\ Planned("advance", <<"fold", "issue">>)
  /\ Planned("employee_advance", <<"record", "fold", "payout">>)
  /\ Planned("employee_advance", <<"request">>)
  /\ Planned("approve_advance", <<"fold", "payout">>)
  /\ Planned("cancel_advance", <<"refund", "cancel", "sum", "total">>)
  /\ Planned("cancel_employee_advance", <<"refund", "cancel", "sum", "total">>)
  /\ Planned("cancel_employee_advance", <<"cancel", "sum", "total">>)
  /\ Planned("approved_advance", <<"approved">>)
  /\ Planned("raise", <<"raise">>)
  /\ Planned("tranche", <<"ceiling", "tranche", "sum", "total">>)
  /\ Planned("reverse_tranche", <<"refund", "reverse", "sum", "total">>)
  /\ Planned("reverse_tranche", <<"refund", "reverse">>)
  /\ Planned("propose", <<"propose">>)
  /\ Planned("decide", <<"decide">>)
  /\ Planned("materialize", <<"version">>)
  /\ Planned("approve_change", <<"claim", "bonus", "sum", "total", "applied">>)
  /\ Planned("approve_change", <<"claim", "overrides", "override", "effective", "auto", "sum",
       "total", "applied">>)
  /\ Planned("approve_change", <<"claim", "pending", "version">>)
  /\ Planned("approve_change", <<"release">>)
  /\ Planned("cancel_expense", <<"page">>)
  /\ Planned("edit_expense", <<"page">>)
<1>1. Planned("create", <<"create">>)
  <2>1. First(<<"create">>, "create", <<>>)  BY Firsts
  <2>2. Course("create", "create", <<>>)  BY DEF Course
  <2> QED BY <2>1, <2>2 DEF Planned
<1>2. Planned("generate", <<"seed">>)
  <2>1. First(<<"seed">>, "seed", <<>>)  BY Firsts
  <2>2. Course("generate", "seed", <<>>)  BY DEF Course
  <2> QED BY <2>1, <2>2 DEF Planned
<1>3. Planned("generate", <<"seed", "sum", "total">>)
  <2>1. First(<<"seed", "sum", "total">>, "seed", <<"sum", "total">>)  BY Firsts
  <2>2. Course("generate", "seed", <<"sum", "total">>)  BY DEF Course
  <2> QED BY <2>1, <2>2 DEF Planned
<1>4. Planned("inputs", <<"inputs", "sum", "total">>)
  <2>1. First(<<"inputs", "sum", "total">>, "inputs", <<"sum", "total">>)  BY Firsts
  <2>2. Course("inputs", "inputs", <<"sum", "total">>)  BY DEF Course
  <2> QED BY <2>1, <2>2 DEF Planned
<1>5. Planned("transition", <<"move">>)
  <2>1. First(<<"move">>, "move", <<>>)  BY Firsts
  <2>2. Course("transition", "move", <<>>)  BY DEF Course
  <2> QED BY <2>1, <2>2 DEF Planned
<1>6. Planned("transition", <<"move", "lock", "bill", "owe">>)
  <2>1. First(<<"move", "lock", "bill", "owe">>, "move", <<"lock", "bill", "owe">>)  BY Firsts
  <2>2. Course("transition", "move", <<"lock", "bill", "owe">>)  BY DEF Course
  <2> QED BY <2>1, <2>2 DEF Planned
<1>7. Planned("transition", <<"move", "remainder", "debt", "shut">>)
  <2>1. First(<<"move", "remainder", "debt", "shut">>, "move", <<"remainder", "debt", "shut">>)
    BY Firsts
  <2>2. Course("transition", "move", <<"remainder", "debt", "shut">>)  BY DEF Course
  <2> QED BY <2>1, <2>2 DEF Planned
<1>8. Planned("adjust", <<"adjust", "sum", "total">>)
  <2>1. First(<<"adjust", "sum", "total">>, "adjust", <<"sum", "total">>)  BY Firsts
  <2>2. Course("adjust", "adjust", <<"sum", "total">>)  BY DEF Course
  <2> QED BY <2>1, <2>2 DEF Planned
<1>9. Planned("cancel_adjustment", <<"unadjust", "sum", "total">>)
  <2>1. First(<<"unadjust", "sum", "total">>, "unadjust", <<"sum", "total">>)  BY Firsts
  <2>2. Course("cancel_adjustment", "unadjust", <<"sum", "total">>)  BY DEF Course
  <2> QED BY <2>1, <2>2 DEF Planned
<1>10. Planned("payment", <<"start", "commit">>)
  <2>1. First(<<"start", "commit">>, "start", <<"commit">>)  BY Firsts
  <2>2. Course("payment", "start", <<"commit">>)  BY DEF Course
  <2> QED BY <2>1, <2>2 DEF Planned
<1>11. Planned("reversal", <<"start", "commit">>)
  <2>1. First(<<"start", "commit">>, "start", <<"commit">>)  BY Firsts
  <2>2. Course("reversal", "start", <<"commit">>)  BY DEF Course
  <2> QED BY <2>1, <2>2 DEF Planned
<1>12. Planned("settle", <<"repay", "settle">>)
  <2>1. First(<<"repay", "settle">>, "repay", <<"settle">>)  BY Firsts
  <2>2. Course("settle", "repay", <<"settle">>)  BY DEF Course
  <2> QED BY <2>1, <2>2 DEF Planned
<1>13. Planned("writeoff", <<"writeoff">>)
  <2>1. First(<<"writeoff">>, "writeoff", <<>>)  BY Firsts
  <2>2. Course("writeoff", "writeoff", <<>>)  BY DEF Course
  <2> QED BY <2>1, <2>2 DEF Planned
<1>14. Planned("advance", <<"fold", "issue">>)
  <2>1. First(<<"fold", "issue">>, "fold", <<"issue">>)  BY Firsts
  <2>2. Course("advance", "fold", <<"issue">>)  BY DEF Course
  <2> QED BY <2>1, <2>2 DEF Planned
<1>15. Planned("employee_advance", <<"record", "fold", "payout">>)
  <2>1. First(<<"record", "fold", "payout">>, "record", <<"fold", "payout">>)  BY Firsts
  <2>2. Course("employee_advance", "record", <<"fold", "payout">>)  BY DEF Course
  <2> QED BY <2>1, <2>2 DEF Planned
<1>16. Planned("employee_advance", <<"request">>)
  <2>1. First(<<"request">>, "request", <<>>)  BY Firsts
  <2>2. Course("employee_advance", "request", <<>>)  BY DEF Course
  <2> QED BY <2>1, <2>2 DEF Planned
<1>17. Planned("approve_advance", <<"fold", "payout">>)
  <2>1. First(<<"fold", "payout">>, "fold", <<"payout">>)  BY Firsts
  <2>2. Course("approve_advance", "fold", <<"payout">>)  BY DEF Course
  <2> QED BY <2>1, <2>2 DEF Planned
<1>18. Planned("cancel_advance", <<"refund", "cancel", "sum", "total">>)
  <2>1. First(<<"refund", "cancel", "sum", "total">>, "refund", <<"cancel", "sum", "total">>)
    BY Firsts
  <2>2. Course("cancel_advance", "refund", <<"cancel", "sum", "total">>)  BY DEF Course
  <2> QED BY <2>1, <2>2 DEF Planned
<1>19. Planned("cancel_employee_advance", <<"refund", "cancel", "sum", "total">>)
  <2>1. First(<<"refund", "cancel", "sum", "total">>, "refund", <<"cancel", "sum", "total">>)
    BY Firsts
  <2>2. Course("cancel_employee_advance", "refund", <<"cancel", "sum", "total">>)  BY DEF Course
  <2> QED BY <2>1, <2>2 DEF Planned
<1>20. Planned("cancel_employee_advance", <<"cancel", "sum", "total">>)
  <2>1. First(<<"cancel", "sum", "total">>, "cancel", <<"sum", "total">>)  BY Firsts
  <2>2. Course("cancel_employee_advance", "cancel", <<"sum", "total">>)  BY DEF Course
  <2> QED BY <2>1, <2>2 DEF Planned
<1>21. Planned("approved_advance", <<"approved">>)
  <2>1. First(<<"approved">>, "approved", <<>>)  BY Firsts
  <2>2. Course("approved_advance", "approved", <<>>)  BY DEF Course
  <2> QED BY <2>1, <2>2 DEF Planned
<1>22. Planned("raise", <<"raise">>)
  <2>1. First(<<"raise">>, "raise", <<>>)  BY Firsts
  <2>2. Course("raise", "raise", <<>>)  BY DEF Course
  <2> QED BY <2>1, <2>2 DEF Planned
<1>23. Planned("tranche", <<"ceiling", "tranche", "sum", "total">>)
  <2>1. First(<<"ceiling", "tranche", "sum", "total">>, "ceiling", <<"tranche", "sum",
          "total">>)
    BY Firsts
  <2>2. Course("tranche", "ceiling", <<"tranche", "sum", "total">>)  BY DEF Course
  <2> QED BY <2>1, <2>2 DEF Planned
<1>24. Planned("reverse_tranche", <<"refund", "reverse", "sum", "total">>)
  <2>1. First(<<"refund", "reverse", "sum", "total">>, "refund", <<"reverse", "sum", "total">>)
    BY Firsts
  <2>2. Course("reverse_tranche", "refund", <<"reverse", "sum", "total">>)  BY DEF Course
  <2> QED BY <2>1, <2>2 DEF Planned
<1>25. Planned("reverse_tranche", <<"refund", "reverse">>)
  <2>1. First(<<"refund", "reverse">>, "refund", <<"reverse">>)  BY Firsts
  <2>2. Course("reverse_tranche", "refund", <<"reverse">>)  BY DEF Course
  <2> QED BY <2>1, <2>2 DEF Planned
<1>26. Planned("propose", <<"propose">>)
  <2>1. First(<<"propose">>, "propose", <<>>)  BY Firsts
  <2>2. Course("propose", "propose", <<>>)  BY DEF Course
  <2> QED BY <2>1, <2>2 DEF Planned
<1>27. Planned("decide", <<"decide">>)
  <2>1. First(<<"decide">>, "decide", <<>>)  BY Firsts
  <2>2. Course("decide", "decide", <<>>)  BY DEF Course
  <2> QED BY <2>1, <2>2 DEF Planned
<1>28. Planned("materialize", <<"version">>)
  <2>1. First(<<"version">>, "version", <<>>)  BY Firsts
  <2>2. Course("materialize", "version", <<>>)  BY DEF Course
  <2> QED BY <2>1, <2>2 DEF Planned
<1>29. Planned("approve_change", <<"claim", "bonus", "sum", "total", "applied">>)
  <2>1. First(<<"claim", "bonus", "sum", "total", "applied">>, "claim", <<"bonus", "sum",
          "total", "applied">>)
    BY Firsts
  <2>2. Course("approve_change", "claim", <<"bonus", "sum", "total", "applied">>)  BY DEF Course
  <2> QED BY <2>1, <2>2 DEF Planned
<1>30. Planned("approve_change", <<"claim", "overrides", "override", "effective", "auto",
         "sum", "total", "applied">>)
  <2>1. First(<<"claim", "overrides", "override", "effective", "auto", "sum", "total",
          "applied">>, "claim", <<"overrides", "override", "effective", "auto", "sum", "total",
               "applied">>)
    BY Firsts
  <2>2. Course("approve_change", "claim", <<"overrides", "override", "effective", "auto",
          "sum", "total", "applied">>)
    BY DEF Course
  <2> QED BY <2>1, <2>2 DEF Planned
<1>31. Planned("approve_change", <<"claim", "pending", "version">>)
  <2>1. First(<<"claim", "pending", "version">>, "claim", <<"pending", "version">>)  BY Firsts
  <2>2. Course("approve_change", "claim", <<"pending", "version">>)  BY DEF Course
  <2> QED BY <2>1, <2>2 DEF Planned
<1>32. Planned("approve_change", <<"release">>)
  <2>1. First(<<"release">>, "release", <<>>)  BY Firsts
  <2>2. Course("approve_change", "release", <<>>)  BY DEF Course
  <2> QED BY <2>1, <2>2 DEF Planned
<1>33. Planned("cancel_expense", <<"page">>) /\ Planned("edit_expense", <<"page">>)
  <2>1. First(<<"page">>, "page", <<>>)  BY Firsts
  <2>2. Course("cancel_expense", "page", <<>>) /\ Course("edit_expense", "page", <<>>)
    BY DEF Course
  <2> QED BY <2>1, <2>2 DEF Planned
<1> QED BY <1>1, <1>2, <1>3, <1>4, <1>5, <1>6, <1>7, <1>8, <1>9, <1>10, <1>11, <1>12, <1>13,
      <1>14, <1>15, <1>16, <1>17, <1>18, <1>19, <1>20, <1>21, <1>22, <1>23, <1>24, <1>25,
        <1>26, <1>27, <1>28, <1>29, <1>30, <1>31, <1>32, <1>33

\* The job that begins is on its course.
LEMMA BegunKeepsPlaced ==
  ASSUME Placed, NEW r \in Req, HasBegun(r)
  PROVE  Placed'
<1>1. PICK j : /\ Begin(r, j) /\ IsJob(j)
               /\ \/ BegunOnPeriod(j)
                  \/ BegunOnAdvance(j)
                  \/ BegunOnRequest(j)
                  \/ BegunOnPage(j)
  BY DEF HasBegun
<1>2. CASE BegunOnPeriod(j)
  <2>1. Planned(j.kind, j.todo)
    <3>1. CASE j.kind = "transition"
      <4>1. PICK action \in PayrollAction : j.todo = Consequences(action)
        BY <1>2, <3>1 DEF BegunOnPeriod
      <4>2. j.todo \in {<<"move">>, <<"move", "lock", "bill", "owe">>,
                        <<"move", "remainder", "debt", "shut">>}
        BY <4>1 DEF Consequences
      <4> QED BY <4>2, <3>1, Starts
    <3>2. CASE j.kind # "transition"
      BY <1>2, <3>2, Starts DEF BegunOnPeriod
    <3> QED BY <3>1, <3>2
  <2>2. j.kind \notin {"propose"} \cup OnRequest  BY <1>2 DEF BegunOnPeriod, OnRequest
  <2> QED BY <1>1, <2>1, <2>2, JobsBegin
<1>3. CASE BegunOnAdvance(j)
  <2>1. Planned(j.kind, j.todo)  BY <1>3, Starts DEF BegunOnAdvance
  <2>2. j.kind \notin {"propose"} \cup OnRequest  BY <1>3 DEF BegunOnAdvance, OnRequest
  <2> QED BY <1>1, <2>1, <2>2, JobsBegin
<1>4. CASE BegunOnRequest(j)
  <2>1. j.kind = "propose" => j.to \in ChangeKind
    BY <1>4 DEF BegunOnRequest
  <2>2. ASSUME j.kind \in OnRequest
        PROVE j.row \in Request /\ request[j.row].kind \in ChangeKind
    <3>1. j.row \in Request  BY <1>4, <2>2 DEF BegunOnRequest, OnRequest
    <3>2. CASE j.kind = "materialize"  BY <1>4, <3>1, <3>2 DEF BegunOnRequest, ChangeKind
    <3>3. CASE j.kind # "materialize"
      <4>1. request[j.row].status \in {"submitted", "under_review", "returned_for_revision"}
        BY <1>4, <2>2, <3>3 DEF BegunOnRequest, OnRequest, AllowedFrom, StatusAfter
      <4>2. request[j.row] # NoRequest  BY <4>1 DEF NoRequest
      <4>3. IsRequest(request[j.row])  BY <3>1 DEF Placed
      <4> QED BY <3>1, <4>2, <4>3 DEF IsRequest
    <3> QED BY <3>2, <3>3
  <2>3. Planned(j.kind, j.todo)
    <3>1. CASE j.kind = "approve_change"
      <4>1. request[j.row].kind \in ChangeKind /\ j.todo = Effect(request[j.row].kind)
        BY <1>4, <2>2, <3>1 DEF BegunOnRequest, OnRequest
      <4> DEFINE kind == request[j.row].kind
      <4>2. CASE kind = "bonus"  BY <4>1, <4>2, <3>1, Starts DEF Effect
      <4>3. CASE kind = "override"  BY <4>1, <4>3, <3>1, Starts DEF Effect
      <4>4. CASE kind = "future"  BY <4>1, <4>4, <3>1, Starts DEF Effect
      <4> QED BY <4>1, <4>2, <4>3, <4>4 DEF ChangeKind
    <3>2. CASE j.kind # "approve_change"  BY <1>4, <3>2, Starts DEF BegunOnRequest
    <3> QED BY <3>1, <3>2
  <2> QED BY <1>1, <2>1, <2>2, <2>3, JobsBegin
<1>5. CASE BegunOnPage(j)
  <2>1. Planned(j.kind, j.todo)  BY <1>5, Starts DEF BegunOnPage
  <2>2. j.kind \notin {"propose"} \cup OnRequest  BY <1>5 DEF BegunOnPage, OnRequest
  <2> QED BY <1>1, <2>1, <2>2, JobsBegin
<1> QED BY <1>1, <1>2, <1>3, <1>4, <1>5

\* A statement of a handler: it goes on, and the others stay where they are.
Stepped(r) ==
  UnderWay(r) /\ GoneOn(r, job'[r]) /\ OthersStay(r) /\ scenario' = scenario

\* The page of expenses writes an expense, and ends.
LEMMA RewriteIs ==
  ASSUME NEW r \in Req, RewriteExpense(r)
  PROVE  /\ At(r, "page") /\ job'[r] = Rest(job[r]) /\ OthersStay(r)
         /\ UNCHANGED <<period, calc, adjustment, payment, advance, tranche, owed, debt, request,
                        scenario>>
BY DEF RewriteExpense, OthersStay

\* A step that only takes the job to what remains of it, or to its end.
LEMMA GoesOn ==
  ASSUME Placed, NEW r \in Req, NEW t, At(r, t),
         Proceed(r) \/ ProceedWriting(r) \/ Finish(r)
  PROVE  Stepped(r)
<1>1. IsJob(job[r])  BY DEF Placed
<1>2. GoneOn(r, Rest(job[r])) /\ UnderWay(r)  BY <1>1, Remains
<1>3. CASE Proceed(r)
  <2>1. Set(r, Rest(job[r]))  BY <1>3 DEF Proceed
  <2>2. job'[r] = Rest(job[r]) /\ OthersStay(r) /\ scenario' = scenario  BY <2>1, SetIs
  <2> QED BY <1>2, <2>2 DEF Stepped
<1>4. CASE ProceedWriting(r)
  <2>1. job'[r] = Rest(job[r]) /\ OthersStay(r) /\ scenario' = scenario
    BY <1>4, ProceedWritingIs
  <2> QED BY <1>2, <2>1 DEF Stepped
<1>5. CASE Finish(r)
  <2>1. Set(r, Idle)  BY <1>5 DEF Finish
  <2>2. job'[r] = Idle /\ OthersStay(r) /\ scenario' = scenario  BY <2>1, SetIs
  <2>3. GoneOn(r, Idle)  BY DEF GoneOn
  <2> QED BY <1>2, <2>2, <2>3 DEF Stepped
<1> QED BY <1>3, <1>4, <1>5

\* A step that notes something in the job, and takes it to what remains.
LEMMA NotesAndGoesOn ==
  ASSUME Placed, NEW r \in Req, NEW t, At(r, t),
         NEW j, Set(r, Rest(j)), IsJob(j),
         j.todo = job[r].todo, j.kind = job[r].kind, j.row = job[r].row,
         j.kind = "propose" => j.to = job[r].to
  PROVE  Stepped(r)
<1>1. GoneOn(r, Rest(j)) /\ UnderWay(r)  BY Remains
<1>2. job'[r] = Rest(j) /\ OthersStay(r) /\ scenario' = scenario  BY SetIs
<1> QED BY <1>1, <1>2 DEF Stepped

\* The totals that are noted in a job.
LEMMA SummedIs ==
  ASSUME NEW j, IsJob(j), NEW a, NEW p
  PROVE  /\ IsJob(Summed(j, a, p)) /\ Summed(j, a, p).kind = j.kind
         /\ Summed(j, a, p).todo = j.todo /\ Summed(j, a, p).row = j.row
         /\ Summed(j, a, p).to = j.to /\ Summed(j, a, p).amount = j.amount
         /\ Summed(j, a, p).earned = j.earned
         /\ Summed(j, a, p).overrides = j.overrides
         /\ Summed(j, a, p).net = AccruedNet(calc.auto)
         /\ Summed(j, a, p).paid = PaidTotal(a, p)
<1>1. PICK n, m : n = AccruedNet(calc.auto) /\ m = PaidTotal(a, p)  OBVIOUS
<1>2. PICK k : k = [j EXCEPT !.net = n, !.paid = m]  OBVIOUS
<1>3. Summed(j, a, p) = k  BY <1>1, <1>2 DEF Summed
<1>4. /\ IsJob(k) /\ k.kind = j.kind /\ k.todo = j.todo /\ k.row = j.row /\ k.to = j.to
      /\ k.amount = j.amount /\ k.earned = j.earned /\ k.overrides = j.overrides
      /\ k.net = n /\ k.paid = m
  BY <1>2 DEF IsJob
<1> QED BY <1>1, <1>3, <1>4

\* Every statement is a step of its handler.
LEMMA StatementSteps ==
  ASSUME Placed, NEW r \in Req, Statement(r)
  PROVE  Stepped(r)
<1>1. CASE Create(r)
  <2>1. /\ At(r, "create")
        /\ Proceed(r) \/ ProceedWriting(r) \/ Finish(r)
    BY <1>1 DEF Create
  <2> QED BY <2>1, GoesOn
<1>2. CASE Seed(r)
  <2>1. /\ At(r, "seed")
        /\ Proceed(r) \/ ProceedWriting(r) \/ Finish(r)
    BY <1>2 DEF Seed
  <2> QED BY <2>1, GoesOn
<1>3. CASE Inputs(r)
  <2>1. /\ At(r, "inputs")
        /\ Proceed(r) \/ ProceedWriting(r) \/ Finish(r)
    BY <1>3 DEF Inputs
  <2> QED BY <2>1, GoesOn
<1>4. CASE MovePeriod(r)
  <2>1. /\ At(r, "move")
        /\ Proceed(r) \/ ProceedWriting(r) \/ Finish(r)
    BY <1>4 DEF MovePeriod
  <2> QED BY <2>1, GoesOn
<1>5. CASE Lock(r)
  <2>1. /\ At(r, "lock")
        /\ Proceed(r) \/ ProceedWriting(r) \/ Finish(r)
    BY <1>5 DEF Lock
  <2> QED BY <2>1, GoesOn
<1>6. CASE Owe(r)
  <2>1. /\ At(r, "owe")
        /\ Proceed(r) \/ ProceedWriting(r) \/ Finish(r)
    BY <1>6 DEF Owe
  <2> QED BY <2>1, GoesOn
<1>7. CASE OpenDebt(r)
  <2>1. /\ At(r, "debt")
        /\ Proceed(r) \/ ProceedWriting(r) \/ Finish(r)
    BY <1>7 DEF OpenDebt
  <2> QED BY <2>1, GoesOn
<1>8. CASE Shut(r)
  <2>1. /\ At(r, "shut")
        /\ Proceed(r) \/ ProceedWriting(r) \/ Finish(r)
    BY <1>8 DEF Shut
  <2> QED BY <2>1, GoesOn
<1>9. CASE Adjust(r)
  <2>1. /\ At(r, "adjust")
        /\ Proceed(r) \/ ProceedWriting(r) \/ Finish(r)
    BY <1>9 DEF Adjust
  <2> QED BY <2>1, GoesOn
<1>10. CASE CancelAdjustment(r)
  <2>1. /\ At(r, "unadjust")
        /\ Proceed(r) \/ ProceedWriting(r) \/ Finish(r)
    BY <1>10 DEF CancelAdjustment
  <2> QED BY <2>1, GoesOn
<1>11. CASE CommitPayment(r)
  <2>1. /\ At(r, "commit")
        /\ Proceed(r) \/ ProceedWriting(r) \/ Finish(r)
    BY <1>11 DEF CommitPayment
  <2> QED BY <2>1, GoesOn
<1>12. CASE CommitReversal(r)
  <2>1. /\ At(r, "commit")
        /\ Proceed(r) \/ ProceedWriting(r) \/ Finish(r)
    BY <1>12 DEF CommitReversal
  <2> QED BY <2>1, GoesOn
<1>13. CASE Repay(r)
  <2>1. /\ At(r, "repay")
        /\ Proceed(r) \/ ProceedWriting(r) \/ Finish(r)
    BY <1>13 DEF Repay
  <2> QED BY <2>1, GoesOn
<1>14. CASE Settle(r)
  <2>1. /\ At(r, "settle")
        /\ Proceed(r) \/ ProceedWriting(r) \/ Finish(r)
    BY <1>14 DEF Settle
  <2> QED BY <2>1, GoesOn
<1>15. CASE WriteOff(r)
  <2>1. /\ At(r, "writeoff")
        /\ Proceed(r) \/ ProceedWriting(r) \/ Finish(r)
    BY <1>15 DEF WriteOff
  <2> QED BY <2>1, GoesOn
<1>16. CASE Issue(r)
  <2>1. /\ At(r, "issue")
        /\ Proceed(r) \/ ProceedWriting(r) \/ Finish(r)
    BY <1>16 DEF Issue
  <2> QED BY <2>1, GoesOn
<1>17. CASE PayAdvance(r)
  <2>1. /\ At(r, "payout")
        /\ Proceed(r) \/ ProceedWriting(r) \/ Finish(r)
    BY <1>17 DEF PayAdvance
  <2> QED BY <2>1, GoesOn
<1>18. CASE CancelAdvance(r)
  <2>1. /\ At(r, "cancel")
        /\ Proceed(r) \/ ProceedWriting(r) \/ Finish(r)
    BY <1>18 DEF CancelAdvance
  <2> QED BY <2>1, GoesOn
<1>19. CASE Raise(r)
  <2>1. /\ At(r, "raise")
        /\ Proceed(r) \/ ProceedWriting(r) \/ Finish(r)
    BY <1>19 DEF Raise
  <2> QED BY <2>1, GoesOn
<1>20. CASE Ceiling(r)
  <2>1. /\ At(r, "ceiling")
        /\ Proceed(r) \/ ProceedWriting(r) \/ Finish(r)
    BY <1>20 DEF Ceiling, rows
  <2> QED BY <2>1, GoesOn
<1>21. CASE PayTranche(r)
  <2>1. /\ At(r, "tranche")
        /\ Proceed(r) \/ ProceedWriting(r) \/ Finish(r)
    BY <1>21 DEF PayTranche
  <2> QED BY <2>1, GoesOn
<1>22. CASE ReverseTranche(r)
  <2>1. /\ At(r, "reverse")
        /\ Proceed(r) \/ ProceedWriting(r) \/ Finish(r)
    BY <1>22 DEF ReverseTranche
  <2> QED BY <2>1, GoesOn
<1>23. CASE Bonus(r)
  <2>1. /\ At(r, "bonus")
        /\ Proceed(r) \/ ProceedWriting(r) \/ Finish(r)
    BY <1>23 DEF Bonus
  <2> QED BY <2>1, GoesOn
<1>24. CASE WriteOverrides(r)
  <2>1. /\ At(r, "override")
        /\ Proceed(r) \/ ProceedWriting(r) \/ Finish(r)
    BY <1>24 DEF WriteOverrides
  <2> QED BY <2>1, GoesOn
<1>25. CASE WriteAuto(r)
  <2>1. /\ At(r, "auto")
        /\ Proceed(r) \/ ProceedWriting(r) \/ Finish(r)
    BY <1>25 DEF WriteAuto
  <2> QED BY <2>1, GoesOn
<1>26. CASE Total(r)
  <2>1. /\ At(r, "total")
        /\ Proceed(r) \/ ProceedWriting(r) \/ Finish(r)
    BY <1>26 DEF Total
  <2> QED BY <2>1, GoesOn
<1>27. CASE Refund(r)
  <2>1. /\ At(r, "refund")
        /\ Proceed(r) \/ ProceedWriting(r) \/ Finish(r)
    BY <1>27 DEF Refund
  <2> QED BY <2>1, GoesOn
<1>28. CASE RequestAdvance(r)
  <2>1. /\ At(r, "request")
        /\ Proceed(r) \/ ProceedWriting(r) \/ Finish(r)
    BY <1>28 DEF RequestAdvance, Insert
  <2> QED BY <2>1, GoesOn
<1>29. CASE RecordAdvance(r)
  <2>1. /\ At(r, "record")
        /\ Proceed(r) \/ ProceedWriting(r) \/ Finish(r)
    BY <1>29 DEF RecordAdvance, Insert
  <2> QED BY <2>1, GoesOn
<1>30. CASE ApproveAmount(r)
  <2>1. /\ At(r, "approved")
        /\ Proceed(r) \/ ProceedWriting(r) \/ Finish(r)
    BY <1>30 DEF ApproveAmount, Insert
  <2> QED BY <2>1, GoesOn
<1>31. CASE Sum(r)
  <2>1. At(r, "sum")  BY <1>31 DEF Sum
  <2>2. CASE Finish(r)  BY <2>1, <2>2, GoesOn
  <2>3. CASE ~Finish(r)
    <3>1. PICK j : j = Summed(job[r], advance, payment) /\ Set(r, Rest(j))
      BY <1>31, <2>3 DEF Sum
    <3>2. IsJob(job[r])  BY DEF Placed
    <3>3. /\ IsJob(j) /\ j.todo = job[r].todo /\ j.kind = job[r].kind /\ j.row = job[r].row
          /\ j.kind = "propose" => j.to = job[r].to
      BY <3>1, <3>2, SummedIs
    <3> QED BY <2>1, <3>1, <3>3, NotesAndGoesOn
  <2> QED BY <2>2, <2>3
<1>32. CASE Bill(r)
  <2>1. At(r, "bill")  BY <1>32 DEF Bill
  <2>2. CASE Finish(r)  BY <2>1, <2>2, GoesOn
  <2>3. CASE ~Finish(r)
    <3>1. PICK j : j = [job[r] EXCEPT !.net = calc.net, !.paid = calc.paid] /\ Set(r, Rest(j))
      BY <1>32, <2>3 DEF Bill
    <3>2. IsJob(job[r])  BY DEF Placed
    <3>3. /\ IsJob(j) /\ j.todo = job[r].todo /\ j.kind = job[r].kind /\ j.row = job[r].row
          /\ j.kind = "propose" => j.to = job[r].to
      BY <3>1, <3>2 DEF IsJob
    <3> QED BY <2>1, <3>1, <3>3, NotesAndGoesOn
  <2> QED BY <2>2, <2>3
<1>33. CASE StartPayment(r)
  <2>1. At(r, "start")  BY <1>33 DEF StartPayment
  <2>2. CASE Finish(r)  BY <2>1, <2>2, GoesOn
  <2>3. CASE ~Finish(r)
    <3>1. PICK j : j = Summed(job[r], advance, [payment
            EXCEPT ![job[r].row] = [status |-> "confirmed", amount |-> job[r].amount]])
               /\ Set(r, Rest(j))
      BY <1>33, <2>3 DEF StartPayment
    <3>2. IsJob(job[r])  BY DEF Placed
    <3>3. /\ IsJob(j) /\ j.todo = job[r].todo /\ j.kind = job[r].kind /\ j.row = job[r].row
          /\ j.kind = "propose" => j.to = job[r].to
      BY <3>1, <3>2, SummedIs
    <3> QED BY <2>1, <3>1, <3>3, NotesAndGoesOn
  <2> QED BY <2>2, <2>3
<1>34. CASE StartReversal(r)
  <2>1. At(r, "start")  BY <1>34 DEF StartReversal
  <2>2. CASE Finish(r)  BY <2>1, <2>2, GoesOn
  <2>3. CASE ~Finish(r)
    <3>1. PICK j : j = Summed(job[r], advance, [payment
            EXCEPT ![job[r].row].status = "canceled"]) /\ Set(r, Rest(j))
      BY <1>34, <2>3 DEF StartReversal
    <3>2. IsJob(job[r])  BY DEF Placed
    <3>3. /\ IsJob(j) /\ j.todo = job[r].todo /\ j.kind = job[r].kind /\ j.row = job[r].row
          /\ j.kind = "propose" => j.to = job[r].to
      BY <3>1, <3>2, SummedIs
    <3> QED BY <2>1, <3>1, <3>3, NotesAndGoesOn
  <2> QED BY <2>2, <2>3
<1>35. CASE ReadOverrides(r)
  <2>1. At(r, "overrides")  BY <1>35 DEF ReadOverrides
  <2>2. CASE Finish(r)  BY <2>1, <2>2, GoesOn
  <2>3. CASE ~Finish(r)
    <3>1. PICK j : j = [job[r] EXCEPT !.overrides = calc.overrides \cup {job[r].row}]
          /\ Set(r, Rest(j))
      BY <1>35, <2>3 DEF ReadOverrides
    <3>2. IsJob(job[r])  BY DEF Placed
    <3>3. /\ IsJob(j) /\ j.todo = job[r].todo /\ j.kind = job[r].kind /\ j.row = job[r].row
          /\ j.kind = "propose" => j.to = job[r].to
      BY <3>1, <3>2 DEF IsJob
    <3> QED BY <2>1, <3>1, <3>3, NotesAndGoesOn
  <2> QED BY <2>2, <2>3
<1>36. CASE ReadEffective(r)
  <2>1. At(r, "effective")  BY <1>36 DEF ReadEffective
  <2>2. CASE Finish(r)  BY <2>1, <2>2, GoesOn
  <2>3. CASE ~Finish(r)
    <3>1. PICK j : j = [job[r] EXCEPT !.net = calc.base + SumOf(request, calc.overrides)]
          /\ Set(r, Rest(j))
      BY <1>36, <2>3 DEF ReadEffective
    <3>2. IsJob(job[r])  BY DEF Placed
    <3>3. /\ IsJob(j) /\ j.todo = job[r].todo /\ j.kind = job[r].kind /\ j.row = job[r].row
          /\ j.kind = "propose" => j.to = job[r].to
      BY <3>1, <3>2 DEF IsJob
    <3> QED BY <2>1, <3>1, <3>3, NotesAndGoesOn
  <2> QED BY <2>2, <2>3
<1>37. CASE Fold(r)
  <2>1. At(r, "fold")  BY <1>37 DEF Fold
  <2>2. PICK i, j : /\ i = Summed(job[r], Row("paid", job[r], None), payment)
                    /\ j = [i EXCEPT !.found = (calc # NoCalc)] /\ Set(r, Rest(j))
    BY <1>37 DEF Fold
  <2>3. IsJob(job[r])  BY DEF Placed
  <2>4. IsJob(i) /\ i.todo = job[r].todo /\ i.kind = job[r].kind /\ i.row = job[r].row
        /\ i.to = job[r].to
    BY <2>2, <2>3, SummedIs
  <2>5. /\ IsJob(j) /\ j.todo = job[r].todo /\ j.kind = job[r].kind /\ j.row = job[r].row
        /\ j.to = job[r].to
    BY <2>2, <2>4 DEF IsJob
  <2> QED BY <2>1, <2>2, <2>5, NotesAndGoesOn
<1>38. CASE Remainder(r)
  <2>1. At(r, "remainder")  BY <1>38 DEF Remainder
  <2>2. CASE Finish(r)  BY <2>1, <2>2, GoesOn
  <2>3. CASE ~Finish(r)
    <3>1. PICK j : j = [job[r] EXCEPT !.amount = Left.amount, !.to = Left.reason]
          /\ Set(r, Rest(j))
      BY <1>38, <2>3 DEF Remainder
    <3>2. IsJob(job[r])  BY DEF Placed
    <3>3. job[r].kind = "transition"
      <4>1. PICK rest : Course(job[r].kind, "remainder", rest)  BY <2>1, AtStep
      <4> QED BY <4>1 DEF Course
    <3>4. IsJob(j) /\ j.todo = job[r].todo /\ j.kind = job[r].kind /\ j.row = job[r].row
      BY <3>1, <3>2 DEF IsJob
    <3> QED BY <2>1, <3>1, <3>3, <3>4, NotesAndGoesOn
  <2> QED BY <2>2, <2>3
<1>39. CASE Retry(r)
  <2>1. At(r, "commit")  BY <1>39 DEF Retry
  <2>2. CASE Finish(r)  BY <2>1, <2>2, GoesOn
  <2>3. CASE ~Finish(r)
    <3>1. PICK j : /\ j = [job[r]
                        EXCEPT !.todo = <<"start", "commit">>, !.tries = @ + 1, !.stale = FALSE]
                   /\ Set(r, j)
      BY <1>39, <2>3 DEF Retry
    <3>2. IsJob(job[r]) /\ UnderWay(r)  BY <2>1, AtStep DEF Placed
    <3>3. job[r].kind \in {"payment", "reversal"}
      <4>1. PICK rest : Course(job[r].kind, "commit", rest)  BY <2>1, AtStep
      <4> QED BY <4>1 DEF Course
    <3>4. IsJob(j) /\ j.todo = <<"start", "commit">> /\ j.kind = job[r].kind
          /\ j.row = job[r].row
      BY <3>1, <3>2 DEF IsJob
    <3>5. Planned(j.kind, j.todo)  BY <3>3, <3>4, Starts
    <3>6. GoneOn(r, j)  BY <3>3, <3>4, <3>5 DEF GoneOn
    <3>7. job'[r] = j /\ OthersStay(r) /\ scenario' = scenario  BY <3>1, SetIs
    <3> QED BY <2>1, <3>2, <3>6, <3>7 DEF Stepped
  <2> QED BY <2>2, <2>3
<1>40. CASE FailApproval(r)
  <2>1. job[r].kind = "approve_change"  BY <1>40 DEF FailApproval
  <2>2. PICK j : j = [job[r] EXCEPT !.todo = <<"release">>] /\ Set(r, j)
    BY <1>40 DEF FailApproval
  <2>3. job[r] # Idle  BY <2>1 DEF Idle
  <2>4. IsJob(job[r]) /\ UnderWay(r)  BY <2>3 DEF Placed
  <2>5. IsJob(j) /\ j.todo = <<"release">> /\ j.kind = job[r].kind /\ j.row = job[r].row
    BY <2>2, <2>4 DEF IsJob
  <2>6. Planned(j.kind, j.todo)  BY <2>1, <2>5, Starts
  <2>7. GoneOn(r, j)  BY <2>1, <2>5, <2>6 DEF GoneOn
  <2>8. job'[r] = j /\ OthersStay(r) /\ scenario' = scenario  BY <2>2, SetIs
  <2> QED BY <2>1, <2>4, <2>7, <2>8 DEF Stepped
<1>41. CASE Crash(r)
  <2>1. job[r] # Idle /\ Set(r, Idle)  BY <1>41 DEF Crash, Finish
  <2>2. job'[r] = Idle /\ OthersStay(r) /\ scenario' = scenario  BY <2>1, SetIs
  <2>3. GoneOn(r, Idle)  BY DEF GoneOn
  <2>4. UnderWay(r)  BY <2>1 DEF Placed
  <2> QED BY <2>1, <2>2, <2>3, <2>4 DEF Stepped
<1>42. CASE Propose(r)
  <2>1. At(r, "propose") /\ (Proceed(r) \/ ProceedWriting(r) \/ Finish(r))  BY <1>42 DEF Propose
  <2> QED BY <2>1, GoesOn
<1>43. CASE Decide(r)
  <2>1. At(r, "decide") /\ (Proceed(r) \/ ProceedWriting(r) \/ Finish(r))  BY <1>43 DEF Decide
  <2> QED BY <2>1, GoesOn
<1>44. CASE Release(r)
  <2>1. At(r, "release") /\ (Proceed(r) \/ ProceedWriting(r) \/ Finish(r))  BY <1>44 DEF Release
  <2> QED BY <2>1, GoesOn
<1>45. CASE Materialize(r)
  <2>1. At(r, "version") /\ (Proceed(r) \/ ProceedWriting(r) \/ Finish(r))
    BY <1>45 DEF Materialize
  <2> QED BY <2>1, GoesOn
<1>46. CASE Claim(r)
  <2>1. At(r, "claim") /\ (Proceed(r) \/ ProceedWriting(r) \/ Finish(r))  BY <1>46 DEF Claim
  <2> QED BY <2>1, GoesOn
<1>47. CASE MarkApplied(r)
  <2>1. At(r, "applied") /\ Proceed(r)  BY <1>47 DEF MarkApplied, MarkRequest
  <2> QED BY <2>1, GoesOn
<1>48. CASE MarkPending(r)
  <2>1. At(r, "pending") /\ Proceed(r)  BY <1>48 DEF MarkPending, MarkRequest
  <2> QED BY <2>1, GoesOn
<1>49. CASE RewriteExpense(r)
  <2>1. At(r, "page") /\ job'[r] = Rest(job[r]) /\ OthersStay(r) /\ scenario' = scenario
    BY <1>49, RewriteIs
  <2>2. IsJob(job[r])  BY DEF Placed
  <2>3. GoneOn(r, Rest(job[r])) /\ UnderWay(r)  BY <2>1, <2>2, Remains
  <2> QED BY <2>1, <2>3 DEF Stepped
<1> QED BY <1>1, <1>2, <1>3, <1>4, <1>5, <1>6, <1>7, <1>8, <1>9, <1>10, <1>11, <1>12, <1>13,
      <1>14, <1>15, <1>16, <1>17, <1>18, <1>19, <1>20, <1>21, <1>22, <1>23, <1>24, <1>25,
        <1>26, <1>27, <1>28, <1>29, <1>30, <1>31, <1>32, <1>33, <1>34, <1>35, <1>36, <1>37,
          <1>38, <1>39, <1>40, <1>41, <1>42, <1>43, <1>44, <1>45, <1>46, <1>47,
            <1>48, <1>49 DEF Statement

\* A request keeps its kind.
LEMMA StatementKeepsKinds ==
  ASSUME Placed, NEW r \in Req, Statement(r)
  PROVE  RequestsKeepTheirKind
<1>0. CASE request' = request  BY <1>0 DEF RequestsKeepTheirKind, Placed
<1>8a. SUFFICES ASSUME request' # request PROVE RequestsKeepTheirKind  BY <1>0
<1>1. CASE Propose(r)
  <2>1. At(r, "propose") /\ Proceed(r)  BY <1>1 DEF Propose
  <2>2. PICK q \in Request : /\ request[q] = NoRequest
                             /\ request' = [request EXCEPT ![q] = [NoRequest EXCEPT
                                  !.status = "submitted", !.kind = job[r].to,
                                       !.amount = job[r].amount,
                                  !.by = job[r].row]]
    BY <1>1 DEF Propose
  <2>3. job[r].to \in ChangeKind
    <3>1. PICK rest : Course(job[r].kind, "propose", rest)  BY <2>1, AtStep
    <3>2. job[r].kind = "propose"  BY <3>1 DEF Course
    <3> QED BY <3>2 DEF Placed, HasTarget
  <2>4. PICK x : x = [NoRequest EXCEPT !.status = "submitted", !.kind = job[r].to,
                                       !.amount = job[r].amount, !.by = job[r].row]
    OBVIOUS
  <2>5. IsRequest(x)
    <3> DEFINE n == NoRequest
    <3>1. n = [status |-> n.status, kind |-> n.kind, amount |-> n.amount, by |-> n.by,
               claimed |-> n.claimed, version |-> n.version]
      BY DEF NoRequest
    <3>2. x = [n EXCEPT !.status = "submitted", !.kind = job[r].to,
                        !.amount = job[r].amount, !.by = job[r].row]
      BY <2>4
    <3> HIDE DEF n
    <3> QED BY <2>3, <3>1, <3>2 DEF IsRequest
  <2>6. request' = [request EXCEPT ![q] = x]  BY <2>2, <2>4
  <2>7. request[q].kind \notin ChangeKind  BY <2>2 DEF NoRequest, ChangeKind
  <2> QED BY <2>5, <2>6, <2>7 DEF RequestsKeepTheirKind, Placed
<1>2. CASE Decide(r)
  <2>1. At(r, "decide")  BY <1>2 DEF Decide, MarkRequest
  <2>2. job[r].row \in Request /\ request[job[r].row].kind \in ChangeKind
    <3>1. PICK rest : Course(job[r].kind, "decide", rest)  BY <2>1, AtStep
    <3>2. job[r].kind \in OnRequest  BY <3>1 DEF Course, OnRequest
    <3> QED BY <3>2 DEF Placed, HasTarget
  <2>3. PICK x : /\ x = [request[job[r].row] EXCEPT !.status = job[r].to]
                 /\ request' = [request EXCEPT ![job[r].row] = x]
    BY <1>2, <1>8a DEF Decide, MarkRequest
  <2>4. IsRequest(request[job[r].row])  BY <2>2 DEF Placed
  <2>5. IsRequest(x) /\ x.kind = request[job[r].row].kind
    BY <2>2, <2>3, <2>4 DEF IsRequest, NoRequest, ChangeKind
  <2> QED BY <2>2, <2>3, <2>5 DEF RequestsKeepTheirKind, Placed
<1>3. CASE Claim(r)
  <2>1. At(r, "claim")  BY <1>3 DEF Claim, MarkRequest
  <2>2. job[r].row \in Request /\ request[job[r].row].kind \in ChangeKind
    <3>1. PICK rest : Course(job[r].kind, "claim", rest)  BY <2>1, AtStep
    <3>2. job[r].kind \in OnRequest  BY <3>1 DEF Course, OnRequest
    <3> QED BY <3>2 DEF Placed, HasTarget
  <2>3. PICK x : /\ x = [request[job[r].row] EXCEPT !.claimed = TRUE]
                 /\ request' = [request EXCEPT ![job[r].row] = x]
    BY <1>3, <1>8a DEF Claim, MarkRequest
  <2>4. IsRequest(request[job[r].row])  BY <2>2 DEF Placed
  <2>5. IsRequest(x) /\ x.kind = request[job[r].row].kind
    BY <2>2, <2>3, <2>4 DEF IsRequest, NoRequest, ChangeKind
  <2> QED BY <2>2, <2>3, <2>5 DEF RequestsKeepTheirKind, Placed
<1>4. CASE MarkApplied(r)
  <2>1. At(r, "applied")  BY <1>4 DEF MarkApplied, MarkRequest
  <2>2. job[r].row \in Request /\ request[job[r].row].kind \in ChangeKind
    <3>1. PICK rest : Course(job[r].kind, "applied", rest)  BY <2>1, AtStep
    <3>2. job[r].kind \in OnRequest  BY <3>1 DEF Course, OnRequest
    <3> QED BY <3>2 DEF Placed, HasTarget
  <2>3. PICK x : /\ x = [request[job[r].row] EXCEPT !.status = "applied"]
                 /\ request' = [request EXCEPT ![job[r].row] = x]
    BY <1>4, <1>8a DEF MarkApplied, MarkRequest
  <2>4. IsRequest(request[job[r].row])  BY <2>2 DEF Placed
  <2>5. IsRequest(x) /\ x.kind = request[job[r].row].kind
    BY <2>2, <2>3, <2>4 DEF IsRequest, NoRequest, ChangeKind
  <2> QED BY <2>2, <2>3, <2>5 DEF RequestsKeepTheirKind, Placed
<1>5. CASE MarkPending(r)
  <2>1. At(r, "pending")  BY <1>5 DEF MarkPending, MarkRequest
  <2>2. job[r].row \in Request /\ request[job[r].row].kind \in ChangeKind
    <3>1. PICK rest : Course(job[r].kind, "pending", rest)  BY <2>1, AtStep
    <3>2. job[r].kind \in OnRequest  BY <3>1 DEF Course, OnRequest
    <3> QED BY <3>2 DEF Placed, HasTarget
  <2>3. PICK x : /\ x = [request[job[r].row]
                      EXCEPT !.status = "approved_pending_scheme_creation"]
                 /\ request' = [request EXCEPT ![job[r].row] = x]
    BY <1>5, <1>8a DEF MarkPending, MarkRequest
  <2>4. IsRequest(request[job[r].row])  BY <2>2 DEF Placed
  <2>5. IsRequest(x) /\ x.kind = request[job[r].row].kind
    BY <2>2, <2>3, <2>4 DEF IsRequest, NoRequest, ChangeKind
  <2> QED BY <2>2, <2>3, <2>5 DEF RequestsKeepTheirKind, Placed
<1>6. CASE Release(r)
  <2>1. At(r, "release")  BY <1>6 DEF Release, MarkRequest
  <2>2. job[r].row \in Request /\ request[job[r].row].kind \in ChangeKind
    <3>1. PICK rest : Course(job[r].kind, "release", rest)  BY <2>1, AtStep
    <3>2. job[r].kind \in OnRequest  BY <3>1 DEF Course, OnRequest
    <3> QED BY <3>2 DEF Placed, HasTarget
  <2>3. PICK x : /\ x = [request[job[r].row] EXCEPT !.claimed = FALSE]
                 /\ request' = [request EXCEPT ![job[r].row] = x]
    BY <1>6, <1>8a DEF Release, MarkRequest
  <2>4. IsRequest(request[job[r].row])  BY <2>2 DEF Placed
  <2>5. IsRequest(x) /\ x.kind = request[job[r].row].kind
    BY <2>2, <2>3, <2>4 DEF IsRequest, NoRequest, ChangeKind
  <2> QED BY <2>2, <2>3, <2>5 DEF RequestsKeepTheirKind, Placed
<1>7. CASE Materialize(r)
  <2>1. At(r, "version")  BY <1>7 DEF Materialize, MarkRequest
  <2>2. job[r].row \in Request /\ request[job[r].row].kind \in ChangeKind
    <3>1. PICK rest : Course(job[r].kind, "version", rest)  BY <2>1, AtStep
    <3>2. job[r].kind \in OnRequest  BY <3>1 DEF Course, OnRequest
    <3> QED BY <3>2 DEF Placed, HasTarget
  <2>3. PICK x : /\ x = [request[job[r].row] EXCEPT !.version = TRUE, !.status = "applied"]
                 /\ request' = [request EXCEPT ![job[r].row] = x]
    BY <1>7, <1>8a DEF Materialize, MarkRequest
  <2>4. IsRequest(request[job[r].row])  BY <2>2 DEF Placed
  <2>5. IsRequest(x) /\ x.kind = request[job[r].row].kind
    BY <2>2, <2>3, <2>4 DEF IsRequest, NoRequest, ChangeKind
  <2> QED BY <2>2, <2>3, <2>5 DEF RequestsKeepTheirKind, Placed
<1>8. CASE Create(r) \/ Seed(r) \/ Inputs(r) \/ MovePeriod(r) \/ Lock(r) \/ Bill(r) \/ Owe(r)
              \/ Remainder(r) \/ OpenDebt(r) \/ Shut(r) \/ Adjust(r) \/ CancelAdjustment(r) \/
              StartPayment(r) \/ CommitPayment(r) \/ StartReversal(r) \/ CommitReversal(r) \/
              Retry(r) \/ Repay(r) \/ Settle(r) \/ WriteOff(r) \/ Fold(r) \/ Issue(r) \/
              RequestAdvance(r) \/ RecordAdvance(r) \/ PayAdvance(r) \/ CancelAdvance(r) \/
              ApproveAmount(r) \/ Raise(r) \/ Ceiling(r) \/ PayTranche(r) \/ ReverseTranche(r) \/
              Bonus(r) \/ ReadOverrides(r) \/ WriteOverrides(r) \/ ReadEffective(r) \/
              WriteAuto(r) \/ FailApproval(r) \/ Sum(r) \/ Total(r) \/ Refund(r) \/
              RewriteExpense(r) \/ Crash(r)
  BY <1>8, <1>8a DEF Create, Seed, Inputs, MovePeriod, Lock, Bill, Owe, Remainder, OpenDebt,
     Shut,
              Adjust, CancelAdjustment, StartPayment, CommitPayment, StartReversal,
              CommitReversal, Retry, Repay, Settle, WriteOff, Fold, Issue, RequestAdvance,
              RecordAdvance, PayAdvance, CancelAdvance, ApproveAmount, Raise, Ceiling,
                   PayTranche,
              ReverseTranche, Bonus, ReadOverrides, WriteOverrides, ReadEffective, WriteAuto,
              FailApproval, Sum, Total, Refund, RewriteExpense, Crash, Insert, rows
<1> QED BY <1>1, <1>2, <1>3, <1>4, <1>5, <1>6, <1>7, <1>8 DEF Statement

\* No statement takes a handler off its course.
LEMMA StatementKeepsPlaced ==
  ASSUME Placed, NEW r \in Req, Statement(r)
  PROVE  Placed'
<1>1. Stepped(r) /\ RequestsKeepTheirKind  BY StatementSteps, StatementKeepsKinds
<1> QED BY <1>1, JobsGoOn DEF Stepped

\* Where the handlers are at the start.
LEMMA InitPlaced == Init => Placed
<1> SUFFICES ASSUME Init PROVE Placed  OBVIOUS
<1>1. scenario \in Scenarios /\ job = [r \in Req |-> Idle]
      /\ request = [q \in Request |-> NoRequest]
  BY DEF Init
<1>2. IsJob(Idle) /\ Idle.kind = "none"  BY DEF IsJob, Idle
<1>3. IsRequest(NoRequest)  BY DEF IsRequest, NoRequest
<1> QED BY <1>1, <1>2, <1>3 DEF Placed, HasTarget, OnRequest

\* The handlers stay on their course.
LEMMA NextKeepsPlaced ==
  ASSUME Placed, [Next]_vars
  PROVE  Placed'
<1>1. ASSUME NEW r \in Req, HasBegun(r) PROVE Placed'  BY <1>1, BegunKeepsPlaced
<1>2. ASSUME NEW r \in Req, Statement(r) PROVE Placed'  BY <1>2, StatementKeepsPlaced
<1>3. CASE UNCHANGED vars
  BY <1>3 DEF vars, rows, Placed, UnderWay, HasTarget
<1> QED BY <1>1, <1>2, <1>3, NextIs

-----------------------------------------------------------------------------
(* The payments.  A payment whose transaction is open and not stale still  *)
(* finds its key free when it commits, and a reversal finds its payment    *)
(* standing: any other transaction that committed in between made it stale.*)

PaymentRow(x) ==
  \/ x = NoRow
  \/ /\ x = [status |-> x.status, amount |-> x.amount]
     /\ x.status \in {"confirmed", "canceled"} /\ x.amount \in Amount

InTime(r) == At(r, "commit") /\ ~Fails(r)

OnPayments(r) ==
  /\ job[r].kind = "payment" =>
       /\ job[r].row \in Key /\ job[r].amount \in Amount
       /\ InTime(r) => payment[job[r].row] = NoRow
  /\ job[r].kind = "reversal" =>
       /\ job[r].row \in Key
       /\ InTime(r) => payment[job[r].row].status = "confirmed"

PaymentInv ==
  /\ Placed
  /\ payment = [k \in Key |-> payment[k]]
  /\ \A k \in Key : PaymentRow(payment[k])
  /\ \A r \in Req : OnPayments(r)

LedgerKind == {"payment", "reversal"}

\* Only the payment service takes the steps of its transactions.
LEMMA LedgerSteps ==
  ASSUME Placed, NEW r \in Req, NEW t, At(r, t)
  PROVE  (t \in {"start", "commit"}) <=> (job[r].kind \in LedgerKind)
<1>1. PICK rest : Course(job[r].kind, t, rest)  BY AtStep
<1> QED BY <1>1 DEF Course, LedgerKind

\* What another handler is while it stays.
LEMMA Stays ==
  ASSUME Placed, NEW r \in Req, OthersStay(r), NEW q \in Req, q # r
  PROVE  /\ job'[q].kind = job[q].kind /\ job'[q].row = job[q].row
         /\ job'[q].amount = job[q].amount /\ job'[q].todo = job[q].todo
         /\ job'[q].net = job[q].net /\ job'[q].paid = job[q].paid
         /\ InTime(q)' => InTime(q) /\ job'[q] = job[q]
<1>1. IsJob(job[q])  BY DEF Placed
<1>2. job'[q] = job[q] \/ (At(q, "commit") /\ job'[q] = [job[q] EXCEPT !.stale = TRUE])
  BY DEF OthersStay
<1>3. CASE job'[q] = job[q]  BY <1>3 DEF InTime, At, Fails
<1>4. CASE job'[q] = [job[q] EXCEPT !.stale = TRUE]
  <2>1. job'[q].stale  BY <1>1, <1>4 DEF IsJob
  <2>2. ~InTime(q)'  BY <2>1 DEF InTime, Fails
  <2> QED BY <1>1, <1>4, <2>2 DEF IsJob
<1> QED BY <1>2, <1>3, <1>4

\* The statements that are not of the payment service leave the payments alone.
OffLedger(r) ==
  \/ Create(r) \/ Seed(r) \/ Inputs(r)
  \/ MovePeriod(r) \/ Lock(r) \/ Bill(r) \/ Owe(r) \/ Remainder(r) \/ OpenDebt(r) \/ Shut(r)
  \/ Adjust(r) \/ CancelAdjustment(r)
  \/ Repay(r) \/ Settle(r) \/ WriteOff(r)
  \/ Fold(r) \/ Issue(r) \/ RequestAdvance(r) \/ RecordAdvance(r) \/ PayAdvance(r)
  \/ CancelAdvance(r) \/ ApproveAmount(r) \/ Raise(r)
  \/ Ceiling(r) \/ PayTranche(r) \/ ReverseTranche(r)
  \/ Propose(r) \/ Decide(r) \/ Claim(r) \/ Bonus(r)
  \/ ReadOverrides(r) \/ WriteOverrides(r) \/ ReadEffective(r) \/ WriteAuto(r)
  \/ MarkApplied(r) \/ MarkPending(r) \/ Materialize(r) \/ FailApproval(r) \/ Release(r)
  \/ Sum(r) \/ Total(r) \/ Refund(r) \/ RewriteExpense(r)

\* None of them is a step of the payment service.
LEMMA OffLedgerIs ==
  ASSUME Placed, NEW r \in Req, OffLedger(r)
  PROVE  payment' = payment /\ job[r].kind \notin LedgerKind
<1>1. CASE Create(r)
  <2>1. payment' = payment /\ At(r, "create")  BY <1>1 DEF Create
  <2> QED BY <2>1, LedgerSteps
<1>2. CASE Seed(r)
  <2>1. payment' = payment /\ At(r, "seed")  BY <1>2 DEF Seed
  <2> QED BY <2>1, LedgerSteps
<1>3. CASE Inputs(r)
  <2>1. payment' = payment /\ At(r, "inputs")  BY <1>3 DEF Inputs
  <2> QED BY <2>1, LedgerSteps
<1>4. CASE MovePeriod(r)
  <2>1. payment' = payment /\ At(r, "move")  BY <1>4 DEF MovePeriod
  <2> QED BY <2>1, LedgerSteps
<1>5. CASE Lock(r)
  <2>1. payment' = payment /\ At(r, "lock")  BY <1>5 DEF Lock
  <2> QED BY <2>1, LedgerSteps
<1>6. CASE Bill(r)
  <2>1. payment' = payment /\ At(r, "bill")  BY <1>6 DEF Bill, rows
  <2> QED BY <2>1, LedgerSteps
<1>7. CASE Owe(r)
  <2>1. payment' = payment /\ At(r, "owe")  BY <1>7 DEF Owe
  <2> QED BY <2>1, LedgerSteps
<1>8. CASE Remainder(r)
  <2>1. payment' = payment /\ At(r, "remainder")  BY <1>8 DEF Remainder, rows
  <2> QED BY <2>1, LedgerSteps
<1>9. CASE OpenDebt(r)
  <2>1. payment' = payment /\ At(r, "debt")  BY <1>9 DEF OpenDebt
  <2> QED BY <2>1, LedgerSteps
<1>10. CASE Shut(r)
  <2>1. payment' = payment /\ At(r, "shut")  BY <1>10 DEF Shut
  <2> QED BY <2>1, LedgerSteps
<1>11. CASE Adjust(r)
  <2>1. payment' = payment /\ At(r, "adjust")  BY <1>11 DEF Adjust
  <2> QED BY <2>1, LedgerSteps
<1>12. CASE CancelAdjustment(r)
  <2>1. payment' = payment /\ At(r, "unadjust")  BY <1>12 DEF CancelAdjustment
  <2> QED BY <2>1, LedgerSteps
<1>13. CASE Repay(r)
  <2>1. payment' = payment /\ At(r, "repay")  BY <1>13 DEF Repay
  <2> QED BY <2>1, LedgerSteps
<1>14. CASE Settle(r)
  <2>1. payment' = payment /\ At(r, "settle")  BY <1>14 DEF Settle
  <2> QED BY <2>1, LedgerSteps
<1>15. CASE WriteOff(r)
  <2>1. payment' = payment /\ At(r, "writeoff")  BY <1>15 DEF WriteOff
  <2> QED BY <2>1, LedgerSteps
<1>16. CASE Fold(r)
  <2>1. payment' = payment /\ At(r, "fold")  BY <1>16 DEF Fold, rows
  <2> QED BY <2>1, LedgerSteps
<1>17. CASE Issue(r)
  <2>1. payment' = payment /\ At(r, "issue")  BY <1>17 DEF Issue
  <2> QED BY <2>1, LedgerSteps
<1>18. CASE RequestAdvance(r)
  <2>1. payment' = payment /\ At(r, "request")  BY <1>18 DEF RequestAdvance, Insert
  <2> QED BY <2>1, LedgerSteps
<1>19. CASE RecordAdvance(r)
  <2>1. payment' = payment /\ At(r, "record")  BY <1>19 DEF RecordAdvance, Insert
  <2> QED BY <2>1, LedgerSteps
<1>20. CASE PayAdvance(r)
  <2>1. payment' = payment /\ At(r, "payout")  BY <1>20 DEF PayAdvance
  <2> QED BY <2>1, LedgerSteps
<1>21. CASE CancelAdvance(r)
  <2>1. payment' = payment /\ At(r, "cancel")  BY <1>21 DEF CancelAdvance
  <2> QED BY <2>1, LedgerSteps
<1>22. CASE ApproveAmount(r)
  <2>1. payment' = payment /\ At(r, "approved")  BY <1>22 DEF ApproveAmount, Insert
  <2> QED BY <2>1, LedgerSteps
<1>23. CASE Raise(r)
  <2>1. payment' = payment /\ At(r, "raise")  BY <1>23 DEF Raise
  <2> QED BY <2>1, LedgerSteps
<1>24. CASE Ceiling(r)
  <2>1. payment' = payment /\ At(r, "ceiling")  BY <1>24 DEF Ceiling, rows
  <2> QED BY <2>1, LedgerSteps
<1>25. CASE PayTranche(r)
  <2>1. payment' = payment /\ At(r, "tranche")  BY <1>25 DEF PayTranche
  <2> QED BY <2>1, LedgerSteps
<1>26. CASE ReverseTranche(r)
  <2>1. payment' = payment /\ At(r, "reverse")  BY <1>26 DEF ReverseTranche
  <2> QED BY <2>1, LedgerSteps
<1>27. CASE Propose(r)
  <2>1. payment' = payment /\ At(r, "propose")  BY <1>27 DEF Propose
  <2> QED BY <2>1, LedgerSteps
<1>28. CASE Decide(r)
  <2>1. payment' = payment /\ At(r, "decide")  BY <1>28 DEF Decide
  <2> QED BY <2>1, LedgerSteps
<1>29. CASE Claim(r)
  <2>1. payment' = payment /\ At(r, "claim")  BY <1>29 DEF Claim
  <2> QED BY <2>1, LedgerSteps
<1>30. CASE Bonus(r)
  <2>1. payment' = payment /\ At(r, "bonus")  BY <1>30 DEF Bonus
  <2> QED BY <2>1, LedgerSteps
<1>31. CASE ReadOverrides(r)
  <2>1. payment' = payment /\ At(r, "overrides")  BY <1>31 DEF ReadOverrides, rows
  <2> QED BY <2>1, LedgerSteps
<1>32. CASE WriteOverrides(r)
  <2>1. payment' = payment /\ At(r, "override")  BY <1>32 DEF WriteOverrides
  <2> QED BY <2>1, LedgerSteps
<1>33. CASE ReadEffective(r)
  <2>1. payment' = payment /\ At(r, "effective")  BY <1>33 DEF ReadEffective, rows
  <2> QED BY <2>1, LedgerSteps
<1>34. CASE WriteAuto(r)
  <2>1. payment' = payment /\ At(r, "auto")  BY <1>34 DEF WriteAuto
  <2> QED BY <2>1, LedgerSteps
<1>35. CASE MarkApplied(r)
  <2>1. payment' = payment /\ At(r, "applied")  BY <1>35 DEF MarkApplied, MarkRequest
  <2> QED BY <2>1, LedgerSteps
<1>36. CASE MarkPending(r)
  <2>1. payment' = payment /\ At(r, "pending")  BY <1>36 DEF MarkPending, MarkRequest
  <2> QED BY <2>1, LedgerSteps
<1>37. CASE Materialize(r)
  <2>1. payment' = payment /\ At(r, "version")  BY <1>37 DEF Materialize
  <2> QED BY <2>1, LedgerSteps
<1>38. CASE Release(r)
  <2>1. payment' = payment /\ At(r, "release")  BY <1>38 DEF Release
  <2> QED BY <2>1, LedgerSteps
<1>39. CASE Sum(r)
  <2>1. payment' = payment /\ At(r, "sum")  BY <1>39 DEF Sum, rows
  <2> QED BY <2>1, LedgerSteps
<1>40. CASE Total(r)
  <2>1. payment' = payment /\ At(r, "total")  BY <1>40 DEF Total
  <2> QED BY <2>1, LedgerSteps
<1>41. CASE Refund(r)
  <2>1. payment' = payment /\ At(r, "refund")  BY <1>41 DEF Refund
  <2> QED BY <2>1, LedgerSteps
<1>42. CASE FailApproval(r)
  BY <1>42 DEF FailApproval, LedgerKind, rows
<1>43. CASE RewriteExpense(r)
  <2>1. payment' = payment /\ At(r, "page")  BY <1>43, RewriteIs
  <2> QED BY <2>1, LedgerSteps
<1> QED BY <1>1, <1>2, <1>3, <1>4, <1>5, <1>6, <1>7, <1>8, <1>9, <1>10, <1>11, <1>12, <1>13,
      <1>14, <1>15, <1>16, <1>17, <1>18, <1>19, <1>20, <1>21, <1>22, <1>23, <1>24, <1>25,
        <1>26, <1>27, <1>28, <1>29, <1>30, <1>31, <1>32, <1>33, <1>34, <1>35, <1>36, <1>37,
          <1>38, <1>39, <1>40, <1>41, <1>42, <1>43 DEF OffLedger

\* Where a handler stands that is not of the payment service, or has ended.
LEMMA Elsewhere ==
  ASSUME PaymentInv, NEW r \in Req, OthersStay(r), Placed', payment' = payment,
         job'[r].kind \notin LedgerKind
  PROVE  PaymentInv'
<1>1. ASSUME NEW q \in Req PROVE OnPayments(q)'
  <2>1. CASE q = r  BY <2>1 DEF OnPayments, LedgerKind
  <2>2. CASE q # r
    <3>1. OnPayments(q)  BY DEF PaymentInv
    <3>2. /\ job'[q].kind = job[q].kind /\ job'[q].row = job[q].row
          /\ job'[q].amount = job[q].amount
          /\ InTime(q)' => InTime(q)
      BY <2>2, Stays DEF PaymentInv
    <3> QED BY <3>1, <3>2 DEF OnPayments
  <2> QED BY <2>1, <2>2
<1>2. \A k \in Key : PaymentRow(payment[k])'  BY DEF PaymentInv
<1> QED BY <1>1, <1>2 DEF PaymentInv

\* A transaction that has just begun, or begins again, promises nothing yet;
\* one that has done its work promises what it found.
LEMMA OpensLedger ==
  ASSUME PaymentInv, NEW r \in Req, OthersStay(r), Placed', payment' = payment, OnPayments(r)'
  PROVE  PaymentInv'
<1>1. ASSUME NEW q \in Req PROVE OnPayments(q)'
  <2>1. CASE q = r  BY <2>1
  <2>2. CASE q # r
    <3>1. OnPayments(q)  BY DEF PaymentInv
    <3>2. /\ job'[q].kind = job[q].kind /\ job'[q].row = job[q].row
          /\ job'[q].amount = job[q].amount
          /\ InTime(q)' => InTime(q)
      BY <2>2, Stays DEF PaymentInv
    <3> QED BY <3>1, <3>2 DEF OnPayments
  <2> QED BY <2>1, <2>2
<1>2. \A k \in Key : PaymentRow(payment[k])'  BY DEF PaymentInv
<1> QED BY <1>1, <1>2 DEF PaymentInv

\* After a statement that wrote what the transactions write, none is in time.
LEMMA NoneInTime ==
  ASSUME Placed, NEW r \in Req, ProceedWriting(r), NEW t, At(r, t), NEW q \in Req, InTime(q)'
  PROVE  q = r
<1>1. SUFFICES ASSUME q # r PROVE FALSE  OBVIOUS
<1>2. job'[q] = IF At(q, "commit") THEN [job[q] EXCEPT !.stale = TRUE] ELSE job[q]
  BY <1>1 DEF ProceedWriting
<1>3. IsJob(job[q])  BY DEF Placed
<1>4. CASE At(q, "commit")
  <2>1. job'[q].stale  BY <1>2, <1>3, <1>4 DEF IsJob
  <2> QED BY <2>1 DEF InTime, Fails
<1>5. CASE ~At(q, "commit")
  <2>1. job'[q] = job[q]  BY <1>2, <1>5
  <2> QED BY <1>5, <2>1 DEF InTime, At
<1> QED BY <1>4, <1>5

\* A transaction that ends leaves nothing to do.
LEMMA CommitEnds ==
  ASSUME Placed, NEW r \in Req, At(r, "commit"), ProceedWriting(r)
  PROVE  job'[r] = Idle
<1>1. PICK rest : First(job[r].todo, "commit", rest) /\ Course(job[r].kind, "commit", rest)
  BY AtStep
<1>2. rest = <<>>  BY <1>1 DEF Course
<1>3. Rest(job[r]) = Idle  BY <1>1, <1>2, RestIs DEF Placed
<1> QED BY <1>3 DEF ProceedWriting

\* A commit writes one row of the ledger, and every other open transaction is stale.
LEMMA Commits ==
  ASSUME PaymentInv, NEW r \in Req, At(r, "commit"), ProceedWriting(r), Placed',
         NEW k \in Key, NEW x, PaymentRow(x), payment' = [payment EXCEPT ![k] = x]
  PROVE  PaymentInv'
<1>1. OthersStay(r)  BY ProceedWritingIs
<1>2. ASSUME NEW q \in Req PROVE OnPayments(q)'
  <2>1. CASE q = r
    <3>1. job'[q] = Idle  BY <2>1, CommitEnds DEF PaymentInv
    <3> QED BY <3>1 DEF OnPayments, Idle
  <2>2. CASE q # r
    <3>1. OnPayments(q)  BY DEF PaymentInv
    <3>2. /\ job'[q].kind = job[q].kind /\ job'[q].row = job[q].row
          /\ job'[q].amount = job[q].amount
      BY <1>1, <2>2, Stays DEF PaymentInv
    <3>3. ~InTime(q)'  BY <2>2, NoneInTime DEF PaymentInv
    <3> QED BY <3>1, <3>2, <3>3 DEF OnPayments
  <2> QED BY <2>1, <2>2
<1>3. payment' = [i \in Key |-> payment'[i]] /\ \A i \in Key : PaymentRow(payment'[i])
  BY DEF PaymentInv
<1> QED BY <1>2, <1>3 DEF PaymentInv, PaymentRow

\* The payments hold at the start.
LEMMA InitPayments == Init => PaymentInv
<1> SUFFICES ASSUME Init PROVE PaymentInv  OBVIOUS
<1>1. job = [r \in Req |-> Idle] /\ payment = [k \in Key |-> NoRow]  BY DEF Init
<1>2. Placed  BY InitPlaced
<1>3. \A r \in Req : OnPayments(r)  BY <1>1 DEF OnPayments, Idle
<1> QED BY <1>1, <1>2, <1>3 DEF PaymentInv, PaymentRow

\* What a begun payment or reversal is about.
LEMMA BegunKeepsPayments ==
  ASSUME PaymentInv, NEW r \in Req, HasBegun(r)
  PROVE  PaymentInv'
<1>1. PICK j : /\ Begin(r, j) /\ IsJob(j)
               /\ \/ BegunOnPeriod(j)
                  \/ BegunOnAdvance(j)
                  \/ BegunOnRequest(j)
                  \/ BegunOnPage(j)
  BY DEF HasBegun
<1>2. Placed' /\ Placed  BY BegunKeepsPlaced DEF PaymentInv
<1>3. job'[r] = j /\ OthersStay(r) /\ payment' = payment
  BY <1>1, <1>2 DEF Begin, OthersStay, Placed, rows
<1>4. CASE j.kind \in LedgerKind
  <2>1. /\ j.row \in Key /\ j.todo = <<"start", "commit">>
        /\ j.kind = "payment" => j.amount \in Amount
    BY <1>1, <1>4 DEF BegunOnPeriod, BegunOnAdvance, BegunOnRequest, BegunOnPage, LedgerKind
  <2>2. ~InTime(r)'  BY <1>3, <2>1, Firsts DEF InTime, At, First
  <2>3. OnPayments(r)'  BY <1>3, <2>1, <2>2 DEF OnPayments
  <2> QED BY <1>2, <1>3, <2>3, OpensLedger
<1>5. CASE j.kind \notin LedgerKind  BY <1>2, <1>3, <1>5, Elsewhere
<1> QED BY <1>4, <1>5

\* A transaction that has done its work, and is to commit.
LEMMA StartIs ==
  ASSUME Placed, NEW r \in Req, At(r, "start"), NEW j, IsJob(j), j.todo = job[r].todo
  PROVE  Rest(j) = [j EXCEPT !.todo = <<"commit">>]
<1>1. PICK rest : First(job[r].todo, "start", rest) /\ Course(job[r].kind, "start", rest)
  BY AtStep
<1>2. rest = <<"commit">> /\ <<"commit">> # <<>>  BY <1>1 DEF Course
<1> QED BY <1>1, <1>2, RestIs

\* The statements of the payment service.
LEMMA StatementKeepsPayments ==
  ASSUME PaymentInv, NEW r \in Req, Statement(r)
  PROVE  PaymentInv'
<1>0. Placed /\ Placed'  BY StatementKeepsPlaced DEF PaymentInv
<1>1. Stepped(r)  BY <1>0, StatementSteps
<1>2. OthersStay(r) /\ (job'[r] = Idle \/ job'[r].kind = job[r].kind)
  BY <1>1 DEF Stepped, GoneOn
<1>3. Idle.kind \notin LedgerKind  BY DEF Idle, LedgerKind
<1>4. CASE OffLedger(r)
  <2>1. payment' = payment /\ job[r].kind \notin LedgerKind  BY <1>0, <1>4, OffLedgerIs
  <2> QED BY <1>0, <1>2, <1>3, <2>1, Elsewhere
<1>5. CASE Crash(r)
  <2>1. payment' = payment /\ Set(r, Idle)  BY <1>5 DEF Crash, Finish, rows
  <2>2. job'[r] = Idle  BY <2>1, SetIs, <1>0
  <2> QED BY <1>0, <1>2, <1>3, <2>1, <2>2, Elsewhere
<1>6. CASE StartPayment(r)
  <2>1. payment' = payment /\ At(r, "start") /\ job[r].kind = "payment"
    BY <1>6 DEF StartPayment, rows
  <2>2. CASE Finish(r)
    <3>1. job'[r] = Idle  BY <1>0, <2>2, SetIs DEF Finish
    <3> QED BY <1>0, <1>2, <1>3, <2>1, <3>1, Elsewhere
  <2>3. CASE ~Finish(r)
    <3>1. PICK j : /\ ~KeyTaken(job[r].row) /\ Set(r, Rest(j))
                   /\ j = Summed(job[r], advance, [payment EXCEPT ![job[r].row] =
                            [status |-> "confirmed", amount |-> job[r].amount]])
      BY <1>6, <2>3 DEF StartPayment
    <3>2. IsJob(job[r]) /\ OnPayments(r)  BY DEF PaymentInv, Placed
    <3>3. IsJob(j) /\ j.todo = job[r].todo /\ j.kind = job[r].kind /\ j.row = job[r].row
          /\ j.amount = job[r].amount
      BY <3>1, <3>2, SummedIs
    <3>4. job'[r] = [j EXCEPT !.todo = <<"commit">>]
      <4>1. Rest(j) = [j EXCEPT !.todo = <<"commit">>]  BY <1>0, <2>1, <3>3, StartIs
      <4>2. job'[r] = Rest(j)  BY <1>0, <3>1, SetIs
      <4> QED BY <4>1, <4>2
    <3>5. job'[r].kind = "payment" /\ job'[r].row = job[r].row /\ job'[r].amount = job[r].amount
      BY <2>1, <3>3, <3>4 DEF IsJob
    <3>6. OnPayments(r)'  BY <2>1, <3>1, <3>2, <3>5 DEF OnPayments, KeyTaken
    <3> QED BY <1>0, <1>2, <2>1, <3>6, OpensLedger
  <2> QED BY <2>2, <2>3
<1>7. CASE StartReversal(r)
  <2>1. payment' = payment /\ At(r, "start") /\ job[r].kind = "reversal"
    BY <1>7 DEF StartReversal, rows
  <2>2. CASE Finish(r)
    <3>1. job'[r] = Idle  BY <1>0, <2>2, SetIs DEF Finish
    <3> QED BY <1>0, <1>2, <1>3, <2>1, <3>1, Elsewhere
  <2>3. CASE ~Finish(r)
    <3>1. PICK j : /\ payment[job[r].row].status = "confirmed" /\ Set(r, Rest(j))
                   /\ j = Summed(job[r], advance, [payment
                        EXCEPT ![job[r].row].status = "canceled"])
      BY <1>7, <2>3 DEF StartReversal
    <3>2. IsJob(job[r]) /\ OnPayments(r)  BY DEF PaymentInv, Placed
    <3>3. IsJob(j) /\ j.todo = job[r].todo /\ j.kind = job[r].kind /\ j.row = job[r].row
      BY <3>1, <3>2, SummedIs
    <3>4. job'[r] = [j EXCEPT !.todo = <<"commit">>]
      <4>1. Rest(j) = [j EXCEPT !.todo = <<"commit">>]  BY <1>0, <2>1, <3>3, StartIs
      <4>2. job'[r] = Rest(j)  BY <1>0, <3>1, SetIs
      <4> QED BY <4>1, <4>2
    <3>5. job'[r].kind = "reversal" /\ job'[r].row = job[r].row
      BY <2>1, <3>3, <3>4 DEF IsJob
    <3>6. OnPayments(r)'  BY <2>1, <3>1, <3>2, <3>5 DEF OnPayments
    <3> QED BY <1>0, <1>2, <2>1, <3>6, OpensLedger
  <2> QED BY <2>2, <2>3
<1>8. CASE Retry(r)
  <2>1. payment' = payment /\ At(r, "commit")  BY <1>8 DEF Retry, rows
  <2>2. CASE Finish(r)
    <3>1. job'[r] = Idle  BY <1>0, <2>2, SetIs DEF Finish
    <3> QED BY <1>0, <1>2, <1>3, <2>1, <3>1, Elsewhere
  <2>3. CASE ~Finish(r)
    <3>1. PICK j : /\ j = [job[r]
                        EXCEPT !.todo = <<"start", "commit">>, !.tries = @ + 1, !.stale = FALSE]
                   /\ Set(r, j)
      BY <1>8, <2>3 DEF Retry
    <3>2. IsJob(job[r]) /\ OnPayments(r)  BY DEF PaymentInv, Placed
    <3>3. job'[r] = j  BY <1>0, <3>1, SetIs
    <3>4. /\ job'[r].kind = job[r].kind /\ job'[r].row = job[r].row
          /\ job'[r].amount = job[r].amount /\ job'[r].todo = <<"start", "commit">>
      BY <3>1, <3>2, <3>3 DEF IsJob
    <3>5. ~InTime(r)'  BY <3>4, Firsts DEF InTime, At, First
    <3>6. OnPayments(r)'  BY <3>2, <3>4, <3>5 DEF OnPayments
    <3> QED BY <1>0, <1>2, <2>1, <3>6, OpensLedger
  <2> QED BY <2>2, <2>3
<1>9. CASE CommitPayment(r)
  <2>1. /\ At(r, "commit") /\ job[r].kind = "payment" /\ ProceedWriting(r)
        /\ payment' = [payment EXCEPT ![job[r].row] =
                         [status |-> "confirmed", amount |-> job[r].amount]]
    BY <1>9 DEF CommitPayment
  <2>2. job[r].row \in Key /\ job[r].amount \in Amount  BY <2>1 DEF PaymentInv, OnPayments
  <2>3. PaymentRow([status |-> "confirmed", amount |-> job[r].amount])  BY <2>2 DEF PaymentRow
  <2> QED BY <1>0, <2>1, <2>2, <2>3, Commits
<1>10. CASE CommitReversal(r)
  <2>1. /\ At(r, "commit") /\ job[r].kind = "reversal" /\ ~Fails(r) /\ ProceedWriting(r)
        /\ payment' = [payment EXCEPT ![job[r].row].status = "canceled"]
    BY <1>10 DEF CommitReversal
  <2>2. job[r].row \in Key /\ payment[job[r].row].status = "confirmed"
    BY <2>1 DEF PaymentInv, OnPayments, InTime
  <2>3. PICK x : x = [payment[job[r].row] EXCEPT !.status = "canceled"]  OBVIOUS
  <2>4. PaymentRow(payment[job[r].row])  BY <2>2 DEF PaymentInv
  <2>5. PaymentRow(x)  BY <2>2, <2>3, <2>4 DEF PaymentRow, NoRow
  <2>6. payment' = [payment EXCEPT ![job[r].row] = x]  BY <2>1, <2>3
  <2> QED BY <1>0, <2>1, <2>2, <2>5, <2>6, Commits
<1> QED BY <1>4, <1>5, <1>6, <1>7, <1>8, <1>9, <1>10 DEF Statement, OffLedger

\* The payments are as described in every state.
LEMMA NextKeepsPayments ==
  ASSUME PaymentInv, [Next]_vars
  PROVE  PaymentInv'
<1>1. ASSUME NEW r \in Req, HasBegun(r) PROVE PaymentInv'  BY <1>1, BegunKeepsPayments
<1>2. ASSUME NEW r \in Req, Statement(r) PROVE PaymentInv'  BY <1>2, StatementKeepsPayments
<1>3. CASE UNCHANGED vars
  <2>1. Placed'  BY <1>3, NextKeepsPlaced DEF PaymentInv
  <2>2. payment' = payment /\ job' = job  BY <1>3 DEF vars, rows
  <2> QED BY <2>1, <2>2 DEF PaymentInv, OnPayments, InTime, At, Fails
<1> QED BY <1>1, <1>2, <1>3, NextIs

-----------------------------------------------------------------------------
book == [k \in Key |-> AsEntry(payment[k])]

\* A step of the system writes at most one entry of the ledger, as the ledger allows.
LEMMA LedgerStep ==
  ASSUME PaymentInv, [Next]_vars
  PROVE  [Ledger!Next]_book
<1> SUFFICES ASSUME book' # book PROVE Ledger!Next  OBVIOUS
<1>0. payment' # payment  BY DEF book, AsEntry
<1>1. PICK r \in Req : HasBegun(r) \/ Statement(r)
  BY <1>0, NextIs DEF vars, rows
<1>2. ~HasBegun(r)  BY <1>0 DEF HasBegun, Begin, rows
<1>3. ~OffLedger(r)  BY <1>0, OffLedgerIs DEF PaymentInv
<1>4. CommitPayment(r) \/ CommitReversal(r)
  BY <1>0, <1>1, <1>2, <1>3 DEF Statement, OffLedger, StartPayment, StartReversal, Retry,
     Crash, rows
<1>5. CASE CommitPayment(r)
  <2>1. PICK k, x : k = job[r].row /\ x = [status |-> "confirmed", amount |-> job[r].amount]
    OBVIOUS
  <2>2. k \in Key /\ job[r].amount \in Amount /\ payment[k] = NoRow
    BY <1>5, <2>1 DEF CommitPayment, PaymentInv, OnPayments, InTime
  <2>3. payment' = [payment EXCEPT ![k] = x]  BY <1>5, <2>1 DEF CommitPayment
  <2>4. x.status = "confirmed" /\ x.amount \in Amount
        /\ x = [status |-> "confirmed", amount |-> x.amount]
    BY <2>1, <2>2
  <2>5. payment'[k] = x /\ \A i \in Key : i # k => payment'[i] = payment[i]
    BY <2>2, <2>3 DEF PaymentInv
  <2>6. book[k] = NoRow /\ book'[k] = x
    BY <2>2, <2>4, <2>5 DEF book, AsEntry, NoRow
  <2>7. \A i \in Key : i # k => book'[i] = book[i]  BY <2>5 DEF book
  <2>8. book' = [book EXCEPT ![k] = book'[k]]
    BY <2>2, <2>7 DEF book
  <2>9. book'[k] \in [status : {"confirmed", "reversed"}, amount : Amount] \cup {NoRow}
    BY <2>4, <2>6
  <2>10. Ledger!Record(k)
    BY <2>4, <2>6, <2>8, <2>9 DEF Ledger!Record, book
  <2> QED BY <2>2, <2>10 DEF Ledger!Next
<1>6. CASE CommitReversal(r)
  <2>1. PICK k, x : k = job[r].row /\ x = [payment[k] EXCEPT !.status = "canceled"]  OBVIOUS
  <2>2. k \in Key /\ payment[k].status = "confirmed" /\ PaymentRow(payment[k])
    BY <1>6, <2>1 DEF CommitReversal, PaymentInv, OnPayments, InTime
  <2>3. payment' = [payment EXCEPT ![k] = x]  BY <1>6, <2>1 DEF CommitReversal
  <2>4. payment'[k] = x /\ \A i \in Key : i # k => payment'[i] = payment[i]
    BY <2>2, <2>3 DEF PaymentInv
  <2>5. x = [status |-> "canceled", amount |-> payment[k].amount]
    BY <2>1, <2>2 DEF PaymentRow, NoRow
  <2>6. book[k] = payment[k] /\ book'[k] = [status |-> "reversed", amount |-> payment[k].amount]
    BY <2>2, <2>4, <2>5 DEF book, AsEntry
  <2>7. \A i \in Key : i # k => book'[i] = book[i]  BY <2>4 DEF book
  <2>8. book'[k] = [book[k] EXCEPT !.status = "reversed"]  BY <2>2, <2>6 DEF PaymentRow, NoRow
  <2>9. book' = [book EXCEPT ![k].status = "reversed"]
    BY <2>2, <2>7, <2>8 DEF book
  <2>10. Ledger!Reverse(k)
    BY <2>2, <2>6, <2>9 DEF Ledger!Reverse, book
  <2> QED BY <2>2, <2>10 DEF Ledger!Next
<1> QED BY <1>4, <1>5, <1>6

(* Whatever handlers run at the same time and whichever of them crash, the *)
(* payments of a month are an append-only ledger: a payment keeps its      *)
(* amount, is cancelled at most once, and its key is never used again.     *)
THEOREM PaymentsAreALedger == Spec => PaymentLedger
<1>1. PaymentInv => Ledger!Init
  <2>1. ASSUME NEW x, PaymentRow(x)
        PROVE  AsEntry(x) \in [status : {"confirmed", "reversed"}, amount : Amount] \cup {NoRow}
    <3>1. CASE x = NoRow  BY <3>1 DEF AsEntry, NoRow
    <3>2. CASE x # NoRow
      <4>1. /\ x = [status |-> x.status, amount |-> x.amount]
            /\ x.status \in {"confirmed", "canceled"} /\ x.amount \in Amount
        BY <2>1, <3>2 DEF PaymentRow
      <4>2. CASE x.status = "canceled"
        <5>1. AsEntry(x) = [status |-> "reversed", amount |-> x.amount]
          BY <4>1, <4>2 DEF AsEntry
        <5> QED BY <4>1, <5>1
      <4>3. CASE x.status = "confirmed"  BY <4>1, <4>3 DEF AsEntry
      <4> QED BY <4>1, <4>2, <4>3
    <3> QED BY <3>1, <3>2
  <2> QED BY <2>1 DEF PaymentInv, Ledger!Init
<1>2. PaymentInv /\ [Next]_vars => PaymentInv'  BY NextKeepsPayments
<1>3. PaymentInv /\ [Next]_vars => [Ledger!Next]_book  BY LedgerStep
<1> QED BY InitPayments, <1>1, <1>2, <1>3, PTL DEF Spec, PaymentLedger, Ledger!Spec, book

-----------------------------------------------------------------------------
(* Sums over the rows of the payroll, as totals by status.                 *)

\* What the confirmed payments add up to.
LEMMA ConfirmedIs ==
  ASSUME NEW p
  PROVE  Confirmed(p) = StatusTotal(p, "confirmed")
BY DEF Confirmed, SumOf, Having, StatusTotal, WithStatus, AmountTotal

\* What is accrued: the automatic part and the adjustments that stand.
LEMMA AccruedIs ==
  ASSUME NEW auto
  PROVE  AccruedNet(auto) = auto + StatusTotal(adjustment, "approved")
BY DEF AccruedNet, SumOf, Having, StatusTotal, WithStatus, AmountTotal

\* What the tranches that were not reversed add up to.
LEMMA TranchesAre == ActiveTranches = StatusTotal(tranche, "paid")
BY DEF ActiveTranches, SumOf, Having, StatusTotal, WithStatus, AmountTotal

\* Rows of which none has the status add up to nothing.
LEMMA NoneHasStatus ==
  ASSUME NEW f, NEW status, \A i \in DOMAIN f : f[i].status # status
  PROVE  StatusTotal(f, status) = 0 /\ Summable(f, status)
<1>1. WithStatus(f, status) = {}  BY DEF WithStatus
<1>2. IsFiniteSet({})  BY FS_EmptySet
<1> QED BY <1>1, <1>2, TotalOfNone DEF StatusTotal, Summable

IsCalc(c) ==
  c = [status |-> c.status, base |-> c.base, overrides |-> c.overrides, auto |-> c.auto,
       net |-> c.net, paid |-> c.paid]

\* A calculation that is not there.
LEMMA NoCalcIs == IsCalc(NoCalc) /\ NoCalc.auto = 0 /\ NoCalc.net = 0 /\ NoCalc.paid = 0
BY DEF IsCalc, NoCalc

\* The totals written from a job.
LEMMA RetotalledIs ==
  ASSUME IsCalc(calc), NEW j
  PROVE  /\ IsCalc(Retotalled(j)) /\ Retotalled(j).status = calc.status
         /\ Retotalled(j).auto = calc.auto /\ Retotalled(j).base = calc.base
         /\ Retotalled(j).overrides = calc.overrides
         /\ Retotalled(j).net = j.net /\ Retotalled(j).paid = j.paid
<1>1. PICK n, m, c : n = j.net /\ m = j.paid /\ c = [calc EXCEPT !.net = n, !.paid = m]  OBVIOUS
<1>2. Retotalled(j) = c  BY <1>1 DEF Retotalled
<1>3. /\ IsCalc(c) /\ c.status = calc.status /\ c.auto = calc.auto /\ c.base = calc.base
      /\ c.overrides = calc.overrides /\ c.net = n /\ c.paid = m
  BY <1>1 DEF IsCalc
<1> QED BY <1>1, <1>2, <1>3

-----------------------------------------------------------------------------
(* Where only the payment service writes, what is earned does not change,  *)
(* and an open transaction that is not stale has computed its totals from  *)
(* the rows that are there when it commits.                                *)

PaymentCalls == {"payment", "reversal", "transition", "crash"}

\* What is earned stays as it was approved, and there is no advance.
Unadvanced ==
  /\ adjustment = [i \in Adjustment |-> NoRow] /\ advance = NoAdvance
  /\ IsCalc(calc) /\ calc.auto \in Nat /\ calc.net = calc.auto

Counted ==
  /\ Summable(payment, "confirmed")
  /\ calc.paid = StatusTotal(payment, "confirmed") /\ calc.paid <= calc.net

IsExpense(x) == x = [status |-> x.status, amount |-> x.amount]

\* An expense stands for each payment that stands.
Matched ==
  /\ expense = [e \in Payout |-> expense[e]] /\ \A e \in Payout : IsExpense(expense[e])
  /\ \A k \in Key : (expense[k].status = "confirmed") <=> (payment[k].status = "confirmed")

HasTotals(r) ==
  InTime(r) =>
    /\ job[r].kind = "payment" =>
         /\ job[r].net = calc.net /\ job[r].paid <= calc.net
         /\ job[r].paid = job[r].amount + StatusTotal(payment, "confirmed")
    /\ job[r].kind = "reversal" =>
         /\ job[r].net = calc.net
         /\ job[r].paid = StatusTotal(payment, "confirmed") - payment[job[r].row].amount

SerialPayments ==
  scenario.calls \subseteq PaymentCalls =>
    Unadvanced /\ Counted /\ Matched /\ \A r \in Req : HasTotals(r)

PaidInv == PaymentInv /\ SerialPayments

\* The statements of the handlers that there are where only the payment service writes.
OnlyPaying(r) ==
  \/ StartPayment(r) \/ CommitPayment(r) \/ StartReversal(r) \/ CommitReversal(r) \/ Retry(r)
  \/ MovePeriod(r) \/ Lock(r) \/ Bill(r) \/ Owe(r) \/ Remainder(r) \/ OpenDebt(r) \/ Shut(r)
  \/ Crash(r)

\* No other statement is ever reached there.
LEMMA PayingStatements ==
  ASSUME Placed, scenario.calls \subseteq PaymentCalls, NEW r \in Req, Statement(r)
  PROVE  OnlyPaying(r)
<1> SUFFICES ASSUME ~OnlyPaying(r) PROVE FALSE  OBVIOUS
<1>0. ASSUME NEW t, At(r, t)
      PROVE  t \in {"start", "commit", "move", "lock", "bill", "owe", "remainder", "debt",
           "shut"}
  <2>1. job[r].kind \in PaymentCalls  BY <1>0, AtStep
  <2>2. PICK rest : Course(job[r].kind, t, rest)  BY <1>0, AtStep
  <2> QED BY <2>1, <2>2 DEF Course, PaymentCalls
<1>1. CASE Create(r)
  <2>1. At(r, "create")  BY <1>1 DEF Create
  <2> QED BY <2>1, <1>0
<1>2. CASE Seed(r)
  <2>1. At(r, "seed")  BY <1>2 DEF Seed
  <2> QED BY <2>1, <1>0
<1>3. CASE Inputs(r)
  <2>1. At(r, "inputs")  BY <1>3 DEF Inputs
  <2> QED BY <2>1, <1>0
<1>4. CASE Adjust(r)
  <2>1. At(r, "adjust")  BY <1>4 DEF Adjust
  <2> QED BY <2>1, <1>0
<1>5. CASE CancelAdjustment(r)
  <2>1. At(r, "unadjust")  BY <1>5 DEF CancelAdjustment
  <2> QED BY <2>1, <1>0
<1>6. CASE Repay(r)
  <2>1. At(r, "repay")  BY <1>6 DEF Repay
  <2> QED BY <2>1, <1>0
<1>7. CASE Settle(r)
  <2>1. At(r, "settle")  BY <1>7 DEF Settle
  <2> QED BY <2>1, <1>0
<1>8. CASE WriteOff(r)
  <2>1. At(r, "writeoff")  BY <1>8 DEF WriteOff
  <2> QED BY <2>1, <1>0
<1>9. CASE Fold(r)
  <2>1. At(r, "fold")  BY <1>9 DEF Fold
  <2> QED BY <2>1, <1>0
<1>10. CASE Issue(r)
  <2>1. At(r, "issue")  BY <1>10 DEF Issue
  <2> QED BY <2>1, <1>0
<1>11. CASE RequestAdvance(r)
  <2>1. At(r, "request")  BY <1>11 DEF RequestAdvance, Insert
  <2> QED BY <2>1, <1>0
<1>12. CASE RecordAdvance(r)
  <2>1. At(r, "record")  BY <1>12 DEF RecordAdvance, Insert
  <2> QED BY <2>1, <1>0
<1>13. CASE PayAdvance(r)
  <2>1. At(r, "payout")  BY <1>13 DEF PayAdvance
  <2> QED BY <2>1, <1>0
<1>14. CASE CancelAdvance(r)
  <2>1. At(r, "cancel")  BY <1>14 DEF CancelAdvance
  <2> QED BY <2>1, <1>0
<1>15. CASE ApproveAmount(r)
  <2>1. At(r, "approved")  BY <1>15 DEF ApproveAmount, Insert
  <2> QED BY <2>1, <1>0
<1>16. CASE Raise(r)
  <2>1. At(r, "raise")  BY <1>16 DEF Raise
  <2> QED BY <2>1, <1>0
<1>17. CASE Ceiling(r)
  <2>1. At(r, "ceiling")  BY <1>17 DEF Ceiling
  <2> QED BY <2>1, <1>0
<1>18. CASE PayTranche(r)
  <2>1. At(r, "tranche")  BY <1>18 DEF PayTranche
  <2> QED BY <2>1, <1>0
<1>19. CASE ReverseTranche(r)
  <2>1. At(r, "reverse")  BY <1>19 DEF ReverseTranche
  <2> QED BY <2>1, <1>0
<1>20. CASE Propose(r)
  <2>1. At(r, "propose")  BY <1>20 DEF Propose
  <2> QED BY <2>1, <1>0
<1>21. CASE Decide(r)
  <2>1. At(r, "decide")  BY <1>21 DEF Decide
  <2> QED BY <2>1, <1>0
<1>22. CASE Claim(r)
  <2>1. At(r, "claim")  BY <1>22 DEF Claim
  <2> QED BY <2>1, <1>0
<1>23. CASE Bonus(r)
  <2>1. At(r, "bonus")  BY <1>23 DEF Bonus
  <2> QED BY <2>1, <1>0
<1>24. CASE ReadOverrides(r)
  <2>1. At(r, "overrides")  BY <1>24 DEF ReadOverrides
  <2> QED BY <2>1, <1>0
<1>25. CASE WriteOverrides(r)
  <2>1. At(r, "override")  BY <1>25 DEF WriteOverrides
  <2> QED BY <2>1, <1>0
<1>26. CASE ReadEffective(r)
  <2>1. At(r, "effective")  BY <1>26 DEF ReadEffective
  <2> QED BY <2>1, <1>0
<1>27. CASE WriteAuto(r)
  <2>1. At(r, "auto")  BY <1>27 DEF WriteAuto
  <2> QED BY <2>1, <1>0
<1>28. CASE MarkApplied(r)
  <2>1. At(r, "applied")  BY <1>28 DEF MarkApplied, MarkRequest
  <2> QED BY <2>1, <1>0
<1>29. CASE MarkPending(r)
  <2>1. At(r, "pending")  BY <1>29 DEF MarkPending, MarkRequest
  <2> QED BY <2>1, <1>0
<1>30. CASE Materialize(r)
  <2>1. At(r, "version")  BY <1>30 DEF Materialize
  <2> QED BY <2>1, <1>0
<1>31. CASE Release(r)
  <2>1. At(r, "release")  BY <1>31 DEF Release
  <2> QED BY <2>1, <1>0
<1>32. CASE Sum(r)
  <2>1. At(r, "sum")  BY <1>32 DEF Sum
  <2> QED BY <2>1, <1>0
<1>33. CASE Total(r)
  <2>1. At(r, "total")  BY <1>33 DEF Total
  <2> QED BY <2>1, <1>0
<1>34. CASE Refund(r)
  <2>1. At(r, "refund")  BY <1>34 DEF Refund
  <2> QED BY <2>1, <1>0
<1>35. CASE FailApproval(r)
  <2>1. job[r].kind = "approve_change" /\ job[r] # Idle  BY <1>35 DEF FailApproval, Idle
  <2>2. job[r].kind \in scenario.calls  BY <2>1 DEF Placed, UnderWay
  <2> QED BY <2>1, <2>2 DEF PaymentCalls
<1>36. CASE RewriteExpense(r)
  <2>1. At(r, "page")  BY <1>36, RewriteIs
  <2> QED BY <2>1, <1>0
<1> QED BY <1>1, <1>2, <1>3, <1>4, <1>5, <1>6, <1>7, <1>8, <1>9, <1>10, <1>11, <1>12, <1>13,
      <1>14, <1>15, <1>16, <1>17, <1>18, <1>19, <1>20, <1>21, <1>22, <1>23, <1>24, <1>25,
        <1>26, <1>27, <1>28, <1>29, <1>30, <1>31, <1>32, <1>33, <1>34, <1>35, <1>36 DEF
          Statement, OnlyPaying

\* At the start nothing is paid, and a month stands as it was approved.
LEMMA InitPaid ==
  ASSUME \A s \in Scenarios : s.start \in Nat, Init
  PROVE  PaidInv
<1>1. /\ scenario \in Scenarios /\ adjustment = [i \in Adjustment |-> NoRow]
      /\ payment = [k \in Key |-> NoRow] /\ advance = NoAdvance
      /\ expense = [e \in Payout |-> NoRow] /\ job = [r \in Req |-> Idle]
  BY DEF Init
<1>2. IsCalc(calc) /\ calc.auto \in Nat /\ calc.net = calc.auto /\ calc.paid = 0
  <2>1. CASE scenario.start = 0  BY <2>1, NoCalcIs DEF Init
  <2>2. CASE scenario.start # 0
    <3>1. calc = [NoCalc EXCEPT !.status = "approved", !.base = scenario.start,
                                !.auto = scenario.start, !.net = scenario.start]
      BY <2>2 DEF Init, Approved
    <3> QED BY <1>1, <3>1, NoCalcIs DEF IsCalc
  <2> QED BY <2>1, <2>2
<1>3. StatusTotal(payment, "confirmed") = 0 /\ Summable(payment, "confirmed")
  BY <1>1, NoneHasStatus DEF NoRow
<1>4. Matched  BY <1>1 DEF Matched, IsExpense, NoRow, Payout
<1>5. \A r \in Req : ~InTime(r)  BY <1>1 DEF InTime, At, Idle
<1> QED BY <1>1, <1>2, <1>3, <1>4, <1>5, InitPayments
        DEF PaidInv, SerialPayments, Unadvanced, Counted, HasTotals

\* The totals of the other transactions stay right, where rows and totals stay.
LEMMA TotalsStay ==
  ASSUME Placed, NEW r \in Req, OthersStay(r), NEW q \in Req, q # r, HasTotals(q),
         payment' = payment, calc'.net = calc.net
  PROVE  HasTotals(q)'
<1>1. InTime(q)' => InTime(q) /\ job'[q] = job[q]  BY Stays
<1> QED BY <1>1 DEF HasTotals

\* A step that changes neither the payments nor the totals.
LEMMA CountsStay ==
  ASSUME Placed, SerialPayments, NEW r \in Req, OthersStay(r), scenario' = scenario,
         UNCHANGED <<adjustment, advance, payment, expense>>,
         IsCalc(calc) => /\ IsCalc(calc') /\ calc'.auto = calc.auto
                         /\ calc'.net = calc.net /\ calc'.paid = calc.paid,
         scenario.calls \subseteq PaymentCalls => HasTotals(r)'
  PROVE  SerialPayments'
<1> SUFFICES ASSUME scenario.calls \subseteq PaymentCalls
             PROVE  (Unadvanced /\ Counted /\ Matched /\ \A q \in Req : HasTotals(q))'
  BY DEF SerialPayments
<1>1. Unadvanced /\ Counted /\ Matched /\ \A q \in Req : HasTotals(q)  BY DEF SerialPayments
<1>2. ASSUME NEW q \in Req PROVE HasTotals(q)'
  <2>1. CASE q = r  BY <2>1
  <2>2. CASE q # r  BY <1>1, <2>2, TotalsStay DEF Unadvanced
  <2> QED BY <2>1, <2>2
<1> QED BY <1>1, <1>2 DEF Unadvanced, Counted, Matched

\* What a transaction computes on the rows it finds.
LEMMA Computes ==
  ASSUME Unadvanced, NEW j, IsJob(j), NEW p
  PROVE  /\ Summed(j, advance, p).net = calc.net
         /\ Summed(j, advance, p).paid = 0 + StatusTotal(p, "confirmed")
<1>1. StatusTotal(adjustment, "approved") = 0  BY NoneHasStatus DEF Unadvanced, NoRow
<1>2. AccruedNet(calc.auto) = calc.auto + 0  BY <1>1, AccruedIs
<1>3. AdvancePart(advance) = 0  BY DEF AdvancePart, AdvancePaid, Unadvanced, NoAdvance
<1>4. PaidTotal(advance, p) = 0 + StatusTotal(p, "confirmed")
  BY <1>3, ConfirmedIs DEF PaidTotal
<1> QED BY <1>2, <1>4, SummedIs DEF Unadvanced

\* A payment adds its amount to what is confirmed, and a reversal takes it out.
LEMMA PaymentAdds ==
  ASSUME PaymentInv, NEW k \in Key, payment[k].status # "confirmed", NEW a \in Int,
         Summable(payment, "confirmed"),
         NEW p, p = [payment EXCEPT ![k] = [status |-> "confirmed", amount |-> a]]
  PROVE  /\ Summable(p, "confirmed")
         /\ StatusTotal(p, "confirmed") = a + StatusTotal(payment, "confirmed")
<1>1. PICK x : x = [status |-> "confirmed", amount |-> a]  OBVIOUS
<1>2. x.status = "confirmed" /\ x.amount = a /\ p = [payment EXCEPT ![k] = x]  BY <1>1
<1>3. payment = [i \in Key |-> payment[i]]  BY DEF PaymentInv
<1> QED BY <1>2, <1>3, WriteAdds

\* A reversal takes its payment out of what was paid.
LEMMA ReversalTakes ==
  ASSUME PaymentInv, NEW k \in Key, payment[k].status = "confirmed",
         Summable(payment, "confirmed"),
         NEW p, p = [payment EXCEPT ![k].status = "canceled"]
  PROVE  /\ Summable(p, "confirmed")
         /\ StatusTotal(payment, "confirmed") = payment[k].amount + StatusTotal(p, "confirmed")
<1>1. PICK x : x = [payment[k] EXCEPT !.status = "canceled"]  OBVIOUS
<1>2. PaymentRow(payment[k]) /\ payment = [i \in Key |-> payment[i]]  BY DEF PaymentInv
<1>3. x.status # "confirmed" /\ p = [payment EXCEPT ![k] = x]
  BY <1>1, <1>2 DEF PaymentRow, NoRow
<1> QED BY <1>2, <1>3, WriteTakes

\* Amounts are numbers, and so is what is confirmed.
LEMMA PaymentNumbers ==
  ASSUME PaymentInv
  PROVE  /\ Amount \subseteq Int /\ Amount \subseteq Nat
         /\ \A k \in Key : payment[k].amount \in Nat
         /\ Summable(payment, "confirmed") => StatusTotal(payment, "confirmed") \in Int
         /\ \A r \in Req : job[r].kind = "payment" => job[r].amount \in Nat
<1>1. Amount \subseteq Nat  BY AmountAssumption
<1> QED BY <1>1, StatusTotalIsInt DEF PaymentInv, PaymentRow, OnPayments, NoRow

\* Beginnings write nothing.
LEMMA BegunKeepsPaid ==
  ASSUME PaidInv, NEW r \in Req, HasBegun(r)
  PROVE  SerialPayments'
<1>1. PICK j : /\ Begin(r, j) /\ IsJob(j)
               /\ \/ BegunOnPeriod(j)
                  \/ BegunOnAdvance(j)
                  \/ BegunOnRequest(j)
                  \/ BegunOnPage(j)
  BY DEF HasBegun
<1>2. Placed /\ SerialPayments  BY DEF PaidInv, PaymentInv
<1>3. /\ job'[r] = j /\ OthersStay(r) /\ scenario' = scenario
      /\ UNCHANGED <<adjustment, advance, payment, expense, calc>>
  BY <1>1, <1>2 DEF Begin, OthersStay, Placed, rows
<1>4. HasTotals(r)'
  <2>1. CASE j.kind \in LedgerKind
    <3>1. j.todo = <<"start", "commit">>
      BY <1>1, <2>1 DEF BegunOnPeriod, BegunOnAdvance, BegunOnRequest, BegunOnPage, LedgerKind
    <3>2. ~InTime(r)'  BY <1>3, <3>1, Firsts DEF InTime, At, First
    <3> QED BY <3>2 DEF HasTotals
  <2>2. CASE j.kind \notin LedgerKind  BY <1>3, <2>2 DEF HasTotals, LedgerKind
  <2> QED BY <2>1, <2>2
<1> QED BY <1>2, <1>3, <1>4, CountsStay

\* The statements of a transition, and the end of a process.
LEMMA TransitionKeepsPaid ==
  ASSUME PaidInv, NEW r \in Req,
         \/ MovePeriod(r) \/ Lock(r) \/ Bill(r) \/ Owe(r) \/ Remainder(r) \/ OpenDebt(r)
         \/ Shut(r) \/ Crash(r)
  PROVE  SerialPayments'
<1>1. Placed /\ SerialPayments  BY DEF PaidInv, PaymentInv
<1>2. Stepped(r)  BY <1>1, StatementSteps DEF Statement
<1>3. UNCHANGED <<adjustment, advance, payment, expense>>
  BY DEF MovePeriod, Lock, Bill, Owe, Remainder, OpenDebt, Shut, Crash, rows
<1>4. \/ calc' = calc
      \/ calc' = [calc EXCEPT !.status = "approved"]
      \/ calc' = [calc EXCEPT !.status = "closed"]
  BY DEF MovePeriod, Lock, Bill, Owe, Remainder, OpenDebt, Shut, Crash, rows
<1>5. IsCalc(calc) => /\ IsCalc(calc') /\ calc'.auto = calc.auto
                      /\ calc'.net = calc.net /\ calc'.paid = calc.paid
  BY <1>4 DEF IsCalc
<1>6. job'[r].kind \notin LedgerKind
  <2>1. CASE job'[r] = Idle  BY <2>1 DEF Idle, LedgerKind
  <2>2. CASE job'[r] # Idle
    <3>1. job'[r].kind = job[r].kind  BY <1>2, <2>2 DEF Stepped, GoneOn
    <3>2. CASE Crash(r)
      <4>1. job'[r] = Idle  BY <1>1, <3>2, SetIs DEF Crash, Finish
      <4> QED BY <4>1, <2>2
    <3>3. CASE ~Crash(r)
      <4>1. OffLedger(r)  BY <3>3 DEF OffLedger
      <4> QED BY <1>1, <3>1, <4>1, OffLedgerIs
    <3> QED BY <3>2, <3>3
  <2> QED BY <2>1, <2>2
<1>7. HasTotals(r)'  BY <1>6 DEF HasTotals, LedgerKind
<1> QED BY <1>1, <1>2, <1>3, <1>5, <1>7, CountsStay DEF Stepped

\* The start and the retry of a transaction write nothing.
LEMMA OpensPaid ==
  ASSUME PaidInv, NEW r \in Req, StartPayment(r) \/ StartReversal(r) \/ Retry(r),
         scenario.calls \subseteq PaymentCalls => HasTotals(r)'
  PROVE  SerialPayments'
<1>1. Placed /\ SerialPayments  BY DEF PaidInv, PaymentInv
<1>2. Stepped(r)  BY <1>1, StatementSteps DEF Statement
<1>3. UNCHANGED <<adjustment, advance, payment, expense, calc>>
  BY DEF StartPayment, StartReversal, Retry, rows
<1> QED BY <1>1, <1>2, <1>3, CountsStay DEF Stepped

\* The start of a payment computes what is paid with it, within what was earned.
LEMMA StartPaymentKeepsPaid ==
  ASSUME PaidInv, NEW r \in Req, StartPayment(r)
  PROVE  SerialPayments'
<1> SUFFICES ASSUME scenario.calls \subseteq PaymentCalls PROVE HasTotals(r)'  BY OpensPaid
<1>1. Placed /\ PaymentInv /\ Unadvanced /\ Counted
  BY DEF PaidInv, PaymentInv, SerialPayments
<1>2. payment' = payment /\ calc' = calc /\ At(r, "start") /\ job[r].kind = "payment"
  BY DEF StartPayment, rows
<1>3. CASE Finish(r)
  <2>1. job'[r] = Idle  BY <1>1, <1>3, SetIs DEF Finish
  <2> QED BY <2>1 DEF HasTotals, InTime, At, Idle
<1>4. CASE ~Finish(r)
  <2>1. PICK p, j : /\ ~KeyTaken(job[r].row) /\ ~ExceedsRemaining(job[r].amount)
                    /\ Set(r, Rest(j)) /\ j = Summed(job[r], advance, p)
                    /\ p = [payment EXCEPT ![job[r].row] =
                              [status |-> "confirmed", amount |-> job[r].amount]]
    BY <1>4 DEF StartPayment
  <2>2. IsJob(job[r]) /\ OnPayments(r)  BY <1>1 DEF PaymentInv, Placed
  <2>3. job[r].row \in Key /\ job[r].amount \in Int /\ payment[job[r].row].status # "confirmed"
    BY <1>1, <1>2, <2>1, <2>2, PaymentNumbers DEF OnPayments, KeyTaken, NoRow
  <2>4. StatusTotal(p, "confirmed") = job[r].amount + StatusTotal(payment, "confirmed")
    BY <1>1, <2>1, <2>3, PaymentAdds DEF Counted
  <2>5. /\ IsJob(j) /\ j.todo = job[r].todo /\ j.kind = job[r].kind /\ j.amount = job[r].amount
        /\ j.net = calc.net /\ j.paid = 0 + StatusTotal(p, "confirmed")
    BY <1>1, <2>1, <2>2, SummedIs, Computes
  <2>6. job'[r] = [j EXCEPT !.todo = <<"commit">>]
    <3>1. Rest(j) = [j EXCEPT !.todo = <<"commit">>]  BY <1>1, <1>2, <2>5, StartIs
    <3>2. job'[r] = Rest(j)  BY <1>1, <2>1, SetIs
    <3> QED BY <3>1, <3>2
  <2>7. /\ job'[r].kind = "payment" /\ job'[r].net = j.net /\ job'[r].paid = j.paid
        /\ job'[r].amount = j.amount
    BY <1>2, <2>5, <2>6 DEF IsJob
  <2>8. StatusTotal(payment, "confirmed") \in Int  BY <1>1, PaymentNumbers DEF Counted
  <2>9. job[r].amount <= calc.net - calc.paid /\ calc.net \in Int /\ calc.paid \in Int
    BY <1>1, <2>1, <2>3, <2>8 DEF ExceedsRemaining, Unadvanced, Counted
  <2>10. /\ job'[r].net = calc.net
         /\ job'[r].paid = job'[r].amount + StatusTotal(payment, "confirmed")
         /\ job'[r].paid <= calc.net
    BY <1>1, <2>3, <2>4, <2>5, <2>7, <2>8, <2>9 DEF Counted
  <2> QED BY <1>2, <2>7, <2>10 DEF HasTotals
<1> QED BY <1>3, <1>4

\* The start of a reversal computes what is paid without the payment.
LEMMA StartReversalKeepsPaid ==
  ASSUME PaidInv, NEW r \in Req, StartReversal(r)
  PROVE  SerialPayments'
<1> SUFFICES ASSUME scenario.calls \subseteq PaymentCalls PROVE HasTotals(r)'  BY OpensPaid
<1>1. Placed /\ PaymentInv /\ Unadvanced /\ Counted
  BY DEF PaidInv, PaymentInv, SerialPayments
<1>2. payment' = payment /\ calc' = calc /\ At(r, "start") /\ job[r].kind = "reversal"
  BY DEF StartReversal, rows
<1>3. CASE Finish(r)
  <2>1. job'[r] = Idle  BY <1>1, <1>3, SetIs DEF Finish
  <2> QED BY <2>1 DEF HasTotals, InTime, At, Idle
<1>4. CASE ~Finish(r)
  <2>1. PICK p, j : /\ payment[job[r].row].status = "confirmed"
                    /\ Set(r, Rest(j)) /\ j = Summed(job[r], advance, p)
                    /\ p = [payment EXCEPT ![job[r].row].status = "canceled"]
    BY <1>4 DEF StartReversal
  <2>2. IsJob(job[r]) /\ job[r].row \in Key
    BY <1>1, <1>2 DEF PaymentInv, Placed, OnPayments
  <2>3. /\ Summable(p, "confirmed")
        /\ StatusTotal(payment, "confirmed") = payment[job[r].row].amount + StatusTotal(p,
             "confirmed")
    BY <1>1, <2>1, <2>2, ReversalTakes DEF Counted
  <2>4. /\ IsJob(j) /\ j.todo = job[r].todo /\ j.kind = job[r].kind /\ j.row = job[r].row
        /\ j.net = calc.net /\ j.paid = 0 + StatusTotal(p, "confirmed")
    BY <1>1, <2>1, <2>2, SummedIs, Computes
  <2>5. job'[r] = [j EXCEPT !.todo = <<"commit">>]
    <3>1. Rest(j) = [j EXCEPT !.todo = <<"commit">>]  BY <1>1, <1>2, <2>4, StartIs
    <3>2. job'[r] = Rest(j)  BY <1>1, <2>1, SetIs
    <3> QED BY <3>1, <3>2
  <2>6. /\ job'[r].kind = "reversal" /\ job'[r].net = j.net /\ job'[r].paid = j.paid
        /\ job'[r].row = j.row
    BY <1>2, <2>4, <2>5 DEF IsJob
  <2>7. StatusTotal(p, "confirmed") \in Int /\ payment[job[r].row].amount \in Int
    BY <1>1, <2>2, <2>3, PaymentNumbers, StatusTotalIsInt
  <2>8. job'[r].paid = StatusTotal(payment, "confirmed") - payment[job'[r].row].amount
    BY <2>3, <2>4, <2>6, <2>7
  <2> QED BY <1>2, <2>4, <2>6, <2>8 DEF HasTotals
<1> QED BY <1>3, <1>4

\* A transaction started again has computed nothing yet.
LEMMA RetryKeepsPaid ==
  ASSUME PaidInv, NEW r \in Req, Retry(r)
  PROVE  SerialPayments'
<1>1. Placed  BY DEF PaidInv, PaymentInv
<1>2. ~InTime(r)'
  <2>1. CASE Finish(r)
    <3>1. job'[r] = Idle  BY <1>1, <2>1, SetIs DEF Finish
    <3> QED BY <3>1 DEF InTime, At, Idle
  <2>2. CASE ~Finish(r)
    <3>1. PICK j : /\ j = [job[r]
                        EXCEPT !.todo = <<"start", "commit">>, !.tries = @ + 1, !.stale = FALSE]
                   /\ Set(r, j)
      BY <2>2 DEF Retry
    <3>2. job'[r] = j /\ IsJob(job[r])  BY <1>1, <3>1, SetIs DEF Placed
    <3>3. job'[r].todo = <<"start", "commit">>  BY <3>1, <3>2 DEF IsJob
    <3> QED BY <3>3, Firsts DEF InTime, At, First
  <2> QED BY <2>1, <2>2
<1> QED BY <1>2, OpensPaid DEF HasTotals

\* The commits write the totals with the row they were computed for.
LEMMA CommitKeepsPaid ==
  ASSUME PaidInv, NEW r \in Req, CommitPayment(r) \/ CommitReversal(r)
  PROVE  SerialPayments'
<1> SUFFICES ASSUME scenario.calls \subseteq PaymentCalls
             PROVE  (Unadvanced /\ Counted /\ Matched /\ \A q \in Req : HasTotals(q))'
  <2>1. Placed  BY DEF PaidInv, PaymentInv
  <2>2. scenario' = scenario  BY <2>1, StatementSteps DEF Statement, Stepped
  <2> QED BY <2>2 DEF SerialPayments
<1>1. Placed /\ PaymentInv /\ Unadvanced /\ Counted /\ Matched /\ HasTotals(r)
  BY DEF PaidInv, PaymentInv, SerialPayments
<1>2. At(r, "commit") /\ ~Fails(r) /\ ProceedWriting(r) /\ calc' = Retotalled(job[r])
      /\ UNCHANGED <<adjustment, advance>>
  BY DEF CommitPayment, CommitReversal
<1>3. \A q \in Req : HasTotals(q)'
  <2>1. ASSUME NEW q \in Req PROVE ~InTime(q)'
    <3>1. CASE q = r
      <4>1. job'[q] = Idle  BY <1>1, <1>2, <3>1, CommitEnds
      <4> QED BY <4>1 DEF InTime, At, Idle
    <3>2. CASE q # r  BY <1>1, <1>2, <3>2, NoneInTime
    <3> QED BY <3>1, <3>2
  <2> QED BY <2>1 DEF HasTotals
<1>4. /\ IsCalc(calc') /\ calc'.auto = calc.auto /\ calc'.net = job[r].net
      /\ calc'.paid = job[r].paid
  BY <1>1, <1>2, RetotalledIs DEF Unadvanced
<1>5. InTime(r) /\ job[r].kind \in LedgerKind  BY <1>1, <1>2, LedgerSteps DEF InTime
<1>6. job[r].row \in Key /\ OnPayments(r)  BY <1>1, <1>5 DEF PaymentInv, OnPayments, LedgerKind
<1>7. calc'.net = calc.net  BY <1>1, <1>4, <1>5 DEF HasTotals, LedgerKind
<1>8. Unadvanced'  BY <1>1, <1>2, <1>4, <1>7 DEF Unadvanced
<1>9. StatusTotal(payment, "confirmed") \in Int /\ payment[job[r].row].amount \in Nat
  BY <1>1, <1>6, PaymentNumbers DEF Counted
<1>10. CASE CommitPayment(r)
  <2>1. job[r].kind = "payment" /\ expense' = Spent(job[r].row, job[r].amount)
    BY <1>10 DEF CommitPayment
  <2>2. PICK p : /\ payment' = p
                 /\ p = [payment EXCEPT ![job[r].row] =
                           [status |-> "confirmed", amount |-> job[r].amount]]
    BY <1>10 DEF CommitPayment
  <2>3. payment[job[r].row].status # "confirmed" /\ job[r].amount \in Int
    BY <1>1, <1>5, <1>6, <2>1, PaymentNumbers DEF OnPayments, NoRow
  <2>4. /\ Summable(p, "confirmed")
        /\ StatusTotal(p, "confirmed") = job[r].amount + StatusTotal(payment, "confirmed")
    BY <1>1, <1>6, <2>2, <2>3, PaymentAdds DEF Counted
  <2>5. Summable(payment', "confirmed") /\ calc'.paid = StatusTotal(payment', "confirmed")
        /\ calc'.paid <= calc'.net
    BY <1>1, <1>4, <1>5, <1>7, <2>1, <2>2, <2>4 DEF HasTotals
  <2>6. Matched'
    <3>1. PICK x : x = [status |-> "confirmed", amount |-> job[r].amount]  OBVIOUS
    <3>2. expense' = [expense EXCEPT ![job[r].row] = x]
          /\ payment' = [payment EXCEPT ![job[r].row] = x]
          /\ x.status = "confirmed" /\ IsExpense(x)
      BY <2>1, <2>2, <3>1 DEF Spent, IsExpense
    <3>3. Key \subseteq Payout  BY DEF Payout
    <3>4. /\ expense' = [e \in Payout |-> expense'[e]]
          /\ \A e \in Payout : expense'[e] = IF e = job[r].row THEN x ELSE expense[e]
          /\ \A k \in Key : payment'[k] = IF k = job[r].row THEN x ELSE payment[k]
      BY <1>1, <1>6, <3>2, <3>3 DEF Matched, PaymentInv
    <3> QED BY <1>1, <3>2, <3>3, <3>4 DEF Matched
  <2> QED BY <1>3, <1>8, <2>5, <2>6 DEF Counted
<1>11. CASE CommitReversal(r)
  <2>1. job[r].kind = "reversal" /\ expense' = Unspent(job[r].row)
    BY <1>11 DEF CommitReversal
  <2>2. PICK p : payment' = p /\ p = [payment EXCEPT ![job[r].row].status = "canceled"]
    BY <1>11 DEF CommitReversal
  <2>3. payment[job[r].row].status = "confirmed"
    BY <1>1, <1>5, <1>6, <2>1 DEF OnPayments
  <2>4. /\ Summable(p, "confirmed")
        /\ StatusTotal(payment, "confirmed") = payment[job[r].row].amount + StatusTotal(p,
             "confirmed")
    BY <1>1, <1>6, <2>2, <2>3, ReversalTakes DEF Counted
  <2>5. StatusTotal(p, "confirmed") \in Int  BY <2>4, StatusTotalIsInt
  <2>6. job[r].paid = StatusTotal(payment, "confirmed") - payment[job[r].row].amount
    BY <1>1, <1>5, <2>1 DEF HasTotals
  <2>7. job[r].paid = StatusTotal(p, "confirmed")  BY <1>9, <2>4, <2>5, <2>6
  <2>8. /\ Summable(payment', "confirmed") /\ calc'.paid = StatusTotal(payment', "confirmed")
        /\ calc'.paid <= calc'.net
    BY <1>1, <1>4, <1>7, <1>9, <2>2, <2>4, <2>5, <2>7 DEF Counted, Unadvanced
  <2>9. Matched'
    <3>1. PICK k : k = job[r].row  OBVIOUS
    <3>2. k \in Key /\ k \in Payout /\ k # None  BY <1>6, <3>1, PayoutAssumption DEF Payout
    <3>3. expense[k].status = "confirmed" /\ IsExpense(expense[k])
      BY <1>1, <2>3, <3>1, <3>2 DEF Matched
    <3>4. PICK x, y : /\ x = [expense[k] EXCEPT !.status = "cancelled"]
                      /\ y = [payment[k] EXCEPT !.status = "canceled"]
      OBVIOUS
    <3>5. expense' = [expense EXCEPT ![k] = x]  BY <2>1, <3>1, <3>2, <3>3, <3>4 DEF Unspent
    <3>6. payment' = [payment EXCEPT ![k] = y]  BY <2>2, <3>1, <3>4
    <3>7. x.status = "cancelled" /\ IsExpense(x)  BY <3>3, <3>4 DEF IsExpense
    <3>8. y.status = "canceled"
      BY <1>1, <2>3, <3>1, <3>2, <3>4 DEF PaymentInv, PaymentRow, NoRow
    <3>9. /\ expense' = [e \in Payout |-> expense'[e]]
          /\ \A e \in Payout : expense'[e] = IF e = k THEN x ELSE expense[e]
          /\ \A i \in Key : payment'[i] = IF i = k THEN y ELSE payment[i]
      BY <1>1, <3>2, <3>5, <3>6 DEF Matched, PaymentInv
    <3>10. Key \subseteq Payout  BY DEF Payout
    <3> QED BY <1>1, <3>7, <3>8, <3>9, <3>10 DEF Matched
  <2> QED BY <1>3, <1>8, <2>8, <2>9 DEF Counted
<1> QED BY <1>10, <1>11

\* Every step keeps the invariant.
LEMMA NextKeepsPaid ==
  ASSUME PaidInv, [Next]_vars
  PROVE  PaidInv'
<1>1. PaymentInv' /\ Placed  BY NextKeepsPayments DEF PaidInv, PaymentInv
<1>2. ASSUME NEW r \in Req, HasBegun(r) PROVE SerialPayments'  BY <1>2, BegunKeepsPaid
<1>3. ASSUME NEW r \in Req, Statement(r) PROVE SerialPayments'
  <2>1. CASE scenario.calls \subseteq PaymentCalls
    <3>1. OnlyPaying(r)  BY <1>1, <1>3, <2>1, PayingStatements
    <3> QED BY <3>1, StartPaymentKeepsPaid, StartReversalKeepsPaid, RetryKeepsPaid,
          CommitKeepsPaid,
            TransitionKeepsPaid DEF OnlyPaying
  <2>2. CASE ~(scenario.calls \subseteq PaymentCalls)
    <3>1. scenario' = scenario  BY <1>1, <1>3, StatementSteps DEF Stepped
    <3> QED BY <2>2, <3>1 DEF SerialPayments
  <2> QED BY <2>1, <2>2
<1>4. ASSUME UNCHANGED vars PROVE SerialPayments'
  <2>1. UNCHANGED <<scenario, job, adjustment, advance, calc, payment, expense>>
    BY <1>4 DEF vars, rows
  <2>2. (\A r \in Req : HasTotals(r)) => (\A r \in Req : HasTotals(r)')
    BY <2>1 DEF HasTotals, InTime, At, Fails
  <2>3. Unadvanced => Unadvanced'  BY <2>1 DEF Unadvanced
  <2>4. Counted => Counted'  BY <2>1 DEF Counted
  <2>5. Matched => Matched'  BY <2>1 DEF Matched
  <2> QED BY <2>1, <2>2, <2>3, <2>4, <2>5 DEF PaidInv, SerialPayments
<1>5. SerialPayments'  BY <1>2, <1>3, <1>4, NextIs
<1> QED BY <1>1, <1>5 DEF PaidInv

(* Payments and reversals of one month that run together, and in part      *)
(* crash, are as good as one after the other: the totals are those of the  *)
(* rows, no more is paid than was earned, and an expense stands for every  *)
(* payment that stands and for no other.                                   *)
THEOREM PaymentsSerialise == Spec => []PaymentsAreSerial
<1>1. Init => PaidInv
  <2>1. \A s \in Scenarios : s.start \in Amount \cup {0}  BY ScenarioAssumption
  <2>2. ASSUME NEW s \in Scenarios PROVE s.start \in Nat
    <3>1. CASE s.start \in Amount  BY <3>1, AmountAssumption
    <3>2. CASE s.start = 0  BY <3>2
    <3> QED BY <2>1, <3>1, <3>2
  <2> QED BY <2>2, InitPaid
<1>2. PaidInv /\ [Next]_vars => PaidInv'  BY NextKeepsPaid
<1>3. PaidInv => PaymentsAreSerial
  <2>1. PaymentsOnly <=> scenario.calls \subseteq PaymentCalls
    BY DEF PaymentsOnly, PaymentCalls
  <2>2. Confirmed(payment) = StatusTotal(payment, "confirmed")  BY ConfirmedIs
  <2> QED BY <2>1, <2>2 DEF PaidInv, SerialPayments, Counted, Matched, PaymentsAreSerial
<1> QED BY <1>1, <1>2, <1>3, PTL DEF Spec

-----------------------------------------------------------------------------
(* How a handler goes on.                                                  *)

\* The step t comes right after the step s.
Comes(s, t) ==
  \/ /\ t = "sum"
     /\ s \in {"seed", "inputs", "adjust", "unadjust", "cancel", "tranche", "reverse", "bonus",
          "auto"}
  \/ s = "sum" /\ t = "total"
  \/ s = "total" /\ t = "applied"
  \/ s = "move" /\ t \in {"lock", "remainder"}
  \/ s = "lock" /\ t = "bill"
  \/ s = "bill" /\ t = "owe"
  \/ s = "remainder" /\ t = "debt"
  \/ s = "debt" /\ t = "shut"
  \/ s = "start" /\ t = "commit"
  \/ s = "repay" /\ t = "settle"
  \/ s = "fold" /\ t \in {"issue", "payout"}
  \/ s = "record" /\ t = "fold"
  \/ s = "refund" /\ t \in {"cancel", "reverse"}
  \/ s = "ceiling" /\ t = "tranche"
  \/ s = "claim" /\ t \in {"bonus", "overrides", "pending"}
  \/ s = "overrides" /\ t = "override"
  \/ s = "override" /\ t = "effective"
  \/ s = "effective" /\ t = "auto"
  \/ s = "pending" /\ t = "version"

\* What is planned after a step begins with one that comes after it.
LEMMA ComesNext ==
  ASSUME NEW kind, NEW s, NEW rest, Course(kind, s, rest), rest # <<>>
  PROVE  Comes(s, Head(rest))
<1>1. CASE s = "seed"
  <2>1. rest = <<"sum", "total">>  BY <1>1 DEF Course
  <2> QED BY <1>1, <2>1 DEF Comes
<1>2. CASE s = "sum"
  <2>1. rest \in {<<"total">>,
                  <<"total", "applied">>}
    BY <1>2 DEF Course
  <2>2. CASE rest = <<"total">>
    BY <1>2, <2>2 DEF Comes
  <2>3. CASE rest = <<"total", "applied">>
    BY <1>2, <2>3 DEF Comes
  <2> QED BY <2>1, <2>2, <2>3
<1>3. CASE s = "total"
  <2>1. rest = <<"applied">>  BY <1>3 DEF Course
  <2> QED BY <1>3, <2>1 DEF Comes
<1>4. CASE s = "inputs"
  <2>1. rest = <<"sum", "total">>  BY <1>4 DEF Course
  <2> QED BY <1>4, <2>1 DEF Comes
<1>5. CASE s = "move"
  <2>1. rest \in {<<"lock", "bill", "owe">>,
                  <<"remainder", "debt", "shut">>}
    BY <1>5 DEF Course
  <2>2. CASE rest = <<"lock", "bill", "owe">>
    BY <1>5, <2>2 DEF Comes
  <2>3. CASE rest = <<"remainder", "debt", "shut">>
    BY <1>5, <2>3 DEF Comes
  <2> QED BY <2>1, <2>2, <2>3
<1>6. CASE s = "lock"
  <2>1. rest = <<"bill", "owe">>  BY <1>6 DEF Course
  <2> QED BY <1>6, <2>1 DEF Comes
<1>7. CASE s = "bill"
  <2>1. rest = <<"owe">>  BY <1>7 DEF Course
  <2> QED BY <1>7, <2>1 DEF Comes
<1>8. CASE s = "remainder"
  <2>1. rest = <<"debt", "shut">>  BY <1>8 DEF Course
  <2> QED BY <1>8, <2>1 DEF Comes
<1>9. CASE s = "debt"
  <2>1. rest = <<"shut">>  BY <1>9 DEF Course
  <2> QED BY <1>9, <2>1 DEF Comes
<1>10. CASE s = "adjust"
  <2>1. rest = <<"sum", "total">>  BY <1>10 DEF Course
  <2> QED BY <1>10, <2>1 DEF Comes
<1>11. CASE s = "unadjust"
  <2>1. rest = <<"sum", "total">>  BY <1>11 DEF Course
  <2> QED BY <1>11, <2>1 DEF Comes
<1>12. CASE s = "start"
  <2>1. rest = <<"commit">>  BY <1>12 DEF Course
  <2> QED BY <1>12, <2>1 DEF Comes
<1>13. CASE s = "repay"
  <2>1. rest = <<"settle">>  BY <1>13 DEF Course
  <2> QED BY <1>13, <2>1 DEF Comes
<1>14. CASE s = "fold"
  <2>1. rest \in {<<"issue">>,
                  <<"payout">>}
    BY <1>14 DEF Course
  <2>2. CASE rest = <<"issue">>
    BY <1>14, <2>2 DEF Comes
  <2>3. CASE rest = <<"payout">>
    BY <1>14, <2>3 DEF Comes
  <2> QED BY <2>1, <2>2, <2>3
<1>15. CASE s = "record"
  <2>1. rest = <<"fold", "payout">>  BY <1>15 DEF Course
  <2> QED BY <1>15, <2>1 DEF Comes
<1>16. CASE s = "refund"
  <2>1. rest \in {<<"cancel", "sum", "total">>,
                  <<"reverse", "sum", "total">>,
                  <<"reverse">>}
    BY <1>16 DEF Course
  <2>2. CASE rest = <<"cancel", "sum", "total">>
    BY <1>16, <2>2 DEF Comes
  <2>3. CASE rest = <<"reverse", "sum", "total">>
    BY <1>16, <2>3 DEF Comes
  <2>4. CASE rest = <<"reverse">>
    BY <1>16, <2>4 DEF Comes
  <2> QED BY <2>1, <2>2, <2>3, <2>4
<1>17. CASE s = "cancel"
  <2>1. rest = <<"sum", "total">>  BY <1>17 DEF Course
  <2> QED BY <1>17, <2>1 DEF Comes
<1>18. CASE s = "ceiling"
  <2>1. rest = <<"tranche", "sum", "total">>  BY <1>18 DEF Course
  <2> QED BY <1>18, <2>1 DEF Comes
<1>19. CASE s = "tranche"
  <2>1. rest = <<"sum", "total">>  BY <1>19 DEF Course
  <2> QED BY <1>19, <2>1 DEF Comes
<1>20. CASE s = "reverse"
  <2>1. rest = <<"sum", "total">>  BY <1>20 DEF Course
  <2> QED BY <1>20, <2>1 DEF Comes
<1>21. CASE s = "claim"
  <2>1. rest \in {<<"bonus", "sum", "total", "applied">>,
                  <<"pending", "version">>,
                  <<"overrides", "override", "effective", "auto", "sum", "total", "applied">>}
    BY <1>21 DEF Course
  <2>2. CASE rest = <<"bonus", "sum", "total", "applied">>
    BY <1>21, <2>2 DEF Comes
  <2>3. CASE rest = <<"pending", "version">>
    BY <1>21, <2>3 DEF Comes
  <2>4. CASE rest = <<"overrides", "override", "effective", "auto", "sum", "total", "applied">>
    BY <1>21, <2>4 DEF Comes
  <2> QED BY <2>1, <2>2, <2>3, <2>4
<1>22. CASE s = "bonus"
  <2>1. rest = <<"sum", "total", "applied">>  BY <1>22 DEF Course
  <2> QED BY <1>22, <2>1 DEF Comes
<1>23. CASE s = "overrides"
  <2>1. rest = <<"override", "effective", "auto", "sum", "total", "applied">>
    BY <1>23 DEF Course
  <2> QED BY <1>23, <2>1 DEF Comes
<1>24. CASE s = "override"
  <2>1. rest = <<"effective", "auto", "sum", "total", "applied">>  BY <1>24 DEF Course
  <2> QED BY <1>24, <2>1 DEF Comes
<1>25. CASE s = "effective"
  <2>1. rest = <<"auto", "sum", "total", "applied">>  BY <1>25 DEF Course
  <2> QED BY <1>25, <2>1 DEF Comes
<1>26. CASE s = "auto"
  <2>1. rest = <<"sum", "total", "applied">>  BY <1>26 DEF Course
  <2> QED BY <1>26, <2>1 DEF Comes
<1>27. CASE s = "pending"
  <2>1. rest = <<"version">>  BY <1>27 DEF Course
  <2> QED BY <1>27, <2>1 DEF Comes
<1> QED BY <1>1, <1>2, <1>3, <1>4, <1>5, <1>6, <1>7, <1>8, <1>9, <1>10, <1>11, <1>12, <1>13,
      <1>14, <1>15, <1>16, <1>17, <1>18, <1>19, <1>20, <1>21, <1>22, <1>23, <1>24, <1>25,
        <1>26, <1>27 DEF Course

\* The steps that only read, and note what they find in the job.
Noting == {"sum", "fold", "bill", "start", "remainder", "overrides", "effective"}

\* The step s was done: the job is over, or at the step that comes after s.
Follows(r, s) ==
  /\ At(r, s) /\ OthersStay(r) /\ scenario' = scenario
  /\ \/ job'[r] = Idle
     \/ \E rest :
          /\ First(job[r].todo, s, rest) /\ Course(job[r].kind, s, rest) /\ rest # <<>>
          /\ IsJob(job'[r]) /\ job'[r].todo = rest
          /\ job'[r].kind = job[r].kind /\ job'[r].row = job[r].row
          /\ s # "remainder" => job'[r].to = job[r].to /\ job'[r].amount = job[r].amount
          /\ s \notin Noting => job'[r].net = job[r].net /\ job'[r].paid = job[r].paid
                                /\ job'[r].found = job[r].found
                                /\ job'[r].overrides = job[r].overrides

\* The job k is the job j, with rest as its plan.
Carries(k, j, rest) ==
  /\ IsJob(k) /\ k.todo = rest /\ k.kind = j.kind /\ k.row = j.row /\ k.to = j.to
  /\ k.amount = j.amount /\ k.net = j.net /\ k.paid = j.paid /\ k.found = j.found
  /\ k.overrides = j.overrides /\ k.stale = j.stale

\* What remains of a job.
LEMMA Remnant ==
  ASSUME NEW j, IsJob(j), NEW t, NEW rest, First(j.todo, t, rest)
  PROVE  (rest = <<>> => Rest(j) = Idle) /\ (rest # <<>> => Carries(Rest(j), j, rest))
<1>1. PICK k : k = [j EXCEPT !.todo = rest]  OBVIOUS
<1>2. Rest(j) = IF rest = <<>> THEN Idle ELSE k  BY <1>1, RestIs
<1>3. Carries(k, j, rest)  BY <1>1 DEF IsJob, Carries
<1> QED BY <1>2, <1>3

\* A job that may have noted something is taken to what remains of it.
LEMMA TakenOn ==
  ASSUME Placed, NEW r \in Req, NEW s, At(r, s), NEW j, IsJob(j), job'[r] = Rest(j),
         OthersStay(r), scenario' = scenario,
         j.kind = job[r].kind, j.todo = job[r].todo, j.row = job[r].row,
         s # "remainder" => j.to = job[r].to /\ j.amount = job[r].amount,
         s \notin Noting => j.net = job[r].net /\ j.paid = job[r].paid
                            /\ j.found = job[r].found /\ j.overrides = job[r].overrides
  PROVE  Follows(r, s)
<1>1. PICK rest : First(job[r].todo, s, rest) /\ Course(job[r].kind, s, rest)  BY AtStep
<1>2. First(j.todo, s, rest)  BY <1>1
<1>3. CASE rest = <<>>  BY <1>2, <1>3, Remnant DEF Follows
<1>4. CASE rest # <<>>
  <2>1. Carries(Rest(j), j, rest)  BY <1>2, <1>4, Remnant
  <2> QED BY <1>1, <1>4, <2>1 DEF Follows, Carries
<1> QED BY <1>3, <1>4

\* A step that only takes the job on.
LEMMA WritesAndFollows ==
  ASSUME Placed, NEW r \in Req, NEW s, At(r, s), Proceed(r) \/ ProceedWriting(r) \/ Finish(r)
  PROVE  Follows(r, s)
<1>1. OthersStay(r) /\ scenario' = scenario /\ job'[r] \in {Idle, Rest(job[r])}
  <2>1. CASE Proceed(r)  BY <2>1, SetIs DEF Proceed
  <2>2. CASE ProceedWriting(r)  BY <2>2, ProceedWritingIs
  <2>3. CASE Finish(r)  BY <2>3, SetIs DEF Finish
  <2> QED BY <2>1, <2>2, <2>3
<1>2. CASE job'[r] = Idle  BY <1>1, <1>2 DEF Follows
<1>3. CASE job'[r] = Rest(job[r])
  <2>1. IsJob(job[r])  BY DEF Placed
  <2> QED BY <1>1, <1>3, <2>1, TakenOn
<1> QED BY <1>1, <1>2, <1>3

\* A step that notes something.
LEMMA NotesAndFollows ==
  ASSUME Placed, NEW r \in Req, NEW s \in Noting, At(r, s), NEW j, IsJob(j), Set(r, Rest(j)),
         j.kind = job[r].kind, j.todo = job[r].todo, j.row = job[r].row,
         s # "remainder" => j.to = job[r].to /\ j.amount = job[r].amount
  PROVE  Follows(r, s)
<1>1. job'[r] = Rest(j) /\ OthersStay(r) /\ scenario' = scenario  BY SetIs
<1> QED BY <1>1, TakenOn

\* Every statement does the step its handler is at; only the retry of a
\* transaction and a failed approval take the job elsewhere.
LEMMA StatementFollows ==
  ASSUME Placed, NEW r \in Req, Statement(r)
  PROVE  (\E s : Follows(r, s)) \/ Retry(r) \/ FailApproval(r)
<1> SUFFICES ASSUME ~Retry(r), ~FailApproval(r) PROVE \E s : Follows(r, s)  OBVIOUS
<1>1. CASE Create(r)
  <2>1. At(r, "create") /\ (Proceed(r) \/ ProceedWriting(r) \/ Finish(r))
    BY <1>1 DEF Create
  <2> QED BY <2>1, WritesAndFollows
<1>2. CASE Seed(r)
  <2>1. At(r, "seed") /\ (Proceed(r) \/ ProceedWriting(r) \/ Finish(r))
    BY <1>2 DEF Seed
  <2> QED BY <2>1, WritesAndFollows
<1>3. CASE Inputs(r)
  <2>1. At(r, "inputs") /\ (Proceed(r) \/ ProceedWriting(r) \/ Finish(r))
    BY <1>3 DEF Inputs
  <2> QED BY <2>1, WritesAndFollows
<1>4. CASE MovePeriod(r)
  <2>1. At(r, "move") /\ (Proceed(r) \/ ProceedWriting(r) \/ Finish(r))
    BY <1>4 DEF MovePeriod
  <2> QED BY <2>1, WritesAndFollows
<1>5. CASE Lock(r)
  <2>1. At(r, "lock") /\ (Proceed(r) \/ ProceedWriting(r) \/ Finish(r))
    BY <1>5 DEF Lock
  <2> QED BY <2>1, WritesAndFollows
<1>6. CASE Owe(r)
  <2>1. At(r, "owe") /\ (Proceed(r) \/ ProceedWriting(r) \/ Finish(r))
    BY <1>6 DEF Owe
  <2> QED BY <2>1, WritesAndFollows
<1>7. CASE OpenDebt(r)
  <2>1. At(r, "debt") /\ (Proceed(r) \/ ProceedWriting(r) \/ Finish(r))
    BY <1>7 DEF OpenDebt
  <2> QED BY <2>1, WritesAndFollows
<1>8. CASE Shut(r)
  <2>1. At(r, "shut") /\ (Proceed(r) \/ ProceedWriting(r) \/ Finish(r))
    BY <1>8 DEF Shut
  <2> QED BY <2>1, WritesAndFollows
<1>9. CASE Adjust(r)
  <2>1. At(r, "adjust") /\ (Proceed(r) \/ ProceedWriting(r) \/ Finish(r))
    BY <1>9 DEF Adjust
  <2> QED BY <2>1, WritesAndFollows
<1>10. CASE CancelAdjustment(r)
  <2>1. At(r, "unadjust") /\ (Proceed(r) \/ ProceedWriting(r) \/ Finish(r))
    BY <1>10 DEF CancelAdjustment
  <2> QED BY <2>1, WritesAndFollows
<1>11. CASE CommitPayment(r)
  <2>1. At(r, "commit") /\ (Proceed(r) \/ ProceedWriting(r) \/ Finish(r))
    BY <1>11 DEF CommitPayment
  <2> QED BY <2>1, WritesAndFollows
<1>12. CASE CommitReversal(r)
  <2>1. At(r, "commit") /\ (Proceed(r) \/ ProceedWriting(r) \/ Finish(r))
    BY <1>12 DEF CommitReversal
  <2> QED BY <2>1, WritesAndFollows
<1>13. CASE Repay(r)
  <2>1. At(r, "repay") /\ (Proceed(r) \/ ProceedWriting(r) \/ Finish(r))
    BY <1>13 DEF Repay
  <2> QED BY <2>1, WritesAndFollows
<1>14. CASE Settle(r)
  <2>1. At(r, "settle") /\ (Proceed(r) \/ ProceedWriting(r) \/ Finish(r))
    BY <1>14 DEF Settle
  <2> QED BY <2>1, WritesAndFollows
<1>15. CASE WriteOff(r)
  <2>1. At(r, "writeoff") /\ (Proceed(r) \/ ProceedWriting(r) \/ Finish(r))
    BY <1>15 DEF WriteOff
  <2> QED BY <2>1, WritesAndFollows
<1>16. CASE Issue(r)
  <2>1. At(r, "issue") /\ (Proceed(r) \/ ProceedWriting(r) \/ Finish(r))
    BY <1>16 DEF Issue
  <2> QED BY <2>1, WritesAndFollows
<1>17. CASE PayAdvance(r)
  <2>1. At(r, "payout") /\ (Proceed(r) \/ ProceedWriting(r) \/ Finish(r))
    BY <1>17 DEF PayAdvance
  <2> QED BY <2>1, WritesAndFollows
<1>18. CASE CancelAdvance(r)
  <2>1. At(r, "cancel") /\ (Proceed(r) \/ ProceedWriting(r) \/ Finish(r))
    BY <1>18 DEF CancelAdvance
  <2> QED BY <2>1, WritesAndFollows
<1>19. CASE Raise(r)
  <2>1. At(r, "raise") /\ (Proceed(r) \/ ProceedWriting(r) \/ Finish(r))
    BY <1>19 DEF Raise
  <2> QED BY <2>1, WritesAndFollows
<1>20. CASE Ceiling(r)
  <2>1. At(r, "ceiling") /\ (Proceed(r) \/ ProceedWriting(r) \/ Finish(r))
    BY <1>20 DEF Ceiling
  <2> QED BY <2>1, WritesAndFollows
<1>21. CASE PayTranche(r)
  <2>1. At(r, "tranche") /\ (Proceed(r) \/ ProceedWriting(r) \/ Finish(r))
    BY <1>21 DEF PayTranche
  <2> QED BY <2>1, WritesAndFollows
<1>22. CASE ReverseTranche(r)
  <2>1. At(r, "reverse") /\ (Proceed(r) \/ ProceedWriting(r) \/ Finish(r))
    BY <1>22 DEF ReverseTranche
  <2> QED BY <2>1, WritesAndFollows
<1>23. CASE Bonus(r)
  <2>1. At(r, "bonus") /\ (Proceed(r) \/ ProceedWriting(r) \/ Finish(r))
    BY <1>23 DEF Bonus
  <2> QED BY <2>1, WritesAndFollows
<1>24. CASE WriteOverrides(r)
  <2>1. At(r, "override") /\ (Proceed(r) \/ ProceedWriting(r) \/ Finish(r))
    BY <1>24 DEF WriteOverrides
  <2> QED BY <2>1, WritesAndFollows
<1>25. CASE WriteAuto(r)
  <2>1. At(r, "auto") /\ (Proceed(r) \/ ProceedWriting(r) \/ Finish(r))
    BY <1>25 DEF WriteAuto
  <2> QED BY <2>1, WritesAndFollows
<1>26. CASE Total(r)
  <2>1. At(r, "total") /\ (Proceed(r) \/ ProceedWriting(r) \/ Finish(r))
    BY <1>26 DEF Total
  <2> QED BY <2>1, WritesAndFollows
<1>27. CASE Refund(r)
  <2>1. At(r, "refund") /\ (Proceed(r) \/ ProceedWriting(r) \/ Finish(r))
    BY <1>27 DEF Refund
  <2> QED BY <2>1, WritesAndFollows
<1>28. CASE RequestAdvance(r)
  <2>1. At(r, "request") /\ (Proceed(r) \/ ProceedWriting(r) \/ Finish(r))
    BY <1>28 DEF RequestAdvance, Insert
  <2> QED BY <2>1, WritesAndFollows
<1>29. CASE RecordAdvance(r)
  <2>1. At(r, "record") /\ (Proceed(r) \/ ProceedWriting(r) \/ Finish(r))
    BY <1>29 DEF RecordAdvance, Insert
  <2> QED BY <2>1, WritesAndFollows
<1>30. CASE ApproveAmount(r)
  <2>1. At(r, "approved") /\ (Proceed(r) \/ ProceedWriting(r) \/ Finish(r))
    BY <1>30 DEF ApproveAmount, Insert
  <2> QED BY <2>1, WritesAndFollows
<1>31. CASE Propose(r)
  <2>1. At(r, "propose") /\ (Proceed(r) \/ ProceedWriting(r) \/ Finish(r))
    BY <1>31 DEF Propose
  <2> QED BY <2>1, WritesAndFollows
<1>32. CASE Decide(r)
  <2>1. At(r, "decide") /\ (Proceed(r) \/ ProceedWriting(r) \/ Finish(r))
    BY <1>32 DEF Decide
  <2> QED BY <2>1, WritesAndFollows
<1>33. CASE Release(r)
  <2>1. At(r, "release") /\ (Proceed(r) \/ ProceedWriting(r) \/ Finish(r))
    BY <1>33 DEF Release
  <2> QED BY <2>1, WritesAndFollows
<1>34. CASE Materialize(r)
  <2>1. At(r, "version") /\ (Proceed(r) \/ ProceedWriting(r) \/ Finish(r))
    BY <1>34 DEF Materialize
  <2> QED BY <2>1, WritesAndFollows
<1>35. CASE Claim(r)
  <2>1. At(r, "claim") /\ (Proceed(r) \/ ProceedWriting(r) \/ Finish(r))
    BY <1>35 DEF Claim
  <2> QED BY <2>1, WritesAndFollows
<1>36. CASE MarkApplied(r)
  <2>1. At(r, "applied") /\ (Proceed(r) \/ ProceedWriting(r) \/ Finish(r))
    BY <1>36 DEF MarkApplied, MarkRequest
  <2> QED BY <2>1, WritesAndFollows
<1>37. CASE MarkPending(r)
  <2>1. At(r, "pending") /\ (Proceed(r) \/ ProceedWriting(r) \/ Finish(r))
    BY <1>37 DEF MarkPending, MarkRequest
  <2> QED BY <2>1, WritesAndFollows
<1>38. CASE Sum(r)
  <2>1. At(r, "sum")  BY <1>38 DEF Sum
  <2>2. CASE Finish(r)  BY <2>1, <2>2, WritesAndFollows
  <2>3. CASE ~Finish(r)
    <3>1. PICK j : /\ j = Summed(job[r], advance, payment)
                   /\ Set(r, Rest(j))
      BY <1>38, <2>3 DEF Sum
    <3>2. IsJob(job[r])  BY DEF Placed
    <3>3. /\ IsJob(j) /\ j.todo = job[r].todo /\ j.kind = job[r].kind /\ j.row = job[r].row
          /\ j.to = job[r].to /\ j.amount = job[r].amount
      BY <3>1, <3>2, SummedIs
    <3>4. "sum" \in Noting  BY DEF Noting
    <3> QED BY <2>1, <3>1, <3>3, <3>4, NotesAndFollows
  <2> QED BY <2>2, <2>3
<1>39. CASE Bill(r)
  <2>1. At(r, "bill")  BY <1>39 DEF Bill
  <2>2. CASE Finish(r)  BY <2>1, <2>2, WritesAndFollows
  <2>3. CASE ~Finish(r)
    <3>1. PICK j : /\ j = [job[r] EXCEPT !.net = calc.net, !.paid = calc.paid]
                   /\ Set(r, Rest(j))
      BY <1>39, <2>3 DEF Bill
    <3>2. IsJob(job[r])  BY DEF Placed
    <3>3. /\ IsJob(j) /\ j.todo = job[r].todo /\ j.kind = job[r].kind /\ j.row = job[r].row
          /\ j.to = job[r].to /\ j.amount = job[r].amount
      BY <3>1, <3>2 DEF IsJob
    <3>4. "bill" \in Noting  BY DEF Noting
    <3> QED BY <2>1, <3>1, <3>3, <3>4, NotesAndFollows
  <2> QED BY <2>2, <2>3
<1>40. CASE StartPayment(r)
  <2>1. At(r, "start")  BY <1>40 DEF StartPayment
  <2>2. CASE Finish(r)  BY <2>1, <2>2, WritesAndFollows
  <2>3. CASE ~Finish(r)
    <3>1. PICK j : /\ j = Summed(job[r], advance, [payment EXCEPT ![job[r].row] =
                                  [status |-> "confirmed", amount |-> job[r].amount]])
                   /\ Set(r, Rest(j))
      BY <1>40, <2>3 DEF StartPayment
    <3>2. IsJob(job[r])  BY DEF Placed
    <3>3. /\ IsJob(j) /\ j.todo = job[r].todo /\ j.kind = job[r].kind /\ j.row = job[r].row
          /\ j.to = job[r].to /\ j.amount = job[r].amount
      BY <3>1, <3>2, SummedIs
    <3>4. "start" \in Noting  BY DEF Noting
    <3> QED BY <2>1, <3>1, <3>3, <3>4, NotesAndFollows
  <2> QED BY <2>2, <2>3
<1>41. CASE StartReversal(r)
  <2>1. At(r, "start")  BY <1>41 DEF StartReversal
  <2>2. CASE Finish(r)  BY <2>1, <2>2, WritesAndFollows
  <2>3. CASE ~Finish(r)
    <3>1. PICK j : /\ j = Summed(job[r], advance, [payment
                        EXCEPT ![job[r].row].status = "canceled"])
                   /\ Set(r, Rest(j))
      BY <1>41, <2>3 DEF StartReversal
    <3>2. IsJob(job[r])  BY DEF Placed
    <3>3. /\ IsJob(j) /\ j.todo = job[r].todo /\ j.kind = job[r].kind /\ j.row = job[r].row
          /\ j.to = job[r].to /\ j.amount = job[r].amount
      BY <3>1, <3>2, SummedIs
    <3>4. "start" \in Noting  BY DEF Noting
    <3> QED BY <2>1, <3>1, <3>3, <3>4, NotesAndFollows
  <2> QED BY <2>2, <2>3
<1>42. CASE ReadOverrides(r)
  <2>1. At(r, "overrides")  BY <1>42 DEF ReadOverrides
  <2>2. CASE Finish(r)  BY <2>1, <2>2, WritesAndFollows
  <2>3. CASE ~Finish(r)
    <3>1. PICK j : /\ j = [job[r] EXCEPT !.overrides = calc.overrides \cup {job[r].row}]
                   /\ Set(r, Rest(j))
      BY <1>42, <2>3 DEF ReadOverrides
    <3>2. IsJob(job[r])  BY DEF Placed
    <3>3. /\ IsJob(j) /\ j.todo = job[r].todo /\ j.kind = job[r].kind /\ j.row = job[r].row
          /\ j.to = job[r].to /\ j.amount = job[r].amount
      BY <3>1, <3>2 DEF IsJob
    <3>4. "overrides" \in Noting  BY DEF Noting
    <3> QED BY <2>1, <3>1, <3>3, <3>4, NotesAndFollows
  <2> QED BY <2>2, <2>3
<1>43. CASE ReadEffective(r)
  <2>1. At(r, "effective")  BY <1>43 DEF ReadEffective
  <2>2. CASE Finish(r)  BY <2>1, <2>2, WritesAndFollows
  <2>3. CASE ~Finish(r)
    <3>1. PICK j : /\ j = [job[r] EXCEPT !.net = calc.base + SumOf(request, calc.overrides)]
                   /\ Set(r, Rest(j))
      BY <1>43, <2>3 DEF ReadEffective
    <3>2. IsJob(job[r])  BY DEF Placed
    <3>3. /\ IsJob(j) /\ j.todo = job[r].todo /\ j.kind = job[r].kind /\ j.row = job[r].row
          /\ j.to = job[r].to /\ j.amount = job[r].amount
      BY <3>1, <3>2 DEF IsJob
    <3>4. "effective" \in Noting  BY DEF Noting
    <3> QED BY <2>1, <3>1, <3>3, <3>4, NotesAndFollows
  <2> QED BY <2>2, <2>3
<1>44. CASE Fold(r)
  <2>1. At(r, "fold") /\ "fold" \in Noting  BY <1>44 DEF Fold, Noting
  <2>2. PICK i, j : /\ i = Summed(job[r], Row("paid", job[r], None), payment)
                    /\ j = [i EXCEPT !.found = (calc # NoCalc)] /\ Set(r, Rest(j))
    BY <1>44 DEF Fold
  <2>3. IsJob(job[r])  BY DEF Placed
  <2>4. /\ IsJob(i) /\ i.todo = job[r].todo /\ i.kind = job[r].kind /\ i.row = job[r].row
        /\ i.to = job[r].to /\ i.amount = job[r].amount
    BY <2>2, <2>3, SummedIs
  <2>5. /\ IsJob(j) /\ j.todo = job[r].todo /\ j.kind = job[r].kind /\ j.row = job[r].row
        /\ j.to = job[r].to /\ j.amount = job[r].amount
    BY <2>2, <2>4 DEF IsJob
  <2> QED BY <2>1, <2>2, <2>5, NotesAndFollows
<1>45. CASE Remainder(r)
  <2>1. At(r, "remainder") /\ "remainder" \in Noting  BY <1>45 DEF Remainder, Noting
  <2>2. CASE Finish(r)  BY <2>1, <2>2, WritesAndFollows
  <2>3. CASE ~Finish(r)
    <3>1. PICK j : /\ j = [job[r] EXCEPT !.amount = Left.amount, !.to = Left.reason]
                   /\ Set(r, Rest(j))
      BY <1>45, <2>3 DEF Remainder
    <3>2. IsJob(job[r])  BY DEF Placed
    <3>3. IsJob(j) /\ j.todo = job[r].todo /\ j.kind = job[r].kind /\ j.row = job[r].row
      BY <3>1, <3>2 DEF IsJob
    <3> QED BY <2>1, <3>1, <3>3, NotesAndFollows
  <2> QED BY <2>2, <2>3
<1>46. CASE Crash(r)
  <2>1. job[r] # Idle /\ Finish(r)  BY <1>46 DEF Crash
  <2>2. PICK s, rest : First(job[r].todo, s, rest)  BY <2>1 DEF Placed, UnderWay, Planned
  <2>3. At(r, s)  BY <2>2 DEF First, At
  <2> QED BY <2>1, <2>3, WritesAndFollows
<1>47. CASE RewriteExpense(r)
  <2>1. At(r, "page") /\ job'[r] = Rest(job[r]) /\ OthersStay(r) /\ scenario' = scenario
    BY <1>47, RewriteIs
  <2>2. IsJob(job[r])  BY DEF Placed
  <2> QED BY <2>1, <2>2, TakenOn
<1> QED BY <1>1, <1>2, <1>3, <1>4, <1>5, <1>6, <1>7, <1>8, <1>9, <1>10, <1>11, <1>12, <1>13,
      <1>14, <1>15, <1>16, <1>17, <1>18, <1>19, <1>20, <1>21, <1>22, <1>23, <1>24, <1>25,
        <1>26, <1>27, <1>28, <1>29, <1>30, <1>31, <1>32, <1>33, <1>34, <1>35, <1>36, <1>37,
          <1>38, <1>39, <1>40, <1>41, <1>42, <1>43, <1>44, <1>45, <1>46, <1>47 DEF Statement

\* Where a handler is after a step.
LEMMA NextStep ==
  ASSUME Placed, NEW r \in Req, NEW s, Follows(r, s), NEW t, At(r, t)'
  PROVE  /\ Comes(s, t) /\ IsJob(job'[r])
         /\ job'[r].kind = job[r].kind /\ job'[r].row = job[r].row
         /\ s # "remainder" => job'[r].to = job[r].to /\ job'[r].amount = job[r].amount
         /\ s \notin Noting => job'[r].net = job[r].net /\ job'[r].paid = job[r].paid
                               /\ job'[r].found = job[r].found
                               /\ job'[r].overrides = job[r].overrides
<1>1. job'[r] # Idle  BY DEF At, Idle
<1>2. PICK rest : /\ Course(job[r].kind, s, rest) /\ rest # <<>> /\ job'[r].todo = rest
  BY <1>1 DEF Follows
<1>3. Head(rest) = t  BY <1>2 DEF At
<1>4. Comes(s, t)  BY <1>2, <1>3, ComesNext
<1> QED BY <1>1, <1>4 DEF Follows

\* Which statement is done at which step.
Does(r, s) ==
  \/ s = "create" /\ Create(r)
  \/ s = "seed" /\ Seed(r)
  \/ s = "inputs" /\ Inputs(r)
  \/ s = "move" /\ MovePeriod(r)
  \/ s = "lock" /\ Lock(r)
  \/ s = "bill" /\ Bill(r)
  \/ s = "owe" /\ Owe(r)
  \/ s = "remainder" /\ Remainder(r)
  \/ s = "debt" /\ OpenDebt(r)
  \/ s = "shut" /\ Shut(r)
  \/ s = "adjust" /\ Adjust(r)
  \/ s = "unadjust" /\ CancelAdjustment(r)
  \/ s = "start" /\ (StartPayment(r) \/ StartReversal(r))
  \/ s = "commit" /\ (CommitPayment(r) \/ CommitReversal(r) \/ Retry(r))
  \/ s = "repay" /\ Repay(r)
  \/ s = "settle" /\ Settle(r)
  \/ s = "writeoff" /\ WriteOff(r)
  \/ s = "fold" /\ Fold(r)
  \/ s = "issue" /\ Issue(r)
  \/ s = "request" /\ RequestAdvance(r)
  \/ s = "record" /\ RecordAdvance(r)
  \/ s = "payout" /\ PayAdvance(r)
  \/ s = "cancel" /\ CancelAdvance(r)
  \/ s = "approved" /\ ApproveAmount(r)
  \/ s = "raise" /\ Raise(r)
  \/ s = "ceiling" /\ Ceiling(r)
  \/ s = "tranche" /\ PayTranche(r)
  \/ s = "reverse" /\ ReverseTranche(r)
  \/ s = "propose" /\ Propose(r)
  \/ s = "decide" /\ Decide(r)
  \/ s = "claim" /\ Claim(r)
  \/ s = "bonus" /\ Bonus(r)
  \/ s = "overrides" /\ ReadOverrides(r)
  \/ s = "override" /\ WriteOverrides(r)
  \/ s = "effective" /\ ReadEffective(r)
  \/ s = "auto" /\ WriteAuto(r)
  \/ s = "applied" /\ MarkApplied(r)
  \/ s = "pending" /\ MarkPending(r)
  \/ s = "version" /\ Materialize(r)
  \/ s = "release" /\ Release(r)
  \/ s = "sum" /\ Sum(r)
  \/ s = "total" /\ Total(r)
  \/ s = "refund" /\ Refund(r)
  \/ s = "page" /\ RewriteExpense(r)

\* At a step, its statement is done, unless the handler fails there.
LEMMA DoneAt ==
  ASSUME Placed, NEW r \in Req, Statement(r), NEW s, At(r, s)
  PROVE  Does(r, s) \/ Crash(r) \/ FailApproval(r)
<1>1. CASE Create(r)
  <2>1. At(r, "create")  BY <1>1 DEF Create
  <2>2. s = "create"  BY <2>1 DEF At
  <2> QED BY <1>1, <2>2 DEF Does
<1>2. CASE Seed(r)
  <2>1. At(r, "seed")  BY <1>2 DEF Seed
  <2>2. s = "seed"  BY <2>1 DEF At
  <2> QED BY <1>2, <2>2 DEF Does
<1>3. CASE Inputs(r)
  <2>1. At(r, "inputs")  BY <1>3 DEF Inputs
  <2>2. s = "inputs"  BY <2>1 DEF At
  <2> QED BY <1>3, <2>2 DEF Does
<1>4. CASE MovePeriod(r)
  <2>1. At(r, "move")  BY <1>4 DEF MovePeriod
  <2>2. s = "move"  BY <2>1 DEF At
  <2> QED BY <1>4, <2>2 DEF Does
<1>5. CASE Lock(r)
  <2>1. At(r, "lock")  BY <1>5 DEF Lock
  <2>2. s = "lock"  BY <2>1 DEF At
  <2> QED BY <1>5, <2>2 DEF Does
<1>6. CASE Bill(r)
  <2>1. At(r, "bill")  BY <1>6 DEF Bill
  <2>2. s = "bill"  BY <2>1 DEF At
  <2> QED BY <1>6, <2>2 DEF Does
<1>7. CASE Owe(r)
  <2>1. At(r, "owe")  BY <1>7 DEF Owe
  <2>2. s = "owe"  BY <2>1 DEF At
  <2> QED BY <1>7, <2>2 DEF Does
<1>8. CASE Remainder(r)
  <2>1. At(r, "remainder")  BY <1>8 DEF Remainder
  <2>2. s = "remainder"  BY <2>1 DEF At
  <2> QED BY <1>8, <2>2 DEF Does
<1>9. CASE OpenDebt(r)
  <2>1. At(r, "debt")  BY <1>9 DEF OpenDebt
  <2>2. s = "debt"  BY <2>1 DEF At
  <2> QED BY <1>9, <2>2 DEF Does
<1>10. CASE Shut(r)
  <2>1. At(r, "shut")  BY <1>10 DEF Shut
  <2>2. s = "shut"  BY <2>1 DEF At
  <2> QED BY <1>10, <2>2 DEF Does
<1>11. CASE Adjust(r)
  <2>1. At(r, "adjust")  BY <1>11 DEF Adjust
  <2>2. s = "adjust"  BY <2>1 DEF At
  <2> QED BY <1>11, <2>2 DEF Does
<1>12. CASE CancelAdjustment(r)
  <2>1. At(r, "unadjust")  BY <1>12 DEF CancelAdjustment
  <2>2. s = "unadjust"  BY <2>1 DEF At
  <2> QED BY <1>12, <2>2 DEF Does
<1>13. CASE StartPayment(r)
  <2>1. At(r, "start")  BY <1>13 DEF StartPayment
  <2>2. s = "start"  BY <2>1 DEF At
  <2> QED BY <1>13, <2>2 DEF Does
<1>14. CASE CommitPayment(r)
  <2>1. At(r, "commit")  BY <1>14 DEF CommitPayment
  <2>2. s = "commit"  BY <2>1 DEF At
  <2> QED BY <1>14, <2>2 DEF Does
<1>15. CASE StartReversal(r)
  <2>1. At(r, "start")  BY <1>15 DEF StartReversal
  <2>2. s = "start"  BY <2>1 DEF At
  <2> QED BY <1>15, <2>2 DEF Does
<1>16. CASE CommitReversal(r)
  <2>1. At(r, "commit")  BY <1>16 DEF CommitReversal
  <2>2. s = "commit"  BY <2>1 DEF At
  <2> QED BY <1>16, <2>2 DEF Does
<1>17. CASE Retry(r)
  <2>1. At(r, "commit")  BY <1>17 DEF Retry
  <2>2. s = "commit"  BY <2>1 DEF At
  <2> QED BY <1>17, <2>2 DEF Does
<1>18. CASE Repay(r)
  <2>1. At(r, "repay")  BY <1>18 DEF Repay
  <2>2. s = "repay"  BY <2>1 DEF At
  <2> QED BY <1>18, <2>2 DEF Does
<1>19. CASE Settle(r)
  <2>1. At(r, "settle")  BY <1>19 DEF Settle
  <2>2. s = "settle"  BY <2>1 DEF At
  <2> QED BY <1>19, <2>2 DEF Does
<1>20. CASE WriteOff(r)
  <2>1. At(r, "writeoff")  BY <1>20 DEF WriteOff
  <2>2. s = "writeoff"  BY <2>1 DEF At
  <2> QED BY <1>20, <2>2 DEF Does
<1>21. CASE Fold(r)
  <2>1. At(r, "fold")  BY <1>21 DEF Fold
  <2>2. s = "fold"  BY <2>1 DEF At
  <2> QED BY <1>21, <2>2 DEF Does
<1>22. CASE Issue(r)
  <2>1. At(r, "issue")  BY <1>22 DEF Issue
  <2>2. s = "issue"  BY <2>1 DEF At
  <2> QED BY <1>22, <2>2 DEF Does
<1>23. CASE RequestAdvance(r)
  <2>1. At(r, "request")  BY <1>23 DEF RequestAdvance, Insert
  <2>2. s = "request"  BY <2>1 DEF At
  <2> QED BY <1>23, <2>2 DEF Does
<1>24. CASE RecordAdvance(r)
  <2>1. At(r, "record")  BY <1>24 DEF RecordAdvance, Insert
  <2>2. s = "record"  BY <2>1 DEF At
  <2> QED BY <1>24, <2>2 DEF Does
<1>25. CASE PayAdvance(r)
  <2>1. At(r, "payout")  BY <1>25 DEF PayAdvance
  <2>2. s = "payout"  BY <2>1 DEF At
  <2> QED BY <1>25, <2>2 DEF Does
<1>26. CASE CancelAdvance(r)
  <2>1. At(r, "cancel")  BY <1>26 DEF CancelAdvance
  <2>2. s = "cancel"  BY <2>1 DEF At
  <2> QED BY <1>26, <2>2 DEF Does
<1>27. CASE ApproveAmount(r)
  <2>1. At(r, "approved")  BY <1>27 DEF ApproveAmount, Insert
  <2>2. s = "approved"  BY <2>1 DEF At
  <2> QED BY <1>27, <2>2 DEF Does
<1>28. CASE Raise(r)
  <2>1. At(r, "raise")  BY <1>28 DEF Raise
  <2>2. s = "raise"  BY <2>1 DEF At
  <2> QED BY <1>28, <2>2 DEF Does
<1>29. CASE Ceiling(r)
  <2>1. At(r, "ceiling")  BY <1>29 DEF Ceiling
  <2>2. s = "ceiling"  BY <2>1 DEF At
  <2> QED BY <1>29, <2>2 DEF Does
<1>30. CASE PayTranche(r)
  <2>1. At(r, "tranche")  BY <1>30 DEF PayTranche
  <2>2. s = "tranche"  BY <2>1 DEF At
  <2> QED BY <1>30, <2>2 DEF Does
<1>31. CASE ReverseTranche(r)
  <2>1. At(r, "reverse")  BY <1>31 DEF ReverseTranche
  <2>2. s = "reverse"  BY <2>1 DEF At
  <2> QED BY <1>31, <2>2 DEF Does
<1>32. CASE Propose(r)
  <2>1. At(r, "propose")  BY <1>32 DEF Propose
  <2>2. s = "propose"  BY <2>1 DEF At
  <2> QED BY <1>32, <2>2 DEF Does
<1>33. CASE Decide(r)
  <2>1. At(r, "decide")  BY <1>33 DEF Decide
  <2>2. s = "decide"  BY <2>1 DEF At
  <2> QED BY <1>33, <2>2 DEF Does
<1>34. CASE Claim(r)
  <2>1. At(r, "claim")  BY <1>34 DEF Claim
  <2>2. s = "claim"  BY <2>1 DEF At
  <2> QED BY <1>34, <2>2 DEF Does
<1>35. CASE Bonus(r)
  <2>1. At(r, "bonus")  BY <1>35 DEF Bonus
  <2>2. s = "bonus"  BY <2>1 DEF At
  <2> QED BY <1>35, <2>2 DEF Does
<1>36. CASE ReadOverrides(r)
  <2>1. At(r, "overrides")  BY <1>36 DEF ReadOverrides
  <2>2. s = "overrides"  BY <2>1 DEF At
  <2> QED BY <1>36, <2>2 DEF Does
<1>37. CASE WriteOverrides(r)
  <2>1. At(r, "override")  BY <1>37 DEF WriteOverrides
  <2>2. s = "override"  BY <2>1 DEF At
  <2> QED BY <1>37, <2>2 DEF Does
<1>38. CASE ReadEffective(r)
  <2>1. At(r, "effective")  BY <1>38 DEF ReadEffective
  <2>2. s = "effective"  BY <2>1 DEF At
  <2> QED BY <1>38, <2>2 DEF Does
<1>39. CASE WriteAuto(r)
  <2>1. At(r, "auto")  BY <1>39 DEF WriteAuto
  <2>2. s = "auto"  BY <2>1 DEF At
  <2> QED BY <1>39, <2>2 DEF Does
<1>40. CASE MarkApplied(r)
  <2>1. At(r, "applied")  BY <1>40 DEF MarkApplied, MarkRequest
  <2>2. s = "applied"  BY <2>1 DEF At
  <2> QED BY <1>40, <2>2 DEF Does
<1>41. CASE MarkPending(r)
  <2>1. At(r, "pending")  BY <1>41 DEF MarkPending, MarkRequest
  <2>2. s = "pending"  BY <2>1 DEF At
  <2> QED BY <1>41, <2>2 DEF Does
<1>42. CASE Materialize(r)
  <2>1. At(r, "version")  BY <1>42 DEF Materialize
  <2>2. s = "version"  BY <2>1 DEF At
  <2> QED BY <1>42, <2>2 DEF Does
<1>43. CASE Release(r)
  <2>1. At(r, "release")  BY <1>43 DEF Release
  <2>2. s = "release"  BY <2>1 DEF At
  <2> QED BY <1>43, <2>2 DEF Does
<1>44. CASE Sum(r)
  <2>1. At(r, "sum")  BY <1>44 DEF Sum
  <2>2. s = "sum"  BY <2>1 DEF At
  <2> QED BY <1>44, <2>2 DEF Does
<1>45. CASE Total(r)
  <2>1. At(r, "total")  BY <1>45 DEF Total
  <2>2. s = "total"  BY <2>1 DEF At
  <2> QED BY <1>45, <2>2 DEF Does
<1>46. CASE Refund(r)
  <2>1. At(r, "refund")  BY <1>46 DEF Refund
  <2>2. s = "refund"  BY <2>1 DEF At
  <2> QED BY <1>46, <2>2 DEF Does
<1>47. CASE RewriteExpense(r)
  <2>1. At(r, "page")  BY <1>47, RewriteIs
  <2>2. s = "page"  BY <2>1 DEF At
  <2> QED BY <1>47, <2>2 DEF Does
<1> QED BY <1>1, <1>2, <1>3, <1>4, <1>5, <1>6, <1>7, <1>8, <1>9, <1>10, <1>11, <1>12, <1>13,
      <1>14, <1>15, <1>16, <1>17, <1>18, <1>19, <1>20, <1>21, <1>22, <1>23, <1>24, <1>25,
        <1>26, <1>27, <1>28, <1>29, <1>30, <1>31, <1>32, <1>33, <1>34, <1>35, <1>36, <1>37,
          <1>38, <1>39, <1>40, <1>41, <1>42, <1>43, <1>44, <1>45, <1>46, <1>47 DEF Statement

\* A handler keeps its kind and its row, and a handler of no transition its amount.
LEMMA JobStays ==
  ASSUME Placed, NEW r \in Req, Statement(r)
  PROVE  \/ job'[r] = Idle
         \/ /\ IsJob(job'[r]) /\ job'[r].kind = job[r].kind /\ job'[r].row = job[r].row
            /\ job[r].kind # "transition" => job'[r].amount = job[r].amount
               /\ job'[r].to = job[r].to
<1>1. CASE Retry(r)
  <2>1. CASE Finish(r)
    <3>1. job'[r] = Idle  BY <2>1, SetIs DEF Finish
    <3> QED BY <3>1
  <2>2. CASE ~Finish(r)
    <3>1. PICK j : /\ j = [job[r]
                        EXCEPT !.todo = <<"start", "commit">>, !.tries = @ + 1, !.stale = FALSE]
                   /\ Set(r, j)
      BY <1>1, <2>2 DEF Retry
    <3>2. job'[r] = j /\ IsJob(job[r])  BY <3>1, SetIs DEF Placed
    <3>3. /\ IsJob(j) /\ j.kind = job[r].kind /\ j.row = job[r].row /\ j.amount = job[r].amount
          /\ j.to = job[r].to
      BY <3>1, <3>2 DEF IsJob
    <3> QED BY <3>2, <3>3
  <2> QED BY <2>1, <2>2
<1>2. CASE FailApproval(r)
  <2>1. PICK j : j = [job[r] EXCEPT !.todo = <<"release">>] /\ Set(r, j)
    BY <1>2 DEF FailApproval
  <2>2. job'[r] = j /\ IsJob(job[r])  BY <2>1, SetIs DEF Placed
  <2>3. /\ IsJob(j) /\ j.kind = job[r].kind /\ j.row = job[r].row /\ j.amount = job[r].amount
        /\ j.to = job[r].to
    BY <2>1, <2>2 DEF IsJob
  <2> QED BY <2>2, <2>3
<1>3. ASSUME NEW s, Follows(r, s), s # "remainder" 
      PROVE  \/ job'[r] = Idle
             \/ /\ IsJob(job'[r]) /\ job'[r].kind = job[r].kind /\ job'[r].row = job[r].row
                /\ job'[r].amount = job[r].amount /\ job'[r].to = job[r].to
  BY <1>3 DEF Follows
<1>4. ASSUME Follows(r, "remainder")
      PROVE  \/ job'[r] = Idle
             \/ /\ IsJob(job'[r]) /\ job'[r].kind = job[r].kind /\ job'[r].row = job[r].row
                /\ job[r].kind = "transition"
  <2>1. job'[r] = Idle \/ \E rest : /\ Course(job[r].kind, "remainder", rest)
                                    /\ IsJob(job'[r]) /\ job'[r].kind = job[r].kind
                                    /\ job'[r].row = job[r].row
    BY <1>4 DEF Follows
  <2> QED BY <2>1 DEF Course
<1> QED BY <1>1, <1>2, <1>3, <1>4, StatementFollows

\* How a handler came to the step it is at after a statement.
LEMMA CameTo ==
  ASSUME Placed, NEW r \in Req, Statement(r), NEW t, At(r, t)'
  PROVE  \/ \E s : Follows(r, s) /\ Comes(s, t) /\ Does(r, s)
         \/ t = "start" /\ Retry(r)
         \/ t = "release" /\ FailApproval(r)
<1>1. CASE Retry(r)
  <2>1. CASE Finish(r)
    <3>1. job'[r] = Idle  BY <2>1, SetIs DEF Finish
    <3> QED BY <3>1 DEF At, Idle
  <2>2. CASE ~Finish(r)
    <3>1. PICK j : /\ j = [job[r]
                        EXCEPT !.todo = <<"start", "commit">>, !.tries = @ + 1, !.stale = FALSE]
                   /\ Set(r, j)
      BY <1>1, <2>2 DEF Retry
    <3>2. job'[r] = j /\ IsJob(job[r])  BY <3>1, SetIs DEF Placed
    <3>3. job'[r].todo = <<"start", "commit">>  BY <3>1, <3>2 DEF IsJob
    <3> QED BY <1>1, <3>3 DEF At
  <2> QED BY <2>1, <2>2
<1>2. CASE FailApproval(r)
  <2>1. PICK j : j = [job[r] EXCEPT !.todo = <<"release">>] /\ Set(r, j)
    BY <1>2 DEF FailApproval
  <2>2. job'[r] = j /\ IsJob(job[r])  BY <2>1, SetIs DEF Placed
  <2>3. job'[r].todo = <<"release">>  BY <2>1, <2>2 DEF IsJob
  <2> QED BY <1>2, <2>3 DEF At
<1>3. ASSUME NEW s, Follows(r, s), ~FailApproval(r)
      PROVE  Comes(s, t) /\ Does(r, s)
  <2>1. Comes(s, t)  BY <1>3, NextStep
  <2>2. ~Crash(r)
    <3>1. Crash(r) => job'[r] = Idle  BY SetIs DEF Crash, Finish
    <3> QED BY <3>1 DEF At, Idle
  <2>3. At(r, s)  BY <1>3 DEF Follows
  <2>4. Does(r, s)  BY <1>3, <2>2, <2>3, DoneAt
  <2> QED BY <2>1, <2>4
<1> QED BY <1>1, <1>2, <1>3, StatementFollows

\* The step at which a handler begins.
Enters(kind, t) ==
  \/ kind = "create" /\ t = "create"
  \/ kind = "generate" /\ t = "seed"
  \/ kind = "inputs" /\ t = "inputs"
  \/ kind = "transition" /\ t = "move"
  \/ kind = "adjust" /\ t = "adjust"
  \/ kind = "cancel_adjustment" /\ t = "unadjust"
  \/ kind = "payment" /\ t = "start"
  \/ kind = "reversal" /\ t = "start"
  \/ kind = "settle" /\ t = "repay"
  \/ kind = "writeoff" /\ t = "writeoff"
  \/ kind = "advance" /\ t = "fold"
  \/ kind = "employee_advance" /\ t \in {"record", "request"}
  \/ kind = "approve_advance" /\ t = "fold"
  \/ kind = "cancel_advance" /\ t = "refund"
  \/ kind = "cancel_employee_advance" /\ t \in {"refund", "cancel"}
  \/ kind = "approved_advance" /\ t = "approved"
  \/ kind = "raise" /\ t = "raise"
  \/ kind = "tranche" /\ t = "ceiling"
  \/ kind = "reverse_tranche" /\ t = "refund"
  \/ kind = "propose" /\ t = "propose"
  \/ kind = "decide" /\ t = "decide"
  \/ kind = "approve_change" /\ t = "claim"
  \/ kind = "materialize" /\ t = "version"
  \/ kind \in {"cancel_expense", "edit_expense"} /\ t = "page"

\* A job begins at its first step.
LEMMA EntersAt ==
  ASSUME Placed, NEW j, BegunOnPeriod(j) \/ BegunOnAdvance(j) \/ BegunOnRequest(j) \/ BegunOnPage(j)
  PROVE  Enters(j.kind, Head(j.todo))
<1>1. CASE j.kind = "create"
  <2>1. j.todo = <<"create">>
    BY <1>1 DEF BegunOnPeriod, BegunOnAdvance, BegunOnRequest, BegunOnPage
  <2> QED BY <1>1, <2>1 DEF Enters
<1>2. CASE j.kind = "generate"
  <2>1. j.todo = <<"seed">> \/ j.todo = <<"seed", "sum", "total">>
    BY <1>2 DEF BegunOnPeriod, BegunOnAdvance, BegunOnRequest, BegunOnPage
  <2>2. CASE j.todo = <<"seed">>  BY <1>2, <2>2 DEF Enters
  <2>3. CASE j.todo = <<"seed", "sum", "total">>  BY <1>2, <2>3 DEF Enters
  <2> QED BY <2>1, <2>2, <2>3
<1>3. CASE j.kind = "inputs"
  <2>1. j.todo = <<"inputs", "sum", "total">>
    BY <1>3 DEF BegunOnPeriod, BegunOnAdvance, BegunOnRequest, BegunOnPage
  <2> QED BY <1>3, <2>1 DEF Enters
<1>4. CASE j.kind = "transition"
  <2>1. PICK action \in PayrollAction : j.todo = Consequences(action)
    BY <1>4 DEF BegunOnPeriod, BegunOnAdvance, BegunOnRequest, BegunOnPage
  <2>2. \/ j.todo = <<"move", "lock", "bill", "owe">> \/ j.todo = <<"move">>
        \/ j.todo = <<"move", "remainder", "debt", "shut">>
    BY <2>1 DEF Consequences
  <2>3. CASE j.todo = <<"move", "lock", "bill", "owe">>  BY <1>4, <2>3 DEF Enters
  <2>4. CASE j.todo = <<"move", "remainder", "debt", "shut">>  BY <1>4, <2>4 DEF Enters
  <2>5. CASE j.todo = <<"move">>  BY <1>4, <2>5 DEF Enters
  <2> QED BY <2>2, <2>3, <2>4, <2>5
<1>5. CASE j.kind = "adjust"
  <2>1. j.todo = <<"adjust", "sum", "total">>
    BY <1>5 DEF BegunOnPeriod, BegunOnAdvance, BegunOnRequest, BegunOnPage
  <2> QED BY <1>5, <2>1 DEF Enters
<1>6. CASE j.kind = "cancel_adjustment"
  <2>1. j.todo = <<"unadjust", "sum", "total">>
    BY <1>6 DEF BegunOnPeriod, BegunOnAdvance, BegunOnRequest, BegunOnPage
  <2> QED BY <1>6, <2>1 DEF Enters
<1>7. CASE j.kind = "payment"
  <2>1. j.todo = <<"start", "commit">>
    BY <1>7 DEF BegunOnPeriod, BegunOnAdvance, BegunOnRequest, BegunOnPage
  <2> QED BY <1>7, <2>1 DEF Enters
<1>8. CASE j.kind = "reversal"
  <2>1. j.todo = <<"start", "commit">>
    BY <1>8 DEF BegunOnPeriod, BegunOnAdvance, BegunOnRequest, BegunOnPage
  <2> QED BY <1>8, <2>1 DEF Enters
<1>9. CASE j.kind = "settle"
  <2>1. j.todo = <<"repay", "settle">>
    BY <1>9 DEF BegunOnPeriod, BegunOnAdvance, BegunOnRequest, BegunOnPage
  <2> QED BY <1>9, <2>1 DEF Enters
<1>10. CASE j.kind = "writeoff"
  <2>1. j.todo = <<"writeoff">>
    BY <1>10 DEF BegunOnPeriod, BegunOnAdvance, BegunOnRequest, BegunOnPage
  <2> QED BY <1>10, <2>1 DEF Enters
<1>11. CASE j.kind = "advance"
  <2>1. j.todo = <<"fold", "issue">>
    BY <1>11 DEF BegunOnPeriod, BegunOnAdvance, BegunOnRequest, BegunOnPage
  <2> QED BY <1>11, <2>1 DEF Enters
<1>12. CASE j.kind = "employee_advance"
  <2>1. j.todo = <<"record", "fold", "payout">> \/ j.todo = <<"request">>
    BY <1>12 DEF BegunOnPeriod, BegunOnAdvance, BegunOnRequest, BegunOnPage
  <2>2. CASE j.todo = <<"record", "fold", "payout">>  BY <1>12, <2>2 DEF Enters
  <2>3. CASE j.todo = <<"request">>  BY <1>12, <2>3 DEF Enters
  <2> QED BY <2>1, <2>2, <2>3
<1>13. CASE j.kind = "approve_advance"
  <2>1. j.todo = <<"fold", "payout">>
    BY <1>13 DEF BegunOnPeriod, BegunOnAdvance, BegunOnRequest, BegunOnPage
  <2> QED BY <1>13, <2>1 DEF Enters
<1>14. CASE j.kind = "cancel_advance"
  <2>1. j.todo = <<"refund", "cancel", "sum", "total">>
    BY <1>14 DEF BegunOnPeriod, BegunOnAdvance, BegunOnRequest, BegunOnPage
  <2> QED BY <1>14, <2>1 DEF Enters
<1>15. CASE j.kind = "cancel_employee_advance"
  <2>1. j.todo = <<"refund", "cancel", "sum", "total">> \/ j.todo = <<"cancel", "sum", "total">>
    BY <1>15 DEF BegunOnPeriod, BegunOnAdvance, BegunOnRequest, BegunOnPage
  <2>2. CASE j.todo = <<"refund", "cancel", "sum", "total">>  BY <1>15, <2>2 DEF Enters
  <2>3. CASE j.todo = <<"cancel", "sum", "total">>  BY <1>15, <2>3 DEF Enters
  <2> QED BY <2>1, <2>2, <2>3
<1>16. CASE j.kind = "approved_advance"
  <2>1. j.todo = <<"approved">>
    BY <1>16 DEF BegunOnPeriod, BegunOnAdvance, BegunOnRequest, BegunOnPage
  <2> QED BY <1>16, <2>1 DEF Enters
<1>17. CASE j.kind = "raise"
  <2>1. j.todo = <<"raise">>
    BY <1>17 DEF BegunOnPeriod, BegunOnAdvance, BegunOnRequest, BegunOnPage
  <2> QED BY <1>17, <2>1 DEF Enters
<1>18. CASE j.kind = "tranche"
  <2>1. j.todo = <<"ceiling", "tranche", "sum", "total">>
    BY <1>18 DEF BegunOnPeriod, BegunOnAdvance, BegunOnRequest, BegunOnPage
  <2> QED BY <1>18, <2>1 DEF Enters
<1>19. CASE j.kind = "reverse_tranche"
  <2>1. j.todo = <<"refund", "reverse", "sum", "total">> \/ j.todo = <<"refund", "reverse">>
    BY <1>19 DEF BegunOnPeriod, BegunOnAdvance, BegunOnRequest, BegunOnPage
  <2>2. CASE j.todo = <<"refund", "reverse", "sum", "total">>  BY <1>19, <2>2 DEF Enters
  <2>3. CASE j.todo = <<"refund", "reverse">>  BY <1>19, <2>3 DEF Enters
  <2> QED BY <2>1, <2>2, <2>3
<1>20. CASE j.kind = "propose"
  <2>1. j.todo = <<"propose">>
    BY <1>20 DEF BegunOnPeriod, BegunOnAdvance, BegunOnRequest, BegunOnPage
  <2> QED BY <1>20, <2>1 DEF Enters
<1>21. CASE j.kind = "decide"
  <2>1. j.todo = <<"decide">>
    BY <1>21 DEF BegunOnPeriod, BegunOnAdvance, BegunOnRequest, BegunOnPage
  <2> QED BY <1>21, <2>1 DEF Enters
<1>22. CASE j.kind = "approve_change"
  <2>1. /\ j.todo = Effect(request[j.row].kind) /\ j.row \in Request
        /\ request[j.row].status \in AllowedFrom["approve"]
    BY <1>22 DEF BegunOnPeriod, BegunOnAdvance, BegunOnRequest, BegunOnPage
  <2>2. request[j.row].kind \in ChangeKind
    <3>1. IsRequest(request[j.row])  BY <2>1 DEF Placed
    <3>2. request[j.row] # NoRequest  BY <2>1 DEF AllowedFrom, NoRequest
    <3> QED BY <3>1, <3>2 DEF IsRequest
  <2>3. \/ j.todo = <<"claim", "bonus", "sum", "total", "applied">>
        \/ j.todo = <<"claim", "overrides", "override", "effective", "auto", "sum", "total",
             "applied">>
        \/ j.todo = <<"claim", "pending", "version">>
    BY <2>1, <2>2 DEF Effect, ChangeKind
  <2>4. CASE j.todo = <<"claim", "bonus", "sum", "total", "applied">>  BY <1>22, <2>4 DEF Enters
  <2>5. CASE j.todo = <<"claim", "overrides", "override", "effective", "auto", "sum", "total",
                        "applied">>
    BY <1>22, <2>5 DEF Enters
  <2>6. CASE j.todo = <<"claim", "pending", "version">>  BY <1>22, <2>6 DEF Enters
  <2> QED BY <2>3, <2>4, <2>5, <2>6
<1>23. CASE j.kind = "materialize"
  <2>1. j.todo = <<"version">>
    BY <1>23 DEF BegunOnPeriod, BegunOnAdvance, BegunOnRequest, BegunOnPage
  <2> QED BY <1>23, <2>1 DEF Enters
<1>24. CASE BegunOnPage(j)  BY <1>24 DEF BegunOnPage, Enters
<1> QED BY <1>1, <1>2, <1>3, <1>4, <1>5, <1>6, <1>7, <1>8, <1>9, <1>10, <1>11, <1>12, <1>13,
      <1>14, <1>15, <1>16, <1>17, <1>18, <1>19, <1>20, <1>21, <1>22, <1>23,
        <1>24 DEF BegunOnPeriod, BegunOnAdvance, BegunOnRequest

-----------------------------------------------------------------------------
(* The tranches of an advance.  Where tranches are paid, one request is    *)
(* handled at a time.                                                      *)

IsAdvance(a) ==
  /\ a = [status |-> a.status, amount |-> a.amount, approved |-> a.approved,
          earned |-> a.earned, expense |-> a.expense]
  /\ a.amount \in Nat /\ a.approved \in Nat

TrancheRow(x) ==
  \/ x = NoRow
  \/ /\ x = [status |-> x.status, amount |-> x.amount]
     /\ x.status \in {"paid", "reversed"} /\ x.amount \in Amount

AdvanceRows ==
  /\ IsAdvance(advance)
  /\ tranche = [k \in Tranche |-> tranche[k]] /\ \A k \in Tranche : TrancheRow(tranche[k])
  /\ Summable(tranche, "paid")

InsertKind == {"advance", "employee_advance", "approved_advance"}

\* What a handler of the advance works with.
OnAdvance(r) ==
  /\ job[r].kind \in InsertKind \cup {"raise", "tranche"} => job[r].amount \in Amount
  /\ job[r].kind \in {"tranche", "reverse_tranche"} => job[r].row \in Tranche
  /\ job[r].kind = "reverse_tranche" => tranche[job[r].row] # NoRow

OneSlot == \A q, r \in scenario.slots : q = r

\* A tranche that is to be paid is within what was approved, and what is to
\* be approved is more than what was.
InBounds(r) ==
  /\ At(r, "raise") => advance.approved < job[r].amount
  /\ At(r, "ceiling") => job[r].net = advance.approved
  /\ At(r, "tranche") => StatusTotal(tranche, "paid") + job[r].amount <= advance.approved

Covered ==
  /\ StatusTotal(tranche, "paid") <= advance.approved
  /\ \A r \in Req : InBounds(r)

TrancheInv ==
  /\ Placed /\ AdvanceRows /\ \A r \in Req : OnAdvance(r)
  /\ "tranche" \notin scenario.calls => tranche = [k \in Tranche |-> NoRow]
  /\ OneSlot => Covered

\* The others do nothing, where one request is handled at a time.
LEMMA OthersIdle ==
  ASSUME Placed, OneSlot, NEW r \in Req, r \in scenario.slots, NEW q \in Req, q # r
  PROVE  job[q] = Idle
BY DEF Placed, OneSlot, UnderWay

\* An idle slot is within bounds, and concerns no advance.
LEMMA IdleInBounds ==
  ASSUME NEW r, job[r] = Idle
  PROVE  InBounds(r) /\ OnAdvance(r)
<1>1. \A t : ~At(r, t)  BY DEF At, Idle
<1>2. job[r].kind = "none"  BY DEF Idle
<1> QED BY <1>1, <1>2 DEF InBounds, OnAdvance, InsertKind

\* At the start there is no advance, and no tranche.
LEMMA InitTranches == Init => TrancheInv
<1> SUFFICES ASSUME Init PROVE TrancheInv  OBVIOUS
<1>1. Placed  BY InitPlaced
<1>2. advance = NoAdvance /\ tranche = [k \in Tranche |-> NoRow] /\ job = [r \in Req |-> Idle]
  BY DEF Init
<1>3. StatusTotal(tranche, "paid") = 0 /\ Summable(tranche, "paid")
  BY <1>2, NoneHasStatus DEF NoRow
<1>4. AdvanceRows  BY <1>2, <1>3 DEF AdvanceRows, IsAdvance, NoAdvance, TrancheRow
<1>5. \A r \in Req : InBounds(r) /\ OnAdvance(r)  BY <1>2, IdleInBounds
<1>7. StatusTotal(tranche, "paid") <= advance.approved  BY <1>2, <1>3 DEF NoAdvance
<1> QED BY <1>1, <1>2, <1>4, <1>5, <1>7 DEF TrancheInv, Covered

\* A handler begins with what the rows allow.
LEMMA BegunKeepsTranches ==
  ASSUME TrancheInv, NEW r \in Req, HasBegun(r)
  PROVE  TrancheInv'
<1>1. PICK j : /\ Begin(r, j) /\ IsJob(j)
               /\ \/ BegunOnPeriod(j)
                  \/ BegunOnAdvance(j)
                  \/ BegunOnRequest(j)
                  \/ BegunOnPage(j)
  BY DEF HasBegun
<1>2. Placed' /\ Placed  BY BegunKeepsPlaced DEF TrancheInv
<1>3. /\ job'[r] = j /\ \A q \in Req : q # r => job'[q] = job[q]
      /\ UNCHANGED <<advance, tranche, scenario>>
  BY <1>1, <1>2 DEF Begin, Placed, rows
<1>4. OnAdvance(r)'
  <2>1. /\ j.kind \in InsertKind \cup {"raise", "tranche"} => j.amount \in Amount
        /\ j.kind \in {"tranche", "reverse_tranche"} => j.row \in Tranche
        /\ j.kind = "reverse_tranche" => tranche[j.row] # NoRow
    <3>1. CASE BegunOnPeriod(j)  BY <3>1 DEF BegunOnPeriod, InsertKind
    <3>2. CASE BegunOnRequest(j)  BY <3>2 DEF BegunOnRequest, InsertKind
    <3>3. CASE BegunOnAdvance(j)  BY <3>3 DEF BegunOnAdvance, InsertKind, NoRow
    <3>4. CASE BegunOnPage(j)  BY <3>4 DEF BegunOnPage, InsertKind
    <3> QED BY <1>1, <3>1, <3>2, <3>3, <3>4
  <2> QED BY <1>3, <2>1 DEF OnAdvance
<1>5. ASSUME NEW t, At(r, t)' PROVE Enters(j.kind, t)
  <2>1. Enters(j.kind, Head(j.todo))  BY <1>1, <1>2, EntersAt
  <2>2. t = Head(j.todo)  BY <1>3, <1>5 DEF At
  <2> QED BY <2>1, <2>2
<1>6. InBounds(r)'
  <2>1. ASSUME At(r, "raise")' PROVE advance.approved < j.amount
    <3>1. j.kind = "raise"  BY <1>5, <2>1 DEF Enters
    <3>2. BegunOnAdvance(j)  BY <1>1, <3>1 DEF BegunOnPeriod, BegunOnRequest, BegunOnPage
    <3>3. j.amount > advance.approved /\ j.amount \in Amount
      BY <3>1, <3>2 DEF BegunOnAdvance
    <3> QED BY <3>3, AmountAssumption DEF TrancheInv, AdvanceRows, IsAdvance
  <2>2. ASSUME At(r, "ceiling")' PROVE j.net = advance.approved
    <3>1. j.kind = "tranche"  BY <1>5, <2>2 DEF Enters
    <3>2. BegunOnAdvance(j)  BY <1>1, <3>1 DEF BegunOnPeriod, BegunOnRequest, BegunOnPage
    <3> QED BY <3>1, <3>2 DEF BegunOnAdvance
  <2>3. ~At(r, "tranche")'  BY <1>5 DEF Enters
  <2> QED BY <1>3, <2>1, <2>2, <2>3 DEF InBounds
<1>7. ASSUME NEW q \in Req, q # r PROVE OnAdvance(q)' /\ (InBounds(q) => InBounds(q)')
  <2>1. job'[q] = job[q]  BY <1>3, <1>7
  <2> QED BY <1>3, <2>1 DEF TrancheInv, OnAdvance, InBounds, At
<1> QED BY <1>2, <1>3, <1>4, <1>6, <1>7 DEF TrancheInv, AdvanceRows, Covered, OneSlot

\* The statements that write an advance or its tranches.
WritesAdvance(r) ==
  \/ Issue(r) \/ RequestAdvance(r) \/ RecordAdvance(r) \/ PayAdvance(r) \/ CancelAdvance(r)
  \/ ApproveAmount(r) \/ Raise(r) \/ PayTranche(r) \/ ReverseTranche(r)

\* The other statements leave them as they are.
LEMMA AdvanceStays ==
  ASSUME NEW r \in Req, Statement(r), ~WritesAdvance(r)
  PROVE  UNCHANGED <<advance, tranche>>
<1>1. ASSUME
      \/ Create(r) \/ Seed(r) \/ Inputs(r) \/ MovePeriod(r) \/ Lock(r) \/ Bill(r) \/ Owe(r)
      \/ Remainder(r) \/ OpenDebt(r) \/ Shut(r) \/ Adjust(r) \/ CancelAdjustment(r)
      \/ StartPayment(r) \/ CommitPayment(r) \/ StartReversal(r) \/ CommitReversal(r) \/ Retry(r)
      PROVE UNCHANGED <<advance, tranche>>
  BY <1>1 DEF Create, Seed, Inputs, MovePeriod, Lock, Bill, Owe, Remainder, OpenDebt, Shut,
     Adjust,
         CancelAdjustment, StartPayment, CommitPayment, StartReversal, CommitReversal, Retry,
              rows
<1>2. ASSUME
      \/ Repay(r) \/ Settle(r) \/ WriteOff(r) \/ Fold(r) \/ Ceiling(r) \/ Propose(r) \/ Decide(r)
      \/ Claim(r) \/ Bonus(r) \/ ReadOverrides(r) \/ WriteOverrides(r) \/ ReadEffective(r)
      \/ WriteAuto(r) \/ MarkApplied(r) \/ MarkPending(r) \/ Materialize(r) \/ FailApproval(r)
      \/ Release(r) \/ Sum(r) \/ Total(r) \/ Refund(r) \/ RewriteExpense(r) \/ Crash(r)
      PROVE UNCHANGED <<advance, tranche>>
  BY <1>2 DEF Repay, Settle, WriteOff, Fold, Ceiling, Propose, Decide, Claim, Bonus,
     ReadOverrides,
         WriteOverrides, ReadEffective, WriteAuto, MarkApplied, MarkPending, MarkRequest,
         Materialize, FailApproval, Release, Sum, Total, Refund, RewriteExpense, Crash, rows
<1> QED BY <1>1, <1>2 DEF Statement, WritesAdvance

\* The rows a statement leaves: still of their kinds, none of them gone, and
\* within what is approved if they were and the handler is within bounds.
RowsKept(r) ==
  /\ AdvanceRows'
  /\ \A k \in Tranche : tranche[k] # NoRow => tranche'[k] # NoRow
  /\ job[r].kind \notin {"tranche", "reverse_tranche"} => tranche' = tranche
  /\ StatusTotal(tranche, "paid") <= advance.approved /\ InBounds(r)
     => StatusTotal(tranche', "paid") <= advance'.approved

\* The total of the tranches is a number.
LEMMA TrancheNumbers ==
  ASSUME AdvanceRows
  PROVE  /\ Amount \subseteq Nat /\ advance.approved \in Nat /\ advance.amount \in Nat
         /\ StatusTotal(tranche, "paid") \in Nat
         /\ \A k \in Tranche : tranche[k].amount \in Nat
<1>1. Amount \subseteq Nat  BY AmountAssumption
<1>2. \A k \in Tranche : tranche[k].amount \in Nat  BY <1>1 DEF AdvanceRows, TrancheRow, NoRow
<1>3. WithStatus(tranche, "paid") \subseteq Tranche  BY DEF AdvanceRows, WithStatus
<1>4. \A k \in WithStatus(tranche, "paid") : tranche[k].amount \in Nat  BY <1>2, <1>3
<1>5. StatusTotal(tranche, "paid") \in Nat  BY <1>4, StatusTotalIsNat DEF AdvanceRows, Summable
<1> QED BY <1>1, <1>2, <1>5 DEF AdvanceRows, IsAdvance

\* The rows are kept where only the advance is written, with no less approved.
LEMMA ApprovedKept ==
  ASSUME AdvanceRows, NEW r, tranche' = tranche, IsAdvance(advance'),
         InBounds(r) => advance.approved <= advance'.approved
  PROVE  RowsKept(r)
<1>1. AdvanceRows'  BY DEF AdvanceRows
<1>2. advance'.approved \in Nat  BY DEF IsAdvance
<1> QED BY <1>1, <1>2, TrancheNumbers DEF RowsKept

\* Every statement keeps the rows.
LEMMA StatementKeepsRows ==
  ASSUME TrancheInv, NEW r \in Req, Statement(r)
  PROVE  RowsKept(r)
<1>1. Placed /\ AdvanceRows /\ OnAdvance(r)  BY DEF TrancheInv
<1>2. /\ Amount \subseteq Nat /\ advance.approved \in Nat
         /\ StatusTotal(tranche, "paid") \in Nat
      /\ \A k \in Tranche : tranche[k].amount \in Nat
  BY <1>1, TrancheNumbers
<1>3. CASE UNCHANGED <<advance, tranche>>
  BY <1>1, <1>2, <1>3, ApprovedKept DEF AdvanceRows
<1>4. ASSUME NEW status, NEW e, tranche' = tranche, advance = NoAdvance,
             advance' = Row(status, job[r], e), job[r].kind \in InsertKind
      PROVE  RowsKept(r)
  <2>1. job[r].amount \in Nat  BY <1>1, <1>2, <1>4 DEF OnAdvance
  <2>2. IsAdvance(advance') /\ advance'.approved = job[r].amount
    BY <1>4, <2>1 DEF Row, IsAdvance
  <2>3. advance.approved = 0  BY <1>4 DEF NoAdvance
  <2> QED BY <1>1, <1>4, <2>1, <2>2, <2>3, ApprovedKept
<1>5. ASSUME tranche' = tranche, NEW status, NEW e, IsAdvance(advance),
             advance' = [advance EXCEPT !.status = status, !.expense = e]
      PROVE  RowsKept(r)
  <2>1. IsAdvance(advance') /\ advance'.approved = advance.approved  BY <1>5 DEF IsAdvance
  <2> QED BY <1>1, <1>2, <1>5, <2>1, ApprovedKept
<1>6. CASE Issue(r) \/ RequestAdvance(r) \/ RecordAdvance(r) \/ ApproveAmount(r)
  <2>1. tranche' = tranche
    BY <1>6 DEF Issue, RequestAdvance, RecordAdvance, ApproveAmount, Insert
  <2>2. \/ UNCHANGED advance
        \/ advance = NoAdvance /\ \E status, e : advance' = Row(status, job[r], e)
    BY <1>6 DEF Issue, RequestAdvance, RecordAdvance, ApproveAmount, Insert
  <2>3. \E t \in {"issue", "request", "record", "approved"} : At(r, t)
    BY <1>6 DEF Issue, RequestAdvance, RecordAdvance, ApproveAmount, Insert
  <2>4. PICK t \in {"issue", "request", "record", "approved"} : \E rest : Course(job[r].kind,
          t, rest)
    BY <1>1, <2>3, AtStep
  <2>5. job[r].kind \in InsertKind  BY <2>4 DEF Course, InsertKind
  <2> QED BY <1>3, <1>4, <2>1, <2>2, <2>5
<1>7. CASE PayAdvance(r)
  <2>1. tranche' = tranche  BY <1>7 DEF PayAdvance
  <2>2. PICK v : advance' = [advance EXCEPT !.status = "paid", !.expense = v]
    BY <1>7 DEF PayAdvance
  <2> QED BY <1>1, <1>5, <2>1, <2>2 DEF AdvanceRows
<1>8. CASE CancelAdvance(r)
  <2>1. tranche' = tranche  BY <1>8 DEF CancelAdvance
  <2>2. advance' = [advance EXCEPT !.status = "canceled"]  BY <1>8 DEF CancelAdvance
  <2>3. IsAdvance(advance)  BY <1>1 DEF AdvanceRows
  <2>4. IsAdvance(advance') /\ advance'.approved = advance.approved  BY <2>2, <2>3 DEF IsAdvance
  <2> QED BY <1>1, <1>2, <2>1, <2>4, ApprovedKept
<1>9. CASE Raise(r)
  <2>1. At(r, "raise") /\ tranche' = tranche  BY <1>9 DEF Raise
  <2>2. PICK a, s : a = job[r].amount /\ s = job[r].to
                    /\ advance' = [advance EXCEPT !.approved = a, !.status = s]
    BY <1>9 DEF Raise
  <2>3. PICK rest : Course(job[r].kind, "raise", rest)  BY <1>1, <2>1, AtStep
  <2>4. job[r].kind = "raise"  BY <2>3 DEF Course
  <2>5. a \in Nat  BY <1>1, <1>2, <2>2, <2>4 DEF OnAdvance
  <2>6. IsAdvance(advance)  BY <1>1 DEF AdvanceRows
  <2>7. IsAdvance(advance') /\ advance'.approved = a  BY <2>2, <2>5, <2>6 DEF IsAdvance
  <2>8. InBounds(r) => advance.approved < a  BY <2>1, <2>2 DEF InBounds
  <2> QED BY <1>1, <1>2, <2>1, <2>5, <2>7, <2>8, ApprovedKept
<1>10. CASE PayTranche(r)
  <2>1. At(r, "tranche")  BY <1>10 DEF PayTranche
  <2>2. PICK rest : Course(job[r].kind, "tranche", rest)  BY <1>1, <2>1, AtStep
  <2>3. job[r].kind = "tranche"  BY <2>2 DEF Course
  <2>4. PICK k, a : k = job[r].row /\ a = job[r].amount  OBVIOUS
  <2>5. k \in Tranche /\ a \in Amount /\ a \in Nat  BY <1>1, <1>2, <2>3, <2>4 DEF OnAdvance
  <2>6. CASE tranche[k] # NoRow
    <3>1. UNCHANGED <<advance, tranche>>  BY <1>10, <2>4, <2>6 DEF PayTranche
    <3> QED BY <1>3, <3>1
  <2>7. CASE tranche[k] = NoRow
    <3>1. PICK x : x = [status |-> "paid", amount |-> a]  OBVIOUS
    <3>2. x.status = "paid" /\ x.amount = a /\ TrancheRow(x) /\ x # NoRow
      BY <2>5, <3>1 DEF TrancheRow, NoRow
    <3>3. tranche' = [tranche EXCEPT ![k] = x]  BY <1>10, <2>4, <2>7, <3>1 DEF PayTranche
    <3>4. advance' = [advance EXCEPT !.status = "paid"]  BY <1>10, <2>4, <2>7 DEF PayTranche
    <3>5. /\ tranche = [i \in Tranche |-> tranche[i]] /\ Summable(tranche, "paid")
          /\ \A i \in Tranche : TrancheRow(tranche[i])
      BY <1>1 DEF AdvanceRows
    <3>6. tranche[k].status # "paid"  BY <2>7 DEF NoRow
    <3>7. PICK g : g = [tranche EXCEPT ![k] = x]  OBVIOUS
    <3>8. Summable(g, "paid")
          /\ StatusTotal(g, "paid") = x.amount + StatusTotal(tranche, "paid")
      BY <2>5, <3>2, <3>5, <3>6, <3>7, WriteAdds
    <3>9. g = tranche' /\ g = [i \in Tranche |-> g[i]] /\ \A i \in Tranche : TrancheRow(g[i])
      BY <2>5, <3>2, <3>3, <3>5, <3>7
    <3>10. IsAdvance(advance)  BY <1>1 DEF AdvanceRows
    <3>11. IsAdvance(advance') /\ advance'.approved = advance.approved
      BY <3>4, <3>10 DEF IsAdvance
    <3>12. AdvanceRows'  BY <3>8, <3>9, <3>11 DEF AdvanceRows
    <3>13. \A i \in Tranche : tranche[i] # NoRow => g[i] # NoRow  BY <2>7, <3>7, <3>5
    <3>14. InBounds(r) => StatusTotal(tranche, "paid") + a <= advance.approved
      BY <2>1, <2>4 DEF InBounds
    <3>15. InBounds(r) => StatusTotal(g, "paid") <= advance'.approved
      BY <1>2, <2>5, <3>2, <3>8, <3>11, <3>14
    <3> QED BY <2>3, <3>9, <3>12, <3>13, <3>15 DEF RowsKept
  <2> QED BY <2>6, <2>7
<1>11. CASE ReverseTranche(r)
  <2>1. At(r, "reverse") /\ advance' = advance  BY <1>11 DEF ReverseTranche
  <2>2. PICK rest : Course(job[r].kind, "reverse", rest)  BY <1>1, <2>1, AtStep
  <2>3. job[r].kind = "reverse_tranche"  BY <2>2 DEF Course
  <2>4. PICK k : k = job[r].row  OBVIOUS
  <2>5. k \in Tranche /\ tranche[k] # NoRow  BY <1>1, <2>3, <2>4 DEF OnAdvance
  <2>6. /\ tranche = [i \in Tranche |-> tranche[i]] /\ Summable(tranche, "paid")
        /\ \A i \in Tranche : TrancheRow(tranche[i])
    BY <1>1 DEF AdvanceRows
  <2>7. PICK x : x = [tranche[k] EXCEPT !.status = "reversed"]  OBVIOUS
  <2>8. x.status # "paid" /\ TrancheRow(x) /\ x # NoRow
    BY <2>5, <2>6, <2>7 DEF TrancheRow, NoRow
  <2>9. PICK g : g = [tranche EXCEPT ![k] = x]  OBVIOUS
  <2>10. tranche' = g  BY <1>11, <2>4, <2>7, <2>9 DEF ReverseTranche
  <2>11. /\ g = [i \in Tranche |-> g[i]] /\ \A i \in Tranche : TrancheRow(g[i])
         /\ \A i \in Tranche : tranche[i] # NoRow => g[i] # NoRow
    BY <2>5, <2>6, <2>8, <2>9
  <2>12. Summable(g, "paid") /\ StatusTotal(g, "paid") <= StatusTotal(tranche, "paid")
    <3>1. CASE tranche[k].status = "paid"
      <4>1. /\ Summable(g, "paid")
            /\ StatusTotal(tranche, "paid") = tranche[k].amount + StatusTotal(g, "paid")
        BY <2>5, <2>6, <2>8, <2>9, <3>1, WriteTakes
      <4>2. StatusTotal(g, "paid") \in Int  BY <4>1, StatusTotalIsInt
      <4> QED BY <1>2, <2>5, <4>1, <4>2
    <3>2. CASE tranche[k].status # "paid"
      <4>1. Summable(g, "paid") /\ StatusTotal(g, "paid") = StatusTotal(tranche, "paid")
        BY <2>5, <2>6, <2>8, <2>9, <3>2, WriteKeeps
      <4> QED BY <1>2, <4>1
    <3> QED BY <3>1, <3>2
  <2>13. StatusTotal(g, "paid") \in Int  BY <2>12, StatusTotalIsInt
  <2>14. AdvanceRows'  BY <1>1, <2>1, <2>10, <2>11, <2>12 DEF AdvanceRows
  <2> QED BY <1>2, <2>1, <2>3, <2>10, <2>11, <2>12, <2>13, <2>14 DEF RowsKept
<1> QED BY <1>3, <1>6, <1>7, <1>8, <1>9, <1>10, <1>11, AdvanceStays DEF WritesAdvance

\* After a statement the handlers still work with what the rows allow.
LEMMA StatementKeepsTargets ==
  ASSUME TrancheInv, NEW r \in Req, Statement(r), NEW q \in Req
  PROVE  OnAdvance(q)'
<1>1. Placed /\ OnAdvance(q)  BY DEF TrancheInv
<1>2. \A k \in Tranche : tranche[k] # NoRow => tranche'[k] # NoRow
  BY StatementKeepsRows DEF RowsKept
<1>3. CASE job'[q] = Idle
  <2>1. job'[q].kind = "none"  BY <1>3 DEF Idle
  <2> QED BY <2>1 DEF OnAdvance, InsertKind
<1>4. CASE /\ job'[q].kind = job[q].kind /\ job'[q].row = job[q].row
           /\ job[q].kind # "transition" => job'[q].amount = job[q].amount
  BY <1>1, <1>2, <1>4 DEF OnAdvance, InsertKind
<1>5. CASE q = r  BY <1>1, <1>3, <1>4, <1>5, JobStays
<1>6. CASE q # r
  <2>1. OthersStay(r)  BY <1>1, StatementSteps DEF Stepped
  <2> QED BY <1>1, <1>4, <1>6, <2>1, Stays
<1> QED BY <1>5, <1>6

\* A handler comes to pay a tranche only from its look at the others.
LEMMA StatementKeepsBounds ==
  ASSUME TrancheInv, OneSlot, NEW r \in Req, Statement(r), NEW q \in Req
  PROVE  InBounds(q)'
<1>1. Placed /\ OthersStay(r) /\ r \in scenario.slots
  BY StatementSteps DEF TrancheInv, Stepped, UnderWay
<1>2. CASE q # r
  <2>1. job[q] = Idle  BY <1>1, <1>2, OthersIdle
  <2>2. job'[q].todo = job[q].todo  BY <1>1, <1>2, Stays
  <2>3. \A t : ~At(q, t)'  BY <2>1, <2>2 DEF At, Idle
  <2> QED BY <2>3 DEF InBounds
<1>3. CASE q = r
  <2>1. ~At(r, "raise")' /\ ~At(r, "ceiling")'
    <3>1. ASSUME NEW t \in {"raise", "ceiling"}, At(r, t)' PROVE FALSE
      <4>1. \E s : Comes(s, t)  BY <1>1, <3>1, CameTo
      <4> QED BY <4>1 DEF Comes
    <3> QED BY <3>1
  <2>2. ASSUME At(r, "tranche")'
        PROVE  StatusTotal(tranche', "paid") + job'[r].amount <= advance'.approved
    <3>1. PICK s : Follows(r, s) /\ Comes(s, "tranche") /\ Does(r, s)  BY <1>1, <2>2, CameTo
    <3>2. s = "ceiling"  BY <3>1 DEF Comes
    <3>3. Ceiling(r)  BY <3>1, <3>2 DEF Does
    <3>4. UNCHANGED <<advance, tranche>> /\ At(r, "ceiling")  BY <3>3 DEF Ceiling, rows
    <3>5. job'[r].amount = job[r].amount  BY <1>1, <2>2, <3>1, <3>2, NextStep
    <3>6. job[r].net = advance.approved  BY <3>4 DEF TrancheInv, Covered, InBounds
    <3>7. ~Finish(r)
      <4>1. Finish(r) => job'[r] = Idle  BY <1>1, SetIs DEF Finish
      <4> QED BY <2>2, <4>1 DEF At, Idle
    <3>8. ~TrancheExceedsApproved(job[r].net, ActiveTranches, job[r].amount)
      BY <3>3, <3>7 DEF Ceiling
    <3>9. job[r].amount \in Nat
      <4>1. PICK rest : Course(job[r].kind, "ceiling", rest)  BY <1>1, <3>4, AtStep
      <4>2. job[r].kind = "tranche"  BY <4>1 DEF Course
      <4> QED BY <4>2, AmountAssumption DEF TrancheInv, OnAdvance
    <3>10. StatusTotal(tranche, "paid") \in Nat /\ advance.approved \in Nat
      BY TrancheNumbers DEF TrancheInv
    <3>11. StatusTotal(tranche, "paid") + job[r].amount <= advance.approved
      BY <3>6, <3>8, <3>9, <3>10, TranchesAre DEF TrancheExceedsApproved
    <3> QED BY <3>4, <3>5, <3>11
  <2> QED BY <1>3, <2>1, <2>2 DEF InBounds
<1> QED BY <1>2, <1>3

\* Every step keeps the tranches within what is approved.
LEMMA NextKeepsTranches ==
  ASSUME TrancheInv, [Next]_vars
  PROVE  TrancheInv'
<1>1. ASSUME NEW r \in Req, HasBegun(r) PROVE TrancheInv'  BY <1>1, BegunKeepsTranches
<1>2. ASSUME NEW r \in Req, Statement(r) PROVE TrancheInv'
  <2>1. Placed /\ Placed' /\ RowsKept(r)
    BY <1>2, StatementKeepsPlaced, StatementKeepsRows DEF TrancheInv
  <2>2. scenario' = scenario /\ UnderWay(r)  BY <1>2, <2>1, StatementSteps DEF Stepped
  <2>3. \A q \in Req : OnAdvance(q)'  BY <1>2, StatementKeepsTargets
  <2>4. ASSUME "tranche" \notin scenario.calls PROVE tranche' = [k \in Tranche |-> NoRow]
    <3>1. tranche = [k \in Tranche |-> NoRow]  BY <2>4 DEF TrancheInv
    <3>2. job[r].kind # "tranche"  BY <2>2, <2>4 DEF UnderWay
    <3>3. job[r].kind # "reverse_tranche"  BY <3>1 DEF TrancheInv, OnAdvance
    <3> QED BY <2>1, <3>1, <3>2, <3>3 DEF RowsKept
  <2>5. ASSUME OneSlot PROVE Covered'
    <3>1. \A q \in Req : InBounds(q)'  BY <1>2, <2>5, StatementKeepsBounds
    <3>2. Covered  BY <2>5 DEF TrancheInv
    <3> QED BY <2>1, <3>1, <3>2 DEF Covered, RowsKept
  <2> QED BY <2>1, <2>2, <2>3, <2>4, <2>5 DEF TrancheInv, RowsKept, OneSlot
<1>3. ASSUME UNCHANGED vars PROVE TrancheInv'
  <2>1. UNCHANGED <<scenario, job, advance, tranche>> /\ Placed'
    BY <1>3, NextKeepsPlaced DEF vars, rows, TrancheInv
  <2>2. \A q \in Req : (OnAdvance(q) => OnAdvance(q)') /\ (InBounds(q) => InBounds(q)')
    BY <2>1 DEF OnAdvance, InBounds, At
  <2> QED BY <2>1, <2>2 DEF TrancheInv, AdvanceRows, Covered, OneSlot
<1> QED BY <1>1, <1>2, <1>3, NextIs

(* However often the approved amount is raised, tranches are reversed and  *)
(* the advance is cancelled, its tranches never add up to more than was    *)
(* approved, as long as two requests that pay tranches are not handled at  *)
(* the same time.                                                          *)
THEOREM TranchesStayWithinApproved ==
  ASSUME \A s \in Scenarios : "tranche" \in s.calls => \A q, r \in s.slots : q = r
  PROVE  Spec => []TranchesWithinApproved
<1>1. Init => TrancheInv  BY InitTranches
<1>2. TrancheInv /\ [Next]_vars => TrancheInv'  BY NextKeepsTranches
<1>3. TrancheInv => TranchesWithinApproved
  <2> SUFFICES ASSUME TrancheInv PROVE StatusTotal(tranche, "paid") <= advance.approved
    BY TranchesAre DEF TranchesWithinApproved
  <2>1. CASE "tranche" \in scenario.calls
    BY <2>1 DEF TrancheInv, Placed, OneSlot, Covered
  <2>2. CASE "tranche" \notin scenario.calls
    <3>1. tranche = [k \in Tranche |-> NoRow]  BY <2>2 DEF TrancheInv
    <3>2. StatusTotal(tranche, "paid") = 0  BY <3>1, NoneHasStatus DEF NoRow
    <3> QED BY <3>2, TrancheNumbers DEF TrancheInv
  <2> QED BY <2>1, <2>2
<1> QED BY <1>1, <1>2, <1>3, PTL DEF Spec

-----------------------------------------------------------------------------
(* The bonuses that requests bring about.                                  *)

\* What a statement does to a request when it changes it.
Rewrites(r, q) ==
  \/ /\ Propose(r) /\ request[q] = NoRequest
     /\ request'[q].status = "submitted" /\ request'[q].claimed = FALSE
  \/ /\ q = job[r].row /\ request[q].kind \in ChangeKind /\ request'[q].kind = request[q].kind
     /\ \/ /\ Decide(r) /\ request'[q].status = job[r].to
           /\ request'[q].claimed = request[q].claimed
        \/ /\ Claim(r) /\ request'[q].status = request[q].status
           /\ request[q].claimed # TRUE /\ request'[q].claimed = TRUE
        \/ /\ Release(r) /\ request'[q].status = request[q].status
           /\ request'[q].claimed = FALSE
        \/ MarkApplied(r) /\ request'[q].claimed = request[q].claimed
        \/ /\ MarkPending(r) /\ request'[q].status = "approved_pending_scheme_creation"
           /\ request'[q].claimed = request[q].claimed
        \/ Materialize(r) /\ request'[q].claimed = request[q].claimed

\* Every change of a request is one of these.
LEMMA RequestStep ==
  ASSUME Placed, NEW r \in Req, Statement(r), NEW q \in Request, request'[q] # request[q]
  PROVE  Rewrites(r, q)
<1>0. request' # request  OBVIOUS
<1>1. CASE Propose(r)
  <2>1. PICK p \in Request : \E x : /\ request[p] = NoRequest
                             /\ x = [NoRequest EXCEPT
                                  !.status = "submitted", !.kind = job[r].to,
                                       !.amount = job[r].amount,
                                  !.by = job[r].row]
                             /\ request' = [request EXCEPT ![p] = x]
    BY <1>1 DEF Propose
  <2>1a. PICK x : /\ x = [NoRequest EXCEPT
                      !.status = "submitted", !.kind = job[r].to, !.amount = job[r].amount,
                      !.by = job[r].row]
                  /\ request' = [request EXCEPT ![p] = x]
    BY <2>1
  <2>2. x.status = "submitted" /\ x.claimed = FALSE  BY <2>1a DEF NoRequest
  <2>3. request = [i \in Request |-> request[i]]  BY DEF Placed
  <2>4. p = q /\ request'[q] = x  BY <2>1, <2>1a, <2>3
  <2> QED BY <1>1, <2>1, <2>2, <2>4 DEF Rewrites
<1>2. CASE Decide(r)
  <2>1. At(r, "decide")  BY <1>2 DEF Decide
  <2>2. job[r].row \in Request /\ request[job[r].row].kind \in ChangeKind
    <3>1. PICK rest : Course(job[r].kind, "decide", rest)  BY <2>1, AtStep
    <3>2. job[r].kind \in OnRequest  BY <3>1 DEF Course, OnRequest
    <3> QED BY <3>2 DEF Placed, HasTarget
  <2>3. PICK x : /\ x = [request[job[r].row] EXCEPT !.status = job[r].to]
                 /\ request' = [request EXCEPT ![job[r].row] = x]
    BY <1>2, <1>0 DEF Decide
  <2>4. IsRequest(request[job[r].row])  BY <2>2 DEF Placed
  <2>5. PICK y : y = request[job[r].row]  OBVIOUS
  <2>6. x.kind = y.kind /\ x.status = job[r].to /\ x.claimed = y.claimed
    BY <2>3, <2>4, <2>5 DEF IsRequest
  <2>7. request = [i \in Request |-> request[i]]  BY DEF Placed
  <2>8. q = job[r].row /\ request'[q] = x  BY <2>2, <2>3, <2>7
  <2> QED BY <1>2, <2>2, <2>5, <2>6, <2>8 DEF Rewrites
<1>3. CASE Claim(r)
  <2>1. At(r, "claim")  BY <1>3 DEF Claim
  <2>2. job[r].row \in Request /\ request[job[r].row].kind \in ChangeKind
    <3>1. PICK rest : Course(job[r].kind, "claim", rest)  BY <2>1, AtStep
    <3>2. job[r].kind \in OnRequest  BY <3>1 DEF Course, OnRequest
    <3> QED BY <3>2 DEF Placed, HasTarget
  <2>3. PICK x : /\ x = [request[job[r].row] EXCEPT !.claimed = TRUE]
                 /\ request' = [request EXCEPT ![job[r].row] = x]
    BY <1>3, <1>0 DEF Claim
  <2>4. IsRequest(request[job[r].row])  BY <2>2 DEF Placed
  <2>5. PICK y : y = request[job[r].row]  OBVIOUS
  <2>6. x.kind = y.kind /\ x.status = y.status /\ x.claimed = TRUE
    BY <2>3, <2>4, <2>5 DEF IsRequest
  <2>7. request = [i \in Request |-> request[i]]  BY DEF Placed
  <2>8. q = job[r].row /\ request'[q] = x  BY <2>2, <2>3, <2>7
  <2>9. y.claimed # TRUE  BY <1>3, <1>0, <2>5 DEF Claim
  <2> QED BY <1>3, <2>2, <2>5, <2>6, <2>8, <2>9 DEF Rewrites
<1>4. CASE MarkApplied(r)
  <2>1. At(r, "applied")  BY <1>4 DEF MarkApplied, MarkRequest
  <2>2. job[r].row \in Request /\ request[job[r].row].kind \in ChangeKind
    <3>1. PICK rest : Course(job[r].kind, "applied", rest)  BY <2>1, AtStep
    <3>2. job[r].kind \in OnRequest  BY <3>1 DEF Course, OnRequest
    <3> QED BY <3>2 DEF Placed, HasTarget
  <2>3. PICK x : /\ x = [request[job[r].row] EXCEPT !.status = "applied"]
                 /\ request' = [request EXCEPT ![job[r].row] = x]
    BY <1>4, <1>0 DEF MarkApplied, MarkRequest
  <2>4. IsRequest(request[job[r].row])  BY <2>2 DEF Placed
  <2>5. PICK y : y = request[job[r].row]  OBVIOUS
  <2>6. x.kind = y.kind /\ x.claimed = y.claimed  BY <2>3, <2>4, <2>5 DEF IsRequest
  <2>7. request = [i \in Request |-> request[i]]  BY DEF Placed
  <2>8. q = job[r].row /\ request'[q] = x  BY <2>2, <2>3, <2>7
  <2> QED BY <1>4, <2>2, <2>5, <2>6, <2>8 DEF Rewrites
<1>5. CASE MarkPending(r)
  <2>1. At(r, "pending")  BY <1>5 DEF MarkPending, MarkRequest
  <2>2. job[r].row \in Request /\ request[job[r].row].kind \in ChangeKind
    <3>1. PICK rest : Course(job[r].kind, "pending", rest)  BY <2>1, AtStep
    <3>2. job[r].kind \in OnRequest  BY <3>1 DEF Course, OnRequest
    <3> QED BY <3>2 DEF Placed, HasTarget
  <2>3. PICK x : /\ x = [request[job[r].row]
                      EXCEPT !.status = "approved_pending_scheme_creation"]
                 /\ request' = [request EXCEPT ![job[r].row] = x]
    BY <1>5, <1>0 DEF MarkPending, MarkRequest
  <2>4. IsRequest(request[job[r].row])  BY <2>2 DEF Placed
  <2>5. PICK y : y = request[job[r].row]  OBVIOUS
  <2>6. x.kind = y.kind /\ x.status = "approved_pending_scheme_creation"
        /\ x.claimed = y.claimed
    BY <2>3, <2>4, <2>5 DEF IsRequest
  <2>7. request = [i \in Request |-> request[i]]  BY DEF Placed
  <2>8. q = job[r].row /\ request'[q] = x  BY <2>2, <2>3, <2>7
  <2> QED BY <1>5, <2>2, <2>5, <2>6, <2>8 DEF Rewrites
<1>6. CASE Release(r)
  <2>1. At(r, "release")  BY <1>6 DEF Release
  <2>2. job[r].row \in Request /\ request[job[r].row].kind \in ChangeKind
    <3>1. PICK rest : Course(job[r].kind, "release", rest)  BY <2>1, AtStep
    <3>2. job[r].kind \in OnRequest  BY <3>1 DEF Course, OnRequest
    <3> QED BY <3>2 DEF Placed, HasTarget
  <2>3. PICK x : /\ x = [request[job[r].row] EXCEPT !.claimed = FALSE]
                 /\ request' = [request EXCEPT ![job[r].row] = x]
    BY <1>6, <1>0 DEF Release
  <2>4. IsRequest(request[job[r].row])  BY <2>2 DEF Placed
  <2>5. PICK y : y = request[job[r].row]  OBVIOUS
  <2>6. x.kind = y.kind /\ x.status = y.status /\ x.claimed = FALSE
    BY <2>3, <2>4, <2>5 DEF IsRequest
  <2>7. request = [i \in Request |-> request[i]]  BY DEF Placed
  <2>8. q = job[r].row /\ request'[q] = x  BY <2>2, <2>3, <2>7
  <2> QED BY <1>6, <2>2, <2>5, <2>6, <2>8 DEF Rewrites
<1>7. CASE Materialize(r)
  <2>1. At(r, "version")  BY <1>7 DEF Materialize
  <2>2. job[r].row \in Request /\ request[job[r].row].kind \in ChangeKind
    <3>1. PICK rest : Course(job[r].kind, "version", rest)  BY <2>1, AtStep
    <3>2. job[r].kind \in OnRequest  BY <3>1 DEF Course, OnRequest
    <3> QED BY <3>2 DEF Placed, HasTarget
  <2>3. PICK x : /\ x = [request[job[r].row] EXCEPT !.version = TRUE, !.status = "applied"]
                 /\ request' = [request EXCEPT ![job[r].row] = x]
    BY <1>7, <1>0 DEF Materialize
  <2>4. IsRequest(request[job[r].row])  BY <2>2 DEF Placed
  <2>5. PICK y : y = request[job[r].row]  OBVIOUS
  <2>6. x.kind = y.kind /\ x.claimed = y.claimed  BY <2>3, <2>4, <2>5 DEF IsRequest
  <2>7. request = [i \in Request |-> request[i]]  BY DEF Placed
  <2>8. q = job[r].row /\ request'[q] = x  BY <2>2, <2>3, <2>7
  <2> QED BY <1>7, <2>2, <2>5, <2>6, <2>8 DEF Rewrites
<1>8. CASE ~(\/ Propose(r) \/ Decide(r) \/ Claim(r) \/ MarkApplied(r) \/ MarkPending(r)
             \/ Release(r) \/ Materialize(r))
  BY <1>0, <1>8 DEF Statement, Create, Seed, Inputs, MovePeriod, Lock, Bill, Owe, Remainder,
     OpenDebt, Shut,
              Adjust, CancelAdjustment, StartPayment, CommitPayment, StartReversal,
              CommitReversal, Retry, Repay, Settle, WriteOff, Fold, Issue, RequestAdvance,
              RecordAdvance, PayAdvance, CancelAdvance, ApproveAmount, Raise, Ceiling,
                   PayTranche,
              ReverseTranche, Bonus, ReadOverrides, WriteOverrides, ReadEffective, WriteAuto,
              FailApproval, Sum, Total, Refund, RewriteExpense, Crash, Insert, rows
<1> QED BY <1>1, <1>2, <1>3, <1>4, <1>5, <1>6, <1>7, <1>8

\* An adjustment, if it is there.
IsAdjustment(x) == x = [status |-> x.status, amount |-> x.amount]

AdjustmentRows ==
  /\ adjustment = [i \in Adjustment |-> adjustment[i]]
  /\ \A i \in Adjustment : IsAdjustment(adjustment[i])
  /\ \A r \in Req : job[r].kind = "cancel_adjustment" =>
                      job[r].row \in Adjustment /\ adjustment[job[r].row] # NoRow

\* The adjustments that are there.
Given == {i \in Adjustment : adjustment[i] # NoRow}

\* Which adjustments are there after a statement: one more after a bonus, or a
\* correction made by hand.
AdjustmentsGrow(r) ==
  /\ adjustment' = [i \in Adjustment |-> adjustment'[i]]
  /\ \A i \in Adjustment : IsAdjustment(adjustment'[i])
  /\ IF Bonus(r) \/ Adjust(r)
       THEN \E i \in Adjustment : i \notin Given /\ Given' = Given \cup {i}
       ELSE Given' = Given

\* Every statement leaves the adjustments in this way.
LEMMA AdjustmentStep ==
  ASSUME Placed, AdjustmentRows, NEW r \in Req, Statement(r)
  PROVE  AdjustmentsGrow(r)
<1>1. adjustment = [i \in Adjustment |-> adjustment[i]]
      /\ \A i \in Adjustment : IsAdjustment(adjustment[i])
  BY DEF AdjustmentRows
<1>2. CASE Bonus(r) \/ Adjust(r)
  <2>1. PICK i \in Adjustment :
          /\ adjustment[i] = NoRow
          /\ adjustment' = [adjustment
               EXCEPT ![i] = [status |-> "approved", amount |-> job[r].amount]]
    BY <1>2 DEF Bonus, Adjust
  <2>2. PICK x : x = [status |-> "approved", amount |-> job[r].amount]  OBVIOUS
  <2>3. IsAdjustment(x) /\ x # NoRow  BY <2>2 DEF IsAdjustment, NoRow
  <2>4. adjustment' = [adjustment EXCEPT ![i] = x]  BY <2>1, <2>2
  <2>5. i \notin Given /\ Given' = Given \cup {i}  BY <1>1, <2>1, <2>3, <2>4 DEF Given
  <2>6. /\ adjustment' = [k \in Adjustment |-> adjustment'[k]]
        /\ \A k \in Adjustment : IsAdjustment(adjustment'[k])
    BY <1>1, <2>3, <2>4
  <2> QED BY <1>2, <2>5, <2>6 DEF AdjustmentsGrow
<1>3. CASE CancelAdjustment(r) /\ ~(Bonus(r) \/ Adjust(r))
  <2>1. At(r, "unadjust")  BY <1>3 DEF CancelAdjustment
  <2>2. PICK rest : Course(job[r].kind, "unadjust", rest)  BY <2>1, AtStep
  <2>3. job[r].kind = "cancel_adjustment"  BY <2>2 DEF Course
  <2>4. PICK k : k = job[r].row  OBVIOUS
  <2>5. k \in Adjustment /\ adjustment[k] # NoRow  BY <2>3, <2>4 DEF AdjustmentRows
  <2>6. PICK x : x = [adjustment[k] EXCEPT !.status = "canceled"]  OBVIOUS
  <2>7. adjustment' = [adjustment EXCEPT ![k] = x]  BY <1>3, <2>4, <2>6 DEF CancelAdjustment
  <2>8. IsAdjustment(adjustment[k])  BY <1>1, <2>5
  <2>9. IsAdjustment(x) /\ x # NoRow  BY <2>6, <2>8 DEF IsAdjustment, NoRow
  <2>10. Given' = Given  BY <1>1, <2>5, <2>7, <2>9 DEF Given
  <2>11. /\ adjustment' = [i \in Adjustment |-> adjustment'[i]]
         /\ \A i \in Adjustment : IsAdjustment(adjustment'[i])
    BY <1>1, <2>7, <2>9
  <2> QED BY <1>3, <2>10, <2>11 DEF AdjustmentsGrow
<1>4. CASE ~(\/ Bonus(r) \/ Adjust(r) \/ CancelAdjustment(r))
  <2>1. adjustment' = adjustment
    BY <1>4 DEF Statement, Create, Seed, Inputs, MovePeriod, Lock, Bill, Owe, Remainder,
       OpenDebt, Shut,
              StartPayment, CommitPayment, StartReversal,
              CommitReversal, Retry, Repay, Settle, WriteOff, Fold, Issue, RequestAdvance,
              RecordAdvance, PayAdvance, CancelAdvance, ApproveAmount, Raise, Ceiling,
                   PayTranche,
              ReverseTranche, ReadOverrides, WriteOverrides, ReadEffective, WriteAuto,
              FailApproval, Sum, Total, Refund, RewriteExpense, Crash, Insert, rows, Propose,
              Decide, Claim,
                   MarkApplied, MarkPending, MarkRequest, Release, Materialize
  <2> QED BY <1>1, <1>4, <2>1 DEF AdjustmentsGrow, Given
<1> QED BY <1>2, <1>3, <1>4

\* The adjustments stay rows, and a cancellation has one to cancel.
LEMMA StatementKeepsAdjustments ==
  ASSUME Placed, AdjustmentRows, NEW r \in Req, Statement(r)
  PROVE  AdjustmentRows'
<1>1. AdjustmentsGrow(r)  BY AdjustmentStep
<1>2. Given \subseteq Given'  BY <1>1 DEF AdjustmentsGrow
<1>3. ASSUME NEW q \in Req, job'[q].kind = "cancel_adjustment"
      PROVE  job'[q].row \in Adjustment /\ adjustment'[job'[q].row] # NoRow
  <2>1. job[q].kind = "cancel_adjustment" /\ job'[q].row = job[q].row
    <3>1. CASE q = r  BY <1>3, <3>1, JobStays DEF Idle
    <3>2. CASE q # r
      <4>1. OthersStay(r)  BY StatementSteps DEF Stepped
      <4> QED BY <1>3, <3>2, <4>1, Stays
    <3> QED BY <3>1, <3>2
  <2>2. job[q].row \in Given  BY <2>1 DEF AdjustmentRows, Given
  <2>3. job'[q].row \in Given'  BY <1>2, <2>1, <2>2
  <2> QED BY <2>3 DEF Given
<1> QED BY <1>1, <1>3 DEF AdjustmentRows, AdjustmentsGrow

\* What an approval is about, at each of its steps.
OnEffect(r) ==
  /\ At(r, "claim") => job[r].todo = Effect(request[job[r].row].kind)
  /\ At(r, "bonus") => request[job[r].row].kind = "bonus"
  /\ (\E t \in {"overrides", "override", "effective", "auto"} : At(r, t)) =>
       request[job[r].row].kind = "override"
  /\ (\E t \in {"pending", "version"} : At(r, t)) => request[job[r].row].kind = "future"
  /\ At(r, "decide") => job[r].to # "applied"
  /\ At(r, "release") => "failure" \in scenario.calls

\* The approval has brought the bonus of its request about.
Brought(r) == job[r].kind = "approve_change" /\ \E t \in {"sum", "total", "applied"} : At(r, t)

\* The requests whose bonus is there, and those that were claimed.
Granted ==
  {q \in Request : /\ request[q].kind = "bonus"
                   /\ \/ request[q].status = "applied"
                      \/ \E r \in Req : Brought(r) /\ job[r].row = q}
Claimed == {q \in Request : request[q].kind = "bonus" /\ request[q].claimed = TRUE}

\* The approvals that are about to bring a bonus about.
Granting == {r \in Req : At(r, "bonus")}

BonusInv ==
  /\ Placed /\ AdjustmentRows /\ \A r \in Req : OnEffect(r)
  /\ \A q \in Request : request[q].claimed \in BOOLEAN
  /\ "adjust" \notin scenario.calls =>
       /\ IsFiniteSet(Given) /\ IsFiniteSet(Granted)
          /\ Cardinality(Granted) <= Cardinality(Given)
       /\ "failure" \notin scenario.calls =>
            /\ IsFiniteSet(Claimed) /\ IsFiniteSet(Granting)
            /\ Cardinality(Given) + Cardinality(Granting) <= Cardinality(Claimed)

\* At a step of a decision, the request of the handler is there and keeps its kind.
LEMMA TargetStays ==
  ASSUME Placed, NEW r \in Req, Statement(r), NEW q \in Req,
         NEW t \in {"claim", "bonus", "overrides", "override", "effective", "auto", "applied",
                    "pending", "version", "decide", "release"},
         At(q, t)
  PROVE  /\ job[q].row \in Request /\ request[job[q].row].kind \in ChangeKind
         /\ request'[job[q].row].kind = request[job[q].row].kind
<1>1. PICK rest : Course(job[q].kind, t, rest)  BY AtStep
<1>2. job[q].kind \in OnRequest  BY <1>1 DEF Course, OnRequest
<1>3. job[q].row \in Request /\ request[job[q].row].kind \in ChangeKind
  BY <1>2 DEF Placed, HasTarget
<1>4. RequestsKeepTheirKind  BY StatementKeepsKinds
<1> QED BY <1>3, <1>4 DEF RequestsKeepTheirKind

\* What comes after the claim tells what was asked for.
LEMMA AfterClaim ==
  ASSUME NEW kind \in ChangeKind, NEW rest, First(Effect(kind), "claim", rest), rest # <<>>
  PROVE  /\ Head(rest) = "bonus" => kind = "bonus"
         /\ Head(rest) = "overrides" => kind = "override"
         /\ Head(rest) = "pending" => kind = "future"
<1>1. CASE kind = "bonus"
  <2>1. rest = <<"bonus", "sum", "total", "applied">>  BY <1>1 DEF First, Effect
  <2> QED BY <1>1, <2>1
<1>2. CASE kind = "override"
  <2>1. rest = <<"overrides", "override", "effective", "auto", "sum", "total", "applied">>
    BY <1>2 DEF First, Effect
  <2> QED BY <1>2, <2>1
<1>3. CASE kind = "future"
  <2>1. rest = <<"pending", "version">>  BY <1>3 DEF First, Effect
  <2> QED BY <1>3, <2>1
<1> QED BY <1>1, <1>2, <1>3 DEF ChangeKind

\* The handler goes on as its request asks.
LEMMA StatementKeepsEffects ==
  ASSUME BonusInv, NEW r \in Req, Statement(r), NEW q \in Req
  PROVE  OnEffect(q)'
<1>1. Placed /\ OnEffect(q) /\ OthersStay(r) /\ scenario' = scenario
  BY StatementSteps DEF BonusInv, Stepped
<1>2. CASE q # r
  <2>1. IsJob(job[q]) /\ (job'[q] = job[q] \/ job'[q] = [job[q] EXCEPT !.stale = TRUE])
    BY <1>1, <1>2 DEF OthersStay, Placed
  <2>2. job'[q].todo = job[q].todo /\ job'[q].row = job[q].row /\ job'[q].to = job[q].to
    BY <2>1 DEF IsJob
  <2>3. \A t : At(q, t)' <=> At(q, t)  BY <2>2 DEF At
  <2>4. \A t \in {"claim", "bonus", "overrides", "override", "effective", "auto", "pending",
          "version"} :
          At(q, t) => request'[job[q].row].kind = request[job[q].row].kind
    BY <1>1, TargetStays
  <2> QED BY <1>1, <2>2, <2>3, <2>4 DEF OnEffect
<1>3. CASE q = r
  <2>1. ASSUME NEW s, NEW t, Follows(r, s), At(r, t)',
               s \in {"claim", "overrides", "override", "effective", "pending"}
        PROVE  /\ job'[r].row = job[r].row
               /\ request'[job[r].row].kind = request[job[r].row].kind
    <3>1. At(r, s)  BY <2>1 DEF Follows
    <3> QED BY <1>1, <2>1, <3>1, NextStep, TargetStays
  <2>2. ASSUME NEW t \in {"bonus", "overrides", "pending"}, At(r, t)'
        PROVE  /\ t = "bonus" => request'[job'[r].row].kind = "bonus"
               /\ t = "overrides" => request'[job'[r].row].kind = "override"
               /\ t = "pending" => request'[job'[r].row].kind = "future"
    <3>1. PICK s : Follows(r, s) /\ Comes(s, t)  BY <1>1, <2>2, CameTo
    <3>2. s = "claim"  BY <2>2, <3>1 DEF Comes
    <3>3. At(r, "claim") /\ job'[r] # Idle  BY <2>2, <3>1, <3>2 DEF Follows, At, Idle
    <3>4. PICK rest : First(job[r].todo, "claim", rest) /\ rest # <<>> /\ job'[r].todo = rest
      BY <3>1, <3>2, <3>3 DEF Follows
    <3>5. job[r].todo = Effect(request[job[r].row].kind)  BY <1>1, <1>3, <3>3 DEF OnEffect
    <3>6. request[job[r].row].kind \in ChangeKind  BY <1>1, <3>3, TargetStays
    <3>7. Head(rest) = t  BY <2>2, <3>4 DEF At
    <3>8. /\ job'[r].row = job[r].row
          /\ request'[job[r].row].kind = request[job[r].row].kind
      BY <2>1, <2>2, <3>1, <3>2
    <3> QED BY <3>4, <3>5, <3>6, <3>7, <3>8, AfterClaim
  <2>3. ASSUME NEW t \in {"override", "effective", "auto", "version"}, At(r, t)'
        PROVE  /\ t # "version" => request'[job'[r].row].kind = "override"
               /\ t = "version" => request'[job'[r].row].kind = "future"
    <3>1. PICK s : Follows(r, s) /\ Comes(s, t)  BY <1>1, <2>3, CameTo
    <3>2. /\ s \in {"overrides", "override", "effective", "pending"}
          /\ t = "version" <=> s = "pending"
      BY <2>3, <3>1 DEF Comes
    <3>3. At(r, s)  BY <3>1 DEF Follows
    <3>4. /\ t # "version" => request[job[r].row].kind = "override"
          /\ t = "version" => request[job[r].row].kind = "future"
      BY <1>1, <1>3, <3>2, <3>3 DEF OnEffect
    <3>5. /\ job'[r].row = job[r].row
          /\ request'[job[r].row].kind = request[job[r].row].kind
      BY <2>1, <2>3, <3>1, <3>2
    <3> QED BY <3>4, <3>5
  <2>4. ~At(r, "claim")' /\ ~At(r, "decide")'
    <3>1. ASSUME NEW t \in {"claim", "decide"}, At(r, t)' PROVE FALSE
      <4>1. \E s : Comes(s, t)  BY <1>1, <3>1, CameTo
      <4> QED BY <3>1, <4>1 DEF Comes
    <3> QED BY <3>1
  <2>5. At(r, "release")' => "failure" \in scenario'.calls
    <3> SUFFICES ASSUME At(r, "release")' PROVE "failure" \in scenario'.calls  OBVIOUS
    <3>1. (\E s : Comes(s, "release")) \/ FailApproval(r)  BY <1>1, CameTo
    <3>2. FailApproval(r)  BY <3>1 DEF Comes
    <3> QED BY <1>1, <3>2 DEF FailApproval
  <2> QED BY <1>3, <2>2, <2>3, <2>4, <2>5 DEF OnEffect
<1> QED BY <1>2, <1>3

\* An approval has brought its bonus about by the step that does.
LEMMA BroughtBefore ==
  ASSUME BonusInv, NEW r \in Req, Statement(r), ~Bonus(r), Brought(r)',
         request[job[r].row].kind = "bonus"
  PROVE  Brought(r)
<1>1. Placed /\ OnEffect(r)  BY DEF BonusInv
<1>2. PICK t \in {"sum", "total", "applied"} : At(r, t)'  BY DEF Brought
<1>3. PICK s : Follows(r, s) /\ Comes(s, t) /\ Does(r, s)  BY <1>1, <1>2, CameTo
<1>4. job'[r].kind = "approve_change" /\ job'[r].kind = job[r].kind
  BY <1>1, <1>2, <1>3, NextStep DEF Brought
<1>5. At(r, s)  BY <1>3 DEF Follows
<1>6. PICK rest : Course(job[r].kind, s, rest)  BY <1>1, <1>5, AtStep
<1>7. s \in {"sum", "total", "bonus", "auto"}  BY <1>2, <1>3, <1>4, <1>6 DEF Comes, Course
<1>8. s # "bonus"  BY <1>3 DEF Does
<1>9. s # "auto"  BY <1>1, <1>5 DEF OnEffect
<1> QED BY <1>4, <1>5, <1>7, <1>8, <1>9 DEF Brought

\* A request gets its bonus by that step alone.
LEMMA GrantedGrows ==
  ASSUME BonusInv, NEW r \in Req, Statement(r)
  PROVE  /\ Granted' \subseteq Granted \cup {job[r].row}
         /\ ~Bonus(r) => Granted' \subseteq Granted
<1>1. Placed /\ Placed' /\ OnEffect(r) /\ OthersStay(r) /\ RequestsKeepTheirKind
  BY StatementKeepsPlaced, StatementSteps, StatementKeepsKinds DEF BonusInv, Stepped
<1>2. ASSUME NEW q \in Request, request'[q].kind = "bonus", request'[q].status = "applied"
      PROVE  q \in Granted
  <2>1. CASE request'[q] = request[q]  BY <1>2, <2>1 DEF Granted
  <2>2. CASE request'[q] # request[q]
    <3>1. Rewrites(r, q)  BY <1>1, <2>2, RequestStep
    <3>2. ~Propose(r) \/ request'[q].status # "submitted"  BY <1>2
    <3>3. ~Decide(r) \/ request'[q].status # job[r].to
      <4>1. Decide(r) => At(r, "decide")  BY DEF Decide
      <4> QED BY <1>1, <1>2, <4>1 DEF OnEffect
    <3>4. CASE q = job[r].row /\ request[q].kind = "bonus" /\ (Claim(r) \/ Release(r))
               /\ request'[q].status = request[q].status
      BY <1>2, <3>4 DEF Granted
    <3>5. CASE q = job[r].row /\ request[q].kind = "bonus" /\ MarkApplied(r)
      <4>1. At(r, "applied")  BY <3>5 DEF MarkApplied, MarkRequest
      <4>2. PICK rest : Course(job[r].kind, "applied", rest)  BY <1>1, <4>1, AtStep
      <4>3. job[r].kind = "approve_change"  BY <4>2 DEF Course
      <4>4. Brought(r)  BY <4>1, <4>3 DEF Brought
      <4> QED BY <3>5, <4>4 DEF Granted
    <3>6. CASE q = job[r].row /\ request[q].kind = "bonus" /\ Materialize(r)
      <4>1. At(r, "version")  BY <3>6 DEF Materialize
      <4> QED BY <1>1, <3>6, <4>1 DEF OnEffect
    <3> QED BY <1>2, <3>1, <3>2, <3>3, <3>4, <3>5, <3>6 DEF Rewrites
  <2> QED BY <2>1, <2>2
<1>3. ASSUME NEW q \in Request, request'[q].kind = "bonus", NEW p \in Req, p # r, Brought(p)',
             job'[p].row = q
      PROVE  q \in Granted
  <2>1. job'[p].kind = job[p].kind /\ job'[p].row = job[p].row /\ job'[p].todo = job[p].todo
    BY <1>1, <1>3, Stays
  <2>2. Brought(p) /\ job[p].row = q  BY <1>3, <2>1 DEF Brought, At
  <2>3. request[q].kind \in ChangeKind
    BY <1>1, <2>2 DEF Placed, HasTarget, Brought, OnRequest
  <2>4. request[q].kind = "bonus"  BY <1>1, <1>3, <2>3 DEF RequestsKeepTheirKind
  <2> QED BY <2>2, <2>4 DEF Granted
<1>4. ASSUME NEW q \in Request, request'[q].kind = "bonus", Brought(r)', job'[r].row = q
      PROVE  q = job[r].row /\ (~Bonus(r) => q \in Granted)
  <2>1. job'[r] # Idle  BY <1>4 DEF Brought, At, Idle
  <2>2. job'[r].kind = job[r].kind /\ job'[r].row = job[r].row  BY <1>1, <2>1, JobStays
  <2>3. job[r].kind = "approve_change" /\ job[r].row = q  BY <1>4, <2>2 DEF Brought
  <2>4. request[q].kind \in ChangeKind  BY <1>1, <2>3 DEF Placed, HasTarget, OnRequest
  <2>5. request[q].kind = "bonus"  BY <1>1, <1>4, <2>4 DEF RequestsKeepTheirKind
  <2>6. ~Bonus(r) => Brought(r)  BY <1>4, <2>3, <2>5, BroughtBefore
  <2> QED BY <2>3, <2>5, <2>6 DEF Granted
<1> QED BY <1>2, <1>3, <1>4 DEF Granted

\* A claim is not taken back unless a statement failed.
LEMMA ClaimedGrows ==
  ASSUME BonusInv, NEW r \in Req, Statement(r)
  PROVE  /\ \A q \in Request : request'[q].claimed \in BOOLEAN
         /\ "failure" \notin scenario.calls => Claimed \subseteq Claimed'
         /\ Claimed' \subseteq Claimed \cup {job[r].row}
<1>1. Placed /\ OnEffect(r)  BY DEF BonusInv
<1>2. ASSUME NEW q \in Request PROVE request'[q].claimed \in BOOLEAN
  <2>1. CASE request'[q] = request[q]  BY <2>1 DEF BonusInv
  <2>2. CASE request'[q] # request[q]
    <3>1. Rewrites(r, q)  BY <1>1, <2>2, RequestStep
    <3> QED BY <3>1 DEF Rewrites, BonusInv
  <2> QED BY <2>1, <2>2
<1>3. ASSUME "failure" \notin scenario.calls, NEW q \in Claimed PROVE q \in Claimed'
  <2>1. q \in Request /\ request[q].kind = "bonus" /\ request[q].claimed = TRUE
    BY <1>3 DEF Claimed
  <2>2. CASE request'[q] = request[q]  BY <2>1, <2>2 DEF Claimed
  <2>3. CASE request'[q] # request[q]
    <3>1. Rewrites(r, q)  BY <1>1, <2>1, <2>3, RequestStep
    <3>2. request[q] # NoRequest  BY <2>1 DEF NoRequest
    <3>3. ~Release(r)  BY <1>1, <1>3 DEF Release, OnEffect
    <3>4. request'[q].kind = "bonus" /\ request'[q].claimed = TRUE
      BY <2>1, <3>1, <3>2, <3>3 DEF Rewrites
    <3> QED BY <2>1, <3>4 DEF Claimed
  <2> QED BY <2>2, <2>3
<1>4. ASSUME NEW q \in Claimed', q # job[r].row PROVE q \in Claimed
  <2>1. q \in Request /\ request'[q].kind = "bonus" /\ request'[q].claimed = TRUE
    BY <1>4 DEF Claimed
  <2>2. CASE request'[q] = request[q]  BY <2>1, <2>2 DEF Claimed
  <2>3. CASE request'[q] # request[q]
    <3>1. Rewrites(r, q)  BY <1>1, <2>1, <2>3, RequestStep
    <3> QED BY <1>4, <2>1, <3>1 DEF Rewrites
  <2> QED BY <2>2, <2>3
<1> QED BY <1>2, <1>3, <1>4

\* A bonus is about to be brought about once its request has been claimed.
LEMMA GrantingGrows ==
  ASSUME BonusInv, NEW r \in Req, Statement(r)
  PROVE  /\ Bonus(r) => r \in Granting /\ Granting' \subseteq Granting \ {r}
         /\ \/ Granting' \subseteq Granting
            \/ /\ Granting' \subseteq Granting \cup {r} /\ ~Bonus(r)
               /\ job[r].row \in Claimed' /\ job[r].row \notin Claimed
<1>1. Placed /\ OnEffect(r) /\ OthersStay(r) /\ scenario' = scenario
  BY StatementSteps DEF BonusInv, Stepped
<1>2. ASSUME NEW q \in Granting', q # r PROVE q \in Granting
  <2>1. job'[q].todo = job[q].todo  BY <1>1, <1>2, Stays DEF Granting
  <2> QED BY <1>2, <2>1 DEF Granting, At
<1>3. ASSUME r \in Granting' PROVE /\ Claim(r) /\ At(r, "claim")
                                    /\ job[r].row \in Claimed' /\ job[r].row \notin Claimed
  <2>1. At(r, "bonus")'  BY <1>3 DEF Granting
  <2>2. PICK s : Follows(r, s) /\ Comes(s, "bonus") /\ Does(r, s)  BY <1>1, <2>1, CameTo
  <2>3. s = "claim"  BY <2>2 DEF Comes
  <2>4. At(r, "claim") /\ Claim(r)  BY <2>2, <2>3 DEF Follows, Does
  <2>5. OnEffect(r)'  BY StatementKeepsEffects
  <2>6. job'[r].row = job[r].row  BY <1>1, <2>1, <2>2, NextStep
  <2>7. request'[job[r].row].kind = "bonus"  BY <2>1, <2>5, <2>6 DEF OnEffect
  <2>8. /\ job[r].row \in Request /\ request[job[r].row].kind \in ChangeKind
    BY <1>1, <2>4, TargetStays
  <2>9. ~Finish(r)
    <3>1. Finish(r) => job'[r] = Idle  BY <1>1, SetIs DEF Finish
    <3> QED BY <2>1, <3>1 DEF At, Idle
  <2>10. /\ ~request[job[r].row].claimed
         /\ request' = [request EXCEPT ![job[r].row].claimed = TRUE]
    BY <2>4, <2>9 DEF Claim
  <2>11. PICK y : y = request[job[r].row]  OBVIOUS
  <2>12. IsRequest(y) /\ request = [q \in Request |-> request[q]]
    BY <1>1, <2>8, <2>11 DEF Placed
  <2>13. PICK x : x = [y EXCEPT !.claimed = TRUE]  OBVIOUS
  <2>14. x.claimed = TRUE  BY <2>12, <2>13 DEF IsRequest
  <2>15. request' = [request EXCEPT ![job[r].row] = x]  BY <2>10, <2>11, <2>13
  <2>16. request'[job[r].row] = x  BY <2>8, <2>12, <2>15
  <2>17. job[r].row \in Claimed'  BY <2>7, <2>8, <2>14, <2>16 DEF Claimed
  <2>18. job[r].row \notin Claimed  BY <2>10 DEF Claimed
  <2> QED BY <2>4, <2>17, <2>18
<1>4. Bonus(r) => At(r, "bonus")  BY DEF Bonus
<1>5. ~(At(r, "bonus") /\ At(r, "claim"))  BY DEF At
<1>6. CASE r \in Granting'
  <2>1. ~Bonus(r)  BY <1>3, <1>4, <1>5, <1>6
  <2>2. Granting' \subseteq Granting \cup {r}  BY <1>2
  <2> QED BY <1>3, <1>6, <2>1, <2>2
<1>7. CASE r \notin Granting'
  <2>1. Granting' \subseteq Granting \ {r}  BY <1>2, <1>7
  <2>2. Bonus(r) => r \in Granting  BY <1>4 DEF Granting
  <2> QED BY <2>1, <2>2
<1> QED BY <1>6, <1>7

\* A set that grows by at most one element, and one that loses one.
LEMMA GrowsByOne ==
  ASSUME NEW S, IsFiniteSet(S), NEW T, NEW x, T \subseteq S \cup {x}
  PROVE  /\ IsFiniteSet(T) /\ Cardinality(T) \in Nat /\ Cardinality(S) \in Nat
         /\ Cardinality(T) <= Cardinality(S) + 1
         /\ T \subseteq S => Cardinality(T) <= Cardinality(S)
         /\ x \in S /\ T \subseteq S \ {x} => Cardinality(T) <= Cardinality(S) - 1
         /\ S \subseteq T /\ x \in T /\ x \notin S => Cardinality(T) = Cardinality(S) + 1
         /\ S \subseteq T => Cardinality(S) <= Cardinality(T)
<1> DEFINE U == S \cup {x}
           V == S \ {x}
<1>1. /\ IsFiniteSet(U)
         /\ Cardinality(U) = IF x \in S THEN Cardinality(S) ELSE Cardinality(S) + 1
  BY FS_AddElement
<1>2. /\ IsFiniteSet(V)
         /\ Cardinality(V) = IF x \in S THEN Cardinality(S) - 1 ELSE Cardinality(S)
  BY FS_RemoveElement
<1>3. Cardinality(S) \in Nat  BY FS_CardinalityType
<1>4. IsFiniteSet(T) /\ Cardinality(T) <= Cardinality(U)  BY <1>1, FS_Subset
<1>5. Cardinality(T) \in Nat  BY <1>4, FS_CardinalityType
<1>6. T \subseteq S => Cardinality(T) <= Cardinality(S)  BY FS_Subset
<1>7. T \subseteq V => Cardinality(T) <= Cardinality(V)  BY <1>2, FS_Subset
<1>8. S \subseteq T => Cardinality(S) <= Cardinality(T)  BY <1>4, FS_Subset
<1>9. S \subseteq T /\ x \in T => T = U  OBVIOUS
<1>10. Cardinality(T) <= Cardinality(S) + 1  BY <1>1, <1>3, <1>4, <1>5
<1>11. x \in S /\ T \subseteq V => Cardinality(T) <= Cardinality(S) - 1  BY <1>2, <1>7
<1>12. S \subseteq T /\ x \in T /\ x \notin S => Cardinality(T) = Cardinality(S) + 1
  BY <1>1, <1>9
<1> QED BY <1>3, <1>4, <1>5, <1>6, <1>8, <1>10, <1>11, <1>12

\* Every statement keeps count.
LEMMA StatementKeepsBonuses ==
  ASSUME BonusInv, NEW r \in Req, Statement(r)
  PROVE  BonusInv'
<1>1. Placed /\ Placed' /\ AdjustmentRows' /\ scenario' = scenario /\ UnderWay(r)
  BY StatementKeepsPlaced, StatementKeepsAdjustments, StatementSteps DEF BonusInv, Stepped
<1>2. \A q \in Req : OnEffect(q)'  BY StatementKeepsEffects
<1>3. \A q \in Request : request'[q].claimed \in BOOLEAN  BY ClaimedGrows
<1>4. ASSUME "adjust" \notin scenario.calls
      PROVE  IF Bonus(r) THEN \E i : i \notin Given
         /\ Given' = Given \cup {i} ELSE Given' = Given
  <2>1. ~Adjust(r)
    <3>1. ASSUME Adjust(r) PROVE FALSE
      <4>1. At(r, "adjust")  BY <3>1 DEF Adjust
      <4>2. PICK rest : Course(job[r].kind, "adjust", rest)  BY <1>1, <4>1, AtStep
      <4>3. job[r].kind = "adjust"  BY <4>2 DEF Course
      <4> QED BY <1>1, <1>4, <4>3 DEF UnderWay
    <3> QED BY <3>1
  <2>2. AdjustmentsGrow(r)  BY AdjustmentStep DEF BonusInv
  <2> QED BY <2>1, <2>2 DEF AdjustmentsGrow
<1>5. ASSUME "adjust" \notin scenario.calls
      PROVE  /\ IsFiniteSet(Given') /\ IsFiniteSet(Granted')
             /\ Cardinality(Granted') <= Cardinality(Given')
             /\ Cardinality(Given') =
                  IF Bonus(r) THEN Cardinality(Given) + 1 ELSE Cardinality(Given)
  <2>1. /\ IsFiniteSet(Given) /\ IsFiniteSet(Granted)
           /\ Cardinality(Granted) <= Cardinality(Given)
    BY <1>5 DEF BonusInv
  <2>2. /\ IsFiniteSet(Granted') /\ Cardinality(Granted') \in Nat
           /\ Cardinality(Granted) \in Nat
        /\ Cardinality(Granted') <= Cardinality(Granted) + 1
        /\ ~Bonus(r) => Cardinality(Granted') <= Cardinality(Granted)
    BY <2>1, GrantedGrows, GrowsByOne
  <2>3. CASE Bonus(r)
    <3>1. PICK i : i \notin Given /\ Given' = Given \cup {i}  BY <1>4, <1>5, <2>3
    <3>2. /\ IsFiniteSet(Given') /\ Cardinality(Given) \in Nat
          /\ Cardinality(Given') = Cardinality(Given) + 1
      BY <2>1, <3>1, GrowsByOne
    <3> QED BY <2>1, <2>2, <2>3, <3>2
  <2>4. CASE ~Bonus(r)
    <3>1. Given' = Given  BY <1>4, <1>5, <2>4
    <3>2. Cardinality(Given) \in Nat  BY <2>1, FS_CardinalityType
    <3> QED BY <2>1, <2>2, <2>4, <3>1, <3>2
  <2> QED BY <2>3, <2>4
<1>6. ASSUME "adjust" \notin scenario.calls, "failure" \notin scenario.calls
      PROVE  /\ IsFiniteSet(Claimed') /\ IsFiniteSet(Granting')
             /\ Cardinality(Given') + Cardinality(Granting') <= Cardinality(Claimed')
  <2>1. /\ IsFiniteSet(Given) /\ IsFiniteSet(Claimed) /\ IsFiniteSet(Granting)
        /\ Cardinality(Given) + Cardinality(Granting) <= Cardinality(Claimed)
    BY <1>6 DEF BonusInv
  <2>2. Cardinality(Given) \in Nat  BY <2>1, FS_CardinalityType
  <2>3. Claimed \subseteq Claimed' /\ Claimed' \subseteq Claimed \cup {job[r].row}
    BY <1>6, ClaimedGrows
  <2>4. /\ IsFiniteSet(Claimed') /\ Cardinality(Claimed') \in Nat
           /\ Cardinality(Claimed) \in Nat
        /\ Cardinality(Claimed) <= Cardinality(Claimed')
        /\ job[r].row \in Claimed' /\ job[r].row \notin Claimed
           => Cardinality(Claimed') = Cardinality(Claimed) + 1
    BY <2>1, <2>3, GrowsByOne
  <2>5. Granting' \subseteq Granting \cup {r}  BY GrantingGrows
  <2>6. /\ IsFiniteSet(Granting') /\ Cardinality(Granting') \in Nat
           /\ Cardinality(Granting) \in Nat
        /\ Cardinality(Granting') <= Cardinality(Granting) + 1
        /\ Granting' \subseteq Granting => Cardinality(Granting') <= Cardinality(Granting)
        /\ r \in Granting /\ Granting' \subseteq Granting \ {r}
           => Cardinality(Granting') <= Cardinality(Granting) - 1
    BY <2>1, <2>5, GrowsByOne
  <2>7. CASE Bonus(r)
    <3>1. Cardinality(Granting') <= Cardinality(Granting) - 1  BY <2>6, <2>7, GrantingGrows
    <3>2. Cardinality(Given') = Cardinality(Given) + 1  BY <1>5, <1>6, <2>7
    <3> QED BY <2>1, <2>2, <2>4, <2>6, <3>1, <3>2
  <2>8. CASE ~Bonus(r)
    <3>1. Cardinality(Given') = Cardinality(Given)  BY <1>5, <1>6, <2>8
    <3>2. CASE Granting' \subseteq Granting
      BY <2>1, <2>2, <2>4, <2>6, <3>1, <3>2
    <3>3. CASE job[r].row \in Claimed' /\ job[r].row \notin Claimed
      BY <2>1, <2>2, <2>4, <2>6, <3>1, <3>3
    <3> QED BY <3>2, <3>3, GrantingGrows
  <2> QED BY <2>7, <2>8
<1> QED BY <1>1, <1>2, <1>3, <1>5, <1>6 DEF BonusInv

\* A handler that begins has brought nothing about yet.
LEMMA BegunKeepsBonuses ==
  ASSUME BonusInv, NEW r \in Req, HasBegun(r)
  PROVE  BonusInv'
<1>1. PICK j : /\ Begin(r, j) /\ IsJob(j)
               /\ \/ BegunOnPeriod(j)
                  \/ BegunOnAdvance(j)
                  \/ BegunOnRequest(j)
                  \/ BegunOnPage(j)
  BY DEF HasBegun
<1>2. Placed' /\ Placed  BY BegunKeepsPlaced DEF BonusInv
<1>3. /\ job'[r] = j /\ \A q \in Req : q # r => job'[q] = job[q]
      /\ UNCHANGED <<adjustment, request, scenario>> /\ job[r] = Idle
  BY <1>1, <1>2 DEF Begin, Placed, rows
<1>4. Enters(j.kind, Head(j.todo))  BY <1>1, <1>2, EntersAt
<1>5. \A t : At(r, t)' => Enters(j.kind, t)  BY <1>3, <1>4 DEF At
<1>6. OnEffect(r)'
  <2>1. ASSUME At(r, "claim")' PROVE j.todo = Effect(request[j.row].kind)
    <3>1. j.kind = "approve_change"  BY <1>5, <2>1 DEF Enters
    <3> QED BY <1>1, <3>1 DEF BegunOnPeriod, BegunOnAdvance, BegunOnRequest, BegunOnPage
  <2>2. ASSUME At(r, "decide")' PROVE j.to # "applied"
    <3>1. j.kind = "decide"  BY <1>5, <2>2 DEF Enters
    <3>2. \E d \in DOMAIN StatusAfter : j.to = StatusAfter[d]
      BY <1>1, <3>1 DEF BegunOnPeriod, BegunOnAdvance, BegunOnRequest, BegunOnPage
    <3> QED BY <3>2 DEF StatusAfter
  <2>3. \A t \in {"bonus", "overrides", "override", "effective", "auto", "pending",
          "release"} : ~At(r, t)'
    BY <1>5 DEF Enters
  <2>4. ASSUME At(r, "version")' PROVE request[j.row].kind = "future"
    <3>1. j.kind = "materialize"  BY <1>5, <2>4 DEF Enters
    <3> QED BY <1>1, <3>1 DEF BegunOnPeriod, BegunOnAdvance, BegunOnRequest, BegunOnPage
  <2> QED BY <1>3, <2>1, <2>2, <2>3, <2>4 DEF OnEffect
<1>7. ASSUME NEW q \in Req, q # r PROVE OnEffect(q)'
  BY <1>3, <1>7 DEF BonusInv, OnEffect, At
<1>8. AdjustmentRows'
  <2>1. j.kind = "cancel_adjustment" => j.row \in Adjustment /\ adjustment[j.row] # NoRow
    BY <1>1 DEF BegunOnPeriod, BegunOnAdvance, BegunOnRequest, BegunOnPage, NoRow
  <2>2. \A q \in Req : job'[q].kind = "cancel_adjustment" =>
          job'[q].row \in Adjustment /\ adjustment'[job'[q].row] # NoRow
    BY <1>3, <2>1 DEF BonusInv, AdjustmentRows
  <2> QED BY <1>3, <2>2 DEF BonusInv, AdjustmentRows
<1>9. Given' = Given /\ Claimed' = Claimed  BY <1>3 DEF Given, Claimed
<1>10. Granting' \subseteq Granting
  <2>1. ~At(r, "bonus")'  BY <1>5 DEF Enters
  <2> QED BY <1>3, <2>1 DEF Granting, At
<1>11. Granted' \subseteq Granted
  <2>1. ~Brought(r)'
    <3>1. ASSUME Brought(r)' PROVE FALSE
      <4>1. PICK t \in {"sum", "total", "applied"} : At(r, t)'  BY <3>1 DEF Brought
      <4> QED BY <1>5, <4>1 DEF Enters
    <3> QED BY <3>1
  <2>2. \A q \in Req : q # r /\ Brought(q)' => Brought(q) /\ job'[q].row = job[q].row
    BY <1>3 DEF Brought, At
  <2> QED BY <1>3, <2>1, <2>2 DEF Granted
<1>12. ASSUME "adjust" \notin scenario.calls
       PROVE  IsFiniteSet(Granted') /\ Cardinality(Granted') <= Cardinality(Given')
  <2>1. IsFiniteSet(Granted) /\ IsFiniteSet(Given) /\ Cardinality(Granted) <= Cardinality(Given)
    BY <1>12 DEF BonusInv
  <2>2. /\ IsFiniteSet(Granted') /\ Cardinality(Granted') <= Cardinality(Granted)
        /\ Cardinality(Granted') \in Nat /\ Cardinality(Granted) \in Nat
    BY <1>11, <2>1, GrowsByOne
  <2>3. Cardinality(Given) \in Nat  BY <2>1, FS_CardinalityType
  <2> QED BY <1>9, <2>1, <2>2, <2>3
<1>13. ASSUME "adjust" \notin scenario.calls, "failure" \notin scenario.calls
       PROVE  /\ IsFiniteSet(Granting')
              /\ Cardinality(Given') + Cardinality(Granting') <= Cardinality(Claimed')
  <2>1. /\ IsFiniteSet(Granting) /\ IsFiniteSet(Claimed) /\ IsFiniteSet(Given)
        /\ Cardinality(Given) + Cardinality(Granting) <= Cardinality(Claimed)
    BY <1>13 DEF BonusInv
  <2>2. /\ IsFiniteSet(Granting') /\ Cardinality(Granting') <= Cardinality(Granting)
        /\ Cardinality(Granting') \in Nat /\ Cardinality(Granting) \in Nat
    BY <1>10, <2>1, GrowsByOne
  <2>3. Cardinality(Given) \in Nat /\ Cardinality(Claimed) \in Nat  BY <2>1, FS_CardinalityType
  <2> QED BY <1>9, <2>1, <2>2, <2>3
<1> QED BY <1>2, <1>3, <1>6, <1>7, <1>8, <1>9, <1>12, <1>13 DEF BonusInv

\* At the start nothing was asked for.
LEMMA InitBonuses == Init => BonusInv
<1> SUFFICES ASSUME Init PROVE BonusInv  OBVIOUS
<1>1. Placed  BY InitPlaced
<1>2. /\ adjustment = [i \in Adjustment |-> NoRow] /\ job = [r \in Req |-> Idle]
      /\ request = [q \in Request |-> NoRequest]
  BY DEF Init
<1>3. \A r \in Req : job[r].kind = "none" /\ \A t : ~At(r, t)  BY <1>2 DEF At, Idle
<1>4. AdjustmentRows  BY <1>2, <1>3 DEF AdjustmentRows, IsAdjustment, NoRow
<1>5. \A r \in Req : OnEffect(r)  BY <1>3 DEF OnEffect
<1>6. Given = {} /\ Granted = {} /\ Claimed = {} /\ Granting = {}
  BY <1>2, <1>3 DEF Given, Granted, Claimed, Granting, NoRequest
<1>7. IsFiniteSet({}) /\ Cardinality({}) = 0  BY FS_EmptySet
<1>8. \A q \in Request : request[q].claimed \in BOOLEAN  BY <1>2 DEF NoRequest
<1> QED BY <1>1, <1>4, <1>5, <1>6, <1>7, <1>8 DEF BonusInv

\* Every step keeps count.
LEMMA NextKeepsBonuses ==
  ASSUME BonusInv, [Next]_vars
  PROVE  BonusInv'
<1>1. ASSUME NEW r \in Req, HasBegun(r) PROVE BonusInv'  BY <1>1, BegunKeepsBonuses
<1>2. ASSUME NEW r \in Req, Statement(r) PROVE BonusInv'  BY <1>2, StatementKeepsBonuses
<1>3. ASSUME UNCHANGED vars PROVE BonusInv'
  <2>1. UNCHANGED <<scenario, job, adjustment, request>> /\ Placed'
    BY <1>3, NextKeepsPlaced DEF vars, rows, BonusInv
  <2>2. Given' = Given /\ Granted' = Granted /\ Claimed' = Claimed /\ Granting' = Granting
    BY <2>1 DEF Given, Granted, Claimed, Granting, Brought, At
  <2>3. AdjustmentRows'  BY <2>1 DEF BonusInv, AdjustmentRows
  <2>4. \A r \in Req : OnEffect(r)'  BY <2>1 DEF BonusInv, OnEffect, At
  <2> QED BY <2>1, <2>2, <2>3, <2>4 DEF BonusInv
<1> QED BY <1>1, <1>2, <1>3, NextIs

(* Whatever the interleaving, and whichever process crashes, a request for *)
(* a bonus that says it was applied has left one, and a request approved   *)
(* twice leaves at most one unless a statement of its approval failed.     *)
THEOREM BonusesAreAsked == Spec => []BonusesFollowRequests
<1>1. Init => BonusInv  BY InitBonuses
<1>2. BonusInv /\ [Next]_vars => BonusInv'  BY NextKeepsBonuses
<1>3. BonusInv => BonusesFollowRequests
  <2> SUFFICES ASSUME BonusInv, "adjust" \notin scenario.calls
               PROVE  /\ Cardinality({q \in Request : request[q].kind = "bonus"
                                                      /\ request[q].status = "applied"})
                         <= Cardinality(Given)
                      /\ "failure" \notin scenario.calls =>
                           Cardinality(Given) <= Cardinality({q \in Request :
                                             request[q].kind = "bonus" /\ request[q].claimed})
    BY DEF BonusesFollowRequests, Given
  <2> DEFINE Applied == {q \in Request : request[q].kind = "bonus"
      /\ request[q].status = "applied"}
             Asked == {q \in Request : request[q].kind = "bonus" /\ request[q].claimed}
  <2>1. IsFiniteSet(Given) /\ IsFiniteSet(Granted) /\ Cardinality(Granted) <= Cardinality(Given)
    BY DEF BonusInv
  <2>2. Applied \subseteq Granted  BY DEF Granted
  <2>3. /\ Cardinality(Applied) <= Cardinality(Granted)
        /\ Cardinality(Applied) \in Nat /\ Cardinality(Granted) \in Nat
    BY <2>1, <2>2, GrowsByOne
  <2>4. Cardinality(Given) \in Nat  BY <2>1, FS_CardinalityType
  <2>5. ASSUME "failure" \notin scenario.calls PROVE Cardinality(Given) <= Cardinality(Asked)
    <3>1. Asked = Claimed
      <4>1. \A q \in Request : request[q].claimed <=> request[q].claimed = TRUE  BY DEF BonusInv
      <4> QED BY <4>1 DEF Claimed
    <3>2. /\ IsFiniteSet(Claimed) /\ IsFiniteSet(Granting)
          /\ Cardinality(Given) + Cardinality(Granting) <= Cardinality(Claimed)
      BY <2>5 DEF BonusInv
    <3>3. Cardinality(Granting) \in Nat /\ Cardinality(Claimed) \in Nat
      BY <3>2, FS_CardinalityType
    <3>4. Cardinality(Given) <= Cardinality(Claimed)  BY <2>4, <3>2, <3>3
    <3>5. Cardinality(Asked) = Cardinality(Claimed)  BY <3>1
    <3> HIDE DEF Asked
    <3> QED BY <3>4, <3>5
  <2> QED BY <2>1, <2>3, <2>4, <2>5
<1> QED BY <1>1, <1>2, <1>3, PTL DEF Spec

-----------------------------------------------------------------------------
(* The totals of a calculation, where one request is handled at a time and *)
(* none is broken off.                                                     *)

Calm == OneSlot /\ "crash" \notin scenario.calls /\ "failure" \notin scenario.calls

HasCalc == calc # NoCalc

\* What is accrued, and what was received, by the rows.
Accrued(c, given) == c.auto + StatusTotal(given, "approved")

Received(a, shares, p) ==
  AdvancePaid(a.status, a.amount, \E k \in Tranche : shares[k].status # "none",
              StatusTotal(shares, "paid"))
  + StatusTotal(p, "confirmed")

LEMMA AccruedByRows == AccruedNet(calc.auto) = Accrued(calc, adjustment)
BY AccruedIs DEF Accrued

LEMMA ReceivedByRows ==
  ASSUME NEW a, NEW p
  PROVE  PaidTotal(a, p) = Received(a, tranche, p)
BY TranchesAre, ConfirmedIs DEF PaidTotal, AdvancePart, AnyTranche, Received

\* A calculation, once there, stays, and it is no draft while the period is
\* approved; what refers to it is there only with it.
CalcRows ==
  /\ IsCalc(calc) /\ (calc.status = "none" => calc = NoCalc)
  /\ (\E q \in Request : request[q] # NoRequest) => HasCalc
  /\ (\E k \in Key : payment[k] # NoRow) => HasCalc
  /\ IsLocked(period) => calc.status # "draft"

\* What a handler knows of the calculation.
OnCalc(r) ==
  /\ job[r].kind \in {"payment", "propose"} => HasCalc
  /\ At(r, "total") \/ At(r, "debt") \/ At(r, "shut") => HasCalc
  /\ At(r, "issue") \/ At(r, "payout") => (job[r].found <=> HasCalc)
  /\ job[r].kind = "generate" => ~IsLocked(period)
  /\ At(r, "seed") => job[r].amount = 0 \/ First(job[r].todo, "seed", <<"sum", "total">>)
  /\ At(r, "move") => /\ IsLocked(job[r].to) => calc.status # "draft"
                      /\ First(job[r].todo, "move", <<"remainder", "debt", "shut">>) =>
                           job[r].to = "closed"
  /\ At(r, "remainder") \/ At(r, "debt") \/ At(r, "shut") => IsLocked(period)

\* An advance that was recorded as paid, and whose money is yet to go out.
Pending(r) == job[r].kind = "employee_advance" /\ (At(r, "fold") \/ At(r, "payout"))

AdvanceStands ==
  /\ advance.status \in {"none", "requested", "approved", "paid", "canceled"}
  /\ advance.status = "none" => advance = NoAdvance /\ ~AnyTranche
  /\ advance.amount <= advance.approved
  /\ advance.status = "paid" /\ advance.expense = None => AnyTranche \/ \E r \in Req : Pending(r)

PaidAtOnce(j) == [status |-> "paid", amount |-> j.amount]

\* What a handler knows of the advance, and of the totals it will write.
OnBook(r) ==
  /\ Pending(r) \/ job[r].kind = "approve_advance" => advance.amount = job[r].amount
  /\ At(r, "raise") => /\ advance # NoAdvance
                       /\ job[r].to = IF advance.status = "canceled" THEN "canceled" ELSE "approved"
  /\ job[r].kind = "reverse_tranche" /\ HasCalc =>
       /\ At(r, "refund") => First(job[r].todo, "refund", <<"reverse", "sum", "total">>)
       /\ At(r, "reverse") => First(job[r].todo, "reverse", <<"sum", "total">>)
  /\ At(r, "total") => /\ job[r].net = Accrued(calc, adjustment)
                       /\ job[r].paid = Received(advance, tranche, payment)
  /\ At(r, "issue") \/ At(r, "payout") =>
       /\ job[r].net = Accrued(calc, adjustment)
       /\ job[r].paid = Received(PaidAtOnce(job[r]), tranche, payment)
  /\ InTime(r) =>
       /\ job[r].net = Accrued(calc, adjustment)
       /\ job[r].kind = "payment" =>
            job[r].paid = Received(advance, tranche,
              [payment EXCEPT ![job[r].row] = [status |-> "confirmed", amount |-> job[r].amount]])
       /\ job[r].kind = "reversal" =>
            job[r].paid = Received(advance, tranche,
              [payment EXCEPT ![job[r].row].status = "canceled"])

Right == /\ calc.net = Accrued(calc, adjustment)
         /\ calc.paid = Received(advance, tranche, payment)

Computed == calc.status \notin {"none", "draft"}

\* The totals are those of the rows, unless a handler is about to write them.
TotalsAgree ==
  Computed /\ ~Raised =>
    Right \/ \E r \in Req : At(r, "sum") \/ At(r, "total") \/ Pending(r)

BookInv ==
  /\ PaymentInv /\ TrancheInv
  /\ Calm => CalcRows /\ AdvanceStands /\ TotalsAgree /\ \A r \in Req : OnCalc(r) /\ OnBook(r)

\* An idle slot knows nothing.
LEMMA IdleKnows ==
  ASSUME NEW r, job[r] = Idle
  PROVE  OnCalc(r) /\ OnBook(r) /\ ~Pending(r) /\ \A t : ~At(r, t)
<1>1. \A t : ~At(r, t)  BY DEF At, Idle
<1>2. job[r].kind = "none"  BY DEF Idle
<1> QED BY <1>1, <1>2 DEF OnCalc, OnBook, Pending, InTime

\* The statements that write the rows the totals are made of.
WritesBook(r) ==
  \/ Seed(r) \/ Inputs(r) \/ Lock(r) \/ Shut(r) \/ Adjust(r) \/ CancelAdjustment(r)
  \/ CommitPayment(r) \/ CommitReversal(r) \/ Total(r) \/ Bonus(r)
  \/ WriteOverrides(r) \/ WriteAuto(r) \/ WritesAdvance(r)

\* The other statements leave them as they are.
LEMMA BookStays ==
  ASSUME NEW r \in Req, Statement(r), ~WritesBook(r)
  PROVE  UNCHANGED <<calc, adjustment, payment, advance, tranche>>
<1>1. ASSUME
      \/ Create(r) \/ MovePeriod(r) \/ Bill(r) \/ Owe(r) \/ Remainder(r) \/ OpenDebt(r)
      \/ StartPayment(r) \/ StartReversal(r) \/ Retry(r) \/ Repay(r) \/ Settle(r) \/ WriteOff(r)
      PROVE UNCHANGED <<calc, adjustment, payment, advance, tranche>>
  BY <1>1 DEF Create, MovePeriod, Bill, Owe, Remainder, OpenDebt, StartPayment, StartReversal,
     Retry, Repay, Settle, WriteOff, rows
<1>2. ASSUME
      \/ Fold(r) \/ Ceiling(r) \/ Propose(r) \/ Decide(r) \/ Claim(r) \/ ReadOverrides(r)
      \/ ReadEffective(r) \/ MarkApplied(r) \/ MarkPending(r) \/ Materialize(r)
      \/ FailApproval(r) \/ Release(r) \/ Sum(r) \/ Refund(r) \/ RewriteExpense(r) \/ Crash(r)
      PROVE UNCHANGED <<calc, adjustment, payment, advance, tranche>>
  BY <1>2 DEF Fold, Ceiling, Propose, Decide, Claim, ReadOverrides, ReadEffective, MarkApplied,
     MarkPending, MarkRequest, Materialize, FailApproval, Release, Sum, Refund,
     RewriteExpense, Crash, rows
<1> QED BY <1>1, <1>2 DEF Statement, WritesBook, WritesAdvance

\* What a statement leaves of the calculation.
CalcKept(r) ==
  /\ IsCalc(calc') /\ (calc'.status = "none" => calc' = NoCalc)
  /\ HasCalc => HasCalc'
  /\ calc'.status = "draft" => calc.status = "draft" \/ Seed(r)

\* A calculation that is there is written with its status, or with a later one.
LEMMA WrittenCalc ==
  ASSUME NEW r, IsCalc(calc'),
         \/ calc'.status \in {"calculated", "approved", "closed"}
         \/ calc'.status = calc.status /\ calc.status # "none"
  PROVE  CalcKept(r)
<1>1. calc'.status # "none"  OBVIOUS
<1>2. HasCalc'  BY <1>1 DEF HasCalc, NoCalc
<1> QED BY <1>1, <1>2 DEF CalcKept

\* Whose handlers work on a request, work on a calculation.
LEMMA OnRequestHasCalc ==
  ASSUME Placed, CalcRows, NEW r \in Req, job[r].kind \in OnRequest
  PROVE  HasCalc
<1>1. job[r].row \in Request /\ request[job[r].row].kind \in ChangeKind
  BY DEF Placed, HasTarget
<1>2. request[job[r].row] # NoRequest  BY <1>1 DEF ChangeKind, NoRequest
<1> QED BY <1>1, <1>2 DEF CalcRows

\* Every statement keeps the calculation.
LEMMA StatementKeepsCalc ==
  ASSUME PaymentInv, CalcRows, NEW r \in Req, OnCalc(r), Statement(r)
  PROVE  CalcKept(r)
<1>1. Placed /\ IsCalc(calc) /\ (calc.status = "none" => calc = NoCalc) /\ OnPayments(r)
  BY DEF PaymentInv, CalcRows
<1>2. CASE UNCHANGED calc  BY <1>1, <1>2 DEF CalcKept, HasCalc
<1>3. ASSUME HasCalc, calc' = Retotalled(job[r]) PROVE CalcKept(r)
  <2>1. IsCalc(calc') /\ calc'.status = calc.status  BY <1>1, <1>3, RetotalledIs
  <2>2. calc.status # "none"  BY <1>1, <1>3 DEF HasCalc
  <2> QED BY <2>1, <2>2, WrittenCalc
<1>4. CASE Seed(r)
  <2>1. CASE calc' = calc  BY <1>2, <2>1
  <2>2. CASE calc' # calc
    <3>1. PICK a, st : /\ st \in {"draft", "calculated"}
                       /\ calc' = [NoCalc EXCEPT !.auto = a, !.status = st]
      BY <1>4, <2>2 DEF Seed
    <3>2. IsCalc(calc') /\ calc'.status = st  BY <3>1 DEF NoCalc, IsCalc
    <3>3. calc'.status # "none"  BY <3>1, <3>2
    <3>4. HasCalc'  BY <3>3 DEF HasCalc, NoCalc
    <3> QED BY <1>4, <3>2, <3>3, <3>4 DEF CalcKept
  <2> QED BY <2>1, <2>2
<1>5. CASE Inputs(r)
  <2>1. PICK b, a : calc' = [calc EXCEPT !.status = "calculated", !.base = b, !.auto = a]
    BY <1>5 DEF Inputs
  <2>2. IsCalc(calc') /\ calc'.status = "calculated"  BY <1>1, <2>1 DEF IsCalc
  <2> QED BY <2>2, WrittenCalc
<1>6. CASE Lock(r)
  <2>1. calc' = calc \/ calc' = [calc EXCEPT !.status = "approved"]  BY <1>6 DEF Lock
  <2>2. CASE calc' = [calc EXCEPT !.status = "approved"]
    <3>1. IsCalc(calc') /\ calc'.status = "approved"  BY <1>1, <2>2 DEF IsCalc
    <3> QED BY <3>1, WrittenCalc
  <2> QED BY <1>2, <2>1, <2>2
<1>7. CASE Shut(r)
  <2>1. calc' = [calc EXCEPT !.status = "closed"]  BY <1>7 DEF Shut
  <2>2. IsCalc(calc') /\ calc'.status = "closed"  BY <1>1, <2>1 DEF IsCalc
  <2> QED BY <2>2, WrittenCalc
<1>8. CASE CommitPayment(r)
  <2>1. job[r].kind = "payment" /\ calc' = Retotalled(job[r])  BY <1>8 DEF CommitPayment
  <2>2. HasCalc  BY <2>1 DEF OnCalc
  <2> QED BY <1>3, <2>1, <2>2
<1>9. CASE CommitReversal(r)
  <2>1. job[r].kind = "reversal" /\ calc' = Retotalled(job[r]) /\ InTime(r)
    BY <1>9 DEF CommitReversal, InTime
  <2>2. job[r].row \in Key /\ payment[job[r].row].status = "confirmed"
    BY <1>1, <2>1 DEF OnPayments
  <2>3. HasCalc  BY <2>2 DEF CalcRows, NoRow
  <2> QED BY <1>3, <2>1, <2>3
<1>10. CASE Total(r)
  <2>1. At(r, "total") /\ calc' = Retotalled(job[r])  BY <1>10 DEF Total
  <2>2. HasCalc  BY <2>1 DEF OnCalc
  <2> QED BY <1>3, <2>1, <2>2
<1>11. CASE WriteOverrides(r) \/ WriteAuto(r)
  <2>1. PICK t \in {"override", "auto"} : At(r, t)  BY <1>11 DEF WriteOverrides, WriteAuto
  <2>2. PICK rest : Course(job[r].kind, t, rest)  BY <1>1, <2>1, AtStep
  <2>3. job[r].kind \in OnRequest  BY <2>2 DEF Course, OnRequest
  <2>4. HasCalc  BY <1>1, <2>3, OnRequestHasCalc
  <2>5. calc.status # "none"  BY <1>1, <2>4 DEF HasCalc
  <2>6. PICK x, a : calc' = [calc EXCEPT !.overrides = x] \/ calc' = [calc EXCEPT !.auto = a]
    BY <1>11 DEF WriteOverrides, WriteAuto
  <2>7. CASE calc' = [calc EXCEPT !.overrides = x]
    <3>1. IsCalc(calc') /\ calc'.status = calc.status  BY <1>1, <2>7 DEF IsCalc
    <3> QED BY <2>5, <3>1, WrittenCalc
  <2>8. CASE calc' = [calc EXCEPT !.auto = a]
    <3>1. IsCalc(calc') /\ calc'.status = calc.status  BY <1>1, <2>8 DEF IsCalc
    <3> QED BY <2>5, <3>1, WrittenCalc
  <2> QED BY <2>6, <2>7, <2>8
<1>12. CASE Issue(r) \/ PayAdvance(r)
  <2>1. At(r, "issue") \/ At(r, "payout")  BY <1>12 DEF Issue, PayAdvance
  <2>2. job[r].found <=> HasCalc  BY <2>1 DEF OnCalc
  <2>3. calc' = calc \/ calc' = Folded(r)  BY <1>12 DEF Issue, PayAdvance
  <2>4. calc' = calc \/ (HasCalc /\ calc' = Retotalled(job[r]))  BY <2>2, <2>3 DEF Folded
  <2> QED BY <1>2, <1>3, <2>4
<1>13. CASE \/ Adjust(r) \/ CancelAdjustment(r) \/ Bonus(r) \/ RequestAdvance(r)
            \/ RecordAdvance(r) \/ CancelAdvance(r) \/ ApproveAmount(r) \/ Raise(r)
            \/ PayTranche(r) \/ ReverseTranche(r)
  <2>1. UNCHANGED calc
    BY <1>13 DEF Adjust, CancelAdjustment, Bonus, RequestAdvance, RecordAdvance, CancelAdvance,
       ApproveAmount, Insert, Raise, PayTranche, ReverseTranche
  <2> QED BY <1>2, <2>1
<1> QED BY <1>2, <1>4, <1>5, <1>6, <1>7, <1>8, <1>9, <1>10, <1>11, <1>12, <1>13, BookStays
      DEF WritesBook, WritesAdvance

\* Only the payment service writes payments.
LEMMA PaymentsStay ==
  ASSUME Placed, NEW r \in Req, Statement(r), ~CommitPayment(r), ~CommitReversal(r)
  PROVE  payment' = payment
<1>1. CASE OffLedger(r)  BY <1>1, OffLedgerIs
<1>2. CASE StartPayment(r) \/ StartReversal(r) \/ Retry(r) \/ Crash(r)
  BY <1>2 DEF StartPayment, StartReversal, Retry, Crash, rows
<1> QED BY <1>1, <1>2 DEF Statement, OffLedger

\* The period is written by its transitions only.
LEMMA PeriodStays ==
  ASSUME NEW r \in Req, Statement(r), ~Create(r), ~MovePeriod(r)
  PROVE  period' = period
<1>1. ASSUME
      \/ Seed(r) \/ Inputs(r) \/ Lock(r) \/ Bill(r) \/ Owe(r) \/ Remainder(r) \/ OpenDebt(r)
      \/ Shut(r) \/ Adjust(r) \/ CancelAdjustment(r) \/ StartPayment(r) \/ CommitPayment(r)
      \/ StartReversal(r) \/ CommitReversal(r) \/ Retry(r) \/ Repay(r) \/ Settle(r) \/ WriteOff(r)
      PROVE period' = period
  BY <1>1 DEF Seed, Inputs, Lock, Bill, Owe, Remainder, OpenDebt, Shut, Adjust,
     CancelAdjustment, StartPayment, CommitPayment, StartReversal, CommitReversal, Retry, Repay,
     Settle, WriteOff, rows
<1>2. ASSUME
      \/ Fold(r) \/ Issue(r) \/ RequestAdvance(r) \/ RecordAdvance(r) \/ PayAdvance(r)
      \/ CancelAdvance(r) \/ ApproveAmount(r) \/ Raise(r) \/ Ceiling(r) \/ PayTranche(r)
      \/ ReverseTranche(r) \/ Sum(r) \/ Total(r) \/ Refund(r) \/ RewriteExpense(r) \/ Crash(r)
      PROVE period' = period
  BY <1>2 DEF Fold, Issue, RequestAdvance, RecordAdvance, PayAdvance, CancelAdvance,
     ApproveAmount, Insert, Raise, Ceiling, PayTranche, ReverseTranche, Sum, Total, Refund,
     RewriteExpense, Crash,
     rows
<1>3. ASSUME
      \/ Propose(r) \/ Decide(r) \/ Claim(r) \/ Bonus(r) \/ ReadOverrides(r)
      \/ WriteOverrides(r) \/ ReadEffective(r) \/ WriteAuto(r) \/ MarkApplied(r)
      \/ MarkPending(r) \/ Materialize(r) \/ FailApproval(r) \/ Release(r)
      PROVE period' = period
  BY <1>3 DEF Propose, Decide, Claim, Bonus, ReadOverrides, WriteOverrides, ReadEffective,
     WriteAuto, MarkApplied, MarkPending, MarkRequest, Materialize, FailApproval, Release, rows
<1> QED BY <1>1, <1>2, <1>3 DEF Statement

\* The period is locked only with a calculation that was computed.
LEMMA StatementKeepsLock ==
  ASSUME PaymentInv, CalcRows, NEW r \in Req, OnCalc(r), Statement(r), IsLocked(period')
  PROVE  calc'.status # "draft"
<1>1. Placed /\ CalcKept(r)  BY StatementKeepsCalc DEF PaymentInv
<1>2. CASE Seed(r)
  <2>1. At(r, "seed") /\ period' = period  BY <1>2 DEF Seed
  <2>2. PICK rest : Course(job[r].kind, "seed", rest)  BY <1>1, <2>1, AtStep
  <2>3. job[r].kind = "generate"  BY <2>2 DEF Course
  <2> QED BY <2>1, <2>3 DEF OnCalc
<1>3. CASE Create(r)
  <2>1. period' = period \/ period' = "draft"  BY <1>3 DEF Create
  <2>2. period' = period /\ ~Seed(r)  BY <1>3, <2>1 DEF IsLocked, Seed, Create, At
  <2> QED BY <1>1, <2>2 DEF CalcKept, CalcRows
<1>4. CASE MovePeriod(r)
  <2>1. At(r, "move") /\ period' = job[r].to /\ ~Seed(r)  BY <1>4 DEF MovePeriod, Seed, At
  <2>2. calc.status # "draft"  BY <2>1 DEF OnCalc
  <2> QED BY <1>1, <2>1, <2>2 DEF CalcKept
<1>5. CASE ~Seed(r) /\ ~Create(r) /\ ~MovePeriod(r)
  <2>1. period' = period  BY <1>5, PeriodStays
  <2> QED BY <1>1, <1>5, <2>1 DEF CalcKept, CalcRows
<1> QED BY <1>2, <1>3, <1>4, <1>5

\* Every statement keeps these rows.
LEMMA StatementKeepsCalcRows ==
  ASSUME PaymentInv, CalcRows, NEW r \in Req, OnCalc(r), Statement(r)
  PROVE  CalcRows'
<1>1. Placed /\ CalcKept(r) /\ OnPayments(r)  BY StatementKeepsCalc DEF PaymentInv
<1>2. ASSUME NEW q \in Request, request'[q] # NoRequest PROVE HasCalc'
  <2>1. CASE request[q] # NoRequest  BY <1>1, <2>1 DEF CalcRows, CalcKept
  <2>2. CASE request[q] = NoRequest
    <3>1. request'[q] # request[q]  BY <1>2, <2>2
    <3>2. Rewrites(r, q)  BY <1>1, <3>1, RequestStep
    <3>3. ~(request[q].kind \in ChangeKind)  BY <2>2 DEF NoRequest, ChangeKind
    <3>4. Propose(r)  BY <3>2, <3>3 DEF Rewrites
    <3>5. At(r, "propose")  BY <3>4 DEF Propose
    <3>6. PICK rest : Course(job[r].kind, "propose", rest)  BY <1>1, <3>5, AtStep
    <3>7. job[r].kind = "propose"  BY <3>6 DEF Course
    <3> QED BY <1>1, <3>7 DEF OnCalc, CalcKept
  <2> QED BY <2>1, <2>2
<1>3. ASSUME NEW k \in Key, payment'[k] # NoRow PROVE HasCalc'
  <2>1. CASE CommitPayment(r)
    <3>1. job[r].kind = "payment"  BY <2>1 DEF CommitPayment
    <3> QED BY <1>1, <3>1 DEF OnCalc, CalcKept
  <2>2. CASE CommitReversal(r)
    <3>1. job[r].kind = "reversal" /\ InTime(r)  BY <2>2 DEF CommitReversal, InTime
    <3>2. job[r].row \in Key /\ payment[job[r].row].status = "confirmed"
      BY <1>1, <3>1 DEF OnPayments
    <3> QED BY <1>1, <3>2 DEF CalcRows, CalcKept, NoRow
  <2>3. CASE ~CommitPayment(r) /\ ~CommitReversal(r)
    <3>1. payment' = payment  BY <1>1, <2>3, PaymentsStay
    <3> QED BY <1>1, <1>3, <3>1 DEF CalcRows, CalcKept
  <2> QED BY <2>1, <2>2, <2>3
<1>4. IsLocked(period') => calc'.status # "draft"  BY StatementKeepsLock
<1> QED BY <1>1, <1>2, <1>3, <1>4 DEF CalcRows, CalcKept, HasCalc, IsLocked

\* The other handlers do nothing, and go on doing nothing.
LEMMA OthersAreIdle ==
  ASSUME Placed, OneSlot, NEW r \in Req, Statement(r), NEW q \in Req, q # r
  PROVE  job[q] = Idle /\ job'[q] = Idle /\ job'[q].kind = "none" /\ \A t : ~At(q, t)'
<1>1. r \in scenario.slots /\ OthersStay(r)  BY StatementSteps DEF Stepped, UnderWay
<1>2. job[q] = Idle  BY <1>1, OthersIdle
<1>3. ~At(q, "commit")  BY <1>2 DEF At, Idle
<1>4. job'[q] = Idle  BY <1>1, <1>2, <1>3 DEF OthersStay
<1> QED BY <1>2, <1>4 DEF Idle, At

\* A calculation that is not there leaves nothing to owe.
LEMMA NothingLeft == Left.amount # 0 => HasCalc
<1> SUFFICES ASSUME calc = NoCalc PROVE Left.amount = 0  BY DEF HasCalc
<1>1. calc.net = 0 /\ calc.paid = 0  BY NoCalcIs
<1> QED BY <1>1 DEF Left, ObligationFromRemaining

\* What a payout notes: whether there is a calculation.
LEMMA FoldNotes ==
  ASSUME Placed, NEW r \in Req, Fold(r), job'[r] # Idle
  PROVE  /\ (job'[r].found <=> HasCalc) /\ job'[r].amount = job[r].amount
         /\ job'[r].net = AccruedNet(calc.auto)
         /\ job'[r].paid = PaidTotal(Row("paid", job[r], None), payment)
<1>1. At(r, "fold") /\ IsJob(job[r])  BY DEF Fold, Placed
<1>2. PICK a : a = Row("paid", job[r], None)  OBVIOUS
<1>3. PICK s : s = Summed(job[r], a, payment)  OBVIOUS
<1>4. /\ IsJob(s) /\ s.todo = job[r].todo /\ s.amount = job[r].amount
      /\ s.net = AccruedNet(calc.auto) /\ s.paid = PaidTotal(a, payment)
  BY <1>1, <1>3, SummedIs
<1>5. PICK b \in BOOLEAN : (b <=> HasCalc) /\ b = (calc # NoCalc)  BY DEF HasCalc
<1>6. PICK j : j = [s EXCEPT !.found = b] /\ Set(r, Rest(j))  BY <1>2, <1>3, <1>5 DEF Fold
<1>7. /\ IsJob(j) /\ j.todo = job[r].todo /\ j.found = b /\ j.amount = job[r].amount
      /\ j.net = s.net /\ j.paid = s.paid
  BY <1>4, <1>6 DEF IsJob
<1>8. PICK rest : First(job[r].todo, "fold", rest)  BY <1>1, AtStep
<1>9. job'[r] = Rest(j)  BY <1>6, SetIs
<1>10. Carries(Rest(j), j, rest)  BY <1>7, <1>8, <1>9, Remnant
<1>11. job'[r].found = b /\ job'[r].amount = j.amount /\ job'[r].net = j.net
       /\ job'[r].paid = j.paid
  BY <1>7, <1>9, <1>10 DEF Carries
<1>12. job'[r].found <=> HasCalc  BY <1>5, <1>11
<1> QED BY <1>2, <1>4, <1>7, <1>11, <1>12

\* After a statement the handlers still know the calculation.
LEMMA StatementKeepsOnCalc ==
  ASSUME PaymentInv, OneSlot, CalcRows, NEW r \in Req, OnCalc(r), Statement(r), NEW q \in Req
  PROVE  OnCalc(q)'
<1>1. Placed /\ CalcKept(r)  BY StatementKeepsCalc DEF PaymentInv
<1>2. CASE q # r
  <2>1. job'[q].kind = "none" /\ \A t : ~At(q, t)'  BY <1>1, <1>2, OthersAreIdle
  <2> QED BY <2>1 DEF OnCalc
<1>3. CASE q = r
  <2>1. job'[r].kind \in {"payment", "propose"} => HasCalc'
    <3>1. CASE job'[r] = Idle  BY <3>1 DEF Idle
    <3>2. CASE job'[r].kind = job[r].kind  BY <1>1, <3>2 DEF OnCalc, CalcKept
    <3> QED BY <1>1, <3>1, <3>2, JobStays
  <2>2. ASSUME At(r, "total")' PROVE HasCalc'
    <3>1. PICK s : Comes(s, "total") /\ Does(r, s)  BY <1>1, <2>2, CameTo
    <3>2. s = "sum"  BY <3>1 DEF Comes
    <3>3. Sum(r)  BY <3>1, <3>2 DEF Does
    <3>4. ~Finish(r)
      <4>1. Finish(r) => job'[r] = Idle  BY <1>1, SetIs DEF Finish
      <4> QED BY <2>2, <4>1 DEF At, Idle
    <3> QED BY <1>1, <3>3, <3>4 DEF Sum, CalcKept, HasCalc
  <2>3. ASSUME At(r, "remainder")' PROVE IsLocked(period')
    <3>1. PICK s : Follows(r, s) /\ Comes(s, "remainder") /\ Does(r, s)  BY <1>1, <2>3, CameTo
    <3>2. s = "move"  BY <3>1 DEF Comes
    <3>3. MovePeriod(r)  BY <3>1, <3>2 DEF Does
    <3>4. PICK rest : /\ First(job[r].todo, "move", rest) /\ Course(job[r].kind, "move", rest)
                      /\ rest # <<>> /\ job'[r].todo = rest
      <4>1. job'[r] # Idle  BY <2>3 DEF At, Idle
      <4> QED BY <3>1, <3>2, <4>1 DEF Follows
    <3>5. Head(rest) = "remainder"  BY <2>3, <3>4 DEF At
    <3>6. rest \in {<<"lock", "bill", "owe">>, <<"remainder", "debt", "shut">>}
      BY <3>4 DEF Course
    <3>7. rest = <<"remainder", "debt", "shut">>  BY <3>5, <3>6
    <3>8. job[r].to = "closed"  BY <3>3, <3>4, <3>7 DEF OnCalc, MovePeriod
    <3> QED BY <3>3, <3>8 DEF MovePeriod, IsLocked
  <2>4. ASSUME At(r, "debt")' PROVE HasCalc' /\ IsLocked(period')
    <3>1. PICK s : Comes(s, "debt") /\ Does(r, s)  BY <1>1, <2>4, CameTo
    <3>2. s = "remainder"  BY <3>1 DEF Comes
    <3>3. Remainder(r)  BY <3>1, <3>2 DEF Does
    <3>4. ~Finish(r)
      <4>1. Finish(r) => job'[r] = Idle  BY <1>1, SetIs DEF Finish
      <4> QED BY <2>4, <4>1 DEF At, Idle
    <3>5. Left.amount # 0 /\ At(r, "remainder") /\ period' = period
      BY <3>3, <3>4 DEF Remainder, rows
    <3> QED BY <1>1, <3>5, NothingLeft DEF OnCalc, CalcKept
  <2>5. ASSUME At(r, "shut")' PROVE HasCalc' /\ IsLocked(period')
    <3>1. PICK s : Comes(s, "shut") /\ Does(r, s)  BY <1>1, <2>5, CameTo
    <3>2. s = "debt"  BY <3>1 DEF Comes
    <3>3. OpenDebt(r)  BY <3>1, <3>2 DEF Does
    <3>4. At(r, "debt") /\ period' = period  BY <3>3 DEF OpenDebt
    <3> QED BY <1>1, <3>4 DEF OnCalc, CalcKept
  <2>6. ASSUME At(r, "issue")' \/ At(r, "payout")' PROVE job'[r].found <=> HasCalc'
    <3>1. PICK t \in {"issue", "payout"} : At(r, t)'  BY <2>6
    <3>2. PICK s : Comes(s, t) /\ Does(r, s)  BY <1>1, <3>1, CameTo
    <3>3. s = "fold"  BY <3>2 DEF Comes
    <3>4. Fold(r)  BY <3>2, <3>3 DEF Does
    <3>5. job'[r] # Idle  BY <3>1 DEF At, Idle
    <3>6. job'[r].found <=> HasCalc  BY <1>1, <3>4, <3>5, FoldNotes
    <3>7. calc' = calc  BY <3>4 DEF Fold, rows
    <3> QED BY <3>6, <3>7 DEF HasCalc
  <2>7. job'[r].kind = "generate" => ~IsLocked(period')
    <3>1. CASE job'[r] = Idle  BY <3>1 DEF Idle
    <3>2. CASE job'[r].kind = job[r].kind
      <4>1. CASE Create(r) \/ MovePeriod(r)
        <5>1. PICK t \in {"create", "move"} : At(r, t)  BY <4>1 DEF Create, MovePeriod
        <5>2. PICK rest : Course(job[r].kind, t, rest)  BY <1>1, <5>1, AtStep
        <5> QED BY <3>2, <5>2 DEF Course
      <4>2. CASE ~Create(r) /\ ~MovePeriod(r)
        <5>1. period' = period  BY <4>2, PeriodStays
        <5> QED BY <3>2, <5>1 DEF OnCalc
      <4> QED BY <4>1, <4>2
    <3> QED BY <1>1, <3>1, <3>2, JobStays
  <2>8. ~At(r, "seed")' /\ ~At(r, "move")'
    <3>1. ASSUME NEW t \in {"seed", "move"}, At(r, t)' PROVE FALSE
      <4>1. \E s : Comes(s, t)  BY <1>1, <3>1, CameTo
      <4> QED BY <4>1 DEF Comes
    <3> QED BY <3>1
  <2> QED BY <1>3, <2>1, <2>2, <2>3, <2>4, <2>5, <2>6, <2>7, <2>8 DEF OnCalc
<1> QED BY <1>2, <1>3

\* In a calm scenario a statement is the one its handler is at.
LEMMA CalmStatement ==
  ASSUME Placed, Calm, NEW r \in Req, Statement(r)
  PROVE  ~Crash(r) /\ ~FailApproval(r) /\ \A s : At(r, s) => Does(r, s)
<1>1. ~Crash(r) /\ ~FailApproval(r)  BY DEF Calm, Crash, FailApproval
<1> QED BY <1>1, DoneAt

\* A payout that is pending is made, or goes on pending.
LEMMA PendingGoesOn ==
  ASSUME Placed, Calm, NEW r \in Req, Statement(r), Pending(r)
  PROVE  \/ PayAdvance(r)
         \/ Fold(r) /\ Pending(r)'
<1>1. CASE At(r, "payout")
  <2>1. Does(r, "payout")  BY <1>1, CalmStatement
  <2> QED BY <2>1 DEF Does
<1>2. CASE At(r, "fold")
  <2>1. Does(r, "fold")  BY <1>2, CalmStatement
  <2>2. Fold(r)  BY <2>1 DEF Does
  <2>3. PICK rest : First(job[r].todo, "fold", rest) /\ Course(job[r].kind, "fold", rest)
    BY <1>2, AtStep
  <2>4. job[r].kind = "employee_advance"  BY DEF Pending
  <2>5. rest = <<"payout">>  BY <2>3, <2>4 DEF Course
  <2>6. IsJob(job[r])  BY DEF Placed
  <2>7. PICK j : /\ Set(r, Rest(j)) /\ IsJob(j) /\ j.todo = job[r].todo /\ j.kind = job[r].kind
    <3>1. PICK s : s = Summed(job[r], Row("paid", job[r], None), payment)  OBVIOUS
    <3>2. IsJob(s) /\ s.todo = job[r].todo /\ s.kind = job[r].kind  BY <2>6, <3>1, SummedIs
    <3>3. PICK b : b = (calc # NoCalc)  OBVIOUS
    <3>4. PICK j : j = [s EXCEPT !.found = b] /\ Set(r, Rest(j))  BY <2>2, <3>1, <3>3 DEF Fold
    <3>5. IsJob(j) /\ j.todo = s.todo /\ j.kind = s.kind  BY <3>2, <3>4 DEF IsJob
    <3> QED BY <3>2, <3>4, <3>5
  <2>8. Carries(Rest(j), j, rest)  BY <2>3, <2>5, <2>7, Remnant
  <2>9. job'[r].kind = "employee_advance" /\ job'[r].todo = <<"payout">>
    BY <2>4, <2>5, <2>7, <2>8, SetIs DEF Carries
  <2> QED BY <2>2, <2>9 DEF Pending, At
<1> QED BY <1>1, <1>2 DEF Pending

\* A tranche is there when it is one.
LEMMA TrancheIsThere ==
  ASSUME NEW x, TrancheRow(x)
  PROVE  x.status # "none" <=> x # NoRow
BY DEF TrancheRow, NoRow

\* The advance after a statement that writes neither it nor its tranches.
LEMMA AdvanceUnchanged ==
  ASSUME Placed, OneSlot, AdvanceStands, NEW r \in Req, Statement(r),
         UNCHANGED <<advance, tranche>>, Pending(r) => Pending(r)'
  PROVE  AdvanceStands'
<1>1. AnyTranche' <=> AnyTranche  BY DEF AnyTranche
<1>2. (\E q \in Req : Pending(q)) => \E q \in Req : Pending(q)'
  <2> SUFFICES ASSUME NEW q \in Req, Pending(q) PROVE Pending(r)'  OBVIOUS
  <2>1. q = r
    <3>1. q # r => job[q] = Idle  BY OthersAreIdle
    <3> QED BY <3>1, IdleKnows
  <2> QED BY <2>1
<1> QED BY <1>1, <1>2 DEF AdvanceStands

\* Every statement keeps the advance.
LEMMA StatementKeepsAdvance ==
  ASSUME TrancheInv, Calm, AdvanceStands, NEW r \in Req, OnBook(r), Statement(r)
  PROVE  AdvanceStands'
<1>1. /\ Placed /\ AdvanceRows /\ AdvanceRows' /\ IsAdvance(advance) /\ OnAdvance(r) /\ OneSlot
      /\ InBounds(r)
  BY StatementKeepsRows DEF TrancheInv, Calm, Covered, RowsKept, AdvanceRows
<1>2. AnyTranche => AnyTranche'
  <2>1. ASSUME NEW k \in Tranche, tranche[k].status # "none" PROVE tranche'[k].status # "none"
    <3>1. TrancheRow(tranche[k])  BY <1>1 DEF AdvanceRows
    <3>2. TrancheRow(tranche'[k])  BY <1>1 DEF AdvanceRows
    <3>3. tranche[k] # NoRow  BY <2>1 DEF NoRow
    <3>4. tranche'[k] # NoRow  BY <3>3, StatementKeepsRows DEF RowsKept
    <3> QED BY <3>2, <3>4, TrancheIsThere
  <2> QED BY <2>1 DEF AnyTranche
<1>3. CASE UNCHANGED <<advance, tranche>> /\ (Pending(r) => Fold(r))
  <2>1. Pending(r) => Pending(r)'
    <3>1. Fold(r) => ~PayAdvance(r)  BY DEF Fold, PayAdvance, At
    <3> QED BY <1>1, <1>3, <3>1, PendingGoesOn
  <2> QED BY <1>1, <1>3, <2>1, AdvanceUnchanged
<1>4. CASE ~WritesAdvance(r)
  <2>1. UNCHANGED <<advance, tranche>>  BY <1>4, AdvanceStays
  <2>2. Pending(r) => Fold(r)  BY <1>1, <1>4, PendingGoesOn DEF WritesAdvance
  <2> QED BY <1>3, <2>1, <2>2
<1>5. ASSUME WritesAdvance(r), ~PayAdvance(r) PROVE ~Pending(r)
  <2>1. ~Fold(r)
    <3>1. ASSUME Fold(r) PROVE FALSE
      <4>1. At(r, "fold")  BY <3>1 DEF Fold
      <4>2. \E t : At(r, t) /\ t # "fold"
        BY <1>5 DEF WritesAdvance, Issue, RequestAdvance, RecordAdvance, CancelAdvance,
           ApproveAmount, Insert, Raise, PayTranche, ReverseTranche
      <4> QED BY <4>1, <4>2 DEF At
    <3> QED BY <3>1
  <2> QED BY <1>1, <1>5, <2>1, PendingGoesOn
<1>6. ASSUME NEW status \in {"requested", "approved", "paid"}, NEW e, tranche' = tranche,
             advance' = Row(status, job[r], e), job[r].kind \in InsertKind,
             status = "paid" /\ e = None => Pending(r)'
      PROVE  AdvanceStands'
  <2>1. job[r].amount \in Nat  BY <1>1, <1>6, AmountAssumption DEF OnAdvance
  <2>2. /\ advance'.status = status /\ advance'.amount = job[r].amount
        /\ advance'.approved = job[r].amount /\ advance'.expense = e
    BY <1>6 DEF Row
  <2> QED BY <1>6, <2>1, <2>2 DEF AdvanceStands
<1>7. ASSUME NEW t \in {"issue", "request", "record", "approved"}, At(r, t)
      PROVE  job[r].kind \in InsertKind
  <2>1. PICK rest : Course(job[r].kind, t, rest)  BY <1>1, <1>7, AtStep
  <2> QED BY <2>1 DEF Course, InsertKind
<1>8. CASE Issue(r)
  <2>1. CASE advance # NoAdvance
    <3>1. UNCHANGED <<advance, tranche>>  BY <1>8, <2>1 DEF Issue
    <3>2. ~Pending(r)
      <4>1. WritesAdvance(r) /\ ~PayAdvance(r)  BY <1>8 DEF WritesAdvance, Issue, PayAdvance, At
      <4> QED BY <1>5, <4>1
    <3> QED BY <1>3, <3>1, <3>2
  <2>2. CASE advance = NoAdvance
    <3>1. PICK v \in Voucher : advance' = Row("paid", job[r], v)  BY <1>8, <2>2 DEF Issue
    <3>2. tranche' = tranche /\ At(r, "issue")  BY <1>8 DEF Issue
    <3>3. v # None  BY PayoutAssumption
    <3> QED BY <1>6, <1>7, <3>1, <3>2, <3>3
  <2> QED BY <2>1, <2>2
<1>9. ASSUME NEW t \in {"request", "approved", "record"},
             NEW status \in {"requested", "approved", "paid"},
             Insert(r, t, status), status = "paid" => t = "record"
      PROVE  AdvanceStands'
  <2>1. At(r, t) /\ tranche' = tranche  BY <1>9 DEF Insert
  <2>2. CASE advance # NoAdvance
    <3>1. UNCHANGED <<advance, tranche>>  BY <1>9, <2>1, <2>2 DEF Insert
    <3>2. ~Pending(r)  BY <2>1, <1>9 DEF Pending, At
    <3> QED BY <1>3, <3>1, <3>2
  <2>3. CASE advance = NoAdvance
    <3>1. advance' = Row(status, job[r], None) /\ Proceed(r)  BY <1>9, <2>3 DEF Insert
    <3>2. ASSUME t = "record" PROVE Pending(r)'
      <4>1. PICK rest : First(job[r].todo, "record", rest) /\ Course(job[r].kind, "record", rest)
        BY <1>1, <2>1, <3>2, AtStep
      <4>2. job[r].kind = "employee_advance" /\ rest = <<"fold", "payout">>
        BY <4>1 DEF Course
      <4>3. IsJob(job[r])  BY <1>1 DEF Placed
      <4>4. Carries(Rest(job[r]), job[r], rest)  BY <4>1, <4>2, <4>3, Remnant
      <4>5. job'[r] = Rest(job[r])  BY <1>1, <3>1, SetIs DEF Proceed
      <4>6. job'[r].kind = "employee_advance" /\ job'[r].todo = <<"fold", "payout">>
        BY <4>2, <4>4, <4>5 DEF Carries
      <4> QED BY <4>6 DEF Pending, At
    <3> QED BY <1>6, <1>7, <1>9, <2>1, <3>1, <3>2
  <2> QED BY <2>2, <2>3
<1>10. CASE RequestAdvance(r) \/ RecordAdvance(r) \/ ApproveAmount(r)
  BY <1>9, <1>10 DEF RequestAdvance, RecordAdvance, ApproveAmount
<1>11. CASE PayAdvance(r)
  <2>1. PICK v \in Voucher : advance' = [advance EXCEPT !.status = "paid", !.expense = v]
    BY <1>11 DEF PayAdvance
  <2>2. /\ advance'.status = "paid" /\ advance'.expense = v /\ advance'.amount = advance.amount
        /\ advance'.approved = advance.approved
    BY <1>1, <2>1 DEF IsAdvance
  <2>3. v # None  BY PayoutAssumption
  <2> QED BY <2>2, <2>3 DEF AdvanceStands
<1>12. CASE CancelAdvance(r)
  <2>1. advance' = [advance EXCEPT !.status = "canceled"]  BY <1>12 DEF CancelAdvance
  <2>2. /\ advance'.status = "canceled" /\ advance'.amount = advance.amount
        /\ advance'.approved = advance.approved
    BY <1>1, <2>1 DEF IsAdvance
  <2> QED BY <2>2 DEF AdvanceStands
<1>13. CASE Raise(r)
  <2>1. At(r, "raise")  BY <1>13 DEF Raise
  <2>2. PICK a, s : /\ a = job[r].amount /\ s = job[r].to
                    /\ advance' = [advance EXCEPT !.approved = a, !.status = s]
    BY <1>13 DEF Raise
  <2>3. s \in {"canceled", "approved"}  BY <2>1, <2>2 DEF OnBook
  <2>4. job[r].amount \in Nat
    <3>1. PICK rest : Course(job[r].kind, "raise", rest)  BY <1>1, <2>1, AtStep
    <3> QED BY <1>1, <3>1, AmountAssumption DEF Course, OnAdvance
  <2>5. advance.approved < a  BY <1>1, <2>1, <2>2 DEF InBounds
  <2>6. advance'.status = s /\ advance'.approved = a /\ advance'.amount = advance.amount
    BY <1>1, <2>2 DEF IsAdvance
  <2>7. advance.amount <= advance.approved  BY DEF AdvanceStands
  <2>8. advance.amount <= a  BY <1>1, <2>2, <2>4, <2>5, <2>7 DEF IsAdvance
  <2> QED BY <2>3, <2>6, <2>8 DEF AdvanceStands
<1>14. CASE PayTranche(r)
  <2>1. PICK k, x : /\ k = job[r].row
                    /\ x = [status |-> "paid", amount |-> job[r].amount]
    OBVIOUS
  <2>2. CASE tranche[k] # NoRow
    <3>1. UNCHANGED <<advance, tranche>>  BY <1>14, <2>1, <2>2 DEF PayTranche
    <3>2. ~Pending(r)  BY <1>14 DEF Pending, PayTranche, At
    <3> QED BY <1>3, <3>1, <3>2
  <2>3. CASE tranche[k] = NoRow
    <3>1. /\ tranche' = [tranche EXCEPT ![k] = x] /\ At(r, "tranche")
          /\ advance' = [advance EXCEPT !.status = "paid"]
      BY <1>14, <2>1, <2>3 DEF PayTranche
    <3>2. PICK rest : Course(job[r].kind, "tranche", rest)  BY <1>1, <3>1, AtStep
    <3>3. k \in Tranche  BY <1>1, <2>1, <3>2 DEF Course, OnAdvance
    <3>4. tranche = [i \in Tranche |-> tranche[i]]  BY <1>1 DEF AdvanceRows
    <3>5. tranche'[k].status = "paid"  BY <2>1, <3>1, <3>3, <3>4
    <3>6. AnyTranche'  BY <3>3, <3>5 DEF AnyTranche
    <3>7. /\ advance'.status = "paid" /\ advance'.amount = advance.amount
          /\ advance'.approved = advance.approved
      BY <1>1, <3>1 DEF IsAdvance
    <3> QED BY <3>6, <3>7 DEF AdvanceStands
  <2> QED BY <2>2, <2>3
<1>15. CASE ReverseTranche(r)
  <2>1. At(r, "reverse") /\ advance' = advance  BY <1>15 DEF ReverseTranche
  <2>2. PICK rest : Course(job[r].kind, "reverse", rest)  BY <1>1, <2>1, AtStep
  <2>3. job[r].row \in Tranche /\ tranche[job[r].row] # NoRow
    BY <1>1, <2>2 DEF Course, OnAdvance
  <2>4. TrancheRow(tranche[job[r].row])  BY <1>1, <2>3 DEF AdvanceRows
  <2>5. AnyTranche  BY <2>3, <2>4, TrancheIsThere DEF AnyTranche
  <2> QED BY <1>2, <2>1, <2>5 DEF AdvanceStands
<1> QED BY <1>4, <1>8, <1>10, <1>11, <1>12, <1>13, <1>14, <1>15 DEF WritesAdvance

\* Totals that were noted are in the job that goes on.
LEMMA TotalsNoted ==
  ASSUME Placed, NEW r \in Req, NEW t, At(r, t), NEW a, NEW p, Set(r, Rest(Summed(job[r], a, p))),
         job'[r] # Idle
  PROVE  /\ job'[r].net = AccruedNet(calc.auto) /\ job'[r].paid = PaidTotal(a, p)
         /\ job'[r].row = job[r].row /\ job'[r].amount = job[r].amount /\ job'[r].kind = job[r].kind
<1>1. IsJob(job[r])  BY DEF Placed
<1>2. PICK s : s = Summed(job[r], a, p)  OBVIOUS
<1>3. /\ IsJob(s) /\ s.todo = job[r].todo /\ s.amount = job[r].amount /\ s.row = job[r].row
      /\ s.kind = job[r].kind /\ s.net = AccruedNet(calc.auto) /\ s.paid = PaidTotal(a, p)
  BY <1>1, <1>2, SummedIs
<1>4. PICK rest : First(job[r].todo, t, rest)  BY AtStep
<1>5. job'[r] = Rest(s)  BY <1>2, SetIs
<1>6. rest # <<>>  BY <1>3, <1>4, <1>5, Remnant
<1>7. Carries(Rest(s), s, rest)  BY <1>3, <1>4, <1>6, Remnant
<1> QED BY <1>3, <1>5, <1>7 DEF Carries

\* A transaction in time has the totals it will leave.
LEMMA StartNotesTotals ==
  ASSUME Placed, NEW r \in Req, StartPayment(r) \/ StartReversal(r), job'[r] # Idle
  PROVE  /\ job'[r].net = AccruedNet(calc.auto)
         /\ job'[r].kind = "payment" => job'[r].paid = PaidTotal(advance,
              [payment EXCEPT ![job'[r].row] = [status |-> "confirmed", amount |-> job'[r].amount]])
         /\ job'[r].kind = "reversal" =>
              job'[r].paid = PaidTotal(advance, [payment EXCEPT ![job'[r].row].status = "canceled"])
<1>1. Finish(r) => job'[r] = Idle  BY SetIs DEF Finish
<1>2. At(r, "start")  BY DEF StartPayment, StartReversal
<1>3. CASE StartPayment(r)
  <2>1. PICK p : p = [payment EXCEPT ![job[r].row] =
                        [status |-> "confirmed", amount |-> job[r].amount]]
    OBVIOUS
  <2>2. Set(r, Rest(Summed(job[r], advance, p))) /\ job[r].kind = "payment"
    BY <1>1, <1>3, <2>1 DEF StartPayment
  <2>3. /\ job'[r].net = AccruedNet(calc.auto) /\ job'[r].paid = PaidTotal(advance, p)
        /\ job'[r].row = job[r].row /\ job'[r].amount = job[r].amount /\ job'[r].kind = "payment"
    BY <1>2, <2>2, TotalsNoted
  <2> QED BY <2>1, <2>3
<1>4. CASE StartReversal(r)
  <2>1. PICK p : p = [payment EXCEPT ![job[r].row].status = "canceled"]  OBVIOUS
  <2>2. Set(r, Rest(Summed(job[r], advance, p))) /\ job[r].kind = "reversal"
    BY <1>1, <1>4, <2>1 DEF StartReversal
  <2>3. /\ job'[r].net = AccruedNet(calc.auto) /\ job'[r].paid = PaidTotal(advance, p)
        /\ job'[r].row = job[r].row /\ job'[r].kind = "reversal"
    BY <1>2, <2>2, TotalsNoted
  <2> QED BY <2>1, <2>3
<1> QED BY <1>3, <1>4

\* What is received counts the status and the amount of the advance.
LEMMA ReceivedOf ==
  ASSUME NEW a, NEW b, a.status = b.status, a.amount = b.amount, NEW shares, NEW p
  PROVE  Received(a, shares, p) = Received(b, shares, p)
BY DEF Received

\* The amount of the advance stays, until another is inserted.
LEMMA AmountStays ==
  ASSUME Placed, Calm, IsAdvance(advance), NEW r \in Req, Statement(r),
         job[r].kind \in {"employee_advance", "approve_advance"},
         ~RequestAdvance(r), ~RecordAdvance(r)
  PROVE  advance'.amount = advance.amount
<1>1. CASE PayAdvance(r)
  <2>1. PICK v : advance' = [advance EXCEPT !.status = "paid", !.expense = v]
    BY <1>1 DEF PayAdvance
  <2> QED BY <2>1 DEF IsAdvance
<1>2. ASSUME NEW t, NEW rest, Course(job[r].kind, t, rest)
      PROVE  t \in {"fold", "payout", "record", "request"}
  BY <1>2 DEF Course
<1>3. CASE ~PayAdvance(r)
  <2>1. CASE WritesAdvance(r)
    <3>1. PICK t \in {"issue", "approved", "cancel", "raise", "tranche", "reverse"} : At(r, t)
      BY <1>3, <2>1 DEF WritesAdvance, Issue, CancelAdvance, ApproveAmount, Insert, Raise,
         PayTranche, ReverseTranche
    <3>2. \E rest : Course(job[r].kind, t, rest)  BY <3>1, AtStep
    <3> QED BY <1>2, <3>2
  <2>2. CASE ~WritesAdvance(r)  BY <2>2, AdvanceStays
  <2> QED BY <2>1, <2>2
<1> QED BY <1>1, <1>3

\* A plan has one remainder.
LEMMA OneRemainder ==
  ASSUME NEW todo, NEW t, NEW u, NEW v, First(todo, t, u), First(todo, t, v)
  PROVE  u = v
BY DEF First

\* After a statement the handlers still know the advance and the totals.
LEMMA StatementKeepsOnBook ==
  ASSUME PaymentInv, TrancheInv, Calm, NEW r \in Req, OnBook(r), Statement(r), NEW q \in Req
  PROVE  OnBook(q)'
<1>1. Placed /\ OneSlot /\ IsAdvance(advance)  BY DEF PaymentInv, Calm, TrancheInv, AdvanceRows
<1>2. CASE q # r
  <2>1. job'[q].kind = "none" /\ \A t : ~At(q, t)'  BY <1>1, <1>2, OthersAreIdle
  <2> QED BY <2>1 DEF OnBook, Pending, InTime
<1>3. CASE q = r
  <2>0. \/ job'[r] = Idle
        \/ /\ job'[r].kind = job[r].kind
           /\ job[r].kind # "transition" => job'[r].amount = job[r].amount
    BY <1>1, JobStays
  <2>1. ASSUME Pending(r)' \/ job'[r].kind = "approve_advance"
        PROVE  advance'.amount = job'[r].amount
    <3>1. job'[r] # Idle  BY <2>1 DEF Idle, Pending
    <3>2. /\ job[r].kind = job'[r].kind /\ job[r].kind \in {"employee_advance", "approve_advance"}
          /\ job'[r].amount = job[r].amount
      BY <2>0, <2>1, <3>1 DEF Pending
    <3>3. CASE RecordAdvance(r)
      <4>1. Insert(r, "record", "paid")  BY <3>3 DEF RecordAdvance
      <4>2. Finish(r) => job'[r] = Idle  BY <1>1, SetIs DEF Finish
      <4>3. advance' = Row("paid", job[r], None)  BY <3>1, <4>1, <4>2 DEF Insert
      <4> QED BY <3>2, <4>3 DEF Row
    <3>4. CASE RequestAdvance(r)
      <4>1. At(r, "request")  BY <3>4 DEF RequestAdvance, Insert
      <4>2. PICK s : Follows(r, s)
        BY <1>1, <3>4, StatementFollows DEF Retry, FailApproval, RequestAdvance, Insert, At, Calm
      <4>3. s = "request"  BY <4>1, <4>2 DEF Follows, At
      <4>4. PICK rest : Course(job[r].kind, "request", rest) /\ rest # <<>>
        BY <3>1, <4>2, <4>3 DEF Follows
      <4> QED BY <4>4 DEF Course
    <3>5. CASE ~RecordAdvance(r) /\ ~RequestAdvance(r)
      <4>1. advance'.amount = advance.amount  BY <1>1, <3>2, <3>5, AmountStays
      <4>2. Pending(r) \/ job[r].kind = "approve_advance"
        <5>1. CASE Pending(r)'
          <6>1. PICK t \in {"fold", "payout"} : At(r, t)'  BY <5>1 DEF Pending
          <6>2. PICK s : Follows(r, s) /\ Comes(s, t) /\ Does(r, s)  BY <1>1, <6>1, CameTo
          <6>3. s = "record" \/ s = "fold"  BY <6>2 DEF Comes
          <6>4. s = "fold"  BY <3>5, <6>2, <6>3 DEF Does
          <6>5. At(r, "fold")  BY <6>2, <6>4 DEF Follows
          <6> QED BY <3>2, <5>1, <6>5 DEF Pending
        <5>2. CASE ~Pending(r)'  BY <2>1, <3>2, <5>2
        <5> QED BY <5>1, <5>2
      <4> QED BY <3>2, <4>1, <4>2 DEF OnBook
    <3> QED BY <3>3, <3>4, <3>5
  <2>2. ~At(r, "raise")'
    <3>1. ASSUME At(r, "raise")' PROVE FALSE
      <4>1. \E s : Comes(s, "raise")  BY <1>1, <3>1, CameTo
      <4> QED BY <4>1 DEF Comes
    <3> QED BY <3>1
  <2>3. ASSUME job'[r].kind = "reverse_tranche", HasCalc'
        PROVE  /\ ~At(r, "refund")'
               /\ At(r, "reverse")' => First(job'[r].todo, "reverse", <<"sum", "total">>)
    <3>1. ASSUME At(r, "refund")' PROVE FALSE
      <4>1. \E s : Comes(s, "refund")  BY <1>1, <3>1, CameTo
      <4> QED BY <4>1 DEF Comes
    <3>2. ASSUME At(r, "reverse")' PROVE First(job'[r].todo, "reverse", <<"sum", "total">>)
      <4>1. PICK s : Follows(r, s) /\ Comes(s, "reverse") /\ Does(r, s)  BY <1>1, <3>2, CameTo
      <4>2. s = "refund"  BY <4>1 DEF Comes
      <4>3. Refund(r)  BY <4>1, <4>2 DEF Does
      <4>4. HasCalc  BY <2>3, <4>3 DEF Refund, HasCalc
      <4>5. job'[r] # Idle  BY <3>2 DEF At, Idle
      <4>6. job[r].kind = "reverse_tranche"  BY <2>0, <2>3, <4>5
      <4>7. At(r, "refund")  BY <4>1, <4>2 DEF Follows
      <4>8. First(job[r].todo, "refund", <<"reverse", "sum", "total">>)
        BY <4>4, <4>6, <4>7 DEF OnBook
      <4>9. PICK rest : First(job[r].todo, "refund", rest) /\ job'[r].todo = rest
        BY <4>1, <4>2, <4>5 DEF Follows
      <4>10. rest = <<"reverse", "sum", "total">>  BY <4>8, <4>9, OneRemainder
      <4> QED BY <4>9, <4>10, Firsts
    <3> QED BY <3>1, <3>2
  <2>4. ASSUME At(r, "total")'
        PROVE  /\ job'[r].net = Accrued(calc', adjustment')
               /\ job'[r].paid = Received(advance', tranche', payment')
    <3>1. PICK s : Comes(s, "total") /\ Does(r, s)  BY <1>1, <2>4, CameTo
    <3>2. s = "sum"  BY <3>1 DEF Comes
    <3>3. Sum(r)  BY <3>1, <3>2 DEF Does
    <3>4. job'[r] # Idle  BY <2>4 DEF At, Idle
    <3>5. Finish(r) => job'[r] = Idle  BY <1>1, SetIs DEF Finish
    <3>6. Set(r, Rest(Summed(job[r], advance, payment))) /\ At(r, "sum")
      BY <3>3, <3>4, <3>5 DEF Sum
    <3>7. job'[r].net = AccruedNet(calc.auto) /\ job'[r].paid = PaidTotal(advance, payment)
      BY <1>1, <3>4, <3>6, TotalsNoted
    <3>8. UNCHANGED <<calc, adjustment, advance, tranche, payment>>  BY <3>3 DEF Sum, rows
    <3> QED BY <3>7, <3>8, AccruedByRows, ReceivedByRows
  <2>5. ASSUME At(r, "issue")' \/ At(r, "payout")'
        PROVE  /\ job'[r].net = Accrued(calc', adjustment')
               /\ job'[r].paid = Received(PaidAtOnce(job'[r]), tranche', payment')
    <3>1. PICK t \in {"issue", "payout"} : At(r, t)'  BY <2>5
    <3>2. PICK s : Comes(s, t) /\ Does(r, s)  BY <1>1, <3>1, CameTo
    <3>3. s = "fold"  BY <3>2 DEF Comes
    <3>4. Fold(r)  BY <3>2, <3>3 DEF Does
    <3>5. job'[r] # Idle  BY <3>1 DEF At, Idle
    <3>6. PICK a : a = Row("paid", job[r], None)  OBVIOUS
    <3>7. /\ job'[r].net = AccruedNet(calc.auto) /\ job'[r].paid = PaidTotal(a, payment)
          /\ job'[r].amount = job[r].amount
      BY <1>1, <3>4, <3>5, <3>6, FoldNotes
    <3>8. a.status = "paid" /\ a.amount = job[r].amount  BY <3>6 DEF Row
    <3>9. PICK b : b = PaidAtOnce(job'[r])  OBVIOUS
    <3>10. b.status = "paid" /\ b.amount = job[r].amount  BY <3>7, <3>9 DEF PaidAtOnce
    <3>11. Received(a, tranche, payment) = Received(b, tranche, payment)
      BY <3>8, <3>10, ReceivedOf
    <3>12. UNCHANGED <<calc, adjustment, tranche, payment>>  BY <3>4 DEF Fold, rows
    <3> QED BY <3>7, <3>9, <3>11, <3>12, AccruedByRows, ReceivedByRows
  <2>6. ASSUME InTime(r)'
        PROVE  /\ job'[r].net = Accrued(calc', adjustment')
               /\ job'[r].kind = "payment" =>
                    job'[r].paid = Received(advance', tranche', [payment' EXCEPT ![job'[r].row] =
                                     [status |-> "confirmed", amount |-> job'[r].amount]])
               /\ job'[r].kind = "reversal" =>
                    job'[r].paid = Received(advance', tranche',
                      [payment' EXCEPT ![job'[r].row].status = "canceled"])
    <3>1. At(r, "commit")'  BY <2>6 DEF InTime
    <3>2. PICK s : Comes(s, "commit") /\ Does(r, s)  BY <1>1, <3>1, CameTo
    <3>3. s = "start"  BY <3>2 DEF Comes
    <3>4. StartPayment(r) \/ StartReversal(r)  BY <3>2, <3>3 DEF Does
    <3>5. job'[r] # Idle  BY <3>1 DEF At, Idle
    <3>6. UNCHANGED <<calc, adjustment, advance, tranche, payment>>
      BY <3>4 DEF StartPayment, StartReversal, rows
    <3>7. PICK p, x : /\ p = [payment EXCEPT ![job'[r].row] =
                                [status |-> "confirmed", amount |-> job'[r].amount]]
                      /\ x = [payment EXCEPT ![job'[r].row].status = "canceled"]
      OBVIOUS
    <3>8. /\ job'[r].net = AccruedNet(calc.auto)
          /\ job'[r].kind = "payment" => job'[r].paid = PaidTotal(advance, p)
          /\ job'[r].kind = "reversal" => job'[r].paid = PaidTotal(advance, x)
      BY <1>1, <3>4, <3>5, <3>7, StartNotesTotals
    <3>9. /\ job'[r].net = Accrued(calc, adjustment)
          /\ job'[r].kind = "payment" => job'[r].paid = Received(advance, tranche, p)
          /\ job'[r].kind = "reversal" => job'[r].paid = Received(advance, tranche, x)
      BY <3>8, AccruedByRows, ReceivedByRows
    <3> QED BY <3>6, <3>7, <3>9
  <2> QED BY <1>3, <2>1, <2>2, <2>3, <2>4, <2>5, <2>6 DEF OnBook
<1> QED BY <1>2, <1>3
\* A statement that is followed by the recomputation.
LEMMA SumIsNext ==
  ASSUME Placed, NEW r \in Req, NEW t, At(r, t), Proceed(r) \/ ProceedWriting(r),
         NEW rest \in {<<"sum", "total">>, <<"sum", "total", "applied">>},
         First(job[r].todo, t, rest)
  PROVE  At(r, "sum")'
<1>1. IsJob(job[r])  BY DEF Placed
<1>2. rest # <<>> /\ Head(rest) = "sum"  OBVIOUS
<1>3. Carries(Rest(job[r]), job[r], rest)  BY <1>1, <1>2, Remnant
<1>4. job'[r] = Rest(job[r])  BY SetIs, ProceedWritingIs DEF Proceed
<1>5. job'[r].todo = rest  BY <1>3, <1>4 DEF Carries
<1> QED BY <1>2, <1>5 DEF At

LEMMA SumFollows ==
  ASSUME Placed, NEW r \in Req, Proceed(r) \/ ProceedWriting(r),
         NEW t \in {"inputs", "adjust", "unadjust", "cancel", "tranche", "bonus", "auto"}, At(r, t)
  PROVE  At(r, "sum")'
<1>1. PICK rest : First(job[r].todo, t, rest) /\ Course(job[r].kind, t, rest)  BY AtStep
<1>2. rest \in {<<"sum", "total">>, <<"sum", "total", "applied">>}  BY <1>1 DEF Course
<1> QED BY <1>1, <1>2, SumIsNext

\* After the sum come the totals.
LEMMA TotalIsNext ==
  ASSUME Placed, NEW r \in Req, Sum(r), HasCalc
  PROVE  At(r, "total")'
<1>1. Set(r, Rest(Summed(job[r], advance, payment))) /\ At(r, "sum")  BY DEF Sum, HasCalc
<1>2. IsJob(job[r])  BY DEF Placed
<1>3. PICK s : s = Summed(job[r], advance, payment)  OBVIOUS
<1>4. IsJob(s) /\ s.todo = job[r].todo  BY <1>2, <1>3, SummedIs
<1>5. PICK rest : First(job[r].todo, "sum", rest) /\ Course(job[r].kind, "sum", rest)
  BY <1>1, AtStep
<1>6. rest # <<>> /\ Head(rest) = "total"
  <2>1. rest = <<"total">> \/ rest = <<"total", "applied">>  BY <1>5 DEF Course
  <2> QED BY <2>1
<1>7. Carries(Rest(s), s, rest)  BY <1>4, <1>5, <1>6, Remnant
<1>8. job'[r] = Rest(s)  BY <1>1, <1>3, SetIs
<1>9. job'[r].todo = rest  BY <1>7, <1>8 DEF Carries
<1> QED BY <1>6, <1>9 DEF At

\* Totals written as they were noted are those of the rows.
LEMMA RightFromJob ==
  ASSUME IsCalc(calc), NEW r, calc' = Retotalled(job[r]), adjustment' = adjustment,
         job[r].net = Accrued(calc, adjustment),
         job[r].paid = Received(advance', tranche', payment')
  PROVE  Right'
<1>1. calc'.net = job[r].net /\ calc'.paid = job[r].paid /\ calc'.auto = calc.auto
  BY RetotalledIs
<1>2. Accrued(calc', adjustment') = Accrued(calc, adjustment)  BY <1>1 DEF Accrued
<1> QED BY <1>1, <1>2 DEF Right

\* In a calm scenario only the handler that acts may be about to write the totals.
LEMMA WhoWrites ==
  ASSUME Placed, Calm, TotalsAgree, NEW r \in Req, Statement(r), Computed, ~Raised
  PROVE  Right \/ At(r, "sum") \/ At(r, "total") \/ Pending(r)
<1>1. ASSUME NEW q \in Req, q # r PROVE ~At(q, "sum") /\ ~At(q, "total") /\ ~Pending(q)
  BY <1>1, OthersAreIdle, IdleKnows DEF Calm
<1> QED BY <1>1 DEF TotalsAgree

\* Where what is accrued and received stays, right totals stay right.
LEMMA SameTotals ==
  ASSUME Placed, Calm, TotalsAgree, NEW r \in Req, Statement(r), ~At(r, "sum"), ~At(r, "total"),
         Pending(r) => Pending(r)', Computed' /\ ~Raised' => Computed /\ ~Raised,
         calc'.net = calc.net, calc'.paid = calc.paid, calc'.auto = calc.auto,
         adjustment' = adjustment,
         Computed => Received(advance', tranche', payment') = Received(advance, tranche, payment)
  PROVE  TotalsAgree'
<1> SUFFICES ASSUME Computed', ~Raised'
             PROVE  Right' \/ \E q \in Req : At(q, "sum")' \/ At(q, "total")' \/ Pending(q)'
  BY DEF TotalsAgree
<1>1. Right \/ Pending(r)  BY WhoWrites
<1>2. Accrued(calc', adjustment') = Accrued(calc, adjustment)  BY DEF Accrued
<1> QED BY <1>1, <1>2 DEF Right

\* The statements of the period keep the totals those of the rows.
LEMMA PeriodKeepsTotals ==
  ASSUME BookInv, Calm, NEW r \in Req, Statement(r),
         \/ Seed(r) \/ Inputs(r) \/ Lock(r) \/ Shut(r) \/ Adjust(r) \/ CancelAdjustment(r)
         \/ CommitPayment(r) \/ CommitReversal(r) \/ Total(r) \/ Bonus(r)
         \/ WriteOverrides(r) \/ WriteAuto(r)
  PROVE  TotalsAgree'
<1>1. /\ Placed /\ CalcRows /\ AdvanceStands /\ TotalsAgree /\ OnCalc(r) /\ OnBook(r)
      /\ IsCalc(calc)
      /\ OnPayments(r)
  BY DEF BookInv, PaymentInv, CalcRows
<1>2. CASE \/ Inputs(r) \/ Adjust(r) \/ CancelAdjustment(r) \/ Bonus(r) \/ WriteAuto(r)
  <2>1. Proceed(r) \/ ProceedWriting(r)
    BY <1>2 DEF Inputs, Adjust, CancelAdjustment, Bonus, WriteAuto
  <2>2. PICK t \in {"inputs", "adjust", "unadjust", "bonus", "auto"} : At(r, t)
    BY <1>2 DEF Inputs, Adjust, CancelAdjustment, Bonus, WriteAuto
  <2>3. At(r, "sum")'  BY <1>1, <2>1, <2>2, SumFollows
  <2> QED BY <2>3 DEF TotalsAgree
<1>3. ASSUME NEW t, At(r, t), t \notin {"sum", "total", "fold", "payout"}
      PROVE  ~At(r, "sum") /\ ~At(r, "total") /\ ~Pending(r)
  BY <1>3 DEF At, Pending
<1>4. ASSUME NEW t, At(r, t), t \notin {"sum", "total", "fold", "payout"},
             IsCalc(calc'), Computed' => Computed,
             calc'.net = calc.net, calc'.paid = calc.paid, calc'.auto = calc.auto,
             UNCHANGED <<adjustment, payment, advance, tranche>>
      PROVE  TotalsAgree'
  <2>1. ~At(r, "sum") /\ ~At(r, "total") /\ ~Pending(r)  BY <1>3, <1>4
  <2>2. Raised' <=> Raised  BY <1>4 DEF Raised
  <2>3. Received(advance', tranche', payment') = Received(advance, tranche, payment)  BY <1>4
  <2> QED BY <1>1, <1>4, <2>1, <2>2, <2>3, SameTotals
<1>5. CASE Seed(r)
  <2>1. At(r, "seed") /\ UNCHANGED <<adjustment, payment, advance, tranche>>  BY <1>5 DEF Seed
  <2>2. CASE calc # NoCalc
    <3>1. calc' = calc  BY <1>5, <2>2 DEF Seed
    <3> QED BY <1>1, <1>4, <2>1, <3>1 DEF Computed
  <2>3. CASE calc = NoCalc
    <3>1. PICK a, st : /\ a = job[r].amount /\ st = IF a = 0 THEN "draft" ELSE "calculated"
                       /\ calc' = [NoCalc EXCEPT !.auto = a, !.status = st] /\ ProceedWriting(r)
      BY <1>5, <2>3 DEF Seed
    <3>2. CASE a = 0
      <4>1. calc'.status = "draft"  BY <3>1, <3>2 DEF NoCalc
      <4> QED BY <4>1 DEF TotalsAgree, Computed
    <3>3. CASE a # 0
      <4>1. First(job[r].todo, "seed", <<"sum", "total">>)  BY <1>1, <2>1, <3>1, <3>3 DEF OnCalc
      <4>2. At(r, "sum")'  BY <1>1, <2>1, <3>1, <4>1, SumIsNext
      <4> QED BY <4>2 DEF TotalsAgree
    <3> QED BY <3>2, <3>3
  <2> QED BY <2>2, <2>3
<1>6. CASE Lock(r)
  <2>1. At(r, "lock") /\ UNCHANGED <<adjustment, payment, advance, tranche>>  BY <1>6 DEF Lock
  <2>2. CASE calc.status # "calculated"
    <3>1. calc' = calc  BY <1>6, <2>2 DEF Lock
    <3> QED BY <1>1, <1>4, <2>1, <3>1 DEF Computed
  <2>3. CASE calc.status = "calculated"
    <3>1. calc' = [calc EXCEPT !.status = "approved"]  BY <1>6, <2>3 DEF Lock
    <3>2. /\ IsCalc(calc') /\ calc'.net = calc.net /\ calc'.paid = calc.paid
          /\ calc'.auto = calc.auto
      BY <1>1, <3>1 DEF IsCalc
    <3>3. Computed  BY <2>3 DEF Computed
    <3> QED BY <1>4, <2>1, <3>2, <3>3
  <2> QED BY <2>2, <2>3
<1>7. CASE Shut(r)
  <2>1. /\ At(r, "shut") /\ UNCHANGED <<adjustment, payment, advance, tranche>>
        /\ calc' = [calc EXCEPT !.status = "closed"]
    BY <1>7 DEF Shut
  <2>2. IsCalc(calc') /\ calc'.net = calc.net /\ calc'.paid = calc.paid /\ calc'.auto = calc.auto
    BY <1>1, <2>1 DEF IsCalc
  <2>3. HasCalc /\ IsLocked(period)  BY <1>1, <2>1 DEF OnCalc
  <2>4. Computed  BY <1>1, <2>3 DEF Computed, CalcRows, HasCalc
  <2> QED BY <1>4, <2>1, <2>2, <2>4
<1>8. CASE WriteOverrides(r)
  <2>1. /\ At(r, "override") /\ UNCHANGED <<adjustment, payment, advance, tranche>>
        /\ \E x : calc' = [calc EXCEPT !.overrides = x]
    BY <1>8 DEF WriteOverrides
  <2>2. PICK x : calc' = [calc EXCEPT !.overrides = x]  BY <2>1
  <2>3. /\ IsCalc(calc') /\ calc'.net = calc.net /\ calc'.paid = calc.paid
        /\ calc'.auto = calc.auto /\ calc'.status = calc.status
    BY <1>1, <2>2 DEF IsCalc
  <2> QED BY <1>4, <2>1, <2>3 DEF Computed
<1>9. CASE Total(r)
  <2>1. /\ At(r, "total") /\ calc' = Retotalled(job[r])
        /\ UNCHANGED <<adjustment, payment, advance, tranche>>
    BY <1>9 DEF Total
  <2>2. Right'  BY <1>1, <2>1, RightFromJob DEF OnBook
  <2> QED BY <2>2 DEF TotalsAgree
<1>10. CASE CommitPayment(r)
  <2>1. PICK p : p = [payment EXCEPT ![job[r].row] =
                        [status |-> "confirmed", amount |-> job[r].amount]]
    OBVIOUS
  <2>2. /\ payment' = p /\ calc' = Retotalled(job[r]) /\ UNCHANGED <<adjustment, advance, tranche>>
        /\ InTime(r) /\ job[r].kind = "payment"
    BY <1>10, <2>1 DEF CommitPayment, InTime
  <2>3. job[r].net = Accrued(calc, adjustment) /\ job[r].paid = Received(advance, tranche, p)
    BY <1>1, <2>1, <2>2 DEF OnBook
  <2>4. Right'  BY <1>1, <2>2, <2>3, RightFromJob
  <2> QED BY <2>4 DEF TotalsAgree
<1>11. CASE CommitReversal(r)
  <2>1. PICK p : p = [payment EXCEPT ![job[r].row].status = "canceled"]  OBVIOUS
  <2>2. /\ payment' = p /\ calc' = Retotalled(job[r]) /\ UNCHANGED <<adjustment, advance, tranche>>
        /\ InTime(r) /\ job[r].kind = "reversal"
    BY <1>11, <2>1 DEF CommitReversal, InTime
  <2>3. job[r].net = Accrued(calc, adjustment) /\ job[r].paid = Received(advance, tranche, p)
    BY <1>1, <2>1, <2>2 DEF OnBook
  <2>4. Right'  BY <1>1, <2>2, <2>3, RightFromJob
  <2> QED BY <2>4 DEF TotalsAgree
<1> QED BY <1>2, <1>5, <1>6, <1>7, <1>8, <1>9, <1>10, <1>11

\* So do those of the advance.
LEMMA AdvanceKeepsTotals ==
  ASSUME BookInv, Calm, NEW r \in Req, Statement(r), WritesAdvance(r)
  PROVE  TotalsAgree'
<1>1. /\ Placed /\ CalcRows /\ AdvanceStands /\ TotalsAgree /\ OnCalc(r) /\ OnBook(r)
      /\ IsCalc(calc)
      /\ AdvanceRows /\ IsAdvance(advance) /\ OnAdvance(r) /\ InBounds(r) /\ OneSlot
  BY DEF BookInv, CalcRows, TrancheInv, Calm, Covered, AdvanceRows
<1>2. ASSUME NEW t, At(r, t), t \notin {"sum", "total", "fold", "payout"},
             Raised' <=> Raised,
             calc' = calc, adjustment' = adjustment,
             Computed =>
               Received(advance', tranche', payment') = Received(advance, tranche, payment)
      PROVE  TotalsAgree'
  <2>1. ~At(r, "sum") /\ ~At(r, "total") /\ ~Pending(r)  BY <1>2 DEF At, Pending
  <2> QED BY <1>1, <1>2, <2>1, SameTotals DEF Computed
<1>3. ASSUME NEW t, At(r, t), t \notin {"sum", "total", "fold", "payout"},
             UNCHANGED <<calc, adjustment, payment, advance, tranche>>
      PROVE  TotalsAgree'
  <2>1. Raised' <=> Raised  BY <1>3 DEF Raised
  <2> QED BY <1>2, <1>3, <2>1
<1>4. ASSUME ~HasCalc, calc' = calc PROVE TotalsAgree'
  <2>1. calc'.status = "none"  BY <1>4 DEF HasCalc, NoCalc
  <2> QED BY <2>1 DEF TotalsAgree, Computed
<1>5. ASSUME At(r, "issue") \/ At(r, "payout"), calc' = Folded(r),
             UNCHANGED <<adjustment, payment, tranche>>,
             advance'.status = "paid", advance'.amount = job[r].amount
      PROVE  TotalsAgree'
  <2>1. job[r].found <=> HasCalc  BY <1>1, <1>5 DEF OnCalc
  <2>2. CASE ~HasCalc
    <3>1. calc' = calc  BY <1>5, <2>1, <2>2 DEF Folded
    <3> QED BY <1>4, <2>2, <3>1
  <2>3. CASE HasCalc
    <3>1. calc' = Retotalled(job[r])  BY <1>5, <2>1, <2>3 DEF Folded
    <3>2. PICK b : b = PaidAtOnce(job[r])  OBVIOUS
    <3>3. b.status = "paid" /\ b.amount = job[r].amount  BY <3>2 DEF PaidAtOnce
    <3>4. job[r].net = Accrued(calc, adjustment) /\ job[r].paid = Received(b, tranche, payment)
      BY <1>1, <1>5, <3>2 DEF OnBook
    <3>5. Received(b, tranche, payment) = Received(advance', tranche, payment)
      BY <1>5, <3>3, ReceivedOf
    <3>6. Right'  BY <1>1, <1>5, <3>1, <3>4, <3>5, RightFromJob
    <3> QED BY <3>6 DEF TotalsAgree
  <2> QED BY <2>2, <2>3
<1>6. CASE Issue(r)
  <2>1. At(r, "issue") /\ UNCHANGED <<adjustment, payment, tranche>>  BY <1>6 DEF Issue
  <2>2. CASE advance # NoAdvance
    <3>1. UNCHANGED <<advance, calc>>  BY <1>6, <2>2 DEF Issue
    <3> QED BY <1>3, <2>1, <3>1
  <2>3. CASE advance = NoAdvance
    <3>1. PICK v : advance' = Row("paid", job[r], v) /\ calc' = Folded(r)
      BY <1>6, <2>3 DEF Issue
    <3>2. advance'.status = "paid" /\ advance'.amount = job[r].amount  BY <3>1 DEF Row
    <3> QED BY <1>5, <2>1, <3>1, <3>2
  <2> QED BY <2>2, <2>3
<1>7. CASE PayAdvance(r)
  <2>1. At(r, "payout") /\ UNCHANGED <<adjustment, payment, tranche>> /\ calc' = Folded(r)
    BY <1>7 DEF PayAdvance
  <2>2. PICK v : advance' = [advance EXCEPT !.status = "paid", !.expense = v]
    BY <1>7 DEF PayAdvance
  <2>3. advance'.status = "paid" /\ advance'.amount = advance.amount
    BY <1>1, <2>2 DEF IsAdvance
  <2>4. PICK rest : Course(job[r].kind, "payout", rest)  BY <1>1, <2>1, AtStep
  <2>5. job[r].kind \in {"employee_advance", "approve_advance"}  BY <2>4 DEF Course
  <2>6. Pending(r) \/ job[r].kind = "approve_advance"  BY <2>1, <2>5 DEF Pending
  <2>7. advance.amount = job[r].amount  BY <1>1, <2>6 DEF OnBook
  <2> QED BY <1>5, <2>1, <2>3, <2>7
<1>8. ASSUME NEW t \in {"request", "approved"}, NEW status \in {"requested", "approved"},
             Insert(r, t, status)
      PROVE  TotalsAgree'
  <2>1. At(r, t) /\ UNCHANGED <<calc, adjustment, payment, tranche>>  BY <1>8 DEF Insert
  <2>2. CASE advance # NoAdvance
    <3>1. advance' = advance  BY <1>8, <2>2 DEF Insert
    <3> QED BY <1>3, <2>1, <3>1
  <2>3. CASE advance = NoAdvance
    <3>1. advance' = Row(status, job[r], None)  BY <1>8, <2>3 DEF Insert
    <3>2. advance'.status = status /\ advance'.expense = None  BY <3>1 DEF Row
    <3>3. advance.status = "none" /\ advance.expense = None  BY <2>3 DEF NoAdvance
    <3>4. ~AnyTranche  BY <1>1, <3>3 DEF AdvanceStands
    <3>5. Received(advance', tranche', payment') = Received(advance, tranche, payment)
      BY <2>1, <3>2, <3>3, <3>4 DEF Received, AdvancePaid, AnyTranche
    <3>6. ~Raised' /\ ~Raised  BY <3>2, <3>3 DEF Raised
    <3> QED BY <1>2, <2>1, <3>5, <3>6
  <2> QED BY <2>2, <2>3
<1>9. CASE RequestAdvance(r) \/ ApproveAmount(r)
  BY <1>8, <1>9 DEF RequestAdvance, ApproveAmount
<1>10. CASE RecordAdvance(r)
  <2>1. At(r, "record") /\ UNCHANGED <<calc, adjustment, payment, tranche>>
    BY <1>10 DEF RecordAdvance, Insert
  <2>2. CASE advance # NoAdvance
    <3>1. advance' = advance  BY <1>10, <2>2 DEF RecordAdvance, Insert
    <3> QED BY <1>3, <2>1, <3>1
  <2>3. CASE advance = NoAdvance
    <3>1. Proceed(r)  BY <1>10, <2>3 DEF RecordAdvance, Insert
    <3>2. PICK rest : First(job[r].todo, "record", rest) /\ Course(job[r].kind, "record", rest)
      BY <1>1, <2>1, AtStep
    <3>3. job[r].kind = "employee_advance" /\ rest = <<"fold", "payout">>
      BY <3>2 DEF Course
    <3>4. IsJob(job[r])  BY <1>1 DEF Placed
    <3>5. Carries(Rest(job[r]), job[r], rest)  BY <3>2, <3>3, <3>4, Remnant
    <3>6. job'[r] = Rest(job[r])  BY <1>1, <3>1, SetIs DEF Proceed
    <3>7. job'[r].kind = "employee_advance" /\ job'[r].todo = <<"fold", "payout">>
      BY <3>3, <3>5, <3>6 DEF Carries
    <3>8. Pending(r)'  BY <3>7 DEF Pending, At
    <3> QED BY <3>8 DEF TotalsAgree
  <2> QED BY <2>2, <2>3
<1>11. CASE CancelAdvance(r)
  <2>1. At(r, "cancel") /\ Proceed(r)  BY <1>11 DEF CancelAdvance
  <2>2. At(r, "sum")'  BY <1>1, <2>1, SumFollows
  <2> QED BY <2>2 DEF TotalsAgree
<1>12. CASE PayTranche(r)
  <2>1. At(r, "tranche") /\ UNCHANGED <<calc, adjustment, payment>>  BY <1>12 DEF PayTranche
  <2>2. UNCHANGED <<tranche, advance>> \/ Proceed(r)  BY <1>12 DEF PayTranche
  <2>3. CASE UNCHANGED <<tranche, advance>>  BY <1>3, <2>1, <2>3
  <2>4. CASE Proceed(r)
    <3>1. At(r, "sum")'  BY <1>1, <2>1, <2>4, SumFollows
    <3> QED BY <3>1 DEF TotalsAgree
  <2> QED BY <2>2, <2>3, <2>4
<1>13. CASE ReverseTranche(r)
  <2>1. At(r, "reverse") /\ Proceed(r) /\ calc' = calc  BY <1>13 DEF ReverseTranche
  <2>2. PICK rest : Course(job[r].kind, "reverse", rest)  BY <1>1, <2>1, AtStep
  <2>3. job[r].kind = "reverse_tranche"  BY <2>2 DEF Course
  <2>4. CASE HasCalc
    <3>1. First(job[r].todo, "reverse", <<"sum", "total">>)  BY <1>1, <2>1, <2>3, <2>4 DEF OnBook
    <3>2. At(r, "sum")'  BY <1>1, <2>1, <3>1, SumIsNext
    <3> QED BY <3>2 DEF TotalsAgree
  <2> QED BY <1>4, <2>1, <2>4
<1>14. CASE Raise(r)
  <2>1. At(r, "raise") /\ UNCHANGED <<calc, adjustment, payment, tranche>>  BY <1>14 DEF Raise
  <2>2. PICK a, s : /\ a = job[r].amount /\ s = job[r].to
                    /\ advance' = [advance EXCEPT !.approved = a, !.status = s]
    BY <1>14 DEF Raise
  <2>3. /\ advance'.status = s /\ advance'.approved = a /\ advance'.amount = advance.amount
        /\ advance'.expense = advance.expense
    BY <1>1, <2>2 DEF IsAdvance
  <2>4. a \in Nat
    <3>1. PICK rest : Course(job[r].kind, "raise", rest)  BY <1>1, <2>1, AtStep
    <3> QED BY <1>1, <2>2, <3>1, AmountAssumption DEF Course, OnAdvance
  <2>5. advance.amount < a
    <3>1. advance.approved < a  BY <1>1, <2>1, <2>2 DEF InBounds
    <3>2. advance.amount <= advance.approved  BY <1>1 DEF AdvanceStands
    <3> QED BY <1>1, <2>4, <3>1, <3>2 DEF IsAdvance
  <2>6. CASE advance.expense # None
    <3>1. advance'.approved # advance'.amount  BY <1>1, <2>3, <2>4, <2>5 DEF IsAdvance
    <3>2. Raised'  BY <2>3, <2>6, <3>1 DEF Raised
    <3> QED BY <3>2 DEF TotalsAgree
  <2>7. CASE advance.expense = None
    <3>1. ~Raised' /\ ~Raised  BY <2>3, <2>7 DEF Raised
    <3>2. /\ advance # NoAdvance
          /\ s = IF advance.status = "canceled" THEN "canceled" ELSE "approved"
      BY <1>1, <2>1, <2>2 DEF OnBook
    <3>3. advance.status \in {"requested", "approved", "paid", "canceled"}
      BY <1>1, <3>2 DEF AdvanceStands
    <3>4. advance.status = "paid" => AnyTranche
      <4>1. ASSUME NEW q \in Req, Pending(q) PROVE FALSE
        <5>1. q = r
          <6>1. q # r => job[q] = Idle  BY <1>1, OthersAreIdle
          <6> QED BY <4>1, <6>1, IdleKnows
        <5> QED BY <2>1, <4>1, <5>1 DEF Pending, At
      <4> QED BY <1>1, <2>7, <4>1 DEF AdvanceStands
    <3>5. Received(advance', tranche', payment') = Received(advance, tranche, payment)
      <4>1. CASE advance.status = "canceled"
        <5>1. s = "canceled"  BY <3>2, <4>1
        <5> QED BY <2>1, <2>3, <4>1, <5>1, ReceivedOf
      <4>2. CASE advance.status # "canceled"
        <5>1. s = "approved"  BY <3>2, <4>2
        <5> QED BY <2>1, <2>3, <3>3, <3>4, <4>2, <5>1 DEF Received, AdvancePaid, AnyTranche
      <4> QED BY <4>1, <4>2
    <3> QED BY <1>2, <2>1, <3>1, <3>5
  <2> QED BY <2>6, <2>7
<1> QED BY <1>6, <1>7, <1>9, <1>10, <1>11, <1>12, <1>13, <1>14 DEF WritesAdvance

\* Every statement keeps the totals those of the rows.
LEMMA StatementKeepsTotals ==
  ASSUME BookInv, Calm, NEW r \in Req, Statement(r)
  PROVE  TotalsAgree'
<1>1. Placed /\ TotalsAgree /\ OneSlot  BY DEF BookInv, PaymentInv, Calm
<1>2. CASE WritesBook(r)
  BY <1>2, PeriodKeepsTotals, AdvanceKeepsTotals DEF WritesBook
<1>3. CASE ~WritesBook(r)
  <2>1. UNCHANGED <<calc, adjustment, payment, advance, tranche>>  BY <1>3, BookStays
  <2>2. CASE At(r, "sum")
    <3>1. Does(r, "sum")  BY <1>1, <2>2, CalmStatement
    <3>2. Sum(r)  BY <3>1 DEF Does
    <3>3. CASE HasCalc
      <4>1. At(r, "total")'  BY <1>1, <3>2, <3>3, TotalIsNext
      <4> QED BY <4>1 DEF TotalsAgree
    <3>4. CASE ~HasCalc
      <4>1. calc'.status = "none"  BY <2>1, <3>4 DEF HasCalc, NoCalc
      <4> QED BY <4>1 DEF TotalsAgree, Computed
    <3> QED BY <3>3, <3>4
  <2>3. ~At(r, "total")
    <3>1. At(r, "total") => Does(r, "total")  BY <1>1, CalmStatement
    <3>2. Does(r, "total") => Total(r)  BY DEF Does
    <3> QED BY <1>3, <3>1, <3>2 DEF WritesBook
  <2>4. CASE ~At(r, "sum")
    <3>1. Pending(r) => Pending(r)'
      <4>1. ~PayAdvance(r)  BY <1>3 DEF WritesBook, WritesAdvance
      <4> QED BY <1>1, <4>1, PendingGoesOn
    <3>2. (Raised' <=> Raised) /\ (Computed' <=> Computed)  BY <2>1 DEF Raised, Computed
    <3> QED BY <1>1, <2>1, <2>3, <2>4, <3>1, <3>2, SameTotals
  <2> QED BY <2>2, <2>4
<1> QED BY <1>2, <1>3

\* At the start nothing is accrued, or what was approved.
LEMMA InitBook == Init => BookInv
<1> SUFFICES ASSUME Init PROVE BookInv  OBVIOUS
<1>1. PaymentInv /\ TrancheInv /\ Placed  BY InitPayments, InitTranches, InitPlaced
<1>2. /\ adjustment = [i \in Adjustment |-> NoRow] /\ payment = [k \in Key |-> NoRow]
      /\ advance = NoAdvance /\ tranche = [k \in Tranche |-> NoRow]
      /\ request = [q \in Request |-> NoRequest] /\ job = [r \in Req |-> Idle]
  BY DEF Init
<1>3. \A r \in Req : OnCalc(r) /\ OnBook(r) /\ ~Pending(r)  BY <1>2, IdleKnows
<1>4. AdvanceStands
  <2>1. ~AnyTranche  BY <1>2 DEF AnyTranche, NoRow
  <2>2. advance.status = "none" /\ advance.amount = 0 /\ advance.approved = 0
    BY <1>2 DEF NoAdvance
  <2> QED BY <1>2, <2>1, <2>2 DEF AdvanceStands
<1>5. CASE scenario.start = 0
  <2>1. calc = NoCalc /\ period = "none"  BY <1>5 DEF Init
  <2>2. IsCalc(calc) /\ calc.status = "none"  BY <2>1 DEF NoCalc, IsCalc
  <2>3. CalcRows  BY <1>2, <2>1, <2>2 DEF CalcRows, IsLocked
  <2>4. TotalsAgree  BY <2>2 DEF TotalsAgree, Computed
  <2> QED BY <1>1, <1>3, <1>4, <2>3, <2>4 DEF BookInv
<1>6. CASE scenario.start # 0
  <2>1. PICK a : a = scenario.start /\ a \in Nat
    BY <1>1, ScenarioAssumption, AmountAssumption DEF Placed
  <2>2. calc = [NoCalc EXCEPT !.status = "approved", !.base = a, !.auto = a, !.net = a]
    BY <1>6, <2>1 DEF Init, Approved
  <2>3. /\ IsCalc(calc) /\ calc.status = "approved" /\ calc.auto = a /\ calc.net = a
        /\ calc.paid = 0
    BY <2>2 DEF NoCalc, IsCalc
  <2>4. HasCalc  BY <2>3 DEF HasCalc, NoCalc
  <2>5. CalcRows  BY <2>3, <2>4 DEF CalcRows
  <2>6. StatusTotal(adjustment, "approved") = 0 /\ StatusTotal(payment, "confirmed") = 0
    BY <1>2, NoneHasStatus DEF NoRow
  <2>7. Accrued(calc, adjustment) = calc.net  BY <2>1, <2>3, <2>6 DEF Accrued
  <2>8. Received(advance, tranche, payment) = calc.paid
    BY <1>2, <2>3, <2>6 DEF Received, AdvancePaid, NoAdvance
  <2>9. TotalsAgree  BY <2>7, <2>8 DEF TotalsAgree, Right
  <2> QED BY <1>1, <1>3, <1>4, <2>5, <2>9 DEF BookInv
<1> QED BY <1>5, <1>6

\* What a handler that begins knows of the calculation.
LEMMA BegunOnCalc ==
  ASSUME Placed, Placed', CalcRows, NEW r \in Req, NEW j, job'[r] = j,
         UNCHANGED <<calc, period>>,
         BegunOnPeriod(j) \/ BegunOnAdvance(j) \/ BegunOnRequest(j) \/ BegunOnPage(j)
  PROVE  OnCalc(r)'
<1>1. ASSUME NEW t, At(r, t)' PROVE Enters(j.kind, t)
  <2>1. Enters(j.kind, Head(j.todo))  BY EntersAt
  <2>2. t = Head(j.todo)  BY <1>1 DEF At
  <2> QED BY <2>1, <2>2
<1>2. \A t \in {"total", "debt", "shut", "issue", "payout", "remainder"} : ~At(r, t)'
  BY <1>1 DEF Enters
<1>3. j.kind \in {"payment", "propose"} => HasCalc
  BY DEF BegunOnPeriod, BegunOnAdvance, BegunOnRequest, BegunOnPage, HasCalc
<1>4. j.kind = "generate" => ~IsLocked(period)
  BY DEF BegunOnPeriod, BegunOnAdvance, BegunOnRequest, BegunOnPage
<1>5. ASSUME At(r, "seed")' PROVE j.amount = 0 \/ First(j.todo, "seed", <<"sum", "total">>)
  <2>1. j.kind = "generate"  BY <1>1, <1>5 DEF Enters
  <2>2. j.amount = 0 \/ j.todo = <<"seed", "sum", "total">>
    BY <2>1 DEF BegunOnPeriod, BegunOnAdvance, BegunOnRequest, BegunOnPage
  <2> QED BY <2>2, Firsts
<1>6. ASSUME At(r, "move")'
      PROVE  /\ IsLocked(j.to) => calc.status # "draft"
             /\ First(j.todo, "move", <<"remainder", "debt", "shut">>) => j.to = "closed"
  <2>1. j.kind = "transition"  BY <1>1, <1>6 DEF Enters
  <2>2. PICK action \in PayrollAction :
          /\ period \in Moves[action].from
          /\ j.todo = Consequences(action) /\ j.to = Moves[action].to
          /\ action \in {"regional_approve", "accounting_approve"} => calc.status # "draft"
    BY <2>1 DEF BegunOnPeriod, BegunOnAdvance, BegunOnRequest, BegunOnPage
  <2>3. action \in {"submit", "start_regional_review", "return_for_correction",
                    "regional_approve", "start_accounting_review", "accounting_approve",
                    "mark_partially_paid", "mark_paid", "close"}
    BY DEF PayrollAction, Moves
  <2>4. IsLocked(j.to) =>
          action \in {"accounting_approve", "mark_partially_paid", "mark_paid", "close"}
    BY <2>2, <2>3 DEF Moves, Move, IsLocked
  <2>5. action \in {"mark_partially_paid", "mark_paid", "close"} => IsLocked(period)
    BY <2>2 DEF Moves, Move, IsLocked
  <2>6. IsLocked(j.to) => calc.status # "draft"
    BY <2>2, <2>4, <2>5 DEF CalcRows
  <2>7. ASSUME First(j.todo, "move", <<"remainder", "debt", "shut">>) PROVE j.to = "closed"
    <3>1. CASE action = "close"  BY <2>2, <3>1 DEF Moves, Move
    <3>2. CASE action = "accounting_approve"
      <4>1. j.todo = <<"move", "lock", "bill", "owe">>  BY <2>2, <3>2 DEF Consequences
      <4>2. First(j.todo, "move", <<"lock", "bill", "owe">>)  BY <4>1, Firsts
      <4>3. <<"lock", "bill", "owe">> = <<"remainder", "debt", "shut">>
        BY <2>7, <4>2, OneRemainder
      <4> QED BY <4>3
    <3>3. CASE action \notin {"close", "accounting_approve"}
      <4>1. j.todo = <<"move">>  BY <2>2, <2>3, <3>3 DEF Consequences
      <4> QED BY <2>7, <4>1 DEF First
    <3> QED BY <3>1, <3>2, <3>3
  <2> QED BY <2>6, <2>7
<1> QED BY <1>2, <1>3, <1>4, <1>5, <1>6 DEF OnCalc, HasCalc, IsLocked

\* What it knows of the advance.
LEMMA BegunOnBook ==
  ASSUME Placed, Placed', NEW r \in Req, NEW j, job'[r] = j, UNCHANGED <<calc, advance>>,
         BegunOnPeriod(j) \/ BegunOnAdvance(j) \/ BegunOnRequest(j) \/ BegunOnPage(j)
  PROVE  OnBook(r)'
<1>1. ASSUME NEW t, At(r, t)' PROVE Enters(j.kind, t)
  <2>1. Enters(j.kind, Head(j.todo))  BY EntersAt
  <2>2. t = Head(j.todo)  BY <1>1 DEF At
  <2> QED BY <2>1, <2>2
<1>2. \A t \in {"total", "issue", "payout", "commit", "reverse"} : ~At(r, t)'
  BY <1>1 DEF Enters
<1>3. ~Pending(r)'
  <2>1. At(r, "fold")' => j.kind # "employee_advance"  BY <1>1 DEF Enters
  <2> QED BY <1>2, <2>1 DEF Pending
<1>4. j.kind = "approve_advance" => advance.amount = j.amount
  BY DEF BegunOnPeriod, BegunOnAdvance, BegunOnRequest, BegunOnPage
<1>5. ASSUME At(r, "raise")'
      PROVE  /\ advance # NoAdvance
             /\ j.to = IF advance.status = "canceled" THEN "canceled" ELSE "approved"
  <2>1. j.kind = "raise"  BY <1>1, <1>5 DEF Enters
  <2> QED BY <2>1 DEF BegunOnPeriod, BegunOnAdvance, BegunOnRequest, BegunOnPage
<1>6. ASSUME j.kind = "reverse_tranche", HasCalc
      PROVE  First(j.todo, "refund", <<"reverse", "sum", "total">>)
  <2>1. j.todo = <<"refund", "reverse", "sum", "total">>
    BY <1>6 DEF BegunOnPeriod, BegunOnAdvance, BegunOnRequest, BegunOnPage, HasCalc
  <2> QED BY <2>1, Firsts
<1> QED BY <1>2, <1>3, <1>4, <1>5, <1>6 DEF OnBook, InTime, HasCalc

\* A handler that begins changes no row.
LEMMA BegunKeepsBook ==
  ASSUME BookInv, Calm, NEW r \in Req, HasBegun(r)
  PROVE  CalcRows' /\ AdvanceStands' /\ TotalsAgree' /\ \A q \in Req : (OnCalc(q) /\ OnBook(q))'
<1>1. PICK j : /\ Begin(r, j) /\ IsJob(j)
               /\ \/ BegunOnPeriod(j)
                  \/ BegunOnAdvance(j)
                  \/ BegunOnRequest(j)
                  \/ BegunOnPage(j)
  BY DEF HasBegun
<1>2. Placed' /\ Placed /\ CalcRows /\ AdvanceStands /\ TotalsAgree
  BY BegunKeepsPlaced DEF BookInv, PaymentInv
<1>3. /\ job'[r] = j /\ job[r] = Idle /\ \A q \in Req : q # r => job'[q] = job[q]
      /\ UNCHANGED <<period, calc, adjustment, payment, advance, tranche, request, scenario>>
  BY <1>1, <1>2 DEF Begin, Placed, rows
<1>4. CalcRows'  BY <1>2, <1>3 DEF CalcRows, HasCalc, IsLocked
<1>5. \A t : ~At(r, t)  BY <1>3, IdleKnows
<1>6. ~Pending(r)  BY <1>3, IdleKnows
<1>7. \A q \in Req : (Pending(q) => Pending(q)') /\ \A t : At(q, t) => At(q, t)'
  BY <1>3, <1>5, <1>6 DEF Pending, At
<1>8. AdvanceStands'  BY <1>2, <1>3, <1>7 DEF AdvanceStands, AnyTranche
<1>9. TotalsAgree'
  <2>1. (Raised' <=> Raised) /\ (Computed' <=> Computed) /\ (Right' <=> Right)
    BY <1>3 DEF Raised, Computed, Right
  <2> QED BY <1>2, <1>7, <2>1 DEF TotalsAgree
<1>10. ASSUME NEW q \in Req PROVE (OnCalc(q) /\ OnBook(q))'
  <2>1. CASE q = r  BY <1>1, <1>2, <1>3, <2>1, BegunOnCalc, BegunOnBook
  <2>2. CASE q # r
    <3>1. OnCalc(q) /\ OnBook(q) /\ job'[q] = job[q]  BY <1>3, <2>2 DEF BookInv
    <3>2. OnCalc(q)'  BY <1>3, <3>1 DEF OnCalc, At, HasCalc, IsLocked
    <3>3. OnBook(q)'
      BY <1>3, <3>1 DEF OnBook, Pending, InTime, Fails, At, HasCalc, PaidAtOnce
    <3> QED BY <3>2, <3>3
  <2> QED BY <2>1, <2>2
<1> QED BY <1>4, <1>8, <1>9, <1>10

\* Every step keeps the totals, and what the handlers know of them.
LEMMA NextKeepsBook ==
  ASSUME BookInv, [Next]_vars
  PROVE  BookInv'
<1>1. PaymentInv' /\ TrancheInv' /\ Placed
  BY NextKeepsPayments, NextKeepsTranches DEF BookInv, PaymentInv
<1> SUFFICES ASSUME Calm'
             PROVE  CalcRows' /\ AdvanceStands' /\ TotalsAgree'
                    /\ \A q \in Req : (OnCalc(q) /\ OnBook(q))'
  BY <1>1 DEF BookInv
<1>2. ASSUME NEW r \in Req, HasBegun(r)
      PROVE  CalcRows' /\ AdvanceStands' /\ TotalsAgree'
             /\ \A q \in Req : (OnCalc(q) /\ OnBook(q))'
  <2>1. scenario' = scenario  BY <1>2 DEF HasBegun, Begin
  <2>2. Calm  BY <2>1 DEF Calm, OneSlot
  <2> QED BY <1>2, <2>2, BegunKeepsBook
<1>3. ASSUME NEW r \in Req, Statement(r)
      PROVE  CalcRows' /\ AdvanceStands' /\ TotalsAgree'
             /\ \A q \in Req : (OnCalc(q) /\ OnBook(q))'
  <2>1. scenario' = scenario  BY <1>1, <1>3, StatementSteps DEF Stepped
  <2>2. Calm  BY <2>1 DEF Calm, OneSlot
  <2>3. /\ PaymentInv /\ TrancheInv /\ CalcRows /\ AdvanceStands /\ OneSlot /\ OnCalc(r)
        /\ OnBook(r)
    BY <2>2 DEF BookInv, Calm
  <2>4. CalcRows'  BY <1>3, <2>3, StatementKeepsCalcRows
  <2>5. AdvanceStands'  BY <1>3, <2>2, <2>3, StatementKeepsAdvance
  <2>6. TotalsAgree'  BY <1>3, <2>2, StatementKeepsTotals
  <2>7. ASSUME NEW q \in Req PROVE (OnCalc(q) /\ OnBook(q))'
    <3>1. OnCalc(q)'  BY <1>3, <2>3, StatementKeepsOnCalc
    <3>2. OnBook(q)'  BY <1>3, <2>2, <2>3, StatementKeepsOnBook
    <3> QED BY <3>1, <3>2
  <2> QED BY <2>4, <2>5, <2>6, <2>7
<1>4. CASE UNCHANGED vars
  <2>1. /\ UNCHANGED <<period, calc, adjustment, payment, advance, tranche, request, scenario>>
        /\ job' = job
    BY <1>4 DEF vars, rows
  <2>2. Calm  BY <2>1 DEF Calm, OneSlot
  <2>3. CalcRows /\ AdvanceStands /\ TotalsAgree /\ \A q \in Req : OnCalc(q) /\ OnBook(q)
    BY <2>2 DEF BookInv
  <2>4. CalcRows'  BY <2>1, <2>3 DEF CalcRows, HasCalc, IsLocked
  <2>5. \A q \in Req : (Pending(q)' <=> Pending(q)) /\ \A t : At(q, t)' <=> At(q, t)
    BY <2>1 DEF Pending, At
  <2>6. AdvanceStands'  BY <2>1, <2>3, <2>5 DEF AdvanceStands, AnyTranche
  <2>7. (Raised' <=> Raised) /\ (Computed' <=> Computed) /\ (Right' <=> Right)
    BY <2>1 DEF Raised, Computed, Right
  <2>8. TotalsAgree'  BY <2>3, <2>5, <2>7 DEF TotalsAgree
  <2>9. \A q \in Req : OnCalc(q)'  BY <2>1, <2>3 DEF OnCalc, At, HasCalc, IsLocked
  <2>10. \A q \in Req : OnBook(q)'
    BY <2>1, <2>3 DEF OnBook, Pending, InTime, Fails, At, HasCalc, PaidAtOnce
  <2> QED BY <2>4, <2>6, <2>8, <2>9, <2>10
<1> QED BY <1>2, <1>3, <1>4, NextIs

(* Where one request is handled at a time and none is broken off, the      *)
(* totals of a calculation that has been computed are, between two         *)
(* requests, those of the rows: what is accrued is the automatic part and  *)
(* the adjustments that stand, and what was received the advance and the   *)
(* payments, whichever of the handlers of periods, payments, advances and  *)
(* change requests last wrote one of them.  The advance whose amount was   *)
(* raised after it was paid is left aside, as in the property.             *)
THEOREM TotalsFollowRows ==
  ASSUME IsFiniteSet(Req),
         \A s \in Scenarios : Cardinality(s.slots) = 1 =>
           "crash" \notin s.calls /\ "failure" \notin s.calls
  PROVE  Spec => []TotalsMatchRows
<1>1. Init => BookInv  BY InitBook
<1>2. BookInv /\ [Next]_vars => BookInv'  BY NextKeepsBook
<1>3. BookInv => TotalsMatchRows
  <2> SUFFICES ASSUME BookInv, Quiet, Computed, ~Raised
               PROVE  calc.net = AccruedNet(calc.auto) /\ calc.paid = PaidTotal(advance, payment)
    BY DEF TotalsMatchRows, Computed
  <2>1. Serial /\ scenario \in Scenarios /\ \A r \in Req : job[r] = Idle
    BY DEF Quiet, BookInv, PaymentInv, Placed
  <2>2. scenario.slots \subseteq Req  BY <2>1, ScenarioAssumption
  <2>3. IsFiniteSet(scenario.slots) /\ Cardinality(scenario.slots) = 1
    BY <2>1, <2>2, FS_Subset DEF Serial
  <2>4. PICK x : scenario.slots = {x}  BY <2>3, FS_Singleton
  <2>5. Calm  BY <2>1, <2>3, <2>4 DEF Calm, OneSlot
  <2>6. \A r \in Req : ~At(r, "sum") /\ ~At(r, "total") /\ ~Pending(r)
    BY <2>1, IdleKnows
  <2>7. Right  BY <2>5, <2>6 DEF BookInv, TotalsAgree
  <2> QED BY <2>7, AccruedByRows, ReceivedByRows DEF Right
<1> QED BY <1>1, <1>2, <1>3, PTL DEF Spec

-----------------------------------------------------------------------------
(* The closing of a month.                                                 *)

-----------------------------------------------------------------------------
(* The inductive invariant.                                                *)

\* An owner who did not ask for request q has decided on it.
ReviewedByAnother(q) ==
  reopening[q].reviewer \in OwnerOf /\ reopening[q].reviewer # reopening[q].by

\* Whatever has left "pending" was decided by another owner.
DecisionsAreReviewed ==
  \A q \in DOMAIN reopening : reopening[q].status # "pending" => ReviewedByAnother(q)

\* The owner of a review under way did not ask for the request; an execution
\* under way started from a decided request.
JobsAreEntitled ==
  \A r \in Slot :
    /\ handler[r].kind \in {"approve", "reject"} =>
         /\ handler[r].id \in DOMAIN reopening
         /\ handler[r].by \in OwnerOf /\ handler[r].by # reopening[handler[r].id].by
    /\ handler[r].kind = "execute" =>
         /\ handler[r].id \in DOMAIN reopening
         /\ reopening[handler[r].id].status # "pending"

\* What has reopened the month is a request that exists and was decided.
ExecutionsAreDecided ==
  \A q \in RequestId :
    executed[q] > 0 => q \in DOMAIN reopening /\ reopening[q].status # "pending"

IInv == TypeOK /\ DecisionsAreReviewed /\ JobsAreEntitled /\ ExecutionsAreDecided

-----------------------------------------------------------------------------
(* Type correctness.                                                       *)

\* A job is known by its kind: each handler leaves a record of its own set.
LEMMA JobKinds ==
  ASSUME NEW j \in Handler
  PROVE  /\ j.kind = "close" => j \in CloseJob
         /\ j.kind = "ask" => j \in AskJob
         /\ j.kind \in {"approve", "reject"} => j \in ReviewJob
         /\ j.kind = "execute" => j \in ExecuteJob
BY DEF Handler, Free, CloseJob, AskJob, ReviewJob, ExecuteJob

\* A slot that is freed leaves the jobs well typed.
LEMMA FinishTyped ==
  ASSUME TypeOK, NEW r \in Slot, Stop(r)
  PROVE  handler' \in [Slot -> Handler]
BY DEF TypeOK, Stop, Handler

\* A slot that takes a well typed job leaves the state well typed.
LEMMA BeginTyped ==
  ASSUME TypeOK, NEW r \in Slot, NEW j \in Handler, Start(r, j)
  PROVE  TypeOK'
BY DEF TypeOK, Start

\* A closing writes "closed" into the row it found or into a new one.
LEMMA WriteCloseTyped ==
  ASSUME TypeOK, NEW r \in Slot, WriteClose(r)
  PROVE  TypeOK'
<1>1. DOMAIN close' \subseteq CloseRow /\ close' \in [DOMAIN close' -> {"open", "closed"}]
  <2>1. CASE close' = [close EXCEPT ![handler[r].row] = "closed"]
    BY <2>1 DEF TypeOK
  <2>2. CASE \E w \in CloseRow \ DOMAIN close : close' = Extend(close, w, "closed")
    <3>1. PICK w \in CloseRow \ DOMAIN close : close' = Extend(close, w, "closed")
      BY <2>2
    <3>2. w \in CloseRow /\ "closed" \in {"open", "closed"}
      OBVIOUS
    <3>3. QED BY <3>1, <3>2 DEF TypeOK, Extend
  <2>3. QED BY <2>1, <2>2 DEF WriteClose
<1>2. QED
  BY <1>1, FinishTyped DEF TypeOK, WriteClose

\* A request is created pending and without a reviewer.
LEMMA CreateRequestTyped ==
  ASSUME TypeOK, NEW r \in Slot, CreateRequest(r)
  PROVE  TypeOK'
<1>1. handler[r] \in AskJob
  BY JobKinds DEF TypeOK, CreateRequest, Running
<1>2. PICK q \in RequestId \ DOMAIN reopening :
        reopening' = Extend(reopening, q,
          [status |-> "pending", by |-> handler[r].by, reviewer |-> NoUser])
  BY DEF CreateRequest
<1>3. [status |-> "pending", by |-> handler[r].by, reviewer |-> NoUser] \in Reopening
  BY <1>1 DEF AskJob, Reopening
<1>4. DOMAIN reopening' \subseteq RequestId /\ reopening' \in [DOMAIN reopening' -> Reopening]
  <2> DEFINE new == [status |-> "pending", by |-> handler[r].by, reviewer |-> NoUser]
  <2>1. new \in Reopening /\ reopening' = Extend(reopening, q, new)
    BY <1>2, <1>3
  <2> HIDE DEF new
  <2>2. QED BY <2>1 DEF TypeOK, Extend
<1>5. QED
  BY <1>4, FinishTyped DEF TypeOK, CreateRequest

\* A review writes its decision and its owner into one request.
LEMMA WriteReviewTyped ==
  ASSUME TypeOK, NEW r \in Slot, WriteReview(r)
  PROVE  TypeOK'
<1>1. handler[r] \in ReviewJob
  BY JobKinds DEF TypeOK, WriteReview
<1>2. DOMAIN reopening' = DOMAIN reopening /\ reopening' \in [DOMAIN reopening -> Reopening]
  <2> DEFINE j        == handler[r]
             decision == IF j.kind = "approve" THEN "approved" ELSE "rejected"
             decided  == [reopening[j.id] EXCEPT !.status = decision, !.reviewer = j.by]
  <2>1. reopening' = [reopening EXCEPT ![j.id] = decided]
    BY DEF WriteReview
  <2>2. ASSUME j.id \in DOMAIN reopening PROVE decided \in Reopening
    BY <1>1, <2>2 DEF TypeOK, ReviewJob, Reopening
  <2> HIDE DEF decided
  <2>3. QED BY <2>1, <2>2 DEF TypeOK
<1>3. QED
  BY <1>2, FinishTyped DEF TypeOK, WriteReview

\* An execution moves on with one of the closed rows, or ends.
LEMMA FindClosedTyped ==
  ASSUME TypeOK, NEW r \in Slot, FindClosed(r)
  PROVE  TypeOK'
<1>1. handler[r] \in ExecuteJob
  BY JobKinds DEF TypeOK, FindClosed, Running
<1>2. handler' \in [Slot -> Handler]
  <2>1. CASE Stop(r)
    BY <2>1, FinishTyped
  <2>2. CASE \E w \in DOMAIN close : handler' = [handler EXCEPT ![r].pc = "claim", ![r].row = w]
    <3>1. PICK w \in DOMAIN close : handler' = [handler EXCEPT ![r].pc = "claim", ![r].row = w]
      BY <2>2
    <3>2. [handler[r] EXCEPT !.pc = "claim", !.row = w] \in ExecuteJob
      BY <1>1 DEF ExecuteJob, TypeOK
    <3>3. QED BY <3>1, <3>2 DEF TypeOK, Handler
  <2>3. QED BY <2>1, <2>2 DEF FindClosed
<1>3. QED
  BY <1>2 DEF TypeOK, FindClosed

\* A claim moves on to the commit, or ends.
LEMMA ClaimRequestTyped ==
  ASSUME TypeOK, NEW r \in Slot, ClaimRequest(r)
  PROVE  TypeOK'
<1>1. handler[r] \in ExecuteJob
  BY JobKinds DEF TypeOK, ClaimRequest, Running
<1>2. [handler[r] EXCEPT !.pc = "commit"] \in Handler
  BY <1>1 DEF ExecuteJob, Handler
<1>3. QED
  BY <1>2, FinishTyped DEF TypeOK, ClaimRequest

\* A commit opens one row, marks one request and counts one execution.
LEMMA CommitExecuteTyped ==
  ASSUME TypeOK, NEW r \in Slot, CommitExecute(r)
  PROVE  TypeOK'
<1>1. DOMAIN close' = DOMAIN close /\ close' \in [DOMAIN close -> {"open", "closed"}]
  BY DEF TypeOK, CommitExecute
<1>2. DOMAIN reopening' = DOMAIN reopening /\ reopening' \in [DOMAIN reopening -> Reopening]
  <2> DEFINE done == [reopening[handler[r].id] EXCEPT !.status = "executed"]
  <2>1. reopening' = [reopening EXCEPT ![handler[r].id] = done]
    BY DEF CommitExecute
  <2>2. ASSUME handler[r].id \in DOMAIN reopening PROVE done \in Reopening
    BY <2>2 DEF TypeOK, Reopening
  <2> HIDE DEF done
  <2>3. QED BY <2>1, <2>2 DEF TypeOK
<1>3. executed' \in [RequestId -> 0 .. MaxExecuted]
  <2>1. \A n \in 0 .. MaxExecuted : (IF n < MaxExecuted THEN n + 1 ELSE n) \in 0 .. MaxExecuted
    BY BoundAssumption
  <2>2. QED BY <2>1 DEF TypeOK, CommitExecute
<1>4. QED
  BY <1>1, <1>2, <1>3, FinishTyped DEF TypeOK, CommitExecute

\* Every new request of the server starts with a well typed job.
LEMMA ArriveTyped ==
  ASSUME TypeOK, NEW r \in Slot, Arrive(r)
  PROVE  TypeOK'
<1>1. PICK u \in Person :
        \/ BeginClose(r, u)
        \/ BeginAsk(r, u)
        \/ \E q \in DOMAIN reopening :
             \/ BeginReview(r, u, "approve", q) \/ BeginReview(r, u, "reject", q)
             \/ BeginExecute(r, u, q)
  BY DEF Arrive
<1>2. CASE BeginClose(r, u)
  <2>1. PICK w \in AnyOf(DOMAIN close) :
          Start(r, [pc |-> "write", kind |-> "close", row |-> w])
    BY <1>2 DEF BeginClose
  <2>2. [pc |-> "write", kind |-> "close", row |-> w] \in Handler
    BY DEF AnyOf, TypeOK, Handler, CloseJob
  <2>3. QED BY <2>1, <2>2, BeginTyped
<1>3. CASE BeginAsk(r, u)
  <2>1. [pc |-> "active", kind |-> "ask", by |-> u] \in Handler
    BY DEF Handler, AskJob
  <2>2. QED BY <1>3, <2>1, BeginTyped DEF BeginAsk
<1>4. ASSUME NEW q \in DOMAIN reopening, NEW kind \in {"approve", "reject"},
             BeginReview(r, u, kind, q)
      PROVE  TypeOK'
  <2>1. [pc |-> "write", kind |-> kind, by |-> u, id |-> q] \in Handler
    BY DEF TypeOK, Handler, ReviewJob
  <2>2. QED BY <1>4, <2>1, BeginTyped DEF BeginReview
<1>5. ASSUME NEW q \in DOMAIN reopening, BeginExecute(r, u, q)
      PROVE  TypeOK'
  <2>1. [pc |-> "find", kind |-> "execute", id |-> q, row |-> NoClose] \in Handler
    BY DEF TypeOK, Handler, ExecuteJob
  <2>2. QED BY <1>5, <2>1, BeginTyped DEF BeginExecute
<1>6. QED
  BY <1>1, <1>2, <1>3, <1>4, <1>5

\* No step leaves the types.
LEMMA NextTyped == TypeOK /\ [MonthNext]_monthVars => TypeOK'
<1> SUFFICES ASSUME TypeOK, [MonthNext]_monthVars PROVE TypeOK'
  OBVIOUS
<1>1. CASE UNCHANGED monthVars
  BY <1>1 DEF TypeOK, monthVars
<1>2. ASSUME NEW r \in Slot, Arrive(r) \/ GoOn(r) \/ Die(r) PROVE TypeOK'
  <2>1. CASE Arrive(r)
    BY <2>1, ArriveTyped
  <2>2. CASE FindActive(r)
    <3>1. handler[r] \in AskJob
      BY <2>2, JobKinds DEF TypeOK, FindActive, Running
    <3>2. [handler[r] EXCEPT !.pc = "create"] \in Handler
      BY <3>1 DEF AskJob, Handler
    <3>3. QED BY <2>2, <3>2, FinishTyped DEF TypeOK, FindActive
  <2>3. CASE Die(r)
    BY <2>3, FinishTyped DEF TypeOK, Die
  <2>4. QED
    BY <1>2, <2>1, <2>2, <2>3, WriteCloseTyped, CreateRequestTyped, WriteReviewTyped,
       FindClosedTyped, ClaimRequestTyped, CommitExecuteTyped DEF GoOn
<1>3. QED
  BY <1>1, <1>2 DEF MonthNext

\* Every reachable state is well typed (month-close-actions.ts and
\* month-reopen-actions.ts write only what their tables may hold).
THEOREM TypeCorrect == MonthSpec => []TypeOK
<1>1. MonthInit => TypeOK
  BY BoundAssumption DEF MonthInit, TypeOK, Handler
<1>2. QED
  BY <1>1, NextTyped, PTL DEF MonthSpec

-----------------------------------------------------------------------------
(* Four eyes.                                                              *)

\* A step that changes no request and counts no execution keeps the decisions.
LEMMA RequestsUntouched ==
  ASSUME IInv, TypeOK', UNCHANGED <<reopening, executed>>, JobsAreEntitled'
  PROVE  IInv'
BY DEF IInv, DecisionsAreReviewed, ReviewedByAnother, ExecutionsAreDecided

\* A slot that is freed is entitled to nothing.
LEMMA FinishEntitled ==
  ASSUME TypeOK, JobsAreEntitled, NEW r \in Slot, Stop(r), UNCHANGED reopening
  PROVE  JobsAreEntitled'
BY DEF TypeOK, JobsAreEntitled, Stop, Free

\* A slot that starts a handler takes over what its handler has checked.
LEMMA BeginEntitled ==
  ASSUME IInv, TypeOK', NEW r \in Slot, NEW j, Start(r, j),
         j.kind \in {"approve", "reject"} =>
           /\ j.id \in DOMAIN reopening
           /\ j.by \in OwnerOf /\ j.by # reopening[j.id].by,
         j.kind = "execute" =>
           j.id \in DOMAIN reopening /\ reopening[j.id].status # "pending"
  PROVE  IInv'
<1>1. JobsAreEntitled'
  BY DEF IInv, TypeOK, JobsAreEntitled, Start
<1>2. QED
  BY <1>1, RequestsUntouched DEF Start

\* A handler starts only when its caller may go through with it.
LEMMA ArriveEntitled ==
  ASSUME IInv, TypeOK', NEW r \in Slot, Arrive(r)
  PROVE  IInv'
<1>1. PICK u \in Person :
        \/ BeginClose(r, u)
        \/ BeginAsk(r, u)
        \/ \E q \in DOMAIN reopening :
             \/ BeginReview(r, u, "approve", q) \/ BeginReview(r, u, "reject", q)
             \/ BeginExecute(r, u, q)
  BY DEF Arrive
<1>2. CASE BeginClose(r, u)
  <2>1. PICK w \in AnyOf(DOMAIN close) :
          Start(r, [pc |-> "write", kind |-> "close", row |-> w])
    BY <1>2 DEF BeginClose
  <2>2. QED BY <2>1, BeginEntitled
<1>3. CASE BeginAsk(r, u)
  BY <1>3, BeginEntitled DEF BeginAsk
<1>4. ASSUME NEW q \in DOMAIN reopening, NEW kind \in {"approve", "reject"},
             BeginReview(r, u, kind, q)
      PROVE  IInv'
  BY <1>4, BeginEntitled DEF BeginReview
<1>5. ASSUME NEW q \in DOMAIN reopening, BeginExecute(r, u, q)
      PROVE  IInv'
  BY <1>5, BeginEntitled DEF BeginExecute
<1>6. QED
  BY <1>1, <1>2, <1>3, <1>4, <1>5

\* A request is created pending: it is entitled to nothing yet.
LEMMA CreateRequestEntitled ==
  ASSUME IInv, TypeOK', NEW r \in Slot, CreateRequest(r)
  PROVE  IInv'
<1>1. PICK q \in RequestId \ DOMAIN reopening :
        reopening' = Extend(reopening, q,
          [status |-> "pending", by |-> handler[r].by, reviewer |-> NoUser])
  BY DEF CreateRequest
<1>2. /\ DOMAIN reopening' = DOMAIN reopening \cup {q}
      /\ reopening'[q].status = "pending"
      /\ \A p \in DOMAIN reopening : reopening'[p] = reopening[p]
  BY <1>1 DEF Extend
<1>3. DecisionsAreReviewed'
  BY <1>2 DEF IInv, DecisionsAreReviewed, ReviewedByAnother
<1>4. JobsAreEntitled'
  BY <1>2 DEF IInv, TypeOK, JobsAreEntitled, CreateRequest, Stop, Free
<1>5. ExecutionsAreDecided'
  BY <1>2 DEF IInv, ExecutionsAreDecided, CreateRequest
<1>6. QED
  BY <1>3, <1>4, <1>5 DEF IInv

\* A step that decides or executes one request, and leaves its author alone,
\* keeps every job entitled.
LEMMA DecideEntitled ==
  ASSUME IInv, NEW r \in Slot, Stop(r), NEW q \in DOMAIN reopening,
         DOMAIN reopening' = DOMAIN reopening,
         reopening'[q].by = reopening[q].by, reopening'[q].status # "pending",
         \A p \in DOMAIN reopening \ {q} : reopening'[p] = reopening[p]
  PROVE  JobsAreEntitled'
<1> SUFFICES ASSUME NEW s \in Slot
    PROVE  /\ handler'[s].kind \in {"approve", "reject"} =>
                /\ handler'[s].id \in DOMAIN reopening
                /\ handler'[s].by \in OwnerOf /\ handler'[s].by # reopening'[handler'[s].id].by
           /\ handler'[s].kind = "execute" =>
                /\ handler'[s].id \in DOMAIN reopening
                /\ reopening'[handler'[s].id].status # "pending"
  BY DEF JobsAreEntitled
<1>1. CASE s = r
  BY <1>1 DEF IInv, TypeOK, Stop, Free
<1>2. CASE s # r
  <2>1. handler'[s] = handler[s]
    BY <1>2 DEF IInv, TypeOK, Stop
  <2>2. QED
    BY <2>1 DEF IInv, JobsAreEntitled
<1>3. QED
  BY <1>1, <1>2

\* A review decides in the name of an owner who did not ask.
LEMMA WriteReviewEntitled ==
  ASSUME IInv, TypeOK', NEW r \in Slot, WriteReview(r)
  PROVE  IInv'
<1> DEFINE j        == handler[r]
           q        == j.id
           decision == IF j.kind = "approve" THEN "approved" ELSE "rejected"
<1>1. q \in DOMAIN reopening /\ j.by \in OwnerOf /\ j.by # reopening[q].by
  BY DEF WriteReview, IInv, JobsAreEntitled
<1>2. q \in RequestId /\ reopening[q] \in Reopening
  BY <1>1 DEF IInv, TypeOK
<1>3. reopening' = [reopening EXCEPT ![q] = [@ EXCEPT !.status = decision, !.reviewer = j.by]]
  BY DEF WriteReview
<1>4. /\ DOMAIN reopening' = DOMAIN reopening
      /\ reopening'[q] = [reopening[q] EXCEPT !.status = decision, !.reviewer = j.by]
      /\ \A p \in DOMAIN reopening \ {q} : reopening'[p] = reopening[p]
  BY <1>1, <1>3
<1>5. /\ reopening'[q].status = decision
      /\ reopening'[q].reviewer = j.by
      /\ reopening'[q].by = reopening[q].by
  BY <1>2, <1>4 DEF Reopening
<1>6. decision # "pending"
  OBVIOUS
<1> HIDE DEF j, decision
<1>7. DecisionsAreReviewed'
  BY <1>1, <1>4, <1>5 DEF IInv, DecisionsAreReviewed, ReviewedByAnother
<1>8. JobsAreEntitled'
  BY <1>1, <1>4, <1>5, <1>6, DecideEntitled DEF WriteReview
<1>9. ExecutionsAreDecided'
  BY <1>1, <1>4, <1>5, <1>6 DEF IInv, ExecutionsAreDecided, WriteReview
<1>10. QED
  BY <1>7, <1>8, <1>9 DEF IInv

\* An execution counts for a request that was decided before it started.
LEMMA CommitExecuteEntitled ==
  ASSUME IInv, TypeOK', NEW r \in Slot, CommitExecute(r)
  PROVE  IInv'
<1> DEFINE q == handler[r].id
<1>1. q \in DOMAIN reopening /\ reopening[q].status # "pending"
  BY DEF CommitExecute, Running, IInv, JobsAreEntitled
<1>2. q \in RequestId /\ reopening[q] \in Reopening
  BY <1>1 DEF IInv, TypeOK
<1>3. reopening' = [reopening EXCEPT ![q] = [@ EXCEPT !.status = "executed"]]
  BY DEF CommitExecute
<1>4. /\ DOMAIN reopening' = DOMAIN reopening
      /\ reopening'[q] = [reopening[q] EXCEPT !.status = "executed"]
      /\ \A p \in DOMAIN reopening \ {q} : reopening'[p] = reopening[p]
  BY <1>1, <1>3
<1>5. /\ reopening'[q].status = "executed"
      /\ reopening'[q].reviewer = reopening[q].reviewer
      /\ reopening'[q].by = reopening[q].by
  BY <1>2, <1>4 DEF Reopening
<1>6. \A p \in RequestId \ {q} : executed'[p] = executed[p]
  BY DEF IInv, TypeOK, CommitExecute
<1> HIDE DEF q
<1>7. DecisionsAreReviewed'
  BY <1>1, <1>4, <1>5 DEF IInv, DecisionsAreReviewed, ReviewedByAnother
<1>8. JobsAreEntitled'
  BY <1>1, <1>4, <1>5, DecideEntitled DEF CommitExecute
<1>9. ExecutionsAreDecided'
  BY <1>1, <1>4, <1>5, <1>6 DEF IInv, ExecutionsAreDecided
<1>10. QED
  BY <1>7, <1>8, <1>9 DEF IInv

\* A handler that goes on with its own record changes nobody's entitlement.
LEMMA ContinueEntitled ==
  ASSUME IInv, TypeOK', NEW r \in Slot, UNCHANGED <<reopening, executed>>,
         \A s \in Slot \ {r} : handler'[s] = handler[s],
         handler'[r].kind = handler[r].kind,
         handler[r].kind = "execute" => handler'[r].id = handler[r].id,
         handler[r].kind \notin {"approve", "reject"}
  PROVE  IInv'
<1>1. JobsAreEntitled'
  BY DEF IInv, JobsAreEntitled
<1>2. QED
  BY <1>1, RequestsUntouched

\* Every step keeps the four eyes.
LEMMA NextEntitled == IInv /\ [MonthNext]_monthVars => IInv'
<1> SUFFICES ASSUME IInv, [MonthNext]_monthVars PROVE IInv'
  OBVIOUS
<1>1. TypeOK'
  BY NextTyped DEF IInv
<1>2. CASE UNCHANGED monthVars
  BY <1>2 DEF IInv, TypeOK, DecisionsAreReviewed, ReviewedByAnother, JobsAreEntitled,
              ExecutionsAreDecided, monthVars
<1>3. ASSUME NEW r \in Slot, Arrive(r) \/ GoOn(r) \/ Die(r) PROVE IInv'
  <2>1. CASE Arrive(r)
    BY <1>1, <2>1, ArriveEntitled
  <2>2. ASSUME Stop(r), UNCHANGED <<reopening, executed>> PROVE IInv'
    BY <1>1, <2>2, FinishEntitled, RequestsUntouched DEF IInv
  <2>3. CASE WriteClose(r) \/ Die(r)
    BY <2>2, <2>3 DEF WriteClose, Die
  <2>4. CASE FindActive(r)
    <3>1. CASE Stop(r)
      BY <2>2, <2>4, <3>1 DEF FindActive
    <3>2. CASE handler' = [handler EXCEPT ![r].pc = "create"]
      <4>1. handler[r] \in AskJob
        BY <2>4, JobKinds DEF IInv, TypeOK, FindActive, Running
      <4>2. handler'[r].kind = "ask" /\ handler[r].kind = "ask"
        BY <3>2, <4>1 DEF IInv, TypeOK, AskJob
      <4>3. QED BY <1>1, <2>4, <3>2, <4>2, ContinueEntitled DEF FindActive
    <3>3. QED BY <2>4, <3>1, <3>2 DEF FindActive
  <2>5. CASE FindClosed(r)
    <3>1. handler[r] \in ExecuteJob
      BY <2>5, JobKinds DEF IInv, TypeOK, FindClosed, Running
    <3>2. CASE Stop(r)
      BY <2>2, <2>5, <3>2 DEF FindClosed
    <3>3. CASE \E w \in DOMAIN close : handler' = [handler
            EXCEPT ![r].pc = "claim", ![r].row = w]
      <4>1. handler'[r].kind = "execute" /\ handler[r].kind = "execute"
            /\ handler'[r].id = handler[r].id
        BY <3>1, <3>3 DEF IInv, TypeOK, ExecuteJob
      <4>2. \A s \in Slot \ {r} : handler'[s] = handler[s]
        BY <3>3 DEF IInv, TypeOK
      <4>3. QED BY <1>1, <2>5, <4>1, <4>2, ContinueEntitled DEF FindClosed
    <3>4. QED BY <2>5, <3>2, <3>3 DEF FindClosed
  <2>6. CASE ClaimRequest(r)
    <3>1. handler[r] \in ExecuteJob
      BY <2>6, JobKinds DEF IInv, TypeOK, ClaimRequest, Running
    <3>2. CASE Stop(r)
      BY <2>2, <2>6, <3>2 DEF ClaimRequest
    <3>3. CASE handler' = [handler EXCEPT ![r].pc = "commit"]
      <4>1. handler'[r].kind = "execute" /\ handler[r].kind = "execute"
            /\ handler'[r].id = handler[r].id
        BY <3>1, <3>3 DEF IInv, TypeOK, ExecuteJob
      <4>2. QED BY <1>1, <2>6, <3>3, <4>1, ContinueEntitled DEF ClaimRequest
    <3>4. QED BY <2>6, <3>2, <3>3 DEF ClaimRequest
  <2>7. QED
    BY <1>1, <1>3, <2>1, <2>3, <2>4, <2>5, <2>6, CreateRequestEntitled,
       WriteReviewEntitled, CommitExecuteEntitled DEF GoOn
<1>4. QED
  BY <1>2, <1>3 DEF MonthNext

\* A month is reopened only by a request that an owner other than its author has
\* approved (approveMonthReopen refuses the author, executeMonthReopen anything
\* that is not approved), whatever reviews and executions overlap.
THEOREM FourEyes == MonthSpec => []ReopeningIsApproved
<1>1. MonthInit => IInv
  BY BoundAssumption DEF MonthInit, IInv, TypeOK, Handler, Free, DecisionsAreReviewed,
                         JobsAreEntitled, ExecutionsAreDecided
<1>2. IInv => ReopeningIsApproved
  BY DEF IInv, TypeOK, DecisionsAreReviewed, ReviewedByAnother, ExecutionsAreDecided,
         ReopeningIsApproved
<1>3. QED
  BY <1>1, <1>2, NextEntitled, PTL DEF MonthSpec

-----------------------------------------------------------------------------
(* Once, when requests do not overlap.                                     *)

\* A request that reopened the month did so once and says so; and what the only
\* handler under way has read of its request is still so when it writes.
OnceInv ==
  /\ \A q \in RequestId : executed[q] > 0 =>
       executed[q] = 1 /\ q \in DOMAIN reopening /\ reopening[q].status = "executed"
  /\ \A r \in Slot :
       /\ handler[r].kind \in {"approve",
            "reject"} => reopening[handler[r].id].status = "pending"
       /\ Running(r, "execute", "commit") => reopening[handler[r].id].status = "approved"

\* The only slot is freed, and nothing else happens.
LEMMA FinishOnce ==
  ASSUME \A r, s \in Slot : r = s,
         TypeOK, OnceInv, NEW r \in Slot, Stop(r), UNCHANGED <<reopening, executed>>
  PROVE  OnceInv'
<1>1. \A s \in Slot : handler'[s] = Free
  BY DEF TypeOK, Stop
<1>2. QED
  BY <1>1 DEF OnceInv, Running, Free

\* The only slot goes on with a job that has just read what it needs.
LEMMA GoOnOnce ==
  ASSUME \A r, s \in Slot : r = s,
         TypeOK, OnceInv, NEW r \in Slot, NEW j, handler' = [handler EXCEPT ![r] = j],
         UNCHANGED <<reopening, executed>>,
         j.kind \in {"approve", "reject"} => reopening[j.id].status = "pending",
         j.kind = "execute" /\ j.pc = "commit" => reopening[j.id].status = "approved"
  PROVE  OnceInv'
<1>1. \A s \in Slot : handler'[s] = j
  BY DEF TypeOK
<1>2. QED
  BY <1>1 DEF OnceInv, Running

\* Each handler starts with a request that it has just read.
LEMMA ArriveOnce ==
  ASSUME \A r, s \in Slot : r = s, TypeOK, OnceInv, NEW r \in Slot, Arrive(r)
  PROVE  OnceInv'
<1>1. PICK u \in Person :
        \/ BeginClose(r, u)
        \/ BeginAsk(r, u)
        \/ \E q \in DOMAIN reopening :
             \/ BeginReview(r, u, "approve", q) \/ BeginReview(r, u, "reject", q)
             \/ BeginExecute(r, u, q)
  BY DEF Arrive
<1>2. CASE BeginClose(r, u)
  <2>1. PICK w \in AnyOf(DOMAIN close) :
          Start(r, [pc |-> "write", kind |-> "close", row |-> w])
    BY <1>2 DEF BeginClose
  <2>2. QED BY <2>1, GoOnOnce DEF Start
<1>3. CASE BeginAsk(r, u)
  BY <1>3, GoOnOnce DEF BeginAsk, Start
<1>4. ASSUME NEW q \in DOMAIN reopening, NEW kind \in {"approve", "reject"},
             BeginReview(r, u, kind, q)
      PROVE  OnceInv'
  BY <1>4, GoOnOnce DEF BeginReview, Start
<1>5. ASSUME NEW q \in DOMAIN reopening, BeginExecute(r, u, q)
      PROVE  OnceInv'
  BY <1>5, GoOnOnce DEF BeginExecute, Start
<1>6. QED
  BY <1>1, <1>2, <1>3, <1>4, <1>5

\* A new request takes an id that has executed nothing; a decision falls on a request
\* that is pending, and so has executed nothing; an execution on one that is approved.
LEMMA WritesOnce ==
  ASSUME \A r, s \in Slot : r = s, IInv, OnceInv, NEW r \in Slot,
         CreateRequest(r) \/ WriteReview(r) \/ CommitExecute(r)
  PROVE  OnceInv'
<1> USE DEF IInv
<1>1. \A s \in Slot : handler'[s] = Free
  BY DEF TypeOK, CreateRequest, WriteReview, CommitExecute, Stop
<1>2. SUFFICES \A q \in RequestId : executed'[q] > 0 =>
                 executed'[q] = 1 /\ q \in DOMAIN reopening'
                    /\ reopening'[q].status = "executed"
  BY <1>1 DEF OnceInv, Running, Free
<1>3. CASE CreateRequest(r)
  <2>1. PICK new \in RequestId \ DOMAIN reopening :
               \E row : reopening' = Extend(reopening, new, row)
    BY <1>3 DEF CreateRequest
  <2>2. DOMAIN reopening' = DOMAIN reopening \cup {new}
        /\ \A q \in DOMAIN reopening : reopening'[q] = reopening[q]
    BY <2>1 DEF Extend
  <2>3. executed' = executed
    BY <1>3 DEF CreateRequest
  <2>4. QED BY <2>2, <2>3 DEF OnceInv
<1>4. CASE WriteReview(r)
  <2>1. handler[r].id \in DOMAIN reopening /\ reopening[handler[r].id].status = "pending"
    BY <1>4 DEF WriteReview, JobsAreEntitled, OnceInv
  <2>2. DOMAIN reopening' = DOMAIN reopening
        /\ \A q \in DOMAIN reopening : q # handler[r].id => reopening'[q] = reopening[q]
    BY <1>4 DEF WriteReview
  <2>3. executed' = executed
    BY <1>4 DEF WriteReview
  <2>4. QED BY <2>1, <2>2, <2>3 DEF OnceInv
<1>5. CASE CommitExecute(r)
  <2>1. PICK q : q = handler[r].id
    OBVIOUS
  <2>2. q \in DOMAIN reopening /\ q \in RequestId /\ reopening[q] \in Reopening
        /\ reopening[q].status = "approved"
    BY <1>5, <2>1 DEF CommitExecute, JobsAreEntitled, Running, OnceInv, TypeOK
  <2>3. executed \in [RequestId -> 0 .. MaxExecuted] /\ MaxExecuted \in Nat
    BY BoundAssumption DEF TypeOK
  <2>4. executed[q] = 0
    BY <2>2, <2>3 DEF OnceInv
  <2>5. reopening' = [reopening EXCEPT ![q] = [reopening[q] EXCEPT !.status = "executed"]]
    BY <1>5, <2>1 DEF CommitExecute
  <2>6. /\ DOMAIN reopening' = DOMAIN reopening /\ reopening'[q].status = "executed"
        /\ \A p \in DOMAIN reopening : p # q => reopening'[p] = reopening[p]
    BY <2>2, <2>5 DEF Reopening
  <2>7. /\ executed'[q] \in {0, 1}
        /\ \A p \in RequestId : p # q => executed'[p] = executed[p]
    BY <1>5, <2>1, <2>2, <2>3, <2>4 DEF CommitExecute
  <2>8. QED BY <2>2, <2>3, <2>6, <2>7 DEF OnceInv
<1>6. QED
  BY <1>3, <1>4, <1>5

\* Every step keeps the claims single.
LEMMA NextOnce ==
  ASSUME \A r, s \in Slot : r = s, IInv, OnceInv, [MonthNext]_monthVars
  PROVE  OnceInv'
<1>1. TypeOK
  BY DEF IInv
<1>2. CASE UNCHANGED monthVars
  BY <1>2 DEF OnceInv, Running, monthVars
<1>3. ASSUME NEW r \in Slot, Arrive(r) \/ GoOn(r) \/ Die(r) PROVE OnceInv'
  <2>1. CASE Arrive(r)
    BY <1>1, <2>1, ArriveOnce
  <2>2. ASSUME Stop(r), UNCHANGED <<reopening, executed>> PROVE OnceInv'
    BY <1>1, <2>2, FinishOnce
  <2>3. CASE WriteClose(r) \/ Die(r)
    BY <2>2, <2>3 DEF WriteClose, Die
  <2>4. CASE FindActive(r)
    <3>1. CASE Stop(r)
      BY <2>2, <2>4, <3>1 DEF FindActive
    <3>2. CASE handler' = [handler EXCEPT ![r].pc = "create"]
      <4>1. handler[r] \in AskJob /\ handler[r].kind = "ask"
        BY <1>1, <2>4, JobKinds DEF TypeOK, FindActive, Running
      <4>2. PICK j : j = [handler[r] EXCEPT !.pc = "create"]
        OBVIOUS
      <4>3. j.kind = "ask"
        BY <4>1, <4>2 DEF AskJob
      <4>4. QED BY <1>1, <2>4, <3>2, <4>2, <4>3, GoOnOnce DEF FindActive
    <3>3. QED BY <2>4, <3>1, <3>2 DEF FindActive
  <2>5. CASE FindClosed(r)
    <3>1. handler[r] \in ExecuteJob
      BY <1>1, <2>5, JobKinds DEF TypeOK, FindClosed, Running
    <3>2. CASE Stop(r)
      BY <2>2, <2>5, <3>2 DEF FindClosed
    <3>3. ASSUME NEW w, handler' = [handler EXCEPT ![r].pc = "claim", ![r].row = w]
          PROVE OnceInv'
      <4>1. PICK j : j = [handler[r] EXCEPT !.pc = "claim", !.row = w]
        OBVIOUS
      <4>2. j.kind = "execute" /\ j.pc = "claim"
        BY <3>1, <4>1 DEF ExecuteJob
      <4>3. handler' = [handler EXCEPT ![r] = j]
        BY <1>1, <3>3, <4>1 DEF TypeOK
      <4>4. QED BY <1>1, <2>5, <4>2, <4>3, GoOnOnce DEF FindClosed
    <3>4. QED BY <2>5, <3>2, <3>3 DEF FindClosed
  <2>6. CASE ClaimRequest(r)
    <3>1. handler[r] \in ExecuteJob
      BY <1>1, <2>6, JobKinds DEF TypeOK, ClaimRequest, Running
    <3>2. CASE Stop(r)
      BY <2>2, <2>6, <3>2 DEF ClaimRequest
    <3>3. CASE reopening[handler[r].id].status = "approved"
          /\ handler' = [handler EXCEPT ![r].pc = "commit"]
      <4>1. PICK j : j = [handler[r] EXCEPT !.pc = "commit"]
        OBVIOUS
      <4>2. j.kind = "execute" /\ j.id = handler[r].id
        BY <2>6, <3>1, <4>1 DEF ExecuteJob
      <4>3. QED BY <1>1, <2>6, <3>3, <4>1, <4>2, GoOnOnce DEF ClaimRequest
    <3>4. QED BY <2>6, <3>2, <3>3 DEF ClaimRequest
  <2>7. QED
    BY <1>3, <2>1, <2>3, <2>4, <2>5, <2>6, WritesOnce DEF GoOn
<1>4. QED
  BY <1>2, <1>3 DEF MonthNext

\* With one request at a time, a reopening request opens the month at most once,
\* however often the month is closed again, and wherever a handler crashes: only a
\* review that read the request before it was executed could make it approved again
\* ("a request can never be executed twice").
THEOREM ReopensOnce ==
  ASSUME \A r, s \in Slot : r = s
  PROVE  MonthSpec => []ExecutedOnce
<1>1. MonthInit => IInv /\ OnceInv
  BY BoundAssumption DEF MonthInit, IInv, TypeOK, Handler, Free, DecisionsAreReviewed,
                         JobsAreEntitled, ExecutionsAreDecided, OnceInv, Running
<1>2. IInv /\ OnceInv /\ [MonthNext]_monthVars => IInv' /\ OnceInv'
  BY NextEntitled, NextOnce
<1>3. IInv /\ OnceInv => ExecutedOnce
  <2>1. SUFFICES ASSUME IInv, OnceInv, NEW q \in RequestId PROVE executed[q] <= 1
    BY DEF ExecutedOnce
  <2>2. executed[q] \in Nat
    BY <2>1, BoundAssumption DEF IInv, TypeOK
  <2>3. QED BY <2>1, <2>2 DEF OnceInv
<1>4. QED
  BY <1>1, <1>2, <1>3, PTL DEF MonthSpec
=============================================================================
