------------------------------ MODULE SumLemmas ------------------------------
(***************************************************************************)
(* What a sum of amounts over a finite set of rows is.  The ledgers of     *)
(* this project sum the "amount" of the rows whose ids are in a set, with  *)
(* MapThenSumSet, whose definition takes the elements in an order of its   *)
(* own choice.  The lemmas below say that the order does not matter, and   *)
(* how the sum changes when a row is added, removed or written.            *)
(***************************************************************************)
EXTENDS Integers, FiniteSets, FiniteSetsExt, FiniteSetTheorems, WellFoundedInduction, TLAPS

AmountTotal(f, S) == MapThenSumSet(LAMBDA i : f[i].amount, S)

-----------------------------------------------------------------------------
(* Every set of natural numbers that is not empty has a least element.     *)
LEMMA LeastNumber ==
  ASSUME NEW T \in SUBSET Nat, T # {}
  PROVE  \E n \in T : \A m \in T : n <= m
<1> DEFINE R == {ss \in Nat \X Nat : ss[1] < ss[2]}
<1>1. IsWellFoundedOn(R, Nat)
  BY NatLessThanWellFounded DEF OpToRel
<1>2. PICK n \in T : \A m \in T : ~(<<m, n>> \in R)
  BY <1>1, WFMin
<1>3. ASSUME NEW m \in T PROVE n <= m
  <2>1. <<m, n>> \in Nat \X Nat /\ <<m, n>> \notin R  BY <1>2
  <2>2. ~(m < n)  BY <2>1
  <2>3. m \in Nat /\ n \in Nat  OBVIOUS
  <2> QED BY <2>2, <2>3
<1>4. QED BY <1>2, <1>3

(* A set of natural numbers that holds 0 and the successor of every number *)
(* it holds is all of them: induction, stated without an operator.         *)
LEMMA NatSetInduction ==
  ASSUME NEW T, 0 \in T, \A n \in Nat : n \in T => n + 1 \in T
  PROVE  Nat \subseteq T
<1> SUFFICES ASSUME NEW k \in Nat, k \notin T PROVE FALSE  OBVIOUS
<1> DEFINE U == {n \in Nat : n \notin T}
<1>1. PICK n \in U : \A m \in U : n <= m
  <2>1. U \in SUBSET Nat /\ U # {}  OBVIOUS
  <2> HIDE DEF U
  <2> QED BY <2>1, LeastNumber
<1>2. n \in Nat /\ n # 0 /\ n \notin T  OBVIOUS
<1>3. n - 1 \in Nat /\ ~(n <= n - 1)  BY <1>2
<1>4. n - 1 \in T  BY <1>1, <1>3
<1>5. (n - 1) + 1 \in T  BY <1>3, <1>4
<1>6. (n - 1) + 1 = n  BY <1>2
<1> QED BY <1>2, <1>5, <1>6

-----------------------------------------------------------------------------
(* The recursion that MapThenSumSet unfolds to.                            *)

FirstOf(s) == CHOOSE x \in s : TRUE

SumStep(f, g, s) == IF s = {} THEN 0 ELSE f[FirstOf(s)].amount + g[s \ {FirstOf(s)}]

Summing(f, S) == CHOOSE g : g = [s \in SUBSET S |-> SumStep(f, g, s)]

\* The sum is the value of the recursive function at the set.
LEMMA AmountTotalUnfolds == ASSUME NEW f, NEW S PROVE AmountTotal(f, S) = Summing(f, S)[S]
BY DEF AmountTotal, Summing, SumStep, FirstOf, MapThenSumSet, MapThenFoldSet

\* The element that is taken first is an element.
LEMMA FirstIsElement == ASSUME NEW s, s # {} PROVE FirstOf(s) \in s
BY DEF FirstOf

\* Up to the size n, g is such a sum over the subsets of S.
UpTo(f, S, g, n) ==
  \A s \in SUBSET S : Cardinality(s) <= n => g[s] = SumStep(f, g, s)

\* A finite set without one of its elements is finite, and smaller by one.
LEMMA Smaller ==
  ASSUME NEW S, IsFiniteSet(S), NEW s \in SUBSET S, s # {}
  PROVE  /\ s \ {FirstOf(s)} \in SUBSET S
         /\ Cardinality(s) \in Nat /\ Cardinality(s \ {FirstOf(s)}) \in Nat
         /\ Cardinality(s \ {FirstOf(s)}) = Cardinality(s) - 1
<1>1. IsFiniteSet(s)  BY FS_Subset
<1>2. FirstOf(s) \in s  BY FirstIsElement
<1>3. Cardinality(s \ {FirstOf(s)}) = Cardinality(s) - 1 /\ IsFiniteSet(s \ {FirstOf(s)})
  BY <1>1, <1>2, FS_RemoveElement
<1>4. Cardinality(s) \in Nat /\ Cardinality(s \ {FirstOf(s)}) \in Nat
  BY <1>1, <1>3, FS_CardinalityType
<1> QED BY <1>3, <1>4

\* There is a function that satisfies the recursion on the subsets of a finite set.
LEMMA SummingExists ==
  ASSUME NEW f, NEW S, IsFiniteSet(S)
  PROVE  \E g : g = [s \in SUBSET S |-> SumStep(f, g, s)]
<1> DEFINE T == {n \in Nat : \E g : /\ g = [s \in SUBSET S |-> g[s]]
                                    /\ UpTo(f, S, g, n)}
<1>1. 0 \in T
  <2> DEFINE g == [s \in SUBSET S |-> 0]
  <2>1. ASSUME NEW s \in SUBSET S, Cardinality(s) <= 0 PROVE s = {}
    <3>1. IsFiniteSet(s)  BY FS_Subset
    <3>2. Cardinality(s) \in Nat  BY <3>1, FS_CardinalityType
    <3>3. Cardinality(s) = 0  BY <3>2, <2>1
    <3> QED BY <3>1, <3>3, FS_EmptySet
  <2>2. UpTo(f, S, g, 0)
    BY <2>1 DEF UpTo, SumStep
  <2>3. g = [s \in SUBSET S |-> g[s]]  OBVIOUS
  <2> HIDE DEF g
  <2> QED BY <2>2, <2>3
<1>2. ASSUME NEW n \in Nat, n \in T PROVE n + 1 \in T
  <2>1. PICK g : g = [s \in SUBSET S |-> g[s]] /\ UpTo(f, S, g, n)  BY <1>2
  <2> DEFINE h == [s \in SUBSET S |-> SumStep(f, g, s)]
  <2>2. ASSUME NEW s \in SUBSET S, Cardinality(s) <= n PROVE h[s] = g[s]
    BY <2>1, <2>2 DEF UpTo
  <2>3. ASSUME NEW s \in SUBSET S, Cardinality(s) <= n + 1 PROVE h[s] = SumStep(f, h, s)
    <3>1. CASE s = {}  BY <3>1 DEF SumStep
    <3>2. CASE s # {}
      <4> DEFINE t == s \ {FirstOf(s)}
      <4>1. t \in SUBSET S /\ Cardinality(s) \in Nat /\ Cardinality(t) = Cardinality(s) - 1
        BY <3>2, Smaller
      <4>2. Cardinality(t) <= n  BY <4>1, <2>3
      <4>3. h[t] = g[t]  BY <4>1, <4>2, <2>2
      <4>4. h[s] = f[FirstOf(s)].amount + g[t]  BY <3>2 DEF SumStep
      <4> QED BY <4>3, <4>4, <3>2 DEF SumStep
    <3> QED BY <3>1, <3>2
  <2>4. h = [s \in SUBSET S |-> h[s]]  OBVIOUS
  <2>5. UpTo(f, S, h, n + 1)  BY <2>3 DEF UpTo
  <2> HIDE DEF h
  <2> QED BY <2>4, <2>5
<1>3. Cardinality(S) \in Nat  BY FS_CardinalityType
<1>4. Cardinality(S) \in T
  <2> HIDE DEF T
  <2> QED BY <1>1, <1>2, <1>3, NatSetInduction
<1>5. PICK g : g = [s \in SUBSET S |-> g[s]] /\ UpTo(f, S, g, Cardinality(S))  BY <1>4
<1>6. ASSUME NEW s \in SUBSET S PROVE g[s] = SumStep(f, g, s)
  <2>1. Cardinality(s) <= Cardinality(S)  BY FS_Subset
  <2> QED BY <2>1, <1>5 DEF UpTo
<1> QED BY <1>5, <1>6


\* The function that is chosen satisfies the recursion.
LEMMA SummingIs ==
  ASSUME NEW f, NEW S, IsFiniteSet(S), NEW s \in SUBSET S
  PROVE  Summing(f, S)[s] = SumStep(f, Summing(f, S), s)
<1>1. Summing(f, S) = [t \in SUBSET S |-> SumStep(f, Summing(f, S), t)]
  BY SummingExists DEF Summing
<1> QED BY <1>1

\* Two such sums agree on the sets that both are defined for.
LEMMA SummingIsUnique ==
  ASSUME NEW f, NEW g, NEW S, IsFiniteSet(S), NEW R \in SUBSET S,
         \A i \in R : f[i].amount = g[i].amount
  PROVE  Summing(f, R)[R] = Summing(g, S)[R]
<1> DEFINE T == {n \in Nat : \A s \in SUBSET R : Cardinality(s) <= n =>
                               Summing(f, R)[s] = Summing(g, S)[s]}
<1>0. IsFiniteSet(R) /\ Cardinality(R) \in Nat
  <2>1. IsFiniteSet(R)  BY FS_Subset
  <2> QED BY <2>1, FS_CardinalityType
<1>1. ASSUME NEW s \in SUBSET R PROVE /\ IsFiniteSet(s) /\ Cardinality(s) \in Nat
                                      /\ Cardinality(s) = 0 <=> s = {}
                                      /\ Cardinality(s) <= Cardinality(R)
                                      /\ s \in SUBSET S
  <2>1. IsFiniteSet(s)  BY <1>0, FS_Subset
  <2>2. Cardinality(s) <= Cardinality(R)  BY <1>0, FS_Subset
  <2> QED BY <2>1, <2>2, FS_CardinalityType, FS_EmptySet
<1>2. 0 \in T
  <2>1. ASSUME NEW s \in SUBSET R, Cardinality(s) <= 0 PROVE Summing(f, R)[s] = Summing(g, S)[s]
    <3>1. s = {}  BY <1>1, <2>1
    <3>2. Summing(f, R)[s] = 0  BY <1>0, <3>1, SummingIs DEF SumStep
    <3>3. Summing(g, S)[s] = 0  BY <1>1, <3>1, SummingIs DEF SumStep
    <3> QED BY <3>2, <3>3
  <2> QED BY <2>1
<1>3. ASSUME NEW n \in Nat, n \in T PROVE n + 1 \in T
  <2>1. ASSUME NEW s \in SUBSET R, Cardinality(s) <= n + 1 PROVE Summing(f, R)[s] = Summing(g, S)[s]
    <3>1. CASE s = {}
      <4>1. Summing(f, R)[s] = 0  BY <1>0, <3>1, SummingIs DEF SumStep
      <4>2. Summing(g, S)[s] = 0  BY <1>1, <3>1, SummingIs DEF SumStep
      <4> QED BY <4>1, <4>2
    <3>2. CASE s # {}
      <4> DEFINE x == FirstOf(s)
                 t == s \ {x}
      <4>1. x \in s  BY <3>2, FirstIsElement
      <4>2. t \in SUBSET R /\ Cardinality(t) = Cardinality(s) - 1 /\ Cardinality(s) \in Nat
        BY <1>0, <3>2, Smaller
      <4>3. Cardinality(t) <= n  BY <4>2, <2>1
      <4>4. Summing(f, R)[t] = Summing(g, S)[t]  BY <4>2, <4>3, <1>3
      <4>5. Summing(f, R)[s] = f[x].amount + Summing(f, R)[t]
        BY <1>0, <3>2, SummingIs DEF SumStep
      <4>6. Summing(g, S)[s] = g[x].amount + Summing(g, S)[t]
        <5>1. s \in SUBSET S  OBVIOUS
        <5>2. Summing(g, S)[s] = SumStep(g, Summing(g, S), s)  BY <5>1, SummingIs
        <5> QED BY <5>2, <3>2 DEF SumStep
      <4>7. f[x].amount = g[x].amount  BY <4>1
      <4> QED BY <4>4, <4>5, <4>6, <4>7
    <3> QED BY <3>1, <3>2
  <2> QED BY <2>1
<1>4. Cardinality(R) \in T
  <2> HIDE DEF T
  <2> QED BY <1>0, <1>2, <1>3, NatSetInduction
<1> QED BY <1>0, <1>1, <1>4

\* The sum over a subset, whichever set the recursion started from.
LEMMA SummingIsTotal ==
  ASSUME NEW f, NEW S, IsFiniteSet(S), NEW s \in SUBSET S
  PROVE  Summing(f, S)[s] = AmountTotal(f, s)
<1>1. Summing(f, s)[s] = Summing(f, S)[s]  BY SummingIsUnique
<1> QED BY <1>1, AmountTotalUnfolds

SameAmounts(f, g, S) == \A i \in S : f[i].amount = g[i].amount

(* The sum depends on the amounts of the rows that are summed alone.       *)
LEMMA TotalOfSame ==
  ASSUME NEW f, NEW g, NEW S, IsFiniteSet(S), SameAmounts(f, g, S)
  PROVE  AmountTotal(f, S) = AmountTotal(g, S)
<1>1. Summing(f, S)[S] = Summing(g, S)[S]  BY SummingIsUnique DEF SameAmounts
<1> QED BY <1>1, AmountTotalUnfolds

\* Nothing adds up to 0.
LEMMA TotalOfNone == ASSUME NEW f PROVE AmountTotal(f, {}) = 0
<1>1. IsFiniteSet({})  BY FS_EmptySet
<1>2. Summing(f, {})[{}] = SumStep(f, Summing(f, {}), {})  BY <1>1, SummingIs
<1> QED BY <1>2, AmountTotalUnfolds DEF SumStep

\* The sum over a set takes one element, and the sum over the others.
LEMMA TotalTakesFirst ==
  ASSUME NEW f, NEW S, IsFiniteSet(S), S # {}
  PROVE  AmountTotal(f, S) = f[FirstOf(S)].amount + AmountTotal(f, S \ {FirstOf(S)})
<1>1. Summing(f, S)[S] = SumStep(f, Summing(f, S), S)  BY SummingIs
<1>2. Summing(f, S)[S \ {FirstOf(S)}] = AmountTotal(f, S \ {FirstOf(S)})
  BY SummingIsTotal
<1>3. Summing(f, S)[S] = AmountTotal(f, S)  BY SummingIsTotal
<1> QED BY <1>1, <1>2, <1>3 DEF SumStep

(* A sum of numbers is a number.                                           *)
LEMMA TotalIsNumber ==
  ASSUME NEW f, NEW S, IsFiniteSet(S), NEW N, N = Nat \/ N = Int, \A i \in S : f[i].amount \in N
  PROVE  AmountTotal(f, S) \in N
<1> DEFINE T == {n \in Nat : \A s \in SUBSET S : Cardinality(s) <= n => AmountTotal(f, s) \in N}
<1>1. ASSUME NEW s \in SUBSET S PROVE /\ IsFiniteSet(s) /\ Cardinality(s) \in Nat
                                      /\ Cardinality(s) = 0 <=> s = {}
  <2>1. IsFiniteSet(s)  BY FS_Subset
  <2> QED BY <2>1, FS_CardinalityType, FS_EmptySet
<1>2. 0 \in T
  <2>1. ASSUME NEW s \in SUBSET S, Cardinality(s) <= 0 PROVE AmountTotal(f, s) \in N
    <3>1. s = {}  BY <1>1, <2>1
    <3>2. AmountTotal(f, s) = 0  BY <3>1, TotalOfNone
    <3> QED BY <3>2
  <2> QED BY <2>1
<1>3. ASSUME NEW n \in Nat, n \in T PROVE n + 1 \in T
  <2>1. ASSUME NEW s \in SUBSET S, Cardinality(s) <= n + 1 PROVE AmountTotal(f, s) \in N
    <3>1. CASE s = {}
      <4>1. AmountTotal(f, s) = 0  BY <3>1, TotalOfNone
      <4> QED BY <4>1
    <3>2. CASE s # {}
      <4> DEFINE x == FirstOf(s)
                 t == s \ {x}
      <4>1. x \in s  BY <3>2, FirstIsElement
      <4>2. t \in SUBSET S /\ Cardinality(t) = Cardinality(s) - 1 /\ Cardinality(s) \in Nat
        BY <3>2, Smaller
      <4>3. Cardinality(t) <= n  BY <4>2, <2>1
      <4>4. AmountTotal(f, t) \in N  BY <4>2, <4>3, <1>3
      <4>5. AmountTotal(f, s) = f[x].amount + AmountTotal(f, t)  BY <1>1, <3>2, TotalTakesFirst
      <4>6. f[x].amount \in N  BY <4>1
      <4> HIDE DEF x, t
      <4> QED BY <4>4, <4>5, <4>6
    <3> QED BY <3>1, <3>2
  <2> QED BY <2>1
<1>4. Cardinality(S) \in T
  <2> HIDE DEF T
  <2>1. Cardinality(S) \in Nat  BY <1>1
  <2> QED BY <2>1, <1>2, <1>3, NatSetInduction
<1> QED BY <1>1, <1>4

(* The order does not matter: any row may be taken out of the sum.         *)
LEMMA TotalTakesAny ==
  ASSUME NEW f, NEW S, IsFiniteSet(S), \A i \in S : f[i].amount \in Int, NEW x \in S
  PROVE  AmountTotal(f, S) = f[x].amount + AmountTotal(f, S \ {x})
<1> DEFINE Any(s) == \A y \in s : AmountTotal(f, s) = f[y].amount + AmountTotal(f, s \ {y})
           T == {n \in Nat : \A s \in SUBSET S : Cardinality(s) <= n => Any(s)}
<1>1. ASSUME NEW s \in SUBSET S PROVE /\ IsFiniteSet(s) /\ Cardinality(s) \in Nat
                                      /\ Cardinality(s) = 0 <=> s = {}
                                      /\ AmountTotal(f, s) \in Int
  <2>1. IsFiniteSet(s)  BY FS_Subset
  <2>2. \A i \in s : f[i].amount \in Int  OBVIOUS
  <2>3. AmountTotal(f, s) \in Int  BY <2>1, <2>2, TotalIsNumber
  <2> QED BY <2>1, <2>3, FS_CardinalityType, FS_EmptySet
<1>2. 0 \in T
  <2>1. ASSUME NEW s \in SUBSET S, Cardinality(s) <= 0 PROVE Any(s)
    <3>1. s = {}  BY <1>1, <2>1
    <3> QED BY <3>1
  <2> QED BY <2>1
<1>3. ASSUME NEW n \in Nat, n \in T PROVE n + 1 \in T
  <2>1. ASSUME NEW s \in SUBSET S, Cardinality(s) <= n + 1, NEW y \in s
        PROVE  AmountTotal(f, s) = f[y].amount + AmountTotal(f, s \ {y})
    <3> DEFINE a == FirstOf(s)
    <3>1. a \in s  BY FirstIsElement
    <3>2. AmountTotal(f, s) = f[a].amount + AmountTotal(f, s \ {a})  BY <1>1, TotalTakesFirst
    <3>3. CASE y = a  BY <3>2, <3>3
    <3>4. CASE y # a
      <4> DEFINE t == s \ {a}
                 u == s \ {y}
      <4>1. t \in SUBSET S /\ Cardinality(t) = Cardinality(s) - 1 /\ Cardinality(s) \in Nat
        BY Smaller
      <4>2. u \in SUBSET S /\ Cardinality(u) = Cardinality(s) - 1
        BY <1>1, FS_RemoveElement
      <4>3. Cardinality(t) <= n /\ Cardinality(u) <= n  BY <4>1, <4>2, <2>1
      <4>4. Any(t) /\ Any(u)  BY <4>1, <4>2, <4>3, <1>3
      <4>5. AmountTotal(f, t) = f[y].amount + AmountTotal(f, t \ {y})  BY <4>4, <3>4
      <4>6. AmountTotal(f, u) = f[a].amount + AmountTotal(f, u \ {a})  BY <4>4, <3>1, <3>4
      <4>7. t \ {y} = u \ {a}  OBVIOUS
      <4>8. /\ f[a].amount \in Int /\ f[y].amount \in Int
            /\ AmountTotal(f, t \ {y}) \in Int
        <5>1. t \ {y} \in SUBSET S  OBVIOUS
        <5>2. AmountTotal(f, t \ {y}) \in Int  BY <5>1, <1>1
        <5> QED BY <5>2, <3>1
      <4>9. AmountTotal(f, s) = f[a].amount + (f[y].amount + AmountTotal(f, t \ {y}))
        BY <3>2, <4>5
      <4>10. AmountTotal(f, u) = f[a].amount + AmountTotal(f, t \ {y})
        BY <4>6, <4>7
      <4> HIDE DEF a, t, u
      <4>11. AmountTotal(f, s) = f[y].amount + AmountTotal(f, u)
        BY <4>8, <4>9, <4>10
      <4> QED BY <4>11 DEF u
    <3> QED BY <3>3, <3>4
  <2> QED BY <2>1
<1>4. Cardinality(S) \in T
  <2> HIDE DEF T
  <2>1. Cardinality(S) \in Nat  BY <1>1
  <2> QED BY <2>1, <1>2, <1>3, NatSetInduction
<1>5. Any(S)  BY <1>1, <1>4
<1> QED BY <1>5

(* A row that was not summed is added to the sum.                          *)
LEMMA TotalAdds ==
  ASSUME NEW f, NEW S, IsFiniteSet(S), NEW x, x \notin S,
         \A i \in S \cup {x} : f[i].amount \in Int
  PROVE  AmountTotal(f, S \cup {x}) = f[x].amount + AmountTotal(f, S)
<1>1. IsFiniteSet(S \cup {x})  BY FS_AddElement
<1>2. x \in S \cup {x} /\ (S \cup {x}) \ {x} = S  OBVIOUS
<1> HIDE DEF AmountTotal
<1>3. AmountTotal(f, S \cup {x}) = f[x].amount + AmountTotal(f, (S \cup {x}) \ {x})
  <2> DEFINE U == S \cup {x}
  <2>1. \A i \in U : f[i].amount \in Int  OBVIOUS
  <2>2. IsFiniteSet(U) /\ x \in U  BY <1>1
  <2> HIDE DEF U
  <2>3. AmountTotal(f, U) = f[x].amount + AmountTotal(f, U \ {x})  BY <2>1, <2>2, TotalTakesAny
  <2> QED BY <2>3 DEF U
<1> QED BY <1>2, <1>3

(* The sum over a part of the rows is at most the whole sum, when no       *)
(* amount is negative.                                                     *)
LEMMA TotalOfPart ==
  ASSUME NEW f, NEW S, IsFiniteSet(S), \A i \in S : f[i].amount \in Nat, NEW x \in S
  PROVE  f[x].amount <= AmountTotal(f, S)
<1>1. AmountTotal(f, S) = f[x].amount + AmountTotal(f, S \ {x})
  <2>1. \A i \in S : f[i].amount \in Int  OBVIOUS
  <2> QED BY <2>1, TotalTakesAny
<1>2. AmountTotal(f, S \ {x}) \in Nat
  <2> DEFINE U == S \ {x}
  <2>1. IsFiniteSet(U)  BY FS_RemoveElement
  <2>2. \A i \in U : f[i].amount \in Nat  OBVIOUS
  <2> HIDE DEF U
  <2>3. AmountTotal(f, U) \in Nat  BY <2>1, <2>2, TotalIsNumber
  <2> QED BY <2>3 DEF U
<1> QED BY <1>1, <1>2

-----------------------------------------------------------------------------
(* Ledgers: the sum over the rows that have a status.                      *)

WithStatus(f, status) == {k \in DOMAIN f : f[k].status = status}

StatusTotal(f, status) == AmountTotal(f, WithStatus(f, status))

\* A ledger has finitely many rows of the status, and their amounts are numbers.
Summable(f, status) ==
  /\ IsFiniteSet(WithStatus(f, status))
  /\ \A k \in WithStatus(f, status) : f[k].amount \in Int

\* The rows of a status add up to an integer.
LEMMA StatusTotalIsInt ==
  ASSUME NEW f, NEW status, Summable(f, status)
  PROVE  StatusTotal(f, status) \in Int
BY TotalIsNumber DEF Summable, StatusTotal

\* Where each row counts for a natural number, so do they all.
LEMMA StatusTotalIsNat ==
  ASSUME NEW f, NEW status, IsFiniteSet(WithStatus(f, status)),
         \A k \in WithStatus(f, status) : f[k].amount \in Nat
  PROVE  StatusTotal(f, status) \in Nat
BY TotalIsNumber DEF StatusTotal

(* A row that is written with the status, where there was none, adds its   *)
(* amount to the total.                                                    *)
LEMMA WriteAdds ==
  ASSUME NEW D, NEW f, f = [k \in D |-> f[k]], NEW status, Summable(f, status),
         NEW x \in D, f[x].status # status, NEW row, row.status = status, row.amount \in Int,
         NEW g, g = [f EXCEPT ![x] = row]
  PROVE  /\ Summable(g, status)
         /\ StatusTotal(g, status) = row.amount + StatusTotal(f, status)
<1> DEFINE S == WithStatus(f, status)
<1>1. DOMAIN f = D /\ DOMAIN g = D /\ g[x] = row /\ \A k \in D : k # x => g[k] = f[k]
  OBVIOUS
<1>2. x \notin S /\ WithStatus(g, status) = S \cup {x}
  BY <1>1 DEF WithStatus
<1>3. IsFiniteSet(S) /\ \A k \in S : f[k].amount \in Int
  BY DEF Summable
<1>4. \A k \in S : k # x /\ k \in D
  BY <1>2 DEF WithStatus
<1>5. \A k \in S \cup {x} : g[k].amount \in Int
  BY <1>1, <1>3, <1>4
<1>6. IsFiniteSet(S \cup {x})
  BY <1>3, FS_AddElement
<1> HIDE DEF S
<1>7. AmountTotal(g, S \cup {x}) = g[x].amount + AmountTotal(g, S)
  BY <1>2, <1>3, <1>5, TotalAdds
<1>8. AmountTotal(g, S) = AmountTotal(f, S)
  <2>1. SameAmounts(g, f, S)  BY <1>1, <1>4 DEF SameAmounts
  <2> QED BY <1>3, <2>1, TotalOfSame
<1>9. Summable(g, status)
  BY <1>2, <1>5, <1>6 DEF Summable
<1> QED BY <1>1, <1>2, <1>7, <1>8, <1>9 DEF StatusTotal, S

(* A row that loses the status takes its amount out of the total.          *)
LEMMA WriteTakes ==
  ASSUME NEW D, NEW f, f = [k \in D |-> f[k]], NEW status, Summable(f, status),
         NEW x \in D, f[x].status = status, NEW row, row.status # status,
         NEW g, g = [f EXCEPT ![x] = row]
  PROVE  /\ Summable(g, status)
         /\ StatusTotal(f, status) = f[x].amount + StatusTotal(g, status)
<1> DEFINE S == WithStatus(f, status)
<1>1. DOMAIN f = D /\ DOMAIN g = D /\ g[x] = row /\ \A k \in D : k # x => g[k] = f[k]
  OBVIOUS
<1>2. x \in S /\ WithStatus(g, status) = S \ {x}
  BY <1>1 DEF WithStatus
<1>3. IsFiniteSet(S) /\ \A k \in S : f[k].amount \in Int
  BY DEF Summable
<1>4. \A k \in S : k \in D
  BY DEF WithStatus
<1>5. \A k \in S \ {x} : g[k] = f[k] /\ g[k].amount \in Int
  BY <1>1, <1>3, <1>4
<1>6. IsFiniteSet(S \ {x})
  BY <1>3, FS_RemoveElement
<1> HIDE DEF S
<1>7. AmountTotal(f, S) = f[x].amount + AmountTotal(f, S \ {x})
  BY <1>2, <1>3, TotalTakesAny
<1>8. AmountTotal(g, S \ {x}) = AmountTotal(f, S \ {x})
  <2> DEFINE R == S \ {x}
  <2>1. SameAmounts(g, f, R)  BY <1>5 DEF SameAmounts
  <2>2. IsFiniteSet(R)  BY <1>6
  <2> HIDE DEF R
  <2>3. AmountTotal(g, R) = AmountTotal(f, R)  BY <2>1, <2>2, TotalOfSame
  <2> QED BY <2>3 DEF R
<1>9. Summable(g, status)
  BY <1>2, <1>5, <1>6 DEF Summable
<1> QED BY <1>2, <1>7, <1>8, <1>9 DEF StatusTotal, S

(* A row that neither had the status nor gets it leaves the total alone.   *)
LEMMA WriteKeeps ==
  ASSUME NEW D, NEW f, f = [k \in D |-> f[k]], NEW status, Summable(f, status),
         NEW x \in D, f[x].status # status, NEW row, row.status # status,
         NEW g, g = [f EXCEPT ![x] = row]
  PROVE  /\ Summable(g, status)
         /\ StatusTotal(g, status) = StatusTotal(f, status)
<1> DEFINE S == WithStatus(f, status)
<1>1. DOMAIN f = D /\ DOMAIN g = D /\ g[x] = row /\ \A k \in D : k # x => g[k] = f[k]
  OBVIOUS
<1>2. x \notin S /\ WithStatus(g, status) = S
  BY <1>1 DEF WithStatus
<1>3. IsFiniteSet(S) /\ \A k \in S : f[k].amount \in Int
  BY DEF Summable
<1>4. \A k \in S : g[k] = f[k]
  BY <1>1, <1>2 DEF WithStatus
<1> HIDE DEF S
<1>5. AmountTotal(g, S) = AmountTotal(f, S)
  <2>1. SameAmounts(g, f, S)  BY <1>4 DEF SameAmounts
  <2> QED BY <1>3, <2>1, TotalOfSame
<1> QED BY <1>2, <1>3, <1>4, <1>5 DEF StatusTotal, Summable, S
=============================================================================
