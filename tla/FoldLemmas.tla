----------------------------- MODULE FoldLemmas -----------------------------
(***************************************************************************)
(* Induction without operator parameters: the least element of a set of    *)
(* natural numbers, and from it what the folds used by Store and Engine    *)
(* return.                                                                 *)
(***************************************************************************)
EXTENDS Integers, FiniteSets, FiniteSetsExt, FiniteSetTheorems,
        WellFoundedInduction, TLAPS

\* Every non-empty set of natural numbers has a least element.
LEMMA LeastNat ==
  ASSUME NEW T, T \subseteq Nat, T # {}
  PROVE  \E x \in T : \A y \in T : x <= y
<1> DEFINE R == {ss \in Nat \X Nat : ss[1] < ss[2]}
<1>1. IsWellFoundedOn(R, Nat)
  BY NatLessThanWellFounded, Zenon DEF OpToRel
<1>2. PICK x \in T : \A y \in T : ~(<<y, x>> \in R)
  BY <1>1, WFMin, Zenon
<1>3. \A y \in T : ~(y < x)
  <2> SUFFICES ASSUME NEW y \in T, y < x PROVE FALSE
    OBVIOUS
  <2>1. <<y, x>> \in R
    OBVIOUS
  <2> QED BY <2>1, <1>2
<1> QED BY <1>3

\* The recursion of MapThenSumSet, for the function f, over the subsets of D.
SumStep(f, g, T) ==
  IF T = {} THEN 0 ELSE LET x == CHOOSE x \in T : TRUE IN f[x] + g[T \ {x}]

Small(S, n) == {T \in SUBSET S : Cardinality(T) <= n}

\* One step of the fold that defines a sum over a set.
LEMMA SmallStep ==
  ASSUME NEW S, IsFiniteSet(S), NEW n \in Nat, NEW T \in Small(S, n), T # {}
  PROVE  LET x == CHOOSE x \in T : TRUE IN
         /\ x \in T /\ x \in S
         /\ T \ {x} \in Small(S, n)
         /\ n # 0 /\ T \ {x} \in Small(S, n - 1)
<1> DEFINE x == CHOOSE x \in T : TRUE
<1>1. x \in T
  OBVIOUS
<1>2. IsFiniteSet(T)
  BY FS_Subset DEF Small
<1>3. Cardinality(T) \in Nat /\ Cardinality(T \ {x}) = Cardinality(T) - 1 /\ IsFiniteSet(T \ {x})
  BY <1>1, <1>2, FS_RemoveElement, FS_CardinalityType
<1>4. Cardinality(T \ {x}) \in Nat
  BY <1>3, FS_CardinalityType
<1> QED BY <1>1, <1>3, <1>4 DEF Small

\* The recursion has a solution with integer values on the small subsets.
LEMMA SumSolution ==
  ASSUME NEW S, IsFiniteSet(S), NEW f \in [S -> Int], NEW n \in Nat
  PROVE  \E g \in [Small(S, n) -> Int] : \A T \in Small(S, n) : g[T] = SumStep(f, g, T)
<1> DEFINE Solves(m, g) == \A T \in Small(S, m) : g[T] = SumStep(f, g, T)
<1> DEFINE Bad == {m \in Nat : ~ \E g \in [Small(S, m) -> Int] : Solves(m, g)}
<1> SUFFICES ASSUME Bad # {} PROVE FALSE
  OBVIOUS
<1>1. PICK m \in Bad : \A y \in Bad : m <= y
  BY LeastNat
<1>2. CASE m = 0
  <2> DEFINE g == [T \in Small(S, 0) |-> 0]
  <2>1. \A T \in Small(S, 0) : T = {}
    <3> SUFFICES ASSUME NEW T \in Small(S, 0), T # {} PROVE FALSE
      OBVIOUS
    <3> QED BY SmallStep
  <2>2. Solves(0, g)
    BY <2>1 DEF SumStep
  <2> QED BY <1>1, <1>2, <2>2
<1>3. CASE m # 0
  <2>1. m - 1 \in Nat /\ m - 1 \notin Bad
    BY <1>1, <1>3
  <2>2. PICK h \in [Small(S, m - 1) -> Int] : Solves(m - 1, h)
    BY <2>1
  <2> DEFINE g == [T \in Small(S, m) |-> SumStep(f, h, T)]
  <2>3. ASSUME NEW T \in Small(S, m) PROVE g[T] \in Int
    <3>1. CASE T = {}
      BY <3>1 DEF SumStep
    <3>2. CASE T # {}
      <4> DEFINE x == CHOOSE x \in T : TRUE
      <4>1. x \in S /\ T \ {x} \in Small(S, m - 1)
        BY <3>2, SmallStep
      <4>2. f[x] \in Int /\ h[T \ {x}] \in Int
        BY <4>1
      <4>3. g[T] = f[x] + h[T \ {x}]
        BY <3>2 DEF SumStep
      <4> QED BY <4>2, <4>3
    <3> QED BY <3>1, <3>2
  <2>4. \A T \in Small(S, m - 1) : T \in Small(S, m) /\ g[T] = h[T]
    <3> SUFFICES ASSUME NEW T \in Small(S, m - 1) PROVE T \in Small(S, m) /\ g[T] = h[T]
      OBVIOUS
    <3>1. IsFiniteSet(T) /\ Cardinality(T) \in Nat
      BY FS_Subset, FS_CardinalityType DEF Small
    <3>2. T \in Small(S, m)
      BY <3>1 DEF Small
    <3> QED BY <2>2, <3>2
  <2>5. ASSUME NEW T \in Small(S, m) PROVE g[T] = SumStep(f, g, T)
    <3>1. CASE T = {}
      BY <3>1 DEF SumStep
    <3>2. CASE T # {}
      <4> DEFINE x == CHOOSE x \in T : TRUE
      <4>1. T \ {x} \in Small(S, m - 1)
        BY <3>2, SmallStep
      <4>2. g[T \ {x}] = h[T \ {x}]
        BY <4>1, <2>4
      <4> QED BY <4>2, <3>2 DEF SumStep
    <3> QED BY <3>1, <3>2
  <2>6. g \in [Small(S, m) -> Int]
    BY <2>3
  <2>7. Solves(m, g)
    BY <2>5
  <2> QED BY <1>1, <2>6, <2>7
<1> QED BY <1>2, <1>3

\* A sum of integers over a finite set is an integer.
THEOREM SumIsInteger ==
  ASSUME NEW S, IsFiniteSet(S), NEW f \in [S -> Int]
  PROVE  MapThenSumSet(LAMBDA x : f[x], S) \in Int
<1> DEFINE n == Cardinality(S)
<1>1. n \in Nat
  BY FS_CardinalityType
<1>2. SUBSET S = Small(S, n)
  BY <1>1, FS_Subset DEF Small
<1> DEFINE Solution(g) == g = [T \in SUBSET S |-> SumStep(f, g, T)]
<1> DEFINE it == CHOOSE g : Solution(g)
<1>3. PICK g \in [Small(S, n) -> Int] : \A T \in Small(S, n) : g[T] = SumStep(f, g, T)
  BY <1>1, SumSolution
<1>4. Solution(g)
  BY <1>2, <1>3
<1>5. Solution(it)
  BY <1>4, Zenon
<1>6. MapThenSumSet(LAMBDA x : f[x], S) = it[S]
  BY DEF MapThenSumSet, MapThenFoldSet, SumStep
<1> HIDE DEF it
<1> DEFINE Bad == {m \in Nat : \E T \in SUBSET S : Cardinality(T) = m /\ it[T] \notin Int}
<1>7. SUFFICES ASSUME Bad # {} PROVE FALSE
  <2>1. it[S] \notin Int => n \in Bad
    BY <1>1
  <2> QED BY <1>6, <2>1
<1>8. PICK m \in Bad : \A y \in Bad : m <= y
  <2>1. Bad \subseteq Nat
    OBVIOUS
  <2> HIDE DEF Bad
  <2> QED BY <1>7, <2>1, LeastNat
<1>9. PICK T \in SUBSET S : Cardinality(T) = m /\ it[T] \notin Int
  BY <1>8
<1>10. it[T] = SumStep(f, it, T)
  BY <1>5
<1>11. CASE T = {}
  BY <1>9, <1>10, <1>11 DEF SumStep
<1>12. CASE T # {}
  <2> DEFINE x == CHOOSE x \in T : TRUE
  <2>1. T \in Small(S, m)
    BY <1>8, <1>9 DEF Small
  <2>2. x \in S /\ m # 0 /\ T \ {x} \in Small(S, m - 1)
    BY <1>8, <1>12, <2>1, SmallStep
  <2>3. IsFiniteSet(T \ {x}) /\ Cardinality(T \ {x}) \in Nat
    BY FS_Subset, FS_CardinalityType
  <2>4. Cardinality(T \ {x}) \notin Bad
    BY <1>8, <2>2, <2>3 DEF Small
  <2>5. it[T \ {x}] \in Int
    BY <2>3, <2>4
  <2>6. it[T] = f[x] + it[T \ {x}]
    BY <1>10, <1>12 DEF SumStep
  <2> QED BY <1>9, <2>2, <2>5, <2>6
<1> QED BY <1>11, <1>12
=============================================================================
