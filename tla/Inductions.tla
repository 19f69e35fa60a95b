----------------------------- MODULE Inductions -----------------------------
(***************************************************************************)
(* Induction for the proofs about what the models compute with folds and   *)
(* recursive functions.  The library's induction theorems take a predicate *)
(* as a parameter, which the provers cannot instantiate; these take the    *)
(* set of the values it holds for.  With them: what a sum over a finite    *)
(* set is, how it changes with one of its terms, and what bounds it.       *)
(***************************************************************************)
EXTENDS Extrema, Functions, FiniteSetTheorems

\* What holds at 0 and passes from each number below n to the next holds up to n.
LEMMA UpTo ==
  ASSUME NEW n \in Nat, NEW Good, 0 \in Good,
         \A m \in 0 .. n - 1 : m \in Good => m + 1 \in Good
  PROVE  \A m \in 0 .. n : m \in Good
  <1> DEFINE Bad == {m \in 0 .. n : m \notin Good}
  <1> SUFFICES ASSUME Bad # {} PROVE FALSE
    OBVIOUS
  <1>1. Bad \subseteq Nat
    OBVIOUS
  <1>2. PICK b \in Bad : \A m \in Bad : b <= m
    BY <1>1, LeastNatural
  <1>3. b - 1 \in 0 .. n - 1 /\ b - 1 \notin Bad
    BY <1>2
  <1>4. b - 1 \in Good /\ (b - 1) + 1 = b
    BY <1>3
  <1> QED
    BY <1>3, <1>4

\* What holds of a subset of S whenever it holds of that subset less any one of
\* its elements, holds of every subset of S.
LEMMA OverSubsets ==
  ASSUME NEW S, IsFiniteSet(S), NEW Good,
         \A s \in SUBSET S : (\A x \in s : s \ {x} \in Good) => s \in Good
  PROVE  \A s \in SUBSET S : s \in Good
  <1> DEFINE Sizes == {n \in Nat : \A s \in SUBSET S : Cardinality(s) = n => s \in Good}
  <1>1. \A s \in SUBSET S : IsFiniteSet(s) /\ Cardinality(s) \in Nat
    BY FS_Subset, FS_CardinalityType
  <1>2. 0 \in Sizes
    <2> SUFFICES ASSUME NEW s \in SUBSET S, Cardinality(s) = 0 PROVE s \in Good
      OBVIOUS
    <2>1. s = {}
      BY <1>1, FS_EmptySet
    <2> QED
      BY <2>1
  <1>3. ASSUME NEW n \in Nat, n \in Sizes PROVE n + 1 \in Sizes
    <2> SUFFICES ASSUME NEW s \in SUBSET S, Cardinality(s) = n + 1 PROVE s \in Good
      OBVIOUS
    <2>1. ASSUME NEW x \in s PROVE s \ {x} \in Good
      <3>1. Cardinality(s \ {x}) = Cardinality(s) - 1
        BY <1>1, FS_RemoveElement
      <3> QED
        BY <1>3, <3>1
    <2> QED
      BY <2>1
  <1> HIDE DEF Sizes
  <1>4. ASSUME NEW s \in SUBSET S PROVE Cardinality(s) \in Sizes
    BY <1>1, <1>2, <1>3, UpTo
  <1> QED
    BY <1>4 DEF Sizes

-----------------------------------------------------------------------------
(* Sums of the values of a function, which no order of adding changes. *)

\* h adds f up over every subset of S, whichever element is added last.
AddsUp(h, f, S) ==
  /\ h \in [SUBSET S -> Int] /\ h[{}] = 0
  /\ \A s \in SUBSET S : \A x \in s : h[s] = f[x] + h[s \ {x}]

LEMMA SumsExist ==
  ASSUME NEW S, IsFiniteSet(S), NEW f \in [S -> Int]
  PROVE  \E h : AddsUp(h, f, S)
  <1> DEFINE Good == {T \in SUBSET S : \E h : AddsUp(h, f, T)}
  <1>1. ASSUME NEW T \in SUBSET S, \A x \in T : T \ {x} \in Good PROVE T \in Good
    <2>1. CASE T = {}
      <3> DEFINE h == [s \in SUBSET {} |-> 0]
      <3>1. AddsUp(h, f, {})
        BY DEF AddsUp
      <3> HIDE DEF h
      <3> QED
        BY <2>1, <3>1
    <2>2. CASE T # {}
      <3>1. PICK a \in T : TRUE
        BY <2>2
      <3> DEFINE R == T \ {a}
      <3>2. PICK h : AddsUp(h, f, R)
        BY <1>1, <3>1
      <3>3. f[a] \in Int /\ \A s \in SUBSET R : h[s] \in Int
        BY <3>1, <3>2 DEF AddsUp
      <3> DEFINE g == [s \in SUBSET T |-> IF a \in s THEN f[a] + h[s \ {a}] ELSE h[s]]
      <3>4. \A s \in SUBSET T : s \ {a} \in SUBSET R /\ (a \notin s => s \in SUBSET R)
        OBVIOUS
      <3>5. \A s \in SUBSET T : g[s] = IF a \in s THEN f[a] + h[s \ {a}] ELSE h[s]
        OBVIOUS
      <3>6. g \in [SUBSET T -> Int]
        <4> HIDE DEF R
        <4> QED
          BY <3>3, <3>4
      <3> HIDE DEF g
      <3>7. g[{}] = 0
        BY <3>2, <3>5 DEF AddsUp
      <3>8. ASSUME NEW s \in SUBSET T, NEW x \in s PROVE g[s] = f[x] + g[s \ {x}]
        <4>0. s \ {x} \in SUBSET T
          OBVIOUS
        <4>1. CASE x = a
          <5>1. g[s] = f[a] + h[s \ {a}] /\ g[s \ {a}] = h[s \ {a}]
            BY <3>5, <4>0, <4>1
          <5> QED
            BY <4>1, <5>1
        <4>2. CASE x # a /\ a \in s
          <5>1. g[s] = f[a] + h[s \ {a}] /\ g[s \ {x}] = f[a] + h[(s \ {x}) \ {a}]
            BY <3>5, <4>0, <4>2
          <5>2. (s \ {x}) \ {a} = (s \ {a}) \ {x} /\ x \in s \ {a}
            BY <4>2
          <5>3. h[s \ {a}] = f[x] + h[(s \ {a}) \ {x}]
            BY <3>2, <3>4, <5>2 DEF AddsUp
          <5>4. f[x] \in Int /\ h[(s \ {a}) \ {x}] \in Int
            BY <3>3, <3>4, <4>0, <5>2
          <5>5. g[s \ {x}] = f[a] + h[(s \ {a}) \ {x}]
            BY <5>1, <5>2
          <5>6. f[a] \in Int
            BY <3>3
          <5> QED
            BY <5>1, <5>3, <5>4, <5>5, <5>6
        <4>3. CASE a \notin s
          <5>1. g[s] = h[s] /\ g[s \ {x}] = h[s \ {x}]
            BY <3>5, <4>0, <4>3
          <5>2. h[s] = f[x] + h[s \ {x}]
            BY <3>2, <3>4, <4>3 DEF AddsUp
          <5> QED
            BY <5>1, <5>2
        <4> QED
          BY <4>1, <4>2, <4>3
      <3>9. AddsUp(g, f, T)
        BY <3>6, <3>7, <3>8 DEF AddsUp
      <3> QED
        BY <3>9
    <2> QED
      BY <2>1, <2>2
  <1> HIDE DEF Good
  <1>2. S \in Good
    BY <1>1, OverSubsets
  <1> QED
    BY <1>2 DEF Good

\* The fold by which the models sum finds that sum.
LEMMA SumIs ==
  ASSUME NEW S, IsFiniteSet(S), NEW f \in [S -> Int], NEW h, AddsUp(h, f, S)
  PROVE  SumFunction(f) = h[S]
  <1> DEFINE x(s) == CHOOSE y \in s : TRUE
             IsSum(g) == g = [s \in SUBSET S |->
                                IF s = {} THEN 0 ELSE f[x(s)] + g[s \ {x(s)}]]
             sum == CHOOSE g : IsSum(g)
  <1>0. DOMAIN f = S
    OBVIOUS
  <1>1. SumFunction(f) = sum[S]
    BY <1>0 DEF SumFunction, SumFunctionOnSet, FoldFunctionOnSet, MapThenFoldSet
  <1>2. \A s \in SUBSET S : s # {} => x(s) \in s
    OBVIOUS
  <1> HIDE DEF x
  <1>3. IsSum(h)
    <2>1. \A s \in SUBSET S : h[s] = IF s = {} THEN 0 ELSE f[x(s)] + h[s \ {x(s)}]
      BY <1>2 DEF AddsUp
    <2>2. h = [s \in SUBSET S |-> h[s]]
      BY DEF AddsUp
    <2> QED
      BY <2>1, <2>2
  <1>4. IsSum(sum)
    BY <1>3
  <1> HIDE DEF sum
  <1>5. \A s \in SUBSET S : sum[s] = IF s = {} THEN 0 ELSE f[x(s)] + sum[s \ {x(s)}]
    BY <1>4
  <1> DEFINE Good == {s \in SUBSET S : sum[s] = h[s]}
  <1>6. ASSUME NEW s \in SUBSET S, \A y \in s : s \ {y} \in Good PROVE s \in Good
    <2>1. CASE s = {}
      BY <1>5, <2>1 DEF AddsUp
    <2>2. CASE s # {}
      <3>1. x(s) \in s /\ h[s] = f[x(s)] + h[s \ {x(s)}]
        BY <1>2, <2>2 DEF AddsUp
      <3>2. sum[s] = f[x(s)] + sum[s \ {x(s)}]
        BY <1>5, <2>2
      <3> QED
        BY <1>6, <3>1, <3>2
    <2> QED
      BY <2>1, <2>2
  <1> HIDE DEF Good
  <1>7. S \in Good
    BY <1>6, OverSubsets
  <1> QED
    BY <1>1, <1>7 DEF Good

LEMMA SumType ==
  ASSUME NEW S, IsFiniteSet(S), NEW f \in [S -> Int]
  PROVE  SumFunction(f) \in Int
  <1>1. PICK h : AddsUp(h, f, S)
    BY SumsExist
  <1>2. SumFunction(f) = h[S]
    BY <1>1, SumIs
  <1>3. h[S] \in Int
    BY <1>1 DEF AddsUp
  <1> QED
    BY <1>2, <1>3

\* Sums of smaller values are smaller.
LEMMA SumsCompare ==
  ASSUME NEW S, IsFiniteSet(S), NEW f \in [S -> Int], NEW g \in [S -> Int],
         NEW h, AddsUp(h, f, S), NEW j, AddsUp(j, g, S), \A x \in S : f[x] <= g[x]
  PROVE  \A s \in SUBSET S : h[s] <= j[s]
  <1> DEFINE Good == {s \in SUBSET S : h[s] <= j[s]}
  <1>1. ASSUME NEW s \in SUBSET S, \A x \in s : s \ {x} \in Good PROVE s \in Good
    <2>1. CASE s = {}
      BY <2>1 DEF AddsUp
    <2>2. CASE s # {}
      <3>1. PICK x \in s : TRUE
        BY <2>2
      <3>2. h[s] = f[x] + h[s \ {x}] /\ j[s] = g[x] + j[s \ {x}]
        BY <3>1 DEF AddsUp
      <3>3. h[s \ {x}] \in Int /\ j[s \ {x}] \in Int /\ f[x] \in Int /\ g[x] \in Int
        BY <3>1 DEF AddsUp
      <3>4. h[s \ {x}] <= j[s \ {x}] /\ f[x] <= g[x]
        BY <1>1, <3>1
      <3>5. h[s] <= j[s]
        BY <3>2, <3>3, <3>4
      <3> QED
        BY <3>5
    <2> QED
      BY <2>1, <2>2
  <1> HIDE DEF Good
  <1>2. \A s \in SUBSET S : s \in Good
    BY <1>1, OverSubsets
  <1> QED
    BY <1>2 DEF Good

LEMMA SumAtMost ==
  ASSUME NEW S, IsFiniteSet(S), NEW f \in [S -> Int], NEW g \in [S -> Int],
         \A x \in S : f[x] <= g[x]
  PROVE  SumFunction(f) <= SumFunction(g)
  <1>1. PICK h : AddsUp(h, f, S)
    BY SumsExist
  <1>2. PICK j : AddsUp(j, g, S)
    BY SumsExist
  <1>3. h[S] <= j[S]
    BY <1>1, <1>2, SumsCompare
  <1> QED
    BY <1>1, <1>2, <1>3, SumIs

\* Changing one value changes the sum by as much.
LEMMA SumChanges ==
  ASSUME NEW S, IsFiniteSet(S), NEW f \in [S -> Int], NEW g \in [S -> Int], NEW a \in S,
         \A x \in S : x # a => g[x] = f[x]
  PROVE  SumFunction(g) = SumFunction(f) + (g[a] - f[a])
  <1>1. PICK h : AddsUp(h, f, S)
    BY SumsExist
  <1>2. PICK j : AddsUp(j, g, S)
    BY SumsExist
  <1> DEFINE R == S \ {a}
             Good == {s \in SUBSET R : h[s] = j[s]}
  <1>3. ASSUME NEW s \in SUBSET R, \A x \in s : s \ {x} \in Good PROVE s \in Good
    <2>1. CASE s = {}
      BY <1>1, <1>2, <2>1 DEF AddsUp
    <2>2. CASE s # {}
      <3>1. PICK x \in s : TRUE
        BY <2>2
      <3>2. s \in SUBSET S /\ x \in S /\ x # a
        BY <3>1
      <3>3. h[s] = f[x] + h[s \ {x}] /\ j[s] = g[x] + j[s \ {x}]
        BY <1>1, <1>2, <3>1, <3>2 DEF AddsUp
      <3>4. h[s \ {x}] = j[s \ {x}]
        BY <1>3, <3>1
      <3>5. h[s] = j[s]
        BY <3>2, <3>3, <3>4
      <3> QED
        BY <3>5
    <2> QED
      BY <2>1, <2>2
  <1>4. IsFiniteSet(R) /\ R \in SUBSET R
    BY FS_Subset
  <1> HIDE DEF Good, R
  <1>5. R \in Good
    <2>1. \A s \in SUBSET R : s \in Good
      BY <1>3, <1>4, OverSubsets
    <2> QED
      BY <1>4, <2>1
  <1>6. h[R] = j[R]
    BY <1>5 DEF Good
  <1>7. h[S] = f[a] + h[R] /\ j[S] = g[a] + j[R]
    BY <1>1, <1>2 DEF AddsUp, R
  <1>8. h[R] \in Int /\ f[a] \in Int /\ g[a] \in Int
    BY <1>1 DEF AddsUp, R
  <1>9. SumFunction(f) = h[S] /\ SumFunction(g) = j[S]
    BY <1>1, <1>2, SumIs
  <1> QED
    BY <1>6, <1>7, <1>8, <1>9

LEMMA SumZero ==
  ASSUME NEW S, IsFiniteSet(S)
  PROVE  SumFunction([x \in S |-> 0]) = 0
  <1> DEFINE f == [x \in S |-> 0]
             h == [s \in SUBSET S |-> 0]
  <1>1. AddsUp(h, f, S)
    <2>1. h \in [SUBSET S -> Int] /\ \A s \in SUBSET S : h[s] = 0
      OBVIOUS
    <2>2. \A x \in S : f[x] = 0
      OBVIOUS
    <2> HIDE DEF h, f
    <2>3. {} \in SUBSET S /\ \A s \in SUBSET S : \A x \in s : x \in S /\ s \ {x} \in SUBSET S
      OBVIOUS
    <2> QED
      BY <2>1, <2>2, <2>3 DEF AddsUp
  <1>2. f \in [S -> Int] /\ h[S] = 0
    OBVIOUS
  <1> HIDE DEF f, h
  <1>3. SumFunction(f) = h[S]
    BY <1>1, <1>2, SumIs
  <1> QED
    BY <1>2, <1>3 DEF f

\* Equal values add up to as many times that value.
LEMMA SumConstant ==
  ASSUME NEW S, IsFiniteSet(S), NEW v \in Int
  PROVE  SumFunction([x \in S |-> v]) = v * Cardinality(S)
  <1> DEFINE f == [x \in S |-> v]
             h == [s \in SUBSET S |-> v * Cardinality(s)]
  <1>1. \A s \in SUBSET S : IsFiniteSet(s) /\ Cardinality(s) \in Nat
    BY FS_Subset, FS_CardinalityType
  <1>2. h \in [SUBSET S -> Int] /\ \A s \in SUBSET S : h[s] = v * Cardinality(s)
    BY <1>1
  <1>3. f \in [S -> Int] /\ \A x \in S : f[x] = v
    OBVIOUS
  <1> HIDE DEF f, h
  <1>4. AddsUp(h, f, S)
    <2>1. h[{}] = 0
      <3>1. Cardinality({}) = 0
        BY FS_EmptySet
      <3> QED
        BY <1>2, <3>1
    <2>2. ASSUME NEW s \in SUBSET S, NEW x \in s PROVE h[s] = f[x] + h[s \ {x}]
      <3>1. Cardinality(s \ {x}) = Cardinality(s) - 1
        BY <1>1, FS_RemoveElement
      <3>2. h[s] = v * Cardinality(s) /\ h[s \ {x}] = v * (Cardinality(s) - 1) /\ f[x] = v
        BY <1>2, <1>3, <3>1
      <3>3. Cardinality(s) \in Int
        BY <1>1
      <3>4. v * (Cardinality(s) - 1) = v * Cardinality(s) - v
        BY <3>3
      <3>5. v * Cardinality(s) \in Int
        BY <3>3
      <3> QED
        BY <3>2, <3>4, <3>5
    <2> QED
      BY <1>2, <2>1, <2>2 DEF AddsUp
  <1>5. SumFunction(f) = h[S]
    BY <1>3, <1>4, SumIs
  <1> QED
    BY <1>2, <1>5 DEF f

\* No value is above the sum when none is negative.
LEMMA SumHolds ==
  ASSUME NEW S, IsFiniteSet(S), NEW f \in [S -> Nat], NEW a \in S
  PROVE  f[a] <= SumFunction(f) /\ SumFunction(f) \in Nat
  <1> DEFINE g == [x \in S |-> 0]
             k == [x \in S |-> IF x = a THEN f[a] ELSE 0]
  <1>1. f \in [S -> Int] /\ g \in [S -> Int] /\ k \in [S -> Int]
    OBVIOUS
  <1>2. /\ \A x \in S : k[x] <= f[x] /\ g[x] = 0 /\ (x # a => k[x] = g[x])
        /\ k[a] = f[a]
    OBVIOUS
  <1>3. SumFunction(g) = 0
    BY SumZero
  <1> HIDE DEF g, k
  <1>4. SumFunction(k) = SumFunction(g) + (k[a] - g[a])
    BY <1>1, <1>2, SumChanges
  <1>5. SumFunction(k) <= SumFunction(f)
    BY <1>1, <1>2, SumAtMost
  <1>6. SumFunction(f) \in Int
    BY <1>1, SumType
  <1> QED
    BY <1>2, <1>3, <1>4, <1>5, <1>6

\* A sum is within the sum of what bounds its values on both sides.
LEMMA SumWithin ==
  ASSUME NEW S, IsFiniteSet(S), NEW f \in [S -> Int], NEW g \in [S -> Int],
         \A x \in S : - g[x] <= f[x] /\ f[x] <= g[x]
  PROVE  - SumFunction(g) <= SumFunction(f) /\ SumFunction(f) <= SumFunction(g)
  <1> DEFINE e == [x \in S |-> - g[x]]
  <1>1. PICK h : AddsUp(h, f, S)
    BY SumsExist
  <1>2. PICK j : AddsUp(j, g, S)
    BY SumsExist
  <1> DEFINE k == [s \in SUBSET S |-> - j[s]]
  <1>3. e \in [S -> Int] /\ \A x \in S : e[x] = - g[x] /\ e[x] <= f[x]
    OBVIOUS
  <1>4. k \in [SUBSET S -> Int] /\ \A s \in SUBSET S : k[s] = - j[s]
    BY <1>2 DEF AddsUp
  <1> HIDE DEF e, k
  <1>5. AddsUp(k, e, S)
    <2>1. k[{}] = 0
      BY <1>2, <1>4 DEF AddsUp
    <2>2. ASSUME NEW s \in SUBSET S, NEW x \in s PROVE k[s] = e[x] + k[s \ {x}]
      <3>1. j[s] = g[x] + j[s \ {x}] /\ j[s \ {x}] \in Int /\ g[x] \in Int
        BY <1>2 DEF AddsUp
      <3>2. k[s] = - j[s] /\ k[s \ {x}] = - j[s \ {x}] /\ e[x] = - g[x]
        BY <1>3, <1>4
      <3> QED
        BY <3>1, <3>2
    <2> QED
      BY <1>4, <2>1, <2>2 DEF AddsUp
  <1>6. k[S] <= h[S] /\ h[S] <= j[S]
    BY <1>1, <1>2, <1>3, <1>5, SumsCompare
  <1>7. k[S] = - j[S]
    BY <1>4
  <1>8. SumFunction(f) = h[S] /\ SumFunction(g) = j[S]
    BY <1>1, <1>2, SumIs
  <1> QED
    BY <1>6, <1>7, <1>8

=============================================================================
