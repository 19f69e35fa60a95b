------------------------------ MODULE Extrema ------------------------------
(***************************************************************************)
(* A set of naturals has a least element, and a set bounded above a        *)
(* greatest one: the CHOOSE by which the models name them finds it.        *)
(***************************************************************************)
EXTENDS Integers, WellFoundedInduction, TLAPS

\* The lowest znode number, by which a client finds the head, exists.
LEMMA LeastNatural ==
  ASSUME NEW S, S \subseteq Nat, S # {}
  PROVE  \E m \in S : \A k \in S : m <= k
  <1>1. PICK m \in S : \A k \in S : ~(<<k, m>> \in OpToRel(<, Nat))
    BY NatLessThanWellFounded, WFMin
  <1>2. \A k \in S : ~(k < m)
    BY <1>1 DEF OpToRel
  <1> QED
    BY <1>2

\* The highest number among the children listed exists.
LEMMA GreatestNatural ==
  ASSUME NEW n \in Nat, NEW S, S \subseteq 0 .. n, S # {}
  PROVE  \E m \in S : \A k \in S : k <= m
  <1> DEFINE T == {n - x : x \in S}
  <1>a. \A x \in S : n - x \in Nat
    OBVIOUS
  <1>b. PICK x \in S : TRUE
    OBVIOUS
  <1>c. n - x \in T
    OBVIOUS
  <1>1. T \subseteq Nat /\ T # {}
    BY <1>a, <1>c
  <1> HIDE DEF T
  <1>2. PICK t \in T : \A u \in T : t <= u
    BY <1>1, LeastNatural
  <1>3. PICK m \in S : t = n - m
    BY <1>2 DEF T
  <1>4. \A k \in S : n - k \in T
    BY DEF T
  <1>5. \A k \in S : k <= m
    BY <1>2, <1>3, <1>4
  <1> QED
    BY <1>5

=============================================================================
