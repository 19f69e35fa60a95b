----------------------------- MODULE HashProofs -----------------------------
(***************************************************************************)
(* What hash_code() computes, for keys of any length over any digits and   *)
(* for any widths of an int and a long: the sum stays an int, and as long  *)
(* as the numbers in the key are small it is what those numbers add up to, *)
(* so that a key without a tab gets one of the lists.                      *)
(***************************************************************************)
EXTENDS HashCode, Inductions

LEMMA KeyShape ==
  ASSUME NEW k \in Key
  PROVE  /\ Len(k) \in 0 .. MaxLen /\ Len(k) \in Nat
         /\ DOMAIN k = 1 .. Len(k)
         /\ \A p \in 1 .. Len(k) : k[p] \in Int /\ At(k, p) = k[p]
         /\ \A p \in Int : p \notin 1 .. Len(k) => At(k, p) = Other
  <1>1. PICK n \in 0 .. MaxLen : k \in [1 .. n -> Char]
    BY DEF Key
  <1>2. n \in Nat /\ DOMAIN k = 1 .. n /\ Len(k) = n
    BY <1>1, HashAssumption
  <1>3. Char \subseteq Int
    BY HashAssumption DEF Char, Tab, Minus, Plus, Other
  <1> QED
    BY <1>1, <1>2, <1>3 DEF At

\* Digits are naturals and no other character is one.
LEMMA DigitShape ==
  /\ \A x \in Digit : x \in Nat /\ x \notin {Tab, Minus, Plus, Other}
  /\ Tab \notin {Minus, Plus} /\ Other \notin {Tab, Minus, Plus} /\ Minus # Plus
  BY HashAssumption DEF Tab, Minus, Plus, Other

-----------------------------------------------------------------------------
(* Numbers as they are read. *)

\* h[p] is the number that the characters from a to p are.
Reads(h, k, a) ==
  \A p \in 0 .. Len(k) : h[p] \in Int /\ h[p] = IF p < a THEN 0 ELSE 10 * h[p - 1] + k[p]

LEMMA NumberIs ==
  ASSUME NEW k \in Key, NEW a \in Nat, a > 0
  PROVE  \E h : Reads(h, k, a) /\ \A b \in 0 .. Len(k) : Number(k, a, b) = h[b]
  <1> DEFINE Read(h, m) == h = [p \in 0 .. m |-> IF p < a THEN 0 ELSE 10 * h[p - 1] + k[p]]
             Good == {m \in 0 .. Len(k) : \E h : Read(h, m) /\ h[m] \in Int}
             num == CHOOSE h : Read(h, Len(k))
  <1>0. Len(k) \in Nat /\ \A p \in 1 .. Len(k) : k[p] \in Int
    BY KeyShape
  <1>1. 0 \in Good
    <2> DEFINE h == [p \in 0 .. 0 |-> 0]
    <2>1. \A p \in 0 .. 0 : (IF p < a THEN 0 ELSE 10 * h[p - 1] + k[p]) = 0
      OBVIOUS
    <2>2. Read(h, 0)
      BY <2>1
    <2>3. h[0] \in Int /\ 0 \in 0 .. Len(k)
      BY <1>0
    <2> HIDE DEF Read, h
    <2> QED
      BY <2>2, <2>3
  <1>2. ASSUME NEW m \in 0 .. Len(k) - 1, m \in Good PROVE m + 1 \in Good
    <2>1. PICK h : Read(h, m) /\ h[m] \in Int
      BY <1>2
    <2>2. m \in Nat /\ m + 1 \in 1 .. Len(k) /\ m + 1 \in 0 .. Len(k)
      BY <1>0
    <2>3. \A p \in 0 .. m : h[p] = IF p < a THEN 0 ELSE 10 * h[p - 1] + k[p]
      BY <2>1
    <2> DEFINE last == IF m + 1 < a THEN 0 ELSE 10 * h[m] + k[m + 1]
               g == [p \in 0 .. m + 1 |-> IF p = m + 1 THEN last ELSE h[p]]
    <2>4. last \in Int
      BY <1>0, <2>1, <2>2
    <2> HIDE DEF last
    <2>5. g[m + 1] = last /\ \A p \in 0 .. m : g[p] = h[p]
      BY <2>2
    <2>6. g = [p \in 0 .. m + 1 |-> g[p]]
      OBVIOUS
    <2> HIDE DEF g, Read
    <2>7. ASSUME NEW p \in 0 .. m + 1
          PROVE  g[p] = IF p < a THEN 0 ELSE 10 * g[p - 1] + k[p]
      <3>1. CASE p = m + 1
        <4>1. m \in 0 .. m /\ p - 1 = m
          BY <2>2, <3>1
        <4> QED
          BY <2>5, <3>1, <4>1 DEF last
      <3>2. CASE p # m + 1
        <4>1. p \in 0 .. m /\ (~(p < a) => p - 1 \in 0 .. m)
          BY <2>2, <3>2
        <4> QED
          BY <2>3, <2>5, <4>1
      <3> QED
        BY <3>1, <3>2
    <2>8. Read(g, m + 1)
      <3>1. [p \in 0 .. m + 1 |-> g[p]] =
              [p \in 0 .. m + 1 |-> IF p < a THEN 0 ELSE 10 * g[p - 1] + k[p]]
        BY <2>7
      <3> QED
        BY <2>6, <3>1 DEF Read
    <2> QED
      BY <2>2, <2>4, <2>5, <2>8
  <1> HIDE DEF Good
  <1>3. Len(k) \in Good
    <2>1. \A m \in 0 .. Len(k) : m \in Good
      BY <1>0, <1>1, <1>2, UpTo
    <2> QED
      BY <1>0, <2>1
  <1>4. Read(num, Len(k))
    <2>1. \E h : Read(h, Len(k))
      BY <1>3 DEF Good
    <2> QED
      BY <2>1
  <1>5. \A b : Number(k, a, b) = num[b]
    BY DEF Number
  <1> HIDE DEF num
  <1>6. \A p \in 0 .. Len(k) : num[p] = IF p < a THEN 0 ELSE 10 * num[p - 1] + k[p]
    BY <1>4
  <1> DEFINE Typed == {m \in 0 .. Len(k) : num[m] \in Int}
  <1>7. 0 \in Typed
    BY <1>0, <1>6
  <1>8. ASSUME NEW m \in 0 .. Len(k) - 1, m \in Typed PROVE m + 1 \in Typed
    <2>1. m + 1 \in 0 .. Len(k) /\ m + 1 \in 1 .. Len(k) /\ (m + 1) - 1 = m
      BY <1>0
    <2> QED
      BY <1>0, <1>6, <1>8, <2>1
  <1> HIDE DEF Typed
  <1>9. \A m \in 0 .. Len(k) : m \in Typed
    BY <1>0, <1>7, <1>8, UpTo
  <1>10. Reads(num, k, a)
    BY <1>6, <1>9 DEF Reads, Typed
  <1> QED
    BY <1>5, <1>10

\* One more digit makes ten times the number and the digit.
LEMMA NumberReads ==
  ASSUME NEW k \in Key, NEW a \in Nat, a > 0
  PROVE  /\ \A q \in 0 .. Len(k) : Number(k, a, q) \in Int
         /\ \A q \in 0 .. Len(k) : q < a => Number(k, a, q) = 0
         /\ \A q \in 0 .. Len(k) : q >= a =>
              Number(k, a, q) = 10 * Number(k, a, q - 1) + k[q]
  <1>1. PICK h : Reads(h, k, a) /\ \A b \in 0 .. Len(k) : Number(k, a, b) = h[b]
    BY NumberIs
  <1>2. Len(k) \in Nat
    BY KeyShape
  <1>3. \A q \in 0 .. Len(k) : q >= a => q - 1 \in 0 .. Len(k) /\ ~(q < a)
    BY <1>2
  <1> QED
    BY <1>1, <1>3 DEF Reads

\* Digits make a natural, and leaving out the first ones makes it no larger.
LEMMA NumberGrows ==
  ASSUME NEW k \in Key, NEW a \in Nat, a > 0, NEW b \in 0 .. Len(k),
         AllIn(k, a, b, Digit), NEW p \in a .. b
  PROVE  Number(k, p, b) \in Nat /\ Number(k, a, b) \in Nat /\ Number(k, p, b) <= Number(k, a, b)
  <1>1. /\ Len(k) \in Nat /\ b \in Nat /\ p \in Nat /\ p > 0 /\ a <= p /\ p <= b /\ b <= Len(k)
    BY KeyShape
  <1>2. \A q \in a .. b : k[q] \in Nat
    <2> TAKE q \in a .. b
    <2>1. q \in 1 .. Len(k)
      BY <1>1
    <2> QED
      BY <2>1, KeyShape, DigitShape DEF AllIn
  <1> DEFINE Good == {m \in 0 .. b : Number(k, p, m) \in Nat /\ Number(k, a, m) \in Nat
                                      /\ Number(k, p, m) <= Number(k, a, m)}
  <1>3. 0 \in Good
    <2>1. 0 \in 0 .. Len(k) /\ 0 \in 0 .. b /\ 0 < a /\ 0 < p
      BY <1>1
    <2>2. Number(k, p, 0) = 0 /\ Number(k, a, 0) = 0
      BY <1>1, <2>1, NumberReads
    <2> QED
      BY <2>1, <2>2
  <1>4. ASSUME NEW m \in 0 .. b - 1, m \in Good PROVE m + 1 \in Good
    <2>1. m + 1 \in 0 .. Len(k) /\ m + 1 \in 0 .. b /\ m \in Nat /\ (m + 1) - 1 = m
      BY <1>1
    <2>2. Number(k, p, m) \in Nat /\ Number(k, a, m) \in Nat /\ Number(k, p, m) <= Number(k, a, m)
      BY <1>4
    <2>3. m + 1 >= a => k[m + 1] \in Nat
      BY <1>1, <1>2, <2>1
    <2>4. /\ m + 1 < p => Number(k, p, m + 1) = 0
          /\ m + 1 >= p => Number(k, p, m + 1) = 10 * Number(k, p, m) + k[m + 1]
      <3>1. p \in Nat /\ p > 0
        BY <1>1
      <3> QED
        BY <2>1, <3>1, NumberReads
    <2>5. /\ m + 1 < a => Number(k, a, m + 1) = 0
          /\ m + 1 >= a => Number(k, a, m + 1) = 10 * Number(k, a, m) + k[m + 1]
      BY <2>1, NumberReads
    <2>6. /\ Number(k, p, m + 1) \in Nat /\ Number(k, a, m + 1) \in Nat
          /\ Number(k, p, m + 1) <= Number(k, a, m + 1)
      <3>1. CASE m + 1 < a
        BY <1>1, <2>1, <2>4, <2>5, <3>1
      <3>2. CASE m + 1 >= a /\ m + 1 < p
        BY <1>1, <2>1, <2>2, <2>3, <2>4, <2>5, <3>2
      <3>3. CASE m + 1 >= p
        <4> DEFINE x == Number(k, p, m)
                   y == Number(k, a, m)
                   v == k[m + 1]
        <4>1. x \in Nat /\ y \in Nat /\ v \in Nat /\ x <= y
          BY <1>1, <2>1, <2>2, <2>3, <3>3
        <4>2. Number(k, p, m + 1) = 10 * x + v /\ Number(k, a, m + 1) = 10 * y + v
          BY <1>1, <2>1, <2>4, <2>5, <3>3
        <4> HIDE DEF x, y, v
        <4> QED
          BY <4>1, <4>2
      <3> QED
        BY <1>1, <2>1, <3>1, <3>2, <3>3
    <2> QED
      BY <2>1, <2>6
  <1> HIDE DEF Good
  <1>5. b \in Good
    <2>1. \A m \in 0 .. b : m \in Good
      BY <1>1, <1>3, <1>4, UpTo
    <2> QED
      BY <1>1, <2>1
  <1> QED
    BY <1>5 DEF Good

-----------------------------------------------------------------------------
(* Where reading stops. *)

\* After finds the first position whose character is not in S.
LEMMA AfterIs ==
  ASSUME NEW k \in Key, NEW S, NEW p \in Nat, NEW q \in p .. Len(k) + 1,
         At(k, q) \notin S, \A x \in p .. q - 1 : At(k, x) \in S
  PROVE  After(k, p, S) = q
  <1> DEFINE T == {x \in p .. Len(k) + 1 : At(k, x) \notin S}
  <1>1. Len(k) \in Nat
    BY KeyShape
  <1>2. q \in T /\ \A y \in T : q <= y
    BY <1>1
  <1>3. T \subseteq Nat
    BY <1>1
  <1>4. \A x \in T : (\A y \in T : x <= y) => x = q
    BY <1>2, <1>3
  <1>5. After(k, p, S) = CHOOSE x \in T : \A y \in T : x <= y
    BY DEF After, Min
  <1> HIDE DEF T
  <1> QED
    BY <1>2, <1>4, <1>5

LEMMA AfterFinds ==
  ASSUME NEW k \in Key, NEW S, Other \notin S, NEW p \in 0 .. Len(k) + 1
  PROVE  /\ After(k, p, S) \in p .. Len(k) + 1
         /\ At(k, After(k, p, S)) \notin S
         /\ \A x \in p .. After(k, p, S) - 1 : At(k, x) \in S
  <1> DEFINE T == {x \in p .. Len(k) + 1 : At(k, x) \notin S}
  <1>1. Len(k) \in Nat /\ p \in Nat
    BY KeyShape
  <1>2. Len(k) + 1 \in T
    <2>1. Len(k) + 1 \in p .. Len(k) + 1 /\ Len(k) + 1 \in Int /\ Len(k) + 1 \notin 1 .. Len(k)
      BY <1>1
    <2> QED
      BY <2>1, KeyShape
  <1>3. T \subseteq Nat
    BY <1>1
  <1>4. PICK q \in T : \A y \in T : q <= y
    BY <1>2, <1>3, LeastNatural
  <1>5. q \in p .. Len(k) + 1 /\ At(k, q) \notin S
    BY <1>4
  <1>6. ASSUME NEW x \in p .. q - 1 PROVE At(k, x) \in S
    <2>1. x \in p .. Len(k) + 1 /\ ~(q <= x)
      BY <1>1, <1>5
    <2> QED
      BY <1>4, <2>1
  <1>7. After(k, p, S) = q
    BY <1>1, <1>5, <1>6, AfterIs
  <1> QED
    BY <1>5, <1>6, <1>7

-----------------------------------------------------------------------------
(* The numbers in a key and the positions from which each is read. *)

\* The sign and the blanks in front of a number: atoi at any of them reads it.
BlanksOf(r) ==
  LET last == IF Signed(r) THEN r.from - 2 ELSE r.from - 1 IN
  {p \in 1 .. last : AllIn(key, p, last, {Tab})}
Lead(r) == BlanksOf(r) \cup (IF Signed(r) THEN {r.from - 1} ELSE {})

LEMMA NumberShape ==
  ASSUME key \in Key, NEW r \in Numbers
  PROVE  /\ r.from \in 1 .. Len(key) /\ r.to \in 1 .. Len(key) /\ r.from <= r.to
         /\ r.from \in Nat /\ r.to \in Nat
         /\ \A p \in r.from .. r.to : At(key, p) \in Digit
         /\ At(key, r.from - 1) \notin Digit /\ At(key, r.to + 1) \notin Digit
         /\ r = [from |-> r.from, to |-> r.to]
  <1>1. DOMAIN key = 1 .. Len(key) /\ Len(key) \in Nat
    BY KeyShape
  <1>2. /\ r \in [from : DOMAIN key, to : DOMAIN key]
        /\ r.from <= r.to /\ AllIn(key, r.from, r.to, Digit)
        /\ At(key, r.from - 1) \notin Digit /\ At(key, r.to + 1) \notin Digit
    BY DEF Numbers
  <1>3. r.from \in 1 .. Len(key) /\ r.to \in 1 .. Len(key) /\ r = [from |-> r.from, to |-> r.to]
    BY <1>1, <1>2
  <1> QED
    BY <1>1, <1>2, <1>3 DEF AllIn

\* Two numbers do not overlap.
LEMMA NumbersApart ==
  ASSUME key \in Key, NEW r \in Numbers, NEW s \in Numbers,
         NEW p \in Int, p \in r.from .. r.to, p \in s.from .. s.to
  PROVE  r = s
  <1>1. ASSUME NEW x \in Numbers, NEW y \in Numbers, p \in x.from .. x.to, p \in y.from .. y.to
        PROVE  ~(x.from < y.from) /\ ~(x.to < y.to)
    <2>1. x.from \in Nat /\ x.to \in Nat /\ y.from \in Nat /\ y.to \in Nat
      BY NumberShape
    <2>2. ~(x.from < y.from)
      <3> SUFFICES ASSUME x.from < y.from PROVE FALSE
        OBVIOUS
      <3>1. y.from - 1 \in x.from .. x.to
        BY <1>1, <2>1
      <3> QED
        BY <3>1, NumberShape
    <2>3. ~(x.to < y.to)
      <3> SUFFICES ASSUME x.to < y.to PROVE FALSE
        OBVIOUS
      <3>1. x.to + 1 \in y.from .. y.to
        BY <1>1, <2>1
      <3> QED
        BY <3>1, NumberShape
    <2> QED
      BY <2>2, <2>3
  <1>2. /\ ~(r.from < s.from) /\ ~(r.to < s.to)
        /\ ~(s.from < r.from) /\ ~(s.to < r.to)
    BY <1>1
  <1>3. /\ r.from \in Nat /\ r.to \in Nat /\ s.from \in Nat /\ s.to \in Nat
        /\ r = [from |-> r.from, to |-> r.to] /\ s = [from |-> s.from, to |-> s.to]
    BY NumberShape
  <1>4. r.from = s.from /\ r.to = s.to
    BY <1>2, <1>3
  <1> QED
    BY <1>3, <1>4

LEMMA NumbersFinite == key \in Key => IsFiniteSet(Numbers)
  <1> HAVE key \in Key
  <1> DEFINE f == [r \in Numbers |-> r.from]
  <1>1. \A r \in Numbers : r.from \in 1 .. Len(key)
    BY NumberShape
  <1>2. ASSUME NEW r \in Numbers, NEW s \in Numbers, r.from = s.from PROVE r = s
    <2>1. r.from \in Int /\ r.from \in r.from .. r.to /\ r.from \in s.from .. s.to
      <3>1. /\ r.from \in Nat /\ r.to \in Nat /\ r.from <= r.to
            /\ s.from \in Nat /\ s.to \in Nat /\ s.from <= s.to
        BY NumberShape
      <3> QED
        BY <1>2, <3>1
    <2> QED
      BY <2>1, NumbersApart
  <1>3. f \in [Numbers -> 1 .. Len(key)]
    BY <1>1
  <1>4. \A r, s \in Numbers : f[r] = f[s] => r = s
    BY <1>2
  <1> HIDE DEF f
  <1>5. f \in Injection(Numbers, 1 .. Len(key))
    BY <1>3, <1>4 DEF Injection, IsInjective
  <1>6. IsFiniteSet(1 .. Len(key))
    BY KeyShape, FS_Interval
  <1> QED
    BY <1>5, <1>6, FS_Injection

\* What is in front of a number is no digit up to where the number begins.
LEMMA LeadShape ==
  ASSUME key \in Key, NEW r \in Numbers, NEW p \in Lead(r)
  PROVE  /\ p \in 1 .. r.from - 1 /\ p \in 1 .. Len(key)
         /\ \A q \in p .. r.from - 1 : At(key, q) \notin Digit
         /\ Signed(r) => \A q \in p .. r.from - 2 : At(key, q) = Tab
         /\ ~Signed(r) => \A q \in p .. r.from - 1 : At(key, q) = Tab
  <1>1. r.from \in 1 .. Len(key) /\ r.from \in Nat /\ Len(key) \in Nat
    BY NumberShape, KeyShape
  <1>2. CASE Signed(r)
    <2>1. At(key, r.from - 1) \in {Minus, Plus}
      BY <1>2 DEF Signed
    <2>2. r.from - 1 \in 1 .. Len(key)
      <3>1. r.from - 1 \in Int
        BY <1>1
      <3>2. At(key, r.from - 1) # Other
        BY <2>1, DigitShape
      <3> QED
        BY <3>1, <3>2, KeyShape
    <2>3. p \in 1 .. r.from - 1 /\ \A q \in p .. r.from - 2 : At(key, q) = Tab
      <3>1. p = r.from - 1 \/ (p \in 1 .. r.from - 2 /\ AllIn(key, p, r.from - 2, {Tab}))
        BY <1>2 DEF Lead, BlanksOf
      <3> QED
        BY <1>1, <2>2, <3>1 DEF AllIn
    <2>4. ASSUME NEW q \in p .. r.from - 1 PROVE At(key, q) \notin Digit
      <3>1. q = r.from - 1 \/ q \in p .. r.from - 2
        BY <1>1, <2>3
      <3> QED
        BY <2>1, <2>3, <3>1, DigitShape
    <2> QED
      BY <1>1, <1>2, <2>3, <2>4
  <1>3. CASE ~Signed(r)
    <2>1. p \in 1 .. r.from - 1 /\ AllIn(key, p, r.from - 1, {Tab})
      BY <1>3 DEF Lead, BlanksOf
    <2>2. \A q \in p .. r.from - 1 : At(key, q) = Tab
      BY <2>1 DEF AllIn
    <2> QED
      BY <1>1, <1>3, <2>1, <2>2, DigitShape
  <1> QED
    BY <1>2, <1>3

\* A position in front of a number is in front of no other, and in none.
LEMMA LeadsApart ==
  ASSUME key \in Key, NEW r \in Numbers, NEW s \in Numbers, NEW p \in Lead(r)
  PROVE  p \notin s.from .. s.to /\ (p \in Lead(s) => r = s)
  <1>1. /\ r.from \in Nat /\ r.to \in Nat /\ s.from \in Nat /\ s.to \in Nat
        /\ r.from <= r.to /\ s.from <= s.to
    BY NumberShape
  <1>2. p \in 1 .. r.from - 1 /\ \A q \in p .. r.from - 1 : At(key, q) \notin Digit
    BY LeadShape
  <1>3. p \notin s.from .. s.to
    <2>1. p \in p .. r.from - 1
      BY <1>1, <1>2
    <2> QED
      BY <1>2, <2>1, NumberShape
  <1>4. ASSUME p \in Lead(s) PROVE r = s
    <2>1. p \in 1 .. s.from - 1 /\ \A q \in p .. s.from - 1 : At(key, q) \notin Digit
      BY <1>4, LeadShape
    <2>2. ~(r.from < s.from)
      <3> SUFFICES ASSUME r.from < s.from PROVE FALSE
        OBVIOUS
      <3>1. r.from \in p .. s.from - 1 /\ r.from \in r.from .. r.to
        BY <1>1, <1>2
      <3> QED
        BY <2>1, <3>1, NumberShape
    <2>3. ~(s.from < r.from)
      <3> SUFFICES ASSUME s.from < r.from PROVE FALSE
        OBVIOUS
      <3>1. s.from \in p .. r.from - 1 /\ s.from \in s.from .. s.to
        BY <1>1, <2>1
      <3> QED
        BY <1>2, <3>1, NumberShape
    <2>4. r.from = s.from /\ r.from \in Int
      BY <1>1, <2>2, <2>3
    <2>5. r.from \in r.from .. r.to /\ r.from \in s.from .. s.to
      BY <1>1, <2>4
    <2> QED
      BY <2>4, <2>5, NumbersApart
  <1> QED
    BY <1>3, <1>4

\* Every digit is in a number.
LEMMA DigitInNumber ==
  ASSUME key \in Key, NEW x \in Int, At(key, x) \in Digit
  PROVE  \E r \in Numbers : x \in r.from .. r.to
  <1>1. Len(key) \in Nat /\ x \in 1 .. Len(key) /\ DOMAIN key = 1 .. Len(key)
    BY KeyShape, DigitShape
  <1> DEFINE Starts == {a \in 1 .. x : AllIn(key, a, x, Digit)}
  <1>2. x \in Starts
    <2>1. \A p \in x .. x : p = x
      BY <1>1
    <2> QED
      BY <1>1, <2>1 DEF AllIn
  <1>3. Starts \subseteq Nat
    BY <1>1
  <1>4. PICK a \in Starts : \A b \in Starts : a <= b
    BY <1>2, <1>3, LeastNatural
  <1>5. a \in 1 .. x /\ \A p \in a .. x : At(key, p) \in Digit
    BY <1>4 DEF AllIn
  <1>6. At(key, a - 1) \notin Digit
    <2> SUFFICES ASSUME At(key, a - 1) \in Digit PROVE FALSE
      OBVIOUS
    <2>1. a - 1 \in Int /\ a - 1 \notin Starts
      BY <1>1, <1>4, <1>5
    <2>2. a - 1 \in 1 .. Len(key)
      BY <2>1, KeyShape, DigitShape
    <2>3. \A p \in a - 1 .. x : p = a - 1 \/ p \in a .. x
      BY <1>1, <1>5
    <2>4. AllIn(key, a - 1, x, Digit)
      BY <1>5, <2>3 DEF AllIn
    <2>5. a - 1 \in 1 .. x
      BY <1>1, <1>5, <2>2
    <2> QED
      BY <2>1, <2>4, <2>5
  <1> DEFINE e == After(key, x, Digit)
  <1>7. /\ e \in x .. Len(key) + 1 /\ At(key, e) \notin Digit
        /\ \A p \in x .. e - 1 : At(key, p) \in Digit
    <2>1. Other \notin Digit /\ x \in 0 .. Len(key) + 1
      BY <1>1, DigitShape
    <2> QED
      BY <2>1, AfterFinds
  <1> HIDE DEF e
  <1>8. e # x
    BY <1>7
  <1>9. e - 1 \in x .. Len(key) /\ (e - 1) + 1 = e
    BY <1>1, <1>7, <1>8
  <1> DEFINE r == [from |-> a, to |-> e - 1]
  <1>10. r.from = a /\ r.to = e - 1
    OBVIOUS
  <1>11. a \in DOMAIN key /\ e - 1 \in DOMAIN key /\ a <= e - 1 /\ x \in a .. e - 1
    BY <1>1, <1>5, <1>9
  <1>12. AllIn(key, a, e - 1, Digit)
    <2>1. \A p \in a .. e - 1 : p \in a .. x \/ p \in x .. e - 1
      BY <1>1, <1>5, <1>9
    <2> QED
      BY <1>5, <1>7, <2>1 DEF AllIn
  <1>13. r \in [from : DOMAIN key, to : DOMAIN key]
    BY <1>11
  <1> HIDE DEF r
  <1>14. r \in Numbers
    BY <1>6, <1>7, <1>9, <1>10, <1>11, <1>12, <1>13 DEF Numbers
  <1> QED
    BY <1>10, <1>11, <1>14

-----------------------------------------------------------------------------
(* What atoi makes of a suffix. *)

\* A value that fits is kept.
LEMMA Fits ==
  ASSUME NEW n \in Int, - HalfInt <= n, n < HalfInt
  PROVE  Cut(n, HalfInt) = n /\ Limit(n, HalfLong) = n
  <1>1. HalfInt \in Nat /\ HalfInt > 0 /\ HalfLong \in Nat /\ HalfLong >= HalfInt
    BY HashAssumption
  <1>2. Limit(n, HalfLong) = n
    BY <1>1 DEF Limit
  <1> DEFINE m == 2 * HalfInt
             x == n + HalfInt
  <1>3. m \in Nat /\ x \in 0 .. m - 1
    BY <1>1
  <1> HIDE DEF m, x
  <1>4. x % m = x
    BY <1>3
  <1>5. (n + HalfInt) % (2 * HalfInt) = n + HalfInt
    BY <1>4 DEF m, x
  <1>6. Cut(n, HalfInt) = (n + HalfInt) - HalfInt
    BY <1>5 DEF Cut
  <1> QED
    BY <1>1, <1>2, <1>6

LEMMA CutType ==
  ASSUME NEW n \in Int
  PROVE  Cut(n, HalfInt) \in - HalfInt .. HalfInt - 1
  <1>1. HalfInt \in Nat /\ HalfInt > 0
    BY HashAssumption
  <1> DEFINE m == 2 * HalfInt
             x == n + HalfInt
  <1>2. m \in Nat /\ m > 0 /\ x \in Int /\ m = 2 * HalfInt
    BY <1>1
  <1>3. Cut(n, HalfInt) = (x % m) - HalfInt
    BY DEF Cut
  <1> HIDE DEF m, x
  <1>4. x % m \in 0 .. m - 1
    BY <1>2
  <1> QED
    BY <1>1, <1>2, <1>3, <1>4

LEMMA atoiType ==
  ASSUME key \in Key, NEW p \in 1 .. Len(key)
  PROVE  atoi(key, p) \in - HalfInt .. HalfInt - 1
  <1> DEFINE b == After(key, p, {Tab})
             d == IF At(key, b) \in {Minus, Plus} THEN b + 1 ELSE b
             e == After(key, d, Digit)
             n == Number(key, d, e - 1)
             v == IF At(key, b) = Minus THEN -n ELSE n
  <1>1. Len(key) \in Nat /\ p \in 0 .. Len(key) + 1 /\ Other \notin {Tab} /\ Other \notin Digit
    BY KeyShape, DigitShape
  <1>2. b \in p .. Len(key) + 1
    BY <1>1, AfterFinds
  <1> HIDE DEF b
  <1>3. d \in 1 .. Len(key) + 1
    <2>1. ASSUME At(key, b) \in {Minus, Plus} PROVE b \in 1 .. Len(key)
      BY <1>1, <1>2, <2>1, KeyShape, DigitShape
    <2> QED
      BY <1>1, <1>2, <2>1
  <1> HIDE DEF d
  <1>4. e \in d .. Len(key) + 1
    <2>1. d \in 0 .. Len(key) + 1
      BY <1>1, <1>3
    <2> QED
      BY <1>1, <2>1, AfterFinds
  <1> HIDE DEF e
  <1>5. d \in Nat /\ d > 0 /\ e - 1 \in 0 .. Len(key)
    BY <1>1, <1>3, <1>4
  <1>6. n \in Int
    BY <1>5, NumberReads
  <1>7. atoi(key, p) = Cut(Limit(v, HalfLong), HalfInt)
    BY DEF atoi, b, d, e
  <1> HIDE DEF n
  <1>8. v \in Int
    BY <1>6
  <1> HIDE DEF v
  <1>9. Limit(v, HalfLong) \in Int
    BY <1>8, HashAssumption DEF Limit
  <1> QED
    BY <1>7, <1>9, CutType

\* In a number it reads the rest of the number.
LEMMA ReadsRest ==
  ASSUME key \in Key, NEW r \in Numbers, NEW p \in r.from .. r.to
  PROVE  atoi(key, p) = Cut(Limit(Number(key, p, r.to), HalfLong), HalfInt)
  <1>1. /\ Len(key) \in Nat /\ r.from \in 1 .. Len(key) /\ r.to \in 1 .. Len(key)
        /\ p \in Nat /\ p \in 1 .. Len(key)
    BY KeyShape, NumberShape
  <1>2. At(key, p) \in Digit
    BY NumberShape
  <1>3. At(key, p) # Tab /\ At(key, p) # Minus /\ At(key, p) # Plus
    BY <1>2, DigitShape
  <1>4. After(key, p, {Tab}) = p
    <2>1. p \in p .. Len(key) + 1 /\ \A x \in p .. p - 1 : At(key, x) \in {Tab}
      BY <1>1
    <2> QED
      BY <1>1, <1>3, <2>1, AfterIs
  <1>5. After(key, p, Digit) = r.to + 1
    <2>1. r.to + 1 \in p .. Len(key) + 1
      BY <1>1
    <2>2. \A x \in p .. (r.to + 1) - 1 : x \in r.from .. r.to
      BY <1>1
    <2>3. \A x \in p .. (r.to + 1) - 1 : At(key, x) \in Digit
      BY <2>2, NumberShape
    <2>4. At(key, r.to + 1) \notin Digit
      BY NumberShape
    <2> QED
      BY <1>1, <2>1, <2>3, <2>4, AfterIs
  <1>6. (r.to + 1) - 1 = r.to
    BY <1>1
  <1> QED
    BY <1>3, <1>4, <1>5, <1>6 DEF atoi

\* In front of a number it reads the number and its sign.
LEMMA ReadsAll ==
  ASSUME key \in Key, NEW r \in Numbers, NEW p \in Lead(r)
  PROVE  atoi(key, p) = Cut(Limit(IF Sign(r) = -1 THEN - Number(key, r.from, r.to)
                                  ELSE Number(key, r.from, r.to), HalfLong), HalfInt)
  <1>1. /\ Len(key) \in Nat /\ r.from \in 1 .. Len(key) /\ r.to \in 1 .. Len(key)
        /\ r.from <= r.to
    BY KeyShape, NumberShape
  <1>2. /\ p \in 1 .. r.from - 1 /\ p \in Nat
        /\ Signed(r) => \A q \in p .. r.from - 2 : At(key, q) = Tab
        /\ ~Signed(r) => \A q \in p .. r.from - 1 : At(key, q) = Tab
    BY <1>1, LeadShape
  <1>3. After(key, r.from, Digit) = r.to + 1
    <2>1. r.to + 1 \in r.from .. Len(key) + 1 /\ r.from \in Nat
      BY <1>1
    <2>2. (r.to + 1) - 1 = r.to
      BY <1>1
    <2>3. \A x \in r.from .. (r.to + 1) - 1 : At(key, x) \in Digit
      BY <2>2, NumberShape
    <2>4. At(key, r.to + 1) \notin Digit
      BY NumberShape
    <2> QED
      BY <1>1, <2>1, <2>3, <2>4, AfterIs
  <1>4. (r.to + 1) - 1 = r.to
    BY <1>1
  <1>5. CASE Signed(r)
    <2>1. At(key, r.from - 1) \in {Minus, Plus} /\ At(key, r.from - 1) # Tab
      BY <1>5, DigitShape DEF Signed
    <2>2. After(key, p, {Tab}) = r.from - 1
      <3>1. r.from - 1 \in p .. Len(key) + 1 /\ (r.from - 1) - 1 = r.from - 2
        BY <1>1, <1>2
      <3>2. \A x \in p .. (r.from - 1) - 1 : At(key, x) \in {Tab}
        BY <1>2, <1>5, <3>1
      <3> QED
        BY <1>2, <2>1, <3>1, <3>2, AfterIs
    <2>3. (r.from - 1) + 1 = r.from
      BY <1>1
    <2>4. Sign(r) = -1 <=> At(key, r.from - 1) = Minus
      BY DEF Sign
    <2> QED
      BY <1>3, <1>4, <2>1, <2>2, <2>3, <2>4 DEF atoi
  <1>6. CASE ~Signed(r)
    <2>1. At(key, r.from) \in Digit
      <3>1. r.from \in r.from .. r.to
        BY <1>1
      <3> QED
        BY <3>1, NumberShape
    <2>2. At(key, r.from) # Tab /\ At(key, r.from) # Minus /\ At(key, r.from) # Plus
      BY <2>1, DigitShape
    <2>3. After(key, p, {Tab}) = r.from
      <3>1. r.from \in p .. Len(key) + 1
        BY <1>1, <1>2
      <3>2. \A x \in p .. r.from - 1 : At(key, x) \in {Tab}
        BY <1>2, <1>6
      <3> QED
        BY <1>2, <2>2, <3>1, <3>2, AfterIs
    <2>4. Sign(r) = 1
      BY <1>6 DEF Sign, Signed
    <2> QED
      BY <1>3, <1>4, <2>2, <2>3, <2>4 DEF atoi
  <1> QED
    BY <1>5, <1>6

\* Anywhere else it finds no digit.
LEMMA ReadsNothing ==
  ASSUME key \in Key, NEW p \in 1 .. Len(key),
         \A r \in Numbers : p \notin r.from .. r.to /\ p \notin Lead(r)
  PROVE  atoi(key, p) = 0
  <1> DEFINE b == After(key, p, {Tab})
             d == IF At(key, b) \in {Minus, Plus} THEN b + 1 ELSE b
  <1>1. Len(key) \in Nat /\ p \in 0 .. Len(key) + 1 /\ Other \notin {Tab} /\ Other \notin Digit
    BY KeyShape, DigitShape
  <1>2. /\ b \in p .. Len(key) + 1 /\ At(key, b) \notin {Tab}
        /\ \A x \in p .. b - 1 : At(key, x) \in {Tab}
    BY <1>1, AfterFinds
  <1> HIDE DEF b
  <1>3. At(key, b) \in {Minus, Plus} => b \in 1 .. Len(key)
    BY <1>1, <1>2, KeyShape, DigitShape
  <1>4. d \in 1 .. Len(key) + 1
    BY <1>1, <1>2, <1>3
  <1>5. At(key, d) \notin Digit
    <2> SUFFICES ASSUME At(key, d) \in Digit PROVE FALSE
      OBVIOUS
    <2>1. PICK r \in Numbers : d \in r.from .. r.to
      BY <1>4, DigitInNumber
    <2>2. /\ r.from \in 1 .. Len(key) /\ r.from \in Nat /\ r.to \in Nat
          /\ \A q \in r.from .. r.to : At(key, q) \in Digit
      BY NumberShape
    <2>3. d # p
      BY <2>1
    <2>4. d - 1 \in p .. Len(key) /\ At(key, d - 1) \notin Digit
      <3>1. CASE At(key, b) \in {Minus, Plus}
        <4>1. d = b + 1 /\ d - 1 = b
          BY <1>2, <3>1
        <4> QED
          BY <1>2, <1>3, <3>1, <4>1, DigitShape
      <3>2. CASE At(key, b) \notin {Minus, Plus}
        <4>1. d = b /\ b - 1 \in p .. b - 1 /\ b - 1 \in p .. Len(key)
          BY <1>1, <1>2, <2>3, <3>2
        <4> QED
          BY <1>2, <4>1, DigitShape
      <3> QED
        BY <3>1, <3>2
    <2>5. r.from = d
      <3> SUFFICES ASSUME r.from # d PROVE FALSE
        OBVIOUS
      <3>1. d - 1 \in r.from .. r.to
        BY <1>4, <2>1, <2>2
      <3> QED
        BY <2>2, <2>4, <3>1
    <2>6. p \in Lead(r)
      <3>1. CASE At(key, b) \in {Minus, Plus}
        <4>1. d = b + 1 /\ r.from - 1 = b /\ r.from - 2 = b - 1
          BY <1>2, <2>5, <3>1
        <4>2. Signed(r)
          BY <3>1, <4>1 DEF Signed
        <4>3. p = b \/ (p \in 1 .. b - 1 /\ AllIn(key, p, b - 1, {Tab}))
          BY <1>1, <1>2 DEF AllIn
        <4> QED
          BY <4>1, <4>2, <4>3 DEF Lead, BlanksOf
      <3>2. CASE At(key, b) \notin {Minus, Plus}
        <4>1. r.from = b
          BY <2>5, <3>2
        <4>2. p \in 1 .. b - 1 /\ b - 1 \in p .. b - 1
          BY <1>1, <1>2, <2>3, <3>2
        <4>3. At(key, r.from - 1) = Tab
          BY <1>2, <4>1, <4>2
        <4>4. ~Signed(r)
          BY <4>3, DigitShape DEF Signed
        <4>5. AllIn(key, p, b - 1, {Tab})
          BY <1>2 DEF AllIn
        <4> QED
          BY <4>1, <4>2, <4>4, <4>5 DEF Lead, BlanksOf
      <3> QED
        BY <3>1, <3>2
    <2> QED
      BY <2>6
  <1>6. d \in Nat /\ d > 0 /\ d - 1 \in 0 .. Len(key) /\ d - 1 < d
    BY <1>1, <1>4
  <1>7. After(key, d, Digit) = d
    <2>1. d \in d .. Len(key) + 1 /\ \A x \in d .. d - 1 : At(key, x) \in Digit
      BY <1>1, <1>4
    <2> QED
      BY <1>5, <1>6, <2>1, AfterIs
  <1>8. Number(key, d, d - 1) = 0
    BY <1>6, NumberReads
  <1>9. atoi(key, p) = Cut(Limit(IF At(key, b) = Minus THEN - Number(key, d, d - 1)
                                 ELSE Number(key, d, d - 1), HalfLong), HalfInt)
    <2> HIDE DEF d
    <2>1. atoi(key, p) =
            Cut(Limit(IF At(key, b) = Minus THEN - Number(key, d, After(key, d, Digit) - 1)
                      ELSE Number(key, d, After(key, d, Digit) - 1), HalfLong), HalfInt)
      BY DEF atoi, b, d
    <2> QED
      BY <1>7, <2>1
  <1> HIDE DEF d
  <1>10. atoi(key, p) = Cut(Limit(0, HalfLong), HalfInt)
    <2> DEFINE n == Number(key, d, d - 1)
    <2>1. n = 0 /\ n \in Int
      BY <1>8
    <2> DEFINE x == -n
    <2> HIDE DEF n
    <2>2. x + n = 0 /\ x \in Int
      BY <2>1
    <2> HIDE DEF x
    <2>3. x = 0
      BY <2>1, <2>2
    <2>4. atoi(key, p) = Cut(Limit(IF At(key, b) = Minus THEN x ELSE n, HalfLong), HalfInt)
      BY <1>9 DEF n, x
    <2> QED
      BY <2>1, <2>3, <2>4
  <1>11. - HalfInt <= 0 /\ 0 < HalfInt /\ 0 \in Int
    BY HashAssumption
  <1> QED
    BY <1>10, <1>11, Fits

-----------------------------------------------------------------------------
(* What the numbers have added when the loop is at position n. *)

All(r) == Number(key, r.from, r.to)
Inside(r, n) == SumFunction([p \in r.from .. r.to |-> IF p < n THEN Number(key, p, r.to) ELSE 0])
Ahead(r, n) == {p \in Lead(r) : p < n}
Passed(r, n) == Inside(r, n) + Sign(r) * All(r) * Cardinality(Ahead(r, n))
\* What a number adds at most, in either direction.
Weight(r) == All(r) * (2 + r.to - r.from + Blanks(r))

LEMMA LeadCount ==
  ASSUME key \in Key, NEW r \in Numbers
  PROVE  /\ IsFiniteSet(Lead(r)) /\ Blanks(r) \in Nat
         /\ Cardinality(Lead(r)) = (IF Signed(r) THEN 1 ELSE 0) + Blanks(r)
  <1> DEFINE last == IF Signed(r) THEN r.from - 2 ELSE r.from - 1
  <1>1. r.from \in Nat
    BY NumberShape
  <1>2. last \in Int
    BY <1>1
  <1>3. BlanksOf(r) \subseteq 1 .. last
    BY DEF BlanksOf
  <1>4. Blanks(r) = Cardinality(BlanksOf(r))
    BY DEF Blanks, BlanksOf
  <1>5. IsFiniteSet(BlanksOf(r))
    <2> HIDE DEF last
    <2>1. IsFiniteSet(1 .. last)
      BY <1>2, FS_Interval
    <2> QED
      BY <1>3, <2>1, FS_Subset
  <1>6. Blanks(r) \in Nat
    BY <1>4, <1>5, FS_CardinalityType
  <1>7. CASE Signed(r)
    <2>1. Lead(r) = BlanksOf(r) \cup {r.from - 1} /\ r.from - 1 \notin BlanksOf(r)
      BY <1>1, <1>3, <1>7 DEF Lead
    <2>2. IsFiniteSet(Lead(r)) /\ Cardinality(Lead(r)) = Cardinality(BlanksOf(r)) + 1
      BY <1>5, <2>1, FS_AddElement
    <2> QED
      BY <1>4, <1>6, <1>7, <2>2
  <1>8. CASE ~Signed(r)
    <2>1. Lead(r) = BlanksOf(r)
      BY <1>8 DEF Lead
    <2> QED
      BY <1>4, <1>5, <1>6, <1>8, <2>1
  <1> QED
    BY <1>7, <1>8

LEMMA RestBounds ==
  ASSUME key \in Key, NEW r \in Numbers, NEW p \in r.from .. r.to
  PROVE  Number(key, p, r.to) \in Nat /\ All(r) \in Nat /\ Number(key, p, r.to) <= All(r)
  <1>1. /\ r.from \in Nat /\ r.from > 0 /\ r.to \in 0 .. Len(key) /\ Len(key) \in Nat
    BY NumberShape, KeyShape
  <1>2. AllIn(key, r.from, r.to, Digit)
    BY DEF Numbers
  <1> QED
    BY <1>1, <1>2, NumberGrows DEF All

LEMMA AllBounds ==
  ASSUME key \in Key, NEW r \in Numbers
  PROVE  All(r) \in Nat /\ Weight(r) \in Nat /\ All(r) <= Weight(r)
  <1>1. r.from \in Nat /\ r.to \in Nat /\ r.from <= r.to
    BY NumberShape
  <1>2. r.from \in r.from .. r.to
    BY <1>1
  <1>3. All(r) \in Nat
    BY <1>2, RestBounds
  <1> DEFINE w == 2 + r.to - r.from + Blanks(r)
  <1>4. w \in Nat /\ w >= 1
    BY <1>1, LeadCount
  <1> HIDE DEF w
  <1>5. All(r) * w \in Nat /\ All(r) <= All(r) * w
    BY <1>3, <1>4
  <1> QED
    BY <1>3, <1>5 DEF Weight, w

\* The terms that Inside adds up.
Terms(r, n) == [p \in r.from .. r.to |-> IF p < n THEN Number(key, p, r.to) ELSE 0]

LEMMA InsideBounds ==
  ASSUME key \in Key, NEW r \in Numbers, NEW n \in Int
  PROVE  /\ Terms(r, n) \in [r.from .. r.to -> Int] /\ IsFiniteSet(r.from .. r.to)
         /\ Inside(r, n) = SumFunction(Terms(r, n))
         /\ Inside(r, n) \in Nat /\ Inside(r, n) <= All(r) * (r.to - r.from + 1)
  <1> DEFINE S == r.from .. r.to
             top == [p \in S |-> All(r)]
  <1>1. r.from \in Nat /\ r.to \in Nat /\ r.from <= r.to
    BY NumberShape
  <1>2. IsFiniteSet(S) /\ Cardinality(S) = r.to - r.from + 1
    <2>0. r.from \in Int /\ r.to \in Int
      BY <1>1
    <2>1. IsFiniteSet(S) /\ Cardinality(S) = IF r.from > r.to THEN 0 ELSE r.to - r.from + 1
      BY <2>0, FS_Interval
    <2> QED
      BY <1>1, <2>1
  <1>3. All(r) \in Int /\ All(r) \in Nat
    BY AllBounds
  <1>4. \A p \in S : Terms(r, n)[p] \in Nat /\ Terms(r, n)[p] <= All(r)
    BY <1>3, RestBounds DEF Terms
  <1>5. Terms(r, n) = [p \in S |-> Terms(r, n)[p]]
    BY DEF Terms
  <1>6. Terms(r, n) \in [S -> Nat] /\ Terms(r, n) \in [S -> Int]
    <2>1. \A p \in S : Terms(r, n)[p] \in Int
      BY <1>4
    <2> HIDE DEF S
    <2> QED
      BY <1>4, <1>5, <2>1
  <1>7. Inside(r, n) = SumFunction(Terms(r, n))
    BY DEF Inside, Terms
  <1>8. top \in [S -> Int] /\ \A p \in S : Terms(r, n)[p] <= top[p]
    BY <1>3, <1>4
  <1>9. SumFunction(top) = All(r) * Cardinality(S)
    <2> HIDE DEF S
    <2> QED
      BY <1>2, <1>3, SumConstant
  <1>10. r.from \in S
    BY <1>1
  <1> HIDE DEF S, top
  <1>11. SumFunction(Terms(r, n)) <= SumFunction(top)
    BY <1>2, <1>6, <1>8, SumAtMost
  <1>12. SumFunction(Terms(r, n)) \in Nat
    BY <1>2, <1>6, <1>10, SumHolds
  <1> QED
    BY <1>2, <1>6, <1>7, <1>9, <1>11, <1>12 DEF S

LEMMA AheadCount ==
  ASSUME key \in Key, NEW r \in Numbers, NEW n \in Int
  PROVE  /\ IsFiniteSet(Ahead(r, n)) /\ Cardinality(Ahead(r, n)) \in Nat
         /\ Cardinality(Ahead(r, n)) <= 1 + Blanks(r)
  <1>1. IsFiniteSet(Lead(r)) /\ Ahead(r, n) \subseteq Lead(r)
    BY LeadCount DEF Ahead
  <1>2. IsFiniteSet(Ahead(r, n)) /\ Cardinality(Ahead(r, n)) <= Cardinality(Lead(r))
    BY <1>1, FS_Subset
  <1>3. Cardinality(Ahead(r, n)) \in Nat
    BY <1>2, FS_CardinalityType
  <1> QED
    BY <1>2, <1>3, LeadCount

LEMMA Signs == \A r \in Numbers : Sign(r) = 1 \/ Sign(r) = -1
  BY DEF Sign

\* Arithmetic of the bounds.
LEMMA Within ==
  ASSUME NEW a \in Nat, NEW t \in Nat, NEW m \in Nat, NEW q \in Nat, NEW u \in Nat,
         t <= a * m, q <= u, NEW g \in {1, -1}
  PROVE  /\ t + g * a * q \in Int
         /\ - (a * (m + u)) <= t + g * a * q /\ t + g * a * q <= a * (m + u)
  <1>1. a * (m + u) = a * m + a * u
    OBVIOUS
  <1>2. a * q \in Nat /\ a * u \in Nat /\ a * m \in Nat
    OBVIOUS
  <1>3. a * q <= a * u
    OBVIOUS
  <1>4. g * a * q = a * q \/ g * a * q = - (a * q)
    <2>1. CASE g = 1
      BY <2>1
    <2>2. CASE g = -1
      <3>1. g * a = - a
        BY <2>2
      <3>2. (- a) * q = - (a * q)
        OBVIOUS
      <3> QED
        BY <3>1, <3>2
    <2> QED
      BY <2>1, <2>2
  <1> DEFINE x == a * q
             y == a * u
             z == a * m
             w == g * a * q
  <1>5. x \in Nat /\ y \in Nat /\ z \in Nat /\ x <= y /\ t <= z /\ (w = x \/ w = - x)
    BY <1>2, <1>3, <1>4
  <1> HIDE DEF x, y, z, w
  <1>6. t + w \in Int /\ - (z + y) <= t + w /\ t + w <= z + y
    BY <1>5
  <1> QED
    BY <1>1, <1>6 DEF x, y, z, w

LEMMA PassedBounds ==
  ASSUME key \in Key, NEW r \in Numbers, NEW n \in Int
  PROVE  Passed(r, n) \in Int /\ - Weight(r) <= Passed(r, n) /\ Passed(r, n) <= Weight(r)
  <1> DEFINE a == All(r)
             t == Inside(r, n)
             m == r.to - r.from + 1
             q == Cardinality(Ahead(r, n))
             u == 1 + Blanks(r)
             g == Sign(r)
  <1>1. r.from \in Nat /\ r.to \in Nat /\ r.from <= r.to
    BY NumberShape
  <1>2. m \in Nat /\ u \in Nat
    BY <1>1, LeadCount
  <1>3. a \in Nat /\ t \in Nat /\ t <= a * m
    BY AllBounds, InsideBounds
  <1>4. q \in Nat /\ q <= u
    BY AheadCount
  <1>5. g \in {1, -1}
    BY Signs
  <1>6. m + u = 2 + r.to - r.from + Blanks(r)
    BY <1>1, LeadCount
  <1>7. Passed(r, n) = t + g * a * q
    BY DEF Passed
  <1>8. Weight(r) = a * (m + u)
    BY <1>6 DEF Weight
  <1> HIDE DEF a, t, m, q, u, g
  <1> QED
    BY <1>2, <1>3, <1>4, <1>5, <1>7, <1>8, Within

-----------------------------------------------------------------------------
(* A turn of the loop adds its part to one number at most. *)

LEMMA SignedAll ==
  ASSUME key \in Key, NEW r \in Numbers
  PROVE  Sign(r) * All(r) \in Int
  <1>1. All(r) \in Int
    BY AllBounds
  <1>2. Sign(r) \in Int
    BY Signs
  <1> QED
    BY <1>1, <1>2

LEMMA NothingPassed ==
  ASSUME key \in Key, NEW r \in Numbers
  PROVE  Passed(r, 1) = 0
  <1>1. r.from \in Nat /\ r.to \in Nat /\ r.from >= 1
    BY NumberShape
  <1>2. \A p \in r.from .. r.to : ~(p < 1)
    BY <1>1
  <1>3. Terms(r, 1) = [p \in r.from .. r.to |-> 0]
    BY <1>2 DEF Terms
  <1>4. Inside(r, 1) = 0
    <2>1. Inside(r, 1) = SumFunction(Terms(r, 1)) /\ IsFiniteSet(r.from .. r.to)
      BY InsideBounds
    <2> QED
      BY <1>3, <2>1, SumZero
  <1>5. Ahead(r, 1) = {}
    <2>1. \A p \in Lead(r) : p \in 1 .. r.from - 1
      BY LeadShape
    <2>2. \A p \in Lead(r) : ~(p < 1)
      BY <1>1, <2>1
    <2> QED
      BY <2>2 DEF Ahead
  <1>6. Cardinality(Ahead(r, 1)) = 0
    BY <1>5, FS_EmptySet
  <1>7. Sign(r) * All(r) \in Int
    BY SignedAll
  <1> QED
    BY <1>4, <1>6, <1>7 DEF Passed

LEMMA PassesInside ==
  ASSUME key \in Key, NEW r \in Numbers, NEW p \in r.from .. r.to
  PROVE  Passed(r, p + 1) = Passed(r, p) + Number(key, p, r.to)
  <1>1. r.from \in Nat /\ r.to \in Nat /\ p \in Int /\ p + 1 \in Int
    BY NumberShape
  <1> DEFINE f == Terms(r, p)
             g == Terms(r, p + 1)
             S == r.from .. r.to
  <1>2. /\ IsFiniteSet(S) /\ f \in [S -> Int] /\ g \in [S -> Int]
        /\ Inside(r, p) = SumFunction(f) /\ Inside(r, p + 1) = SumFunction(g)
    BY <1>1, InsideBounds
  <1>3. f[p] = 0 /\ g[p] = Number(key, p, r.to)
    BY <1>1 DEF Terms
  <1>4. ASSUME NEW x \in S, x # p PROVE g[x] = f[x]
    <2>1. x < p + 1 <=> x < p
      BY <1>1, <1>4
    <2> QED
      BY <2>1 DEF Terms
  <1>5. p \in S
    OBVIOUS
  <1> HIDE DEF f, g, S
  <1>6. SumFunction(g) = SumFunction(f) + (g[p] - f[p])
    <2>1. \A x \in S : x # p => g[x] = f[x]
      BY <1>4
    <2>2. IsFiniteSet(S) /\ f \in [S -> Int] /\ g \in [S -> Int]
      BY <1>2
    <2>3. ASSUME NEW a \in S, \A x \in S : x # a => g[x] = f[x]
          PROVE  SumFunction(g) = SumFunction(f) + (g[a] - f[a])
      BY <2>2, <2>3, SumChanges
    <2> QED
      BY <2>1, <2>3, <1>5
  <1>7. Ahead(r, p + 1) = Ahead(r, p)
    <2>1. \A x \in Lead(r) : x \in 1 .. r.from - 1 /\ x # p
      BY LeadShape, LeadsApart
    <2>2. \A x \in Lead(r) : x < p + 1 <=> x < p
      BY <1>1, <2>1
    <2> QED
      BY <2>2 DEF Ahead
  <1> DEFINE w == Sign(r) * All(r) * Cardinality(Ahead(r, p))
             v == Number(key, p, r.to)
  <1>8. w \in Int
    <2>1. Cardinality(Ahead(r, p)) \in Int
      BY <1>1, AheadCount
    <2>2. Sign(r) * All(r) \in Int
      BY SignedAll
    <2> QED
      BY <2>1, <2>2
  <1>9. Passed(r, p) = Inside(r, p) + w /\ Passed(r, p + 1) = Inside(r, p + 1) + w
    BY <1>7 DEF Passed
  <1>10. v \in Int /\ Inside(r, p) \in Int
    <2>1. v \in Nat
      BY RestBounds
    <2>2. Inside(r, p) \in Int
      BY <1>1, InsideBounds
    <2> QED
      BY <2>1, <2>2
  <1>11. Inside(r, p + 1) = Inside(r, p) + (v - 0)
    BY <1>2, <1>3, <1>6
  <1> HIDE DEF w, v
  <1>12. Passed(r, p + 1) = Passed(r, p) + v
    BY <1>8, <1>9, <1>10, <1>11
  <1> QED
    BY <1>12 DEF v

LEMMA PassesAhead ==
  ASSUME key \in Key, NEW r \in Numbers, NEW p \in Lead(r)
  PROVE  Passed(r, p + 1) = Passed(r, p) + Sign(r) * All(r)
  <1>1. r.from \in Nat /\ r.to \in Nat /\ p \in 1 .. r.from - 1 /\ p \in Int /\ p + 1 \in Int
    BY NumberShape, LeadShape
  <1>2. \A x \in r.from .. r.to : ~(x < p + 1) /\ ~(x < p)
    BY <1>1
  <1>3. Terms(r, p + 1) = Terms(r, p)
    BY <1>2 DEF Terms
  <1>4. Inside(r, p + 1) = Inside(r, p)
    BY <1>1, <1>3, InsideBounds
  <1>5. Ahead(r, p + 1) = Ahead(r, p) \cup {p} /\ p \notin Ahead(r, p)
    <2>1. \A x \in Lead(r) : x \in Int
      BY LeadShape
    <2>2. \A x \in Lead(r) : x < p + 1 <=> (x < p \/ x = p)
      BY <1>1, <2>1
    <2>3. p < p + 1 /\ ~(p < p)
      BY <1>1
    <2> QED
      BY <2>2, <2>3 DEF Ahead
  <1> DEFINE q == Cardinality(Ahead(r, p))
             a == Sign(r) * All(r)
  <1>6. IsFiniteSet(Ahead(r, p)) /\ q \in Nat
    BY <1>1, AheadCount
  <1>7. Cardinality(Ahead(r, p + 1)) = q + 1
    BY <1>5, <1>6, FS_AddElement
  <1>8. a \in Int /\ Inside(r, p) \in Int
    BY <1>1, SignedAll, InsideBounds
  <1>9. Passed(r, p) = Inside(r, p) + a * q /\ Passed(r, p + 1) = Inside(r, p) + a * (q + 1)
    BY <1>4, <1>7 DEF Passed
  <1> HIDE DEF q, a
  <1>10. a * (q + 1) = a * q + a /\ a * q \in Int
    BY <1>6, <1>8
  <1>11. Passed(r, p + 1) = Passed(r, p) + a
    BY <1>8, <1>9, <1>10
  <1> QED
    BY <1>11 DEF a

LEMMA PassesElsewhere ==
  ASSUME key \in Key, NEW r \in Numbers, NEW p \in Int,
         p \notin r.from .. r.to, p \notin Lead(r)
  PROVE  Passed(r, p + 1) = Passed(r, p)
  <1>1. r.from \in Nat /\ r.to \in Nat /\ p + 1 \in Int
    BY NumberShape
  <1>2. \A x \in r.from .. r.to : x < p + 1 <=> x < p
    BY <1>1
  <1>3. Terms(r, p + 1) = Terms(r, p)
    BY <1>2 DEF Terms
  <1>4. Inside(r, p + 1) = Inside(r, p)
    BY <1>1, <1>3, InsideBounds
  <1>5. Ahead(r, p + 1) = Ahead(r, p)
    <2>1. \A x \in Lead(r) : x \in Int /\ x # p
      BY LeadShape
    <2>2. \A x \in Lead(r) : x < p + 1 <=> x < p
      BY <2>1
    <2> QED
      BY <2>2 DEF Ahead
  <1> QED
    BY <1>4, <1>5 DEF Passed

\* In the end a number has added its share.
LEMMA AllPassed ==
  ASSUME key \in Key, NEW r \in Numbers
  PROVE  Passed(r, Len(key) + 1) = Share(r)
  <1> DEFINE n == Len(key) + 1
  <1>1. r.from \in Nat /\ r.to \in Nat /\ r.to \in 1 .. Len(key) /\ Len(key) \in Nat /\ n \in Int
    BY NumberShape, KeyShape
  <1>2. \A p \in r.from .. r.to : p < n
    BY <1>1
  <1>3. Terms(r, n) = [p \in r.from .. r.to |-> Number(key, p, r.to)]
    <2> HIDE DEF n
    <2> QED
      BY <1>2 DEF Terms
  <1>4. Inside(r, n) = SumFunction([p \in r.from .. r.to |-> Number(key, p, r.to)])
    BY <1>1, <1>3, InsideBounds
  <1>5. Ahead(r, n) = Lead(r)
    <2>1. \A p \in Lead(r) : p \in 1 .. Len(key)
      BY LeadShape
    <2>2. \A p \in Lead(r) : p < n
      BY <1>1, <2>1
    <2> HIDE DEF n
    <2> QED
      BY <2>2 DEF Ahead
  <1>6. Cardinality(Ahead(r, n)) = (IF Signed(r) THEN 1 ELSE 0) + Blanks(r)
    BY <1>5, LeadCount
  <1> HIDE DEF n
  <1>7. Passed(r, n) = SumFunction([p \in r.from .. r.to |-> Number(key, p, r.to)])
                       + Sign(r) * All(r) * ((IF Signed(r) THEN 1 ELSE 0) + Blanks(r))
    BY <1>4, <1>6 DEF Passed
  <1> QED
    BY <1>7 DEF Share, All, n

-----------------------------------------------------------------------------
(* As long as the numbers are small. *)

LEMMA WeightsSmall ==
  ASSUME key \in Key, Small
  PROVE  /\ IsFiniteSet(Numbers)
         /\ [r \in Numbers |-> Weight(r)] \in [Numbers -> Nat]
         /\ SumFunction([r \in Numbers |-> Weight(r)]) \in Int
         /\ SumFunction([r \in Numbers |-> Weight(r)]) < HalfInt
         /\ \A r \in Numbers : Weight(r) < HalfInt
  <1> DEFINE f == [r \in Numbers |-> Weight(r)]
  <1>1. IsFiniteSet(Numbers)
    BY NumbersFinite
  <1>2. \A r \in Numbers : Weight(r) \in Nat
    BY AllBounds
  <1>3. f \in [Numbers -> Nat] /\ \A r \in Numbers : f[r] = Weight(r)
    BY <1>2
  <1>4. SumFunction(f) < HalfInt
    BY DEF Small, Weight, All
  <1>5. f \in [Numbers -> Int]
    BY <1>2
  <1> HIDE DEF f
  <1>6. SumFunction(f) \in Int
    BY <1>1, <1>5, SumType
  <1>7. ASSUME NEW r \in Numbers PROVE Weight(r) < HalfInt
    <2>1. f[r] <= SumFunction(f)
      BY <1>1, <1>3, SumHolds
    <2> QED
      BY <1>2, <1>3, <1>4, <1>6, <2>1, HashAssumption
  <1> QED
    BY <1>1, <1>3, <1>4, <1>6, <1>7 DEF f

LEMMA SmallRest ==
  ASSUME key \in Key, Small, NEW r \in Numbers, NEW p \in r.from .. r.to
  PROVE  atoi(key, p) = Number(key, p, r.to)
  <1> DEFINE v == Number(key, p, r.to)
  <1>1. v \in Nat /\ v <= All(r) /\ All(r) \in Nat
    BY RestBounds
  <1>2. Weight(r) \in Nat /\ All(r) <= Weight(r) /\ Weight(r) < HalfInt
    BY AllBounds, WeightsSmall
  <1>3. atoi(key, p) = Cut(Limit(v, HalfLong), HalfInt)
    BY ReadsRest
  <1> HIDE DEF v
  <1>4. v \in Int /\ - HalfInt <= v /\ v < HalfInt
    BY <1>1, <1>2, HashAssumption
  <1>5. Cut(v, HalfInt) = v /\ Limit(v, HalfLong) = v
    BY <1>4, Fits
  <1> QED
    BY <1>3, <1>5 DEF v

LEMMA SmallAll ==
  ASSUME key \in Key, Small, NEW r \in Numbers, NEW p \in Lead(r)
  PROVE  atoi(key, p) = Sign(r) * All(r)
  <1> DEFINE a == All(r)
             v == IF Sign(r) = -1 THEN - a ELSE a
  <1>1. a \in Nat /\ Weight(r) \in Nat /\ a <= Weight(r) /\ Weight(r) < HalfInt
    BY AllBounds, WeightsSmall
  <1>2. atoi(key, p) = Cut(Limit(v, HalfLong), HalfInt)
    BY ReadsAll DEF All
  <1>3. v = Sign(r) * a
    <2> HIDE DEF a
    <2>1. CASE Sign(r) = 1
      BY <1>1, <2>1
    <2>2. CASE Sign(r) = -1
      BY <1>1, <2>2
    <2> QED
      BY <2>1, <2>2, Signs
  <1>4. v \in Int /\ - HalfInt <= v /\ v < HalfInt
    <2> HIDE DEF a
    <2> QED
      BY <1>1, HashAssumption
  <1> HIDE DEF v
  <1>5. Cut(v, HalfInt) = v /\ Limit(v, HalfLong) = v
    BY <1>4, Fits
  <1> QED
    BY <1>2, <1>3, <1>5

\* What all numbers have added before position n.
Total(n) == SumFunction([r \in Numbers |-> Passed(r, n)])

LEMMA TotalBounds ==
  ASSUME key \in Key, Small, NEW n \in Int
  PROVE  /\ [r \in Numbers |-> Passed(r, n)] \in [Numbers -> Int]
         /\ Total(n) \in Int /\ - HalfInt <= Total(n) /\ Total(n) < HalfInt
  <1> DEFINE f == [r \in Numbers |-> Passed(r, n)]
             g == [r \in Numbers |-> Weight(r)]
  <1>1. IsFiniteSet(Numbers) /\ SumFunction(g) \in Int /\ SumFunction(g) < HalfInt
    BY WeightsSmall
  <1>2. \A r \in Numbers : Passed(r, n) \in Int /\ Weight(r) \in Nat
    BY PassedBounds, AllBounds
  <1>3. f \in [Numbers -> Int] /\ g \in [Numbers -> Int]
    BY <1>2
  <1>4. \A r \in Numbers : - g[r] <= f[r] /\ f[r] <= g[r]
    BY PassedBounds
  <1>5. Total(n) = SumFunction(f)
    BY DEF Total
  <1> HIDE DEF f, g
  <1>6. - SumFunction(g) <= SumFunction(f) /\ SumFunction(f) <= SumFunction(g)
    BY <1>1, <1>3, <1>4, SumWithin
  <1>7. SumFunction(f) \in Int
    BY <1>1, <1>3, SumType
  <1>8. - HalfInt <= SumFunction(f) /\ SumFunction(f) < HalfInt
    BY <1>1, <1>6, <1>7, HashAssumption
  <1> QED
    BY <1>3, <1>5, <1>7, <1>8 DEF f

\* One turn of the loop adds what atoi reads.
LEMMA TotalGrows ==
  ASSUME key \in Key, Small, NEW p \in 1 .. Len(key)
  PROVE  Total(p + 1) = Total(p) + atoi(key, p)
  <1> DEFINE f == [r \in Numbers |-> Passed(r, p)]
             g == [r \in Numbers |-> Passed(r, p + 1)]
  <1>1. p \in Int /\ p + 1 \in Int
    OBVIOUS
  <1>2. IsFiniteSet(Numbers)
    BY NumbersFinite
  <1>3. f \in [Numbers -> Int] /\ g \in [Numbers -> Int] /\ Total(p) \in Int
    BY <1>1, TotalBounds
  <1>4. Total(p) = SumFunction(f) /\ Total(p + 1) = SumFunction(g)
    BY DEF Total
  <1>5. \A r \in Numbers : f[r] = Passed(r, p) /\ g[r] = Passed(r, p + 1)
    OBVIOUS
  <1> HIDE DEF f, g
  <1>6. ASSUME NEW r \in Numbers, NEW v \in Int, Passed(r, p + 1) = Passed(r, p) + v,
               atoi(key, p) = v,
               \A s \in Numbers : s # r => p \notin s.from .. s.to /\ p \notin Lead(s)
        PROVE  Total(p + 1) = Total(p) + atoi(key, p)
    <2>1. \A s \in Numbers : s # r => g[s] = f[s]
      BY <1>1, <1>5, <1>6, PassesElsewhere
    <2>2. SumFunction(g) = SumFunction(f) + (g[r] - f[r])
      BY <1>2, <1>3, <2>1, SumChanges
    <2>3. g[r] = f[r] + v /\ f[r] \in Int
      BY <1>3, <1>5, <1>6
    <2>4. g[r] - f[r] = v
      BY <2>3
    <2> QED
      BY <1>4, <1>6, <2>2, <2>4
  <1>7. CASE \E r \in Numbers : p \in r.from .. r.to
    <2>1. PICK r \in Numbers : p \in r.from .. r.to
      BY <1>7
    <2>2. Number(key, p, r.to) \in Int
      BY <2>1, RestBounds
    <2>3. Passed(r, p + 1) = Passed(r, p) + Number(key, p, r.to)
      BY <2>1, PassesInside
    <2>4. atoi(key, p) = Number(key, p, r.to)
      BY <2>1, SmallRest
    <2>5. \A s \in Numbers : s # r => p \notin s.from .. s.to /\ p \notin Lead(s)
      BY <1>1, <2>1, NumbersApart, LeadsApart
    <2> QED
      BY <1>6, <2>2, <2>3, <2>4, <2>5
  <1>8. CASE \E r \in Numbers : p \in Lead(r)
    <2>1. PICK r \in Numbers : p \in Lead(r)
      BY <1>8
    <2>2. Sign(r) * All(r) \in Int
      BY SignedAll
    <2>3. Passed(r, p + 1) = Passed(r, p) + Sign(r) * All(r)
      BY <2>1, PassesAhead
    <2>4. atoi(key, p) = Sign(r) * All(r)
      BY <2>1, SmallAll
    <2>5. \A s \in Numbers : s # r => p \notin s.from .. s.to /\ p \notin Lead(s)
      BY <2>1, LeadsApart
    <2> QED
      BY <1>6, <2>2, <2>3, <2>4, <2>5
  <1>9. CASE \A r \in Numbers : p \notin r.from .. r.to /\ p \notin Lead(r)
    <2>1. atoi(key, p) = 0
      BY <1>9, ReadsNothing
    <2>2. \A r \in Numbers : g[r] = f[r]
      BY <1>1, <1>5, <1>9, PassesElsewhere
    <2>3. g = f
      <3>1. g = [r \in Numbers |-> g[r]] /\ f = [r \in Numbers |-> f[r]]
        BY <1>3
      <3> QED
        BY <2>2, <3>1
    <2> QED
      BY <1>3, <1>4, <2>1, <2>3
  <1> QED
    BY <1>7, <1>8, <1>9

-----------------------------------------------------------------------------
(* The invariant. *)

\* The loop has added what the numbers have passed, and nothing is returned
\* before it has added all of it.
HashInv ==
  /\ TypeOK
  /\ i <= Len(key) + 1
  /\ Returned => i = Len(key) + 1 /\ index = Remainder(c, NLists)
  /\ Small => \A n \in Int : n = i => c = Total(n)

LEMMA RemainderType ==
  ASSUME NEW a \in Int
  PROVE  Remainder(a, NLists) \in - NLists + 1 .. NLists - 1
  <1>1. NLists \in Nat /\ NLists > 0
    BY HashAssumption
  <1>2. CASE a >= 0
    <2>1. a % NLists \in 0 .. NLists - 1
      BY <1>1
    <2> QED
      BY <1>1, <1>2, <2>1 DEF Remainder
  <1>3. CASE ~(a >= 0)
    <2> DEFINE b == -a
    <2>1. b \in Int
      OBVIOUS
    <2>2. Remainder(a, NLists) = - (b % NLists)
      BY <1>3 DEF Remainder
    <2> HIDE DEF b
    <2>3. b % NLists \in 0 .. NLists - 1
      BY <1>1, <2>1
    <2> QED
      BY <1>1, <2>2, <2>3
  <1> QED
    BY <1>2, <1>3

\* Nothing that is said of the key changes.
LEMMA KeyKept ==
  ASSUME key' = key
  PROVE  /\ Numbers' = Numbers /\ Small' = Small
         /\ \A n \in Int : Total(n)' = Total(n)
  <1>1. Numbers' = Numbers
    BY DEF Numbers
  <1>2. ASSUME NEW r PROVE Signed(r)' = Signed(r) /\ Sign(r)' = Sign(r) /\ All(r)' = All(r)
    BY DEF Signed, Sign, All
  <1>3. ASSUME NEW r PROVE Blanks(r)' = Blanks(r) /\ BlanksOf(r)' = BlanksOf(r)
    BY <1>2 DEF Blanks, BlanksOf, Signed
  <1>4. Small' = Small
    BY <1>1, <1>3 DEF Small
  <1>5. ASSUME NEW r PROVE Lead(r)' = Lead(r)
    BY <1>2, <1>3 DEF Lead
  <1>6. ASSUME NEW n \in Int PROVE Total(n)' = Total(n)
    <2>1. ASSUME NEW r PROVE Passed(r, n)' = Passed(r, n)
      <3>1. Inside(r, n)' = Inside(r, n)
        BY DEF Inside
      <3>2. Ahead(r, n)' = Ahead(r, n)
        BY <1>5 DEF Ahead
      <3> QED
        BY <1>2, <3>1, <3>2 DEF Passed
    <2> QED
      BY <1>1, <2>1 DEF Total
  <1> QED
    BY <1>1, <1>4, <1>6

LEMMA InitHash == Init => HashInv
  <1> SUFFICES ASSUME Init PROVE HashInv
    OBVIOUS
  <1>1. key \in Key /\ i = 1 /\ c = 0 /\ index = NLists
    BY DEF Init
  <1>2. Len(key) \in Nat /\ Len(key) \in 0 .. MaxLen
    BY <1>1, KeyShape
  <1>3. TypeOK
    BY <1>1, HashAssumption DEF TypeOK
  <1>4. ~Returned
    BY <1>1 DEF Returned
  <1>5. Total(1) = 0
    <2>1. \A r \in Numbers : Passed(r, 1) = 0
      BY <1>1, NothingPassed
    <2>2. [r \in Numbers |-> Passed(r, 1)] = [r \in Numbers |-> 0]
      BY <2>1
    <2>3. Total(1) = SumFunction([r \in Numbers |-> 0])
      BY <2>2 DEF Total
    <2> QED
      BY <1>1, <2>3, NumbersFinite, SumZero
  <1> QED
    BY <1>1, <1>2, <1>3, <1>4, <1>5 DEF HashInv

LEMMA StepHash == HashInv /\ [Next]_vars => HashInv'
  <1> SUFFICES ASSUME HashInv, [Next]_vars PROVE HashInv'
    OBVIOUS
  <1>1. /\ key \in Key /\ i \in 1 .. MaxLen + 1 /\ c \in - HalfInt .. HalfInt - 1
        /\ index \in - NLists + 1 .. NLists
        /\ i <= Len(key) + 1
        /\ Returned => i = Len(key) + 1 /\ index = Remainder(c, NLists)
        /\ Small => \A n \in Int : n = i => c = Total(n)
    BY DEF HashInv, TypeOK
  <1>2. /\ Len(key) \in 0 .. MaxLen /\ Len(key) \in Nat /\ MaxLen \in Nat
        /\ HalfInt \in Nat /\ NLists \in Nat /\ NLists > 0
    BY <1>1, KeyShape, HashAssumption
  <1>3. CASE Step
    <2>1. /\ key' = key /\ index' = index /\ index = NLists
          /\ i' = i + 1 /\ c' = Cut(c + atoi(key, i), HalfInt)
      BY <1>3 DEF Step
    <2>2. i \in 1 .. Len(key) /\ i \in Int
      BY <1>1, <1>2, <1>3 DEF Step
    <2>3. atoi(key, i) \in - HalfInt .. HalfInt - 1
      BY <1>1, <2>2, atoiType
    <2>4. c + atoi(key, i) \in Int
      BY <1>1, <1>2, <2>3
    <2>5. c' \in - HalfInt .. HalfInt - 1
      BY <2>1, <2>4, CutType
    <2>6. TypeOK'
      BY <1>1, <1>2, <2>1, <2>2, <2>5 DEF TypeOK
    <2>7. ~Returned'
      BY <2>1 DEF Returned
    <2>8. (i <= Len(key) + 1)'
      BY <1>2, <2>1, <2>2
    <2>9. ASSUME Small' PROVE \A n \in Int : n = i' => c' = Total(n)'
      <3>1. Small /\ \A n \in Int : Total(n)' = Total(n)
        BY <2>1, <2>9, KeyKept
      <3>2. c = Total(i)
        BY <1>1, <2>2, <3>1
      <3>3. Total(i + 1) = Total(i) + atoi(key, i)
        BY <1>1, <2>2, <3>1, TotalGrows
      <3>4. i + 1 \in Int
        BY <2>2
      <3>5. /\ Total(i + 1) \in Int
            /\ - HalfInt <= Total(i + 1) /\ Total(i + 1) < HalfInt
        BY <1>1, <3>1, <3>4, TotalBounds
      <3>6. c' = Total(i + 1)
        BY <2>1, <3>2, <3>3, <3>5, Fits
      <3> QED
        BY <2>1, <3>1, <3>4, <3>6
    <2> QED
      BY <2>6, <2>7, <2>8, <2>9 DEF HashInv
  <1>4. CASE Finish
    <2>1. /\ UNCHANGED <<key, i, c>> /\ i > Len(key) /\ index' = Remainder(c, NLists)
      BY <1>4 DEF Finish
    <2>2. c \in Int /\ i = Len(key) + 1
      BY <1>1, <1>2, <2>1
    <2>3. index' \in - NLists + 1 .. NLists
      <3>1. index' \in - NLists + 1 .. NLists - 1
        BY <2>1, <2>2, RemainderType
      <3> QED
        BY <1>2, <3>1
    <2>4. TypeOK'
      BY <1>1, <2>1, <2>3 DEF TypeOK
    <2>5. (Small => \A n \in Int : n = i => c = Total(n))'
      BY <1>1, <2>1, KeyKept
    <2> QED
      BY <1>1, <2>1, <2>2, <2>4, <2>5 DEF HashInv
  <1>5. CASE UNCHANGED vars
    <2>1. UNCHANGED <<key, i, c, index>>
      BY <1>5 DEF vars
    <2>2. TypeOK' /\ Returned' = Returned
      BY <1>1, <2>1 DEF TypeOK, Returned
    <2>3. (Small => \A n \in Int : n = i => c = Total(n))'
      BY <1>1, <2>1, KeyKept
    <2> QED
      BY <1>1, <2>1, <2>2, <2>3 DEF HashInv
  <1> QED
    BY <1>3, <1>4, <1>5 DEF Next

LEMMA HashAlways == Spec => []HashInv
  BY InitHash, StepHash, PTL DEF Spec

\* The sum stays an int whatever the key says, and the index within the number
\* of lists on either side of zero.
THEOREM HashTypeCorrect == Spec => []TypeOK
  <1>1. HashInv => TypeOK
    BY DEF HashInv
  <1>2. Spec => []HashInv
    BY HashAlways
  <1> QED
    BY <1>1, <1>2, PTL

LEMMA SharesSummed == HashInv /\ Returned /\ Small => c = SumFunction([r \in Numbers |-> Share(r)])
  <1> SUFFICES ASSUME HashInv, Returned, Small
               PROVE  c = SumFunction([r \in Numbers |-> Share(r)])
    OBVIOUS
  <1>1. key \in Key /\ i = Len(key) + 1 /\ i \in Int
    <2>1. key \in Key /\ i = Len(key) + 1 /\ i \in 1 .. MaxLen + 1
      BY DEF HashInv, TypeOK
    <2> QED
      BY <2>1
  <1>2. c = Total(i)
    BY <1>1 DEF HashInv
  <1>3. \A r \in Numbers : Passed(r, i) = Share(r)
    BY <1>1, AllPassed
  <1>4. [r \in Numbers |-> Passed(r, i)] = [r \in Numbers |-> Share(r)]
    BY <1>3
  <1> QED
    BY <1>2, <1>4 DEF Total

\* hash_code adds up what the numbers of the key say, for keys of any length,
\* as long as the numbers are small.
THEOREM NumbersSummed == Spec => []SumsNumbers
  <1>1. HashInv => SumsNumbers
    BY SharesSummed DEF SumsNumbers
  <1>2. Spec => []HashInv
    BY HashAlways
  <1> QED
    BY <1>1, <1>2, PTL

\* Without a blank in front, the digits make up for the sign.
LEMMA ShareOfNoTab ==
  ASSUME key \in Key, \A p \in DOMAIN key : key[p] # Tab, NEW r \in Numbers
  PROVE  Share(r) \in Nat
  <1>1. /\ r.from \in Nat /\ r.to \in Nat /\ r.from <= r.to /\ Len(key) \in Nat
    BY NumberShape, KeyShape
  <1> DEFINE S == r.from .. r.to
             f == [p \in S |-> Number(key, p, r.to)]
             a == All(r)
             g == IF Signed(r) THEN 1 ELSE 0
  <1>2. r.from \in S /\ IsFiniteSet(S)
    <2>1. r.from \in Int /\ r.to \in Int
      BY <1>1
    <2>2. r.from \in S
      BY <1>1
    <2>3. IsFiniteSet(S)
      BY <2>1, FS_Interval
    <2> QED
      BY <2>2, <2>3
  <1>3. \A p \in S : Number(key, p, r.to) \in Nat
    BY RestBounds
  <1>4. f \in [S -> Nat] /\ f[r.from] = a
    BY <1>2, <1>3 DEF All
  <1>5. Blanks(r) = 0
    <2>1. \A p \in Int : At(key, p) # Tab
      <3> TAKE p \in Int
      <3>1. CASE p \in 1 .. Len(key)
        BY <3>1, KeyShape
      <3>2. CASE p \notin 1 .. Len(key)
        BY <3>2, KeyShape, DigitShape
      <3> QED
        BY <3>1, <3>2
    <2>2. BlanksOf(r) = {}
      <3> SUFFICES ASSUME NEW p \in BlanksOf(r) PROVE FALSE
        OBVIOUS
      <3> DEFINE last == IF Signed(r) THEN r.from - 2 ELSE r.from - 1
      <3>1. p \in 1 .. last /\ AllIn(key, p, last, {Tab})
        BY DEF BlanksOf
      <3>2. last \in Int
        BY <1>1
      <3> HIDE DEF last
      <3>3. p \in p .. last /\ p \in Int
        BY <3>1, <3>2
      <3>4. At(key, p) = Tab
        BY <3>1, <3>3 DEF AllIn
      <3> QED
        BY <2>1, <3>3, <3>4
    <2>3. Blanks(r) = Cardinality(BlanksOf(r))
      BY DEF Blanks, BlanksOf
    <2> QED
      BY <2>2, <2>3, FS_EmptySet
  <1>6. Share(r) = SumFunction(f) + Sign(r) * a * (g + Blanks(r))
    BY DEF Share, All
  <1>7. a \in Nat
    BY AllBounds
  <1> HIDE DEF f, S, a
  <1>8. a <= SumFunction(f) /\ SumFunction(f) \in Nat
    BY <1>2, <1>4, SumHolds
  <1>9. Sign(r) * a * (g + Blanks(r)) \in {0, a, - a}
    <2>1. g + Blanks(r) = g /\ g \in {0, 1}
      BY <1>5
    <2> HIDE DEF g
    <2>2. Sign(r) * a = a \/ Sign(r) * a = - a
      BY <1>7, Signs
    <2> DEFINE w == Sign(r) * a
    <2>3. w \in Int /\ w * 0 = 0 /\ w * 1 = w
      BY <1>7, <2>2
    <2> QED
      BY <2>1, <2>2, <2>3
  <1> DEFINE w == Sign(r) * a * (g + Blanks(r))
  <1> HIDE DEF w
  <1>10. w \in {0, a, - a} /\ Share(r) = SumFunction(f) + w
    BY <1>6, <1>9 DEF w
  <1> QED
    BY <1>7, <1>8, <1>10

\* A key of small numbers and no tab gets one of the lists, for any number of
\* lists: this is what Table assumes of hash_code.
THEOREM HashFindsList == Spec => []ListFound
  <1>1. HashInv => ListFound
    <2> SUFFICES ASSUME HashInv, Returned, Small, \A p \in DOMAIN key : key[p] # Tab
                 PROVE  index \in 0 .. NLists - 1
      BY DEF ListFound
    <2>1. key \in Key /\ index = Remainder(c, NLists) /\ c \in - HalfInt .. HalfInt - 1
      BY DEF HashInv, TypeOK
    <2>2. c = SumFunction([r \in Numbers |-> Share(r)])
      BY SharesSummed
    <2>3. c >= 0
      <3> DEFINE f == [r \in Numbers |-> Share(r)]
                 z == [r \in Numbers |-> 0]
      <3>1. \A r \in Numbers : Share(r) \in Nat
        BY <2>1, ShareOfNoTab
      <3>2. /\ f \in [Numbers -> Int] /\ z \in [Numbers -> Int]
            /\ \A r \in Numbers : z[r] <= f[r]
        BY <3>1
      <3>3. IsFiniteSet(Numbers)
        BY <2>1, NumbersFinite
      <3>4. SumFunction(z) = 0
        BY <3>3, SumZero
      <3> HIDE DEF f, z
      <3>5. SumFunction(z) <= SumFunction(f) /\ SumFunction(f) \in Int
        BY <3>2, <3>3, SumAtMost, SumType
      <3> QED
        BY <2>2, <3>4, <3>5 DEF f
    <2>4. c \in Int /\ NLists \in Nat /\ NLists > 0
      BY <2>1, HashAssumption
    <2>5. Remainder(c, NLists) = c % NLists
      BY <2>3 DEF Remainder
    <2>6. c % NLists \in 0 .. NLists - 1
      BY <2>4
    <2> QED
      BY <2>1, <2>5, <2>6
  <1>2. Spec => []HashInv
    BY HashAlways
  <1> QED
    BY <1>1, <1>2, PTL

=============================================================================
