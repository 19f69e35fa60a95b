------------------------------ MODULE HashCode ------------------------------
(***************************************************************************)
(* hash_code() of table.c: the sum of atoi() over every suffix of the key, *)
(* modulo the number of lists.  atoi is (int) strtol: it skips blanks,     *)
(* takes a sign and digits, stops at the limits of a long and is then cut  *)
(* to an int; the sum wraps in an int; the remainder has the sign of the   *)
(* sum.  A character is what atoi sees of it.  A client splits its command *)
(* at spaces, so the only blank in a key is a tab.                         *)
(***************************************************************************)
EXTENDS Integers, Sequences, FiniteSetsExt, Functions

CONSTANTS
  Digit,     \* digits that occur in keys
  MaxLen,    \* bound: length of a key
  HalfInt,   \* half of what an int can say: 2^31
  HalfLong,  \* half of what a long can say: 2^63
  NLists     \* lists of the table

Tab   == -1
Minus == -2
Plus  == -3
Other == -4
Char  == Digit \cup {Tab, Minus, Plus, Other}
Key   == UNION {[1 .. n -> Char] : n \in 0 .. MaxLen}

ASSUME HashAssumption ==
  /\ Digit \subseteq 0 .. 9 /\ MaxLen \in Nat
  /\ HalfInt \in Nat \ {0} /\ HalfLong \in Nat /\ HalfLong >= HalfInt
  /\ NLists \in Nat \ {0}

VARIABLES
  key,   \* the argument
  i,     \* the loop variable, counted from 1
  c,     \* the sum
  index  \* what hash_code returned; NLists before it does

vars == <<key, i, c, index>>

\* What is left of n in a two's complement number from -half to half - 1.
Cut(n, half) == ((n + half) % (2 * half)) - half
Limit(n, half) == IF n >= half THEN half - 1 ELSE IF n < -half THEN -half ELSE n

At(k, p) == IF p \in DOMAIN k THEN k[p] ELSE Other
AllIn(k, a, b, S) == \A p \in a .. b : At(k, p) \in S
\* The digits of k from a to b as a number, read from the first to the last.
Number(k, a, b) ==
  LET n[p \in 0 .. Len(k)] == IF p < a THEN 0 ELSE 10 * n[p - 1] + k[p] IN n[b]

\* The first position from p on whose character is not in S.
After(k, p, S) == Min({q \in p .. Len(k) + 1 : At(k, q) \notin S})

atoi(k, p) ==
  LET b == After(k, p, {Tab})
      d == IF At(k, b) \in {Minus, Plus} THEN b + 1 ELSE b
      n == Number(k, d, After(k, d, Digit) - 1) IN
  Cut(Limit(IF At(k, b) = Minus THEN -n ELSE n, HalfLong), HalfInt)

Remainder(a, n) == IF a >= 0 THEN a % n ELSE - ((-a) % n)

Init == key \in Key /\ i = 1 /\ c = 0 /\ index = NLists

\* Mutants of Step: the sum is not an int; = for +=; every other suffix.
StepWide ==
  /\ i <= Len(key) /\ index = NLists
  /\ c' = c + atoi(key, i) /\ i' = i + 1
  /\ UNCHANGED <<key, index>>
StepAssigns ==
  /\ i <= Len(key) /\ index = NLists
  /\ c' = atoi(key, i) /\ i' = i + 1
  /\ UNCHANGED <<key, index>>
StepByTwo ==
  /\ i <= Len(key) /\ index = NLists
  /\ c' = Cut(c + atoi(key, i), HalfInt) /\ i' = i + 2
  /\ UNCHANGED <<key, index>>

\* c += atoi(&key[i])
Step ==
  /\ i <= Len(key) /\ index = NLists
  /\ c' = Cut(c + atoi(key, i), HalfInt) /\ i' = i + 1
  /\ UNCHANGED <<key, index>>

\* return c % n
Finish ==
  /\ i > Len(key) /\ index = NLists
  /\ index' = Remainder(c, NLists)
  /\ UNCHANGED <<key, i, c>>

Next == Step \/ Finish
Spec == Init /\ [][Next]_vars

-----------------------------------------------------------------------------
(* Properties. *)

Returned == index # NLists

\* Every variable keeps its type: the sum stays an int.
TypeOK ==
  /\ key \in Key /\ i \in 1 .. MaxLen + 1
  /\ c \in - HalfInt .. HalfInt - 1
  /\ index \in - NLists + 1 .. NLists

\* The numbers in the key: where one begins and ends, its sign, and the blanks
\* in front of it.
Numbers ==
  {r \in [from : DOMAIN key, to : DOMAIN key] :
     /\ r.from <= r.to /\ AllIn(key, r.from, r.to, Digit)
     /\ At(key, r.from - 1) \notin Digit /\ At(key, r.to + 1) \notin Digit}
Signed(r) == At(key, r.from - 1) \in {Minus, Plus}
Sign(r) == IF At(key, r.from - 1) = Minus THEN -1 ELSE 1
Blanks(r) ==
  LET last == IF Signed(r) THEN r.from - 2 ELSE r.from - 1 IN
  Cardinality({p \in 1 .. last : AllIn(key, p, last, {Tab})})

\* What a number adds: each of its ends once, all of it once more for its sign
\* and once for every blank in front.
Share(r) ==
  LET all == Number(key, r.from, r.to) IN
  SumFunction([p \in r.from .. r.to |-> Number(key, p, r.to)])
    + Sign(r) * all * ((IF Signed(r) THEN 1 ELSE 0) + Blanks(r))
\* No sum and no number leaves the range of an int.
Small ==
  SumFunction([r \in Numbers |-> Number(key, r.from, r.to) * (2 + r.to - r.from + Blanks(r))])
    < HalfInt

\* As long as the numbers are small, the loop adds up what the numbers in the
\* key say, independently of where they are.
SumsNumbers ==
  Returned /\ Small => c = SumFunction([r \in Numbers |-> Share(r)])

\* A minus sign alone never makes an index negative: the digits that follow are
\* added once more without it.  So a key of small numbers and no tab gets one of
\* the lists; with a tab before a minus sign, or numbers that overflow, the
\* index may be negative and table_put and table_remove leave the array.
ListFound ==
  Returned /\ Small /\ (\A p \in DOMAIN key : key[p] # Tab) => index \in 0 .. NLists - 1
=============================================================================
