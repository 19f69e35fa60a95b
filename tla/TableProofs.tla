---------------------------- MODULE TableProofs ----------------------------
(***************************************************************************)
(* What holds of the table for any set of keys, number of lists and hash:  *)
(* the lists stay ordered, their counters stay exact and a key stays where *)
(* put and remove look for it, whatever the calls, and the calls are those *)
(* of the map KeyValue.                                                    *)
(***************************************************************************)
EXTENDS Table, Inductions, SequenceTheorems

\* What list_add's and list_remove's three ways to change the nodes give.
LEMMA InsertedAt ==
  ASSUME NEW S, NEW s \in Seq(S), NEW i \in 1 .. Len(s) + 1, NEW e \in S
  PROVE  /\ InsertAt(s, i, e) \in Seq(S)
         /\ Len(InsertAt(s, i, e)) = Len(s) + 1
         /\ \A j \in 1 .. i - 1 : InsertAt(s, i, e)[j] = s[j]
         /\ InsertAt(s, i, e)[i] = e
         /\ \A j \in i + 1 .. Len(s) + 1 : InsertAt(s, i, e)[j] = s[j - 1]
  <1> DEFINE a == SubSeq(s, 1, i - 1)
             c == SubSeq(s, i, Len(s))
  <1>1. /\ a \in Seq(S) /\ Len(a) = i - 1 /\ \A j \in 1 .. i - 1 : a[j] = s[j]
    BY SubSeqProperties
  <1>2. /\ c \in Seq(S) /\ Len(c) = Len(s) - i + 1
        /\ \A j \in 1 .. Len(s) - i + 1 : c[j] = s[i + j - 1]
    BY SubSeqProperties
  <1>3. <<e>> \in Seq(S) /\ Len(<<e>>) = 1 /\ <<e>>[1] = e
    OBVIOUS
  <1>4. InsertAt(s, i, e) = a \o <<e>> \o c
    BY DEF InsertAt
  <1> HIDE DEF a, c
  <1> DEFINE b == a \o <<e>>
  <1>5. /\ b \in Seq(S) /\ Len(b) = i
        /\ \A j \in 1 .. i : b[j] = IF j < i THEN s[j] ELSE e
    BY <1>1, <1>3, ConcatProperties
  <1> HIDE DEF b
  <1>6. /\ b \o c \in Seq(S) /\ Len(b \o c) = Len(s) + 1
        /\ \A j \in 1 .. i : (b \o c)[j] = b[j]
        /\ \A j \in 1 .. Len(s) + 1 : j > i => (b \o c)[j] = c[j - i]
    <2>1. /\ b \o c \in Seq(S) /\ Len(b \o c) = Len(b) + Len(c)
          /\ \A j \in 1 .. Len(b) + Len(c) :
               (b \o c)[j] = IF j <= Len(b) THEN b[j] ELSE c[j - Len(b)]
      BY <1>2, <1>5, ConcatProperties
    <2>2. Len(b) = i /\ Len(b) + Len(c) = Len(s) + 1 /\ Len(s) \in Nat
      BY <1>2, <1>5
    <2> QED
      BY <2>1, <2>2
  <1>7. \A j \in 1 .. Len(s) + 1 : j > i => c[j - i] = s[j - 1]
    <2> SUFFICES ASSUME NEW j \in 1 .. Len(s) + 1, j > i PROVE c[j - i] = s[j - 1]
      OBVIOUS
    <2>1. j - i \in 1 .. Len(s) - i + 1 /\ i + (j - i) - 1 = j - 1
      OBVIOUS
    <2> QED
      BY <1>2, <2>1
  <1>8. InsertAt(s, i, e) = b \o c
    BY <1>4 DEF b
  <1> QED
    BY <1>5, <1>6, <1>7, <1>8

LEMMA RemovedAt ==
  ASSUME NEW S, NEW s \in Seq(S), NEW i \in 1 .. Len(s)
  PROVE  /\ RemoveAt(s, i) \in Seq(S)
         /\ Len(RemoveAt(s, i)) = Len(s) - 1
         /\ \A j \in 1 .. i - 1 : RemoveAt(s, i)[j] = s[j]
         /\ \A j \in i .. Len(s) - 1 : RemoveAt(s, i)[j] = s[j + 1]
  <1> DEFINE a == SubSeq(s, 1, i - 1)
             c == SubSeq(s, i + 1, Len(s))
  <1>1. /\ a \in Seq(S) /\ Len(a) = i - 1 /\ \A j \in 1 .. i - 1 : a[j] = s[j]
    BY SubSeqProperties
  <1>2. /\ c \in Seq(S) /\ Len(c) = Len(s) - i
        /\ \A j \in 1 .. Len(s) - i : c[j] = s[i + j]
    BY SubSeqProperties
  <1>3. RemoveAt(s, i) = a \o c
    BY DEF RemoveAt
  <1> HIDE DEF a, c
  <1>4. /\ a \o c \in Seq(S) /\ Len(a \o c) = Len(s) - 1
        /\ \A j \in 1 .. i - 1 : (a \o c)[j] = a[j]
        /\ \A j \in 1 .. Len(s) - 1 : j >= i => (a \o c)[j] = c[j - (i - 1)]
    <2>1. /\ a \o c \in Seq(S) /\ Len(a \o c) = Len(a) + Len(c)
          /\ \A j \in 1 .. Len(a) + Len(c) :
               (a \o c)[j] = IF j <= Len(a) THEN a[j] ELSE c[j - Len(a)]
      BY <1>1, <1>2, ConcatProperties
    <2>2. Len(a) = i - 1 /\ Len(a) + Len(c) = Len(s) - 1 /\ Len(s) \in Nat
      BY <1>1, <1>2
    <2> QED
      BY <2>1, <2>2
  <1>5. \A j \in 1 .. Len(s) - 1 : j >= i => c[j - (i - 1)] = s[j + 1]
    <2> SUFFICES ASSUME NEW j \in 1 .. Len(s) - 1, j >= i PROVE c[j - (i - 1)] = s[j + 1]
      OBVIOUS
    <2>1. j - (i - 1) \in 1 .. Len(s) - i /\ i + (j - (i - 1)) = j + 1
      OBVIOUS
    <2> QED
      BY <1>2, <2>1
  <1> QED
    BY <1>1, <1>3, <1>4, <1>5

LEMMA ReplacedAt ==
  ASSUME NEW S, NEW s \in Seq(S), NEW i \in 1 .. Len(s), NEW e \in S
  PROVE  /\ ReplaceAt(s, i, e) \in Seq(S)
         /\ Len(ReplaceAt(s, i, e)) = Len(s)
         /\ \A j \in 1 .. Len(s) : ReplaceAt(s, i, e)[j] = IF j = i THEN e ELSE s[j]
  BY ExceptSeq DEF ReplaceAt

\* The first of the nodes a walk looks for.
LEMMA FirstOf ==
  ASSUME NEW S, S \subseteq Nat, S # {}
  PROVE  Min(S) \in S /\ \A n \in S : Min(S) <= n
  BY LeastNatural DEF Min

-----------------------------------------------------------------------------
(* The nodes of one list. *)

Ordered(s) == \A m, n \in 1 .. Len(s) : m < n => s[m].key < s[n].key
KeysOf(s) == {s[i].key : i \in 1 .. Len(s)}
Nodes(s) == {s[i] : i \in 1 .. Len(s)}
Others(s, k) == {x \in Nodes(s) : x.key # k}

\* The key of a node is a natural number.
LEMMA NodeKeys ==
  ASSUME NEW s \in Seq(Entry), NEW i \in 1 .. Len(s)
  PROVE  s[i] \in Entry /\ s[i].key \in Nat
  <1>1. s[i] \in Entry
    OBVIOUS
  <1> QED
    BY <1>1, ListAssumption DEF Entry

\* The place in an ordered list for an entry whose key is not in it.
Fits(s, at, e) ==
  \A j \in 1 .. Len(s) :
    /\ j < at => s[j].key < e.key
    /\ j >= at => s[j].key > e.key

\* An entry put before the first greater key keeps the order.
LEMMA InsertKeeps ==
  ASSUME NEW s \in Seq(Entry), Ordered(s),
         NEW at \in 1 .. Len(s) + 1, NEW e \in Entry, Fits(s, at, e)
  PROVE  /\ InsertAt(s, at, e) \in Seq(Entry)
         /\ Len(InsertAt(s, at, e)) = Len(s) + 1
         /\ Ordered(InsertAt(s, at, e))
         /\ KeysOf(InsertAt(s, at, e)) \subseteq KeysOf(s) \cup {e.key}
         /\ Nodes(InsertAt(s, at, e)) = Nodes(s) \cup {e}
  <1>1. PICK new : new = InsertAt(s, at, e)
    OBVIOUS
  <1>2. PICK len \in Nat : len = Len(s)
    OBVIOUS
  <1>3. new \in Seq(Entry) /\ Len(new) = len + 1
    BY <1>1, <1>2, InsertedAt
  <1>4. \A j \in 1 .. at - 1 : new[j] = s[j]
    BY <1>1, <1>2, InsertedAt
  <1>5. new[at] = e
    BY <1>1, <1>2, InsertedAt
  <1>6. \A j \in at + 1 .. len + 1 : new[j] = s[j - 1]
    <2>1. \A j \in at + 1 .. Len(s) + 1 : InsertAt(s, at, e)[j] = s[j - 1]
      BY InsertedAt
    <2> QED
      BY <1>1, <1>2, <2>1
  <1>7. ASSUME NEW m \in 1 .. len + 1, NEW n \in 1 .. len + 1, m < n
        PROVE  new[m].key < new[n].key
    <2>1. CASE n < at
      <3>1. m \in 1 .. len /\ n \in 1 .. len /\ m < at
        BY <1>2, <1>7, <2>1
      <3>2. new[m] = s[m] /\ new[n] = s[n]
        BY <1>4, <2>1, <3>1
      <3> QED
        BY <1>2, <1>7, <3>1, <3>2 DEF Ordered
    <2>2. CASE m < at /\ n = at
      <3>1. m \in 1 .. len
        BY <1>2, <2>2
      <3> QED
        BY <1>2, <1>4, <1>5, <2>2, <3>1 DEF Fits
    <2>3. CASE m < at /\ n > at
      <3>1. m \in 1 .. len /\ n - 1 \in 1 .. len /\ m < n - 1
        BY <1>2, <2>3
      <3>2. new[m] = s[m] /\ new[n] = s[n - 1]
        BY <1>4, <1>6, <2>3
      <3> QED
        BY <1>2, <3>1, <3>2 DEF Ordered
    <2>4. CASE m = at
      <3>1. n - 1 \in 1 .. len /\ n - 1 >= at /\ n > at
        BY <1>2, <1>7, <2>4
      <3>2. new[m] = e /\ new[n] = s[n - 1]
        BY <1>5, <1>6, <2>4, <3>1
      <3>3. s[n - 1].key > e.key
        BY <1>2, <3>1 DEF Fits
      <3>4. s[n - 1].key \in Nat /\ e.key \in Nat
        BY <1>2, <3>1, NodeKeys, ListAssumption DEF Entry
      <3> QED
        BY <3>2, <3>3, <3>4
    <2>5. CASE m > at
      <3>1. m - 1 \in 1 .. len /\ n - 1 \in 1 .. len /\ m - 1 < n - 1 /\ n > at
        BY <1>2, <1>7, <2>5
      <3>2. new[m] = s[m - 1] /\ new[n] = s[n - 1]
        BY <1>6, <2>5, <3>1
      <3> QED
        BY <1>2, <3>1, <3>2 DEF Ordered
    <2> QED
      BY <1>7, <2>1, <2>2, <2>3, <2>4, <2>5
  <1>8. ASSUME NEW j \in 1 .. len + 1
        PROVE  new[j].key \in KeysOf(s) \cup {e.key}
    <2>1. CASE j < at
      <3>1. j \in 1 .. len
        BY <1>2, <2>1
      <3> QED
        BY <1>2, <1>4, <2>1, <3>1 DEF KeysOf
    <2>2. CASE j = at
      BY <1>5, <2>2
    <2>3. CASE j > at
      <3>1. j - 1 \in 1 .. len /\ new[j] = s[j - 1]
        BY <1>2, <1>6, <2>3
      <3> QED
        BY <1>2, <3>1 DEF KeysOf
    <2> QED
      BY <2>1, <2>2, <2>3
  <1>9. Ordered(new) /\ KeysOf(new) \subseteq KeysOf(s) \cup {e.key}
    BY <1>3, <1>7, <1>8 DEF Ordered, KeysOf
  <1>10. Nodes(new) = Nodes(s) \cup {e}
    <2>1. \A j \in 1 .. len + 1 : j > at => j - 1 \in 1 .. len
      OBVIOUS
    <2>2. \A j \in 1 .. len + 1 : new[j] \in Nodes(s) \cup {e}
      BY <1>2, <1>4, <1>5, <1>6, <2>1 DEF Nodes
    <2>3. ASSUME NEW j \in 1 .. len PROVE s[j] \in Nodes(new)
      <3>1. CASE j < at
        BY <1>2, <1>3, <1>4, <3>1 DEF Nodes
      <3>2. CASE j >= at
        <4>1. j + 1 \in at + 1 .. len + 1 /\ (j + 1) - 1 = j
          BY <1>2, <3>2
        <4> QED
          BY <1>3, <1>6, <4>1 DEF Nodes
      <3> QED
        BY <1>2, <3>1, <3>2
    <2>4. e \in Nodes(new)
      BY <1>2, <1>3, <1>5 DEF Nodes
    <2> QED
      BY <1>2, <1>3, <2>2, <2>3, <2>4 DEF Nodes
  <1> QED
    BY <1>1, <1>2, <1>3, <1>9, <1>10

\* In an ordered list the nodes with other keys are those elsewhere.
LEMMA OthersAre ==
  ASSUME NEW s \in Seq(Entry), Ordered(s), NEW at \in 1 .. Len(s)
  PROVE  Others(s, s[at].key) = {s[j] : j \in (1 .. Len(s)) \ {at}}
  <1>1. ASSUME NEW j \in 1 .. Len(s), j # at PROVE s[j].key # s[at].key
    <2>1. s[j].key \in Nat /\ s[at].key \in Nat
      BY NodeKeys
    <2>2. j < at \/ at < j
      BY <1>1
    <2> QED
      BY <2>1, <2>2 DEF Ordered
  <1> QED
    BY <1>1 DEF Others, Nodes

\* An entry put in the place of the one with its key keeps order and keys.
LEMMA ReplaceKeeps ==
  ASSUME NEW s \in Seq(Entry), Ordered(s), NEW at \in 1 .. Len(s), NEW e \in Entry,
         s[at].key = e.key
  PROVE  /\ ReplaceAt(s, at, e) \in Seq(Entry)
         /\ Len(ReplaceAt(s, at, e)) = Len(s)
         /\ Ordered(ReplaceAt(s, at, e))
         /\ KeysOf(ReplaceAt(s, at, e)) = KeysOf(s)
         /\ Nodes(ReplaceAt(s, at, e)) = Others(s, e.key) \cup {e}
  <1>1. PICK new : new = ReplaceAt(s, at, e)
    OBVIOUS
  <1>2. new \in Seq(Entry) /\ Len(new) = Len(s)
    BY <1>1, ReplacedAt
  <1>3. \A j \in 1 .. Len(s) : new[j] = IF j = at THEN e ELSE s[j]
    BY <1>1 DEF ReplaceAt
  <1>4. \A j \in 1 .. Len(s) : new[j].key = s[j].key
    BY <1>3
  <1>5. Ordered(new) /\ KeysOf(new) = KeysOf(s)
    BY <1>2, <1>4 DEF Ordered, KeysOf
  <1>6. Others(s, e.key) = {s[j] : j \in (1 .. Len(s)) \ {at}}
    BY OthersAre
  <1>7. Nodes(new) = Others(s, e.key) \cup {e}
    BY <1>2, <1>3, <1>6 DEF Nodes
  <1> QED
    BY <1>1, <1>2, <1>5, <1>7

\* Taking a node out keeps the order of the rest.
LEMMA RemoveAtKeeps ==
  ASSUME NEW s \in Seq(Entry), Ordered(s), NEW at \in 1 .. Len(s)
  PROVE  /\ RemoveAt(s, at) \in Seq(Entry)
         /\ Len(RemoveAt(s, at)) = Len(s) - 1
         /\ Ordered(RemoveAt(s, at))
         /\ KeysOf(RemoveAt(s, at)) \subseteq KeysOf(s)
         /\ Nodes(RemoveAt(s, at)) = Others(s, s[at].key)
  <1>1. PICK new : new = RemoveAt(s, at)
    OBVIOUS
  <1>2. PICK len \in Nat : len = Len(s)
    OBVIOUS
  <1>3. new \in Seq(Entry) /\ Len(new) = len - 1
    BY <1>1, <1>2, RemovedAt
  <1>4. \A j \in 1 .. len - 1 : j < at => new[j] = s[j]
    BY <1>1, <1>2, RemovedAt
  <1>5. \A j \in 1 .. len - 1 : j >= at => new[j] = s[j + 1]
    BY <1>1, <1>2, RemovedAt, SMTT(30)
  <1>6. ASSUME NEW m \in 1 .. len - 1, NEW n \in 1 .. len - 1, m < n
        PROVE  new[m].key < new[n].key
    <2>1. CASE n < at
      BY <1>2, <1>4, <1>6, <2>1 DEF Ordered
    <2>2. CASE m < at /\ n >= at
      <3>1. m \in 1 .. len /\ n + 1 \in 1 .. len /\ m < n + 1
        BY <1>6
      <3>2. new[m] = s[m] /\ new[n] = s[n + 1]
        BY <1>4, <1>5, <2>2
      <3> QED
        BY <1>2, <3>1, <3>2 DEF Ordered
    <2>3. CASE m >= at
      <3>1. m + 1 \in 1 .. len /\ n + 1 \in 1 .. len /\ m + 1 < n + 1 /\ n >= at
        BY <1>6, <2>3
      <3>2. new[m] = s[m + 1] /\ new[n] = s[n + 1]
        BY <1>5, <2>3, <3>1
      <3> QED
        BY <1>2, <3>1, <3>2 DEF Ordered
    <2> QED
      BY <2>1, <2>2, <2>3
  <1>7. ASSUME NEW j \in 1 .. len - 1 PROVE new[j].key \in KeysOf(s)
    <2>1. PICK i \in 1 .. len : new[j] = s[i]
      <3>1. CASE j < at
        BY <1>4, <3>1
      <3>2. CASE j >= at
        <4>1. j + 1 \in 1 .. len /\ new[j] = s[j + 1]
          BY <1>5, <3>2
        <4> QED
          BY <4>1
      <3> QED
        BY <3>1, <3>2
    <2> QED
      BY <1>2, <2>1 DEF KeysOf
  <1>8. Ordered(new) /\ KeysOf(new) \subseteq KeysOf(s)
    BY <1>3, <1>6, <1>7 DEF Ordered, KeysOf
  <1>9. Nodes(new) = {s[j] : j \in (1 .. len) \ {at}}
    <2>1. ASSUME NEW j \in 1 .. len - 1 PROVE \E i \in (1 .. len) \ {at} : new[j] = s[i]
      <3>1. CASE j < at
        BY <1>4, <3>1
      <3>2. CASE j >= at
        <4>1. j + 1 \in (1 .. len) \ {at} /\ new[j] = s[j + 1]
          BY <1>2, <1>5, <3>2
        <4> QED
          BY <4>1
      <3> QED
        BY <1>2, <3>1, <3>2
    <2>2. ASSUME NEW i \in (1 .. len) \ {at} PROVE \E j \in 1 .. len - 1 : new[j] = s[i]
      <3>1. CASE i < at
        BY <1>2, <1>4, <3>1
      <3>2. CASE i > at
        <4>1. i - 1 \in 1 .. len - 1 /\ i - 1 >= at /\ (i - 1) + 1 = i
          BY <1>2, <3>2
        <4>2. new[i - 1] = s[i]
          BY <1>5, <4>1
        <4> QED
          BY <4>1, <4>2
      <3> QED
        BY <1>2, <2>2, <3>1, <3>2
    <2>3. Nodes(new) = {new[j] : j \in 1 .. len - 1}
      BY <1>2, <1>3 DEF Nodes
    <2>4. {new[j] : j \in 1 .. len - 1} \subseteq {s[i] : i \in (1 .. len) \ {at}}
      BY <2>1
    <2>5. {s[i] : i \in (1 .. len) \ {at}} \subseteq {new[j] : j \in 1 .. len - 1}
      BY <2>2
    <2> QED
      BY <2>3, <2>4, <2>5
  <1> QED
    BY <1>1, <1>2, <1>3, <1>8, <1>9, OthersAre

-----------------------------------------------------------------------------
(* One list. *)

\* A list as list_add and list_remove keep it.
Sound(list) ==
  /\ list \in [nodes : Seq(Entry), size : Nat]
  /\ list.size = Len(list.nodes)
  /\ Ordered(list.nodes)

Keys(list) == KeysOf(list.nodes)

\* Where list_add stops: smaller keys before, greater or the same key from there.
LEMMA AddStops ==
  ASSUME NEW list, Sound(list), NEW k \in Key, NEW at,
         at = IF NotBefore(list, k) = {} THEN Len(list.nodes) + 1 ELSE Min(NotBefore(list, k))
  PROVE  /\ at \in 1 .. Len(list.nodes) + 1
         /\ NotBefore(list, k) = {} <=> at = Len(list.nodes) + 1
         /\ \A j \in 1 .. Len(list.nodes) : j < at => list.nodes[j].key < k
         /\ \A j \in 1 .. Len(list.nodes) :
              j >= at => list.nodes[j].key >= k /\ (j > at => list.nodes[j].key > k)
  <1>0. PICK s \in Seq(Entry), len \in Nat : s = list.nodes /\ len = Len(s) /\ Ordered(s)
    BY DEF Sound
  <1>1. PICK stops : stops = NotBefore(list, k)
    OBVIOUS
  <1>2. stops = {j \in 1 .. len : s[j].key >= k} /\ stops \subseteq Nat
    BY <1>0, <1>1 DEF NotBefore
  <1>3. k \in Nat /\ \A j \in 1 .. len : s[j].key \in Nat
    BY <1>0, NodeKeys, ListAssumption
  <1>4. CASE stops = {}
    BY <1>0, <1>1, <1>2, <1>3, <1>4, SMTT(30)
  <1>5. CASE stops # {}
    <2>1. at = Min(stops)
      BY <1>1, <1>5
    <2>2. at \in stops /\ \A j \in stops : at <= j
      BY <1>2, <1>5, <2>1, FirstOf, Zenon
    <2>3. at \in 1 .. len /\ s[at].key >= k
      BY <1>2, <2>2
    <2>4. ASSUME NEW j \in 1 .. len, j < at PROVE s[j].key < k
      <3>1. j \notin stops
        BY <2>2, <2>3, <2>4
      <3>2. ~(s[j].key >= k)
        BY <1>2, <3>1
      <3> QED
        BY <1>3, <3>2
    <2>5. ASSUME NEW j \in 1 .. len, j > at PROVE s[j].key > s[at].key
      BY <1>0, <1>3, <2>3, <2>5 DEF Ordered
    <2> QED
      BY <1>0, <1>1, <1>3, <1>5, <2>3, <2>4, <2>5, SMTT(30)
  <1> QED
    BY <1>4, <1>5

\* list_add keeps a list sound and adds at most the key it was given.
LEMMA AddKeeps ==
  ASSUME NEW list, Sound(list), NEW k \in Key, NEW v \in Value, NEW l, NEW ret,
         list_add(list, entry_create(k, v)) = [list |-> l, ret |-> ret]
  PROVE  /\ Sound(l) /\ Keys(l) \subseteq Keys(list) \cup {k}
         /\ Nodes(l.nodes) = Others(list.nodes, k) \cup {entry_create(k, v)}
         /\ ret = IF k \in Keys(list) THEN 1 ELSE 0
  <1>1. PICK e \in Entry : e = entry_create(k, v) /\ e.key = k
    BY DEF entry_create, Entry
  <1>2. PICK s \in Seq(Entry), len \in Nat :
          /\ list = [nodes |-> s, size |-> len] /\ list.nodes = s /\ list.size = len
          /\ len = Len(s) /\ Ordered(s)
    BY DEF Sound
  <1>3. PICK at : at = IF NotBefore(list, k) = {} THEN len + 1 ELSE Min(NotBefore(list, k))
    OBVIOUS
  <1>4. /\ l = IF NotBefore(list, k) # {} /\ s[at].key = k
               THEN [list EXCEPT !.nodes = ReplaceAt(s, at, e)]
               ELSE [nodes |-> InsertAt(s, at, e), size |-> len + 1]
        /\ ret = IF NotBefore(list, k) # {} /\ s[at].key = k THEN 1 ELSE 0
    BY <1>1, <1>2, <1>3 DEF list_add
  <1>5. /\ at \in 1 .. len + 1
        /\ NotBefore(list, k) = {} <=> at = len + 1
        /\ \A j \in 1 .. len : j < at => s[j].key < k
        /\ \A j \in 1 .. len : j >= at => s[j].key >= k /\ (j > at => s[j].key > k)
    BY <1>2, <1>3, AddStops
  <1>6. CASE NotBefore(list, k) # {} /\ s[at].key = k
    <2>1. at \in 1 .. Len(s) /\ s[at].key = e.key
      BY <1>1, <1>2, <1>5, <1>6
    <2>2. PICK new \in Seq(Entry) :
            /\ new = ReplaceAt(s, at, e) /\ Len(new) = len /\ Ordered(new)
            /\ KeysOf(new) = KeysOf(s) /\ Nodes(new) = Others(s, k) \cup {e}
      BY <1>1, <1>2, <2>1, ReplaceKeeps
    <2>3. l = [nodes |-> new, size |-> len] /\ ret = 1
      BY <1>2, <1>4, <1>6, <2>2
    <2>4. k \in KeysOf(s)
      BY <1>6, <2>1 DEF KeysOf
    <2> QED
      BY <1>1, <1>2, <2>2, <2>3, <2>4 DEF Sound, Keys
  <1>7. CASE ~(NotBefore(list, k) # {} /\ s[at].key = k)
    <2>1. ASSUME NEW j \in 1 .. len, j >= at PROVE s[j].key > k
      <3>1. s[j].key \in Nat /\ k \in Nat
        BY <1>2, NodeKeys, ListAssumption
      <3>2. NotBefore(list, k) # {} /\ s[at].key # k
        BY <1>5, <1>7, <2>1
      <3> QED
        BY <1>5, <2>1, <3>1, <3>2
    <2>2. /\ InsertAt(s, at, e) \in Seq(Entry) /\ Len(InsertAt(s, at, e)) = len + 1
          /\ Ordered(InsertAt(s, at, e)) /\ KeysOf(InsertAt(s, at, e)) \subseteq KeysOf(s) \cup {k}
          /\ Nodes(InsertAt(s, at, e)) = Nodes(s) \cup {e}
      <3>1. at \in 1 .. Len(s) + 1 /\ Fits(s, at, e)
        BY <1>1, <1>2, <1>5, <2>1 DEF Fits
      <3> QED
        BY <1>1, <1>2, <3>1, InsertKeeps
    <2>3. PICK new \in Seq(Entry) : new = InsertAt(s, at, e)
      BY <2>2
    <2>4. l = [nodes |-> new, size |-> len + 1] /\ ret = 0
      BY <1>4, <1>7, <2>3
    <2>5. \A j \in 1 .. len : s[j].key # k
      <3> SUFFICES ASSUME NEW j \in 1 .. len PROVE s[j].key # k
        OBVIOUS
      <3>1. s[j].key \in Nat /\ k \in Nat
        BY <1>2, NodeKeys, ListAssumption
      <3> QED
        BY <1>5, <2>1, <3>1
    <2>6. k \notin KeysOf(s) /\ Others(s, k) = Nodes(s)
      BY <1>2, <2>5 DEF KeysOf, Others, Nodes
    <2> QED
      BY <1>1, <1>2, <2>2, <2>3, <2>4, <2>6 DEF Sound, Keys
  <1> QED
    BY <1>6, <1>7

\* list_remove keeps a list sound and adds no key.
LEMMA RemoveKeeps ==
  ASSUME NEW list, Sound(list), NEW k \in Key, NEW l, NEW ret,
         list_remove(list, k) = [list |-> l, ret |-> ret]
  PROVE  /\ Sound(l) /\ Keys(l) \subseteq Keys(list)
         /\ Nodes(l.nodes) = Others(list.nodes, k)
         /\ ret = IF k \in Keys(list) THEN 0 ELSE 1
  <1>1. PICK s \in Seq(Entry), len \in Nat :
          /\ list = [nodes |-> s, size |-> len] /\ list.nodes = s /\ list.size = len
          /\ len = Len(s) /\ Ordered(s)
    BY DEF Sound
  <1>2. PICK hits : hits = {i \in 1 .. len : s[i].key = k}
    OBVIOUS
  <1>3. /\ l = IF s = <<>> \/ hits = {} THEN list
               ELSE [nodes |-> RemoveAt(s, Min(hits)), size |-> len - 1]
        /\ ret = IF s = <<>> \/ hits = {} THEN 1 ELSE 0
    BY <1>1, <1>2 DEF list_remove
  <1>4. CASE s = <<>> \/ hits = {}
    <2>1. l = list /\ ret = 1
      BY <1>3, <1>4
    <2>2. \A j \in 1 .. len : s[j].key # k
      BY <1>1, <1>2, <1>4
    <2>3. k \notin KeysOf(s) /\ Others(s, k) = Nodes(s)
      BY <1>1, <2>2 DEF KeysOf, Others, Nodes
    <2> QED
      BY <1>1, <2>1, <2>3 DEF Keys
  <1>5. CASE ~(s = <<>> \/ hits = {})
    <2>1. hits \subseteq Nat /\ hits # {}
      BY <1>2, <1>5
    <2>2. PICK at : at = Min(hits) /\ at \in hits
      BY <2>1, FirstOf, Zenon
    <2>3. at \in 1 .. Len(s)
      BY <1>1, <1>2, <2>2
    <2>4. PICK new \in Seq(Entry) :
            /\ new = RemoveAt(s, at) /\ Len(new) = len - 1
            /\ Ordered(new) /\ KeysOf(new) \subseteq KeysOf(s)
            /\ Nodes(new) = Others(s, s[at].key)
      BY <1>1, <2>3, RemoveAtKeeps
    <2>5. l = [nodes |-> new, size |-> len - 1] /\ len - 1 \in Nat /\ ret = 0
      BY <1>1, <1>3, <1>5, <2>2, <2>3, <2>4
    <2>6. s[at].key = k
      BY <1>2, <2>2
    <2>7. k \in KeysOf(s)
      BY <2>3, <2>6 DEF KeysOf
    <2> QED
      BY <1>1, <2>4, <2>5, <2>6, <2>7 DEF Sound, Keys
  <1> QED
    BY <1>4, <1>5

\* list_get finds the node of a key, wherever it is.
LEMMA GetFinds ==
  ASSUME NEW list, Sound(list), NEW x \in Nodes(list.nodes)
  PROVE  list_get(list, x.key) = x.value /\ x \in Entry
  <1>1. PICK s \in Seq(Entry) : s = list.nodes /\ list.size = Len(s) /\ Ordered(s)
    BY DEF Sound
  <1>2. PICK i \in 1 .. Len(s) : x = s[i]
    BY <1>1 DEF Nodes
  <1>3. PICK hits : hits = {j \in DOMAIN s : s[j].key = x.key}
    OBVIOUS
  <1>4. ASSUME NEW j \in 1 .. Len(s), s[j].key = x.key PROVE j = i
    <2>1. s[j].key \in Nat /\ s[i].key \in Nat
      BY NodeKeys
    <2>2. j < i \/ i < j \/ i = j
      OBVIOUS
    <2> QED
      BY <1>1, <1>2, <1>4, <2>1, <2>2 DEF Ordered
  <1>5. hits = {i} /\ hits # {} /\ hits \subseteq Nat
    BY <1>2, <1>3, <1>4
  <1>6. Min(hits) = i
    BY <1>5, FirstOf
  <1>7. list.size # 0
    BY <1>1, <1>2
  <1>8. list_get(list, x.key) = s[i].value
    BY <1>1, <1>3, <1>5, <1>6, <1>7 DEF list_get
  <1> QED
    BY <1>2, <1>8

\* A key that no node has is not found.
LEMMA GetMisses ==
  ASSUME NEW list, Sound(list), NEW k, k \notin Keys(list)
  PROVE  list_get(list, k) = NoValue
  <1>1. {j \in DOMAIN list.nodes : list.nodes[j].key = k} = {}
    BY DEF Sound, Keys, KeysOf
  <1> QED
    BY <1>1 DEF list_get

\* A list gives a value for the keys it holds and for no others.
LEMMA GetTells ==
  ASSUME NEW list, Sound(list), NEW k
  PROVE  k \in Keys(list) <=> list_get(list, k) # NoValue
  <1>1. CASE k \in Keys(list)
    <2>1. PICK x \in Nodes(list.nodes) : x.key = k
      BY <1>1 DEF Keys, KeysOf, Nodes
    <2> QED
      BY <1>1, <2>1, GetFinds, ListAssumption DEF Entry
  <1> QED
    BY <1>1, GetMisses

-----------------------------------------------------------------------------
(* The table. *)

\* Every list is sound and holds only keys of its own.
TableInv ==
  /\ lists \in [Index -> [nodes : Seq(Entry), size : Nat]]
  /\ \A i \in Index : Sound(lists[i])
  /\ \A i \in Index : \A k \in Keys(lists[i]) : hash_code[k] = i

\* A call that gives one list other nodes keeps the rest.
LEMMA ListChanged ==
  ASSUME TableInv, NEW k \in Key, NEW l, Sound(l),
         Keys(l) \subseteq Keys(lists[hash_code[k]]) \cup {k},
         lists' = [lists EXCEPT ![hash_code[k]] = l]
  PROVE  TableInv'
  <1>1. hash_code[k] \in Index
    BY TableAssumption
  <1>2. /\ lists'[hash_code[k]] = l
        /\ \A i \in Index : i # hash_code[k] => lists'[i] = lists[i]
        /\ lists' \in [Index -> [nodes : Seq(Entry), size : Nat]]
    BY <1>1 DEF TableInv, Sound
  <1>3. \A i \in Index : Sound(lists'[i])
    BY <1>2 DEF TableInv
  <1>4. ASSUME NEW i \in Index, NEW j \in Keys(lists'[i]) PROVE hash_code[j] = i
    <2>1. CASE i = hash_code[k]
      BY <1>1, <1>2, <1>4, <2>1 DEF TableInv
    <2>2. CASE i # hash_code[k]
      BY <1>2, <1>4, <2>2 DEF TableInv
    <2> QED
      BY <2>1, <2>2
  <1>5. \A i \in Index : Sound(lists[i])' /\ Keys(lists[i])' = Keys(lists'[i])
    BY <1>3 DEF Sound, Keys
  <1> QED
    BY <1>2, <1>4, <1>5 DEF TableInv

LEMMA InitTable == Init => TableInv
  <1> SUFFICES ASSUME Init PROVE TableInv
    OBVIOUS
  <1>1. Sound(list_create) /\ Keys(list_create) = {}
    BY DEF Sound, Keys, Ordered, KeysOf, list_create
  <1>2. \A i \in Index : lists[i] = list_create
    BY DEF Init
  <1>3. list_create \in [nodes : Seq(Entry), size : Nat]
    BY <1>1 DEF Sound
  <1> QED
    BY <1>1, <1>2, <1>3 DEF Init, TableInv

\* A list whose counter is its length loses nothing to list_get_keys.
LEMMA KeysLeave ==
  ASSUME TableInv, table_get_keys
  PROVE  UNCHANGED lists
  <1>1. ASSUME NEW i \in Index PROVE list_after_keys(lists[i]) = lists[i]
    <2>1. lists[i] \in [nodes : Seq(Entry), size : Nat] /\ lists[i].size = Len(lists[i].nodes)
      BY DEF TableInv, Sound
    <2> DEFINE n == lists[i].nodes
    <2>2. n \in Seq(Entry) /\ Len(n) \in Nat
      BY <2>1
    <2>3. {Len(n), Len(n)} = {Len(n)} /\ Min({Len(n)}) = Len(n)
      BY <2>2 DEF Min
    <2>4. SubSeq(n, 1, Len(n)) = n
      BY <2>2
    <2>5. SubSeq(n, 1, Min({lists[i].size, Len(n)})) = n
      BY <2>1, <2>3, <2>4
    <2> QED
      BY <2>1, <2>5 DEF list_after_keys
  <1>2. lists \in [Index -> [nodes : Seq(Entry), size : Nat]]
    BY DEF TableInv
  <1>3. lists' = [i \in Index |-> list_after_keys(lists[i])]
    BY DEF table_get_keys
  <1> QED
    BY <1>1, <1>2, <1>3

LEMMA StepTable == TableInv /\ [Next]_vars => TableInv'
  <1> SUFFICES ASSUME TableInv, [Next]_vars PROVE TableInv'
    OBVIOUS
  <1>1. CASE UNCHANGED lists
    BY <1>1 DEF TableInv, Sound, Keys
  <1>2. ASSUME NEW k \in Key, NEW v \in Value, table_put(k, v) PROVE TableInv'
    <2>0. PICK l, ret : list_add(lists[hash_code[k]], entry_create(k, v)) = [list |-> l, ret |-> ret]
      BY DEF list_add
    <2>1. lists' = [lists EXCEPT ![hash_code[k]] = l]
      BY <1>2, <2>0 DEF table_put
    <2>2. Sound(lists[hash_code[k]])
      BY TableAssumption DEF TableInv
    <2>3. Sound(l) /\ Keys(l) \subseteq Keys(lists[hash_code[k]]) \cup {k}
      BY <2>0, <2>2, AddKeeps
    <2> QED
      BY <2>1, <2>3, ListChanged
  <1>3. ASSUME NEW k \in Key, table_remove(k) PROVE TableInv'
    <2>0. PICK l, ret : list_remove(lists[hash_code[k]], k) = [list |-> l, ret |-> ret]
      BY DEF list_remove
    <2>1. lists' = [lists EXCEPT ![hash_code[k]] = l]
      BY <1>3, <2>0 DEF table_remove
    <2>2. Sound(lists[hash_code[k]])
      BY TableAssumption DEF TableInv
    <2>3. Sound(l) /\ Keys(l) \subseteq Keys(lists[hash_code[k]])
      BY <2>0, <2>2, RemoveKeeps
    <2> QED
      BY <2>1, <2>3, ListChanged
  <1> QED
    BY <1>1, <1>2, <1>3, KeysLeave DEF Next, vars, table_get, table_size

LEMMA TableAlways == Spec => []TableInv
  BY InitTable, StepTable, PTL DEF Spec

\* Whatever the calls, the table keeps its types: no counter goes below zero.
THEOREM TableTypeCorrect == Spec => []TypeOK
  <1> DEFINE Answered == result.op \in {"create", "put", "remove", "get", "size", "get_keys"}
  <1>1. Init => Answered
    BY DEF Init
  <1>2. Answered /\ [Next]_vars => Answered'
    BY DEF Next, vars, table_put, table_remove, table_get, table_size, table_get_keys
  <1>3. TableInv /\ Answered => TypeOK
    BY DEF TableInv, TypeOK
  <1> HIDE DEF Answered
  <1> QED
    BY <1>1, <1>2, <1>3, TableAlways, PTL DEF Spec

\* The counter of a list is its length after any calls: no walk bounded by it
\* runs off the nodes, for any keys, lists and hash.
THEOREM CountersExact == Spec => []SizesExact
  <1>1. TableInv => SizesExact
    BY DEF TableInv, Sound, SizesExact
  <1> QED
    BY <1>1, TableAlways, PTL

\* The lists stay strictly ordered: list_add never leaves a key twice.
THEOREM OrderKept == Spec => []ListsOrdered
  <1>1. TableInv => ListsOrdered
    BY DEF TableInv, Sound, Ordered, ListsOrdered
  <1> QED
    BY <1>1, TableAlways, PTL

\* A key is only ever in the list where put and remove look for it.
THEOREM KeysStayPlaced == Spec => []KeysPlaced
  <1>1. TableInv => KeysPlaced
    BY DEF TableInv, Sound, Keys, KeysOf, KeysPlaced
  <1> QED
    BY <1>1, TableAlways, PTL

-----------------------------------------------------------------------------
(* The table as a map. *)

\* Lists that differ in the nodes of k only give the same for every other key.
LEMMA GetElsewhere ==
  ASSUME NEW a, NEW b, Sound(a), Sound(b), NEW k, Others(a.nodes, k) \subseteq Others(b.nodes, k),
         Others(b.nodes, k) \subseteq Others(a.nodes, k), NEW j, j # k
  PROVE  list_get(b, j) = list_get(a, j)
  <1>1. CASE \E x \in Nodes(a.nodes) : x.key = j
    <2>1. PICK x \in Nodes(a.nodes) : x.key = j
      BY <1>1
    <2>2. x \in Nodes(b.nodes)
      BY <2>1 DEF Others
    <2> QED
      BY <2>1, <2>2, GetFinds
  <1>2. CASE ~ \E x \in Nodes(a.nodes) : x.key = j
    <2>1. ~ \E x \in Nodes(b.nodes) : x.key = j
      BY <1>2 DEF Others
    <2>2. j \notin Keys(a) /\ j \notin Keys(b)
      BY <1>2, <2>1 DEF Keys, KeysOf, Nodes
    <2> QED
      BY <2>2, GetMisses
  <1> QED
    BY <1>1, <1>2

Placed(t) == \A i \in Index : Sound(t[i]) /\ \A k \in Keys(t[i]) : hash_code[k] = i

Hits(t, k) == {i \in Index : list_get(t[i], k) # NoValue}

\* Looking in every list finds what is in the one list that may hold the key.
LEMMA LooksRight ==
  ASSUME NEW t, Placed(t), NEW k \in Key
  PROVE  (IF Hits(t, k) = {} THEN NoValue ELSE list_get(t[Min(Hits(t, k))], k))
           = list_get(t[hash_code[k]], k)
  <1>1. hash_code[k] \in Index
    BY TableAssumption
  <1>2. ASSUME NEW i \in Hits(t, k) PROVE i = hash_code[k]
    BY GetTells DEF Hits, Placed
  <1>3. CASE Hits(t, k) = {}
    BY <1>1, <1>3 DEF Hits
  <1>4. CASE Hits(t, k) # {}
    <2>1. Hits(t, k) \subseteq Nat
      BY DEF Hits, Index
    <2>2. Min(Hits(t, k)) \in Hits(t, k)
      BY <1>4, <2>1, FirstOf
    <2> QED
      BY <1>2, <1>4, <2>2
  <1> QED
    BY <1>3, <1>4

LEMMA ValueFound ==
  TableInv => \A k \in Key : ValueOf(k) = list_get(lists[hash_code[k]], k)
  <1>1. TableInv => Placed(lists)
    BY DEF TableInv, Placed
  <1> QED
    BY <1>1, LooksRight DEF ValueOf, Hits

\* A call that changes the nodes of one key changes the map at that key.
LEMMA MapChanged ==
  ASSUME TableInv, TableInv', NEW k \in Key, NEW l, Sound(l),
         lists' = [lists EXCEPT ![hash_code[k]] = l],
         Others(l.nodes, k) = Others(lists[hash_code[k]].nodes, k)
  PROVE  [j \in Key |-> ValueOf(j)]' = [[j \in Key |-> ValueOf(j)] EXCEPT ![k] = list_get(l, k)]
  <1>1. /\ \A j \in Key : hash_code[j] \in Index
        /\ \A i \in Index : lists'[i] = IF i = hash_code[k] THEN l ELSE lists[i]
    BY TableAssumption DEF TableInv
  <1>2. \A j \in Key : ValueOf(j) = list_get(lists[hash_code[j]], j)
    BY ValueFound
  <1>3. \A j \in Key : ValueOf(j)' = list_get(lists'[hash_code[j]], j)
    <2>1. Placed(lists')
      BY DEF TableInv, Placed, Sound, Keys
    <2> QED
      BY <2>1, LooksRight DEF ValueOf, Hits
  <1>4. ValueOf(k)' = list_get(l, k)
    BY <1>1, <1>3
  <1>5. ASSUME NEW j \in Key, j # k PROVE ValueOf(j)' = ValueOf(j)
    <2>1. CASE hash_code[j] = hash_code[k]
      <3>1. Sound(lists[hash_code[k]])
        BY <1>1 DEF TableInv
      <3>2. list_get(l, j) = list_get(lists[hash_code[k]], j)
        BY <1>5, <3>1, GetElsewhere
      <3> QED
        BY <1>1, <1>2, <1>3, <2>1, <3>2
    <2>2. CASE hash_code[j] # hash_code[k]
      BY <1>1, <1>2, <1>3, <2>2
    <2> QED
      BY <2>1, <2>2
  <1> QED
    BY <1>4, <1>5

\* The initial table is the empty map.
LEMMA MapStarts == Init => KV!Init
  <1> SUFFICES ASSUME Init PROVE KV!Init
    OBVIOUS
  <1>1. \A k : list_get(list_create, k) = NoValue
    BY DEF list_create, list_get
  <1>2. ASSUME NEW k PROVE ValueOf(k) = NoValue
    <2>1. \A i \in Index : lists[i] = list_create
      BY DEF Init
    <2>2. {i \in Index : list_get(lists[i], k) # NoValue} = {}
      BY <1>1, <2>1
    <2> QED
      BY <2>2 DEF ValueOf
  <1> QED
    BY <1>2 DEF Init, KV!Init, Documented

LEMMA PutAsMap ==
  ASSUME TableInv, TableInv', NEW k \in Key, NEW v \in Value, table_put(k, v)
  PROVE  KV!Put(k, v)
  <1> DEFINE old == lists[hash_code[k]]
  <1>1. PICK l, ret : list_add(old, entry_create(k, v)) = [list |-> l, ret |-> ret]
    BY DEF list_add
  <1>2. /\ lists' = [lists EXCEPT ![hash_code[k]] = l]
        /\ result' = [op |-> "put", ret |-> ret]
    BY <1>1 DEF table_put
  <1>3. Sound(old)
    BY TableAssumption DEF TableInv
  <1> HIDE DEF old
  <1>4. /\ Sound(l) /\ Nodes(l.nodes) = Others(old.nodes, k) \cup {entry_create(k, v)}
        /\ ret = IF k \in Keys(old) THEN 1 ELSE 0
    BY <1>1, <1>3, AddKeeps
  <1>5. Others(l.nodes, k) = Others(old.nodes, k)
    BY <1>4 DEF Others, entry_create
  <1>6. list_get(l, k) = v
    <2>1. entry_create(k, v) \in Nodes(l.nodes)
      BY <1>4
    <2>2. entry_create(k, v).key = k /\ entry_create(k, v).value = v
      BY DEF entry_create
    <2>3. list_get(l, entry_create(k, v).key) = entry_create(k, v).value
      BY <1>4, <2>1, GetFinds
    <2> QED
      BY <2>2, <2>3
  <1>7. [j \in Key |-> ValueOf(j)]' = [[j \in Key |-> ValueOf(j)] EXCEPT ![k] = v]
    BY <1>2, <1>4, <1>5, <1>6, MapChanged DEF old
  <1>8. Documented' = [op |-> "put", ret |-> 0]
    BY <1>2, <1>4 DEF Documented
  <1> QED
    BY <1>7, <1>8 DEF KV!Put

LEMMA RemoveAsMap ==
  ASSUME TableInv, TableInv', NEW k \in Key, table_remove(k)
  PROVE  KV!Remove(k)
  <1> DEFINE old == lists[hash_code[k]]
  <1>1. PICK l, ret : list_remove(old, k) = [list |-> l, ret |-> ret]
    BY DEF list_remove
  <1>2. /\ lists' = [lists EXCEPT ![hash_code[k]] = l]
        /\ result' = [op |-> "remove", ret |-> ret]
    BY <1>1 DEF table_remove
  <1>3. Sound(old)
    BY TableAssumption DEF TableInv
  <1> HIDE DEF old
  <1>4. /\ Sound(l) /\ Nodes(l.nodes) = Others(old.nodes, k)
        /\ ret = IF k \in Keys(old) THEN 0 ELSE 1
    BY <1>1, <1>3, RemoveKeeps
  <1>5. Others(l.nodes, k) = Others(old.nodes, k)
    BY <1>4 DEF Others
  <1>6. list_get(l, k) = NoValue
    <2>1. k \notin Keys(l)
      BY <1>4 DEF Keys, KeysOf, Others, Nodes
    <2> QED
      BY <1>4, <2>1, GetMisses
  <1>7. [j \in Key |-> ValueOf(j)]' = [[j \in Key |-> ValueOf(j)] EXCEPT ![k] = NoValue]
    BY <1>2, <1>4, <1>5, <1>6, MapChanged DEF old
  <1>8. k \in Keys(old) <=> ValueOf(k) # NoValue
    BY <1>3, ValueFound, GetTells DEF old
  <1>9. k \in KV!Present <=> k \in Keys(old)
    BY <1>8 DEF KV!Present
  <1> QED
    BY <1>2, <1>4, <1>7, <1>9 DEF KV!Remove, Documented

-----------------------------------------------------------------------------
(* What the lists hold between them: table_size and table_get_keys go from  *)
(* one list to the next, and the map knows nothing of lists.                *)

\* The keys in the lists of I.
Held(t, I) == UNION {Keys(t[i]) : i \in I}

\* A sound list has as many keys as it counts.
LEMMA KeysCounted ==
  ASSUME NEW list, Sound(list)
  PROVE  IsFiniteSet(Keys(list)) /\ Cardinality(Keys(list)) = list.size
  <1>1. PICK s \in Seq(Entry) : s = list.nodes /\ list.size = Len(s) /\ Ordered(s)
    BY DEF Sound
  <1>2. Len(s) \in Nat /\ \A i \in 1 .. Len(s) : s[i].key \in Nat
    BY NodeKeys, ListAssumption
  <1> DEFINE f == [i \in 1 .. Len(s) |-> s[i].key]
  <1>3. f \in Bijection(1 .. Len(s), Keys(list))
    <2>1. f \in Surjection(1 .. Len(s), Keys(list))
      BY <1>1 DEF Keys, KeysOf, Surjection
    <2>2. ASSUME NEW i \in 1 .. Len(s), NEW j \in 1 .. Len(s), i # j PROVE f[i] # f[j]
      <3>1. i < j \/ j < i
        BY <1>2, <2>2
      <3> QED
        BY <1>1, <1>2, <3>1 DEF Ordered
    <2>3. DOMAIN f = 1 .. Len(s)
      OBVIOUS
    <2> HIDE DEF f
    <2>4. IsInjective(f)
      BY <2>2, <2>3 DEF IsInjective
    <2> QED
      BY <2>1, <2>4 DEF Bijection, Injection, Surjection
  <1>4. IsFiniteSet(1 .. Len(s)) /\ Cardinality(1 .. Len(s)) = Len(s)
    <2>1. /\ IsFiniteSet(1 .. Len(s))
          /\ Cardinality(1 .. Len(s)) = IF 1 > Len(s) THEN 0 ELSE Len(s) - 1 + 1
      BY <1>2, FS_Interval
    <2> QED
      BY <1>2, <2>1
  <1> QED
    BY <1>1, <1>3, <1>4, FS_Bijection DEF ExistsBijection

\* The keys of one more list come on top: no key is in two.
LEMMA HeldMore ==
  ASSUME NEW t, Placed(t), NEW I \in SUBSET Index, NEW i \in Index, i \notin I,
         IsFiniteSet(Held(t, I))
  PROVE  /\ IsFiniteSet(Held(t, I \cup {i}))
         /\ Held(t, I \cup {i}) = Held(t, I) \cup Keys(t[i])
         /\ Cardinality(Held(t, I \cup {i})) = Cardinality(Held(t, I)) + t[i].size
  <1>1. Held(t, I \cup {i}) = Held(t, I) \cup Keys(t[i])
    BY DEF Held
  <1>2. Held(t, I) \cap Keys(t[i]) = {}
    BY DEF Held, Placed
  <1>3. /\ IsFiniteSet(Keys(t[i])) /\ Cardinality(Keys(t[i])) = t[i].size
        /\ t[i].size \in Nat
    BY KeysCounted DEF Placed, Sound
  <1>4. /\ IsFiniteSet(Held(t, I) \cup Keys(t[i]))
        /\ Cardinality(Held(t, I) \cup Keys(t[i])) =
             Cardinality(Held(t, I)) + Cardinality(Keys(t[i]))
               - Cardinality(Held(t, I) \cap Keys(t[i]))
    BY <1>3, FS_Union
  <1>5. Cardinality(Held(t, I)) \in Nat
    BY FS_CardinalityType
  <1>6. Cardinality(Held(t, I) \cap Keys(t[i])) = 0
    BY <1>2, FS_EmptySet
  <1>7. Cardinality(Held(t, I) \cup Keys(t[i])) = Cardinality(Held(t, I)) + t[i].size
    BY <1>3, <1>4, <1>5, <1>6
  <1> QED
    BY <1>1, <1>4, <1>7

LEMMA NothingHeld ==
  ASSUME NEW t
  PROVE  Held(t, {}) = {} /\ IsFiniteSet(Held(t, {})) /\ Cardinality(Held(t, {})) = 0
  <1>1. Held(t, {}) = {}
    BY DEF Held
  <1> QED
    BY <1>1, FS_EmptySet

LEMMA HeldFinite ==
  ASSUME NEW t, Placed(t)
  PROVE  \A I \in SUBSET Index : IsFiniteSet(Held(t, I))
  <1> DEFINE Good == {I \in SUBSET Index : IsFiniteSet(Held(t, I))}
  <1>1. IsFiniteSet(Index)
    BY TableAssumption, FS_Interval DEF Index
  <1>2. ASSUME NEW I \in SUBSET Index, \A i \in I : I \ {i} \in Good PROVE I \in Good
    <2>1. CASE I = {}
      BY <2>1, NothingHeld
    <2>2. CASE I # {}
      <3>1. PICK i \in I : TRUE
        BY <2>2
      <3>2. (I \ {i}) \cup {i} = I
        BY <3>1
      <3>3. I \ {i} \in SUBSET Index /\ IsFiniteSet(Held(t, I \ {i}))
        BY <1>2, <3>1
      <3> QED
        BY <3>1, <3>2, <3>3, HeldMore
    <2> QED
      BY <2>1, <2>2
  <1> HIDE DEF Good
  <1>3. \A I \in SUBSET Index : I \in Good
    BY <1>1, <1>2, OverSubsets
  <1> QED
    BY <1>3 DEF Good

\* The counters of the lists add up to the number of keys in them.
LEMMA SizesAddUp ==
  ASSUME NEW t, Placed(t)
  PROVE  MapThenSumSet(LAMBDA i : t[i].size, Index) = Cardinality(Held(t, Index))
  <1> DEFINE x(s) == CHOOSE y \in s : TRUE
             IsSum(h) == h = [s \in SUBSET Index |->
                                IF s = {} THEN 0 ELSE t[x(s)].size + h[s \ {x(s)}]]
             sum == CHOOSE h : IsSum(h)
             count == [s \in SUBSET Index |-> Cardinality(Held(t, s))]
  <1>1. MapThenSumSet(LAMBDA i : t[i].size, Index) = sum[Index]
    BY DEF MapThenSumSet, MapThenFoldSet
  <1>2. ASSUME NEW s \in SUBSET Index, s # {}
        PROVE  x(s) \in s /\ count[s] = t[x(s)].size + count[s \ {x(s)}]
    <2>1. x(s) \in s
      BY <1>2
    <2> HIDE DEF x
    <2>2. (s \ {x(s)}) \cup {x(s)} = s /\ s \ {x(s)} \in SUBSET Index /\ x(s) \in Index
      BY <2>1
    <2>3. Cardinality(Held(t, s)) = Cardinality(Held(t, s \ {x(s)})) + t[x(s)].size
      BY <2>2, HeldFinite, HeldMore
    <2>4. Cardinality(Held(t, s \ {x(s)})) \in Nat /\ t[x(s)].size \in Nat
      BY <2>2, HeldFinite, FS_CardinalityType DEF Placed, Sound
    <2> QED
      BY <2>1, <2>2, <2>3, <2>4
  <1>3. count[{}] = 0
    BY NothingHeld
  <1>4. IsSum(count)
    <2>1. \A s \in SUBSET Index : count[s] = IF s = {} THEN 0 ELSE t[x(s)].size + count[s \ {x(s)}]
      BY <1>2, <1>3
    <2>2. count = [s \in SUBSET Index |-> count[s]]
      OBVIOUS
    <2> HIDE DEF count, x
    <2> QED
      BY <2>1, <2>2
  <1> HIDE DEF count
  <1>5. IsSum(sum)
    BY <1>4
  <1> HIDE DEF sum, x
  <1>6. \A s \in SUBSET Index : sum[s] = IF s = {} THEN 0 ELSE t[x(s)].size + sum[s \ {x(s)}]
    BY <1>5
  <1> DEFINE Good == {s \in SUBSET Index : sum[s] = count[s]}
  <1>7. ASSUME NEW s \in SUBSET Index, \A y \in s : s \ {y} \in Good PROVE s \in Good
    <2>1. CASE s = {}
      BY <1>3, <1>6, <2>1
    <2>2. CASE s # {}
      <3>1. x(s) \in s /\ count[s] = t[x(s)].size + count[s \ {x(s)}]
        BY <1>2, <2>2
      <3>2. sum[s] = t[x(s)].size + sum[s \ {x(s)}]
        BY <1>6, <2>2
      <3> QED
        BY <1>7, <3>1, <3>2
    <2> QED
      BY <2>1, <2>2
  <1>8. IsFiniteSet(Index)
    BY TableAssumption, FS_Interval DEF Index
  <1> HIDE DEF Good
  <1>9. Index \in Good
    BY <1>7, <1>8, OverSubsets
  <1> QED
    BY <1>1, <1>9 DEF Good, count

\* h[i] is the first i of n sequences one after the other.
Builds(h, q, n) == \A i \in 1 .. n : h[i] = IF i = 1 THEN q[i] ELSE h[i - 1] \o q[i]

\* The sequences one after the other are built up from the first, one at a time.
LEMMA FlattenSteps ==
  ASSUME NEW S, NEW n \in Nat, n > 0, NEW q \in [1 .. n -> Seq(S)]
  PROVE  \E h \in [1 .. n -> Seq(S)] : FlattenSeq(q) = h[n] /\ Builds(h, q, n)
  <1> DEFINE Flat(h, m) == h = [i \in 1 .. m |-> IF i = 1 THEN q[i] ELSE h[i - 1] \o q[i]]
             Good == {m \in 0 .. n : \E h \in [1 .. m -> Seq(S)] : Flat(h, m)}
             flat == CHOOSE h : Flat(h, n)
  <1>1. Len(q) = n
    OBVIOUS
  <1>2. FlattenSeq(q) = flat[n]
    BY <1>1 DEF FlattenSeq
  <1>3. 0 \in Good
    <2> DEFINE e == [i \in 1 .. 0 |-> q[i]]
    <2>1. e \in [1 .. 0 -> Seq(S)] /\ Flat(e, 0) /\ 0 \in 0 .. n
      OBVIOUS
    <2> HIDE DEF e, Flat
    <2> QED
      BY <2>1
  <1>4. ASSUME NEW m \in 0 .. n - 1, m \in Good PROVE m + 1 \in Good
    <2>1. PICK h \in [1 .. m -> Seq(S)] : Flat(h, m)
      BY <1>4
    <2>2. \A i \in 1 .. m : h[i] = IF i = 1 THEN q[i] ELSE h[i - 1] \o q[i]
      BY <2>1
    <2>3. m \in Nat /\ m + 1 \in 1 .. n /\ q[m + 1] \in Seq(S)
      OBVIOUS
    <2> DEFINE last == IF m = 0 THEN q[1] ELSE h[m] \o q[m + 1]
               g == [i \in 1 .. m + 1 |-> IF i = m + 1 THEN last ELSE h[i]]
    <2>4. last \in Seq(S)
      <3>1. CASE m = 0
        BY <2>3, <3>1
      <3>2. CASE m # 0
        <4>1. m \in 1 .. m
          BY <2>3, <3>2
        <4>2. h[m] \in Seq(S)
          BY <2>1, <4>1
        <4> QED
          BY <2>3, <3>2, <4>2, ConcatProperties
      <3> QED
        BY <3>1, <3>2
    <2>5. m = 0 => last = q[1]
      OBVIOUS
    <2>6. m # 0 => last = h[m] \o q[m + 1]
      OBVIOUS
    <2> HIDE DEF last
    <2>7. ASSUME NEW i \in 1 .. m + 1
          PROVE  g[i] \in Seq(S) /\ g[i] = IF i = 1 THEN q[i] ELSE g[i - 1] \o q[i]
      <3>1. CASE i = m + 1
        <4>1. g[i] = last
          BY <3>1
        <4>2. CASE m = 0
          BY <2>4, <2>5, <3>1, <4>1, <4>2
        <4>3. CASE m # 0
          <5>1. m \in 1 .. m + 1 /\ m # m + 1 /\ i # 1 /\ i - 1 = m
            BY <2>3, <3>1, <4>3
          <5>2. g[i - 1] = h[m]
            BY <5>1
          <5> HIDE DEF g
          <5> QED
            BY <2>4, <2>6, <3>1, <4>1, <4>3, <5>1, <5>2
        <4> QED
          BY <4>2, <4>3
      <3>2. CASE i # m + 1
        <4>1. i \in 1 .. m /\ (i # 1 => i - 1 \in 1 .. m + 1 /\ i - 1 # m + 1)
          BY <2>3, <3>2
        <4>2. g[i] = h[i] /\ (i # 1 => g[i - 1] = h[i - 1])
          BY <3>2, <4>1
        <4> HIDE DEF g
        <4> QED
          BY <2>1, <2>2, <4>1, <4>2
      <3> QED
        BY <3>1, <3>2
    <2>8. g = [i \in 1 .. m + 1 |-> g[i]]
      OBVIOUS
    <2> HIDE DEF g
    <2>9. g \in [1 .. m + 1 -> Seq(S)] /\ m + 1 \in 0 .. n
      <3>1. \A i \in 1 .. m + 1 : g[i] \in Seq(S)
        BY <2>7
      <3>2. m + 1 \in 0 .. n
        BY <2>3
      <3> QED
        BY <2>8, <3>1, <3>2
    <2>10. Flat(g, m + 1)
      <3>1. [i \in 1 .. m + 1 |-> g[i]] =
              [i \in 1 .. m + 1 |-> IF i = 1 THEN q[i] ELSE g[i - 1] \o q[i]]
        BY <2>7
      <3> QED
        BY <2>8, <3>1
    <2> HIDE DEF Flat
    <2> QED
      BY <2>9, <2>10
  <1> HIDE DEF Good
  <1>5. n \in Good
    <2>1. \A m \in 0 .. n : m \in Good
      BY <1>3, <1>4, UpTo
    <2> QED
      BY <2>1
  <1>6. PICK h \in [1 .. n -> Seq(S)] : Flat(h, n)
    BY <1>5 DEF Good
  <1>7. Flat(flat, n)
    BY <1>6
  <1> HIDE DEF flat
  <1>8. \A i \in 1 .. n : flat[i] = IF i = 1 THEN q[i] ELSE flat[i - 1] \o q[i]
    BY <1>7
  <1>9. flat \in [1 .. n -> Seq(S)]
    <2> DEFINE Typed == {m \in 0 .. n : m = 0 \/ flat[m] \in Seq(S)}
    <2>1. 0 \in Typed
      OBVIOUS
    <2>2. ASSUME NEW m \in 0 .. n - 1, m \in Typed PROVE m + 1 \in Typed
      <3>1. m + 1 \in 1 .. n /\ q[m + 1] \in Seq(S)
        OBVIOUS
      <3>2. m \in Nat /\ (m + 1) - 1 = m /\ m + 1 \in 0 .. n
        OBVIOUS
      <3>3. flat[m + 1] = IF m + 1 = 1 THEN q[m + 1] ELSE flat[m] \o q[m + 1]
        BY <1>8, <3>1, <3>2
      <3>4. CASE m = 0
        BY <3>1, <3>2, <3>3, <3>4
      <3>5. CASE m # 0
        <4>0. m + 1 # 1
          BY <3>2, <3>5
        <4>1. flat[m + 1] = flat[m] \o q[m + 1]
          BY <3>3, <4>0
        <4>2. flat[m] \in Seq(S)
          BY <2>2, <3>5
        <4>3. flat[m + 1] \in Seq(S)
          BY <3>1, <4>1, <4>2, ConcatProperties
        <4> QED
          BY <3>2, <4>3
      <3> QED
        BY <3>4, <3>5
    <2> HIDE DEF Typed
    <2>3. \A m \in 0 .. n : m \in Typed
      BY <2>1, <2>2, UpTo
    <2>4. flat = [i \in 1 .. n |-> flat[i]]
      BY <1>7
    <2>5. \A i \in 1 .. n : flat[i] \in Seq(S)
      BY <2>3 DEF Typed
    <2> QED
      BY <2>4, <2>5
  <1>10. Builds(flat, q, n)
    BY <1>8 DEF Builds
  <1> QED
    BY <1>2, <1>9, <1>10

Listed(t) == FlattenSeq([i \in 1 .. NLists |-> list_get_keys(t[i - 1])])

\* The keys listed are those in the lists, as many as there are.
LEMMA KeysListed ==
  ASSUME NEW t, Placed(t), NEW keys, keys = Listed(t)
  PROVE  /\ keys \in Seq(Key) /\ Len(keys) = Cardinality(Held(t, Index))
         /\ {keys[j] : j \in 1 .. Len(keys)} = Held(t, Index)
  <1> DEFINE q == [i \in 1 .. NLists |-> list_get_keys(t[i - 1])]
  <1>1. ASSUME NEW i \in 1 .. NLists
        PROVE  /\ i - 1 \in Index /\ q[i] \in Seq(Key) /\ Len(q[i]) = t[i - 1].size
               /\ {q[i][j] : j \in 1 .. Len(q[i])} = Keys(t[i - 1])
    <2>1. i - 1 \in Index
      BY TableAssumption DEF Index
    <2>2. PICK s \in Seq(Entry) : /\ s = t[i - 1].nodes /\ t[i - 1].size = Len(s)
      BY <2>1 DEF Placed, Sound
    <2>3. q[i] = [j \in 1 .. Len(s) |-> s[j].key] /\ Len(s) \in Nat
      BY <2>2 DEF list_get_keys
    <2>4. \A j \in 1 .. Len(s) : s[j].key \in Key
      BY NodeKeys DEF Entry
    <2>5. PICK b : b = q[i]
      OBVIOUS
    <2>6. b = [j \in 1 .. Len(s) |-> s[j].key]
      BY <2>3, <2>5
    <2>7. b \in Seq(Key) /\ Len(b) = Len(s)
      BY <2>3, <2>4, <2>6
    <2>8. Keys(t[i - 1]) = {s[j].key : j \in 1 .. Len(s)}
      BY <2>2 DEF Keys, KeysOf
    <2>9. {b[j] : j \in 1 .. Len(b)} = {s[j].key : j \in 1 .. Len(s)}
      BY <2>3, <2>6, <2>7
    <2> HIDE DEF q
    <2> QED
      BY <2>1, <2>2, <2>5, <2>7, <2>8, <2>9
  <1>2. q \in [1 .. NLists -> Seq(Key)] /\ keys = FlattenSeq(q)
    BY <1>1 DEF Listed
  <1> HIDE DEF q
  <1>3. NLists \in Nat /\ NLists > 0
    BY TableAssumption
  <1>a. PICK h \in [1 .. NLists -> Seq(Key)] : FlattenSeq(q) = h[NLists] /\ Builds(h, q, NLists)
    BY <1>2, <1>3, FlattenSteps
  <1>4. \A i \in 1 .. NLists : h[i] = IF i = 1 THEN q[i] ELSE h[i - 1] \o q[i]
    BY <1>a DEF Builds
  <1> DEFINE All(i) == /\ Len(h[i]) = Cardinality(Held(t, 0 .. i - 1))
                       /\ {h[i][j] : j \in 1 .. Len(h[i])} = Held(t, 0 .. i - 1)
             Good == {i \in 0 .. NLists : i = 0 \/ All(i)}
  <1>5. 0 \in Good
    BY <1>3
  <1>6. ASSUME NEW i \in 0 .. NLists - 1, i \in Good PROVE i + 1 \in Good
    <2>1. /\ i + 1 \in 1 .. NLists /\ i + 1 \in 0 .. NLists /\ i \in Index
          /\ i \notin 0 .. i - 1 /\ 0 .. i - 1 \in SUBSET Index /\ (i + 1) - 1 = i
      BY <1>3 DEF Index
    <2>0. 0 .. (i + 1) - 1 = (0 .. i - 1) \cup {i}
      BY <1>3
    <2>2. /\ Held(t, 0 .. (i + 1) - 1) = Held(t, 0 .. i - 1) \cup Keys(t[i])
          /\ Cardinality(Held(t, 0 .. (i + 1) - 1)) = Cardinality(Held(t, 0 .. i - 1)) + t[i].size
      <3>1. IsFiniteSet(Held(t, 0 .. i - 1))
        BY <2>1, HeldFinite
      <3>2. /\ Held(t, (0 .. i - 1) \cup {i}) = Held(t, 0 .. i - 1) \cup Keys(t[i])
            /\ Cardinality(Held(t, (0 .. i - 1) \cup {i}))
                 = Cardinality(Held(t, 0 .. i - 1)) + t[i].size
        BY <2>1, <3>1, HeldMore
      <3> QED
        BY <2>0, <3>2
    <2>3. /\ q[i + 1] \in Seq(Key) /\ Len(q[i + 1]) = t[i].size
          /\ {q[i + 1][j] : j \in 1 .. Len(q[i + 1])} = Keys(t[i])
      BY <1>1, <2>1
    <2>4. CASE i = 0
      <3>0. i + 1 = 1
        BY <2>4
      <3>1. h[i + 1] = q[i + 1]
        BY <1>4, <2>1, <3>0
      <3>2. 0 .. i - 1 = {}
        BY <2>4
      <3>3. Held(t, 0 .. i - 1) = {} /\ Cardinality(Held(t, 0 .. i - 1)) = 0
        BY <3>2, NothingHeld
      <3>4. Len(h[i + 1]) = t[i].size /\ t[i].size \in Nat
        BY <2>3, <3>1
      <3>5. All(i + 1)
        BY <2>2, <2>3, <3>1, <3>3, <3>4
      <3> HIDE DEF All
      <3> QED
        BY <2>1, <3>5
    <2>5. CASE i # 0
      <3>0. i \in 1 .. NLists
        BY <1>3, <2>5
      <3>1. PICK a \in Seq(Key) : a = h[i]
        BY <3>0
      <3>2. PICK b \in Seq(Key) : b = q[i + 1]
        BY <2>3
      <3>3. h[i + 1] = a \o b
        <4>1. h[i + 1] = IF i + 1 = 1 THEN q[i + 1] ELSE h[i] \o q[i + 1]
          BY <1>4, <2>1
        <4>2. i + 1 # 1
          BY <2>5
        <4> QED
          BY <3>1, <3>2, <4>1, <4>2
      <3>4. Len(a) = Cardinality(Held(t, 0 .. i - 1))
            /\ {a[j] : j \in 1 .. Len(a)} = Held(t, 0 .. i - 1)
        BY <1>6, <2>5, <3>1
      <3>5. Len(a \o b) = Len(a) + Len(b)
            /\ \A j \in 1 .. Len(a) + Len(b) :
                 (a \o b)[j] = IF j <= Len(a) THEN a[j] ELSE b[j - Len(a)]
        BY ConcatProperties
      <3>6. {(a \o b)[j] : j \in 1 .. Len(a \o b)}
              = {a[j] : j \in 1 .. Len(a)} \cup {b[j] : j \in 1 .. Len(b)}
        <4>1. ASSUME NEW j \in 1 .. Len(b)
              PROVE  Len(a) + j \in 1 .. Len(a \o b) /\ (a \o b)[Len(a) + j] = b[j]
          BY <3>5
        <4>2. ASSUME NEW j \in 1 .. Len(a)
              PROVE  j \in 1 .. Len(a \o b) /\ (a \o b)[j] = a[j]
          BY <3>5
        <4>3. ASSUME NEW j \in 1 .. Len(a \o b)
              PROVE  \/ \E m \in 1 .. Len(a) : (a \o b)[j] = a[m]
                     \/ \E m \in 1 .. Len(b) : (a \o b)[j] = b[m]
          <5>1. CASE j <= Len(a)
            BY <3>5, <5>1
          <5>2. CASE ~(j <= Len(a))
            <6>1. j - Len(a) \in 1 .. Len(b)
              BY <3>5, <5>2
            <6> QED
              BY <3>5, <5>2, <6>1
          <5> QED
            BY <5>1, <5>2
        <4>4. {(a \o b)[j] : j \in 1 .. Len(a \o b)}
                \subseteq {a[j] : j \in 1 .. Len(a)} \cup {b[j] : j \in 1 .. Len(b)}
          BY <4>3
        <4>5. {a[j] : j \in 1 .. Len(a)} \subseteq {(a \o b)[j] : j \in 1 .. Len(a \o b)}
          BY <4>2
        <4>6. {b[j] : j \in 1 .. Len(b)} \subseteq {(a \o b)[j] : j \in 1 .. Len(a \o b)}
          <5> SUFFICES ASSUME NEW j \in 1 .. Len(b)
                       PROVE  \E m \in 1 .. Len(a \o b) : b[j] = (a \o b)[m]
            OBVIOUS
          <5> QED
            BY <4>1
        <4> QED
          BY <4>4, <4>5, <4>6
      <3>7. Len(b) = t[i].size /\ {b[j] : j \in 1 .. Len(b)} = Keys(t[i])
        BY <2>3, <3>2
      <3>8. Len(h[i + 1]) = Cardinality(Held(t, 0 .. (i + 1) - 1))
        BY <2>2, <3>3, <3>4, <3>5, <3>7
      <3>9. {h[i + 1][j] : j \in 1 .. Len(h[i + 1])} = Held(t, 0 .. (i + 1) - 1)
        BY <2>2, <3>3, <3>4, <3>6, <3>7
      <3>10. All(i + 1)
        BY <3>8, <3>9
      <3> HIDE DEF All
      <3> QED
        BY <2>1, <3>10
    <2> QED
      BY <2>4, <2>5
  <1> HIDE DEF Good
  <1>7. \A i \in 0 .. NLists : i \in Good
    BY <1>3, <1>5, <1>6, UpTo
  <1>8. All(NLists)
    BY <1>3, <1>7 DEF Good
  <1>9. h[NLists] \in Seq(Key) /\ keys = h[NLists]
    BY <1>2, <1>3, <1>a
  <1> QED
    BY <1>8, <1>9 DEF Index

\* The keys of the map are those in the lists.
LEMMA PresentHeld ==
  TableInv => KV!Present = Held(lists, Index)
  <1> SUFFICES ASSUME TableInv PROVE KV!Present = Held(lists, Index)
    OBVIOUS
  <1>1. \A k \in Key : hash_code[k] \in Index
    BY TableAssumption
  <1>2. ASSUME NEW k \in Key
        PROVE  k \in KV!Present <=> k \in Keys(lists[hash_code[k]])
    <2>1. Sound(lists[hash_code[k]])
      BY <1>1 DEF TableInv
    <2> QED
      BY <2>1, ValueFound, GetTells DEF KV!Present
  <1>3. ASSUME NEW i \in Index PROVE Keys(lists[i]) \subseteq Key
    <2>1. PICK s \in Seq(Entry) : s = lists[i].nodes
      BY DEF TableInv
    <2>2. \A j \in 1 .. Len(s) : s[j].key \in Key
      BY NodeKeys DEF Entry
    <2> QED
      BY <2>1, <2>2 DEF Keys, KeysOf
  <1> QED
    BY <1>1, <1>2, <1>3 DEF Held, TableInv, KV!Present

\* The map counts its keys as the table does.
LEMMA SameCount == \A S : KV!Cardinality(S) = Cardinality(S)
  BY DEF KV!Cardinality, Cardinality

LEMMA SizeAsMap ==
  ASSUME TableInv, table_size
  PROVE  KV!Size
  <1>1. Placed(lists)
    BY DEF TableInv, Placed
  <1>2. result' = [op |-> "size", ret |-> Cardinality(KV!Present)] /\ UNCHANGED lists
    BY <1>1, SizesAddUp, PresentHeld DEF table_size
  <1>3. UNCHANGED [j \in Key |-> ValueOf(j)]
    BY <1>2 DEF ValueOf
  <1> QED
    BY <1>2, <1>3, SameCount DEF KV!Size, Documented

LEMMA KeysAsMap ==
  ASSUME TableInv, table_get_keys
  PROVE  KV!GetKeys
  <1>1. Placed(lists)
    BY DEF TableInv, Placed
  <1>2. PICK keys : keys = Listed(lists)
    OBVIOUS
  <1>3. /\ keys \in Seq(Key) /\ Len(keys) = Cardinality(KV!Present)
        /\ {keys[j] : j \in 1 .. Len(keys)} = KV!Present
    <2>1. /\ keys \in Seq(Key) /\ Len(keys) = Cardinality(Held(lists, Index))
          /\ {keys[j] : j \in 1 .. Len(keys)} = Held(lists, Index)
      BY <1>1, <1>2, KeysListed
    <2> QED
      BY <2>1, PresentHeld
  <1>4. result' = [op |-> "get_keys", ret |-> keys] /\ UNCHANGED lists
    BY <1>2, KeysLeave DEF table_get_keys, Listed
  <1>5. UNCHANGED [j \in Key |-> ValueOf(j)]
    BY <1>4 DEF ValueOf
  <1>6. result'.op = "get_keys" /\ result'.ret = keys /\ DOMAIN keys = 1 .. Len(keys)
    BY <1>3, <1>4
  <1> QED
    BY <1>3, <1>5, <1>6, SameCount DEF KV!GetKeys, Documented

\* The lists implement the map: whatever calls came before, every call does to
\* them what it does to a map, and answers what the map determines, for any keys,
\* values, number of lists and hash.
THEOREM TableRefines == Spec => Refinement
  <1>1. ASSUME TableInv, TableInv', [Next]_vars
        PROVE  [KV!Next]_<<[k \in Key |-> ValueOf(k)], Documented>>
    <2>1. CASE UNCHANGED vars
      BY <2>1 DEF vars, ValueOf, Documented
    <2>2. ASSUME NEW k \in Key, table_get(k) PROVE KV!Get(k)
      <3>1. result' = [op |-> "get", ret |-> ValueOf(k)] /\ UNCHANGED lists
        BY <2>2 DEF table_get
      <3>2. UNCHANGED [j \in Key |-> ValueOf(j)]
        BY <3>1 DEF ValueOf
      <3> QED
        BY <3>1, <3>2 DEF KV!Get, Documented
    <2> QED
      BY <1>1, <2>1, <2>2, PutAsMap, RemoveAsMap, SizeAsMap, KeysAsMap DEF Next, KV!Next
  <1> QED
    BY <1>1, MapStarts, TableAlways, PTL DEF Spec, Refinement, KV!Spec

=============================================================================
