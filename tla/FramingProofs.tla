--------------------------- MODULE FramingProofs ---------------------------
(***************************************************************************)
(* What holds of a connection for any operations, any lengths that the     *)
(* assumption allows, any width of a length and any number of calls: both  *)
(* ends stay in step, so that the connection is the procedure call it is   *)
(* used as (module Rpc).                                                   *)
(***************************************************************************)
EXTENDS Framing, SequenceTheorems, TLAPS

Sent == Len(requests)
Made == Len(replies)

\* The bytes s are stretches of messages one after the other: after a byte come
\* the others of its message, and then the first of the next message.
Framed(s, sent) ==
  \A i \in 1 .. Len(s) :
    LET m == s[i][1]
        rest == sent[m].len - s[i][2] IN
    /\ \A d \in 0 .. rest : i + d <= Len(s) => s[i + d] = <<m, s[i][2] + d>>
    /\ i + rest + 1 <= Len(s) => s[i + rest + 1] = <<m + 1, 0>>

\* The byte that follows b.
After(b) ==
  IF b[2] < requests[b[1]].len THEN <<b[1], b[2] + 1>> ELSE <<b[1] + 1, 0>>

\* The byte the thread reads next, and the one the stub writes next.
ReadsNext ==
  CASE server = "body" -> <<Made + 1, 1>>
    [] server = "invoke" -> <<Made + 2, 0>>
    [] OTHER -> <<Made + 1, 0>>
WritesNext ==
  CASE caller = "send_size" -> <<Sent, 0>>
    [] caller = "send_body" -> <<Sent, 1>>
    [] OTHER -> <<Sent + 1, 0>>

\* What is on its way to the thread leads from the byte it reads next to the
\* one the stub writes next.  Only a torn request ends in the middle.
UpInv ==
  /\ \A i \in 1 .. Len(up) :
       up[i][1] \in 1 .. Sent /\ up[i][2] \in 0 .. requests[up[i][1]].len
  /\ Framed(up, requests)
  /\ up # <<>> => up[1] = ReadsNext
  /\ LET end == IF up = <<>> THEN ReadsNext ELSE After(up[Len(up)]) IN
     /\ caller # "dead" => end = WritesNext
     /\ caller = "dead" /\ ~torn => end[2] = 0

\* The thread holds the request it waits for or handles, or one that was torn.
HeldInv ==
  /\ server = "body" => Made < Sent /\ size = requests[Made + 1].len
  /\ server \in {"send_size", "send_body"} => Made > 0
  /\ server = "invoke" => held \in {0, Made + 1}
  /\ server = "invoke" /\ held = 0 =>
       /\ torn /\ up = <<>>
       /\ \A i \in 1 .. Made : replies[i].to # 0
  /\ \A i \in 1 .. Made :
       /\ replies[i].to \in {0, i}
       /\ replies[i].to = 0 =>
            torn /\ i = Made /\ up = <<>> /\ server \notin {"body", "invoke"}

\* The reply on its way is the one the stub waits for, as far as it was written:
\* all of it, or, from a server that has stopped, its first n bytes.
LengthComing ==
  /\ Made = Sent
  /\ \/ down = <<>> /\ server \in {"send_size", "closed"}
     \/ down = <<<<Made, 0>>>> /\ server = "send_body"
     \/ \E n \in 0 .. replies[Made].len :
          /\ down = <<<<Made, 0>>>> \o Bytes(Made, n)
          /\ server = "closed" \/ (server = "size" /\ n = replies[Made].len)
BodyComing ==
  /\ Made = Sent /\ len = replies[Made].len
  /\ \/ down = <<>> /\ server = "send_body"
     \/ \E n \in 0 .. replies[Made].len :
          /\ down = Bytes(Made, n)
          /\ server = "closed" \/ (server = "size" /\ n = replies[Made].len)

\* Nothing is on its way otherwise.
DownInv ==
  /\ caller \in {"idle", "send_size", "send_body"} =>
       /\ down = <<>> /\ server \notin {"invoke", "send_size", "send_body"}
       /\ Made = IF caller = "idle" THEN Sent ELSE Sent - 1
  /\ caller = "recv_size" =>
       \/ Made = Sent - 1 /\ down = <<>> /\ server \notin {"send_size", "send_body"}
       \/ LengthComing
  /\ caller = "recv_body" => BodyComing

\* Every call that returned brought its own answer.
ReturnInv ==
  /\ Len(returned) = IF caller = "idle" THEN Sent ELSE Sent - 1
  /\ \A i \in 1 .. Len(returned) : returned[i].to = i

\* The calls are within their bound, and no reply is on its way before it is made.
CallInv ==
  /\ torn => caller = "dead"
  /\ Sent <= MaxCalls /\ (Sent > 0 \/ caller \in {"idle", "left", "dead"})
  /\ \A i \in 1 .. Len(down) : down[i][1] \in 1 .. Made

IndInv ==
  /\ TypeOK
  /\ CallInv
  /\ ~Closed => UpInv
  /\ HeldInv
  /\ ~Oversize /\ ~Gone => DownInv /\ ReturnInv

-----------------------------------------------------------------------------
(* Lengths and bytes. *)

\* A length that fits is what two bytes say, to both readers if it is small.
LEMMA Width ==
  /\ Half \in Nat \ {0} /\ Full \in Nat \ {0}
  /\ \A n \in Nat : n % Full \in 0 .. Full - 1
  /\ \A n \in 0 .. Full - 1 : n % Full = n
  /\ \A n \in 1 .. Half - 1 : n \in 0 .. Full - 1 /\ Signed(n) = n
  <1>1. Half \in Nat \ {0} /\ Full \in Nat \ {0} /\ Full = 2 * Half
    BY FramingAssumption DEF Full
  <1>2. \A n \in Nat : n % Full \in 0 .. Full - 1
    BY <1>1
  <1>3. \A n \in 0 .. Full - 1 : n % Full = n
    BY <1>1
  <1>4. \A n \in 1 .. Half - 1 : n \in 0 .. Full - 1 /\ Signed(n) = n
    BY <1>1 DEF Signed
  <1> QED
    BY <1>1, <1>2, <1>3, <1>4

LEMMA BytesShape ==
  ASSUME NEW m \in Nat, NEW n \in Nat
  PROVE  /\ Bytes(m, n) \in Seq(Nat \X Nat)
         /\ Len(Bytes(m, n)) = n
         /\ \A i \in 1 .. n : Bytes(m, n)[i] = <<m, i>>
  <1>1. Bytes(m, n) \in [1 .. n -> Nat \X Nat]
    BY DEF Bytes
  <1>2. Bytes(m, n) \in Seq(Nat \X Nat)
    BY <1>1, SeqDef
  <1>3. DOMAIN Bytes(m, n) = 1 .. n
    BY DEF Bytes
  <1>4. Len(Bytes(m, n)) = n
    BY <1>2, <1>3, LenProperties
  <1> QED
    BY <1>2, <1>4 DEF Bytes

LEMMA DropShape ==
  ASSUME NEW S, NEW s \in Seq(S), NEW n \in 0 .. Len(s)
  PROVE  /\ Drop(s, n) \in Seq(S)
         /\ Len(Drop(s, n)) = Len(s) - n
         /\ \A i \in 1 .. Len(s) - n : Drop(s, n)[i] = s[i + n]
  <1> DEFINE k == Len(s)
  <1>1. k \in Nat /\ n + 1 \in Int /\ k \in Int /\ n \in Nat /\ n <= k
    BY LenProperties
  <1>2. \A i \in n + 1 .. k : s[i] \in S
    BY <1>1, ElementOfSeq
  <1>3. /\ Drop(s, n) \in Seq(S)
        /\ Len(Drop(s, n)) = IF n + 1 <= k THEN k - (n + 1) + 1 ELSE 0
        /\ \A i \in 1 .. k - (n + 1) + 1 : Drop(s, n)[i] = s[(n + 1) + i - 1]
    <2> HIDE DEF k
    <2> QED
      BY <1>1, <1>2, SubSeqProperties DEF Drop, k
  <1> HIDE DEF k
  <1>4. Len(Drop(s, n)) = k - n
    BY <1>1, <1>3
  <1>5. \A i \in 1 .. k - n : Drop(s, n)[i] = s[i + n]
    BY <1>1, <1>3
  <1> QED
    BY <1>3, <1>4, <1>5 DEF k

LEMMA TakeShape ==
  ASSUME NEW S, NEW s \in Seq(S), NEW n \in 0 .. Len(s)
  PROVE  /\ Take(s, n) \in Seq(S)
         /\ Len(Take(s, n)) = n
         /\ \A i \in 1 .. n : Take(s, n)[i] = s[i]
  <1>1. n \in Nat /\ 1 \in Int /\ n \in Int /\ \A i \in 1 .. n : s[i] \in S
    BY LenProperties, ElementOfSeq
  <1>2. /\ Take(s, n) \in Seq(S)
        /\ Len(Take(s, n)) = IF 1 <= n THEN n - 1 + 1 ELSE 0
        /\ \A i \in 1 .. n - 1 + 1 : Take(s, n)[i] = s[1 + i - 1]
    BY <1>1, SubSeqProperties DEF Take
  <1> QED
    BY <1>1, <1>2

LEMMA Prefixed ==
  ASSUME NEW S, NEW b \in S, NEW s \in Seq(S)
  PROVE  Head(<<b>> \o s) = b /\ Tail(<<b>> \o s) = s
  <1> DEFINE t == <<b>> \o s
  <1>1. <<b>> \in Seq(S) /\ Len(<<b>>) = 1 /\ <<b>>[1] = b /\ Len(s) \in Nat
    BY LenProperties
  <1>2. /\ t \in Seq(S) /\ Len(t) = 1 + Len(s)
        /\ \A i \in 1 .. 1 + Len(s) : t[i] = IF i <= 1 THEN <<b>>[i] ELSE s[i - 1]
    BY <1>1, ConcatProperties
  <1> HIDE DEF t
  <1>3. t # <<>> /\ t[1] = b
    BY <1>1, <1>2, EmptySeq
  <1>4. /\ Head(t) = t[1] /\ Tail(t) \in Seq(S) /\ Len(Tail(t)) = Len(t) - 1
        /\ \A i \in 1 .. Len(Tail(t)) : Tail(t)[i] = t[i + 1]
    BY <1>2, <1>3, HeadTailProperties
  <1>5. \A i \in 1 .. Len(s) : Tail(t)[i] = s[i]
    BY <1>1, <1>2, <1>4
  <1> QED
    BY <1>1, <1>2, <1>3, <1>4, <1>5, SeqEqual DEF t

\* Messages of requests are as long as a command line can make them.
LEMMA RequestShape ==
  ASSUME TypeOK, NEW m \in 1 .. Sent
  PROVE  /\ requests[m].op \in Op
         /\ requests[m].len \in 1 .. Half - 1
         /\ requests[m].len \in Nat /\ 0 < requests[m].len
  <1>1. requests[m] \in [op : Op, len : RequestLens]
    BY ElementOfSeq DEF TypeOK, Sent
  <1>2. requests[m].op \in Op /\ requests[m].len \in 1 .. Half - 1
    BY <1>1, FramingAssumption
  <1> QED
    BY <1>2, FramingAssumption

LEMMA ReplyShape ==
  ASSUME TypeOK, NEW m \in 1 .. Made
  PROVE  /\ replies[m].to \in Nat /\ replies[m].res \in {"ok", "error"}
         /\ replies[m].len \in Nat \ {0}
  <1>1. replies[m] \in [to : Nat, len : ReplyLens, res : {"ok", "error"}]
    BY ElementOfSeq DEF TypeOK, Made
  <1> QED
    BY <1>1, FramingAssumption

LEMMA Counts ==
  TypeOK => /\ Sent \in Nat /\ Made \in Nat
            /\ Len(up) \in Nat /\ (up = <<>> <=> Len(up) = 0)
            /\ Len(down) \in Nat /\ (down = <<>> <=> Len(down) = 0)
  BY LenProperties, EmptySeq DEF TypeOK, Sent, Made

\* A message that has come whole is recognised, and a part of it is not.
LEMMA WholeFrame ==
  ASSUME NEW sent, NEW m \in Nat, sent[m].len \in Nat \ {0}
  PROVE  Whole(Bytes(m, sent[m].len), sent) = m
  <1> DEFINE n == sent[m].len
             s == Bytes(m, n)
  <1> HIDE DEF n
  <1>1. n \in Nat \ {0} /\ 1 \in 1 .. n
    BY DEF n
  <1>2. s[1] = <<m, 1>> /\ Len(s) = n
    BY <1>1, BytesShape
  <1>3. s # <<>> /\ s[1][1] = m
    BY <1>1, <1>2, EmptySeq
  <1> HIDE DEF s
  <1>4. Whole(s, sent) = IF s = Bytes(m, n) THEN m ELSE 0
    BY <1>3 DEF Whole, n
  <1> QED
    BY <1>4 DEF s, n

LEMMA WholePart ==
  ASSUME NEW sent, NEW s, NEW m \in Nat, sent[m].len \in Nat,
         s = <<>> \/ (s[1][1] = m /\ Len(s) # sent[m].len)
  PROVE  Whole(s, sent) = 0
  <1>1. Len(Bytes(m, sent[m].len)) = sent[m].len
    BY BytesShape
  <1> QED
    BY <1>1 DEF Whole

\* What is read from a framed stream, and what is left of it.
LEMMA FramedDrop ==
  ASSUME NEW S, NEW s \in Seq(S), NEW n \in 0 .. Len(s), NEW sent, Framed(s, sent),
         \A i \in 1 .. Len(s) : s[i][2] \in 0 .. sent[s[i][1]].len /\ sent[s[i][1]].len \in Nat
  PROVE  Framed(Drop(s, n), sent)
  <1> DEFINE t == Drop(s, n)
  <1>1. Len(s) \in Nat /\ Len(t) = Len(s) - n /\ \A i \in 1 .. Len(t) : t[i] = s[i + n]
    BY LenProperties, DropShape
  <1> HIDE DEF t
  <1> SUFFICES ASSUME NEW i \in 1 .. Len(t)
               PROVE  LET m == t[i][1]
                          rest == sent[m].len - t[i][2] IN
                      /\ \A d \in 0 .. rest : i + d <= Len(t) => t[i + d] = <<m, t[i][2] + d>>
                      /\ i + rest + 1 <= Len(t) => t[i + rest + 1] = <<m + 1, 0>>
    BY DEF Framed, t
  <1> DEFINE j == i + n
             m == s[j][1]
             rest == sent[m].len - s[j][2]
  <1>2. j \in 1 .. Len(s) /\ t[i] = s[j]
    BY <1>1
  <1>3. rest \in Nat
    BY <1>2
  <1>4. /\ \A d \in 0 .. rest : j + d <= Len(s) => s[j + d] = <<m, s[j][2] + d>>
        /\ j + rest + 1 <= Len(s) => s[j + rest + 1] = <<m + 1, 0>>
    BY <1>2 DEF Framed
  <1> HIDE DEF m, rest
  <1>5. \A d \in 0 .. rest : i + d <= Len(t) => t[i + d] = <<m, s[j][2] + d>>
    <2> TAKE d \in 0 .. rest
    <2> HAVE i + d <= Len(t)
    <2>1. d \in Nat /\ i + d \in 1 .. Len(t) /\ (i + d) + n = j + d /\ j + d <= Len(s)
      BY <1>1, <1>3
    <2>2. t[i + d] = s[j + d]
      BY <1>1, <2>1
    <2> QED
      BY <1>4, <2>1, <2>2
  <1>6. i + rest + 1 <= Len(t) => t[i + rest + 1] = <<m + 1, 0>>
    <2> HAVE i + rest + 1 <= Len(t)
    <2>1. i + rest + 1 \in 1 .. Len(t) /\ (i + rest + 1) + n = j + rest + 1
          /\ j + rest + 1 <= Len(s)
      BY <1>1, <1>3
    <2>2. t[i + rest + 1] = s[j + rest + 1]
      BY <1>1, <2>1
    <2> QED
      BY <1>4, <2>1, <2>2
  <1> QED
    BY <1>2, <1>5, <1>6 DEF m, rest

\* A message is appended behind whole messages: its length, or, behind its
\* length, its first n bytes.
LEMMA FramedSize ==
  ASSUME TypeOK, NEW m \in 1 .. Sent, Framed(up, requests),
         \A i \in 1 .. Len(up) :
           up[i][1] \in 1 .. Sent /\ up[i][2] \in 0 .. requests[up[i][1]].len,
         up # <<>> => After(up[Len(up)]) = <<m, 0>>
  PROVE  Framed(Append(up, <<m, 0>>), requests)
  <1> DEFINE t == Append(up, <<m, 0>>)
             k == Len(up)
  <1>1. k \in Nat /\ Len(t) = k + 1 /\ t[k + 1] = <<m, 0>>
        /\ \A i \in 1 .. k : t[i] = up[i]
    BY LenProperties, SMTT(30) DEF TypeOK
  <1>2. requests[m].len \in Nat /\ m \in Nat
    BY RequestShape, Counts
  <1> HIDE DEF t
  <1> SUFFICES ASSUME NEW i \in 1 .. k + 1
               PROVE  LET b == t[i][1]
                          rest == requests[b].len - t[i][2] IN
                      /\ \A d \in 0 .. rest : i + d <= Len(t) => t[i + d] = <<b, t[i][2] + d>>
                      /\ i + rest + 1 <= Len(t) => t[i + rest + 1] = <<b + 1, 0>>
    <2>1. 1 .. Len(t) = 1 .. k + 1
      BY <1>1
    <2>2. Framed(t, requests)
      BY <2>1, ZenonT(30) DEF Framed
    <2> QED
      BY <2>2, ZenonT(30) DEF t
  <1>3. CASE i = k + 1
    <2>1. t[i][1] = m /\ t[i][2] = 0
      BY <1>1, <1>3
    <2> HIDE DEF k
    <2> QED
      BY <1>1, <1>2, <1>3, <2>1
  <1>4. CASE i \in 1 .. k
    <2> DEFINE b == up[i][1]
               j == up[i][2]
               rest == requests[b].len - j
    <2>1. t[i] = up[i] /\ b \in 1 .. Sent /\ j \in 0 .. requests[b].len
      BY <1>1, <1>4
    <2>2. requests[b].len \in Nat
      BY <2>1, RequestShape, Counts
    <2>3. j \in Nat /\ rest \in Nat /\ b \in Nat /\ j + rest = requests[b].len
      <3>1. b \in Nat
        BY <2>1, Counts
      <3> QED
        BY <2>1, <2>2, <3>1
    <2>4. /\ \A d \in 0 .. rest : i + d <= k => up[i + d] = <<b, j + d>>
          /\ i + rest + 1 <= k => up[i + rest + 1] = <<b + 1, 0>>
      BY <1>4 DEF Framed
    <2>5. up # <<>> /\ After(up[k]) = <<m, 0>>
      BY <1>1, <1>4, Counts
    <2> HIDE DEF b, j, k, rest
    <2>6. ASSUME NEW d \in 0 .. rest, i + d <= k + 1
          PROVE  t[i + d] = <<b, j + d>>
      <3>1. CASE i + d <= k
        BY <1>1, <1>4, <2>3, <2>4, <3>1
      <3>2. CASE i + d = k + 1
        <4>1. d - 1 \in 0 .. rest /\ i + (d - 1) = k
          BY <1>1, <1>4, <2>3, <3>2
        <4>2. up[k] = <<b, j + (d - 1)>>
          BY <2>4, <4>1
        <4>3. j + (d - 1) < requests[b].len /\ j + (d - 1) + 1 # 0
          BY <2>2, <2>3, <4>1
        <4>4. After(up[k]) = <<b, j + (d - 1) + 1>>
          BY <4>2, <4>3 DEF After
        <4> QED
          BY <2>5, <4>3, <4>4
      <3> QED
        BY <1>1, <1>4, <2>3, <2>6, <3>1, <3>2
    <2>7. ASSUME i + rest + 1 <= k + 1
          PROVE  t[i + rest + 1] = <<b + 1, 0>>
      <3>1. CASE i + rest + 1 <= k
        BY <1>1, <1>4, <2>3, <2>4, <3>1
      <3>2. CASE i + rest + 1 = k + 1
        <4>1. rest \in 0 .. rest /\ i + rest = k
          BY <1>1, <1>4, <2>3, <3>2
        <4>2. up[k] = <<b, j + rest>>
          BY <2>4, <4>1
        <4>3. After(up[k]) = <<b + 1, 0>>
          BY <2>2, <2>3, <4>2 DEF After
        <4> QED
          BY <1>1, <2>5, <3>2, <4>3
      <3>3. i + rest + 1 <= k \/ i + rest + 1 = k + 1
        BY <1>1, <2>3, <2>7
      <3> QED
        BY <3>1, <3>2, <3>3
    <2> QED
      BY <1>1, <2>1, <2>6, <2>7 DEF b, j, k, rest
  <1> QED
    BY <1>1, <1>3, <1>4

\* What comes behind k.
LEMMA Behind ==
  ASSUME NEW k \in Nat, NEW i \in Nat, 1 <= i
  PROVE  ~(k + i <= k) /\ (k + i) - k = i
  OBVIOUS

LEMMA FramedBody ==
  ASSUME TypeOK, NEW m \in 1 .. Sent, NEW n \in 0 .. requests[m].len,
         Framed(up, requests),
         \A i \in 1 .. Len(up) :
           up[i][1] \in 1 .. Sent /\ up[i][2] \in 0 .. requests[up[i][1]].len,
         up # <<>> => After(up[Len(up)]) = <<m, 1>>
  PROVE  Framed(up \o Bytes(m, n), requests)
  <1> DEFINE t == up \o Bytes(m, n)
             k == Len(up)
             l == requests[m].len
  <1>1. l \in Nat /\ m \in Nat /\ n \in Nat /\ n <= l /\ k \in Nat
    BY RequestShape, Counts
  <1>2. /\ Len(t) = k + n
        /\ \A i \in 1 .. k : t[i] = up[i]
        /\ \A i \in 1 .. n : t[k + i] = <<m, i>>
    <2>1. up \in Seq(Nat \X Nat)
      BY FramingAssumption, SeqMonotonic DEF TypeOK
    <2>2. /\ Len(t) = k + Len(Bytes(m, n))
          /\ \A i \in 1 .. k + Len(Bytes(m, n)) :
               t[i] = IF i <= k THEN up[i] ELSE Bytes(m, n)[i - k]
      BY <1>1, <2>1, BytesShape, ConcatProperties
    <2>3. Len(Bytes(m, n)) = n /\ \A i \in 1 .. n : Bytes(m, n)[i] = <<m, i>>
      BY <1>1, BytesShape
    <2> HIDE DEF t, k
    <2>4. Len(t) = k + n /\ \A i \in 1 .. k : t[i] = up[i]
      BY <1>1, <2>2, <2>3
    <2>5. ASSUME NEW i \in 1 .. n PROVE t[k + i] = <<m, i>>
      <3>0. n \in Nat /\ k \in Nat
        BY <1>1
      <3>1. i \in Nat /\ 1 <= i /\ i <= n
        BY <3>0
      <3>2. k + i \in 1 .. k + n
        BY <3>0, <3>1
      <3>3. ~(k + i <= k) /\ (k + i) - k = i
        BY <3>0, <3>1, Behind
      <3> QED
        BY <2>2, <2>3, <3>2, <3>3
    <2> QED
      BY <2>4, <2>5
  <1> HIDE DEF t, l
  <1> SUFFICES ASSUME NEW i \in 1 .. k + n
               PROVE  LET b == t[i][1]
                          rest == requests[b].len - t[i][2] IN
                      /\ \A d \in 0 .. rest : i + d <= Len(t) => t[i + d] = <<b, t[i][2] + d>>
                      /\ i + rest + 1 <= Len(t) => t[i + rest + 1] = <<b + 1, 0>>
    <2>1. 1 .. Len(t) = 1 .. k + n
      BY <1>2
    <2>2. Framed(t, requests)
      BY <2>1, ZenonT(30) DEF Framed
    <2> QED
      BY <2>2, ZenonT(30) DEF t
  <1>3. CASE i > k
    <2>1. i - k \in 1 .. n /\ i = k + (i - k)
      BY <1>1, <1>3
    <2>2. t[i] = <<m, i - k>>
      BY <1>2, <2>1
    <2>3. \A d \in 0 .. l - (i - k) : i + d <= k + n => t[i + d] = <<m, (i - k) + d>>
      <3> TAKE d \in 0 .. l - (i - k)
      <3> HAVE i + d <= k + n
      <3>1. (i - k) + d \in 1 .. n /\ i + d = k + ((i - k) + d)
        BY <1>1, <2>1
      <3> QED
        BY <1>2, <3>1
    <2>4. ~(i + (l - (i - k)) + 1 <= k + n)
      BY <1>1, <2>1
    <2> QED
      BY <1>2, <2>2, <2>3, <2>4 DEF l
  <1>4. CASE i \in 1 .. k
    <2> DEFINE b == up[i][1]
               j == up[i][2]
               rest == requests[b].len - j
    <2>1. t[i] = up[i] /\ b \in 1 .. Sent /\ j \in 0 .. requests[b].len
      BY <1>2, <1>4
    <2>2. requests[b].len \in Nat
      BY <2>1, RequestShape, Counts
    <2>3. j \in Nat /\ rest \in Nat /\ b \in Nat /\ j + rest = requests[b].len
      <3>1. b \in Nat
        BY <2>1, Counts
      <3> QED
        BY <2>1, <2>2, <3>1
    <2>4. /\ \A d \in 0 .. rest : i + d <= k => up[i + d] = <<b, j + d>>
          /\ i + rest + 1 <= k => up[i + rest + 1] = <<b + 1, 0>>
      BY <1>4 DEF Framed
    <2>5. up # <<>> /\ After(up[k]) = <<m, 1>>
      BY <1>1, <1>4, Counts
    <2> HIDE DEF b, j, k, rest
    <2>6. CASE i + rest < k
      <3>1. ASSUME NEW d \in 0 .. rest
            PROVE  i + d \in 1 .. k /\ t[i + d] = up[i + d]
        <4>1. i \in Nat /\ 1 <= i /\ d \in Nat /\ d <= rest
          BY <1>4, <2>3
        <4>2. i + d \in 1 .. k
          BY <1>1, <2>3, <2>6, <4>1
        <4> QED
          BY <1>2, <4>2
      <3>2. i + rest + 1 \in 1 .. k /\ t[i + rest + 1] = up[i + rest + 1]
        BY <1>1, <1>2, <1>4, <2>3, <2>6
      <3>3. \A d \in 0 .. rest : t[i + d] = <<b, j + d>>
        BY <2>4, <3>1
      <3>4. t[i + rest + 1] = <<b + 1, 0>>
        BY <2>4, <3>2
      <3> QED
        BY <2>1, <3>3, <3>4 DEF b, j, rest
    <2>7. CASE i + rest >= k
      <3>1. k - i \in 0 .. rest /\ i + (k - i) = k
        BY <1>1, <1>4, <2>3, <2>7
      <3>2. up[k] = <<b, j + (k - i)>>
        BY <2>4, <3>1
      <3>3. After(up[k]) = IF j + (k - i) < requests[b].len
                           THEN <<b, j + (k - i) + 1>> ELSE <<b + 1, 0>>
        BY <3>2 DEF After
      <3>4. b = m /\ j + (k - i) + 1 = 1
        BY <2>5, <3>3
      <3>5. b = m /\ j = 0 /\ i = k
        BY <1>1, <1>4, <2>3, <3>1, <3>4
      <3>6. rest = l
        BY <2>3, <3>5 DEF l
      <3>7. \A d \in 0 .. rest : i + d <= k + n => t[i + d] = <<b, j + d>>
        <4> TAKE d \in 0 .. rest
        <4> HAVE i + d <= k + n
        <4>1. CASE d = 0
          <5>1. i + d = i /\ j + d = j
            BY <1>4, <2>3, <4>1
          <5>2. i + d <= k
            BY <1>1, <1>4, <5>1
          <5>3. up[i + d] = <<b, j + d>>
            BY <2>4, <5>2
          <5> QED
            BY <2>1, <5>1, <5>3
        <4>2. CASE d # 0
          <5>1. d \in 1 .. n
            BY <1>1, <2>3, <3>5, <4>2
          <5> QED
            BY <1>2, <3>5, <5>1
        <4> QED
          BY <4>1, <4>2
      <3>8. ~(i + rest + 1 <= k + n)
        BY <1>1, <3>5, <3>6
      <3> QED
        BY <1>2, <2>1, <3>7, <3>8 DEF b, j, rest
    <2> QED
      BY <1>1, <1>4, <2>3, <2>6, <2>7
  <1> QED
    BY <1>1, <1>3, <1>4

-----------------------------------------------------------------------------
(* What either end reads. *)

\* The thread reads a length where it expects one, of a request it has not read.
LEMMA ReadSize ==
  ASSUME IndInv, ReceiveSize
  PROVE  /\ Made < Sent /\ Head(up) = <<Made + 1, 0>> /\ up[1] = <<Made + 1, 0>>
         /\ requests[Made + 1].len \in 1 .. Half - 1
         /\ size' = requests[Made + 1].len
         /\ up' = Drop(up, 1) /\ Len(up) >= 1
  <1>1. TypeOK /\ UpInv /\ server = "size" /\ up # <<>> /\ up' = Tail(up)
    BY DEF IndInv, ReceiveSize, Closed
  <1>2. up[1] = <<Made + 1, 0>> /\ Head(up) = up[1] /\ Len(up) >= 1
    <2>1. up[1] = <<Made + 1, 0>>
      BY <1>1 DEF UpInv, ReadsNext
    <2>2. up \in Seq((1 .. MaxCalls) \X Nat)
      BY <1>1 DEF TypeOK
    <2>3. Head(up) = up[1]
      BY <1>1, <2>2
    <2> QED
      BY <1>1, <2>1, <2>3, Counts
  <1>3. 1 \in 1 .. Len(up) /\ Made + 1 \in 1 .. Sent
    <2>1. 1 \in 1 .. Len(up)
      BY <1>1, <1>2, Counts
    <2>2. up[1][1] \in 1 .. Sent
      BY <1>1, <2>1 DEF UpInv
    <2> QED
      BY <1>2, <2>1, <2>2
  <1>4. requests[Made + 1].len \in 1 .. Half - 1
    BY <1>1, <1>3, RequestShape
  <1>5. size' = requests[Made + 1].len
    <2>1. size' \in {Signed(n) : n \in LengthAt(Head(up), requests)}
      BY DEF ReceiveSize
    <2>2. LengthAt(Head(up), requests) = {requests[Made + 1].len % Full}
      BY <1>2 DEF LengthAt
    <2>3. requests[Made + 1].len % Full = requests[Made + 1].len
          /\ Signed(requests[Made + 1].len) = requests[Made + 1].len
      BY <1>4, Width
    <2> QED
      BY <2>1, <2>2, <2>3
  <1>6. Tail(up) = Drop(up, 1)
    BY <1>1, TailIsSubSeq DEF Drop, TypeOK
  <1> QED
    BY <1>1, <1>2, <1>3, <1>4, <1>5, <1>6, Counts

\* It then holds the request that follows, unless the stub ended in the middle.
LEMMA ReadBody ==
  ASSUME IndInv, ReceiveBody
  PROVE  \/ /\ Len(up) >= size /\ size \in 0 .. Len(up) /\ size = requests[Made + 1].len
            /\ Made < Sent
            /\ up' = Drop(up, size) /\ held' = Made + 1 /\ server' = "invoke"
            /\ Len(up) > size => up[size + 1] = <<Made + 2, 0>>
            /\ up[size] = <<Made + 1, size>> /\ size > 0
         \/ /\ Gone /\ Len(up) < size
            /\ up' = <<>> /\ held' = 0 /\ server' \in {"invoke", "closed"}
            /\ torn /\ caller = "dead"
  <1> DEFINE m == Made + 1
             k == Len(up)
  <1>1. TypeOK /\ UpInv /\ server = "body" /\ Made < Sent /\ size = requests[m].len
    BY DEF IndInv, HeldInv, ReceiveBody, Closed
  <1>2. m \in 1 .. Sent /\ k \in Nat
    BY <1>1, Counts
  <1>3. size \in 1 .. Half - 1 /\ size \in Nat /\ m \in Nat
    <2>1. requests[m].len \in 1 .. Half - 1
      BY <1>1, <1>2, RequestShape
    <2>2. m \in Nat
      BY <1>1, Counts
    <2> QED
      BY <1>1, <2>1, <2>2, Width
  <1>4. up \in Seq(Nat \X Nat)
    BY <1>1, FramingAssumption, SeqMonotonic DEF TypeOK
  <1>5. ReadsNext = <<m, 1>> /\ (up # <<>> => up[1] = <<m, 1>>)
    BY <1>1 DEF UpInv, ReadsNext
  <1>6. \A i \in 1 .. k : i <= size => up[i] = <<m, i>>
    <2> TAKE i \in 1 .. k
    <2> HAVE i <= size
    <2>1. 1 \in 1 .. k /\ up[1] = <<m, 1>>
      BY <1>1, <1>2, <1>5, Counts
    <2>2. \A d \in 0 .. size - 1 : 1 + d <= k => up[1 + d] = <<m, 1 + d>>
      <3>1. up[1][1] = m /\ up[1][2] = 1
        BY <2>1
      <3>2. requests[up[1][1]].len - up[1][2] = size - 1
        BY <1>1, <3>1
      <3>3. \A d \in 0 .. requests[up[1][1]].len - up[1][2] :
              1 + d <= Len(up) => up[1 + d] = <<up[1][1], up[1][2] + d>>
        BY <1>1, <2>1 DEF UpInv, Framed
      <3> QED
        BY <3>1, <3>2, <3>3
    <2>3. i - 1 \in 0 .. size - 1 /\ 1 + (i - 1) = i /\ i <= k
      BY <1>3
    <2> QED
      BY <2>2, <2>3
  <1>7. k > size => up[size + 1] = <<m + 1, 0>>
    <2> HAVE k > size
    <2>1. 1 \in 1 .. k /\ up[1] = <<m, 1>>
      BY <1>1, <1>2, <1>3, <1>5, Counts
    <2>2. 1 + (size - 1) + 1 <= k => up[1 + (size - 1) + 1] = <<m + 1, 0>>
      <3>1. requests[up[1][1]].len - up[1][2] = size - 1 /\ up[1][1] = m
        BY <1>1, <2>1
      <3> QED
        BY <1>1, <2>1, <3>1 DEF UpInv, Framed
    <2>3. 1 + (size - 1) + 1 = size + 1 /\ size + 1 <= k
      BY <1>2, <1>3
    <2> QED
      BY <2>2, <2>3
  <1> HIDE DEF m, k
  <1>8. CASE k >= size
    <2>1. size \in 0 .. k /\ ~(k < size)
      BY <1>2, <1>3, <1>8
    <2>2. Take(up, size) = Bytes(m, size)
      <3>1. /\ Take(up, size) \in Seq(Nat \X Nat) /\ Len(Take(up, size)) = size
            /\ \A i \in 1 .. size : Take(up, size)[i] = up[i]
        BY <1>4, <2>1, TakeShape DEF k
      <3>2. /\ Bytes(m, size) \in Seq(Nat \X Nat) /\ Len(Bytes(m, size)) = size
            /\ \A i \in 1 .. size : Bytes(m, size)[i] = <<m, i>>
        BY <1>3, BytesShape
      <3>3. \A i \in 1 .. size : Take(up, size)[i] = Bytes(m, size)[i]
        <4>1. \A i \in 1 .. size : i \in 1 .. k /\ i <= size
          BY <1>2, <1>3, <1>8
        <4> QED
          BY <1>6, <3>1, <3>2, <4>1
      <3> QED
        BY <3>1, <3>2, <3>3, SeqEqual
    <2>3. Whole(Take(up, size), requests) = m /\ m # 0
      BY <1>1, <1>2, <1>3, <2>2, WholeFrame
    <2>4. up' = Drop(up, size) /\ held' = m /\ server' = "invoke"
      BY <2>1, <2>3 DEF ReceiveBody, k
    <2>5. up[size] = <<m, size>>
      BY <1>2, <1>3, <1>6, <2>1
    <2>6. m + 1 = Made + 2
      BY <1>1, Counts DEF m
    <2> QED
      BY <1>1, <1>3, <1>7, <1>8, <2>1, <2>4, <2>5, <2>6 DEF m, k
  <1>9. CASE ~(k >= size)
    <2>1. k < size /\ k \in 0 .. k /\ Gone
      BY <1>2, <1>3, <1>9 DEF ReceiveBody, k
    <2>2. Take(up, k) = up /\ Drop(up, k) = <<>>
      <3>1. Len(Drop(up, k)) = k - k /\ Drop(up, k) \in Seq(Nat \X Nat)
        BY <1>4, <2>1, DropShape DEF k
      <3>2. Drop(up, k) = <<>>
        BY <1>2, <3>1, EmptySeq
      <3>3. /\ Take(up, k) \in Seq(Nat \X Nat) /\ Len(Take(up, k)) = k
            /\ \A i \in 1 .. k : Take(up, k)[i] = up[i]
        BY <1>4, <2>1, TakeShape DEF k
      <3> QED
        BY <1>4, <3>2, <3>3, SeqEqual DEF k
    <2>3. up # <<>> => k \in 1 .. k /\ 1 \in 1 .. k
      BY <1>1, <1>2, Counts DEF k
    <2>4. Whole(up, requests) = 0
      <3>1. up = <<>> \/ (up[1][1] = m /\ Len(up) # requests[m].len)
        BY <1>1, <1>2, <1>3, <1>5, <2>1 DEF k
      <3> QED
        BY <1>1, <1>3, <3>1, WholePart
    <2>5. up' = <<>> /\ held' = 0 /\ server' \in {"invoke", "closed"}
      BY <2>1, <2>2, <2>4 DEF ReceiveBody, k
    <2>6. up # <<>> => After(up[k])[2] # 0
      <3> HAVE up # <<>>
      <3>1. up[k] = <<m, k>>
        BY <1>2, <1>3, <1>6, <2>1, <2>3
      <3>2. After(up[k]) = <<m, k + 1>>
        BY <1>1, <2>1, <3>1 DEF After
      <3> QED
        BY <1>2, <3>2
    <2>7. torn /\ caller = "dead"
      BY <1>1, <1>5, <2>1, <2>6 DEF UpInv, Gone, WritesNext, k
    <2> QED
      BY <2>1, <2>5, <2>7 DEF k
  <1> QED
    BY <1>8, <1>9

\* What the stub reads as a length is one, and what it unpacks is an answer.
LEMMA ReadLength ==
  ASSUME IndInv, RecvSize
  PROVE  /\ len' \in 0 .. Full - 1
         /\ down' = Drop(down, 1) /\ Len(down) >= 1 /\ Head(down) = down[1]
  <1>1. TypeOK /\ down # <<>> /\ down' = Tail(down) /\ len' \in LengthAt(Head(down), replies)
        /\ down \in Seq(Nat \X Nat)
    BY DEF IndInv, RecvSize, TypeOK
  <1>2. Len(down) >= 1 /\ Head(down) = down[1]
    BY <1>1, Counts
  <1>3. down[1][1] \in 1 .. Made
    BY <1>1, <1>2, Counts DEF IndInv, CallInv
  <1>4. replies[down[1][1]].len \in Nat
    BY <1>1, <1>3, ReplyShape
  <1>5. len' \in 0 .. Full - 1
    BY <1>1, <1>2, <1>4, Width DEF LengthAt
  <1>6. Tail(down) = Drop(down, 1)
    BY <1>1, TailIsSubSeq DEF Drop
  <1> QED
    BY <1>1, <1>2, <1>5, <1>6

Answer == [to : Nat, res : {"ok", "error", "null"}]
Reply == [to : Nat, len : ReplyLens, res : {"ok", "error"}]

LEMMA ReadAnswer ==
  ASSUME IndInv, RecvBody
  PROVE  \E answer \in Answer :
           /\ answer \in Unpacked(Take(down, len))
           /\ Return(len, answer)
           /\ len \in 0 .. Len(down)
  <1> DEFINE s == Take(down, len)
  <1>1. TypeOK /\ down \in Seq(Nat \X Nat) /\ len \in 0 .. Full - 1 /\ Len(down) >= len
    BY DEF IndInv, RecvBody, TypeOK
  <1>2. len \in 0 .. Len(down)
    BY <1>1, Counts, Width
  <1>3. PICK answer \in Unpacked(s) : Return(len, answer)
    BY DEF RecvBody
  <1>4. Len(s) = len /\ \A i \in 1 .. len : s[i] = down[i]
    BY <1>1, <1>2, TakeShape
  <1>5. s # <<>> => s[1][1] \in 1 .. Made
    <2> HAVE s # <<>>
    <2>1. s \in Seq(Nat \X Nat)
      BY <1>1, <1>2, TakeShape
    <2>2. Len(s) \in Nat \ {0}
      BY <2>1, EmptySeq
    <2>3. 1 \in 1 .. len /\ 1 \in 1 .. Len(down)
      BY <1>2, <1>4, <2>2, <1>1, Counts
    <2>4. s[1] = down[1]
      BY <1>4, <2>3
    <2> QED
      BY <2>3, <2>4 DEF IndInv, CallInv
  <1>6. Whole(s, replies) \in 0 .. Made
    BY <1>1, <1>5, Counts DEF Whole
  <1>7. Unpacked(s) \subseteq Answer
    <2>1. CASE Whole(s, replies) = 0
      BY <2>1 DEF Unpacked, Answer
    <2>2. CASE Whole(s, replies) \in 1 .. Made
      BY <1>1, <2>2, ReplyShape, Counts DEF Unpacked, Answer
    <2> QED
      BY <1>1, <1>6, <2>1, <2>2, Counts
  <1> QED
    BY <1>2, <1>3, <1>7

-----------------------------------------------------------------------------
(* The invariant holds at first, and every step keeps it. *)

LEMMA InitInd == Init => IndInv
  <1> SUFFICES ASSUME Init PROVE IndInv
    OBVIOUS
  <1>1. Len(requests) = 0 /\ Len(replies) = 0 /\ Len(up) = 0 /\ Len(down) = 0 /\ Len(returned) = 0
    BY DEF Init
  <1>2. TypeOK
    <2>1. 0 \in 0 .. Full - 1 /\ 0 \in 0 .. Half - 1 /\ 0 \in 0 .. Len(requests)
      BY <1>1, Width
    <2>2. /\ requests \in Seq([op : Op, len : RequestLens])
          /\ replies \in Seq([to : Nat, len : ReplyLens, res : {"ok", "error"}])
          /\ returned \in Seq([to : Nat, res : {"ok", "error", "null"}])
          /\ up \in Seq((1 .. MaxCalls) \X Nat) /\ down \in Seq(Nat \X Nat)
      BY EmptySeq DEF Init
    <2> QED
      BY <2>1, <2>2 DEF Init, TypeOK
  <1>3. UpInv
    BY <1>1 DEF Init, UpInv, Framed, ReadsNext, WritesNext, Sent, Made
  <1>4. HeldInv /\ DownInv /\ ReturnInv
    BY <1>1 DEF Init, HeldInv, DownInv, ReturnInv, Sent, Made
  <1> QED
    BY <1>1, <1>2, <1>3, <1>4, FramingAssumption DEF IndInv, CallInv, Init, Sent, Made

LEMMA StepTypes == IndInv /\ [Next]_vars => TypeOK'
  <1> SUFFICES ASSUME IndInv, [Next]_vars PROVE TypeOK'
    OBVIOUS
  <1>1. TypeOK
    BY DEF IndInv
  <1> USE DEF stubVars, serverVars
  <1>2. CASE UNCHANGED vars \/ Sleep
    BY <1>1, <1>2 DEF TypeOK, vars, Sleep
  <1>3. CASE Call
    <2>1. PICK op \in Op, n \in RequestLens : requests' = Append(requests, [op |-> op, len |-> n])
      BY <1>3 DEF Call
    <2>2. requests' \in Seq([op : Op, len : RequestLens]) /\ Len(requests') = Len(requests) + 1
      BY <1>1, <2>1 DEF TypeOK
    <2>3. held \in 0 .. Len(requests')
      BY <1>1, <2>2, Counts DEF TypeOK, Sent
    <2> QED
      BY <1>1, <1>3, <2>2, <2>3 DEF Call, TypeOK
  <1>4. CASE Disconnect \/ CallFails
    BY <1>1, <1>4 DEF Disconnect, CallFails, TypeOK
  <1>5. CASE SendSize
    <2>1. <<Sent, 0>> \in (1 .. MaxCalls) \X Nat
      BY <1>1, <1>5, FramingAssumption, Counts DEF IndInv, CallInv, SendSize
    <2>2. up' \in Seq((1 .. MaxCalls) \X Nat)
      BY <1>1, <1>5, <2>1 DEF SendSize, TypeOK, Sent
    <2> QED
      BY <1>1, <1>5, <2>2 DEF SendSize, TypeOK
  <1>6. ASSUME NEW n \in Nat, 0 < Sent
        PROVE  up \o Bytes(Sent, n) \in Seq((1 .. MaxCalls) \X Nat)
    <2>1. Bytes(Sent, n) \in [1 .. n -> (1 .. MaxCalls) \X Nat]
      BY <1>1, <1>6, FramingAssumption, Counts DEF Bytes, IndInv, CallInv
    <2>2. Bytes(Sent, n) \in Seq((1 .. MaxCalls) \X Nat)
      BY <2>1, SeqDef
    <2> QED
      BY <1>1, <2>2, ConcatProperties DEF TypeOK
  <1>7. CASE SendBody
    <2>1. 0 < Sent
      BY <1>7 DEF IndInv, CallInv, SendBody
    <2>2. Last.len \in Nat
      BY <1>1, <2>1, RequestShape, Counts DEF Last, Sent
    <2>3. up' \in Seq((1 .. MaxCalls) \X Nat)
      BY <1>6, <1>7, <2>1, <2>2 DEF SendBody, Sent
    <2> QED
      BY <1>1, <1>7, <2>3 DEF SendBody, TypeOK
  <1>8. CASE RecvSize
    <2>1. len' \in 0 .. Full - 1
      BY <1>8, ReadLength
    <2>2. down' \in Seq(Nat \X Nat)
      BY <1>1, <1>8 DEF RecvSize, TypeOK
    <2> QED
      BY <1>1, <1>8, <2>1, <2>2 DEF RecvSize, TypeOK
  <1>9. CASE RecvBody
    <2>1. PICK answer \in Answer : Return(len, answer) /\ len \in 0 .. Len(down)
      BY <1>9, ReadAnswer
    <2>2. down' \in Seq(Nat \X Nat)
      BY <1>1, <2>1, DropShape DEF Return, TypeOK
    <2>3. returned' \in Seq(Answer) /\ caller' \in {"idle", "dead"}
      <3>1. returned \in Seq(Answer)
        BY <1>1 DEF TypeOK, Answer
      <3>2. CASE Survives(Last.op, answer.res)
        BY <2>1, <3>1, <3>2, AppendProperties DEF Return
      <3>3. CASE ~Survives(Last.op, answer.res)
        BY <2>1, <3>1, <3>3 DEF Return
      <3> QED
        BY <3>2, <3>3
    <2> QED
      BY <1>1, <2>1, <2>2, <2>3 DEF Return, TypeOK, Answer
  <1>10. CASE CallerStops
    <2>1. up' \in Seq((1 .. MaxCalls) \X Nat) /\ torn' \in BOOLEAN
      <3>1. CASE caller = "send_body" /\ ~Closed
        <4>1. 0 < Sent
          BY <3>1 DEF IndInv, CallInv
        <4>2. Last.len \in Nat
          BY <1>1, <4>1, RequestShape, Counts DEF Last, Sent
        <4>3. PICK n \in 0 .. Last.len - 1 : up' = up \o Bytes(Sent, n)
          BY <1>10, <3>1 DEF CallerStops, Sent
        <4>4. n \in Nat
          BY <4>2
        <4> QED
          BY <1>6, <1>10, <3>1, <4>1, <4>3, <4>4 DEF CallerStops
      <3>2. CASE ~(caller = "send_body" /\ ~Closed)
        BY <1>1, <1>10, <3>2 DEF CallerStops, TypeOK
      <3> QED
        BY <3>1, <3>2
    <2> QED
      BY <1>1, <1>10, <2>1 DEF CallerStops, TypeOK
  <1>11. CASE ReceiveSize
    <2>1. size' \in 0 .. Half - 1
      <3>1. size' \in 1 .. Half - 1
        BY <1>11, ReadSize
      <3> QED
        BY <3>1, Width
    <2>2. up' \in Seq((1 .. MaxCalls) \X Nat)
      BY <1>1, <1>11 DEF ReceiveSize, TypeOK
    <2> QED
      BY <1>1, <1>11, <2>1, <2>2 DEF ReceiveSize, ServerUnchanged, TypeOK
  <1>12. CASE ReceiveBody
    <2>1. held' \in 0 .. Sent /\ server' \in {"invoke", "closed"}
          /\ up' \in Seq((1 .. MaxCalls) \X Nat)
      <3>1. CASE size \in 0 .. Len(up) /\ up' = Drop(up, size) /\ Made < Sent
                 /\ held' = Made + 1 /\ server' = "invoke"
        <4>1. up' \in Seq((1 .. MaxCalls) \X Nat)
          BY <1>1, <3>1, DropShape DEF TypeOK
        <4> QED
          BY <1>1, <3>1, <4>1, Counts
      <3>2. CASE up' = <<>> /\ held' = 0 /\ server' \in {"invoke", "closed"}
        BY <1>1, <3>2, Counts, EmptySeq
      <3> QED
        BY <1>12, <3>1, <3>2, ReadBody
    <2> QED
      BY <1>1, <1>12, <2>1 DEF ReceiveBody, ServerUnchanged, TypeOK, Sent
  <1>13. CASE ReceiveEnd
    BY <1>1, <1>13 DEF ReceiveEnd, ServerUnchanged, TypeOK
  <1>14. CASE Invoke
    <2>1. PICK n \in ReplyLens, res \in {"ok", "error"} :
            replies' = Append(replies, [to |-> held, len |-> n, res |-> res])
      BY <1>14 DEF Invoke
    <2>2. held \in Nat
      BY <1>1, Counts DEF TypeOK, Sent
    <2>3. replies' \in Seq([to : Nat, len : ReplyLens, res : {"ok", "error"}])
      BY <1>1, <2>1, <2>2 DEF TypeOK
    <2> QED
      BY <1>1, <1>14, <2>3 DEF Invoke, TypeOK
  <1>15. ASSUME NEW n \in Nat
         PROVE  down \o Bytes(Made, n) \in Seq(Nat \X Nat)
    BY <1>1, BytesShape, ConcatProperties, Counts DEF TypeOK
  <1>16. CASE ReplySize
    <2>1. down' \in Seq(Nat \X Nat)
      BY <1>1, <1>16, Counts DEF ReplySize, TypeOK, Made
    <2> QED
      BY <1>1, <1>16, <2>1 DEF ReplySize, ServerUnchanged, TypeOK
  <1>17. CASE ReplyBody
    <2>1. Made \in 1 .. Made
      BY <1>1, <1>17, Counts DEF IndInv, HeldInv, ReplyBody
    <2>2. replies[Made].len \in Nat
      BY <1>1, <2>1, ReplyShape
    <2>3. down' \in Seq(Nat \X Nat)
      BY <1>15, <1>17, <2>2 DEF ReplyBody, Made
    <2> QED
      BY <1>1, <1>17, <2>3 DEF ReplyBody, ServerUnchanged, TypeOK
  <1>18. CASE ServerStops
    <2>1. down' \in Seq(Nat \X Nat)
      <3>1. CASE server = "send_body"
        <4>1. Made \in 1 .. Made
          BY <1>1, <3>1, Counts DEF IndInv, HeldInv
        <4>2. replies[Made].len \in Nat
          BY <1>1, <4>1, ReplyShape
        <4>3. PICK n \in 0 .. replies[Made].len - 1 : down' = down \o Bytes(Made, n)
          BY <1>18, <3>1 DEF ServerStops, Made
        <4>4. n \in Nat
          BY <4>2
        <4> QED
          BY <1>15, <4>3, <4>4
      <3>2. CASE server # "send_body"
        BY <1>1, <1>18, <3>2 DEF ServerStops, TypeOK
      <3> QED
        BY <3>1, <3>2
    <2> QED
      BY <1>1, <1>18, <2>1 DEF ServerStops, ServerUnchanged, TypeOK
  <1> QED
    BY <1>2, <1>3, <1>4, <1>5, <1>7, <1>8, <1>9, <1>10, <1>11, <1>12, <1>13, <1>14,
       <1>16, <1>17, <1>18 DEF Next, Stub, Server

LEMMA StepCalls == IndInv /\ [Next]_vars => CallInv'
  <1> SUFFICES ASSUME IndInv, [Next]_vars PROVE CallInv'
    OBVIOUS
  <1>1. TypeOK /\ CallInv /\ HeldInv /\ down \in Seq(Nat \X Nat) /\ Made \in Nat /\ Sent \in Nat
    BY Counts DEF IndInv, TypeOK
  <1> USE DEF stubVars, serverVars
  <1>2. ASSUME NEW n \in 0 .. Len(down), down' = Drop(down, n), Made' = Made
        PROVE  \A i \in 1 .. Len(down') : down'[i][1] \in 1 .. Made'
    <2>1. /\ Len(down') = Len(down) - n /\ Len(down) \in Nat
          /\ \A i \in 1 .. Len(down) - n : down'[i] = down[i + n]
      BY <1>1, <1>2, DropShape, Counts
    <2>2. \A i \in 1 .. Len(down) - n : i + n \in 1 .. Len(down)
      BY <2>1
    <2> QED
      BY <1>1, <1>2, <2>1, <2>2 DEF CallInv
  <1>3. ASSUME NEW n \in Nat, down' = down \o Bytes(Made, n), Made > 0, Made' = Made
        PROVE  \A i \in 1 .. Len(down') : down'[i][1] \in 1 .. Made'
    <2>0. /\ Len(Bytes(Made, n)) = n /\ Bytes(Made, n) \in Seq(Nat \X Nat)
          /\ \A i \in 1 .. n : Bytes(Made, n)[i] = <<Made, i>>
      BY <1>1, BytesShape
    <2>1. \A i \in 1 .. n : Bytes(Made, n)[i][1] = Made
      BY <2>0
    <2>2. /\ Len(down') = Len(down) + n /\ Len(down) \in Nat
          /\ \A i \in 1 .. Len(down) + n :
               down'[i] = IF i <= Len(down) THEN down[i] ELSE Bytes(Made, n)[i - Len(down)]
      <3>1. Len(down) \in Nat
        BY <1>1, Counts
      <3>2. /\ Len(down \o Bytes(Made, n)) = Len(down) + Len(Bytes(Made, n))
            /\ \A i \in 1 .. Len(down) + Len(Bytes(Made, n)) :
                 (down \o Bytes(Made, n))[i] =
                   IF i <= Len(down) THEN down[i] ELSE Bytes(Made, n)[i - Len(down)]
        BY <1>1, <2>0, ConcatProperties
      <3> QED
        BY <1>3, <2>0, <3>1, <3>2
    <2> TAKE i \in 1 .. Len(down')
    <2>3. CASE i <= Len(down)
      BY <1>1, <1>3, <2>2, <2>3 DEF CallInv
    <2>4. CASE ~(i <= Len(down))
      <3>1. i - Len(down) \in 1 .. n /\ i \in 1 .. Len(down) + n
        BY <2>2, <2>4
      <3>2. down'[i][1] = Made
        BY <2>1, <2>2, <2>4, <3>1
      <3> QED
        BY <1>1, <1>3, <3>2
    <2> QED
      BY <2>3, <2>4
  <1>4. CASE UNCHANGED vars \/ Sleep
    BY <1>1, <1>4 DEF vars, Sleep, CallInv, Sent, Made
  <1>5. CASE Call
    <2>1. Sent' = Sent + 1 /\ Made' = Made
      <3>1. PICK op \in Op, n \in RequestLens : requests' = Append(requests, [op |-> op, len |-> n])
        BY <1>5 DEF Call
      <3> QED
        BY <1>1, <1>5, <3>1 DEF Call, Sent, Made, TypeOK
    <2> QED
      BY <1>1, <1>5, <2>1, FramingAssumption DEF Call, CallInv, Sent
  <1>6. CASE Disconnect \/ SendSize \/ SendBody \/ CallFails \/ ReceiveSize \/ ReceiveEnd
             \/ ReceiveBody
    BY <1>1, <1>6 DEF Disconnect, SendSize, SendBody, CallFails, ReceiveSize, ReceiveEnd,
       ReceiveBody, ServerUnchanged, CallInv, Sent, Made
  <1>7. CASE RecvSize
    <2>1. \A i \in 1 .. Len(down') : down'[i][1] \in 1 .. Made'
      <3>1. 1 \in 0 .. Len(down) /\ down' = Drop(down, 1) /\ Made' = Made
        BY <1>1, <1>7, ReadLength, Counts DEF RecvSize, Made
      <3> QED
        BY <1>2, <3>1
    <2> QED
      BY <1>1, <1>7, <2>1 DEF RecvSize, CallInv, Sent
  <1>8. CASE RecvBody
    <2>1. PICK answer \in Answer : Return(len, answer) /\ len \in 0 .. Len(down)
      BY <1>8, ReadAnswer
    <2>2. \A i \in 1 .. Len(down') : down'[i][1] \in 1 .. Made'
      BY <1>2, <2>1 DEF Return, Made
    <2> QED
      BY <1>1, <1>8, <2>1, <2>2 DEF Return, CallInv, Sent, RecvBody
  <1>9. CASE CallerStops
    BY <1>1, <1>9 DEF CallerStops, CallInv, Sent, Made, Gone
  <1>10. CASE Invoke
    <2>1. Made' = Made + 1 /\ Sent' = Sent
      BY <1>1, <1>10 DEF Invoke, Sent, Made, TypeOK
    <2> QED
      BY <1>1, <1>10, <2>1 DEF Invoke, CallInv
  <1>11. CASE ReplySize
    <2>1. Made > 0 /\ Made' = Made /\ Sent' = Sent
      BY <1>1, <1>11 DEF HeldInv, ReplySize, ServerUnchanged, Made, Sent
    <2>2. /\ Len(down') = Len(down) + 1 /\ down'[Len(down) + 1] = <<Made, 0>>
          /\ \A i \in 1 .. Len(down) : down'[i] = down[i]
      BY <1>1, <1>11 DEF ReplySize, Made
    <2>3. \A i \in 1 .. Len(down') : down'[i][1] \in 1 .. Made'
      <3> TAKE i \in 1 .. Len(down')
      <3>1. Len(down) \in Nat
        BY <1>1, Counts
      <3>2. CASE i \in 1 .. Len(down)
        BY <1>1, <2>1, <2>2, <3>2 DEF CallInv
      <3>3. CASE i = Len(down) + 1
        BY <1>1, <2>1, <2>2, <3>3
      <3> QED
        BY <2>2, <3>1, <3>2, <3>3
    <2> QED
      BY <1>1, <1>11, <2>1, <2>3 DEF ReplySize, ServerUnchanged, CallInv
  <1>12. CASE ReplyBody \/ ServerStops
    <2>1. Made' = Made /\ Sent' = Sent
      BY <1>12 DEF ReplyBody, ServerStops, ServerUnchanged, Made, Sent
    <2>2. \A i \in 1 .. Len(down') : down'[i][1] \in 1 .. Made'
      <3>1. CASE server = "send_body"
        <4>1. Made > 0
          BY <1>1, <3>1 DEF HeldInv
        <4>2. replies[Made].len \in Nat
          BY <1>1, <4>1, ReplyShape
        <4>3. PICK n \in 0 .. replies[Made].len : down' = down \o Bytes(Made, n)
          <5>1. CASE ReplyBody
            <6>1. replies[Made].len \in 0 .. replies[Made].len
              BY <4>2
            <6>2. down' = down \o Bytes(Made, replies[Made].len)
              BY <5>1 DEF ReplyBody, Made
            <6> QED
              BY <6>1, <6>2
          <5>2. CASE ServerStops
            <6>1. PICK n \in 0 .. replies[Made].len - 1 : down' = down \o Bytes(Made, n)
              BY <3>1, <5>2 DEF ServerStops, Made
            <6>2. n \in 0 .. replies[Made].len
              BY <4>2
            <6> QED
              BY <6>1, <6>2
          <5> QED
            BY <1>12, <5>1, <5>2
        <4>4. n \in Nat
          BY <4>2
        <4> QED
          BY <1>3, <2>1, <4>1, <4>3, <4>4
      <3>2. CASE server # "send_body"
        BY <1>1, <1>12, <2>1, <3>2 DEF ReplyBody, ServerStops, CallInv
      <3> QED
        BY <3>1, <3>2
    <2> QED
      BY <1>1, <1>12, <2>1, <2>2 DEF ReplyBody, ServerStops, ServerUnchanged, CallInv
  <1> QED
    BY <1>4, <1>5, <1>6, <1>7, <1>8, <1>9, <1>10, <1>11, <1>12 DEF Next, Stub, Server

LEMMA StepUp == IndInv /\ [Next]_vars /\ ~Closed' => UpInv'
  <1> SUFFICES ASSUME IndInv, [Next]_vars, ~Closed' PROVE UpInv'
    OBVIOUS
  <1>1. TypeOK /\ CallInv /\ HeldInv /\ Made \in Nat /\ Sent \in Nat /\ Len(up) \in Nat
        /\ up \in Seq(Nat \X Nat)
    <2>1. up \in Seq(Nat \X Nat)
      BY FramingAssumption, SeqMonotonic DEF IndInv, TypeOK
    <2> QED
      BY <2>1, Counts DEF IndInv
  <1> USE DEF stubVars, serverVars
  <1>2. ~Closed
    BY DEF Next, vars, Call, Disconnect, Stub, SendSize, SendBody, RecvSize, RecvBody, Return,
       CallFails, CallerStops, Server, ReceiveSize, ReceiveEnd, ReceiveBody, Invoke, ReplySize,
       ReplyBody, Sleep, ServerStops, ServerUnchanged, Closed
  <1>3. UpInv
    BY <1>2 DEF IndInv
  <1>4. ASSUME UNCHANGED <<up, requests, ReadsNext>>, torn \in BOOLEAN,
               torn => torn',
               caller' # "dead" => caller # "dead" /\ WritesNext' = WritesNext,
               caller' = "dead" /\ ~torn' => caller = "dead" \/ WritesNext[2] = 0
        PROVE  UpInv'
    <2>1. Framed(up, requests)' <=> Framed(up, requests)
      BY <1>4 DEF Framed
    <2> DEFINE end == IF up = <<>> THEN ReadsNext ELSE After(up[Len(up)])
    <2>2. end' = end
      BY <1>4 DEF After
    <2>3. (\A i \in 1 .. Len(up) :
             up[i][1] \in 1 .. Sent /\ up[i][2] \in 0 .. requests[up[i][1]].len)'
      BY <1>3, <1>4 DEF UpInv, Sent
    <2>4. /\ caller # "dead" => end = WritesNext
          /\ caller = "dead" /\ ~torn => end[2] = 0
          /\ up # <<>> => up[1] = ReadsNext
          /\ Framed(up, requests)
      BY <1>3 DEF UpInv
    <2> HIDE DEF end
    <2>5. /\ caller' # "dead" => end' = WritesNext'
          /\ caller' = "dead" /\ ~torn' => end'[2] = 0
          /\ up' # <<>> => up'[1] = ReadsNext'
      BY <1>4, <2>2, <2>4
    <2> QED
      BY <2>1, <2>3, <2>4, <2>5 DEF UpInv, end
  <1>5. torn \in BOOLEAN
    BY <1>1 DEF TypeOK
  <1>6. CASE UNCHANGED vars \/ Sleep \/ RecvSize \/ ReplySize \/ ReplyBody \/ Disconnect \/ RecvBody
    <2>1. UNCHANGED <<up, requests, replies, torn>>
      BY <1>6 DEF vars, Sleep, RecvSize, ReplySize, ReplyBody, Disconnect, RecvBody, Return,
         ServerUnchanged
    <2>2. UNCHANGED ReadsNext
      BY <1>6, <2>1 DEF vars, Sleep, RecvSize, ReplySize, ReplyBody, Disconnect, RecvBody, Return,
         ServerUnchanged, ReadsNext, Made
    <2>3. /\ caller' # "dead" => caller # "dead" /\ WritesNext' = WritesNext
          /\ caller' = "dead" => caller = "dead" \/ WritesNext[2] = 0
      BY <1>6, <2>1 DEF vars, Sleep, RecvSize, ReplySize, ReplyBody, Disconnect, RecvBody, Return,
         ServerUnchanged, WritesNext, Sent
    <2> QED
      BY <1>4, <1>5, <2>1, <2>2, <2>3
  <1>7. CASE Call
    <2>1. PICK op \in Op, n \in RequestLens : requests' = Append(requests, [op |-> op, len |-> n])
      BY <1>7 DEF Call
    <2>2. /\ Sent' = Sent + 1 /\ \A i \in 1 .. Sent : requests'[i] = requests[i]
          /\ UNCHANGED <<up, replies, server, torn>> /\ caller = "idle" /\ caller' = "send_size"
      BY <1>1, <1>7, <2>1 DEF Call, TypeOK, Sent
    <2>3. ReadsNext' = ReadsNext /\ WritesNext' = WritesNext
      BY <2>2 DEF ReadsNext, WritesNext, Made
    <2>4. \A i \in 1 .. Len(up) : up[i][1] \in 1 .. Sent /\ requests'[up[i][1]] = requests[up[i][1]]
      BY <1>3, <2>2 DEF UpInv
    <2>5. Framed(up, requests)'
      BY <1>3, <2>2, <2>4 DEF UpInv, Framed
    <2>6. (\A i \in 1 .. Len(up) :
             up[i][1] \in 1 .. Sent /\ up[i][2] \in 0 .. requests[up[i][1]].len)'
      <3> SUFFICES ASSUME NEW i \in 1 .. Len(up)
                   PROVE  up[i][1] \in 1 .. Sent' /\ up[i][2] \in 0 .. requests'[up[i][1]].len
        BY <2>2
      <3>1. up[i][1] \in 1 .. Sent /\ up[i][2] \in 0 .. requests[up[i][1]].len
        BY <1>3 DEF UpInv
      <3> QED
        BY <1>1, <2>2, <2>4, <3>1
    <2>7. up # <<>> => Len(up) \in 1 .. Len(up)
      BY <1>1, Counts
    <2>8. up # <<>> => After(up[Len(up)])' = After(up[Len(up)])
      BY <2>2, <2>4, <2>7 DEF After
    <2> QED
      BY <1>3, <2>2, <2>3, <2>5, <2>6, <2>8 DEF UpInv
  <1>8. CASE SendSize
    <2>1. /\ caller = "send_size" /\ caller' = "send_body" /\ up' = Append(up, <<Sent, 0>>)
          /\ UNCHANGED <<requests, replies, server, torn>> /\ Sent \in 1 .. Sent
      BY <1>1, <1>8 DEF SendSize, CallInv, Sent
    <2>2. UNCHANGED <<Sent, Made, ReadsNext>>
      BY <2>1 DEF ReadsNext, Sent, Made
    <2>3. /\ up # <<>> => After(up[Len(up)]) = <<Sent, 0>> /\ up[1] = ReadsNext
          /\ up = <<>> => ReadsNext = <<Sent, 0>>
      BY <1>3, <2>1 DEF UpInv, WritesNext
    <2>4. /\ Len(up') = Len(up) + 1 /\ up' # <<>> /\ up'[Len(up) + 1] = <<Sent, 0>>
          /\ \A i \in 1 .. Len(up) : up'[i] = up[i]
      BY <1>1, <2>1, AppendProperties
    <2>5. requests[Sent].len \in Nat /\ 0 < requests[Sent].len
      BY <1>1, <2>1, RequestShape
    <2>6. Framed(up, requests)'
      <3>1. Framed(Append(up, <<Sent, 0>>), requests)
        BY <1>1, <1>3, <2>1, <2>3, FramedSize DEF UpInv
      <3> QED
        BY <2>1, <3>1
    <2>7. \A i \in 1 .. Len(up') :
            up'[i][1] \in 1 .. Sent' /\ up'[i][2] \in 0 .. requests'[up'[i][1]].len
      <3> TAKE i \in 1 .. Len(up')
      <3>1. CASE i \in 1 .. Len(up)
        BY <1>3, <2>1, <2>2, <2>4, <3>1 DEF UpInv
      <3>2. CASE i = Len(up) + 1
        BY <2>1, <2>2, <2>4, <2>5, <3>2
      <3> QED
        BY <1>1, <2>4, <3>1, <3>2
    <2>8. up'[1] = ReadsNext'
      <3>1. CASE up = <<>>
        BY <1>1, <2>2, <2>3, <2>4, <3>1, Counts
      <3>2. CASE up # <<>>
        BY <1>1, <2>2, <2>3, <2>4, <3>2, Counts
      <3> QED
        BY <3>1, <3>2
    <2>9. After(up[Len(up)])' = <<Sent', 1>> /\ WritesNext' = <<Sent', 1>>
      BY <2>1, <2>2, <2>4, <2>5 DEF After, WritesNext
    <2> QED
      BY <2>1, <2>4, <2>6, <2>7, <2>8, <2>9 DEF UpInv
  <1>9. ASSUME NEW n \in 0 .. requests[Sent].len, caller = "send_body",
               up' = up \o Bytes(Sent, n), UNCHANGED <<requests, replies, server>>,
               \/ caller' = "dead" /\ torn'
               \/ caller' = "recv_size" /\ n = requests[Sent].len
        PROVE  UpInv'
    <2>1. UNCHANGED <<Sent, Made, ReadsNext>>
      BY <1>9 DEF ReadsNext, Sent, Made
    <2>2. Sent \in 1 .. Sent
      BY <1>1, <1>9 DEF CallInv
    <2>3. requests[Sent].len \in Nat /\ 0 < requests[Sent].len /\ n \in Nat
      <3>1. requests[Sent].len \in Nat /\ 0 < requests[Sent].len
        BY <1>1, <2>2, RequestShape
      <3> QED
        BY <3>1
    <2>4. /\ up # <<>> => After(up[Len(up)]) = <<Sent, 1>> /\ up[1] = ReadsNext
          /\ up = <<>> => ReadsNext = <<Sent, 1>>
      BY <1>3, <1>9 DEF UpInv, WritesNext
    <2>5. Framed(up, requests)'
      <3>1. Framed(up \o Bytes(Sent, n), requests)
        BY <1>1, <1>3, <1>9, <2>2, <2>4, FramedBody DEF UpInv
      <3> QED
        BY <1>9, <3>1
    <2>6. /\ Bytes(Sent, n) \in Seq(Nat \X Nat) /\ Len(Bytes(Sent, n)) = n
          /\ \A i \in 1 .. n : Bytes(Sent, n)[i] = <<Sent, i>>
      BY <1>1, <2>3, BytesShape
    <2>7. /\ Len(up \o Bytes(Sent, n)) = Len(up) + Len(Bytes(Sent, n))
          /\ \A i \in 1 .. Len(up) + Len(Bytes(Sent, n)) :
               (up \o Bytes(Sent, n))[i] =
                 IF i <= Len(up) THEN up[i] ELSE Bytes(Sent, n)[i - Len(up)]
          /\ up \o Bytes(Sent, n) \in Seq(Nat \X Nat)
      BY <1>1, <2>6, ConcatProperties
    <2>8. /\ Len(up') = Len(up) + n
          /\ \A i \in 1 .. Len(up) : up'[i] = up[i]
          /\ \A i \in 1 .. Len(up) + n : i > Len(up) => up'[i] = <<Sent, i - Len(up)>>
      <3>1. Len(up') = Len(up) + n
        BY <1>9, <2>6, <2>7
      <3>2. \A i \in 1 .. Len(up) : i \in 1 .. Len(up) + n /\ i <= Len(up)
        BY <1>1, <2>3
      <3>3. \A i \in 1 .. Len(up) + n : i > Len(up) => i - Len(up) \in 1 .. n /\ ~(i <= Len(up))
        BY <1>1, <2>3
      <3>4. \A i \in 1 .. Len(up) : up'[i] = up[i]
        BY <1>9, <2>6, <2>7, <3>2
      <3>5. \A i \in 1 .. Len(up) + n : i > Len(up) => up'[i] = <<Sent, i - Len(up)>>
        BY <1>9, <2>6, <2>7, <3>3
      <3> QED
        BY <3>1, <3>4, <3>5
    <2>9. \A i \in 1 .. Len(up') :
            up'[i][1] \in 1 .. Sent' /\ up'[i][2] \in 0 .. requests'[up'[i][1]].len
      <3> TAKE i \in 1 .. Len(up')
      <3>1. CASE i \in 1 .. Len(up)
        BY <1>3, <1>9, <2>1, <2>8, <3>1 DEF UpInv
      <3>2. CASE i > Len(up)
        <4>1. up'[i] = <<Sent, i - Len(up)>> /\ i - Len(up) \in 0 .. requests[Sent].len
          BY <1>1, <2>3, <2>8, <3>2
        <4> QED
          BY <1>9, <2>1, <2>2, <4>1
      <3> QED
        BY <1>1, <2>8, <3>1, <3>2
    <2>10. up' = <<>> <=> Len(up') = 0
      BY <1>9, <2>7, EmptySeq
    <2>11. up' # <<>> => up'[1] = ReadsNext'
      <3> HAVE up' # <<>>
      <3>1. CASE up = <<>>
        <4>1. Len(up) = 0 /\ 1 \in 1 .. Len(up) + n /\ 1 > Len(up) /\ 1 - Len(up) = 1
          BY <1>1, <2>3, <2>8, <2>10, <3>1, Counts
        <4> QED
          BY <2>1, <2>4, <2>8, <3>1, <4>1
      <3>2. CASE up # <<>>
        <4>1. 1 \in 1 .. Len(up)
          BY <1>1, <3>2, Counts
        <4> QED
          BY <2>1, <2>4, <2>8, <3>2, <4>1
      <3> QED
        BY <3>1, <3>2
    <2>12. caller' # "dead" => up' # <<>> /\ After(up[Len(up)])' = WritesNext'
      <3> HAVE caller' # "dead"
      <3>1. caller' = "recv_size" /\ n = requests[Sent].len
        BY <1>9
      <3>2. up'[Len(up')] = <<Sent, n>> /\ Len(up') # 0
        <4>1. /\ Len(up) + n \in 1 .. Len(up) + n /\ Len(up) + n > Len(up)
              /\ (Len(up) + n) - Len(up) = n
          BY <1>1, <2>3, <3>1
        <4> QED
          BY <2>3, <2>8, <4>1, SMTT(30)
      <3>3. After(up[Len(up)])' = <<Sent + 1, 0>>
        BY <1>9, <2>3, <3>1, <3>2, SMTT(30) DEF After
      <3>4. WritesNext' = <<Sent + 1, 0>>
        BY <2>1, <3>1 DEF WritesNext
      <3> QED
        BY <2>10, <3>2, <3>3, <3>4
    <2> QED
      BY <1>9, <2>5, <2>9, <2>11, <2>12 DEF UpInv
  <1>10. CASE SendBody
    <2>1. Last.len \in 0 .. Last.len /\ Last = requests[Sent]
      <3>1. Sent \in 1 .. Sent
        BY <1>1, <1>10 DEF CallInv, SendBody
      <3>2. requests[Sent].len \in Nat
        BY <1>1, <3>1, RequestShape
      <3> QED
        BY <3>2 DEF Last, Sent
    <2> QED
      BY <1>9, <1>10, <2>1 DEF SendBody, Sent
  <1>11. CASE CallerStops
    <2>1. CASE caller = "send_body"
      <3>1. Sent \in 1 .. Sent /\ Last = requests[Sent]
        BY <1>1, <2>1 DEF CallInv, Last, Sent
      <3>2. requests[Sent].len \in Nat
        BY <1>1, <3>1, RequestShape
      <3>3. PICK n \in 0 .. requests[Sent].len - 1 : up' = up \o Bytes(Sent, n)
        BY <1>2, <1>11, <2>1, <3>1 DEF CallerStops, Sent
      <3>4. n \in 0 .. requests[Sent].len
        BY <3>2
      <3>5. /\ UNCHANGED <<requests, replies, server>>
            /\ caller' = "dead" /\ torn'
        BY <1>2, <1>11, <2>1 DEF CallerStops
      <3> QED
        BY <1>9, <2>1, <3>3, <3>4, <3>5
    <2>2. CASE caller # "send_body"
      <3>1. UNCHANGED <<up, torn, requests, replies, server>> /\ caller' = "dead"
        BY <1>11, <2>2 DEF CallerStops
      <3>2. UNCHANGED ReadsNext /\ WritesNext[2] = 0
        BY <2>2, <3>1 DEF ReadsNext, WritesNext, Made
      <3> QED
        BY <1>4, <1>5, <3>1, <3>2
    <2> QED
      BY <2>1, <2>2
  <1>12. CASE Invoke
    <2>1. /\ UNCHANGED <<up, requests, torn, caller>> /\ server = "invoke" /\ server' = "send_size"
          /\ Made' = Made + 1
      BY <1>1, <1>12 DEF Invoke, Made, TypeOK
    <2>2. UNCHANGED <<ReadsNext, WritesNext>>
      BY <1>1, <2>1 DEF ReadsNext, WritesNext, Sent
    <2> QED
      BY <1>4, <1>5, <2>1, <2>2
  <1>13. ASSUME NEW n \in 0 .. Len(up), up' = Drop(up, n), UNCHANGED <<requests, replies>>,
                UNCHANGED <<caller, torn>>,
                n < Len(up) => up[n + 1] = ReadsNext',
                n = Len(up) => n > 0 /\ After(up[n]) = ReadsNext'
         PROVE  UpInv'
    <2>1. UNCHANGED <<Sent, Made, WritesNext>>
      BY <1>13 DEF Sent, Made, WritesNext
    <2>2. /\ up' \in Seq(Nat \X Nat) /\ Len(up') = Len(up) - n
          /\ \A i \in 1 .. Len(up) - n : up'[i] = up[i + n]
      BY <1>1, <1>13, DropShape
    <2>3. \A i \in 1 .. Len(up) - n : i + n \in 1 .. Len(up)
      BY <1>1
    <2>4. \A i \in 1 .. Len(up') :
            up'[i][1] \in 1 .. Sent' /\ up'[i][2] \in 0 .. requests'[up'[i][1]].len
      <3> TAKE i \in 1 .. Len(up')
      <3>1. i \in 1 .. Len(up) - n
        BY <2>2
      <3>2. up'[i] = up[i + n] /\ i + n \in 1 .. Len(up)
        BY <2>2, <2>3, <3>1
      <3>3. up[i + n][1] \in 1 .. Sent /\ up[i + n][2] \in 0 .. requests[up[i + n][1]].len
        BY <1>3, <3>2 DEF UpInv
      <3> QED
        BY <1>13, <2>1, <3>2, <3>3
    <2>5. Framed(up, requests)'
      <3>1. \A i \in 1 .. Len(up) :
              up[i][2] \in 0 .. requests[up[i][1]].len /\ requests[up[i][1]].len \in Nat
        BY <1>1, <1>3, RequestShape DEF UpInv
      <3>2. Framed(Drop(up, n), requests)
        BY <1>1, <1>3, <3>1, FramedDrop DEF UpInv
      <3> QED
        BY <1>13, <3>2
    <2>6. up' = <<>> <=> n = Len(up)
      <3>1. up' = <<>> <=> Len(up') = 0
        BY <2>2, EmptySeq
      <3> QED
        BY <1>1, <2>2, <3>1
    <2>7. up' # <<>> => up'[1] = ReadsNext'
      <3> HAVE up' # <<>>
      <3>1. n < Len(up) /\ 1 \in 1 .. Len(up) - n /\ 1 + n = n + 1
        BY <1>1, <2>6
      <3> QED
        BY <1>13, <2>2, <3>1
    <2> DEFINE end == IF up = <<>> THEN ReadsNext ELSE After(up[Len(up)])
    <2>8. end' = end
      <3>1. up # <<>>
        BY <1>1, <1>13, Counts
      <3>2. CASE n = Len(up)
        BY <1>13, <2>6, <3>1, <3>2
      <3>3. CASE n < Len(up)
        <4>1. Len(up') \in 1 .. Len(up) - n /\ Len(up') + n = Len(up)
          BY <1>1, <2>2, <3>3
        <4>2. up'[Len(up')] = up[Len(up)]
          BY <2>2, <4>1
        <4>3. After(up[Len(up)])' = After(up[Len(up)])
          BY <1>13, <4>2 DEF After
        <4> QED
          BY <2>6, <3>1, <3>3, <4>3
      <3> QED
        BY <1>1, <3>2, <3>3
    <2>9. /\ caller # "dead" => end = WritesNext
          /\ caller = "dead" /\ ~torn => end[2] = 0
      BY <1>3 DEF UpInv
    <2> HIDE DEF end
    <2>10. /\ caller' # "dead" => end' = WritesNext'
           /\ caller' = "dead" /\ ~torn' => end'[2] = 0
      BY <1>13, <2>1, <2>8, <2>9
    <2> QED
      BY <2>4, <2>5, <2>7, <2>10 DEF UpInv, end
  <1>14. CASE ReceiveSize
    <2> DEFINE m == Made + 1
    <2>1. /\ m \in 1 .. Sent /\ up[1] = <<m, 0>> /\ up' = Drop(up, 1)
          /\ Len(up) >= 1 /\ requests[m].len \in Nat /\ 0 < requests[m].len
      <3>1. /\ Made < Sent /\ up[1] = <<m, 0>> /\ up' = Drop(up, 1)
            /\ Len(up) >= 1
        BY <1>14, ReadSize
      <3>2. m \in 1 .. Sent
        BY <1>1, <3>1
      <3> QED
        BY <1>1, <3>1, <3>2, RequestShape
    <2>2. /\ UNCHANGED <<requests, replies, caller, torn>> /\ server' = "body"
      BY <1>14 DEF ReceiveSize, ServerUnchanged
    <2>3. ReadsNext' = <<m, 1>>
      BY <2>2 DEF ReadsNext, Made
    <2>4. 1 < Len(up) => up[1 + 1] = <<m, 1>>
      <3> HAVE 1 < Len(up)
      <3>1. /\ 1 \in 1 .. Len(up) /\ up[1][1] = m /\ up[1][2] = 0
            /\ 1 \in 0 .. requests[m].len - 0 /\ 1 + 1 <= Len(up)
        BY <1>1, <2>1
      <3>2. up[1 + 1] = <<m, 0 + 1>>
        BY <1>3, <3>1 DEF UpInv, Framed
      <3> QED
        BY <3>2
    <2>5. After(up[1]) = <<m, 1>>
      BY <2>1 DEF After
    <2>6. 1 \in 0 .. Len(up)
      BY <1>1, <2>1
    <2> HIDE DEF m
    <2> QED
      BY <1>13, <2>1, <2>2, <2>3, <2>4, <2>5, <2>6
  <1>15. CASE ReceiveBody
    <2> DEFINE m == Made + 1
    <2>1. /\ UNCHANGED <<requests, replies, caller, torn>> /\ server' \in {"invoke", "closed"}
      BY <1>15 DEF ReceiveBody, ServerUnchanged
    <2>2. ReadsNext' = <<Made + 2, 0>>
      BY <1>2, <2>1 DEF ReadsNext, Made, Closed
    <2>3. CASE /\ Len(up) >= size /\ size \in 0 .. Len(up) /\ size = requests[m].len
               /\ up' = Drop(up, size)
               /\ Len(up) > size => up[size + 1] = <<Made + 2, 0>>
               /\ up[size] = <<m, size>> /\ size > 0
      <3>1. After(up[size]) = <<Made + 2, 0>>
        <4>1. ~(size < requests[m].len) /\ m + 1 = Made + 2
          BY <1>1, <2>3
        <4> QED
          BY <2>3, <4>1 DEF After
      <3> QED
        BY <1>1, <1>13, <2>1, <2>2, <2>3, <3>1
    <2>4. CASE up' = <<>> /\ torn /\ caller = "dead"
      <3>1. Len(up') = 0
        BY <2>4
      <3> QED
        BY <2>1, <2>4, <3>1 DEF UpInv, Framed
    <2> QED
      BY <1>15, <2>3, <2>4, ReadBody
  <1> QED
    BY <1>2, <1>6, <1>7, <1>8, <1>10, <1>11, <1>12, <1>14, <1>15
       DEF Next, Stub, Server, CallFails, ReceiveEnd, ServerStops, Closed

LEMMA StepHeld == IndInv /\ [Next]_vars => HeldInv'
  <1> SUFFICES ASSUME IndInv, [Next]_vars PROVE HeldInv'
    OBVIOUS
  <1>1. TypeOK /\ CallInv /\ HeldInv /\ Made \in Nat /\ Sent \in Nat
    BY Counts DEF IndInv
  <1> USE DEF stubVars, serverVars
  <1>2. CASE UNCHANGED vars \/ Sleep
    BY <1>1, <1>2 DEF vars, Sleep, HeldInv, Made, Sent
  <1>3. CASE Call \/ Disconnect \/ Stub \/ CallerStops
    <2>1. UNCHANGED serverVars /\ caller # "dead"
      BY <1>3 DEF Call, Disconnect, Stub, SendSize, SendBody, RecvSize, RecvBody, Return,
         CallFails, CallerStops, Gone
    <2>2. ~torn
      BY <1>1, <2>1 DEF CallInv
    <2>3. Sent' >= Sent /\ \A i \in 1 .. Sent : requests'[i] = requests[i]
      <3>1. CASE Call
        <4>1. PICK op \in Op, n \in RequestLens :
                requests' = Append(requests, [op |-> op, len |-> n])
          BY <3>1 DEF Call
        <4> QED
          BY <1>1, <4>1 DEF TypeOK, Sent
      <3>2. CASE Disconnect \/ Stub \/ CallerStops
        <4>1. UNCHANGED requests
          BY <3>2 DEF Disconnect, Stub, SendSize, SendBody, RecvSize, RecvBody, Return,
             CallFails, CallerStops
        <4> QED
          BY <1>1, <4>1 DEF Sent
      <3> QED
        BY <1>3, <3>1, <3>2
    <2>4. Made' = Made
      BY <2>1 DEF Made
    <2>5. server = "body" => Made' < Sent' /\ size' = requests'[Made' + 1].len
      <3> HAVE server = "body"
      <3>1. Made < Sent /\ size = requests[Made + 1].len /\ size' = size
        BY <1>1, <2>1 DEF HeldInv
      <3>2. Sent' \in Nat
        BY StepTypes DEF TypeOK, Sent
      <3>3. Made + 1 \in 1 .. Sent /\ Made < Sent'
        BY <1>1, <2>3, <3>1, <3>2
      <3> QED
        BY <2>3, <2>4, <3>1, <3>3
    <2> QED
      BY <1>1, <2>1, <2>2, <2>4, <2>5 DEF HeldInv
  <1>4. CASE ReceiveSize
    <2>1. /\ Made < Sent /\ size' = requests[Made + 1].len /\ up # <<>>
          /\ UNCHANGED <<requests, replies>> /\ server' = "body"
      BY <1>4, ReadSize DEF ReceiveSize, ServerUnchanged
    <2>2. \A i \in 1 .. Made : replies[i].to \in {0, i} /\ replies[i].to # 0
      BY <1>1, <2>1 DEF HeldInv
    <2> QED
      BY <1>1, <2>1, <2>2 DEF HeldInv, Made, Sent
  <1>5. CASE ReceiveBody
    <2>1. /\ server = "body" /\ server' \in {"invoke", "closed"}
          /\ UNCHANGED <<requests, replies, torn>>
      BY <1>5 DEF ReceiveBody, ServerUnchanged
    <2>2. \A i \in 1 .. Made : replies[i].to \in {0, i} /\ replies[i].to # 0
      BY <1>1, <2>1 DEF HeldInv
    <2>3. held' \in {0, Made + 1} /\ (held' = 0 => torn /\ up' = <<>>)
      BY <1>1, <1>5, ReadBody
    <2> QED
      BY <2>1, <2>2, <2>3 DEF HeldInv, Made, Sent
  <1>6. CASE ReceiveEnd \/ ServerStops
    BY <1>1, <1>6 DEF ReceiveEnd, ServerStops, ServerUnchanged, HeldInv, Made, Sent
  <1>7. CASE Invoke
    <2>1. PICK n \in ReplyLens, res \in {"ok", "error"} :
            replies' = Append(replies, [to |-> held, len |-> n, res |-> res])
      BY <1>7 DEF Invoke
    <2>2. /\ Made' = Made + 1 /\ replies'[Made + 1].to = held
          /\ \A i \in 1 .. Made : replies'[i] = replies[i]
      BY <1>1, <2>1 DEF TypeOK, Made
    <2>3. /\ server = "invoke" /\ server' = "send_size" /\ UNCHANGED <<torn, up>>
      BY <1>7 DEF Invoke
    <2>4. \A i \in 1 .. Made : replies[i].to \in {0, i} /\ replies[i].to # 0
      BY <1>1, <2>3 DEF HeldInv
    <2>5. held \in {0, Made + 1} /\ (held = 0 => torn /\ up = <<>>)
      BY <1>1, <2>3 DEF HeldInv
    <2>6. ASSUME NEW i \in 1 .. Made'
          PROVE  /\ replies'[i].to \in {0, i}
                 /\ replies'[i].to = 0 =>
                      torn' /\ i = Made' /\ up' = <<>> /\ server' \notin {"body", "invoke"}
      <3>1. CASE i \in 1 .. Made
        BY <2>2, <2>4, <3>1
      <3>2. CASE i = Made + 1
        BY <2>2, <2>3, <2>5, <3>2
      <3> QED
        BY <1>1, <2>2, <3>1, <3>2
    <2> QED
      BY <1>1, <2>2, <2>3, <2>6 DEF HeldInv
  <1>8. CASE ReplySize \/ ReplyBody
    BY <1>1, <1>8 DEF ReplySize, ReplyBody, ServerUnchanged, HeldInv, Made, Sent
  <1> QED
    BY <1>2, <1>3, <1>4, <1>5, <1>6, <1>7, <1>8 DEF Next, Server

\* In step, a reply whose bytes have all come is the one to the last call.
LEMMA OwnAnswer ==
  ASSUME IndInv, ~Oversize, RecvBody
  PROVE  /\ Made = Sent /\ server \in {"size", "closed"}
         /\ Return(len, [to |-> Sent, res |-> replies[Made].res])
         /\ Drop(down, len) = <<>>
  <1>1. TypeOK /\ CallInv /\ HeldInv /\ DownInv /\ Made \in Nat /\ Sent \in 1 .. Sent
        /\ caller = "recv_body" /\ Len(down) >= len
    BY Counts DEF IndInv, RecvBody, Gone, CallInv
  <1>2. Made = Sent /\ len = replies[Made].len
    BY <1>1 DEF DownInv, BodyComing
  <1>3. len \in Nat \ {0} /\ Made \in 1 .. Made
    BY <1>1, <1>2, ReplyShape
  <1>4. down = Bytes(Made, len) /\ server \in {"size", "closed"}
    <2>1. down # <<>>
      BY <1>1, <1>3, Counts
    <2>2. PICK n \in 0 .. len : down = Bytes(Made, n) /\ server \in {"size", "closed"}
      BY <1>1, <1>2, <2>1 DEF DownInv, BodyComing
    <2>3. n \in Nat /\ Len(down) = n
      BY <1>1, <1>3, <2>2, BytesShape
    <2>4. n = len
      BY <1>1, <1>3, <2>3
    <2> QED
      BY <2>2, <2>4
  <1>5. down \in Seq(Nat \X Nat) /\ Len(down) = len /\ \A i \in 1 .. len : down[i] = <<Made, i>>
    BY <1>1, <1>3, <1>4, BytesShape
  <1>6. len \in 0 .. Len(down) /\ len \in Nat
    BY <1>3, <1>5
  <1>7. Take(down, len) = down
    <2>1. /\ Take(down, len) \in Seq(Nat \X Nat) /\ Len(Take(down, len)) = len
          /\ \A i \in 1 .. len : Take(down, len)[i] = down[i]
      BY <1>5, <1>6, TakeShape
    <2> QED
      BY <1>5, <2>1, SeqEqual
  <1>8. Drop(down, len) = <<>>
    <2>1. Drop(down, len) \in Seq(Nat \X Nat) /\ Len(Drop(down, len)) = len - len
      BY <1>5, <1>6, DropShape
    <2> QED
      BY <1>6, <2>1, EmptySeq
  <1>9. Whole(Take(down, len), replies) = Made
    BY <1>1, <1>2, <1>3, <1>4, <1>7, WholeFrame
  <1>10. replies[Made].to = Made
    <2>1. replies[Made].to \in {0, Made} /\ (replies[Made].to = 0 => torn)
      BY <1>1, <1>3 DEF HeldInv
    <2> QED
      BY <1>1, <2>1 DEF CallInv
  <1>11. Unpacked(Take(down, len)) = {[to |-> Sent, res |-> replies[Made].res]}
    BY <1>2, <1>3, <1>9, <1>10 DEF Unpacked
  <1>12. Return(len, [to |-> Sent, res |-> replies[Made].res])
    BY <1>11 DEF RecvBody
  <1> QED
    BY <1>2, <1>4, <1>8, <1>12

LEMMA StepDown ==
  IndInv /\ [Next]_vars /\ ~Oversize' /\ ~Gone' => ~Oversize /\ ~Gone /\ DownInv' /\ ReturnInv'
  <1> SUFFICES ASSUME IndInv, [Next]_vars, ~Oversize', ~Gone'
               PROVE  ~Oversize /\ ~Gone /\ DownInv' /\ ReturnInv'
    OBVIOUS
  <1>1. TypeOK /\ CallInv /\ HeldInv /\ Made \in Nat /\ Sent \in Nat
    BY Counts DEF IndInv
  <1> USE DEF stubVars, serverVars
  <1>2. ~Gone
    BY DEF Next, vars, Call, Disconnect, Stub, SendSize, SendBody, RecvSize, RecvBody, Return,
       CallFails, CallerStops, Server, ReceiveSize, ReceiveEnd, ReceiveBody, Invoke, ReplySize,
       ReplyBody, Sleep, ServerStops, ServerUnchanged, Gone
  <1>3. ~Oversize
    <2>1. CASE Invoke
      <3>1. PICK n \in ReplyLens, res \in {"ok", "error"} :
              replies' = Append(replies, [to |-> held, len |-> n, res |-> res])
        BY <2>1 DEF Invoke
      <3>2. Made' = Made + 1 /\ \A i \in 1 .. Made : replies'[i] = replies[i]
        BY <1>1, <3>1 DEF TypeOK, Made
      <3>3. DOMAIN replies = 1 .. Made /\ DOMAIN replies' = 1 .. Made'
        BY <1>1, StepTypes DEF TypeOK, Made
      <3> QED
        BY <1>1, <3>2, <3>3 DEF Oversize
    <2>2. CASE ~Invoke
      <3>1. UNCHANGED replies
        BY <2>2 DEF Next, vars, Call, Disconnect, Stub, SendSize, SendBody, RecvSize, RecvBody,
           Return, CallFails, CallerStops, Server, ReceiveSize, ReceiveEnd, ReceiveBody,
           ReplySize, ReplyBody, Sleep, ServerStops, ServerUnchanged
      <3> QED
        BY <3>1 DEF Oversize
    <2> QED
      BY <2>1, <2>2
  <1> SUFFICES DownInv' /\ ReturnInv'
    BY <1>2, <1>3
  <1>4. DownInv /\ ReturnInv
    BY <1>2, <1>3 DEF IndInv
  <1>5. ~torn
    BY <1>1, <1>2 DEF CallInv, Gone
  <1>6. Made > 0 => replies[Made].len \in 1 .. Full - 1
    <2> HAVE Made > 0
    <2>1. Made \in 1 .. Made /\ Made \in DOMAIN replies
      BY <1>1 DEF TypeOK, Made
    <2>2. replies[Made].len \in Nat \ {0} /\ ~(replies[Made].len >= Full)
      BY <1>1, <1>3, <2>1, ReplyShape DEF Oversize
    <2> QED
      BY <2>2, Width
  <1>7. ASSUME UNCHANGED <<caller, requests, returned>> PROVE ReturnInv'
    BY <1>4, <1>7 DEF ReturnInv, Sent
  <1>8. ASSUME UNCHANGED <<len, down, server, requests, replies>>
        PROVE  (LengthComing' <=> LengthComing) /\ (BodyComing' <=> BodyComing)
               /\ Made' = Made /\ Sent' = Sent
    <2>1. Made' = Made /\ Sent' = Sent
      BY <1>8 DEF Made, Sent
    <2>2. LengthComing' <=> LengthComing
      BY <1>8, <2>1 DEF LengthComing
    <2>3. BodyComing' <=> BodyComing
      BY <1>8, <2>1 DEF BodyComing
    <2> QED
      BY <2>1, <2>2, <2>3
  <1>9. CASE UNCHANGED vars \/ Sleep
    BY <1>4, <1>7, <1>8, <1>9 DEF vars, Sleep, DownInv
  <1>10. CASE Call
    <2>1. PICK op \in Op, n \in RequestLens : requests' = Append(requests, [op |-> op, len |-> n])
      BY <1>10 DEF Call
    <2>2. Sent' = Sent + 1 /\ Made' = Made
      BY <1>1, <1>10, <2>1 DEF Call, TypeOK, Sent, Made
    <2>3. /\ caller = "idle" /\ caller' = "send_size"
          /\ UNCHANGED <<down, server, returned>>
      BY <1>10 DEF Call
    <2> QED
      BY <1>1, <1>4, <2>2, <2>3 DEF DownInv, ReturnInv
  <1>11. CASE SendSize \/ SendBody
    <2>1. /\ UNCHANGED <<down, server, requests, replies, returned>>
          /\ \/ caller = "send_size" /\ caller' = "send_body"
             \/ caller = "send_body" /\ caller' = "recv_size"
      BY <1>11 DEF SendSize, SendBody
    <2>2. Made' = Made /\ Sent' = Sent
      BY <2>1 DEF Made, Sent
    <2> QED
      BY <1>4, <2>1, <2>2 DEF DownInv, ReturnInv
  <1>12. CASE RecvSize
    <2>1. /\ caller = "recv_size" /\ caller' = "recv_body" /\ down # <<>>
          /\ len' \in LengthAt(Head(down), replies) /\ down' = Tail(down)
          /\ UNCHANGED <<server, requests, replies, returned>>
      BY <1>12 DEF RecvSize
    <2>2. Made' = Made /\ Sent' = Sent
      BY <2>1 DEF Made, Sent
    <2>3. LengthComing
      BY <1>4, <2>1 DEF DownInv
    <2>4. Made > 0 /\ Made = Sent
      BY <1>1, <2>1, <2>3 DEF LengthComing, CallInv
    <2>5. <<Made, 0>> \in Nat \X Nat /\ replies[Made].len \in Nat /\ Len(<<<<Made, 0>>>>) = 1
      BY <1>1, <1>6, <2>4, Width
    <2>6. ASSUME Head(down) = <<Made, 0>>
          PROVE  len' = replies[Made].len
      <3>1. len' = replies[Made].len % Full
        BY <2>1, <2>6 DEF LengthAt
      <3>2. replies[Made].len \in 0 .. Full - 1
        BY <1>6, <2>4, Width
      <3> QED
        BY <3>1, <3>2, Width
    <2>7. CASE down = <<<<Made, 0>>>> /\ server = "send_body"
      <3>1. Head(down) = <<Made, 0>> /\ Tail(down) = <<>>
        BY <2>5, <2>7
      <3> QED
        BY <1>4, <2>1, <2>2, <2>4, <2>6, <2>7, <3>1 DEF DownInv, BodyComing, ReturnInv
    <2>8. ASSUME NEW n \in 0 .. replies[Made].len, down = <<<<Made, 0>>>> \o Bytes(Made, n),
                 server = "closed" \/ (server = "size" /\ n = replies[Made].len)
          PROVE  DownInv' /\ ReturnInv'
      <3>1. Bytes(Made, n) \in Seq(Nat \X Nat)
        BY <1>1, <2>5, BytesShape
      <3>2. Head(down) = <<Made, 0>> /\ Tail(down) = Bytes(Made, n)
        BY <2>5, <2>8, <3>1, Prefixed
      <3> QED
        BY <1>4, <2>1, <2>2, <2>4, <2>6, <2>8, <3>2 DEF DownInv, BodyComing, ReturnInv
    <2> QED
      BY <2>1, <2>3, <2>7, <2>8 DEF LengthComing
  <1>13. CASE RecvBody
    <2>1. /\ Made = Sent /\ server \in {"size", "closed"}
          /\ Return(len, [to |-> Sent, res |-> replies[Made].res])
          /\ Drop(down, len) = <<>>
      BY <1>3, <1>13, OwnAnswer
    <2>2. /\ caller' = "idle" /\ down' = <<>>
          /\ returned' = Append(returned, [to |-> Sent, res |-> replies[Made].res])
          /\ UNCHANGED <<server, requests, replies>>
      BY <2>1 DEF Return, Gone
    <2>3. Made' = Made /\ Sent' = Sent
      BY <2>2 DEF Made, Sent
    <2>4. Len(returned) = Sent - 1
      BY <1>4, <1>13 DEF RecvBody, ReturnInv
    <2>5. /\ Len(returned') = Len(returned) + 1 /\ returned'[Len(returned) + 1].to = Sent
          /\ \A i \in 1 .. Len(returned) : returned'[i] = returned[i]
      BY <1>1, <2>2 DEF TypeOK
    <2>6. ReturnInv'
      <3>1. Len(returned') = Sent
        BY <1>1, <2>4, <2>5
      <3>2. \A i \in 1 .. Len(returned') : returned'[i].to = i
        BY <1>1, <1>4, <2>4, <2>5 DEF ReturnInv
      <3> QED
        BY <2>2, <2>3, <3>1, <3>2 DEF ReturnInv
    <2> QED
      BY <2>1, <2>2, <2>3, <2>6 DEF DownInv
  <1>14. CASE ReceiveSize
    <2>1. Made < Sent /\ server' = "body"
          /\ UNCHANGED <<caller, down, requests, replies, returned>>
      BY <1>14, ReadSize DEF ReceiveSize, ServerUnchanged
    <2>2. caller # "idle" /\ caller # "recv_body" /\ ~LengthComing
      BY <1>1, <1>4, <2>1 DEF DownInv, LengthComing, BodyComing
    <2>3. Made' = Made /\ Sent' = Sent
      BY <2>1 DEF Made, Sent
    <2> QED
      BY <1>4, <1>7, <2>1, <2>2, <2>3 DEF DownInv
  <1>15. CASE ReceiveBody
    <2>1. /\ Len(up) >= size /\ size \in 0 .. Len(up) /\ size = requests[Made + 1].len
          /\ Made < Sent /\ server' = "invoke"
          /\ Len(up) > size => up[size + 1] = <<Made + 2, 0>>
          /\ up[size] = <<Made + 1, size>> /\ size > 0
      BY <1>5, <1>15, ReadBody
    <2>2. UNCHANGED <<caller, down, requests, replies, returned>> /\ server = "body"
      BY <1>15 DEF ReceiveBody, ServerUnchanged
    <2>3. ~LengthComing /\ ~BodyComing
      BY <1>1, <2>1 DEF LengthComing, BodyComing
    <2>4. Made' = Made /\ Sent' = Sent
      BY <2>2 DEF Made, Sent
    <2>5. ASSUME Made = Sent - 1 PROVE caller \notin {"send_size", "send_body"}
      <3>1. UpInv
        BY <2>2 DEF IndInv, Closed
      <3>2. ~(Len(up) > size)
        <4> SUFFICES ASSUME Len(up) > size PROVE FALSE
          OBVIOUS
        <4>1. size + 1 \in 1 .. Len(up)
          BY <1>1, <2>1, Counts
        <4>2. up[size + 1][1] \in 1 .. Sent /\ up[size + 1] = <<Made + 2, 0>>
          BY <2>1, <3>1, <4>1 DEF UpInv
        <4> QED
          BY <1>1, <2>5, <4>2
      <3>3. Len(up) = size /\ up # <<>> /\ size \in Nat
        BY <1>1, <2>1, <3>2, Counts
      <3>4. After(up[Len(up)]) = <<Made + 2, 0>>
        <4>1. ~(size < requests[Made + 1].len) /\ (Made + 1) + 1 = Made + 2
          BY <1>1, <2>1, <3>3
        <4> QED
          BY <2>1, <3>3, <4>1 DEF After
      <3>5. caller # "dead" => WritesNext = <<Sent + 1, 0>>
        BY <1>1, <2>5, <3>1, <3>3, <3>4 DEF UpInv
      <3> QED
        BY <1>1, <3>5 DEF WritesNext
    <2> QED
      BY <1>1, <1>4, <1>7, <2>1, <2>2, <2>3, <2>4, <2>5 DEF DownInv
  <1>16. CASE Invoke
    <2>1. /\ Made' = Made + 1
          /\ server = "invoke" /\ server' = "send_size"
          /\ UNCHANGED <<caller, down, requests, returned>>
      BY <1>1, <1>16 DEF Invoke, Made, TypeOK
    <2>2. Sent' = Sent /\ ~LengthComing /\ ~BodyComing
      BY <2>1 DEF LengthComing, BodyComing, Sent
    <2>3. caller = "recv_size" /\ Made = Sent - 1 /\ down = <<>>
      BY <1>1, <1>2, <1>4, <2>1, <2>2 DEF DownInv, TypeOK, Gone
    <2> QED
      BY <1>1, <1>7, <2>1, <2>2, <2>3 DEF DownInv, LengthComing
  <1>17. CASE ReplySize
    <2>1. /\ server = "send_size" /\ server' = "send_body" /\ down' = Append(down, <<Made, 0>>)
          /\ UNCHANGED <<caller, len, requests, replies, returned>>
      BY <1>17 DEF ReplySize, ServerUnchanged, Made
    <2>2. Made' = Made /\ Sent' = Sent
      BY <2>1 DEF Made, Sent
    <2>3. caller = "recv_size" /\ LengthComing /\ down = <<>> /\ Made = Sent
      BY <1>1, <1>2, <1>4, <2>1 DEF DownInv, LengthComing, BodyComing, TypeOK, Gone
    <2>4. down' = <<<<Made, 0>>>>
      BY <2>1, <2>3
    <2> QED
      BY <1>7, <2>1, <2>2, <2>3, <2>4 DEF DownInv, LengthComing
  <1>18. CASE ReplyBody \/ ServerStops
    <2>1. /\ UNCHANGED <<caller, len, requests, replies, returned>>
          /\ server' = IF server = "send_body" THEN server' ELSE "closed"
          /\ server' \in {"size", "closed"}
      BY <1>18 DEF ReplyBody, ServerStops, ServerUnchanged
    <2>2. Made' = Made /\ Sent' = Sent /\ ReturnInv'
      BY <1>7, <2>1 DEF Made, Sent
    <2>3. CASE server # "send_body"
      <3>1. server' = "closed" /\ down' = down /\ server # "closed"
        BY <1>18, <2>3 DEF ReplyBody, ServerStops, Closed
      <3>2. LengthComing => LengthComing'
        BY <2>1, <2>2, <2>3, <3>1 DEF LengthComing
      <3>3. BodyComing => BodyComing'
        BY <2>1, <2>2, <2>3, <3>1 DEF BodyComing
      <3> QED
        BY <1>4, <2>1, <2>2, <3>1, <3>2, <3>3 DEF DownInv
    <2>4. CASE server = "send_body"
      <3>1. Made > 0 /\ replies[Made].len \in Nat
        <4>1. Made > 0 /\ Made \in 1 .. Made
          BY <1>1, <2>4 DEF HeldInv
        <4> QED
          BY <1>1, <4>1, ReplyShape
      <3>2. PICK n \in 0 .. replies[Made].len :
              /\ down' = down \o Bytes(Made, n)
              /\ server' = "closed" \/ (server' = "size" /\ n = replies[Made].len)
        <4>1. CASE ReplyBody
          <5>1. replies[Made].len \in 0 .. replies[Made].len
            BY <3>1
          <5>2. down' = down \o Bytes(Made, replies[Made].len) /\ server' = "size"
            BY <4>1 DEF ReplyBody, Made
          <5> QED
            BY <5>1, <5>2
        <4>2. CASE ServerStops
          <5>1. PICK n \in 0 .. replies[Made].len - 1 :
                  down' = down \o Bytes(Made, n) /\ server' = "closed"
            BY <2>4, <4>2 DEF ServerStops, Made
          <5>2. n \in 0 .. replies[Made].len
            BY <3>1
          <5> QED
            BY <5>1, <5>2
        <4> QED
          BY <1>18, <4>1, <4>2
      <3>3. caller \in {"recv_size", "recv_body"}
        BY <1>1, <1>2, <1>4, <2>4 DEF DownInv, TypeOK, Gone
      <3>4. CASE caller = "recv_size"
        <4>1. LengthComing /\ down = <<<<Made, 0>>>>
          BY <1>4, <2>4, <3>4 DEF DownInv, LengthComing
        <4>2. LengthComing'
          BY <2>1, <2>2, <3>2, <4>1 DEF LengthComing
        <4> QED
          BY <2>1, <2>2, <3>4, <4>2 DEF DownInv
      <3>5. CASE caller = "recv_body"
        <4>1. BodyComing /\ down = <<>>
          BY <1>4, <2>4, <3>5 DEF DownInv, BodyComing
        <4>2. down' = Bytes(Made, n)
          BY <1>1, <3>1, <3>2, <4>1, BytesShape, ConcatEmptySeq
        <4>3. BodyComing'
          BY <2>1, <2>2, <3>2, <4>1, <4>2 DEF BodyComing
        <4> QED
          BY <2>1, <2>2, <3>5, <4>3 DEF DownInv
      <3> QED
        BY <3>3, <3>4, <3>5
    <2> QED
      BY <2>3, <2>4
  <1> QED
    BY <1>9, <1>10, <1>11, <1>12, <1>13, <1>14, <1>15, <1>16, <1>17,
       <1>18 DEF Next, Stub, Server, Disconnect, CallFails, CallerStops, ReceiveEnd, Gone,
       ServerUnchanged

LEMMA Inductive == IndInv /\ [Next]_vars => IndInv'
  <1> SUFFICES ASSUME IndInv, [Next]_vars PROVE IndInv'
    OBVIOUS
  <1>1. TypeOK' /\ CallInv' /\ HeldInv'
    BY StepTypes, StepCalls, StepHeld
  <1>2. ~Closed' => UpInv'
    BY StepUp
  <1>3. ~Oversize' /\ ~Gone' => DownInv' /\ ReturnInv'
    BY StepDown
  <1> QED
    BY <1>1, <1>2, <1>3 DEF IndInv

LEMMA Invariant == Spec => []IndInv
  BY InitInd, Inductive, PTL DEF Spec

-----------------------------------------------------------------------------
(* What follows. *)

\* Every variable keeps its type: whatever was torn or too long, the thread only
\* waits for lengths a request has, so client_thread_handler never reads with a
\* negative size.
THEOREM FramingTypes == Spec => []TypeOK
  <1>1. IndInv => TypeOK
    BY DEF IndInv
  <1> QED
    BY <1>1, Invariant, PTL

\* What the server executes without anybody having sent it is at most one
\* request, the last one, of a caller that ended while it wrote.
THEOREM FramingInventsLast == Spec => []InventedLast
  <1>1. IndInv => InventedLast
    <2> SUFFICES ASSUME IndInv, NEW i \in DOMAIN replies, replies[i].to = 0
                 PROVE  torn /\ caller = "dead" /\ i = Len(replies)
      BY DEF InventedLast
    <2>1. i \in 1 .. Made
      BY DEF IndInv, TypeOK, Made
    <2> QED
      BY <2>1 DEF IndInv, HeldInv, CallInv, Made
  <1> QED
    BY <1>1, Invariant, PTL

\* The calls as the specification of a procedure call sees them.
CallsOf(answers) == [i \in DOMAIN answers |-> answers[i].to]
Executed == CallsOf(replies)
Answered == CallsOf(returned)

LEMMA CallsOfShape ==
  ASSUME NEW T, NEW s \in Seq(T), \A x \in T : x.to \in Nat
  PROVE  /\ CallsOf(s) \in Seq(Nat) /\ Len(CallsOf(s)) = Len(s)
         /\ \A i \in 1 .. Len(s) : CallsOf(s)[i] = s[i].to
  <1> DEFINE n == Len(s)
  <1>1. n \in Nat /\ DOMAIN s = 1 .. n
    BY LenProperties
  <1>2. \A i \in 1 .. n : s[i] \in T
    BY ElementOfSeq
  <1>3. CallsOf(s) \in [1 .. n -> Nat]
    BY <1>1, <1>2 DEF CallsOf
  <1>4. CallsOf(s) \in Seq(Nat)
    BY <1>1, <1>3, SeqDef
  <1>5. Len(CallsOf(s)) = n
    BY <1>1, <1>3, <1>4, LenProperties
  <1> QED
    BY <1>1, <1>4, <1>5 DEF CallsOf

LEMMA Appended ==
  ASSUME NEW s \in Seq(Nat), NEW t \in Seq(Nat), NEW e \in Nat,
         Len(t) = Len(s) + 1, t[Len(s) + 1] = e, \A i \in 1 .. Len(s) : t[i] = s[i]
  PROVE  t = Append(s, e)
  <1>1. /\ Append(s, e) \in Seq(Nat) /\ Len(Append(s, e)) = Len(s) + 1
        /\ Append(s, e)[Len(s) + 1] = e /\ \A i \in 1 .. Len(s) : Append(s, e)[i] = s[i]
        /\ Len(s) \in Nat
    BY AppendProperties, LenProperties
  <1>2. \A i \in 1 .. Len(t) : t[i] = Append(s, e)[i]
    <2> TAKE i \in 1 .. Len(t)
    <2>1. i \in 1 .. Len(s) \/ i = Len(s) + 1
      BY <1>1
    <2> QED
      BY <1>1, <2>1
  <1> QED
    BY <1>1, <1>2, SeqEqual

\* One more answer is one more call.
LEMMA CallsOfMore ==
  ASSUME NEW T, NEW s \in Seq(T), NEW t \in Seq(T), \A x \in T : x.to \in Nat,
         Len(t) = Len(s) + 1, \A i \in 1 .. Len(s) : t[i] = s[i]
  PROVE  CallsOf(t) = Append(CallsOf(s), t[Len(s) + 1].to)
  <1> DEFINE e == t[Len(s) + 1].to
             c == CallsOf(s)
             d == CallsOf(t)
  <1>1. c \in Seq(Nat) /\ Len(c) = Len(s) /\ \A i \in 1 .. Len(s) : c[i] = s[i].to
    BY CallsOfShape
  <1>2. d \in Seq(Nat) /\ Len(d) = Len(t) /\ \A i \in 1 .. Len(t) : d[i] = t[i].to
    BY CallsOfShape
  <1>3. Len(s) \in Nat /\ Len(s) + 1 \in 1 .. Len(t) /\ \A i \in 1 .. Len(s) : i \in 1 .. Len(t)
    BY LenProperties
  <1>4. e \in Nat
    BY <1>3, ElementOfSeq
  <1> HIDE DEF c, d
  <1>5. d[Len(c) + 1] = e /\ \A i \in 1 .. Len(c) : d[i] = c[i]
    BY <1>1, <1>2, <1>3
  <1> HIDE DEF e
  <1>6. d = Append(c, e)
    BY <1>1, <1>2, <1>4, <1>5, Appended
  <1> QED
    BY <1>6 DEF c, d, e

\* A step of the connection is a call, an execution, a return, a departure, or
\* nothing that the caller of the procedure could tell.
LEMMA StepInStep ==
  ASSUME IndInv, IndInv', [Next]_vars, ~torn', ~Oversize'
  PROVE  Calls!Next \/ UNCHANGED Calls!vars
  <1>1. TypeOK /\ TypeOK' /\ HeldInv /\ CallInv /\ Made \in Nat /\ Sent \in Nat
    BY Counts DEF IndInv
  <1> USE DEF stubVars, serverVars
  <1> SUFFICES \/ /\ Caller = "idle" /\ Caller' = "calling" /\ Sent' = Sent + 1
                  /\ UNCHANGED <<Executed, Answered>>
               \/ /\ Len(Executed) < Sent /\ Executed' = Append(Executed, Len(Executed) + 1)
                  /\ UNCHANGED <<Caller, Sent, Answered>>
               \/ /\ Caller = "calling" /\ Len(Executed) = Sent
                  /\ Caller' = "idle" /\ Answered' = Append(Answered, Sent)
                  /\ UNCHANGED <<Sent, Executed>>
               \/ /\ Caller # "gone" /\ Caller' = "gone"
                  /\ UNCHANGED <<Sent, Executed, Answered>>
               \/ UNCHANGED <<Caller, Sent, Executed, Answered>>
    BY DEF Calls!Next, Calls!Call, Calls!Execute, Calls!Return, Calls!Leave, Calls!vars,
       Executed, Answered, CallsOf, Sent
  <1>2. UNCHANGED replies => UNCHANGED Executed
    BY DEF Executed
  <1>3. UNCHANGED returned => UNCHANGED Answered
    BY DEF Answered
  <1>4. UNCHANGED requests => UNCHANGED Sent
    BY DEF Sent
  <1>5. CASE UNCHANGED vars \/ Sleep
    BY <1>2, <1>3, <1>4, <1>5 DEF vars, Sleep, Caller, Gone
  <1>6. CASE Call
    <2>1. PICK op \in Op, n \in RequestLens : requests' = Append(requests, [op |-> op, len |-> n])
      BY <1>6 DEF Call
    <2>2. Sent' = Sent + 1
      BY <1>1, <2>1 DEF TypeOK, Sent
    <2> QED
      BY <1>2, <1>3, <1>6, <2>2 DEF Call, Caller, Gone
  <1>7. CASE Disconnect \/ CallFails \/ CallerStops
    <2>1. UNCHANGED <<requests, replies, returned>>
      BY <1>7 DEF Disconnect, CallFails, CallerStops
    <2>2. Caller # "gone" /\ Caller' = "gone"
      BY <1>7 DEF Disconnect, CallFails, CallerStops, Caller, Gone
    <2> QED
      BY <1>2, <1>3, <1>4, <2>1, <2>2
  <1>8. CASE SendSize \/ SendBody \/ RecvSize
    <2>1. UNCHANGED <<requests, replies, returned, Caller>>
      BY <1>8 DEF SendSize, SendBody, RecvSize, Caller, Gone
    <2> QED
      BY <1>2, <1>3, <1>4, <2>1
  <1>9. CASE RecvBody
    <2>1. ~Oversize /\ UNCHANGED <<requests, replies>> /\ caller = "recv_body"
      BY <1>9 DEF RecvBody, Return, Oversize
    <2>2. Made = Sent /\ Return(len, [to |-> Sent, res |-> replies[Made].res])
      BY <1>9, <2>1, OwnAnswer
    <2>3. CASE caller' = "dead"
      <3>1. UNCHANGED returned
        BY <2>2, <2>3 DEF Return
      <3>2. Caller # "gone" /\ Caller' = "gone"
        BY <2>1, <2>3 DEF Caller, Gone
      <3> QED
        BY <1>2, <1>3, <1>4, <2>1, <3>1, <3>2
    <2>4. CASE caller' # "dead"
      <3>1. /\ caller' = "idle"
            /\ returned' = Append(returned, [to |-> Sent, res |-> replies[Made].res])
        BY <2>2, <2>4 DEF Return
      <3>2. /\ Len(returned') = Len(returned) + 1 /\ returned'[Len(returned) + 1].to = Sent
            /\ \A i \in 1 .. Len(returned) : returned'[i] = returned[i]
            /\ Len(returned) \in Nat
        <4>1. replies[Made].res \in {"ok", "error"}
          <5>1. Made \in 1 .. Made
            BY <1>1, <2>1, <2>2 DEF CallInv
          <5> QED
            BY <1>1, <5>1, ReplyShape
        <4>2. [to |-> Sent, res |-> replies[Made].res] \in Answer
          BY <1>1, <4>1 DEF Answer
        <4>3. returned \in Seq(Answer)
          BY <1>1 DEF TypeOK, Answer
        <4> QED
          BY <3>1, <4>2, <4>3, AppendProperties, LenProperties
      <3>3. Answered' = Append(Answered, Sent)
        <4>1. returned \in Seq(Answer) /\ returned' \in Seq(Answer)
          BY <1>1 DEF TypeOK, Answer
        <4>2. \A x \in Answer : x.to \in Nat
          BY DEF Answer
        <4> QED
          BY <3>2, <4>1, <4>2, CallsOfMore DEF Answered
      <3>4. Len(Executed) = Sent
        <4>1. replies \in Seq(Reply) /\ \A x \in Reply : x.to \in Nat
          BY <1>1 DEF TypeOK, Reply
        <4> QED
          BY <2>2, <4>1, CallsOfShape DEF Executed, Made
      <3>5. Caller = "calling" /\ Caller' = "idle"
        BY <2>1, <3>1 DEF Caller, Gone
      <3> QED
        BY <1>2, <1>4, <2>1, <3>3, <3>4, <3>5
    <2> QED
      BY <2>3, <2>4
  <1>10. CASE ReceiveSize \/ ReceiveEnd \/ ReceiveBody \/ ReplySize \/ ReplyBody \/ ServerStops
    <2>1. UNCHANGED <<requests, replies, returned, caller>>
      BY <1>10 DEF ReceiveSize, ReceiveEnd, ReceiveBody, ReplySize, ReplyBody, ServerStops,
         ServerUnchanged
    <2>2. UNCHANGED Caller
      BY <2>1 DEF Caller, Gone
    <2> QED
      BY <1>2, <1>3, <1>4, <2>1, <2>2
  <1>11. CASE Invoke
    <2>1. PICK n \in ReplyLens, res \in {"ok", "error"} :
            replies' = Append(replies, [to |-> held, len |-> n, res |-> res])
      BY <1>11 DEF Invoke
    <2>2. server = "invoke" /\ UNCHANGED <<requests, returned, caller, torn>>
      BY <1>11 DEF Invoke
    <2>3. held = Made + 1
      BY <1>1, <2>2 DEF HeldInv
    <2>4. Made < Sent
      BY <1>1, <2>3 DEF TypeOK, Sent
    <2>5. /\ Made' = Made + 1 /\ replies'[Made + 1].to = held
          /\ \A i \in 1 .. Made : replies'[i] = replies[i]
      BY <1>1, <2>1 DEF TypeOK, Made
    <2>6. Executed' = Append(Executed, Made + 1)
      <3>1. replies \in Seq(Reply) /\ replies' \in Seq(Reply)
        BY <1>1 DEF TypeOK, Reply
      <3>2. \A x \in Reply : x.to \in Nat
        BY DEF Reply
      <3> QED
        BY <2>3, <2>5, <3>1, <3>2, CallsOfMore DEF Executed, Made
    <2>7. UNCHANGED Caller
      BY <2>2 DEF Caller, Gone
    <2>8. Len(Executed) = Made
      <3>1. replies \in Seq(Reply) /\ \A x \in Reply : x.to \in Nat
        BY <1>1 DEF TypeOK, Reply
      <3> QED
        BY <3>1, CallsOfShape DEF Executed, Made
    <2> QED
      BY <1>3, <1>4, <2>2, <2>4, <2>6, <2>7, <2>8
  <1> QED
    BY <1>5, <1>6, <1>7, <1>8, <1>9, <1>10, <1>11 DEF Next, Stub, Server

\* The connection is the procedure call it is used as, for as many calls as are
\* made: as long as no reply was too long for its length bytes and no caller
\* ended in the middle of a request, requests are executed at most once and in
\* order, and every call returns the answer to that very call.
THEOREM FramingInStep == Spec => CallsInStep
  <1>1. Init => Calls!Init
    <2> SUFFICES ASSUME Init PROVE Calls!Init
      OBVIOUS
    <2>1. TypeOK /\ Made = 0 /\ Len(returned) = 0 /\ Sent = 0
      BY InitInd DEF IndInv, Init, Made, Sent
    <2>2. Executed = <<>> /\ Answered = <<>>
      <3>1. replies \in Seq(Reply) /\ \A x \in Reply : x.to \in Nat
        BY <2>1 DEF TypeOK, Reply
      <3>2. returned \in Seq(Answer) /\ \A x \in Answer : x.to \in Nat
        BY <2>1 DEF TypeOK, Answer
      <3> QED
        BY <2>1, <3>1, <3>2, CallsOfShape, EmptySeq DEF Executed, Answered, Made
    <2> QED
      BY <2>1, <2>2 DEF Init, Calls!Init, Caller, Gone, Executed, Answered, CallsOf, Sent
  <1>2. IndInv /\ IndInv' /\ [Next]_vars
          => [torn' \/ Oversize' \/ Calls!Next]_(Calls!vars)
    BY StepInStep
  <1> QED
    BY <1>1, <1>2, Invariant, PTL DEF Spec, CallsInStep
=============================================================================
