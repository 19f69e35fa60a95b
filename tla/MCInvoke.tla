------------------------------ MODULE MCInvoke ------------------------------
(* Instances of Invoke for TLC: which thread's client sends what.           *)
EXTENDS Invoke, TLC

CONSTANTS t1, t2, t3, k1, k2

TwoThreads == {t1, t2}
ThreeThreads == {t1, t2, t3}

Ask(ops, keys) == [op : ops, key : keys]

\* Three clients that only write.
WritersOnly ==
  (t1 :> Ask({"put"}, {k1}) @@ t2 :> Ask({"put"}, {k1}) @@ t3 :> Ask({"del"}, {k1}))

\* A client that puts or sends an opcode nobody knows, one that reads in every
\* way, and one that gets or deletes the key; the last two also ask for the
\* statistics.
Readers ==
  (t1 :> Ask({"put", "bad"}, {k1})
   @@ t2 :> Ask({"get", "size", "getkeys", "gettable", "stats"}, {k1})
   @@ t3 :> Ask({"del", "get", "stats"}, {k1}))

\* A writer, and a client that reads its key and asks for the statistics.
PutGet == (t1 :> Ask({"put"}, {k1}) @@ t2 :> Ask({"get", "stats"}, {k1}))

\* A client that puts two keys, and one that copies the table.
PutCopy == (t1 :> Ask({"put"}, {k1, k2}) @@ t2 :> Ask({"gettable"}, {k1}))
=============================================================================
