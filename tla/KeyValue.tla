------------------------------ MODULE KeyValue ------------------------------
(***************************************************************************)
(* What a table promises to its user: a map from keys to values, and for   *)
(* each call the answer that table.h documents and the map determines.     *)
(***************************************************************************)
EXTENDS Integers, Sequences, FiniteSets

CONSTANTS Key, Value, NoValue

VARIABLES
  store,   \* the map; NoValue for a key that is absent
  reply    \* the last call and what it returned

Present == {k \in Key : store[k] # NoValue}

Init ==
  /\ store = [k \in Key |-> NoValue]
  /\ reply = [op |-> "create", ret |-> 0]

Put(k, v) ==
  /\ store' = [store EXCEPT ![k] = v]
  /\ reply' = [op |-> "put", ret |-> 0]

Remove(k) ==
  /\ store' = [store EXCEPT ![k] = NoValue]
  /\ reply' = [op |-> "remove", ret |-> IF k \in Present THEN 0 ELSE 1]

Get(k) ==
  /\ reply' = [op |-> "get", ret |-> store[k]]
  /\ UNCHANGED store

Size ==
  /\ reply' = [op |-> "size", ret |-> Cardinality(Present)]
  /\ UNCHANGED store

\* Every key that is present, once each, in some order.
GetKeys ==
  /\ reply'.op = "get_keys"
  /\ Len(reply'.ret) = Cardinality(Present)
  /\ {reply'.ret[i] : i \in DOMAIN reply'.ret} = Present
  /\ UNCHANGED store

Next ==
  \/ \E k \in Key : Remove(k) \/ Get(k) \/ \E v \in Value : Put(k, v)
  \/ Size \/ GetKeys

Spec == Init /\ [][Next]_<<store, reply>>

=============================================================================
