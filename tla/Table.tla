------------------------------- MODULE Table -------------------------------
(***************************************************************************)
(* table.c: the server's table, an array of ordered lists.  A key goes to  *)
(* the list hash_code gives; table_get looks in every list; table_size and *)
(* table_get_keys trust the counters of the lists.                         *)
(***************************************************************************)
EXTENDS List

CONSTANTS
  NLists,     \* lists of the table
  hash_code   \* hash_code[k]: the index computed from the key

Index == 0 .. NLists - 1

ASSUME TableAssumption ==
  /\ NLists \in Nat \ {0}
  /\ hash_code \in [Key -> Index]

VARIABLES
  lists,    \* table->lists
  result    \* the last call and what it returned

vars == <<lists, result>>

Init ==
  /\ lists = [i \in Index |-> list_create]
  /\ result = [op |-> "create", ret |-> 0]

\* Mutant of table_put: the index is one too high.
table_put_next(k, v) ==
  LET at == (hash_code[k] + 1) % NLists
      done == list_add(lists[at], entry_create(k, v)) IN
  /\ lists' = [lists EXCEPT ![at] = done.list]
  /\ result' = [op |-> "put", ret |-> done.ret]

table_put(k, v) ==
  LET done == list_add(lists[hash_code[k]], entry_create(k, v)) IN
  /\ lists' = [lists EXCEPT ![hash_code[k]] = done.list]
  /\ result' = [op |-> "put", ret |-> done.ret]

table_remove(k) ==
  LET done == list_remove(lists[hash_code[k]], k) IN
  /\ lists' = [lists EXCEPT ![hash_code[k]] = done.list]
  /\ result' = [op |-> "remove", ret |-> done.ret]

\* The value in the first list that has the key.
ValueOf(k) ==
  LET hits == {i \in Index : list_get(lists[i], k) # NoValue} IN
  IF hits = {} THEN NoValue ELSE list_get(lists[Min(hits)], k)

table_get(k) ==
  /\ result' = [op |-> "get", ret |-> ValueOf(k)]
  /\ UNCHANGED lists

table_size ==
  /\ result' = [op |-> "size", ret |-> MapThenSumSet(LAMBDA i : lists[i].size, Index)]
  /\ UNCHANGED lists

\* The keys of the lists one after the other.
table_get_keys ==
  /\ result' = [op |-> "get_keys",
                ret |-> FlattenSeq([i \in 1 .. NLists |-> list_get_keys(lists[i - 1])])]
  /\ lists' = [i \in Index |-> list_after_keys(lists[i])]

Next ==
  \/ \E k \in Key : table_remove(k) \/ table_get(k) \/ \E v \in Value : table_put(k, v)
  \/ table_size \/ table_get_keys

Spec == Init /\ [][Next]_vars

-----------------------------------------------------------------------------
(* Properties. *)

\* Every variable keeps its type: no counter goes below zero.
TypeOK ==
  /\ lists \in [Index -> [nodes : Seq(Entry), size : Nat]]
  /\ result.op \in {"create", "put", "remove", "get", "size", "get_keys"}

\* The counter of a list is its length: the walks bounded by it end at the last
\* node, and table_get_keys fills exactly what it allocated.
SizesExact == \A i \in Index : lists[i].size = Len(lists[i].nodes)

\* A list is strictly ordered: a key is in it once.
ListsOrdered ==
  \A i \in Index : \A m, n \in DOMAIN lists[i].nodes :
    m < n => lists[i].nodes[m].key < lists[i].nodes[n].key

\* A key is only in the list that its hash gives, where put and remove look.
KeysPlaced ==
  \A i \in Index : \A m \in DOMAIN lists[i].nodes :
    hash_code[lists[i].nodes[m].key] = i

\* table.h:25 says that table_put returns 0 or -1.  It returns 1 when it replaces
\* an entry, as list_add does; its one caller, invoke, takes all but -1 for ok
\* (table_skel.c:241).  The documented answer is what that caller makes of it.
Documented == IF result.op = "put" /\ result.ret = 1 THEN [result EXCEPT !.ret = 0] ELSE result

\* The lists implement the map: every call does to them what it does to a map and
\* answers what table.h says and the map determines, but for the 1 of a put that
\* replaces (Documented): keys do not get lost, hidden or doubled between lists.
KV == INSTANCE KeyValue WITH store <- [k \in Key |-> ValueOf(k)], reply <- Documented
Refinement == KV!Spec

=============================================================================
