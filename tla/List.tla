-------------------------------- MODULE List --------------------------------
(***************************************************************************)
(* list.c and entry.c: a linked list of entries ordered by key, which      *)
(* keeps its length in a counter of its own.  A key is the rank of its     *)
(* string in strcmp order.                                                 *)
(***************************************************************************)
EXTENDS Integers, SequencesExt

CONSTANTS Key, Value, NoValue

ASSUME ListAssumption == Key \subseteq Nat /\ NoValue \notin Value

Entry == [key : Key, value : Value]

entry_create(k, v) == [key |-> k, value |-> v]

list_create == [nodes |-> <<>>, size |-> 0]

\* The nodes at which the walk of list_add stops: comparison 0 or 1.
NotBefore(list, k) == {i \in DOMAIN list.nodes : list.nodes[i].key >= k}

\* Mutants of list_add: the entry with the same key is not replaced; the size
\* is counted up on a replacement; the order of the comparison is turned.
list_add_twice(list, e) ==
  LET stops == NotBefore(list, e.key)
      at == IF stops = {} THEN Len(list.nodes) + 1 ELSE Min(stops) IN
  [list |-> [nodes |-> InsertAt(list.nodes, at, e), size |-> list.size + 1], ret |-> 0]
list_add_count(list, e) ==
  LET stops == NotBefore(list, e.key)
      at == IF stops = {} THEN Len(list.nodes) + 1 ELSE Min(stops)
      same == stops # {} /\ list.nodes[at].key = e.key IN
  [list |-> [nodes |-> IF same THEN ReplaceAt(list.nodes, at, e)
                               ELSE InsertAt(list.nodes, at, e),
             size |-> list.size + 1],
   ret |-> IF same THEN 1 ELSE 0]
list_add_down(list, e) ==
  LET stops == {i \in DOMAIN list.nodes : list.nodes[i].key <= e.key}
      at == IF stops = {} THEN Len(list.nodes) + 1 ELSE Min(stops)
      same == stops # {} /\ list.nodes[at].key = e.key IN
  IF same THEN [list |-> [list EXCEPT !.nodes = ReplaceAt(@, at, e)], ret |-> 1]
          ELSE [list |-> [nodes |-> InsertAt(list.nodes, at, e), size |-> list.size + 1],
                ret |-> 0]

\* Insert before the first greater key, or replace the entry of the same key.
list_add(list, e) ==
  LET stops == NotBefore(list, e.key)
      at == IF stops = {} THEN Len(list.nodes) + 1 ELSE Min(stops)
      same == stops # {} /\ list.nodes[at].key = e.key IN
  IF same THEN [list |-> [list EXCEPT !.nodes = ReplaceAt(@, at, e)], ret |-> 1]
          ELSE [list |-> [nodes |-> InsertAt(list.nodes, at, e), size |-> list.size + 1],
                ret |-> 0]

\* Mutant of list_remove: the size is counted down on a miss.
list_remove_miss(list, k) ==
  LET hits == {i \in 1 .. list.size : list.nodes[i].key = k} IN
  IF list.nodes = <<>> \/ hits = {}
  THEN [list |-> [list EXCEPT !.size = @ - 1], ret |-> 1]
  ELSE [list |-> [nodes |-> RemoveAt(list.nodes, Min(hits)), size |-> list.size - 1],
        ret |-> 0]

\* list_remove walks size nodes, whatever their number.
list_remove(list, k) ==
  LET hits == {i \in 1 .. list.size : list.nodes[i].key = k} IN
  IF list.nodes = <<>> \/ hits = {}
  THEN [list |-> list, ret |-> 1]
  ELSE [list |-> [nodes |-> RemoveAt(list.nodes, Min(hits)), size |-> list.size - 1],
        ret |-> 0]

\* The value of the first node with the key; list_get walks to the last node.
list_get(list, k) ==
  LET hits == {i \in DOMAIN list.nodes : list.nodes[i].key = k} IN
  IF list.size = 0 \/ hits = {} THEN NoValue ELSE list.nodes[Min(hits)].value

\* list_get_keys copies size keys.
list_get_keys(list) == [i \in 1 .. list.size |-> list.nodes[i].key]

\* It ends by destroying the node after the last one copied, which is none while
\* the counter is the length: a longer list ends there afterwards.
list_after_keys(list) ==
  IF list.size = 0 THEN list
  ELSE [list EXCEPT !.nodes = SubSeq(@, 1, Min({list.size, Len(@)}))]

=============================================================================
