------------------------------ MODULE MCTable ------------------------------
(* An instance of Table for TLC: four keys, three of which share a list.   *)
EXTENDS Table

CONSTANTS v1, v2

Hash == [k \in Key |-> IF k \in {1, 3, 4} THEN 0 ELSE 1]
=============================================================================
