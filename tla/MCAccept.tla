------------------------------ MODULE MCAccept ------------------------------
(* Three clients and two descriptors, so that one is given out again. *)
EXTENDS Accept
CONSTANTS c1, c2, c3
Conns == {c1, c2, c3}
MCGarbage == {7}
=============================================================================
