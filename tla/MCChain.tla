------------------------------ MODULE MCChain ------------------------------
(* Instances of Chain for TLC.                                             *)
EXTENDS Chain

CONSTANT c1

OneClient == {c1}
NoClient == {}
=============================================================================
