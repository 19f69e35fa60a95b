----------------------------- MODULE MCHashCode -----------------------------
(* Keys of up to five characters, an int of 8 bits and a long of 11: three  *)
(* digits overflow the one and four the other.                              *)
EXTENDS HashCode
=============================================================================
