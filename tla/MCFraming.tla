----------------------------- MODULE MCFraming -----------------------------
(* One connection of at most two calls, with a short of three bits. *)
EXTENDS Framing
=============================================================================
