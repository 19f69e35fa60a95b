-------------------------------- MODULE Rpc --------------------------------
(***************************************************************************)
(* What a connection between a stub and a server promises: calls one at a  *)
(* time, each executed at most once and in order, each answered with what  *)
(* its own execution gave.  Either end may go away, which ends the calls.  *)
(***************************************************************************)
EXTENDS Naturals, Sequences

VARIABLES
  caller,    \* "idle", "calling" or "gone"
  called,    \* calls made so far
  executed,  \* the calls the server executed, in order
  returned   \* the calls whose own answer came back, in order

vars == <<caller, called, executed, returned>>

Init == caller = "idle" /\ called = 0 /\ executed = <<>> /\ returned = <<>>

Call ==
  /\ caller = "idle"
  /\ caller' = "calling" /\ called' = called + 1
  /\ UNCHANGED <<executed, returned>>

\* Also after the caller has gone: a request on its way is not called back.
Execute ==
  /\ Len(executed) < called
  /\ executed' = Append(executed, Len(executed) + 1)
  /\ UNCHANGED <<caller, called, returned>>

Return ==
  /\ caller = "calling" /\ Len(executed) = called
  /\ caller' = "idle" /\ returned' = Append(returned, called)
  /\ UNCHANGED <<called, executed>>

\* The caller disconnects, or does not survive a failed call.
Leave ==
  /\ caller # "gone" /\ caller' = "gone"
  /\ UNCHANGED <<called, executed, returned>>

Next == Call \/ Execute \/ Return \/ Leave
=============================================================================
