------------------------------ MODULE Replica ------------------------------
(***************************************************************************)
(* What a server with a successor promises to clients that write: each     *)
(* request takes effect once, in one step between the request and its      *)
(* answer, here and at the successor alike, and is answered with what the  *)
(* writes before it say.  A server may stop at any time; what it has not   *)
(* passed on by then is never answered.                                    *)
(***************************************************************************)
EXTENDS Naturals, Sequences

CONSTANTS
  Thread,  \* the clients of the server
  Write,   \* what they may ask for: records of an op and a key
  Idle     \* no request

VARIABLES
  phase,   \* "up", "closing" (the table is being freed) or "down"
  log,     \* the writes that took effect, in order
  asked,   \* per thread: the request it waits for
  answer   \* per thread: its answer once it has taken effect

vars == <<phase, log, asked, answer>>

\* The last write of key k was a put.
Holds(l, k) ==
  \E n \in DOMAIN l : /\ l[n].op = "put" /\ l[n].key = k
                      /\ \A m \in DOMAIN l : m > n => l[m].key # k

Answer(l, w) == IF w.op = "del" /\ ~Holds(l, w.key) THEN "error" ELSE "ok"

Init ==
  /\ phase = "up" /\ log = <<>>
  /\ asked = [t \in Thread |-> Idle] /\ answer = [t \in Thread |-> "none"]

Ask(t) ==
  /\ asked[t] = Idle
  /\ \E w \in Write : asked' = [asked EXCEPT ![t] = w]
  /\ UNCHANGED <<phase, log, answer>>

\* While the table is being freed, a write may fail; it is passed on all the same.
TakeEffect(t) ==
  /\ asked[t] # Idle /\ answer[t] = "none"
  /\ log' = Append(log, asked[t])
  /\ \/ answer' = [answer EXCEPT ![t] = Answer(log, asked[t])]
     \/ phase = "closing" /\ answer' = [answer EXCEPT ![t] = "error"]
  /\ UNCHANGED <<phase, asked>>

Reply(t) ==
  /\ answer[t] # "none"
  /\ asked' = [asked EXCEPT ![t] = Idle] /\ answer' = [answer EXCEPT ![t] = "none"]
  /\ UNCHANGED <<phase, log>>

Close ==
  /\ phase = "up" /\ phase' = "closing"
  /\ UNCHANGED <<log, asked, answer>>

Stop ==
  /\ phase' = "down"
  /\ UNCHANGED <<log, asked, answer>>

Next ==
  \/ phase # "down" /\ \E t \in Thread : Ask(t) \/ TakeEffect(t) \/ Reply(t)
  \/ Close \/ Stop

Spec == Init /\ [][Next]_vars
=============================================================================
