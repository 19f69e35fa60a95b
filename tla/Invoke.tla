------------------------------- MODULE Invoke -------------------------------
(***************************************************************************)
(* The request service of one table server: the threads that run invoke()  *)
(* and update_stats() of table_skel.c over the shared table, the counters  *)
(* readers_count, writers_count and stats_readers, the mutex lock_data     *)
(* with its condition variable, and the statistics.                        *)
(*                                                                         *)
(* A step is one access to shared memory, or one stretch of code that only *)
(* other holders of lock_data could tell apart.  The counters that readers *)
(* and update_stats() touch without a lock are loaded and stored in two    *)
(* steps: the build compiles x++ to a load, an add and a store.            *)
(*                                                                         *)
(* Values are left out (module Table has them): the table is the set of    *)
(* keys it holds.  The successor is a fixed connection here.               *)
(***************************************************************************)
EXTENDS Integers, FiniteSets, Sequences

CONSTANTS
  Thread,       \* client threads of the server, one per accepted connection
  Key,          \* keys the clients use
  Requests,     \* Requests[t]: what the client of thread t may send
  MaxRequests,  \* bound: requests served by one thread
  Successor,    \* whether successor_metadata is connected
  Interrupts,   \* whether somebody may send the server a SIGINT
  Garbage,      \* what malloc may leave in stats->num_ops
  None          \* no holder of lock_data

Writes  == {"put", "del"}
Lookups == {"get", "size"}
Copies  == {"getkeys", "gettable"}
Op      == Writes \cup Lookups \cup Copies \cup {"stats", "bad"}
Request == [op : Op, key : Key]

ASSUME InvokeAssumption ==
  /\ IsFiniteSet(Key) /\ Key # {}
  /\ Requests \in [Thread -> SUBSET Request]
  /\ MaxRequests \in Nat
  /\ Successor \in BOOLEAN /\ Interrupts \in BOOLEAN
  /\ Garbage \subseteq Int
  /\ None \notin Thread

VARIABLES
  process,        \* "up", "closing" (in sigint_handler), "exited" or "crashed"
  table,          \* keys in the table
  lock_data,      \* holder of the mutex lock_data
  readers_count, writers_count, stats_readers,
  num_ops,        \* stats->num_ops
  pc, msg, reg,   \* per thread: next step, request, loaded counter
  copy,           \* per thread: the arrays of getkeys and gettable
  reply,          \* per thread: msg->opcode of the answer
  handled,        \* per thread: requests received so far
  applied,        \* history: writes in the order the table took them
  forwarded,      \* history: writes in the order the successor took them
  executed,       \* history: operations update_stats() counted
  raced           \* history: counters two threads were updating at once

tableVars  == <<table, applied>>
lockVars   == <<lock_data, writers_count>>
statVars   == <<num_ops, executed>>
localVars  == <<msg, handled>>
vars == <<process, tableVars, lockVars, readers_count, stats_readers, statVars,
          pc, localVars, reg, raced, copy, reply, forwarded>>

\* The copy arrays: keys not yet copied, length allocated, entries copied.
NoCopy == [left |-> {}, cap |-> 0, n |-> 0]

\* The process runs; the main thread may be freeing the table for the last time.
alive == process \in {"up", "closing"}

Go(t, step) == pc' = [pc EXCEPT ![t] = step]
At(t, step) == alive /\ pc[t] = step

\* t loads a counter that no lock protects, to store it changed at its next step;
\* a thread between its load and its store now will overwrite one of the updates.
Load(t, count, counter, storing) ==
  /\ reg' = [reg EXCEPT ![t] = count]
  /\ raced' = raced \cup {c \in {counter} : \E u \in Thread : pc[u] \in storing}

\* pthread_cond_broadcast(&condition): every sleeper goes for the mutex.
Woken == [u \in Thread |-> IF pc[u] = "wait" THEN "lock" ELSE pc[u]]
Broadcast(t, step) == pc' = [Woken EXCEPT ![t] = step]

\* The lists cannot be trusted: a writer is inside table_put or table_remove,
\* which update them and free nodes in several unprotected stores, or the
\* signal handler is freeing them.  (table goes on as if they stood.)
TableUnsound == process = "closing" \/ \E w \in Thread : pc[w] = "apply"

\* What msg holds before the first request.
NoRequest == [op |-> "bad", key |-> CHOOSE k \in Key : TRUE]

Init ==
  /\ process = "up"
  /\ table = {}
  /\ lock_data = None
  /\ readers_count = 0 /\ writers_count = 0 /\ stats_readers = 0
  /\ num_ops \in Garbage /\ executed = 0
  /\ pc = [t \in Thread |-> "receive"]
  /\ msg = [t \in Thread |-> NoRequest]
  /\ reg = [t \in Thread |-> 0]
  /\ copy = [t \in Thread |-> NoCopy]
  /\ reply = [t \in Thread |-> "none"]
  /\ handled = [t \in Thread |-> 0]
  /\ applied = <<>> /\ forwarded = <<>>
  /\ raced = {}

FirstStep(op) ==
  CASE op \in Writes -> "lock"
    [] op \in Lookups \cup Copies -> "enter"
    [] op = "stats" -> "stats_enter"
    [] op = "bad" -> "stats_leave"

\* network_receive() delivers the next request and invoke() starts on it.
Receive(t) ==
  /\ At(t, "receive")
  /\ handled[t] < MaxRequests
  /\ \E m \in Requests[t] :
       /\ msg' = [msg EXCEPT ![t] = m]
       /\ Go(t, FirstStep(m.op))
       /\ reply' = [reply EXCEPT ![t] = IF m.op = "bad" THEN "error" ELSE "none"]
  /\ handled' = [handled EXCEPT ![t] = @ + 1]
  /\ UNCHANGED <<process, tableVars, lockVars, readers_count, stats_readers,
                 statVars, reg, raced, copy, forwarded>>

-----------------------------------------------------------------------------
(* Writers: put and del. *)

WriterUnchanged ==
  UNCHANGED <<readers_count, stats_readers, statVars, localVars, reg, raced, copy>>

Lock(t) ==
  /\ At(t, "lock") /\ lock_data = None
  /\ lock_data' = t
  /\ Go(t, "check")
  /\ WriterUnchanged /\ UNCHANGED <<process, tableVars, writers_count, reply, forwarded>>

\* Mutants of Check: one of the two conditions of the wait forgotten.
CheckReadersOnly(t) ==
  /\ At(t, "check")
  /\ Go(t, IF readers_count > 0 THEN "sleep" ELSE "claim")
  /\ WriterUnchanged /\ UNCHANGED <<process, tableVars, lockVars, reply, forwarded>>
CheckWritersOnly(t) ==
  /\ At(t, "check")
  /\ Go(t, IF writers_count > 0 THEN "sleep" ELSE "claim")
  /\ WriterUnchanged /\ UNCHANGED <<process, tableVars, lockVars, reply, forwarded>>

\* while (readers_count > 0 || writers_count > 0), with lock_data held
Check(t) ==
  /\ At(t, "check")
  /\ Go(t, IF readers_count > 0 \/ writers_count > 0 THEN "sleep" ELSE "claim")
  /\ WriterUnchanged /\ UNCHANGED <<process, tableVars, lockVars, reply, forwarded>>

\* pthread_cond_wait: a broadcast made since Check is lost.
CondWait(t) ==
  /\ At(t, "sleep")
  /\ lock_data' = None
  /\ Go(t, "wait")
  /\ WriterUnchanged /\ UNCHANGED <<process, tableVars, writers_count, reply, forwarded>>

\* A condition variable may wake a thread nobody signalled.
Spurious(t) ==
  /\ \/ At(t, "wait") /\ Go(t, "lock")
     \/ At(t, "u_wait") /\ Go(t, "u_check")
  /\ WriterUnchanged /\ UNCHANGED <<process, tableVars, lockVars, reply, forwarded>>

Claim(t) ==
  /\ At(t, "claim")
  /\ writers_count' = writers_count + 1
  /\ lock_data' = None
  /\ Go(t, "apply")
  /\ WriterUnchanged /\ UNCHANGED <<process, tableVars, reply, forwarded>>

\* Mutants of Apply: a del that found nothing is not forwarded; the answer to a
\* del is looked up once the key is out.
ApplyMissKept(t) ==
  LET key == msg[t].key
      miss == msg[t].op = "del" /\ key \notin table IN
  /\ At(t, "apply")
  /\ table' = IF msg[t].op = "put" THEN table \cup {key} ELSE table \ {key}
  /\ reply' = [reply EXCEPT ![t] = IF miss THEN "error" ELSE "ok"]
  /\ applied' = Append(applied, msg[t])
  /\ Go(t, IF Successor /\ ~miss THEN "forward" ELSE "u_check")
  /\ WriterUnchanged /\ UNCHANGED <<process, lockVars, forwarded>>
ApplyAnswersLate(t) ==
  LET key == msg[t].key IN
  /\ At(t, "apply")
  /\ table' = IF msg[t].op = "put" THEN table \cup {key} ELSE table \ {key}
  /\ reply' = [reply EXCEPT ![t] =
                 IF msg[t].op = "del" /\ key \notin table' THEN "error" ELSE "ok"]
  /\ applied' = Append(applied, msg[t])
  /\ Go(t, IF Successor THEN "forward" ELSE "u_check")
  /\ WriterUnchanged /\ UNCHANGED <<process, lockVars, forwarded>>

\* table_put or table_remove; both go on to the successor whatever they return.
Apply(t) ==
  LET key == msg[t].key IN
  /\ At(t, "apply")
  /\ table' = IF msg[t].op = "put" THEN table \cup {key} ELSE table \ {key}
  /\ \/ reply' = [reply EXCEPT ![t] =
                    IF msg[t].op = "del" /\ key \notin table THEN "error" ELSE "ok"]
     \/ process = "closing" /\ reply' = [reply EXCEPT ![t] = "error"]
  /\ applied' = Append(applied, msg[t])
  /\ Go(t, IF Successor THEN "forward" ELSE "u_check")
  /\ WriterUnchanged /\ UNCHANGED <<process, lockVars, forwarded>>

\* rtable_put or rtable_del to the successor, which answers.
Forward(t) ==
  /\ At(t, "forward")
  /\ forwarded' = Append(forwarded, msg[t])
  /\ Go(t, "u_check")
  /\ WriterUnchanged /\ UNCHANGED <<process, tableVars, lockVars, reply>>

\* The connection breaks: network_send_receive returns NULL (or aborts freeing
\* a message it does not own) and the caller dereferences it.
ForwardLost(t) ==
  /\ At(t, "forward")
  /\ process' = "crashed"
  /\ WriterUnchanged /\ UNCHANGED <<pc, tableVars, lockVars, reply, forwarded>>

Relock(t) ==
  /\ At(t, "relock") /\ lock_data = None
  /\ lock_data' = t
  /\ Go(t, "release")
  /\ WriterUnchanged /\ UNCHANGED <<process, tableVars, writers_count, reply, forwarded>>

\* Mutants of Release: no broadcast; a second decrement on the error path.
ReleaseSilent(t) ==
  /\ At(t, "release")
  /\ writers_count' = writers_count - 1
  /\ lock_data' = None
  /\ Go(t, "receive")
  /\ WriterUnchanged /\ UNCHANGED <<process, tableVars, reply, forwarded>>
ReleaseErrorTwice(t) ==
  /\ At(t, "release")
  /\ writers_count' = writers_count - (IF reply[t] = "error" THEN 2 ELSE 1)
  /\ lock_data' = None
  /\ Broadcast(t, "receive")
  /\ WriterUnchanged /\ UNCHANGED <<process, tableVars, reply, forwarded>>

\* writers_count--, broadcast and unlock, with lock_data held
Release(t) ==
  /\ At(t, "release")
  /\ writers_count' = writers_count - 1
  /\ lock_data' = None
  /\ Broadcast(t, "receive")
  /\ WriterUnchanged /\ UNCHANGED <<process, tableVars, reply, forwarded>>

Writer(t) == Lock(t) \/ Check(t) \/ CondWait(t) \/ Claim(t) \/ Apply(t)
             \/ Forward(t) \/ Relock(t) \/ Release(t)

-----------------------------------------------------------------------------
(* Readers: get, size, getkeys and gettable. *)

ReaderUnchanged ==
  UNCHANGED <<tableVars, lockVars, stats_readers, statVars, localVars, forwarded>>

Enter(t) ==
  /\ At(t, "enter")
  /\ Load(t, readers_count, "readers_count", {"enter_store", "leave_store"})
  /\ Go(t, "enter_store")
  /\ ReaderUnchanged /\ UNCHANGED <<process, readers_count, copy, reply>>

EnterStore(t) ==
  /\ At(t, "enter_store")
  /\ readers_count' = reg[t] + 1
  /\ Go(t, CASE msg[t].op = "getkeys"  -> "keys"
             [] msg[t].op = "gettable" -> "alloc"
             [] OTHER -> "read")
  /\ ReaderUnchanged /\ UNCHANGED <<process, reg, raced, copy, reply>>

\* table_get or table_size; beside a writer the walk of a list may stop early.
Read(t) ==
  LET miss == msg[t].op = "get" /\ msg[t].key \notin table
      torn == msg[t].op = "get" /\ TableUnsound IN
  /\ At(t, "read")
  /\ \/ reply' = [reply EXCEPT ![t] = IF miss THEN "error" ELSE "ok"]
     \/ torn /\ reply' = [reply EXCEPT ![t] = "error"]
  /\ Go(t, "u_check")
  /\ ReaderUnchanged /\ UNCHANGED <<process, readers_count, reg, raced, copy>>

\* keys = table_get_keys(table)
ListKeys(t) ==
  /\ At(t, "keys")
  /\ copy' = [copy EXCEPT ![t].left = table]
  /\ Go(t, IF msg[t].op = "getkeys" THEN "alloc" ELSE "copy")
  /\ ReaderUnchanged /\ UNCHANGED <<process, readers_count, reg, raced, reply>>

\* malloc(table_size(table) * ...): getkeys after reading the keys, gettable before
Alloc(t) ==
  /\ At(t, "alloc")
  /\ copy' = [copy EXCEPT ![t].cap = Cardinality(table), ![t].n = 0]
  /\ Go(t, IF msg[t].op = "getkeys" THEN "copy" ELSE "keys")
  /\ ReaderUnchanged /\ UNCHANGED <<process, readers_count, reg, raced, reply>>

\* One turn of the copying loop, whose bound is table_size(table) read again.
CopyNext(t) ==
  /\ At(t, "copy")
  /\ copy[t].n < Cardinality(table)
  /\ \E k \in copy[t].left :
       /\ msg[t].op = "gettable" => k \in table
       /\ copy' = [copy EXCEPT ![t] = [left |-> @.left \ {k}, cap |-> @.cap, n |-> @.n + 1]]
  /\ ReaderUnchanged /\ UNCHANGED <<process, readers_count, reg, raced, reply, pc>>

\* The turns that do not survive: keys[i] is the NULL at the end of keys, the
\* key is gone and table_get returned NULL, or i is beyond the allocation (the
\* store may also go unnoticed: CopyNext).
CopyCrash(t) ==
  /\ At(t, "copy")
  /\ copy[t].n < Cardinality(table)
  /\ \/ copy[t].left = {}
     \/ msg[t].op = "gettable" /\ ~ copy[t].left \subseteq table
     \/ copy[t].n >= copy[t].cap
  /\ process' = "crashed"
  /\ ReaderUnchanged /\ UNCHANGED <<readers_count, reg, raced, reply, copy, pc>>

\* A reader walks a list that a writer is changing: it follows a node or an entry
\* that is freed, or takes the NULL that list_get_keys() made of an empty list for
\* the keys of a list that no longer is.
ReadCrash(t) ==
  /\ alive /\ TableUnsound
  /\ \/ pc[t] = "keys"
     \/ pc[t] = "read" /\ msg[t].op = "get"
     \/ pc[t] = "copy" /\ msg[t].op = "gettable"
  /\ process' = "crashed"
  /\ ReaderUnchanged /\ UNCHANGED <<readers_count, reg, raced, reply, copy, pc>>

CopyDone(t) ==
  /\ At(t, "copy")
  /\ copy[t].n >= Cardinality(table) \/ process = "closing"
  /\ Go(t, "count")
  /\ ReaderUnchanged /\ UNCHANGED <<process, readers_count, reg, raced, reply, copy>>

\* msg->n_keys = table_size(table): more than was copied is uninitialised memory
Count(t) ==
  /\ At(t, "count")
  /\ \/ reply' = [reply EXCEPT ![t] =
                    IF Cardinality(table) > copy[t].n THEN "garbage" ELSE "ok"]
     \/ process = "closing" /\ reply' = [reply EXCEPT ![t] = "garbage"]
  /\ copy' = [copy EXCEPT ![t] = NoCopy]
  /\ Go(t, "u_check")
  /\ ReaderUnchanged /\ UNCHANGED <<process, readers_count, reg, raced>>

Leave(t) ==
  /\ At(t, "leave")
  /\ Load(t, readers_count, "readers_count", {"enter_store", "leave_store"})
  /\ Go(t, "leave_store")
  /\ ReaderUnchanged /\ UNCHANGED <<process, readers_count, copy, reply>>

\* Mutant of LeaveStore: the miss path of get forgets the decrement too.
LeaveStoreMissKept(t) ==
  LET miss == msg[t].op = "get" /\ reply[t] = "error" IN
  /\ At(t, "leave_store")
  /\ readers_count' = IF miss THEN readers_count ELSE reg[t] - 1
  /\ Go(t, IF miss THEN "receive" ELSE "signal")
  /\ ReaderUnchanged /\ UNCHANGED <<process, reg, raced, copy, reply>>

\* The miss path of get returns without the broadcast.
LeaveStore(t) ==
  /\ At(t, "leave_store")
  /\ readers_count' = reg[t] - 1
  /\ Go(t, IF msg[t].op = "get" /\ reply[t] = "error" THEN "receive" ELSE "signal")
  /\ ReaderUnchanged /\ UNCHANGED <<process, reg, raced, copy, reply>>

Signal(t) ==
  /\ At(t, "signal")
  /\ Broadcast(t, "receive")
  /\ ReaderUnchanged /\ UNCHANGED <<process, readers_count, reg, raced, copy, reply>>

Reader(t) == Enter(t) \/ EnterStore(t) \/ Read(t) \/ ListKeys(t) \/ Alloc(t)
             \/ CopyNext(t) \/ CopyCrash(t) \/ ReadCrash(t) \/ CopyDone(t)
             \/ Count(t) \/ Leave(t) \/ LeaveStore(t) \/ Signal(t)

-----------------------------------------------------------------------------
(* Statistics: update_stats() and the stats and unknown requests. *)

StatUnchanged ==
  UNCHANGED <<process, tableVars, lockVars, readers_count, localVars, copy, forwarded>>

\* while (stats_readers > 0) pthread_cond_wait(&stats_cond, &lock_stats), which
\* nothing signals
UpdateCheck(t) ==
  /\ At(t, "u_check")
  /\ Go(t, IF stats_readers > 0 THEN "u_wait" ELSE "u_load")
  /\ StatUnchanged /\ UNCHANGED <<stats_readers, statVars, reg, raced, reply>>

UpdateLoad(t) ==
  /\ At(t, "u_load")
  /\ reg' = [reg EXCEPT ![t] = num_ops]
  /\ Go(t, "u_store")
  /\ StatUnchanged /\ UNCHANGED <<stats_readers, statVars, raced, reply>>

\* Mutant of UpdateStore: an operation that failed is counted twice.
UpdateStoreTwice(t) ==
  /\ At(t, "u_store")
  /\ num_ops' = reg[t] + (IF reply[t] = "error" THEN 2 ELSE 1)
  /\ executed' = executed + 1
  /\ Go(t, IF msg[t].op \in Writes THEN "relock" ELSE "leave")
  /\ StatUnchanged /\ UNCHANGED <<stats_readers, reg, raced, reply>>

\* stats->num_ops++
UpdateStore(t) ==
  /\ At(t, "u_store")
  /\ num_ops' = reg[t] + 1
  /\ executed' = executed + 1
  /\ Go(t, IF msg[t].op \in Writes THEN "relock" ELSE "leave")
  /\ StatUnchanged /\ UNCHANGED <<stats_readers, reg, raced, reply>>

StatsEnter(t) ==
  /\ At(t, "stats_enter")
  /\ Load(t, stats_readers, "stats_readers", {"stats_enter_store", "stats_leave_store"})
  /\ Go(t, "stats_enter_store")
  /\ StatUnchanged /\ UNCHANGED <<stats_readers, statVars, reply>>

StatsEnterStore(t) ==
  /\ At(t, "stats_enter_store")
  /\ stats_readers' = reg[t] + 1
  /\ reply' = [reply EXCEPT ![t] = "ok"]
  /\ Go(t, "stats_leave")
  /\ StatUnchanged /\ UNCHANGED <<statVars, reg, raced>>

\* Also all that invoke() does for an opcode it does not know.
StatsLeave(t) ==
  /\ At(t, "stats_leave")
  /\ Load(t, stats_readers, "stats_readers", {"stats_enter_store", "stats_leave_store"})
  /\ Go(t, "stats_leave_store")
  /\ StatUnchanged /\ UNCHANGED <<stats_readers, statVars, reply>>

\* Mutant of StatsLeaveStore: an unknown opcode counts up instead of down.
StatsLeaveStoreUp(t) ==
  /\ At(t, "stats_leave_store")
  /\ stats_readers' = reg[t] + (IF msg[t].op = "bad" THEN 1 ELSE -1)
  /\ Go(t, "receive")
  /\ StatUnchanged /\ UNCHANGED <<statVars, reg, raced, reply>>

\* stats_readers--
StatsLeaveStore(t) ==
  /\ At(t, "stats_leave_store")
  /\ stats_readers' = reg[t] - 1
  /\ Go(t, "receive")
  /\ StatUnchanged /\ UNCHANGED <<statVars, reg, raced, reply>>

Statistics(t) == UpdateCheck(t) \/ UpdateLoad(t) \/ UpdateStore(t) \/ StatsEnter(t)
                 \/ StatsEnterStore(t) \/ StatsLeave(t) \/ StatsLeaveStore(t)

-----------------------------------------------------------------------------
Step(t) == Writer(t) \/ Reader(t) \/ Statistics(t)

(* SIGINT, which the main thread takes in the middle of accept(). *)

CloseUnchanged ==
  UNCHANGED <<tableVars, lockVars, readers_count, stats_readers, statVars,
              pc, localVars, reg, raced, copy, reply, forwarded>>

\* sigint_handler() starts on table_destroy(main_table); no client thread is
\* asked to stop.
Interrupt ==
  /\ Interrupts /\ process = "up"
  /\ process' = "closing"
  /\ CloseUnchanged

\* table_skel_destroy() frees the table a second time: malloc notices and
\* aborts, or does not and exit(0) is reached.
Close ==
  /\ process = "closing"
  /\ process' \in {"exited", "crashed"}
  /\ CloseUnchanged

\* A client thread reads or writes lists that have been freed.
UseDestroyed(t) ==
  /\ process = "closing"
  /\ pc[t] \in {"apply", "read", "keys", "alloc", "copy", "count"}
  /\ process' = "crashed"
  /\ CloseUnchanged

Next == \/ \E t \in Thread : \/ Receive(t) \/ Step(t) \/ Spurious(t)
                             \/ ForwardLost(t) \/ UseDestroyed(t)
        \/ Interrupt \/ Close

Spec == Init /\ [][Next]_vars

\* The scheduler runs every thread that can run, and a thread is woken without
\* a signal finitely often.  Requests and broken connections are never owed.
FairSpec ==
  /\ Spec
  /\ \A t \in Thread : WF_vars(Step(t))
  /\ WF_vars(Close)
  /\ <>[][\A t \in Thread : ~Spurious(t)]_vars

-----------------------------------------------------------------------------
(* Properties. *)

Updating == {"u_check", "u_wait", "u_load", "u_store"}

\* t is between writers_count++ and writers_count--.
InWrite(t) == \/ pc[t] \in {"apply", "forward", "relock", "release"}
              \/ pc[t] \in Updating /\ msg[t].op \in Writes

\* t is between readers_count++ and readers_count--.
InRead(t) ==
  \/ pc[t] \in {"read", "keys", "alloc", "copy", "count", "leave", "leave_store"}
  \/ pc[t] \in Updating /\ msg[t].op \notin Writes

Steps == {"receive", "lock", "check", "sleep", "wait", "claim", "apply", "forward",
          "relock", "release", "enter", "enter_store", "read", "keys", "alloc",
          "copy", "count", "leave", "leave_store", "signal", "stats_enter",
          "stats_enter_store", "stats_leave", "stats_leave_store"} \cup Updating

\* Every variable keeps its type; writers_count never goes below zero.
TypeOK ==
  /\ process \in {"up", "closing", "exited", "crashed"}
  /\ table \subseteq Key
  /\ lock_data \in Thread \cup {None}
  /\ readers_count \in Int /\ writers_count \in Nat /\ stats_readers \in Int
  /\ num_ops \in Int
  /\ pc \in [Thread -> Steps]
  /\ msg \in [Thread -> Request]
  /\ reg \in [Thread -> Int]
  /\ copy \in [Thread -> [left : SUBSET Key, cap : Nat, n : Nat]]
  /\ reply \in [Thread -> {"none", "ok", "error", "garbage"}]
  /\ handled \in [Thread -> 0 .. MaxRequests]
  /\ applied \in Seq(Request) /\ forwarded \in Seq(Request)
  /\ executed \in Nat
  /\ raced \subseteq {"readers_count", "stats_readers"}

\* Two writers are never between writers_count++ and writers_count-- at the
\* same time, so one thread at a time uses the connection to the successor.
WriterExclusion == \A t, u \in Thread : InWrite(t) /\ InWrite(u) => t = u

\* What put or del did to the table still stands when its reply is decided:
\* no other write of the key slips in before the writer leaves.
WriteStable ==
  \A t \in Thread : InWrite(t) /\ pc[t] # "apply" =>
    (msg[t].key \in table <=> msg[t].op = "put")

\* The successor takes every write of this server, in the order the table took
\* them, and is never more than the one write being forwarded behind.
ForwardOrder ==
  IF Successor
  THEN \/ forwarded = applied
       \/ \E t \in Thread : pc[t] = "forward" /\ applied = Append(forwarded, msg[t])
  ELSE forwarded = <<>>

\* With only writers, no increment of num_ops is lost.
NumOpsExact == \E g \in Garbage : num_ops = g + executed

\* Whatever the mix of requests, num_ops never runs ahead of the operations.
NumOpsBounded == \E g \in Garbage : num_ops <= g + executed

\* With only writers, a writer waiting (or about to wait) for the condition
\* always has a writer in the section that still has its broadcast to make.
SleeperHasWaker ==
  (\E t \in Thread : pc[t] \in {"sleep", "wait"}) => \E w \in Thread : InWrite(w)

\* However many clients read, a writer is admitted over a reader that counted
\* itself before the check only after two updates of readers_count overlapped:
\* no path through a request counts a reader out too early or twice.
AdmissionSeesReader ==
  [][\A w, r \in Thread :
       pc[w] = "check" /\ pc'[w] = "claim" /\ InRead(r) => "readers_count" \in raced]_vars

\* Once every request is answered, no counter that shuts others out stays above
\* zero, and none below that would let a writer in over a reader, however many
\* clients read and ask for statistics, unless two updates of that counter have
\* overlapped.  (Unknown opcodes take stats_readers below zero.)
QuiescentCounters ==
  (alive /\ \A t \in Thread : pc[t] = "receive") =>
    /\ readers_count = 0 \/ "readers_count" \in raced
    /\ writers_count = 0
    /\ stats_readers <= 0 \/ "stats_readers" \in raced

\* Every request that invoke() starts on is answered.
InvokeReturns ==
  \A t \in Thread : (pc[t] # "receive") ~> (pc[t] = "receive" \/ ~alive)

\* t has counted itself in stats_readers and is on its way out.
InStats(t) == pc[t] \in {"stats_leave", "stats_leave_store"} /\ msg[t].op = "stats"

\* A read is answered unless a stats request of another client is in the middle
\* while it is served, or has lost an update of stats_readers: nothing else that
\* a reader waits for can fail to come, whatever writers, other readers and
\* unknown requests do.
ReadsReturn ==
  \A t \in Thread :
    (pc[t] = "enter") ~> \/ pc[t] = "receive" \/ ~alive
                         \/ \E u \in Thread : InStats(u)
                         \/ "stats_readers" \in raced

\* The server seen by the clients that write: a request is taken once the
\* successor has it, or the table if there is none.
Taken(t) == InWrite(t) /\ pc[t] \notin {"apply", "forward"}
Service == INSTANCE Replica WITH
  Write  <- [op : Writes, key : Key],
  Idle   <- NoRequest,
  phase  <- IF alive THEN process ELSE "down",
  log    <- IF Successor THEN forwarded ELSE applied,
  asked  <- [t \in Thread |-> IF pc[t] # "receive" /\ msg[t].op \in Writes THEN msg[t]
                                                                         ELSE NoRequest],
  answer <- [t \in Thread |-> IF Taken(t) THEN reply[t] ELSE "none"]

\* A put or del is one atomic write of this table and of the successor's, made
\* exactly once before its answer, which is the one the successor's own order of
\* writes determines: waiting, waking and the interleaving with readers, statistics
\* and the other writers never lose, repeat or reorder a write, nor tell a client
\* of a state that the successor did not see.
WritesAtomic == Service!Spec

-----------------------------------------------------------------------------
(* What the documentation says and the code does not do. *)

\* table_skel.c:200: invoke returns 0 or -1; it does not take the server down.
InvokeCompletes == process # "crashed"

=============================================================================
