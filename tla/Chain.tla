------------------------------- MODULE Chain -------------------------------
(***************************************************************************)
(* The servers of the chain and what holds them together: the ephemeral    *)
(* sequential znodes under /chain, the one-shot watch on its children,     *)
(* table_skel_init() of a joining server, child_watcher() of a running one *)
(* and the writes, which a server applies and passes to its successor      *)
(* before it answers (invoke() and rtable_put(), rtable_del()).            *)
(*                                                                         *)
(* Server s is the one whose znode got the sequence number s.  A server    *)
(* that restarts gets a new number, so "down" is for ever.                 *)
(*                                                                         *)
(* A table is abstracted to the writes that made it, in order.  Inside a   *)
(* server one write runs at a time (module Invoke proves it), so a server  *)
(* has one job; it may also sleep in invoke() for ever (module Invoke shows *)
(* how).                                                                   *)
(***************************************************************************)
EXTENDS Integers, Sequences, FiniteSets

CONSTANTS
  N,          \* bound: servers that ever join
  Client,
  MaxWrites,  \* bound: writes all clients send
  MaxFaults,  \* bound: servers that stop, or lose their session, by themselves
  Lossy,      \* bound: servers that may lose their session while they run
  LowestId,   \* where get_lowest_id_node() of a client starts: 100000
  Null,       \* successor_metadata == NULL, no address, no peer
  Freed       \* successor_metadata points to memory already freed

Server == 1 .. N
Write  == 1 .. MaxWrites

ASSUME ChainAssumption ==
  /\ N \in Nat \ {0} /\ MaxWrites \in Nat /\ MaxFaults \in Nat /\ LowestId \in Nat
  /\ Lossy \subseteq Server
  /\ Null # Freed /\ Null \notin Server /\ Freed \notin Server
  /\ Client \cap (Server \cup {Null, Freed}) = {}

VARIABLES
  znode,     \* znode[s]: s has its znode under /chain
  armed,     \* the watch of s on the children of /chain is set
  event,     \* a child event waits for s's ZooKeeper completion thread
  lost,      \* servers whose session expired while they ran
  phase,     \* how far table_skel_init and the main loop of s have come
  faulty,    \* servers that stopped by themselves
  peer,      \* the address or connection table_skel_init of s works with
  seen,      \* length of the antecessor's table when it began to read it for s
  children,  \* children_list of s
  stale,     \* child_watcher of s has freed a children_list
  watcher,   \* whether child_watcher of s is between its two parts
  succ,      \* successor_metadata of s
  late,      \* history: servers whose child_watcher last ran between the lookup
             \* and the store of the successor by table_skel_init
  table,     \* the writes that made the table of s
  inbox,     \* writes received by s and not yet begun
  job,       \* the write s is executing
  client,    \* the clients' connections and what they wait for
  sent       \* writes sent by the clients so far

zkVars     == <<znode, armed, event, lost>>
initVars   == <<phase, faulty, peer, seen>>
listVars   == <<children, stale, watcher, late>>
clientVars == <<client, sent>>
vars == <<zkVars, initVars, listVars, succ, table, inbox, job, clientVars>>

Alive(s) == phase[s] \notin {"off", "down"}
Children == {s \in Server : znode[s]}

Idle == [at |-> "idle", from |-> Null, write |-> 0, peer |-> Null]
\* The thread that is to execute the next write, or to answer the last one, sleeps.
Asleep == [Idle EXCEPT !.at = "asleep"]

Init ==
  /\ znode = [s \in Server |-> FALSE]
  /\ armed = [s \in Server |-> FALSE] /\ event = [s \in Server |-> FALSE]
  /\ lost = {}
  /\ phase = [s \in Server |-> "off"] /\ faulty = {}
  /\ peer = [s \in Server |-> Null] /\ seen = [s \in Server |-> 0]
  /\ children = [s \in Server |-> {}] /\ stale = [s \in Server |-> FALSE]
  /\ watcher = [s \in Server |-> "idle"]
  /\ succ = [s \in Server |-> Null] /\ late = {}
  /\ table = [s \in Server |-> <<>>]
  /\ inbox = [s \in Server |-> {}] /\ job = [s \in Server |-> Idle]
  /\ client = [c \in Client |-> [at |-> "out", head |-> Null, tail |-> Null, list |-> {}]]
  /\ sent = 0

\* s stops: what it knew, what it was doing and what it had not begun is lost
\* with it.  Its znode stays until its session expires; its table is kept to
\* compare with, nobody can read it.
Die(s) ==
  /\ phase' = [phase EXCEPT ![s] = "down"]
  /\ peer' = [peer EXCEPT ![s] = Null]
  /\ seen' = [seen EXCEPT ![s] = 0]
  /\ inbox' = [inbox EXCEPT ![s] = {}]
  /\ job' = [job EXCEPT ![s] = Idle]
  /\ succ' = [succ EXCEPT ![s] = Null]
  /\ children' = [children EXCEPT ![s] = {}]
  /\ stale' = [stale EXCEPT ![s] = FALSE]
  /\ watcher' = [watcher EXCEPT ![s] = "idle"]
  /\ armed' = [armed EXCEPT ![s] = FALSE]
  /\ event' = [event EXCEPT ![s] = FALSE]
  /\ late' = late \ {s}
  /\ UNCHANGED <<znode, lost, table, clientVars>>

Reach(s, p) == phase' = [phase EXCEPT ![s] = p]

\* rtable_connect: refused unless the peer has come to listen().
Connect(a) == IF phase[a] = "up" THEN a ELSE Null

\* zoo_wget finds the address of a, if a number was found and its znode is there.
Found(a) == IF a = Null THEN FALSE ELSE znode[a]

Highest(S) == CHOOSE a \in S : \A b \in S : b <= a
Lowest(S)  == CHOOSE a \in S : \A b \in S : a <= b
\* The names among which get_lowest_id_node() looks for the lowest.
Named(S) == {a \in S : a < LowestId}

Elements(q) == {q[i] : i \in DOMAIN q}

\* t is some of what u is, in the order of u.
Follows(t, u) ==
  \E at \in [1 .. Len(t) -> 1 .. Len(u)] :
    \A i \in 1 .. Len(t) : /\ t[i] = u[at[i]]
                            /\ \A j \in 1 .. i - 1 : at[j] < at[i]

\* Mutant of GetSuccessor: >= for >.
GetSuccessorSelf(s) ==
  LET later == {c \in children[s] : c >= s} IN
  IF later = {} THEN Null ELSE Highest(later)

\* The highest number beyond s's own in its children_list.
GetSuccessor(s) ==
  LET later == {c \in children[s] : c > s} IN
  IF later = {} THEN Null ELSE Highest(later)

\* The highest number below s's own.
GetAntecessor(s) ==
  LET earlier == {c \in children[s] : c < s} IN
  IF earlier = {} THEN Null ELSE Highest(earlier)

-----------------------------------------------------------------------------
(* ZooKeeper: numbers in order of creation, watches that fire once, znodes *)
(* that outlive their server until its session expires.                    *)

\* Every watch that is set fires, but those of the sessions that are lost.
ChildrenChange ==
  /\ event' = [s \in Server |-> event[s] \/ (armed[s] /\ s \notin lost')]
  /\ armed' = [s \in Server |-> FALSE]

Expire(s) ==
  /\ phase[s] = "down" /\ znode[s]
  /\ znode' = [znode EXCEPT ![s] = FALSE]
  /\ UNCHANGED lost /\ ChildrenChange
  /\ UNCHANGED <<initVars, listVars, succ, table, inbox, job, clientVars>>

Faults == Cardinality(faulty) + Cardinality(lost)

\* A server that serves is away from ZooKeeper for longer than its session lasts:
\* its znode and its watch are gone, and nothing in the server reacts to that.
\* (Bound: joining is over well within the timeout of 100 s.)
Lose(s) ==
  /\ phase[s] = "up" /\ s \in Lossy \ lost /\ Faults < MaxFaults
  /\ lost' = lost \cup {s}
  /\ znode' = [znode EXCEPT ![s] = FALSE]
  /\ ChildrenChange
  /\ UNCHANGED <<initVars, listVars, succ, table, inbox, job, clientVars>>

-----------------------------------------------------------------------------
(* table_skel_init, in the main thread, and network_main_loop.             *)

Register(s) ==
  /\ phase[s] = "off"
  /\ \A r \in 1 .. s - 1 : phase[r] # "off"
  /\ znode' = [znode EXCEPT ![s] = TRUE]
  /\ UNCHANGED lost /\ ChildrenChange
  /\ Reach(s, "registered")
  /\ UNCHANGED <<faulty, peer, seen, listVars, succ, table, inbox, job, clientVars>>

List(s) ==
  /\ phase[s] = "registered"
  /\ children' = [children EXCEPT ![s] = Children]
  /\ armed' = [armed EXCEPT ![s] = TRUE]
  /\ Reach(s, "listed")
  /\ UNCHANGED <<znode, event, lost, faulty, peer, seen, stale, watcher, late, succ,
                 table, inbox, job, clientVars>>

JoinUnchanged == UNCHANGED <<zkVars, faulty, listVars, inbox, job, clientVars>>

\* Steps 4 and 5: every child of the list has been there when its turn came, the
\* successor may have gone since; its address is looked up, ...
LookUp(s) ==
  LET a == GetSuccessor(s) IN
  /\ phase[s] = "listed"
  /\ IF Found(a) THEN Reach(s, "found") /\ peer' = [peer EXCEPT ![s] = a]
                 ELSE Reach(s, "linked") /\ UNCHANGED peer
  /\ JoinUnchanged /\ UNCHANGED <<seen, succ, table>>

\* ... the connection is tried, ...
Dial(s) ==
  /\ phase[s] = "found"
  /\ peer' = [peer EXCEPT ![s] = Connect(@)]
  /\ Reach(s, "connected")
  /\ JoinUnchanged /\ UNCHANGED <<seen, succ, table>>

\* ... and what came of it is stored, over whatever child_watcher has stored.
Link(s) ==
  /\ phase[s] = "connected"
  /\ succ' = [succ EXCEPT ![s] = peer[s]]
  /\ peer' = [peer EXCEPT ![s] = Null]
  /\ Reach(s, "linked")
  /\ JoinUnchanged /\ UNCHANGED <<seen, table>>

\* zoo_wexists on a child that is gone: init returns NULL and main exits.
GiveUp(s) ==
  /\ phase[s] = "listed"
  /\ \E c \in children[s] : ~znode[c]
  /\ Die(s) /\ UNCHANGED faulty

\* Step 8: the antecessor is asked for its table; without one the table is empty.
AskTable(s) ==
  LET a == GetAntecessor(s) IN
  /\ phase[s] = "linked"
  /\ IF Found(a)
     THEN /\ phase[a] = "up"
          /\ Reach(s, "copying")
          /\ peer' = [peer EXCEPT ![s] = a]
          /\ seen' = [seen EXCEPT ![s] = Len(table[a])]
     ELSE Reach(s, "copied") /\ UNCHANGED <<peer, seen>>
  /\ JoinUnchanged /\ UNCHANGED <<succ, table>>

\* The antecessor reads its table without a lock, list by list and key by key:
\* of the writes beside it the answer has these and not those.
Torn(s) == Len(table[peer[s]]) # seen[s]
Copies(s) ==
  LET u == table[peer[s]] IN
  IF Torn(s) THEN {t \in UNION {[1 .. n -> Elements(u)] : n \in 0 .. Len(u)} : Follows(t, u)}
             ELSE {u}

Copy(s) ==
  /\ phase[s] = "copying" /\ phase[peer[s]] = "up"
  /\ \E t \in Copies(s) : table' = [table EXCEPT ![s] = t]
  /\ peer' = [peer EXCEPT ![s] = Null] /\ seen' = [seen EXCEPT ![s] = 0]
  /\ Reach(s, "copied")
  /\ JoinUnchanged /\ UNCHANGED succ

\* A read beside a write takes the antecessor down (module Invoke shows how).
CopyTears(s) ==
  /\ phase[s] = "copying" /\ phase[peer[s]] = "up" /\ Torn(s)
  /\ Die(peer[s]) /\ UNCHANGED faulty

\* The antecessor refuses the connection, or is gone before it has answered:
\* rtable_get_table gets a NULL.
CopyCrash(s) ==
  LET a == GetAntecessor(s) IN
  /\ \/ phase[s] = "linked" /\ Found(a) /\ phase[a] # "up"
     \/ phase[s] = "copying" /\ phase[peer[s]] = "down"
  /\ Die(s) /\ UNCHANGED faulty

\* The completion thread has freed the children_list this thread is reading.
ListCrash(s) ==
  /\ phase[s] \in {"listed", "linked"} /\ stale[s]
  /\ Die(s) /\ UNCHANGED faulty

Listen(s) ==
  /\ phase[s] = "copied"
  /\ Reach(s, "up")
  /\ JoinUnchanged /\ UNCHANGED <<peer, seen, succ, table>>

Join(s) == Register(s) \/ List(s) \/ LookUp(s) \/ Dial(s) \/ Link(s) \/ GiveUp(s)
           \/ AskTable(s) \/ Copy(s) \/ CopyTears(s) \/ CopyCrash(s) \/ ListCrash(s)
           \/ Listen(s)

-----------------------------------------------------------------------------
(* child_watcher, in the completion thread: it fetches the children, sets  *)
(* the watch again, closes and frees the old connection; then it looks the *)
(* new successor up and connects to it.  successor_metadata keeps the old  *)
(* pointer if there is none, and children_list the list freed at the end.  *)

WatchUnchanged == UNCHANGED <<znode, lost, initVars, table, inbox, clientVars>>

\* table_skel_init of s holds an address, or a connection, it has yet to store.
Storing(s) == phase[s] \in {"found", "connected"}
Overtakes(s) == late' = IF Storing(s) THEN late \cup {s} ELSE late \ {s}

\* Mutant of Refetch: zoo_get_children, which sets no watch.
RefetchOnce(s) ==
  /\ Alive(s) /\ event[s] /\ watcher[s] = "idle"
  /\ event' = [event EXCEPT ![s] = FALSE] /\ UNCHANGED armed
  /\ children' = [children EXCEPT ![s] = Children]
  /\ stale' = [stale EXCEPT ![s] = TRUE]
  /\ watcher' = [watcher EXCEPT ![s] = "lookup"]
  /\ succ' = [succ EXCEPT ![s] = IF @ = Null THEN Null ELSE Freed]
  /\ Overtakes(s)
  /\ UNCHANGED job /\ WatchUnchanged

\* Mutant of Refetch: the old connection is kept until there is another.
RefetchKeeps(s) ==
  LET fetched == s \notin lost IN
  /\ Alive(s) /\ event[s] /\ watcher[s] = "idle"
  /\ event' = [event EXCEPT ![s] = FALSE]
  /\ armed' = [armed EXCEPT ![s] = fetched]
  /\ children' = [children EXCEPT ![s] = IF fetched THEN Children ELSE {}]
  /\ stale' = [stale EXCEPT ![s] = TRUE]
  /\ watcher' = [watcher EXCEPT ![s] = "lookup"]
  /\ Overtakes(s)
  /\ UNCHANGED <<succ, job>> /\ WatchUnchanged

\* Without a session the fetch fails and the list is what malloc returned, here
\* one with no entries.  A write that waits on the old connection may still get
\* its answer there, or read the freed rtable and wait on a descriptor nobody
\* writes to.
Refetch(s) ==
  LET fetched == s \notin lost IN
  /\ Alive(s) /\ event[s] /\ watcher[s] = "idle"
  /\ event' = [event EXCEPT ![s] = FALSE]
  /\ armed' = [armed EXCEPT ![s] = fetched]
  /\ children' = [children EXCEPT ![s] = IF fetched THEN Children ELSE {}]
  /\ stale' = [stale EXCEPT ![s] = TRUE]
  /\ watcher' = [watcher EXCEPT ![s] = "lookup"]
  /\ succ' = [succ EXCEPT ![s] = IF @ = Null THEN Null ELSE Freed]
  /\ \/ UNCHANGED job
     \/ job[s].at = "waiting" /\ job' = [job EXCEPT ![s].at = "hung"]
  /\ Overtakes(s)
  /\ WatchUnchanged

\* What the handler frees twice, or frees under a write in progress, may be
\* noticed by the allocator or by the thread that uses it; a list that was not
\* fetched leads anywhere.
RefetchCrash(s) ==
  /\ Alive(s) /\ event[s] /\ watcher[s] = "idle"
  /\ stale[s] \/ s \in lost \/ succ[s] = Freed \/ job[s].at = "waiting"
  /\ Die(s) /\ UNCHANGED faulty

Relink(s) ==
  LET a == GetSuccessor(s) IN
  /\ Alive(s) /\ watcher[s] = "lookup"
  /\ succ' = [succ EXCEPT ![s] =
                IF s \notin lost /\ Found(a) THEN Connect(a) ELSE @]
  /\ watcher' = [watcher EXCEPT ![s] = "idle"]
  /\ UNCHANGED <<zkVars, initVars, children, stale, late, table, inbox, job, clientVars>>

Watch(s) == Refetch(s) \/ RefetchCrash(s) \/ Relink(s)

-----------------------------------------------------------------------------
(* A write at a server: table_put or table_remove, then the successor.     *)

\* Repeating the last write leaves the table as it is.
Applied(t, w) == IF t # <<>> /\ t[Len(t)] = w THEN t ELSE Append(t, w)

JobUnchanged == UNCHANGED <<zkVars, listVars, succ>>

\* Mutant of Apply: table_put fails, and its result is not looked at.
ApplyFails(s) ==
  /\ phase[s] = "up" /\ job[s] = Idle
  /\ \E m \in inbox[s] :
       /\ \/ UNCHANGED table
          \/ table' = [table EXCEPT ![s] = Applied(@, m.write)]
       /\ inbox' = [inbox EXCEPT ![s] = @ \ {m}]
       /\ job' = [job EXCEPT ![s] = [at |-> "applied", from |-> m.from,
                                     write |-> m.write, peer |-> Null]]
  /\ UNCHANGED <<initVars, clientVars>> /\ JobUnchanged

Apply(s) ==
  /\ phase[s] = "up" /\ job[s] = Idle
  /\ \E m \in inbox[s] :
       /\ inbox' = [inbox EXCEPT ![s] = @ \ {m}]
       /\ table' = [table EXCEPT ![s] = Applied(@, m.write)]
       /\ job' = [job EXCEPT ![s] = [at |-> "applied", from |-> m.from,
                                     write |-> m.write, peer |-> Null]]
  /\ UNCHANGED <<initVars, clientVars>> /\ JobUnchanged

\* The thread meets a reader that leaves without waking it, or a stats request
\* that never wakes it (before the write, or before the answer), and sleeps for
\* ever in invoke(): whoever reads, the client of a tail or a server that joins.
Sleep(s) ==
  /\ phase[s] = "up"
  /\ \/ job[s] = Idle /\ inbox[s] # {}
     \/ job[s].at = "done"
  /\ job' = [job EXCEPT ![s] = Asleep]
  /\ UNCHANGED <<initVars, table, inbox, clientVars>> /\ JobUnchanged

NoSuccessor(s) ==
  /\ job[s].at = "applied" /\ succ[s] = Null
  /\ job' = [job EXCEPT ![s].at = "done"]
  /\ UNCHANGED <<initVars, table, inbox, clientVars>> /\ JobUnchanged

\* Mutant of Forward: the answer of the successor is not waited for.
ForwardOnly(s) ==
  LET a == succ[s] IN
  /\ job[s].at = "applied" /\ a \in Server /\ phase[a] = "up"
  /\ inbox' = [inbox EXCEPT ![a] = @ \cup {[from |-> s, write |-> job[s].write]}]
  /\ job' = [job EXCEPT ![s] = [at |-> "done", from |-> @.from, write |-> @.write,
                                peer |-> a]]
  /\ UNCHANGED <<initVars, table, clientVars>> /\ JobUnchanged

\* rtable_put or rtable_del sends the write and waits for the answer.
Forward(s) ==
  LET a == succ[s] IN
  /\ job[s].at = "applied" /\ a \in Server /\ phase[a] = "up"
  /\ inbox' = [inbox EXCEPT ![a] = @ \cup {[from |-> s, write |-> job[s].write]}]
  /\ job' = [job EXCEPT ![s] = [at |-> "waiting", from |-> @.from, write |-> @.write,
                                peer |-> a]]
  /\ UNCHANGED <<initVars, table, clientVars>> /\ JobUnchanged

\* The peer is gone before or after the message: network_send_receive returns
\* NULL and the caller dereferences it.
PeerGone(s) ==
  /\ \/ job[s].at = "applied" /\ succ[s] \in Server /\ phase[succ[s]] # "up"
     \/ job[s].at = "waiting" /\ phase[job[s].peer] = "down"
  /\ Die(s) /\ UNCHANGED faulty

\* The freed rtable holds a descriptor that fails, or that never answers.
UseFreed(s) ==
  /\ job[s].at = "applied" /\ succ[s] = Freed
  /\ \/ Die(s) /\ UNCHANGED faulty
     \/ /\ job' = [job EXCEPT ![s].at = "hung"]
        /\ UNCHANGED <<initVars, inbox, table, clientVars>> /\ JobUnchanged

\* f still waits for the answer of s.
WaitsFor(f, s) == f \in Server /\ job[f].at = "waiting" /\ job[f].peer = s

\* Mutant of Answer: the thread keeps what it knew of the finished write.
AnswerKeeps(s) ==
  LET f == job[s].from IN
  /\ job[s].at = "done"
  /\ job' = [r \in Server |->
               CASE r = s -> [job[s] EXCEPT !.at = "idle"]
                 [] r = f /\ WaitsFor(f, s) -> [job[f] EXCEPT !.at = "done"]
                 [] OTHER -> job[r]]
  /\ client' = [c \in Client |->
                  IF c = f /\ client[c].at = "waiting"
                  THEN [client[c] EXCEPT !.at = "idle"] ELSE client[c]]
  /\ UNCHANGED <<initVars, table, inbox, sent>> /\ JobUnchanged

\* invoke returns and network_send answers whoever sent the write.
Answer(s) ==
  LET f == job[s].from IN
  /\ job[s].at = "done"
  /\ job' = [r \in Server |->
               CASE r = s -> Idle
                 [] r = f /\ WaitsFor(f, s) -> [job[f] EXCEPT !.at = "done"]
                 [] OTHER -> job[r]]
  /\ client' = [c \in Client |->
                  IF c = f /\ client[c].at = "waiting"
                  THEN [client[c] EXCEPT !.at = "idle"] ELSE client[c]]
  /\ UNCHANGED <<initVars, table, inbox, sent>> /\ JobUnchanged

Serve(s) == Apply(s) \/ NoSuccessor(s) \/ Forward(s) \/ PeerGone(s)
            \/ UseFreed(s) \/ Answer(s)

\* The process is killed or its machine stops.
Fail(s) ==
  /\ Alive(s) /\ Faults < MaxFaults
  /\ Die(s) /\ faulty' = faulty \cup {s}

-----------------------------------------------------------------------------
(* Clients: connected to the lowest and the highest number they find, if   *)
(* these listen, and to those for good: child_watcher of table_client.c     *)
(* does nothing with a list it could fetch.  A client that stops is one that *)
(* sends no more.                                                          *)

ClientUnchanged == UNCHANGED <<zkVars, initVars, listVars, succ, table, job>>

\* zoo_wget_children, with a watch
Start(c) ==
  /\ client[c].at = "out"
  /\ client' = [client EXCEPT ![c].at = "listed", ![c].list = Children]
  /\ UNCHANGED <<sent, inbox>> /\ ClientUnchanged

\* Without children, or none with a number below LowestId, there is no name to
\* look up; without an address for the head none is used for the tail.
OpenHead(c) ==
  LET named == Named(client[c].list)
      a == Lowest(named) IN
  /\ client[c].at = "listed"
  /\ client' = [client EXCEPT ![c] =
       CASE named = {} -> [@ EXCEPT !.at = "down", !.list = {}]
         [] named # {} /\ znode[a]  -> [@ EXCEPT !.at = "headed", !.head = Connect(a)]
         [] named # {} /\ ~znode[a] -> [@ EXCEPT !.at = "idle", !.list = {}]]
  /\ UNCHANGED <<sent, inbox>> /\ ClientUnchanged

\* rtable_connect() is called with whatever the lookup of the tail returned.
OpenTail(c) ==
  LET a == Highest(client[c].list) IN
  /\ client[c].at = "headed"
  /\ client' = [client EXCEPT ![c] =
       IF znode[a] THEN [@ EXCEPT !.at = "idle", !.tail = Connect(a), !.list = {}]
       ELSE [@ EXCEPT !.at = "down", !.list = {}]]
  /\ UNCHANGED <<sent, inbox>> /\ ClientUnchanged

\* put and del go to the head, one at a time.
Submit(c) ==
  LET h == client[c].head IN
  /\ client[c].at = "idle" /\ sent < MaxWrites /\ h # Null /\ phase[h] = "up"
  /\ sent' = sent + 1
  /\ inbox' = [inbox EXCEPT ![h] = @ \cup {[from |-> c, write |-> sent + 1]}]
  /\ client' = [client EXCEPT ![c].at = "waiting"]
  /\ ClientUnchanged

\* There never was a connection, or the server is gone: a write dereferences
\* NULL on the head, a read on the tail.  (A read that works changes nothing.)
CommandCrash(c) ==
  /\ client[c].at = "idle"
  /\ \E a \in {client[c].head, client[c].tail} : a # Null => phase[a] = "down"
  /\ client' = [client EXCEPT ![c].at = "down"]
  /\ UNCHANGED <<sent, inbox>> /\ ClientUnchanged

\* The head goes while the client waits: rtable_put dereferences NULL here too.
ClientCrash(c) ==
  /\ client[c].at = "waiting" /\ phase[client[c].head] = "down"
  /\ client' = [client EXCEPT ![c].at = "down"]
  /\ UNCHANGED <<sent, inbox>> /\ ClientUnchanged

\* What a client does to itself and to its head.
Command(c) == Start(c) \/ OpenHead(c) \/ OpenTail(c) \/ Submit(c) \/ CommandCrash(c)
              \/ ClientCrash(c)

-----------------------------------------------------------------------------
Next ==
  \/ \E s \in Server : \/ Join(s) \/ Watch(s) \/ Serve(s) \/ Sleep(s)
                       \/ Expire(s) \/ Lose(s) \/ Fail(s)
  \/ \E c \in Client : Command(c)

Spec == Init /\ [][Next]_vars

\* The threads that serve requests run, unless they sleep in invoke() for ever,
\* and messages arrive.  No more is needed: servers need not come nor finish
\* joining, events may be late for ever, and nobody has to write or to fail.
FairSpec ==
  /\ Spec
  /\ \A s \in Server : WF_vars(Serve(s))
  /\ \A c \in Client : WF_vars(ClientCrash(c))

-----------------------------------------------------------------------------
(* Properties. *)

Phases == {"off", "registered", "listed", "found", "connected", "linked", "copying",
           "copied", "up", "down"}
Request == [from : Server \cup Client, write : Write]
Working == [at : {"applied", "waiting", "done", "hung"}, from : Server \cup Client,
            write : Write, peer : Server \cup {Null}]
Connections == [at : {"out", "listed", "headed", "idle", "waiting", "down"},
                head : Server \cup {Null}, tail : Server \cup {Null}, list : SUBSET Server]

\* Every variable keeps its type, and a client that has its head has a list.
TypeOK ==
  /\ znode \in [Server -> BOOLEAN] /\ armed \in [Server -> BOOLEAN]
  /\ event \in [Server -> BOOLEAN]
  /\ lost \subseteq Server
  /\ phase \in [Server -> Phases]
  /\ faulty \subseteq Server /\ late \subseteq Server
  /\ peer \in [Server -> Server \cup {Null}] /\ seen \in [Server -> Nat]
  /\ \A s \in Server : phase[s] \in {"found", "copying"} => peer[s] # Null
  /\ children \in [Server -> SUBSET Server] /\ stale \in [Server -> BOOLEAN]
  /\ watcher \in [Server -> {"idle", "lookup"}]
  /\ succ \in [Server -> Server \cup {Null, Freed}]
  /\ table \in [Server -> Seq(Write)]
  /\ inbox \in [Server -> SUBSET Request]
  /\ job \in [Server -> Working \cup {Idle, Asleep}]
  /\ client \in [Client -> Connections]
  /\ \A c \in Client : client[c].at = "headed" => client[c].list # {}
  /\ sent \in 0 .. MaxWrites

\* A server connects, and waits, only towards higher numbers: writes passed on
\* inside the writers' section cannot wait for each other in a circle.
ForwardUp ==
  \A s \in Server : /\ succ[s] \in Server => s < succ[s]
                    /\ job[s].peer \in Server => s < job[s].peer

\* A write that was passed on is in the successor's table before it is answered.
DoneMeansPeer ==
  \A s \in Server :
    job[s].at = "done" /\ job[s].peer \in Server =>
      job[s].write \in Elements(table[job[s].peer])

\* No write is sent to a server that is known to be gone: when no event waits, the
\* successor of a server with a session still has its znode (it may have stopped, but
\* its session has not expired), unless child_watcher last ran while table_skel_init
\* was about to store what it had looked up before.
NoDeadSuccessor ==
  \A s \in Server :
    Alive(s) /\ s \notin lost /\ ~event[s] /\ s \notin late =>
      (succ[s] \in Server => znode[succ[s]])

\* With one client, a server that serves has some of the writes of the client's
\* head, in the head's order, and none the head does not have.
FollowsHead ==
  \A c \in Client, s \in Server :
    client[c].head # Null /\ phase[s] = "up" => Follows(table[s], table[client[c].head])

\* The watch fires once and is set again in the handler, and still no change of
\* the children goes unnoticed: what a server with a session knows is current or
\* about to be.
NoMissedChange ==
  \A s \in Server :
    Alive(s) /\ s \notin lost /\ phase[s] # "registered" /\ ~event[s] =>
      children[s] = Children

\* Every write is answered or its client sees the head fail, unless a server from
\* the head on is caught on a freed connection or sleeps in invoke(): neither waiting
\* for each other, nor a failure, nor a change of successor makes a chain whose
\* servers answer wait for ever.
ClientServed ==
  \A c \in Client :
    (client[c].at = "waiting") ~>
      \/ client[c].at # "waiting"
      \/ \E s \in Server : s >= client[c].head /\ job[s].at \in {"hung", "asleep"}

-----------------------------------------------------------------------------
(* What the documentation says and the code does not do. *)

\* No event, handler, joining server or write is in progress.
Quiet == \A s \in Server : /\ phase[s] \in {"off", "up"}
                           /\ ~event[s] /\ watcher[s] = "idle"
                           /\ job[s] = Idle /\ inbox[s] = {}

\* table_skel.c:501: get_successor finds the node that succeeds this one.
SuccessorIsNext ==
  Quiet => \A s \in Server : succ[s] \in Server => \A b \in Children : ~(s < b /\ b < succ[s])

\* README.md:2: the servers replicate.  Once nothing is in progress, a client
\* reads at the tail what the head has answered, when no server ever failed.
AckedVisible ==
  \A c \in Client : Quiet /\ client[c].at = "idle" /\ client[c].tail # Null =>
    1 .. sent \subseteq Elements(table[client[c].tail])

=============================================================================
