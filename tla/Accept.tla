------------------------------- MODULE Accept -------------------------------
(***************************************************************************)
(* How a server takes connections (network_server.c): network_main_loop()  *)
(* accepts into the global connsockfd and starts a thread, which counts    *)
(* itself in stats->num_clients, reads the descriptor through a pointer to *)
(* that global, serves the connection and closes it; main() starts the     *)
(* loop again whenever accept() fails.                                     *)
(*                                                                         *)
(* The thread started for connection c is called c.  Connections are made  *)
(* of the system's descriptors, of which it gives out the lowest.          *)
(***************************************************************************)
EXTENDS Integers, FiniteSets

CONSTANTS
  Conn,      \* connections clients make, one each
  MaxFd,     \* descriptors are 1 .. MaxFd: the limit of the process
  MaxFails,  \* bound: accept() and pthread_create() that fail by themselves
  Garbage,   \* what malloc may leave in stats->num_clients
  None       \* no connection

Fd == 1 .. MaxFd
ASSUME AcceptAssumption ==
  /\ IsFiniteSet(Conn) /\ None \notin Conn
  /\ MaxFd \in Nat /\ MaxFails \in Nat /\ Garbage \subseteq Int

VARIABLES
  connsockfd,   \* the global, -1 when accept() failed
  fresh,        \* the connection main has accepted and not yet given away
  table,        \* table[f]: the connection that descriptor f stands for
  conn,         \* conn[c]: "out", "queued", "open" or "closed"
  hungup,       \* hungup[c]: the client of c has gone
  at,           \* at[c]: step of thread c in client_thread_handler
  fd,           \* fd[c]: its own connsockfd, until it exits
  num_clients,  \* stats->num_clients
  reg,          \* reg[c]: num_clients as thread c loaded it, until it stores
  fails,        \* calls that failed so far
  overlapped,   \* history: the global was written before a thread had read it
  raced         \* history: two threads changed num_clients at the same time

mainVars   == <<connsockfd, fresh, fails, overlapped>>
clientVars == <<hungup>>
countVars  == <<num_clients, reg, raced>>
vars == <<mainVars, clientVars, countVars, table, conn, at, fd>>

Starting == {"load", "store", "copy"}
Serving  == {"serve", "asleep", "dec_load", "dec_store", "close"}
Counting == {"store", "dec_store"}

Free == {f \in Fd : table[f] = None}
Lowest(S) == CHOOSE f \in S : \A g \in S : f <= g
Unread == \E c \in Conn : at[c] \in Starting
Go(c, step) == at' = [at EXCEPT ![c] = step]
\* The connection a descriptor stands for: none if it was closed, or is -1.
Behind(f) == IF f \in Fd THEN table[f] ELSE None

Init ==
  /\ connsockfd = 0 /\ fresh = None /\ fails = 0 /\ overlapped = FALSE
  /\ table = [f \in Fd |-> None]
  /\ conn = [c \in Conn |-> "out"] /\ hungup = [c \in Conn |-> FALSE]
  /\ at = [c \in Conn |-> "none"] /\ fd = [c \in Conn |-> 0]
  /\ num_clients \in Garbage /\ reg = [c \in Conn |-> 0] /\ raced = FALSE

-----------------------------------------------------------------------------
(* Clients. *)

Connect(c) ==
  /\ conn[c] = "out" /\ conn' = [conn EXCEPT ![c] = "queued"]
  /\ UNCHANGED <<mainVars, clientVars, countVars, table, at, fd>>

HangUp(c) ==
  /\ conn[c] \in {"queued", "open"} /\ ~hungup[c]
  /\ hungup' = [hungup EXCEPT ![c] = TRUE]
  /\ UNCHANGED <<mainVars, countVars, table, conn, at, fd>>

-----------------------------------------------------------------------------
(* The main thread. *)

\* close(f): the other end sees the end of the stream.
CloseFd(f) ==
  /\ table' = [g \in Fd |-> IF g = f THEN None ELSE table[g]]
  /\ conn' = [c \in Conn |-> IF c = Behind(f) THEN "closed" ELSE conn[c]]

\* Mutant of AcceptOne: the main thread joins a thread instead of detaching it.
AcceptJoined ==
  /\ fresh = None /\ Free # {}
  /\ \A c \in Conn : at[c] \in {"none", "exit"}
  /\ \E c \in Conn :
       /\ conn[c] = "queued"
       /\ conn' = [conn EXCEPT ![c] = "open"]
       /\ table' = [table EXCEPT ![Lowest(Free)] = c]
       /\ fresh' = c
  /\ connsockfd' = Lowest(Free)
  /\ UNCHANGED <<overlapped, fails, clientVars, countVars, at, fd>>

AcceptOne ==
  /\ fresh = None /\ Free # {}
  /\ \E c \in Conn :
       /\ conn[c] = "queued"
       /\ conn' = [conn EXCEPT ![c] = "open"]
       /\ table' = [table EXCEPT ![Lowest(Free)] = c]
       /\ fresh' = c
  /\ connsockfd' = Lowest(Free)
  /\ overlapped' = (overlapped \/ Unread)
  /\ UNCHANGED <<fails, clientVars, countVars, at, fd>>

\* Mutant of AcceptFails: the loop goes on with the -1.
AcceptFailsOn ==
  /\ fresh = None
  /\ IF Free = {} THEN UNCHANGED fails ELSE fails < MaxFails /\ fails' = fails + 1
  /\ connsockfd' = -1 /\ fresh' = connsockfd'
  /\ overlapped' = (overlapped \/ Unread)
  /\ UNCHANGED <<clientVars, countVars, table, conn, at, fd>>

\* The loop returns -1 and main() calls it again.  With all descriptors in use
\* accept() fails at once.
AcceptFails ==
  /\ fresh = None
  /\ IF Free = {} THEN UNCHANGED fails ELSE fails < MaxFails /\ fails' = fails + 1
  /\ connsockfd' = -1
  /\ overlapped' = (overlapped \/ Unread)
  /\ UNCHANGED <<fresh, clientVars, countVars, table, conn, at, fd>>

Create ==
  /\ fresh # None
  /\ Go(fresh, "load")
  /\ fresh' = None
  /\ UNCHANGED <<connsockfd, fails, overlapped, clientVars, countVars, table, conn, fd>>

\* Mutant of CreateFails: the descriptor is not closed.
CreateFailsOpen ==
  /\ fresh # None /\ fails < MaxFails
  /\ fresh' = None /\ fails' = fails + 1
  /\ UNCHANGED <<connsockfd, overlapped, clientVars, countVars, table, conn, at, fd>>

CreateFails ==
  /\ fresh # None /\ fails < MaxFails
  /\ CloseFd(connsockfd)
  /\ fresh' = None /\ fails' = fails + 1
  /\ UNCHANGED <<connsockfd, overlapped, clientVars, countVars, at, fd>>

Main == AcceptOne \/ AcceptFails \/ Create \/ CreateFails

-----------------------------------------------------------------------------
(* client_thread_handler *)

ThreadUnchanged == UNCHANGED <<mainVars, clientVars>>

\* num_clients++ and --, each a load and a store
LoadCount(c) ==
  /\ at[c] \in {"load", "dec_load"}
  /\ reg' = [reg EXCEPT ![c] = num_clients]
  /\ raced' = (raced \/ \E t \in Conn : at[t] \in Counting)
  /\ Go(c, IF at[c] = "load" THEN "store" ELSE "dec_store")
  /\ ThreadUnchanged /\ UNCHANGED <<num_clients, table, conn, fd>>

\* Mutant of StoreCount: only the arrivals are counted.
StoreCountUp(c) ==
  /\ at[c] \in Counting
  /\ num_clients' = IF at[c] = "store" THEN reg[c] + 1 ELSE reg[c]
  /\ Go(c, IF at[c] = "store" THEN "copy" ELSE "close")
  /\ reg' = [reg EXCEPT ![c] = 0]
  /\ ThreadUnchanged /\ UNCHANGED <<raced, table, conn, fd>>

StoreCount(c) ==
  /\ at[c] \in Counting
  /\ num_clients' = IF at[c] = "store" THEN reg[c] + 1 ELSE reg[c] - 1
  /\ Go(c, IF at[c] = "store" THEN "copy" ELSE "close")
  /\ reg' = [reg EXCEPT ![c] = 0]
  /\ ThreadUnchanged /\ UNCHANGED <<raced, table, conn, fd>>

\* int connsockfd = *((int *)arg)
CopyFd(c) ==
  /\ at[c] = "copy"
  /\ fd' = [fd EXCEPT ![c] = connsockfd]
  /\ Go(c, "serve")
  /\ ThreadUnchanged /\ UNCHANGED <<countVars, table, conn>>

\* A request of the client is in invoke(), which waits for a reader that leaves
\* without a word or for a stats request that never wakes it: for ever.
Sleep(c) ==
  /\ at[c] = "serve" /\ Behind(fd[c]) # None
  /\ Go(c, "asleep")
  /\ ThreadUnchanged /\ UNCHANGED <<countVars, table, conn, fd>>

\* Mutant of ServeEnds: a client that is quiet counts as gone.
ServeEndsEarly(c) ==
  /\ at[c] = "serve"
  /\ Go(c, "dec_load")
  /\ ThreadUnchanged /\ UNCHANGED <<countVars, table, conn, fd>>

\* network_receive returns NULL: the client has gone, or nothing is open there.
ServeEnds(c) ==
  LET b == Behind(fd[c]) IN
  /\ at[c] = "serve"
  /\ b # None => hungup[b]
  /\ Go(c, "dec_load")
  /\ ThreadUnchanged /\ UNCHANGED <<countVars, table, conn, fd>>

\* Mutant of Close: the global is closed instead of the thread's own.
CloseGlobal(c) ==
  /\ at[c] = "close"
  /\ CloseFd(connsockfd)
  /\ Go(c, "exit")
  /\ fd' = [fd EXCEPT ![c] = 0]
  /\ ThreadUnchanged /\ UNCHANGED countVars

Close(c) ==
  /\ at[c] = "close"
  /\ CloseFd(fd[c])
  /\ Go(c, "exit")
  /\ fd' = [fd EXCEPT ![c] = 0]
  /\ ThreadUnchanged /\ UNCHANGED countVars

ThreadStep(c) == LoadCount(c) \/ StoreCount(c) \/ CopyFd(c) \/ ServeEnds(c) \/ Close(c)

-----------------------------------------------------------------------------
Next == Main \/ \E c \in Conn : Connect(c) \/ HangUp(c) \/ ThreadStep(c) \/ Sleep(c)

Spec == Init /\ [][Next]_vars

\* The main thread and the client threads run; no client has to come or go, and
\* a thread asleep in invoke() goes on with nothing.
FairSpec ==
  /\ Spec
  /\ WF_vars(AcceptOne) /\ WF_vars(Create)
  /\ \A c \in Conn : WF_vars(ThreadStep(c))

-----------------------------------------------------------------------------
(* Properties. *)

\* Every variable keeps its type.
TypeOK ==
  /\ connsockfd \in Fd \cup {-1, 0} /\ fresh \in Conn \cup {None}
  /\ table \in [Fd -> Conn \cup {None}]
  /\ conn \in [Conn -> {"out", "queued", "open", "closed"}]
  /\ hungup \in [Conn -> BOOLEAN]
  /\ at \in [Conn -> Starting \cup Serving \cup {"none", "exit"}]
  /\ fd \in [Conn -> Fd \cup {-1, 0}]
  /\ num_clients \in Int /\ reg \in [Conn -> Int]
  /\ fails \in 0 .. MaxFails
  /\ overlapped \in BOOLEAN /\ raced \in BOOLEAN

\* As long as every thread has read the global before the next accept returns,
\* an open connection is served by the thread started for it and by no other,
\* whatever descriptors are given out again.
OwnThread ==
  ~overlapped =>
    \A c \in Conn : conn[c] = "open" =>
      \/ fresh = c /\ Behind(connsockfd) = c
      \/ at[c] \in Starting /\ Behind(connsockfd) = c
      \/ /\ at[c] \in Serving /\ Behind(fd[c]) = c
         /\ \A t \in Conn \ {c} : at[t] \in Serving => fd[t] # fd[c]

\* Under the same condition the server closes no connection of a client that is
\* still there, except for one it could start no thread for.
CutsNobody ==
  [][\A c \in Conn :
       conn[c] = "open" /\ conn'[c] = "closed" =>
         hungup[c] \/ fresh = c \/ overlapped]_vars

\* Between num_clients++ and num_clients--.
Counted == {c \in Conn : at[c] \in {"copy", "serve", "asleep", "dec_load", "dec_store"}}

\* num_clients is off by what it started with and by nothing else, unless two
\* threads have changed it at the same time: no way out of a thread, and no
\* failure to accept or to start one, leaves a client counted.
ClientsCounted ==
  ~raced => \E g \in Garbage : num_clients = g + Cardinality(Counted)

\* A client that connects gets its thread (or the connection is closed because
\* none could be started), unless the descriptors run out or the global was
\* overwritten.
Admitted ==
  \A c \in Conn :
    (conn[c] = "queued") ~>
      (at[c] = "serve" \/ conn[c] = "closed" \/ Free = {} \/ overlapped)

\* The descriptor of a client that has gone is given back, unless its thread
\* sleeps in invoke().
DescriptorsReturn ==
  \A c \in Conn :
    (conn[c] = "open" /\ hungup[c]) ~> (conn[c] = "closed" \/ at[c] = "asleep" \/ overlapped)
=============================================================================
