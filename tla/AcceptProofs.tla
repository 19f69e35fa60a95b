---------------------------- MODULE AcceptProofs ----------------------------
(***************************************************************************)
(* What holds of the accepting loop and its threads for any number of      *)
(* clients, descriptors and failing calls: who serves which connection,    *)
(* who closes it, and what num_clients says.                               *)
(***************************************************************************)
EXTENDS Accept, Extrema, FiniteSetTheorems

\* The descriptor the system gives out next is a free one.
LEMMA LowestFree ==
  ASSUME TypeOK, Free # {}
  PROVE  Lowest(Free) \in Free
  <1>1. Free \subseteq Nat
    BY DEF Free, Fd
  <1>2. \E f \in Free : \A g \in Free : f <= g
    BY <1>1, LeastNatural
  <1> QED
    BY <1>2 DEF Lowest

\* Closing a descriptor keeps the types of what it changes.
LEMMA CloseFdTypes ==
  ASSUME TypeOK, NEW f, CloseFd(f)
  PROVE  /\ table' \in [Fd -> Conn \cup {None}]
         /\ conn' \in [Conn -> {"out", "queued", "open", "closed"}]
  BY DEF TypeOK, CloseFd

\* The server starts without connections: the types hold.
LEMMA InitTypes == Init => TypeOK
  <1> SUFFICES ASSUME Init PROVE TypeOK
    OBVIOUS
  <1>1. num_clients \in Int
    BY AcceptAssumption DEF Init
  <1>2. fails \in 0 .. MaxFails
    BY AcceptAssumption DEF Init
  <1>3. hungup \in [Conn -> BOOLEAN] /\ overlapped \in BOOLEAN /\ raced \in BOOLEAN
    BY DEF Init
  <1>4. at \in [Conn -> Starting \cup Serving \cup {"none", "exit"}]
    BY DEF Init, Starting, Serving
  <1>5. fd \in [Conn -> Fd \cup {-1, 0}] /\ connsockfd \in Fd \cup {-1, 0}
    BY DEF Init
  <1>6. reg \in [Conn -> Int]
    BY DEF Init
  <1> QED
    BY <1>1, <1>2, <1>3, <1>4, <1>5, <1>6 DEF Init, TypeOK

\* Every action keeps them.
LEMMA StepTypes == TypeOK /\ [Next]_vars => TypeOK'
  <1> SUFFICES ASSUME TypeOK, [Next]_vars PROVE TypeOK'
    OBVIOUS
  <1> USE DEF mainVars, clientVars, countVars
  <1>1. CASE UNCHANGED vars
    BY <1>1 DEF TypeOK, vars
  <1>2. CASE AcceptOne
    <2>1. Lowest(Free) \in Fd
      BY <1>2, LowestFree DEF AcceptOne, Free
    <2> QED
      BY <1>2, <2>1 DEF TypeOK, AcceptOne
  <1>3. CASE AcceptFails
    BY <1>3, AcceptAssumption DEF TypeOK, AcceptFails
  <1>4. CASE Create
    BY <1>4 DEF TypeOK, Create, Go, Starting, Serving
  <1>5. CASE CreateFails
    <2>1. /\ table' \in [Fd -> Conn \cup {None}]
          /\ conn' \in [Conn -> {"out", "queued", "open", "closed"}]
      BY <1>5, CloseFdTypes DEF CreateFails
    <2> QED
      BY <1>5, <2>1, AcceptAssumption DEF TypeOK, CreateFails
  <1>6. ASSUME NEW c \in Conn, Connect(c) \/ HangUp(c) PROVE TypeOK'
    BY <1>6 DEF TypeOK, Connect, HangUp
  <1>7. ASSUME NEW c \in Conn, ThreadStep(c) \/ Sleep(c) PROVE TypeOK'
    <2> USE DEF ThreadUnchanged, Go, Starting, Serving, Counting
    <2>1. CASE LoadCount(c)
      BY <2>1 DEF TypeOK, LoadCount
    <2>2. CASE StoreCount(c)
      BY <2>2 DEF TypeOK, StoreCount
    <2>3. CASE CopyFd(c) \/ ServeEnds(c) \/ Sleep(c)
      BY <2>3 DEF TypeOK, CopyFd, ServeEnds, Sleep
    <2>4. CASE Close(c)
      <3>1. /\ table' \in [Fd -> Conn \cup {None}]
            /\ conn' \in [Conn -> {"out", "queued", "open", "closed"}]
        BY <2>4, CloseFdTypes DEF Close
      <3> QED
        BY <2>4, <3>1 DEF TypeOK, Close
    <2> QED
      BY <1>7, <2>1, <2>2, <2>3, <2>4 DEF ThreadStep
  <1> QED
    BY <1>1, <1>2, <1>3, <1>4, <1>5, <1>6, <1>7 DEF Next, Main

\* Every variable keeps its type.
THEOREM AcceptTypeCorrect == Spec => []TypeOK
  BY InitTypes, StepTypes, PTL DEF Spec

-----------------------------------------------------------------------------
(* A thread is started once, for the connection accepted last.             *)

\* No thread runs for a connection that was not accepted, nor yet for the one
\* in hand.
StartInv ==
  \A c \in Conn : /\ conn[c] \in {"out", "queued"} => at[c] = "none" /\ fresh # c
                  /\ fresh = c => at[c] = "none"

\* Every action keeps that.
LEMMA StepStart == TypeOK /\ StartInv /\ [Next]_vars => StartInv'
  <1> SUFFICES ASSUME TypeOK, StartInv, [Next]_vars, NEW d \in Conn
               PROVE  /\ conn'[d] \in {"out", "queued"} => at'[d] = "none" /\ fresh' # d
                      /\ fresh' = d => at'[d] = "none"
    BY DEF StartInv
  <1> USE AcceptAssumption DEF mainVars, clientVars, countVars, StartInv
  <1>1. CASE UNCHANGED vars
    BY <1>1 DEF vars
  <1>2. CASE AcceptOne
    BY <1>2 DEF TypeOK, AcceptOne
  <1>3. CASE AcceptFails
    BY <1>3 DEF AcceptFails
  <1>4. CASE Create
    BY <1>4 DEF TypeOK, Create, Go
  <1>5. CASE CreateFails
    BY <1>5 DEF TypeOK, CreateFails, CloseFd
  <1>6. ASSUME NEW c \in Conn, Connect(c) \/ HangUp(c)
        PROVE  /\ conn'[d] = conn[d] \/ (conn[d] = "out" /\ conn'[d] = "queued")
               /\ UNCHANGED <<at, fresh>>
    BY <1>6 DEF TypeOK, Connect, HangUp
  <1>7. ASSUME NEW c \in Conn, ThreadStep(c) \/ Sleep(c)
        PROVE  /\ conn'[d] \in {conn[d], "closed"} /\ UNCHANGED fresh
               /\ at[d] = "none" => at'[d] = "none"
    BY <1>7 DEF TypeOK, ThreadStep, LoadCount, StoreCount, CopyFd, ServeEnds, Sleep, Close, CloseFd,
                ThreadUnchanged, Go, Counting
  <1> QED
    BY <1>1, <1>2, <1>3, <1>4, <1>5, <1>6, <1>7 DEF Next, Main

-----------------------------------------------------------------------------
(* Whose descriptor is whose.  OwnThread is not inductive: it says nothing *)
(* of a thread whose connection is closed, and not why a client that is    *)
(* still there is not cut off.                                             *)

\* Every open descriptor has a connection of its own.
TableInv ==
  /\ \A f, g \in Fd : table[f] # None /\ table[f] = table[g] => f = g
  /\ \A f \in Fd : table[f] # None => conn[table[f]] = "open"

Ending == {"dec_load", "dec_store", "close"}

\* The global, and then the copy a thread made of it, stand for the connection
\* the thread was started for; a thread ends when that client has gone.
OwnInv ==
  /\ \A c \in Conn : conn[c] = "open" => fresh = c \/ at[c] \in Starting \cup Serving
  /\ \A c \in Conn : fresh = c => Behind(connsockfd) = c
  /\ \A c \in Conn : at[c] \in Starting => Behind(connsockfd) = c /\ fresh = None
  /\ \A c \in Conn : at[c] \in Serving => Behind(fd[c]) = c
  /\ \A c \in Conn : at[c] \in Ending => hungup[c]

Own == StartInv /\ TableInv /\ (~overlapped => OwnInv)

\* A descriptor is given out or closed without making another one ambiguous.
LEMMA StepTable == TypeOK /\ StartInv /\ TableInv /\ [Next]_vars => TableInv'
  <1> SUFFICES ASSUME TypeOK, StartInv, TableInv, [Next]_vars PROVE TableInv'
    OBVIOUS
  <1> USE AcceptAssumption DEF mainVars, clientVars, countVars, TableInv
  <1>1. ASSUME UNCHANGED <<table, conn>> PROVE TableInv'
    BY <1>1
  <1>2. ASSUME NEW f, CloseFd(f) PROVE TableInv'
    <2>1. \A g \in Fd : table'[g] \in {table[g], None} /\ (table'[g] # None => g # f)
      BY <1>2 DEF CloseFd, TypeOK
    <2>2. ASSUME NEW g \in Fd, table'[g] # None PROVE conn'[table'[g]] = "open"
      <3>1. table'[g] = table[g] /\ g # f /\ table[g] \in Conn
        BY <2>1, <2>2 DEF TypeOK
      <3>2. table[g] # Behind(f)
        BY <3>1 DEF Behind
      <3> QED
        BY <1>2, <3>1, <3>2 DEF CloseFd
    <2> QED
      BY <2>1, <2>2
  <1>3. CASE AcceptOne
    <2>1. PICK c \in Conn : /\ conn[c] = "queued" /\ conn' = [conn EXCEPT ![c] = "open"]
                            /\ table' = [table EXCEPT ![Lowest(Free)] = c]
      BY <1>3 DEF AcceptOne
    <2>2. \A f \in Fd : table[f] # c
      BY <2>1
    <2>3. Lowest(Free) \in Fd
      BY <1>3, LowestFree DEF AcceptOne, Free
    <2>4. \A f \in Fd : table'[f] = IF f = Lowest(Free) THEN c ELSE table[f]
      BY <2>1 DEF TypeOK
    <2>5. \A d \in Conn : conn'[d] = IF d = c THEN "open" ELSE conn[d]
      BY <2>1 DEF TypeOK
    <2> QED
      BY <2>2, <2>3, <2>4, <2>5 DEF TypeOK
  <1>4. CASE CreateFails
    BY <1>4, <1>2 DEF CreateFails
  <1>5. ASSUME NEW c \in Conn, Close(c) PROVE TableInv'
    BY <1>5, <1>2 DEF Close
  <1>6. ASSUME NEW c \in Conn, Connect(c) PROVE TableInv'
    BY <1>6 DEF Connect, TypeOK
  <1>7. AcceptFails \/ Create \/ UNCHANGED vars => UNCHANGED <<table, conn>>
    BY DEF AcceptFails, Create, vars
  <1>8. ASSUME NEW c \in Conn,
               HangUp(c) \/ LoadCount(c) \/ StoreCount(c) \/ CopyFd(c) \/ ServeEnds(c) \/ Sleep(c)
        PROVE  UNCHANGED <<table, conn>>
    BY <1>8 DEF HangUp, LoadCount, StoreCount, CopyFd, ServeEnds, Sleep
  <1> QED
    BY <1>1, <1>3, <1>4, <1>5, <1>6, <1>7, <1>8 DEF Next, Main, ThreadStep

\* The other actions leave the descriptors and the counters of the loop alone,
\* or move one thread on; each keeps who owns what.
LEMMA StepOwn == TypeOK /\ StartInv /\ TableInv /\ OwnInv /\ [Next]_vars /\ ~overlapped' => OwnInv'
  <1> SUFFICES ASSUME TypeOK, StartInv, TableInv, OwnInv, [Next]_vars, ~overlapped'
               PROVE  OwnInv'
    OBVIOUS
  <1> USE AcceptAssumption DEF mainVars, clientVars, countVars, Starting, Serving, Ending
  <1>1. CASE UNCHANGED vars
    BY <1>1 DEF OwnInv, Behind, vars
  <1>2. CASE AcceptOne
    <2>1. PICK c \in Conn : /\ conn[c] = "queued" /\ conn' = [conn EXCEPT ![c] = "open"]
                            /\ table' = [table EXCEPT ![Lowest(Free)] = c]
                            /\ fresh' = c
      BY <1>2 DEF AcceptOne
    <2>2. Lowest(Free) \in Fd /\ table[Lowest(Free)] = None
      BY <1>2, LowestFree DEF AcceptOne, Free
    <2>3. connsockfd' = Lowest(Free) /\ UNCHANGED <<at, fd, hungup>>
          /\ \A d \in Conn : at[d] \notin Starting
      BY <1>2 DEF AcceptOne, Unread
    <2>4. \A d \in Conn : Behind(fd[d]) = d => Behind(fd[d])' = d
      BY <2>1, <2>2, <2>3 DEF Behind, TypeOK
    <2>5. Behind(connsockfd)' = c
      BY <2>1, <2>2, <2>3 DEF Behind, TypeOK
    <2>6. \A d \in Conn : conn'[d] = "open" => d = c \/ conn[d] = "open"
      BY <2>1 DEF TypeOK
    <2>7. fresh = None
      BY <1>2 DEF AcceptOne
    <2> QED
      BY <2>1, <2>3, <2>4, <2>5, <2>6, <2>7 DEF OwnInv, TypeOK
  <1>3. CASE AcceptFails
    BY <1>3 DEF OwnInv, AcceptFails, Unread, Behind
  <1>4. CASE Create
    BY <1>4 DEF TypeOK, OwnInv, StartInv, Create, Go, Behind
  <1>5. ASSUME NEW f \in Fd \cup {-1, 0}, NEW c \in Conn, Behind(f) = c, CloseFd(f)
        PROVE  /\ \A d \in Conn : conn'[d] = "open" => d # c /\ conn[d] = "open"
               /\ \A g \in Fd \cup {-1, 0} : Behind(g) # c => Behind(g)' = Behind(g)
    <2>1. \A d \in Conn : conn'[d] = IF d = c THEN "closed" ELSE conn[d]
      BY <1>5 DEF CloseFd
    <2>2. \A g \in Fd : table'[g] = IF g = f THEN None ELSE table[g]
      BY <1>5 DEF CloseFd
    <2> QED
      BY <1>5, <2>1, <2>2 DEF Behind
  <1>6. CASE CreateFails
    <2>1. fresh \in Conn /\ Behind(connsockfd) = fresh /\ fresh' = None
          /\ CloseFd(connsockfd) /\ UNCHANGED <<connsockfd, at, fd, hungup>>
      BY <1>6 DEF TypeOK, OwnInv, CreateFails
    <2>2. connsockfd \in Fd \cup {-1, 0} /\ \A d \in Conn : fd[d] \in Fd \cup {-1, 0}
      BY DEF TypeOK
    <2> QED
      BY <2>1, <2>2, <1>5 DEF OwnInv, StartInv
  <1>7. ASSUME NEW c \in Conn, Close(c) PROVE OwnInv'
    <2>1. Behind(fd[c]) = c /\ CloseFd(fd[c]) /\ at' = [at EXCEPT ![c] = "exit"]
          /\ fd' = [fd EXCEPT ![c] = 0] /\ UNCHANGED <<connsockfd, fresh, hungup>>
          /\ at[c] = "close"
      BY <1>7 DEF OwnInv, Close, Go, ThreadUnchanged
    <2>2. connsockfd \in Fd \cup {-1, 0} /\ \A d \in Conn : fd[d] \in Fd \cup {-1, 0}
      BY DEF TypeOK
    <2>3. \A d \in Conn \ {c} : at'[d] = at[d] /\ fd'[d] = fd[d]
      BY <2>1
    <2>4. at'[c] = "exit" /\ fresh # c
      BY <2>1 DEF TypeOK, StartInv
    <2>5. /\ \A d \in Conn : conn'[d] = "open" => d # c /\ conn[d] = "open"
          /\ \A g \in Fd \cup {-1, 0} : Behind(g) # c => Behind(g)' = Behind(g)
      BY <2>1, <2>2, <1>5
    <2> QED
      BY <2>1, <2>2, <2>3, <2>4, <2>5 DEF OwnInv
  <1>8. ASSUME NEW c \in Conn, Connect(c) \/ HangUp(c) PROVE OwnInv'
    <2>1. /\ UNCHANGED <<connsockfd, fresh, table, at, fd>>
          /\ \A d \in Conn : (conn'[d] = "open" => conn[d] = "open") /\ (hungup[d] => hungup'[d])
      BY <1>8 DEF TypeOK, Connect, HangUp
    <2> QED
      BY <2>1 DEF OwnInv, Behind
  <1>9. ASSUME NEW c \in Conn, LoadCount(c) \/ StoreCount(c) \/ CopyFd(c) PROVE OwnInv'
    BY <1>9 DEF TypeOK, OwnInv, Behind, LoadCount, StoreCount, CopyFd, Counting, Go,
                ThreadUnchanged
  <1>10. ASSUME NEW c \in Conn, ServeEnds(c) PROVE OwnInv'
    <2>1. Behind(fd[c]) = c /\ hungup[c]
      BY <1>10 DEF OwnInv, ServeEnds
    <2> QED
      BY <1>10, <2>1 DEF TypeOK, OwnInv, Behind, ServeEnds, Go, ThreadUnchanged
  <1>11. ASSUME NEW c \in Conn, Sleep(c) PROVE OwnInv'
    BY <1>11 DEF TypeOK, OwnInv, Behind, Sleep, Go, ThreadUnchanged
  <1> QED
    BY <1>1, <1>2, <1>3, <1>4, <1>6, <1>7, <1>8, <1>9, <1>10, <1>11 DEF Next, Main, ThreadStep

\* That the global was overwritten is not forgotten.
LEMMA OverlappedStays == overlapped /\ [Next]_vars => overlapped'
  BY DEF Next, Main, AcceptOne, AcceptFails, Create, CreateFails, Connect, HangUp, ThreadStep,
         LoadCount, StoreCount, CopyFd, ServeEnds, Sleep, Close, ThreadUnchanged, mainVars, vars

\* Before the first connection nothing is owned.
LEMMA InitOwn == Init => Own
  BY AcceptAssumption DEF Init, Own, StartInv, TableInv, OwnInv, Starting, Serving, Ending

\* So the ownership of descriptors is an invariant.
LEMMA OwnInvariant == Spec => [](TypeOK /\ Own)
  <1>1. TypeOK /\ Own /\ [Next]_vars => Own'
    BY StepStart, StepTable, StepOwn, OverlappedStays DEF Own
  <1> QED
    BY <1>1, InitTypes, InitOwn, StepTypes, PTL DEF Spec

\* An open connection has its own thread and no other, however many clients
\* come and go, unless an accept overtakes a thread that is starting.
THEOREM ThreadsOwn == Spec => []OwnThread
  <1>1. TypeOK /\ Own => OwnThread
    <2> SUFFICES ASSUME TypeOK, OwnInv, NEW c \in Conn, conn[c] = "open"
                 PROVE  \/ fresh = c /\ Behind(connsockfd) = c
                        \/ at[c] \in Starting /\ Behind(connsockfd) = c
                        \/ /\ at[c] \in Serving /\ Behind(fd[c]) = c
                           /\ \A t \in Conn \ {c} : at[t] \in Serving => fd[t] # fd[c]
      BY DEF Own, OwnThread
    <2>1. fresh = c \/ at[c] \in Starting \cup Serving
      BY DEF OwnInv
    <2>2. CASE at[c] \in Serving
      <3>1. ASSUME NEW t \in Conn \ {c}, at[t] \in Serving, fd[t] = fd[c]
            PROVE  FALSE
        BY <2>2, <3>1 DEF OwnInv
      <3> QED
        BY <2>2, <3>1 DEF OwnInv
    <2> QED
      BY <2>1, <2>2 DEF OwnInv
  <1> QED
    BY <1>1, OwnInvariant, PTL

\* No client that is still there loses its connection to another thread's end.
THEOREM NobodyCut == Spec => CutsNobody
  <1>1. ASSUME TypeOK, Own, [Next]_vars, NEW c \in Conn, conn[c] = "open", conn'[c] = "closed",
               ~overlapped
        PROVE  hungup[c] \/ fresh = c
    <2> USE DEF Own, OwnInv, mainVars, clientVars, countVars
    <2>1. ASSUME NEW f, CloseFd(f) PROVE Behind(f) = c
      BY <1>1, <2>1 DEF CloseFd
    <2>2. CASE CreateFails
      BY <1>1, <2>1, <2>2, AcceptAssumption DEF CreateFails, TypeOK
    <2>3. ASSUME NEW t \in Conn, Close(t) PROVE hungup[c]
      BY <1>1, <2>1, <2>3 DEF Close, Serving, Ending
    <2>4. CASE AcceptOne
      BY <1>1, <2>4 DEF TypeOK, AcceptOne
    <2>5. ASSUME NEW t \in Conn, Connect(t) PROVE FALSE
      BY <1>1, <2>5 DEF TypeOK, Connect
    <2>6. AcceptFails \/ Create \/ UNCHANGED vars => UNCHANGED conn
      BY DEF AcceptFails, Create, vars
    <2>7. ASSUME NEW t \in Conn,
                 HangUp(t) \/ LoadCount(t) \/ StoreCount(t) \/ CopyFd(t) \/ ServeEnds(t) \/ Sleep(t)
          PROVE  UNCHANGED conn
      BY <2>7 DEF HangUp, LoadCount, StoreCount, CopyFd, ServeEnds, Sleep
    <2> QED
      BY <1>1, <2>2, <2>3, <2>4, <2>5, <2>6, <2>7 DEF Next, Main, ThreadStep
  <1>2. TypeOK /\ Own /\ [Next]_vars =>
          [\A c \in Conn : conn[c] = "open" /\ conn'[c] = "closed" =>
             hungup[c] \/ fresh = c \/ overlapped]_vars
    BY <1>1
  <1> QED
    BY <1>2, OwnInvariant, PTL DEF Spec, CutsNobody

-----------------------------------------------------------------------------
(* The number of clients.  Two threads that change it at the same time have *)
(* raced; as long as none have, who is about to store loaded what is there. *)

CountInv ==
  /\ \A c \in Conn : at[c] \in Counting => reg[c] = num_clients
  /\ \A c, d \in Conn : at[c] \in Counting /\ at[d] \in Counting => c = d
  /\ \E g \in Garbage : num_clients = g + Cardinality(Counted)

\* A finite set of connections that one joins or leaves is one larger or smaller.
LEMMA CountedSize ==
  ASSUME NEW c \in Conn
  PROVE  /\ Cardinality(Counted) \in Nat
         /\ Counted' = Counted => Cardinality(Counted') = Cardinality(Counted)
         /\ c \notin Counted /\ Counted' = Counted \cup {c} =>
              Cardinality(Counted') = Cardinality(Counted) + 1
         /\ c \in Counted /\ Counted' = Counted \ {c} =>
              Cardinality(Counted') = Cardinality(Counted) - 1
  <1>1. IsFiniteSet(Counted)
    BY AcceptAssumption, FS_Subset DEF Counted
  <1> QED
    BY <1>1, FS_CardinalityType, FS_AddElement, FS_RemoveElement

\* Every action keeps the count, unless there is a race.
LEMMA StepCount ==
  TypeOK /\ StartInv /\ (~raced => CountInv) /\ [Next]_vars => (~raced' => CountInv')
  <1> SUFFICES ASSUME TypeOK, StartInv, ~raced => CountInv, [Next]_vars, ~raced'
               PROVE  CountInv'
    OBVIOUS
  <1> USE DEF mainVars, clientVars, countVars, Counting
  <1>1. ASSUME ~raced, UNCHANGED <<num_clients, reg>>, Counted' = Counted,
               \A c \in Conn : at'[c] \in Counting => at[c] \in Counting
        PROVE  CountInv'
    BY <1>1 DEF CountInv
  <1>2. CASE UNCHANGED vars
    BY <1>1, <1>2 DEF vars, Counted
  <1>3. CASE AcceptOne \/ AcceptFails \/ CreateFails
    <2>1. UNCHANGED <<at, num_clients, reg, raced>>
      BY <1>3 DEF AcceptOne, AcceptFails, CreateFails
    <2> QED
      BY <1>1, <2>1 DEF Counted
  <1>4. CASE Create
    <2>1. /\ fresh \in Conn /\ at[fresh] = "none" /\ at' = [at EXCEPT ![fresh] = "load"]
          /\ UNCHANGED <<num_clients, reg, raced>>
      BY <1>4 DEF TypeOK, StartInv, Create, Go
    <2>2. Counted' = Counted
      BY <2>1 DEF TypeOK, Counted
    <2> QED
      BY <1>1, <2>1, <2>2 DEF TypeOK
  <1>5. ASSUME NEW c \in Conn, Connect(c) \/ HangUp(c) PROVE CountInv'
    <2>1. UNCHANGED <<at, num_clients, reg, raced>>
      BY <1>5 DEF Connect, HangUp
    <2> QED
      BY <1>1, <2>1 DEF Counted
  <1>6. ASSUME NEW c \in Conn, CopyFd(c) \/ ServeEnds(c) \/ Sleep(c) \/ Close(c) PROVE CountInv'
    <2>1. /\ UNCHANGED <<num_clients, reg, raced>>
          /\ \/ at[c] = "copy" /\ at' = [at EXCEPT ![c] = "serve"]
             \/ at[c] = "serve" /\ at' = [at EXCEPT ![c] = "dec_load"]
             \/ at[c] = "serve" /\ at' = [at EXCEPT ![c] = "asleep"]
             \/ at[c] = "close" /\ at' = [at EXCEPT ![c] = "exit"]
      BY <1>6 DEF CopyFd, ServeEnds, Sleep, Close, Go, ThreadUnchanged
    <2>2. Counted' = Counted
      BY <2>1 DEF TypeOK, Counted
    <2> QED
      BY <1>1, <2>1, <2>2 DEF TypeOK
  <1>7. ASSUME NEW c \in Conn, LoadCount(c) PROVE CountInv'
    <2>1. /\ at[c] \in {"load", "dec_load"} /\ reg' = [reg EXCEPT ![c] = num_clients]
          /\ \A d \in Conn : at[d] \notin Counting
          /\ at' = [at EXCEPT ![c] = IF at[c] = "load" THEN "store" ELSE "dec_store"]
          /\ UNCHANGED num_clients /\ ~raced
      BY <1>7 DEF LoadCount, Go
    <2>2. Counted' = Counted
      BY <2>1 DEF TypeOK, Counted
    <2>3. \A d \in Conn : at'[d] \in Counting => d = c /\ reg'[d] = num_clients
      BY <2>1 DEF TypeOK
    <2> QED
      BY <2>1, <2>2, <2>3 DEF CountInv
  <1>8. ASSUME NEW c \in Conn, StoreCount(c) PROVE CountInv'
    <2>1. PICK g \in Garbage : num_clients = g + Cardinality(Counted)
      BY <1>8 DEF StoreCount, CountInv
    <2>2. /\ reg[c] = num_clients /\ reg' = [reg EXCEPT ![c] = 0]
          /\ \A d \in Conn \ {c} : at[d] \notin Counting
      BY <1>8 DEF StoreCount, CountInv
    <2>3. g \in Int
      BY AcceptAssumption
    <2>4. CASE at[c] = "store"
      <3>1. num_clients' = num_clients + 1 /\ at' = [at EXCEPT ![c] = "copy"]
        BY <1>8, <2>2, <2>4 DEF StoreCount, Go
      <3>2. c \notin Counted /\ Counted' = Counted \cup {c}
        BY <2>4, <3>1 DEF TypeOK, Counted
      <3>3. num_clients' = g + Cardinality(Counted')
        <4>1. Cardinality(Counted) \in Nat
              /\ Cardinality(Counted') = Cardinality(Counted) + 1
          BY <3>2, CountedSize
        <4> QED
          BY <2>1, <2>3, <3>1, <4>1
      <3>4. \A d \in Conn : at'[d] \notin Counting
        BY <2>2, <3>1 DEF TypeOK
      <3> QED
        BY <3>3, <3>4 DEF CountInv
    <2>5. CASE at[c] = "dec_store"
      <3>1. num_clients' = num_clients - 1 /\ at' = [at EXCEPT ![c] = "close"]
        BY <1>8, <2>2, <2>5 DEF StoreCount, Go
      <3>2. c \in Counted /\ Counted' = Counted \ {c}
        BY <2>5, <3>1 DEF TypeOK, Counted
      <3>3. num_clients' = g + Cardinality(Counted')
        <4>1. Cardinality(Counted) \in Nat
              /\ Cardinality(Counted') = Cardinality(Counted) - 1
          BY <3>2, CountedSize
        <4> QED
          BY <2>1, <2>3, <3>1, <4>1
      <3>4. \A d \in Conn : at'[d] \notin Counting
        BY <2>2, <3>1 DEF TypeOK
      <3> QED
        BY <3>3, <3>4 DEF CountInv
    <2> QED
      BY <1>8, <2>4, <2>5 DEF StoreCount
  <1> QED
    BY <1>2, <1>3, <1>4, <1>5, <1>6, <1>7, <1>8 DEF Next, Main, ThreadStep

\* num_clients counts the clients, whatever their number, as long as no two
\* threads change it at the same time.
THEOREM NumClientsExact == Spec => []ClientsCounted
  <1>1. Init => CountInv
    <2>1. Init => Counted = {}
      BY DEF Init, Counted
    <2> QED
      BY <2>1, FS_EmptySet, AcceptAssumption DEF Init, CountInv, Counting
  <1>2. (~raced => CountInv) => ClientsCounted
    BY DEF CountInv, ClientsCounted
  <1>3. Init => StartInv
    BY InitOwn DEF Own
  <1> QED
    BY <1>1, <1>2, <1>3, InitTypes, StepTypes, StepStart, StepCount, PTL DEF Spec

=============================================================================
