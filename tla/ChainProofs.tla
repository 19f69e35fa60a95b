---------------------------- MODULE ChainProofs ----------------------------
(***************************************************************************)
(* What holds of the chain for any number of servers, clients, writes and  *)
(* faults: the types, the direction of the connections, and what a server  *)
(* knows of the children of /chain.                                        *)
(***************************************************************************)
EXTENDS Chain, Extrema, SequenceTheorems

\* Highest finds a member of any non-empty set of servers.
LEMMA HighestIn ==
  ASSUME NEW S, S \subseteq Server, S # {}
  PROVE  Highest(S) \in S
  <1>1. S \subseteq 0 .. N /\ N \in Nat
    BY ChainAssumption DEF Server
  <1>2. \E m \in S : \A k \in S : k <= m
    BY <1>1, GreatestNatural
  <1> QED
    BY <1>2 DEF Highest

\* Lowest finds a member of any non-empty set of servers.
LEMMA LowestIn ==
  ASSUME NEW S, S \subseteq Server, S # {}
  PROVE  Lowest(S) \in S
  <1>1. S \subseteq Nat
    BY DEF Server
  <1>2. \E a \in S : \A b \in S : a <= b
    BY <1>1, LeastNatural
  <1> QED
    BY <1>2 DEF Lowest

\* get_successor finds nobody, or a server beyond the one that looks.
LEMMA SuccessorAbove ==
  ASSUME TypeOK, NEW s \in Server
  PROVE  GetSuccessor(s) = Null \/ (GetSuccessor(s) \in Server /\ s < GetSuccessor(s))
  <1> DEFINE later == {c \in children[s] : c > s}
  <1>1. later \subseteq Server
    BY DEF TypeOK
  <1>2. CASE later = {}
    BY <1>2 DEF GetSuccessor
  <1>3. CASE later # {}
    <2>1. Highest(later) \in later
      BY <1>1, <1>3, HighestIn
    <2>2. GetSuccessor(s) = Highest(later)
      BY <1>3 DEF GetSuccessor
    <2> QED
      BY <1>1, <2>1, <2>2 DEF Server
  <1> QED
    BY <1>2, <1>3

\* So does the connection made to what it found.
LEMMA ConnectPeer ==
  ASSUME TypeOK, NEW s \in Server
  PROVE  LET j == Connect(GetSuccessor(s)) IN j = Null \/ (j \in Server /\ s < j)
  <1>1. CASE GetSuccessor(s) = Null
    BY <1>1 DEF Connect
  <1>2. CASE GetSuccessor(s) # Null
    BY <1>2, SuccessorAbove DEF Connect
  <1> QED
    BY <1>1, <1>2

\* A job that is neither idle nor asleep is a write.
LEMMA JobWorks ==
  ASSUME TypeOK, NEW s \in Server, job[s].at \notin {"idle", "asleep"}
  PROVE  job[s] \in Working
  <1>1. Idle.at = "idle" /\ Asleep.at = "asleep"
    BY DEF Idle, Asleep
  <1> QED
    BY <1>1 DEF TypeOK

\* A server that only changes the step of its write keeps the type of job.
LEMMA JobAtTypes ==
  ASSUME TypeOK, NEW s \in Server, job[s] \in Working,
         NEW step \in {"applied", "waiting", "done", "hung"}
  PROVE  [job EXCEPT ![s].at = step] \in [Server -> Working \cup {Idle, Asleep}]
  <1>1. [job[s] EXCEPT !.at = step] \in Working
    BY DEF Working
  <1>2. [job EXCEPT ![s].at = step] = [job EXCEPT ![s] = [job[s] EXCEPT !.at = step]]
    OBVIOUS
  <1> QED
    BY <1>1, <1>2 DEF TypeOK

\* So does a client that only changes what it is doing.
LEMMA ClientAtTypes ==
  ASSUME TypeOK, NEW c \in Client, NEW step \in {"out", "listed", "headed", "idle", "waiting", "down"}
  PROVE  [client[c] EXCEPT !.at = step] \in Connections /\ [client[c] EXCEPT !.at = step].at = step
  <1>1. client[c] \in Connections
    BY DEF TypeOK
  <1> QED
    BY <1>1 DEF Connections

\* And a client that moves to another connection record.
LEMMA ClientMoves ==
  ASSUME TypeOK, NEW c \in Client, NEW next \in Connections,
         next.at = "headed" => next.list # {}, client' = [client EXCEPT ![c] = next]
  PROVE  /\ client' \in [Client -> Connections]
         /\ \A d \in Client : client'[d].at = "headed" => client'[d].list # {}
  BY DEF TypeOK

\* get_anteccessor finds nobody, or a server.
LEMMA AntecessorIn ==
  ASSUME TypeOK, NEW s \in Server, GetAntecessor(s) # Null
  PROVE  GetAntecessor(s) \in Server
  <1> DEFINE earlier == {c \in children[s] : c < s}
  <1>1. earlier \subseteq Server
    BY DEF TypeOK
  <1>2. earlier # {} /\ GetAntecessor(s) = Highest(earlier)
    BY DEF GetAntecessor
  <1> HIDE DEF earlier
  <1> QED
    BY <1>1, <1>2, HighestIn

\* The steps that only take a server down: their own, or their antecessor.
Dying(s) ==
  \/ GiveUp(s) \/ CopyTears(s) \/ CopyCrash(s) \/ ListCrash(s)
  \/ RefetchCrash(s) \/ PeerGone(s) \/ Fail(s)

LEMMA DyingDies ==
  ASSUME TypeOK, NEW s \in Server, Dying(s)
  PROVE  \E d \in Server : Die(d) /\ faulty' \subseteq Server
  <1>1. CASE GiveUp(s) \/ CopyCrash(s) \/ ListCrash(s) \/ RefetchCrash(s) \/ PeerGone(s) \/ Fail(s)
    BY <1>1 DEF GiveUp, CopyCrash, ListCrash, RefetchCrash, PeerGone, Fail, TypeOK
  <1>2. CASE CopyTears(s)
    BY <1>2 DEF CopyTears, TypeOK
  <1> QED
    BY <1>1, <1>2 DEF Dying

\* A server that dies keeps the types.
LEMMA DieTypes ==
  ASSUME TypeOK, NEW s \in Server, Die(s), faulty' \subseteq Server
  PROVE  TypeOK'
  <1> USE DEF zkVars, initVars, listVars, clientVars
  <1>1. /\ phase' \in [Server -> Phases]
        /\ peer' \in [Server -> Server \cup {Null}] /\ seen' \in [Server -> Nat]
        /\ \A r \in Server : phase'[r] \in {"found", "copying"} => peer'[r] # Null
        /\ inbox' \in [Server -> SUBSET Request]
        /\ job' \in [Server -> Working \cup {Idle, Asleep}]
        /\ succ' \in [Server -> Server \cup {Null, Freed}]
    BY DEF TypeOK, Die, Phases
  <1>2. /\ children' \in [Server -> SUBSET Server] /\ stale' \in [Server -> BOOLEAN]
        /\ watcher' \in [Server -> {"idle", "lookup"}]
        /\ armed' \in [Server -> BOOLEAN] /\ event' \in [Server -> BOOLEAN]
    BY DEF TypeOK, Die
  <1> QED
    BY <1>1, <1>2 DEF TypeOK, Die

\* A table copied while it is written has some of its writes, in their order.
LEMMA CopiesFollow ==
  ASSUME TypeOK, NEW s \in Server, phase[s] = "copying", NEW t \in Copies(s)
  PROVE  /\ peer[s] \in Server
         /\ t \in Seq(Write) /\ Elements(t) \subseteq Elements(table[peer[s]])
         /\ t = table[peer[s]] \/ Follows(t, table[peer[s]])
  <1> DEFINE u == table[peer[s]]
  <1>1. peer[s] \in Server /\ u \in Seq(Write)
    BY DEF TypeOK
  <1> HIDE DEF u
  <1>2. CASE t = u
    BY <1>1, <1>2 DEF u
  <1>3. CASE t # u
    <2>1. PICK n \in 0 .. Len(u) : t \in [1 .. n -> Elements(u)] /\ Follows(t, u)
      BY <1>3 DEF Copies, u
    <2>2. Len(u) \in Nat /\ Elements(u) \subseteq Write
      BY <1>1 DEF Elements
    <2>3. t \in Seq(Elements(u)) /\ n \in Nat
      BY <2>1, <2>2, SeqDef
    <2>4. t \in Seq(Write) /\ Elements(t) \subseteq Elements(u)
      BY <2>2, <2>3 DEF Elements
    <2> QED
      BY <1>1, <2>1, <2>4 DEF u
  <1> QED
    BY <1>2, <1>3

-----------------------------------------------------------------------------
\* A server that joins, and now has p in hand, keeps the types.
LEMMA PeerTypes ==
  ASSUME TypeOK, NEW s \in Server, NEW p \in Server \cup {Null}, NEW q \in Phases,
         q \in {"found", "copying"} => p # Null,
         peer' = [peer EXCEPT ![s] = p], phase' = [phase EXCEPT ![s] = q],
         JoinUnchanged, UNCHANGED <<succ, table>>, seen' \in [Server -> Nat]
  PROVE  TypeOK'
  <1>1. /\ peer' \in [Server -> Server \cup {Null}] /\ phase' \in [Server -> Phases]
        /\ \A r \in Server : phase'[r] \in {"found", "copying"} => peer'[r] # Null
    BY DEF TypeOK
  <1> QED
    BY <1>1 DEF TypeOK, JoinUnchanged, zkVars, listVars, clientVars

\* No server has started: the types hold.
LEMMA InitTypes == Init => TypeOK
  BY ChainAssumption DEF Init, TypeOK, Phases, Connections

\* Every action keeps them.
LEMMA StepTypes == TypeOK /\ [Next]_vars => TypeOK'
  <1> SUFFICES ASSUME TypeOK, [Next]_vars PROVE TypeOK'
    OBVIOUS
  <1> USE ChainAssumption DEF zkVars, initVars, listVars, clientVars
  <1>1. CASE UNCHANGED vars
    BY <1>1 DEF TypeOK, vars
  <1>2. ASSUME NEW s \in Server, Join(s) \/ Expire(s) \/ Lose(s) PROVE TypeOK'
    <2>1. CASE Register(s)
      BY <2>1 DEF TypeOK, Register, ChildrenChange, Reach, Phases
    <2>2. CASE List(s)
      BY <2>2 DEF TypeOK, List, Children, Reach, Phases
    <2>3. CASE LookUp(s)
      <3>a. JoinUnchanged /\ UNCHANGED <<seen, succ, table>> /\ seen' \in [Server -> Nat]
        BY <2>3 DEF LookUp, TypeOK
      <3>1. CASE Found(GetSuccessor(s))
        <4>1. GetSuccessor(s) \in Server
          BY <3>1, SuccessorAbove DEF Found
        <4>2. peer' = [peer EXCEPT ![s] = GetSuccessor(s)] /\ phase' = [phase EXCEPT ![s] = "found"]
          BY <2>3, <3>1 DEF LookUp, Reach
        <4> QED
          BY <3>a, <4>1, <4>2, PeerTypes DEF Phases
      <3>2. CASE ~Found(GetSuccessor(s))
        <4>1. /\ peer[s] \in Server \cup {Null} /\ peer' = [peer EXCEPT ![s] = peer[s]]
              /\ phase' = [phase EXCEPT ![s] = "linked"]
          BY <2>3, <3>2 DEF TypeOK, LookUp, Reach
        <4> QED
          BY <3>a, <4>1, PeerTypes DEF Phases
      <3> QED
        BY <3>1, <3>2
    <2>4. CASE Dial(s)
      <3>1. Connect(peer[s]) \in Server \cup {Null}
        BY DEF TypeOK, Connect
      <3>2. peer' = [peer EXCEPT ![s] = Connect(peer[s])] /\ phase' = [phase EXCEPT ![s] = "connected"]
        BY <2>4 DEF Dial, Reach
      <3> QED
        <4>1. JoinUnchanged /\ UNCHANGED <<seen, succ, table>> /\ seen' \in [Server -> Nat]
          BY <2>4 DEF Dial, TypeOK
        <4> QED
          BY <3>1, <3>2, <4>1, PeerTypes DEF Phases
    <2>5. CASE Link(s)
      BY <2>5 DEF TypeOK, Link, JoinUnchanged, Reach, Phases
    <2>6. CASE AskTable(s)
      <3>1. CASE Found(GetAntecessor(s))
        <4>1. GetAntecessor(s) \in Server
          BY <3>1, AntecessorIn DEF Found
        <4>2. Len(table[GetAntecessor(s)]) \in Nat
          BY <4>1 DEF TypeOK
        <4>3. /\ peer' = [peer EXCEPT ![s] = GetAntecessor(s)]
              /\ seen' = [seen EXCEPT ![s] = Len(table[GetAntecessor(s)])]
              /\ phase' = [phase EXCEPT ![s] = "copying"]
          BY <2>6, <3>1 DEF AskTable, Reach
        <4>4. seen' \in [Server -> Nat]
          BY <4>2, <4>3 DEF TypeOK
        <4> QED
          <5>1. JoinUnchanged /\ UNCHANGED <<succ, table>>
            BY <2>6 DEF AskTable
          <5> QED
            BY <4>1, <4>3, <4>4, <5>1, PeerTypes DEF Phases
      <3>2. CASE ~Found(GetAntecessor(s))
        <4>1. /\ peer[s] \in Server \cup {Null} /\ peer' = [peer EXCEPT ![s] = peer[s]]
              /\ phase' = [phase EXCEPT ![s] = "copied"]
          BY <2>6, <3>2 DEF TypeOK, AskTable, Reach
        <4>2. JoinUnchanged /\ UNCHANGED <<succ, table>> /\ seen' \in [Server -> Nat]
          BY <2>6, <3>2 DEF AskTable, TypeOK
        <4> QED
          BY <4>1, <4>2, PeerTypes DEF Phases
      <3> QED
        BY <3>1, <3>2
    <2>c. CASE Copy(s)
      <3>1. PICK t \in Copies(s) : table' = [table EXCEPT ![s] = t]
        BY <2>c DEF Copy
      <3>2. t \in Seq(Write)
        BY <2>c, CopiesFollow DEF Copy
      <3>3. table' \in [Server -> Seq(Write)]
        BY <3>1, <3>2 DEF TypeOK
      <3> QED
        BY <2>c, <3>3 DEF TypeOK, Copy, JoinUnchanged, Reach, Phases
    <2>7. CASE Listen(s)
      BY <2>7 DEF TypeOK, Listen, JoinUnchanged, Reach, Phases
    <2>8. CASE Expire(s)
      BY <2>8 DEF TypeOK, Expire, ChildrenChange
    <2>9. CASE Lose(s)
      BY <2>9 DEF TypeOK, Lose, ChildrenChange
    <2>d. CASE Dying(s)
      BY <2>d, DyingDies, DieTypes
    <2> QED
      BY <1>2, <2>1, <2>2, <2>3, <2>4, <2>5, <2>6, <2>c, <2>7, <2>8, <2>9, <2>d DEF Join, Dying
  <1>3. ASSUME NEW s \in Server, Watch(s) \/ Fail(s) PROVE TypeOK'
    <2>0. Refetch(s) => late' \subseteq Server
      BY DEF Refetch, Overtakes, TypeOK
    <2>1. CASE Refetch(s)
      <3>a. CASE UNCHANGED job
        BY <2>0, <2>1, <3>a DEF TypeOK, Refetch, WatchUnchanged, Children
      <3>b. CASE job[s].at = "waiting" /\ job' = [job EXCEPT ![s].at = "hung"]
      <4>0. job[s] \in Working
        BY <3>b, JobWorks
      <4>1. job' \in [Server -> Working \cup {Idle, Asleep}]
        BY <3>b, <4>0, JobAtTypes
      <4>2. succ' \in [Server -> Server \cup {Null, Freed}]
        BY <2>1 DEF TypeOK, Refetch
      <4> QED
        BY <2>0, <2>1, <4>1, <4>2 DEF TypeOK, Refetch, WatchUnchanged, Children
      <3> QED
        BY <2>1, <3>a, <3>b DEF Refetch
    <2>2. CASE RefetchCrash(s) \/ Fail(s)
      BY <2>2, DyingDies, DieTypes DEF Dying
    <2>3. CASE Relink(s)
      <3>1. succ' \in [Server -> Server \cup {Null, Freed}]
        BY <2>3, ConnectPeer DEF TypeOK, Relink
      <3> QED
        BY <2>3, <3>1 DEF TypeOK, Relink
    <2> QED
      BY <1>3, <2>1, <2>2, <2>3 DEF Watch
  <1>4. ASSUME NEW s \in Server, Serve(s) \/ Sleep(s) PROVE TypeOK'
    <2> USE DEF JobUnchanged
    <2>1. CASE Apply(s)
      <3>1. PICK m \in inbox[s] :
              /\ inbox' = [inbox EXCEPT ![s] = @ \ {m}]
              /\ table' = [table EXCEPT ![s] = Applied(@, m.write)]
              /\ job' = [job EXCEPT ![s] = [at |-> "applied", from |-> m.from,
                                            write |-> m.write, peer |-> Null]]
        BY <2>1 DEF Apply
      <3>2. m \in Request
        BY DEF TypeOK
      <3>3. m.from \in Server \cup Client /\ m.write \in Write
        BY <3>2 DEF Request
      <3>4. Applied(table[s], m.write) \in Seq(Write)
        BY <3>3, AppendProperties DEF TypeOK, Applied
      <3>5. table' \in [Server -> Seq(Write)]
        BY <3>1, <3>4 DEF TypeOK
      <3>6. inbox' \in [Server -> SUBSET Request]
        BY <3>1 DEF TypeOK
      <3>7. job' \in [Server -> Working \cup {Idle, Asleep}]
        BY <3>1, <3>3 DEF TypeOK, Working
      <3> QED
        BY <2>1, <3>5, <3>6, <3>7 DEF TypeOK, Apply
    <2>2. CASE NoSuccessor(s)
      <3>1. job[s] \in Working
        BY <2>2, JobWorks DEF NoSuccessor
      <3>2. job' \in [Server -> Working \cup {Idle, Asleep}]
        BY <2>2, <3>1, JobAtTypes DEF TypeOK, NoSuccessor
      <3> QED
        BY <2>2, <3>2 DEF TypeOK, NoSuccessor
    <2>3. CASE Forward(s)
      <3>1. job[s] \in Working /\ [from |-> s, write |-> job[s].write] \in Request
        BY <2>3 DEF TypeOK, Forward, Working, Request, Idle, Asleep
      <3>2. inbox' \in [Server -> SUBSET Request]
        BY <2>3, <3>1 DEF TypeOK, Forward
      <3>3. job' \in [Server -> Working \cup {Idle, Asleep}]
        BY <2>3, <3>1 DEF TypeOK, Forward, Working
      <3> QED
        BY <2>3, <3>2, <3>3 DEF TypeOK, Forward
    <2>4. CASE PeerGone(s)
      BY <2>4, DyingDies, DieTypes DEF Dying
    <2>5. CASE UseFreed(s)
      <3>1. CASE Die(s) /\ UNCHANGED faulty
        BY <3>1, DieTypes DEF TypeOK
      <3>2. CASE /\ job' = [job EXCEPT ![s].at = "hung"]
               /\ UNCHANGED <<initVars, inbox, table, clientVars>> /\ JobUnchanged
        <4>1. job[s] \in Working
          BY <2>5, JobWorks DEF UseFreed
        <4>2. job' \in [Server -> Working \cup {Idle, Asleep}]
          BY <3>2, <4>1, JobAtTypes
        <4> QED
          BY <2>5, <3>2, <4>2 DEF TypeOK, UseFreed
      <3> QED
        BY <2>5, <3>1, <3>2 DEF UseFreed
    <2>6. CASE Answer(s)
      <3>1. job' \in [Server -> Working \cup {Idle, Asleep}]
        <4>1. ASSUME NEW f \in Server, WaitsFor(f, s)
              PROVE  [job[f] EXCEPT !.at = "done"] \in Working
          <5>1. job[f] \in Working
            BY <4>1 DEF TypeOK, WaitsFor, Idle, Asleep
          <5> QED
            BY <5>1 DEF Working
        <4> QED
          BY <2>6, <4>1 DEF TypeOK, Answer
      <3>2. client' \in [Client -> Connections]
        <4>1. ASSUME NEW c \in Client
              PROVE  [client[c] EXCEPT !.at = "idle"] \in Connections
          BY ClientAtTypes
        <4> QED
          BY <2>6, <4>1 DEF TypeOK, Answer
      <3>3. \A c \in Client : client'[c].at = "headed" => client'[c].list # {}
        BY <2>6 DEF TypeOK, Answer, Connections
      <3> QED
        BY <2>6, <3>1, <3>2, <3>3 DEF TypeOK, Answer
    <2>7. CASE Sleep(s)
      BY <2>7 DEF TypeOK, Sleep
    <2> QED
      BY <1>4, <2>1, <2>2, <2>3, <2>4, <2>5, <2>6, <2>7 DEF Serve
  <1>5. ASSUME NEW c \in Client, Command(c) PROVE TypeOK'
    <2> USE DEF ClientUnchanged
    <2>1. CASE Start(c) \/ OpenHead(c) \/ OpenTail(c)
      <3> DEFINE list == client[c].list
      <3>1. client[c] \in Connections /\ list \in SUBSET Server
        BY DEF TypeOK, Connections
      <3>2. CASE Start(c)
        BY <3>1, <3>2 DEF TypeOK, Start, Connections, Children
      <3>3. CASE OpenHead(c)
        <4> DEFINE low    == Lowest(Named(list))
                   down   == [client[c] EXCEPT !.at = "down", !.list = {}]
                   headed == [client[c] EXCEPT !.at = "headed", !.head = Connect(low)]
                   idle   == [client[c] EXCEPT !.at = "idle", !.list = {}]
        <4>0. Named(list) \subseteq list
          BY DEF Named
        <4>1. Named(list) # {} => low \in Server
          BY <3>1, <4>0, LowestIn
        <4>2. PICK next \in {down, headed, idle} :
                /\ client' = [client EXCEPT ![c] = next]
                /\ next \in {down, idle} \/ Named(list) # {}
          <5>1. CASE Named(list) = {}
            BY <3>3, <5>1 DEF OpenHead
          <5>2. CASE Named(list) # {} /\ znode[low]
            BY <3>3, <5>2 DEF OpenHead
          <5>3. CASE Named(list) # {} /\ ~znode[low]
            BY <3>3, <5>3 DEF OpenHead
          <5>4. Named(list) # {} /\ low \in Server => znode[low] \in BOOLEAN
            BY DEF TypeOK
          <5> QED
            BY <4>1, <5>1, <5>2, <5>3, <5>4
        <4>3. next \in Connections /\ (next.at = "headed" => next.list # {})
          <5>1. down \in Connections /\ down.at = "down" /\ idle \in Connections /\ idle.at = "idle"
            BY <3>1 DEF Connections
          <5>2. Named(list) # {} => headed \in Connections /\ headed.list # {}
            BY <3>1, <4>0, <4>1 DEF Connections, Connect
          <5> QED
            BY <4>2, <5>1, <5>2
        <4> HIDE DEF down, headed, idle, low
        <4> QED
          BY <3>3, <4>2, <4>3, ClientMoves DEF TypeOK, OpenHead
      <3>4. CASE OpenTail(c)
        <4>1. Highest(list) \in Server
          BY <3>1, <3>4, HighestIn DEF TypeOK, OpenTail
        <4> QED
          <5> DEFINE idle == [client[c] EXCEPT !.at = "idle", !.tail = Connect(Highest(list)), !.list = {}]
                     down == [client[c] EXCEPT !.at = "down", !.list = {}]
          <5>1. PICK next \in {idle, down} : client' = [client EXCEPT ![c] = next]
            BY <3>4 DEF OpenTail
          <5>2. next \in Connections /\ next.at # "headed"
            BY <3>1, <4>1, <5>1 DEF Connections, Connect
          <5> HIDE DEF idle, down
          <5> QED
            BY <3>4, <5>1, <5>2, ClientMoves DEF TypeOK, OpenTail
      <3> QED
        BY <2>1, <3>2, <3>3, <3>4
    <2>2. CASE Submit(c)
      <3>1. sent + 1 \in Write /\ sent' \in 0 .. MaxWrites
        BY <2>2 DEF TypeOK, Submit, Write
      <3>2. inbox' \in [Server -> SUBSET Request]
        <4> DEFINE h == client[c].head
                   m == [from |-> c, write |-> sent + 1]
        <4>1. m \in Request
          BY <3>1 DEF Request
        <4>2. inbox' = [inbox EXCEPT ![h] = @ \cup {m}]
          BY <2>2 DEF Submit
        <4> HIDE DEF h, m
        <4> QED
          BY <4>1, <4>2, ZenonT(60) DEF TypeOK
      <3>3. /\ client' \in [Client -> Connections]
            /\ \A d \in Client : client'[d].at = "headed" => client'[d].list # {}
        <4> DEFINE next == [client[c] EXCEPT !.at = "waiting"]
        <4>1. next \in Connections /\ next.at = "waiting"
          BY ClientAtTypes
        <4>2. client' = [client EXCEPT ![c] = next]
          BY <2>2 DEF Submit
        <4> HIDE DEF next
        <4> QED
          BY <4>1, <4>2, ClientMoves
      <3> QED
        BY <2>2, <3>1, <3>2, <3>3 DEF TypeOK, Submit
    <2>3. CASE CommandCrash(c) \/ ClientCrash(c)
      <3> DEFINE next == [client[c] EXCEPT !.at = "down"]
      <3>1. next \in Connections /\ next.at = "down"
        BY ClientAtTypes
      <3>2. /\ client' = [client EXCEPT ![c] = next]
            /\ UNCHANGED <<zkVars, initVars, listVars, succ, table, inbox, job, sent>>
        BY <2>3 DEF CommandCrash, ClientCrash
      <3> HIDE DEF next
      <3> QED
        BY <3>1, <3>2, ClientMoves DEF TypeOK
    <2> QED
      BY <1>5, <2>1, <2>2, <2>3 DEF Command
  <1> QED
    BY <1>1, <1>2, <1>3, <1>4, <1>5 DEF Next

\* Every variable of the chain keeps its type.
THEOREM ChainTypeCorrect == Spec => []TypeOK
  BY InitTypes, StepTypes, PTL DEF Spec

-----------------------------------------------------------------------------
(* The direction of the connections.  ForwardUp is inductive beside TypeOK  *)
(* and the direction of what table_skel_init has looked up and not yet      *)
(* stored: only LookUp and Relink choose a successor, one that is above,    *)
(* and only Forward takes the connection over as a peer.                    *)

PeerUp == \A s \in Server : Storing(s) /\ peer[s] \in Server => s < peer[s]

Upwards == ForwardUp /\ PeerUp

\* How one step may change what r is connected to, waits for and has looked up.
UpStep(r) ==
  /\ succ'[r] \in Server => succ'[r] = succ[r] \/ r < succ'[r]
  /\ \/ job'[r].peer \in {job[r].peer, Null}
     \/ job'[r].peer = succ[r]
  /\ Storing(r)' /\ peer'[r] \in Server => (Storing(r) /\ peer'[r] = peer[r]) \/ r < peer'[r]

\* Dying is such a step.
LEMMA DieUp ==
  ASSUME TypeOK, NEW s \in Server, Die(s), NEW r \in Server
  PROVE  UpStep(r)
  <1>1. succ'[r] \in {succ[r], Null} /\ job'[r].peer \in {job[r].peer, Null}
    BY DEF Die, Idle, TypeOK
  <1>2. Storing(r)' => Storing(r) /\ peer'[r] = peer[r]
    BY DEF Die, Storing, TypeOK
  <1> QED
    BY <1>1, <1>2, ChainAssumption DEF UpStep

\* Every action is.
LEMMA StepUp ==
  ASSUME TypeOK, Upwards, [Next]_vars, NEW r \in Server
  PROVE  UpStep(r)
  <1> USE ChainAssumption DEF zkVars, initVars, listVars, clientVars
  <1>a. UNCHANGED <<succ, job, phase, peer>> => UpStep(r)
    BY DEF UpStep, Storing
  <1>1. CASE UNCHANGED vars
    BY <1>1, <1>a DEF vars
  <1>2. ASSUME NEW s \in Server,
               Register(s) \/ List(s) \/ Link(s) \/ AskTable(s) \/ Copy(s) \/ Listen(s)
        PROVE  UpStep(r)
    <2>1. UNCHANGED job
      BY <1>2 DEF Register, List, Link, AskTable, Copy, Listen, JoinUnchanged
    <2>2. Storing(r)' => Storing(r) /\ peer'[r] = peer[r]
      BY <1>2 DEF Register, List, Link, AskTable, Copy, Listen, Reach, Storing, TypeOK
    <2>3. succ'[r] = succ[r] \/ (Storing(r) /\ succ'[r] = peer[r])
      BY <1>2 DEF Register, List, Link, AskTable, Copy, Listen, JoinUnchanged, Storing, TypeOK
    <2> QED
      BY <2>1, <2>2, <2>3 DEF UpStep, Upwards, PeerUp
  <1>3. ASSUME NEW s \in Server, LookUp(s) PROVE UpStep(r)
    <2>1. UNCHANGED <<succ, job>>
      BY <1>3 DEF LookUp, JoinUnchanged
    <2>2. CASE r = s /\ Found(GetSuccessor(s))
      <3>1. peer'[r] = GetSuccessor(r)
        BY <1>3, <2>2 DEF LookUp, TypeOK
      <3> QED
        BY <2>1, <3>1, SuccessorAbove DEF UpStep
    <2>3. CASE ~(r = s /\ Found(GetSuccessor(s)))
      <3>1. Storing(r)' => Storing(r) /\ peer'[r] = peer[r]
        BY <1>3, <2>3 DEF LookUp, Storing, Reach, TypeOK
      <3> QED
        BY <2>1, <3>1 DEF UpStep
    <2> QED
      BY <2>2, <2>3
  <1>4. ASSUME NEW s \in Server, Dial(s) PROVE UpStep(r)
    <2>1. UNCHANGED <<succ, job>>
      BY <1>4 DEF Dial, JoinUnchanged
    <2>2. Storing(r)' => Storing(r) /\ peer'[r] \in {peer[r], Null}
      BY <1>4 DEF Dial, Storing, Reach, Connect, TypeOK
    <2> QED
      BY <2>1, <2>2 DEF UpStep
  <1>5. ASSUME NEW s \in Server, Dying(s) PROVE UpStep(r)
    BY <1>5, DyingDies, DieUp
  <1>6. ASSUME NEW s \in Server, NEW step \in {"done", "hung"}, job' = [job EXCEPT ![s].at = step]
        PROVE  job'[r].peer = job[r].peer
    BY <1>6 DEF TypeOK, Working, Idle, Asleep
  <1>7. ASSUME NEW s \in Server, Refetch(s) \/ Relink(s) PROVE UpStep(r)
    <2>1. UNCHANGED <<phase, peer>>
      BY <1>7 DEF Refetch, Relink, WatchUnchanged
    <2>2. job'[r].peer = job[r].peer
      BY <1>6, <1>7 DEF Refetch, Relink
    <2>3. CASE Refetch(s)
      <3>1. succ'[r] \in {succ[r], Null, Freed}
        BY <2>3 DEF Refetch, TypeOK
      <3> QED
        BY <2>1, <2>2, <3>1 DEF UpStep, Storing
    <2>4. CASE Relink(s)
      <3>1. succ'[r] = succ[r] \/ (r = s /\ succ'[r] = Connect(GetSuccessor(s)))
        BY <2>4 DEF Relink, TypeOK
      <3> QED
        BY <2>1, <2>2, <3>1, ConnectPeer DEF UpStep, Storing
    <2> QED
      BY <1>7, <2>3, <2>4
  <1>8. ASSUME NEW s \in Server,
               \/ Apply(s) \/ NoSuccessor(s) \/ Forward(s) \/ Answer(s) \/ Sleep(s)
               \/ (UseFreed(s) /\ ~Die(s))
        PROVE  UpStep(r)
    <2>1. UNCHANGED <<succ, phase, peer>>
      BY <1>8 DEF Apply, NoSuccessor, Forward, Answer, Sleep, UseFreed, JobUnchanged
    <2>2. job'[r].peer \in {job[r].peer, Null, succ[r]}
      <3>1. CASE Apply(s)
        BY <3>1 DEF Apply, TypeOK
      <3>5. CASE Sleep(s)
        <4>1. Asleep.peer = Null
          BY DEF Asleep, Idle
        <4> QED
          BY <3>5, <4>1 DEF Sleep, TypeOK
      <3>2. CASE NoSuccessor(s) \/ (UseFreed(s) /\ ~Die(s))
        BY <1>6, <3>2 DEF NoSuccessor, UseFreed
      <3>3. CASE Forward(s)
        BY <3>3 DEF Forward, TypeOK
      <3>4. CASE Answer(s)
        BY <3>4 DEF Answer, Idle
      <3> QED
        BY <1>8, <3>1, <3>2, <3>3, <3>4, <3>5
    <2> QED
      BY <2>1, <2>2 DEF UpStep, Storing
  <1>9. ASSUME NEW s \in Server, Expire(s) \/ Lose(s) PROVE UpStep(r)
    BY <1>9, <1>a DEF Expire, Lose
  <1>10. ASSUME NEW c \in Client, Command(c) PROVE UpStep(r)
    BY <1>10, <1>a DEF Command, Start, OpenHead, OpenTail, Submit, CommandCrash, ClientCrash,
                       ClientUnchanged
  <1>11. ASSUME NEW s \in Server, UseFreed(s), Die(s) PROVE UpStep(r)
    BY <1>11, DieUp
  <1> QED
    BY <1>1, <1>2, <1>3, <1>4, <1>5, <1>7, <1>8, <1>9, <1>10, <1>11
       DEF Next, Join, Watch, Serve, Dying

\* Such steps keep connections and peers above their server.
LEMMA StepForwardUp == TypeOK /\ Upwards /\ [Next]_vars => Upwards'
  <1> SUFFICES ASSUME TypeOK, Upwards, [Next]_vars PROVE Upwards'
    OBVIOUS
  <1>1. ASSUME NEW r \in Server
        PROVE  /\ succ'[r] \in Server => r < succ'[r]
               /\ job'[r].peer \in Server => r < job'[r].peer
               /\ Storing(r)' /\ peer'[r] \in Server => r < peer'[r]
    <2>1. UpStep(r)
      BY StepUp
    <2> QED
      BY <2>1, ChainAssumption DEF UpStep, Upwards, ForwardUp, PeerUp
  <1> QED
    BY <1>1 DEF Upwards, ForwardUp, PeerUp

\* The writes of a chain of any length cannot wait for each other in a circle.
THEOREM ForwardsUp == Spec => []ForwardUp
  <1>1. Init => Upwards
    BY ChainAssumption DEF Init, Upwards, ForwardUp, PeerUp, Idle
  <1>2. Upwards => ForwardUp
    BY DEF Upwards
  <1> QED
    BY <1>1, <1>2, InitTypes, StepTypes, StepForwardUp, PTL DEF Spec

-----------------------------------------------------------------------------
(* What a server knows of the children.  NoMissedChange is not inductive:   *)
(* that no event waits says nothing of the next change.  It is strengthened *)
(* by the watch being set whenever no event waits.                          *)

WatchInv ==
  \A s \in Server : Alive(s) /\ s \notin lost /\ phase[s] # "registered" /\ ~event[s] =>
    armed[s] /\ children[s] = Children

\* An action that leaves the znodes and what s knows, and does not bring s
\* past its first listing, keeps the invariant at s.
LEMMA WatchKept ==
  ASSUME WatchInv, NEW s \in Server, UNCHANGED <<znode, lost>>,
         event'[s] = event[s], armed'[s] = armed[s], children'[s] = children[s],
         \/ phase'[s] = phase[s]
         \/ phase'[s] \in {"off", "down", "registered"}
         \/ phase[s] \in {"listed", "found", "connected", "linked", "copying", "copied"}
  PROVE  Alive(s)' /\ s \notin lost' /\ phase'[s] # "registered" /\ ~event'[s] =>
           armed'[s] /\ children'[s] = Children'
  BY DEF WatchInv, Alive, Children

\* Nor does a server that dies.
LEMMA DieWatch ==
  ASSUME TypeOK, WatchInv, NEW s \in Server, Die(s), NEW r \in Server
  PROVE  Alive(r)' /\ r \notin lost' /\ phase'[r] # "registered" /\ ~event'[r] =>
           armed'[r] /\ children'[r] = Children'
  <1>1. CASE r = s
    BY <1>1 DEF Die, Alive, TypeOK
  <1>2. CASE r # s
    BY <1>2, WatchKept DEF Die, TypeOK
  <1> QED
    BY <1>1, <1>2

\* Every action keeps the invariant.
LEMMA StepWatch == TypeOK /\ WatchInv /\ [Next]_vars => WatchInv'
  <1> SUFFICES ASSUME TypeOK, WatchInv, [Next]_vars, NEW r \in Server
               PROVE  Alive(r)' /\ r \notin lost' /\ phase'[r] # "registered" /\ ~event'[r] =>
                        armed'[r] /\ children'[r] = Children'
    BY DEF WatchInv
  <1> USE DEF zkVars, initVars, listVars, clientVars
  <1>1. CASE UNCHANGED vars
    BY <1>1, WatchKept DEF vars
  <1>2. ASSUME NEW s \in Server, Register(s) \/ Expire(s) \/ Lose(s)
        PROVE  Alive(r)' /\ r \notin lost' /\ phase'[r] # "registered" => event'[r]
    <2>1. /\ event'[r] = (event[r] \/ (armed[r] /\ r \notin lost'))
          /\ r \in lost => r \in lost'
      BY <1>2 DEF Register, Expire, Lose, ChildrenChange
    <2>2. CASE event[r] \/ armed[r]
      BY <2>1, <2>2 DEF TypeOK
    <2>3. CASE ~event[r] /\ ~armed[r]
      <3>1. ~Alive(r) \/ r \in lost \/ phase[r] = "registered"
        BY <2>3 DEF WatchInv
      <3>2. phase' = phase \/ phase' = [phase EXCEPT ![s] = "registered"]
        BY <1>2 DEF Register, Expire, Lose, Reach
      <3> QED
        BY <2>1, <3>1, <3>2 DEF Alive, TypeOK
    <2> QED
      BY <2>2, <2>3
  <1>3. ASSUME NEW s \in Server, List(s) \/ Refetch(s) PROVE WatchInv'
    <2> SUFFICES ASSUME NEW q \in Server
                 PROVE  Alive(q)' /\ q \notin lost' /\ phase'[q] # "registered" /\ ~event'[q] =>
                          armed'[q] /\ children'[q] = Children'
      BY DEF WatchInv
    <2>1. CASE q = s
      BY <1>3, <2>1 DEF List, Refetch, WatchUnchanged, Children, TypeOK
    <2>2. CASE q # s
      BY <1>3, <2>2, WatchKept DEF List, Refetch, Reach, WatchUnchanged, TypeOK
    <2> QED
      BY <2>1, <2>2
  <1>4. ASSUME NEW s \in Server,
               LookUp(s) \/ Dial(s) \/ Link(s) \/ AskTable(s) \/ Copy(s) \/ Listen(s)
        PROVE  /\ UNCHANGED <<zkVars, children>>
               /\ \/ phase'[r] = phase[r]
                  \/ phase[r] \in {"listed", "found", "connected", "linked", "copying", "copied"}
    BY <1>4 DEF LookUp, Dial, Link, AskTable, Copy, Listen, JoinUnchanged, Reach, TypeOK
  <1>5. ASSUME NEW s \in Server, Dying(s)
        PROVE  \E d \in Server : Die(d)
    BY <1>5, DyingDies
  <1>6. ASSUME NEW s \in Server, Serve(s) \/ Sleep(s)
        PROVE  \/ UNCHANGED <<zkVars, children, phase>>
               \/ Die(s)
    BY <1>6 DEF Serve, Apply, NoSuccessor, Forward, PeerGone, UseFreed, Answer, Sleep,
                JobUnchanged
  <1>7. ASSUME NEW s \in Server, Relink(s)
        PROVE  UNCHANGED <<zkVars, children, phase>>
    BY <1>7 DEF Relink
  <1>8. ASSUME NEW c \in Client, Command(c)
        PROVE  UNCHANGED <<zkVars, children, phase>>
    BY <1>8 DEF Command, Start, OpenHead, OpenTail, Submit, CommandCrash, ClientCrash,
                ClientUnchanged
  <1>9. ASSUME NEW s \in Server,
               \/ Join(s) \/ Watch(s) \/ Serve(s) \/ Sleep(s)
               \/ Expire(s) \/ Lose(s) \/ Fail(s)
        PROVE  Alive(r)' /\ r \notin lost' /\ phase'[r] # "registered" /\ ~event'[r] =>
                 armed'[r] /\ children'[r] = Children'
    <2>1. CASE Register(s) \/ Expire(s) \/ Lose(s)
      BY <2>1, <1>2
    <2>2. CASE List(s) \/ Refetch(s)
      BY <2>2, <1>3 DEF WatchInv
    <2>3. CASE LookUp(s) \/ Dial(s) \/ Link(s) \/ AskTable(s) \/ Copy(s) \/ Listen(s)
      BY <2>3, <1>4, WatchKept
    <2>4. CASE Dying(s)
      BY <2>4, <1>5, DieWatch
    <2>5. CASE Serve(s) \/ Sleep(s)
      BY <2>5, <1>6, WatchKept, DieWatch
    <2>6. CASE Relink(s)
      BY <2>6, <1>7, WatchKept
    <2> QED
      BY <1>9, <2>1, <2>2, <2>3, <2>4, <2>5, <2>6 DEF Join, Watch, Dying
  <1> QED
    BY <1>1, <1>8, <1>9, WatchKept DEF Next

\* However many servers come and go, none misses a change of the children.
THEOREM ChangesNoticed == Spec => []NoMissedChange
  <1>1. Init => WatchInv
    BY DEF Init, WatchInv, Alive
  <1>2. WatchInv => NoMissedChange
    BY DEF WatchInv, NoMissedChange
  <1> QED
    BY <1>1, <1>2, InitTypes, StepTypes, StepWatch, PTL DEF Spec

-----------------------------------------------------------------------------
(* What a server is connected to.  NoDeadSuccessor needs the same of what    *)
(* table_skel_init has looked up and not yet stored, and that a server that *)
(* has not listed the children has no watch, no event and no successor.     *)

FreshInv ==
  \A s \in Server : phase[s] \in {"off", "registered"} =>
    ~armed[s] /\ ~event[s] /\ watcher[s] = "idle" /\ succ[s] = Null

ListedInv ==
  \A s \in Server : Alive(s) /\ s \notin lost /\ ~event[s] /\ s \notin late =>
    /\ succ[s] \in Server => znode[succ[s]]
    /\ Storing(s) /\ peer[s] \in Server => znode[peer[s]]

Linked == TypeOK /\ WatchInv /\ FreshInv /\ ListedInv

\* A server comes past its first listing by listing, which nothing precedes.
LEMMA StepFresh == TypeOK /\ FreshInv /\ [Next]_vars => FreshInv'
  <1> SUFFICES ASSUME TypeOK, FreshInv, [Next]_vars, NEW r \in Server,
                      phase'[r] \in {"off", "registered"}
               PROVE  ~armed'[r] /\ ~event'[r] /\ watcher'[r] = "idle" /\ succ'[r] = Null
    BY DEF FreshInv
  <1> USE DEF zkVars, initVars, listVars, clientVars, FreshInv
  <1> DEFINE Kept == /\ phase[r] \in {"off", "registered"}
                     /\ armed'[r] = armed[r] /\ event'[r] = event[r]
                     /\ watcher'[r] = watcher[r] /\ succ'[r] = succ[r]
  <1>1. CASE UNCHANGED vars
    BY <1>1 DEF vars
  <1>2. ASSUME NEW s \in Server, Register(s) \/ Expire(s) \/ Lose(s)
        PROVE  ~armed'[r] /\ ~event'[r] /\ watcher'[r] = "idle" /\ succ'[r] = Null
    <2>1. phase[r] \in {"off", "registered"} /\ UNCHANGED <<watcher, succ>>
      BY <1>2 DEF Register, Expire, Lose, Reach, TypeOK
    <2>2. ~armed'[r] /\ event'[r] = (event[r] \/ (armed[r] /\ r \notin lost'))
      BY <1>2 DEF Register, Expire, Lose, ChildrenChange
    <2> QED
      BY <2>1, <2>2
  <1>3. ASSUME NEW s \in Server,
               \/ List(s) \/ LookUp(s) \/ Dial(s) \/ Link(s)
               \/ AskTable(s) \/ Copy(s) \/ Listen(s)
        PROVE  Kept
    <2>1. r # s
      BY <1>3 DEF List, LookUp, Dial, Link, AskTable, Copy, Listen, Reach, TypeOK
    <2> QED
      BY <1>3, <2>1 DEF List, LookUp, Dial, Link, AskTable, Copy, Listen, JoinUnchanged, Reach, TypeOK
  <1>4. ASSUME NEW d \in Server, Die(d) PROVE Kept
    BY <1>4 DEF Die, TypeOK
  <1>5. ASSUME NEW s \in Server, Refetch(s) \/ Relink(s) PROVE Kept
    <2>1. UNCHANGED phase /\ (event[s] \/ watcher[s] = "lookup")
      BY <1>5 DEF Refetch, Relink, WatchUnchanged
    <2>2. r # s
      BY <2>1
    <2> QED
      BY <1>5, <2>1, <2>2 DEF Refetch, Relink, TypeOK
  <1>6. ASSUME NEW s \in Server, Serve(s) \/ Sleep(s) PROVE Kept \/ Die(s)
    BY <1>6 DEF Serve, Apply, NoSuccessor, Forward, PeerGone, UseFreed, Answer, Sleep, JobUnchanged
  <1>7. ASSUME NEW s \in Server, Dying(s) PROVE \E d \in Server : Die(d)
    BY <1>7, DyingDies
  <1>8. ASSUME NEW c \in Client, Command(c) PROVE Kept
    BY <1>8 DEF Command, Start, OpenHead, OpenTail, Submit, CommandCrash, ClientCrash,
                ClientUnchanged
  <1> QED
    BY <1>1, <1>2, <1>3, <1>4, <1>5, <1>6, <1>7, <1>8 DEF Next, Join, Watch, Dying

\* What the invariant says of one server.
Lists(r) ==
  Alive(r) /\ r \notin lost /\ ~event[r] /\ r \notin late =>
    /\ succ[r] \in Server => znode[succ[r]]
    /\ Storing(r) /\ peer[r] \in Server => znode[peer[r]]

\* A step that leaves the znodes and what r has stored and looked up keeps it.
LEMMA ListsKept ==
  ASSUME ListedInv, NEW r \in Server, UNCHANGED <<znode, lost>>,
         event'[r] = event[r], r \in late' <=> r \in late,
         Alive(r)' => Alive(r),
         \/ succ'[r] \in {succ[r], Null, Freed}
         \/ Storing(r) /\ succ'[r] = peer[r],
         Storing(r)' => Storing(r) /\ peer'[r] \in {peer[r], Null}
  PROVE  Lists(r)'
  <1> USE ChainAssumption
  <1>1. Lists(r)
    BY DEF ListedInv, Lists
  <1> QED
    BY <1>1 DEF Lists

\* A step that removes a znode is seen by all who watch; the others know nobody.
LEMMA ListsGone ==
  ASSUME Linked, NEW r \in Server, NEW s \in Server, Register(s) \/ Expire(s) \/ Lose(s)
  PROVE  Lists(r)'
  <1> USE DEF Linked, zkVars, initVars, listVars
  <1>1. /\ event'[r] = (event[r] \/ (armed[r] /\ r \notin lost'))
        /\ lost \subseteq lost' /\ UNCHANGED <<succ, late, peer>>
        /\ Storing(r)' => Storing(r)
        /\ phase'[r] = phase[r] \/ phase'[r] = "registered"
    BY DEF Register, Expire, Lose, ChildrenChange, Reach, Storing, TypeOK
  <1>2. CASE ~Alive(r)' \/ r \in lost' \/ event'[r]
    BY <1>2 DEF Lists
  <1>3. CASE Alive(r)' /\ r \notin lost' /\ ~event'[r]
    <2>1. ~armed[r] /\ ~event[r] /\ r \notin lost
      BY <1>1, <1>3 DEF TypeOK
    <2>2. phase[r] \in {"off", "registered"}
      <3>1. ~Alive(r) \/ phase[r] = "registered"
        BY <2>1 DEF WatchInv
      <3>2. phase'[r] = "registered" => phase[r] \in {"off", "registered"}
        BY DEF Register, Expire, Lose, Reach, TypeOK
      <3> QED
        BY <1>1, <1>3, <3>1, <3>2 DEF Alive
    <2> QED
      BY <1>1, <2>2, ChainAssumption DEF FreshInv, Lists, Storing
  <1> QED
    BY <1>2, <1>3

\* Every action keeps it.
LEMMA StepListed == Linked /\ [Next]_vars => ListedInv'
  <1> SUFFICES ASSUME Linked, [Next]_vars, NEW r \in Server PROVE Lists(r)'
    BY DEF ListedInv, Lists
  <1> USE ChainAssumption DEF Linked, zkVars, initVars, listVars, clientVars
  <1>1. CASE UNCHANGED vars
    BY <1>1, ListsKept DEF vars, Alive, Storing
  <1>2. ASSUME NEW s \in Server,
               List(s) \/ Dial(s) \/ Link(s) \/ AskTable(s) \/ Copy(s) \/ Listen(s)
        PROVE  Lists(r)'
    <2>1. /\ UNCHANGED <<znode, event, lost, late>> /\ (Alive(r)' => Alive(r))
          /\ Storing(r)' => Storing(r)
      BY <1>2 DEF List, Dial, Link, AskTable, Copy, Listen, JoinUnchanged, Reach, Alive, Storing, TypeOK
    <2>2. Storing(r)' => peer'[r] \in {peer[r], Null}
      BY <1>2 DEF List, Dial, Link, AskTable, Copy, Listen, Connect, Reach, Storing, TypeOK
    <2>3. succ'[r] = succ[r] \/ (Storing(r) /\ succ'[r] = peer[r])
      BY <1>2 DEF List, Dial, Link, AskTable, Copy, Listen, JoinUnchanged, Storing, TypeOK
    <2> QED
      BY <2>1, <2>2, <2>3, ListsKept
  <1>3. ASSUME NEW s \in Server, LookUp(s) PROVE Lists(r)'
    <2>1. UNCHANGED <<znode, event, lost, late, succ>> /\ (Alive(r)' => Alive(r))
      BY <1>3 DEF LookUp, JoinUnchanged, Reach, Alive, TypeOK
    <2>2. CASE r = s /\ Found(GetSuccessor(s))
      <3>1. GetSuccessor(s) \in Server /\ znode[GetSuccessor(s)]
        BY <2>2, SuccessorAbove DEF Found
      <3>2. peer'[r] = GetSuccessor(s)
        BY <1>3, <2>2 DEF LookUp, TypeOK
      <3>3. Lists(r)
        BY DEF ListedInv, Lists
      <3> QED
        BY <2>1, <3>1, <3>2, <3>3 DEF Lists
    <2>3. CASE ~(r = s /\ Found(GetSuccessor(s)))
      <3>1. Storing(r)' => Storing(r) /\ peer'[r] = peer[r]
        BY <1>3, <2>3 DEF LookUp, Storing, Reach, TypeOK
      <3> QED
        BY <2>1, <3>1, ListsKept
    <2> QED
      BY <2>2, <2>3
  <1>4. ASSUME NEW d \in Server, Die(d) PROVE Lists(r)'
    <2>1. CASE r = d
      BY <1>4, <2>1 DEF Die, Alive, Lists, TypeOK
    <2>2. CASE r # d
      BY <1>4, <2>2, ListsKept DEF Die, Alive, Storing, TypeOK
    <2> QED
      BY <2>1, <2>2
  <1>5. ASSUME NEW s \in Server, Refetch(s) PROVE Lists(r)'
    <2>1. UNCHANGED <<znode, lost, phase, peer>>
      BY <1>5 DEF Refetch, WatchUnchanged
    <2>2. CASE r = s
      <3>1. succ'[r] \in {Null, Freed} /\ (Storing(r) => r \in late')
        BY <1>5, <2>2 DEF Refetch, Overtakes, TypeOK
      <3> QED
        BY <2>1, <3>1 DEF Lists, Storing
    <2>3. CASE r # s
      <3>1. /\ event'[r] = event[r] /\ succ'[r] = succ[r] /\ (r \in late' <=> r \in late)
        BY <1>5, <2>3 DEF Refetch, Overtakes, TypeOK
      <3> QED
        BY <2>1, <3>1, ListsKept DEF Alive, Storing
    <2> QED
      BY <2>2, <2>3
  <1>6. ASSUME NEW s \in Server, Relink(s) PROVE Lists(r)'
    <2>1. UNCHANGED <<znode, lost, event, phase, peer, late>>
      BY <1>6 DEF Relink
    <2>2. CASE succ'[r] = succ[r]
      BY <2>1, <2>2, ListsKept DEF Alive, Storing
    <2>3. CASE succ'[r] # succ[r]
      <3>1. /\ succ'[r] = Connect(GetSuccessor(r)) /\ Found(GetSuccessor(r))
        BY <1>6, <2>3 DEF Relink, TypeOK
      <3>2. succ'[r] \in Server => znode[succ'[r]]
        BY <3>1 DEF Connect, Found
      <3>3. Lists(r)
        BY DEF ListedInv, Lists
      <3> QED
        BY <2>1, <3>2, <3>3 DEF Lists, Alive, Storing
    <2> QED
      BY <2>2, <2>3
  <1>7. ASSUME NEW s \in Server, Serve(s) \/ Sleep(s)
        PROVE  UNCHANGED <<zkVars, late, phase, peer, succ>> \/ Die(s)
    BY <1>7 DEF Serve, Apply, NoSuccessor, Forward, PeerGone, UseFreed, Answer, Sleep, JobUnchanged
  <1>8. ASSUME NEW s \in Server, Dying(s) PROVE \E d \in Server : Die(d)
    BY <1>8, DyingDies
  <1>9. ASSUME NEW c \in Client, Command(c)
        PROVE  UNCHANGED <<zkVars, late, phase, peer, succ>>
    BY <1>9 DEF Command, Start, OpenHead, OpenTail, Submit, CommandCrash, ClientCrash,
                ClientUnchanged
  <1>10. UNCHANGED <<zkVars, late, phase, peer, succ>> => Lists(r)'
    BY ListsKept DEF Alive, Storing
  <1> QED
    BY <1>1, <1>2, <1>3, <1>4, <1>5, <1>6, <1>7, <1>8, <1>9, <1>10, ListsGone
       DEF Next, Join, Watch, Dying

\* However many servers come and go, a server that knows the children as they are
\* has no successor that is gone from them, but one that was stored too late.
THEOREM NoWriteToTheGone == Spec => []NoDeadSuccessor
  <1>1. Init => WatchInv /\ FreshInv /\ ListedInv
    BY DEF Init, WatchInv, FreshInv, ListedInv, Alive
  <1>2. Linked => NoDeadSuccessor
    BY DEF Linked, ListedInv, NoDeadSuccessor
  <1>3. Init => Linked
    BY <1>1, InitTypes DEF Linked
  <1>4. Linked /\ [Next]_vars => Linked'
    BY StepTypes, StepWatch, StepFresh, StepListed DEF Linked
  <1> QED
    BY <1>2, <1>3, <1>4, PTL DEF Spec

-----------------------------------------------------------------------------
(* Whom a server waits for.  Connections are made to servers that listen,   *)
(* and who has come to listen can only go down.                             *)

Started(a) == phase[a] \in {"up", "down"}

PeerInv ==
  \A s \in Server : /\ succ[s] \in Server => Started(succ[s])
                    /\ job[s].peer \in Server => Started(job[s].peer)
                    /\ phase[s] = "connected" /\ peer[s] \in Server => Started(peer[s])
                    /\ job[s].at = "waiting" => job[s].peer \in Server

\* Who has started, or is down, stays so.
LEMMA StartedStays ==
  ASSUME TypeOK, [Next]_vars, NEW a \in Server
  PROVE  /\ Started(a) => Started(a)'
         /\ phase[a] = "down" => phase'[a] = "down"
  <1> USE DEF zkVars, initVars, listVars, clientVars, Started
  <1>1. CASE UNCHANGED vars
    BY <1>1 DEF vars
  <1>2. ASSUME NEW s \in Server,
               \/ Register(s) \/ List(s) \/ LookUp(s) \/ Dial(s) \/ Link(s)
               \/ AskTable(s) \/ Copy(s) \/ Listen(s)
        PROVE  phase[s] \notin {"up", "down"} /\ \E q \in Phases : phase' = [phase EXCEPT ![s] = q]
    BY <1>2 DEF Register, List, LookUp, Dial, Link, AskTable, Copy, Listen, Reach, Phases
  <1>3. ASSUME NEW s \in Server,
               \/ Refetch(s) \/ Relink(s) \/ Serve(s) \/ Sleep(s) \/ Expire(s) \/ Lose(s)
        PROVE  UNCHANGED phase \/ phase' = [phase EXCEPT ![s] = "down"]
    BY <1>3 DEF Refetch, Relink, Serve, Apply, NoSuccessor, Forward,
                PeerGone, UseFreed, Answer, Sleep, JobUnchanged, WatchUnchanged, Expire, Lose, Die
  <1>4. ASSUME NEW c \in Client, Command(c)
        PROVE  UNCHANGED phase
    BY <1>4 DEF Command, Start, OpenHead, OpenTail, Submit, CommandCrash, ClientCrash,
                ClientUnchanged
  <1>5. ASSUME NEW s \in Server, Dying(s)
        PROVE  \E d \in Server : phase' = [phase EXCEPT ![d] = "down"]
    BY <1>5, DyingDies DEF Die
  <1> QED
    BY <1>1, <1>2, <1>3, <1>4, <1>5 DEF Next, Join, Watch, Dying, TypeOK

\* How one step may change what r is doing: only Forward waits for a peer.
JobStep(r) ==
  \/ job'[r] = job[r]
  \/ job'[r].at # "waiting" /\ job'[r].peer \in {job[r].peer, Null}
  \/ job'[r].peer = succ[r] /\ succ[r] \in Server

\* Dying is such a step, and leaves no connection.
LEMMA DieJobStep ==
  ASSUME TypeOK, NEW s \in Server, Die(s), NEW r \in Server
  PROVE  /\ JobStep(r) /\ succ'[r] \in {succ[r], Null}
         /\ phase'[r] = "connected" => phase[r] = "connected" /\ peer'[r] = peer[r]
  BY DEF TypeOK, Die, Idle, JobStep

\* Where the peers and the connections of a server come from in one step.
LEMMA PeersComeFrom ==
  ASSUME TypeOK, [Next]_vars, NEW r \in Server
  PROVE  /\ JobStep(r)
         /\ succ'[r] \in Server => \/ succ'[r] = succ[r] \/ Started(succ'[r])
                                   \/ phase[r] = "connected" /\ succ'[r] = peer[r]
         /\ phase'[r] = "connected" /\ peer'[r] \in Server =>
              (phase[r] = "connected" /\ peer'[r] = peer[r]) \/ Started(peer'[r])
  <1> DEFINE From ==
        /\ succ'[r] \in Server => \/ succ'[r] = succ[r] \/ Started(succ'[r])
                                  \/ phase[r] = "connected" /\ succ'[r] = peer[r]
        /\ phase'[r] = "connected" /\ peer'[r] \in Server =>
             (phase[r] = "connected" /\ peer'[r] = peer[r]) \/ Started(peer'[r])
  <1> SUFFICES JobStep(r) /\ From
    OBVIOUS
  <1> USE ChainAssumption DEF zkVars, initVars, listVars, clientVars
  <1>0. ASSUME NEW a PROVE Connect(a) \in Server => Started(Connect(a))
    BY DEF Connect, Started
  <1>a. UNCHANGED <<phase, peer>> /\ succ'[r] \in {succ[r], Null, Freed} => From
    OBVIOUS
  <1>b. UNCHANGED job => JobStep(r)
    BY DEF JobStep
  <1>1. CASE UNCHANGED vars
    BY <1>1, <1>a, <1>b DEF vars
  <1>2. ASSUME NEW s \in Server, Relink(s) PROVE JobStep(r) /\ From
    <2>1. succ'[r] = succ[r] \/ succ'[r] = Connect(GetSuccessor(s))
      BY <1>2 DEF Relink, TypeOK
    <2>2. UNCHANGED <<job, phase, peer>>
      BY <1>2 DEF Relink
    <2> QED
      BY <1>0, <1>b, <2>1, <2>2
  <1>3. ASSUME NEW s \in Server,
               \/ Register(s) \/ List(s) \/ LookUp(s) \/ Link(s)
               \/ AskTable(s) \/ Copy(s) \/ Listen(s)
        PROVE  JobStep(r) /\ From
    <2>1. UNCHANGED job
      BY <1>3 DEF Register, List, LookUp, Link, AskTable, Copy, Listen, JoinUnchanged
    <2>2. phase'[r] = "connected" => phase[r] = "connected" /\ peer'[r] = peer[r]
      BY <1>3 DEF Register, List, LookUp, Link, AskTable, Copy, Listen, Reach, TypeOK
    <2>3. succ'[r] = succ[r] \/ (phase[r] = "connected" /\ succ'[r] = peer[r])
      BY <1>3 DEF Register, List, LookUp, Link, AskTable, Copy, Listen, JoinUnchanged, TypeOK
    <2> QED
      BY <1>b, <2>1, <2>2, <2>3
  <1>c. ASSUME NEW s \in Server, Dial(s) PROVE JobStep(r) /\ From
    <2>1. UNCHANGED <<job, succ>>
      BY <1>c DEF Dial, JoinUnchanged
    <2>2. \/ phase'[r] = phase[r] /\ peer'[r] = peer[r]
          \/ peer'[r] = Connect(peer[r])
      BY <1>c DEF Dial, Reach, TypeOK
    <2> QED
      BY <1>0, <1>b, <2>1, <2>2
  <1>d. ASSUME NEW s \in Server, Expire(s) \/ Lose(s) PROVE JobStep(r) /\ From
    BY <1>d, <1>a, <1>b DEF Expire, Lose
  <1>4. ASSUME NEW s \in Server, Dying(s) PROVE JobStep(r) /\ From
    BY <1>4, DyingDies, DieJobStep
  <1>5. ASSUME NEW s \in Server, NEW step \in {"done", "hung"}, job' = [job EXCEPT ![s].at = step]
        PROVE  JobStep(r)
    <2>1. CASE r # s
      BY <1>5, <2>1 DEF JobStep, TypeOK
    <2>2. CASE r = s
      <3>1. job'[r].at = step /\ job'[r].peer = job[r].peer
        BY <1>5, <2>2 DEF TypeOK, Working, Idle, Asleep
      <3> QED
        BY <3>1 DEF JobStep
    <2> QED
      BY <2>1, <2>2
  <1>6. ASSUME NEW s \in Server, Refetch(s)
        PROVE  JobStep(r) /\ From
    <2>1. From
      BY <1>6, <1>a DEF Refetch, WatchUnchanged, TypeOK
    <2>2. UNCHANGED job \/ job' = [job EXCEPT ![s].at = "hung"]
      BY <1>6 DEF Refetch
    <2>3. UNCHANGED job => JobStep(r)
      BY DEF JobStep
    <2> QED
      BY <2>1, <2>2, <2>3, <1>5
  <1>7. ASSUME NEW s \in Server,
               Apply(s) \/ NoSuccessor(s) \/ UseFreed(s) \/ Answer(s) \/ Sleep(s)
        PROVE  JobStep(r) /\ From
    <2>1. Apply(s) \/ NoSuccessor(s) \/ Answer(s) \/ Sleep(s) => From
      BY <1>a DEF Apply, NoSuccessor, Answer, Sleep, JobUnchanged
    <2>2. CASE Apply(s)
      <3>1. PICK m \in inbox[s] :
              job' = [job EXCEPT ![s] = [at |-> "applied", from |-> m.from,
                                         write |-> m.write, peer |-> Null]]
        BY <2>2 DEF Apply
      <3>2. CASE r # s
        BY <2>1, <2>2, <3>1, <3>2 DEF TypeOK, JobStep
      <3>3. CASE r = s
        BY <2>1, <2>2, <3>1, <3>3 DEF TypeOK, JobStep
      <3> QED
        BY <3>2, <3>3
    <2>3. CASE Answer(s)
      <3>1. CASE r = s
        BY <2>1, <2>3, <3>1 DEF Answer, Idle, JobStep
      <3>2. CASE r # s
        <4>1. job'[r] = job[r] \/ job'[r] = [job[r] EXCEPT !.at = "done"]
          BY <2>3, <3>2 DEF Answer
        <4>2. job[r] \in Working \cup {Idle, Asleep}
          BY DEF TypeOK
        <4> QED
          BY <2>1, <2>3, <4>1, <4>2 DEF JobStep, Working, Idle, Asleep
      <3> QED
        BY <3>1, <3>2
    <2>4. CASE NoSuccessor(s)
      BY <2>1, <2>4, <1>5 DEF NoSuccessor
    <2>5. CASE UseFreed(s)
      <3>1. CASE Die(s)
        BY <3>1, DieJobStep
      <3>2. CASE job' = [job EXCEPT ![s].at = "hung"] /\ UNCHANGED <<initVars, succ>>
        BY <3>2, <1>5, <1>a
      <3> QED
        BY <2>5, <3>1, <3>2 DEF UseFreed, JobUnchanged
    <2>6. CASE Sleep(s)
      <3>1. job'[r] = job[r] \/ job'[r] = Asleep
        BY <2>6 DEF Sleep, TypeOK
      <3> QED
        BY <2>1, <2>6, <3>1 DEF JobStep, Asleep, Idle
    <2> QED
      BY <1>7, <2>2, <2>3, <2>4, <2>5, <2>6
  <1>8. ASSUME NEW s \in Server, Forward(s) PROVE JobStep(r) /\ From
    BY <1>8, <1>a DEF Forward, JobUnchanged, TypeOK, JobStep
  <1>9. ASSUME NEW c \in Client, Command(c) PROVE JobStep(r) /\ From
    BY <1>9, <1>a, <1>b DEF Command, Start, OpenHead, OpenTail, Submit, CommandCrash, ClientCrash,
                            ClientUnchanged
  <1> HIDE DEF From
  <1> QED
    BY <1>1, <1>2, <1>3, <1>c, <1>d, <1>4, <1>6, <1>7, <1>8, <1>9
       DEF Next, Join, Watch, Serve, Dying

\* Peers and connections have started, and stay so.
LEMMA StepPeers == TypeOK /\ PeerInv /\ [Next]_vars => PeerInv'
  <1> SUFFICES ASSUME TypeOK, PeerInv, [Next]_vars, NEW r \in Server
               PROVE  /\ succ'[r] \in Server => phase'[succ'[r]] \in {"up", "down"}
                      /\ job'[r].peer \in Server => phase'[job'[r].peer] \in {"up", "down"}
                      /\ phase'[r] = "connected" /\ peer'[r] \in Server =>
                           phase'[peer'[r]] \in {"up", "down"}
                      /\ job'[r].at = "waiting" => job'[r].peer \in Server
    BY DEF PeerInv, Started
  <1>0. Null \notin Server
    BY ChainAssumption
  <1>1. /\ succ'[r] \in Server => \/ succ'[r] = succ[r] \/ Started(succ'[r])
                                  \/ phase[r] = "connected" /\ succ'[r] = peer[r]
        /\ phase'[r] = "connected" /\ peer'[r] \in Server =>
             (phase[r] = "connected" /\ peer'[r] = peer[r]) \/ Started(peer'[r])
    BY PeersComeFrom
  <1>2. JobStep(r)
    BY PeersComeFrom
  <1>3. \A a \in Server : Started(a) => phase'[a] \in {"up", "down"}
    BY StartedStays DEF Started
  <1>4. /\ succ'[r] \in Server => phase'[succ'[r]] \in {"up", "down"}
        /\ phase'[r] = "connected" /\ peer'[r] \in Server => phase'[peer'[r]] \in {"up", "down"}
    BY <1>1, <1>3 DEF PeerInv
  <1>5. job'[r].peer \in Server => phase'[job'[r].peer] \in {"up", "down"}
    BY <1>0, <1>2, <1>3 DEF PeerInv, JobStep
  <1>6. job'[r].at = "waiting" => job'[r].peer \in Server
    BY <1>2 DEF PeerInv, JobStep
  <1> QED
    BY <1>4, <1>5, <1>6

-----------------------------------------------------------------------------
(* What an answer stands for.  DoneMeansPeer needs to know which write the  *)
(* peer has answered: a server passes one write on at a time, and whatever  *)
(* is left of a server that went down is answered to nobody.                *)

\* s is down, or waits for its write w to be answered by a.  (A server asleep has
\* no write to pass on.)
Outstanding(s, a, w) ==
  \/ phase[s] = "down"
  \/ job[s].at \in {"waiting", "hung"} /\ job[s].peer = a /\ job[s].write = w

Busy(a) == job[a].at \notin {"idle", "asleep"}

PassInv ==
  /\ \A a \in Server : Busy(a) => phase[a] = "up" /\ job[a].write \in Elements(table[a])
  /\ \A a \in Server : job[a].at \in {"idle", "asleep", "applied"} => job[a].peer = Null
  /\ \A s, a \in Server : \A m \in inbox[a] : m.from = s =>
       /\ Outstanding(s, a, m.write)
       /\ Busy(a) /\ job[a].from = s => phase[s] = "down"
  /\ \A s, a \in Server : Busy(a) /\ job[a].from = s => Outstanding(s, a, job[a].write)

Passed == TypeOK /\ PeerInv /\ PassInv /\ DoneMeansPeer

\* A table that takes a write has it, and has what it had.
LEMMA AppliedElements ==
  ASSUME NEW t \in Seq(Write), NEW w \in Write
  PROVE  Elements(Applied(t, w)) = Elements(t) \cup {w}
  <1>1. CASE t # <<>> /\ t[Len(t)] = w
    BY <1>1 DEF Applied, Elements
  <1>2. CASE ~(t # <<>> /\ t[Len(t)] = w)
    <2>1. Applied(t, w) = Append(t, w)
      BY <1>2 DEF Applied
    <2>2. Len(Append(t, w)) = Len(t) + 1 /\ Append(t, w)[Len(t) + 1] = w
          /\ \A i \in 1 .. Len(t) : Append(t, w)[i] = t[i]
      BY AppendProperties
    <2> QED
      BY <2>1, <2>2 DEF Elements
  <1> QED
    BY <1>1, <1>2

\* Nothing changes for writes when only servers that do not serve yet go on.
LEMMA PassKept ==
  ASSUME Passed, UNCHANGED <<job, inbox>>,
         \A r \in Server : Started(r) => phase'[r] = phase[r] /\ table'[r] = table[r]
  PROVE  PassInv' /\ DoneMeansPeer'
  <1> USE DEF Passed, Started, Elements
  <1>1. ASSUME NEW a \in Server, Busy(a)
        PROVE  phase'[a] = "up" /\ table'[a] = table[a] /\ job[a].write \in Elements(table[a])
    BY <1>1 DEF PassInv
  <1>2. ASSUME NEW s \in Server, NEW a, NEW w, Outstanding(s, a, w) PROVE Outstanding(s, a, w)'
    BY <1>2 DEF Outstanding
  <1>3. \A s \in Server : phase[s] = "down" => phase'[s] = "down"
    OBVIOUS
  <1>4. PassInv'
    BY <1>1, <1>2, <1>3 DEF PassInv, Busy
  <1>5. DoneMeansPeer'
    BY DEF DoneMeansPeer, PeerInv
  <1> QED
    BY <1>4, <1>5

\* A server that goes down takes its write and what it was sent with it.
LEMMA PassDie ==
  ASSUME Passed, NEW d \in Server, Die(d)
  PROVE  PassInv' /\ DoneMeansPeer'
  <1> USE DEF Passed
  <1>1. /\ job'[d] = Idle /\ inbox'[d] = {} /\ phase'[d] = "down" /\ table' = table
        /\ \A r \in Server \ {d} : job'[r] = job[r] /\ inbox'[r] = inbox[r] /\ phase'[r] = phase[r]
    BY DEF Die, TypeOK
  <1>2. ASSUME NEW s \in Server, NEW a, NEW w, Outstanding(s, a, w) PROVE Outstanding(s, a, w)'
    BY <1>1, <1>2 DEF Outstanding
  <1>3. PassInv'
    BY <1>1, <1>2 DEF PassInv, Busy, Idle
  <1>4. DoneMeansPeer'
    BY <1>1 DEF DoneMeansPeer, Idle
  <1> QED
    BY <1>3, <1>4

\* A write that is not passed on ends with no peer to have it; one that was may
\* hang, and stays outstanding.
LEMMA PassMoves ==
  ASSUME Passed, NEW d \in Server, NEW step \in {"done", "hung"},
         job[d].at = "applied" \/ (job[d].at = "waiting" /\ step = "hung"),
         job' = [job EXCEPT ![d].at = step], UNCHANGED <<inbox, phase, table>>
  PROVE  PassInv' /\ DoneMeansPeer'
  <1> USE DEF Passed
  <1>1. /\ job'[d].at = step /\ job'[d].from = job[d].from /\ job'[d].write = job[d].write
        /\ job'[d].peer = job[d].peer
        /\ \A r \in Server \ {d} : job'[r] = job[r]
    BY DEF TypeOK, Working, Idle
  <1>2. ASSUME NEW s \in Server, NEW a, NEW w, Outstanding(s, a, w) PROVE Outstanding(s, a, w)'
    BY <1>1, <1>2 DEF Outstanding
  <1>3. \A a \in Server : Busy(a)' => Busy(a)
    BY <1>1 DEF Busy
  <1>4. PassInv'
    BY <1>1, <1>2, <1>3 DEF PassInv
  <1>5. DoneMeansPeer'
    BY <1>1, ChainAssumption DEF DoneMeansPeer, PassInv
  <1> QED
    BY <1>4, <1>5

\* A server begins a write it was sent: the write moves from its inbox to its job.
LEMMA PassApply ==
  ASSUME Passed, NEW d \in Server, Apply(d)
  PROVE  PassInv' /\ DoneMeansPeer'
  <1> USE DEF Passed
  <1>1. PICK m \in inbox[d] :
          /\ inbox' = [inbox EXCEPT ![d] = @ \ {m}]
          /\ table' = [table EXCEPT ![d] = Applied(@, m.write)]
          /\ job' = [job EXCEPT ![d] = [at |-> "applied", from |-> m.from,
                                        write |-> m.write, peer |-> Null]]
    BY DEF Apply
  <1>2. m \in Request /\ job[d] = Idle /\ phase[d] = "up" /\ phase' = phase
    BY DEF Apply, TypeOK, initVars
  <1>3. /\ inbox'[d] = inbox[d] \ {m}
        /\ job'[d] = [at |-> "applied", from |-> m.from, write |-> m.write, peer |-> Null]
        /\ Elements(table'[d]) = Elements(table[d]) \cup {m.write}
    <2>1. table'[d] = Applied(table[d], m.write) /\ table[d] \in Seq(Write) /\ m.write \in Write
      BY <1>1, <1>2 DEF TypeOK, Request
    <2> QED
      BY <1>1, <2>1, AppliedElements DEF TypeOK
  <1>4. \A r \in Server \ {d} : job'[r] = job[r] /\ inbox'[r] = inbox[r] /\ table'[r] = table[r]
    BY <1>1 DEF TypeOK
  <1>5. ASSUME NEW s \in Server, NEW a, NEW w, Outstanding(s, a, w) PROVE Outstanding(s, a, w)'
    BY <1>2, <1>4, <1>5 DEF Outstanding, Idle
  <1>6. ASSUME NEW n \in inbox[d], n.from = m.from, m.from \in Server, phase[m.from] # "down"
        PROVE  n = m
    <2>1. n.write = m.write
      BY <1>6 DEF PassInv, Outstanding
    <2>2. n \in Request
      BY DEF TypeOK
    <2> QED
      BY <1>2, <1>6, <2>1, <2>2 DEF Request
  <1>7. /\ \A a \in Server : Busy(a)' => phase'[a] = "up" /\ job'[a].write \in Elements(table'[a])
        /\ \A a \in Server : job'[a].at \in {"idle", "asleep", "applied"} => job'[a].peer = Null
    BY <1>2, <1>3, <1>4 DEF PassInv, Busy
  <1>8. ASSUME NEW s \in Server, NEW a \in Server
        PROVE  /\ \A n \in inbox'[a] : n.from = s =>
                    /\ Outstanding(s, a, n.write)'
                    /\ Busy(a)' /\ job'[a].from = s => phase'[s] = "down"
               /\ Busy(a)' /\ job'[a].from = s => Outstanding(s, a, job[a].write)'
    <2>1. CASE a = d
      BY <1>1, <1>2, <1>3, <1>5, <1>6, <2>1 DEF PassInv
    <2>2. CASE a # d
      BY <1>2, <1>4, <1>5, <2>2 DEF PassInv, Busy
    <2> QED
      BY <2>1, <2>2
  <1>9. PassInv'
    BY <1>7, <1>8 DEF PassInv
  <1>10. DoneMeansPeer'
    BY <1>3, <1>4 DEF DoneMeansPeer
  <1> QED
    BY <1>9, <1>10

\* A write is passed on: nothing else of its server is on its way.
LEMMA PassForward ==
  ASSUME Passed, NEW d \in Server, Forward(d)
  PROVE  PassInv' /\ DoneMeansPeer'
  <1> USE DEF Passed
  <1>p. PICK p \in Server : p = succ[d]
    BY DEF Forward
  <1>m. PICK m : m = [from |-> d, write |-> job[d].write]
    OBVIOUS
  <1>1. /\ job[d].at = "applied" /\ UNCHANGED <<phase, table>>
        /\ inbox'[p] = inbox[p] \cup {m}
        /\ \A r \in Server \ {p} : inbox'[r] = inbox[r]
        /\ job'[d] = [at |-> "waiting", from |-> job[d].from, write |-> job[d].write, peer |-> p]
        /\ \A r \in Server \ {d} : job'[r] = job[r]
    BY <1>p, <1>m DEF Forward, TypeOK, initVars
  <1>2. phase[d] = "up" /\ \A a \in Server : ~Outstanding(d, a, job[a].write)
        /\ \A w : ~Outstanding(d, p, w)
    BY <1>1 DEF PassInv, Outstanding, Busy
  <1>3. ASSUME NEW s \in Server, NEW a, NEW w, Outstanding(s, a, w) PROVE Outstanding(s, a, w)'
    BY <1>1, <1>3 DEF Outstanding
  <1>4. \A a \in Server : /\ Busy(a)' <=> Busy(a)
                          /\ job'[a].from = job[a].from /\ job'[a].write = job[a].write
    BY <1>1 DEF Busy
  <1>5. \A a \in Server : Busy(a) => job[a].from # d
    BY <1>2 DEF PassInv
  <1>6. Outstanding(d, p, m.write)'
    BY <1>1, <1>m DEF Outstanding
  <1>7. ASSUME NEW s \in Server, NEW a \in Server, NEW n \in inbox'[a], n.from = s
        PROVE  /\ Outstanding(s, a, n.write)'
               /\ Busy(a)' /\ job'[a].from = s => phase'[s] = "down"
    <2>1. CASE n \in inbox[a]
      BY <1>1, <1>3, <1>4, <1>7, <2>1 DEF PassInv
    <2>2. CASE n \notin inbox[a]
      <3>1. n = m /\ a = p /\ s = d
        BY <1>1, <1>7, <1>m, <2>2
      <3> QED
        BY <1>4, <1>5, <1>6, <1>m, <3>1
    <2> QED
      BY <2>1, <2>2
  <1>8. PassInv'
    BY <1>1, <1>3, <1>4, <1>7 DEF PassInv
  <1>9. DoneMeansPeer'
    BY <1>1 DEF DoneMeansPeer
  <1> QED
    BY <1>8, <1>9

\* An answer goes to the server whose write it is about, which has no other.
LEMMA PassAnswer ==
  ASSUME Passed, NEW d \in Server, Answer(d)
  PROVE  PassInv' /\ DoneMeansPeer'
  <1> USE DEF Passed
  <1>1. job'[d] = Idle
    BY DEF Answer, WaitsFor
  <1>2. job[d].at = "done" /\ UNCHANGED <<inbox, phase, table>>
        /\ phase[d] = "up" /\ job[d].write \in Elements(table[d])
    <2>1. job[d].at = "done" /\ UNCHANGED <<inbox, phase, table>>
      BY DEF Answer, initVars
    <2> QED
      BY <2>1 DEF PassInv, Busy
  <1>3. ASSUME NEW r \in Server \ {d}, job'[r] # job[r]
        PROVE  /\ r = job[d].from /\ job[r].at = "waiting" /\ job[r].peer = d
               /\ phase[r] = "up" /\ job[r].write = job[d].write
               /\ job'[r].at = "done" /\ job'[r].from = job[r].from
               /\ job'[r].write = job[r].write /\ job'[r].peer = job[r].peer
    <2>1. /\ r = job[d].from /\ WaitsFor(r, d)
          /\ job'[r] = [job[r] EXCEPT !.at = "done"]
      BY <1>3 DEF Answer
    <2>2. job[r] \in Working
      BY <2>1, JobWorks DEF WaitsFor
    <2>3. /\ job'[r].at = "done" /\ job'[r].from = job[r].from
          /\ job'[r].write = job[r].write /\ job'[r].peer = job[r].peer
      BY <2>1, <2>2 DEF Working
    <2>4. job[r].at = "waiting" /\ job[r].peer = d
      BY <2>1 DEF WaitsFor
    <2>5. phase[r] = "up"
      BY <2>4 DEF PassInv, Busy
    <2>6. Outstanding(r, d, job[d].write)
      BY <1>2, <2>1 DEF PassInv, Busy
    <2>7. job[r].write = job[d].write
      BY <2>5, <2>6 DEF Outstanding
    <2> QED
      BY <2>1, <2>3, <2>4, <2>5, <2>7
  <1>4. \A r \in Server \ {d} :
           /\ job'[r].from = job[r].from /\ job'[r].write = job[r].write
           /\ job'[r].peer = job[r].peer
           /\ job'[r].at # job[r].at => job[r].at = "waiting" /\ job'[r].at = "done"
    BY <1>3
  <1>5. ASSUME NEW a \in Server \ {d}, NEW s \in Server, NEW w, Outstanding(s, a, w)
        PROVE  Outstanding(s, a, w)'
    BY <1>1, <1>2, <1>3, <1>5 DEF Outstanding, Idle
  <1>6. ASSUME NEW s \in Server, NEW n \in inbox[d], n.from = s PROVE Outstanding(s, d, n.write)'
    <2>1. Outstanding(s, d, n.write) /\ (s = job[d].from => phase[s] = "down")
      BY <1>1, <1>2, <1>6 DEF PassInv, Busy
    <2> QED
      BY <1>1, <1>2, <1>3, <2>1 DEF Outstanding, Idle
  <1>7. \A a \in Server : Busy(a)' => a # d /\ Busy(a)
    BY <1>1, <1>2, <1>4 DEF Busy, Idle
  <1>8. PassInv'
    <2>1. \A a \in Server : Busy(a)' => phase'[a] = "up" /\ job'[a].write \in Elements(table'[a])
      BY <1>1, <1>2, <1>4, <1>7 DEF PassInv
    <2>2. \A a \in Server : job'[a].at \in {"idle", "asleep", "applied"} => job'[a].peer = Null
      BY <1>1, <1>2, <1>4 DEF PassInv, Idle
    <2>3. ASSUME NEW s \in Server, NEW a \in Server, NEW n \in inbox'[a], n.from = s
          PROVE  /\ Outstanding(s, a, n.write)'
                 /\ Busy(a)' /\ job'[a].from = s => phase'[s] = "down"
      BY <1>1, <1>2, <1>4, <1>5, <1>6, <1>7, <2>3 DEF PassInv
    <2>4. ASSUME NEW s \in Server, NEW a \in Server, Busy(a)', job'[a].from = s
          PROVE  Outstanding(s, a, job[a].write)'
      BY <1>4, <1>5, <1>7, <2>4 DEF PassInv
    <2> QED
      BY <2>1, <2>2, <2>3, <2>4 DEF PassInv
  <1>9. DoneMeansPeer'
    <2> SUFFICES ASSUME NEW s \in Server, job'[s].at = "done", job'[s].peer \in Server
                 PROVE  job'[s].write \in Elements(table'[job'[s].peer])
      BY DEF DoneMeansPeer
    <2>1. s # d
      BY <1>1, <1>2 DEF Idle
    <2>2. CASE job'[s] = job[s]
      BY <1>1, <1>2, <2>2 DEF DoneMeansPeer
    <2>3. CASE job'[s] # job[s]
      BY <1>1, <1>2, <1>3, <1>4, <2>1, <2>3
    <2> QED
      BY <2>2, <2>3
  <1> QED
    BY <1>8, <1>9

\* A server that falls asleep passes nothing on any more.
LEMMA PassSleep ==
  ASSUME Passed, NEW d \in Server, Sleep(d)
  PROVE  PassInv' /\ DoneMeansPeer'
  <1> USE DEF Passed
  <1>1. /\ job'[d] = Asleep /\ job[d].at \in {"idle", "done"}
        /\ \A r \in Server \ {d} : job'[r] = job[r]
        /\ UNCHANGED <<inbox, phase, table>>
    BY DEF Sleep, TypeOK, Idle, initVars
  <1>2. ASSUME NEW s \in Server, NEW a, NEW w, Outstanding(s, a, w) PROVE Outstanding(s, a, w)'
    BY <1>1, <1>2 DEF Outstanding
  <1>3. PassInv'
    BY <1>1, <1>2 DEF PassInv, Busy, Asleep, Idle
  <1>4. DoneMeansPeer'
    BY <1>1 DEF DoneMeansPeer, Asleep, Idle
  <1> QED
    BY <1>3, <1>4

\* A client's request is nobody's write to pass on yet.
LEMMA PassSubmit ==
  ASSUME Passed, NEW c \in Client, Submit(c)
  PROVE  PassInv' /\ DoneMeansPeer'
  <1> USE DEF Passed
  <1>1. UNCHANGED <<job, phase, table>>
    BY DEF Submit, ClientUnchanged, initVars
  <1>2. \A a \in Server : \A n \in inbox'[a] : n \in inbox[a] \/ n.from = c
    BY DEF Submit, TypeOK
  <1>3. c \notin Server
    BY ChainAssumption
  <1>4. PassInv'
    BY <1>1, <1>2, <1>3 DEF PassInv, Busy, Outstanding
  <1>5. DoneMeansPeer'
    BY <1>1 DEF DoneMeansPeer
  <1> QED
    BY <1>4, <1>5

\* Every action keeps what an answer stands for.
LEMMA StepPassed == Passed /\ [Next]_vars => PassInv' /\ DoneMeansPeer'
  <1> SUFFICES ASSUME Passed, [Next]_vars PROVE PassInv' /\ DoneMeansPeer'
    OBVIOUS
  <1> USE DEF zkVars, initVars, listVars, clientVars
  <1>1. CASE UNCHANGED vars
    BY <1>1, PassKept DEF vars
  <1>2. ASSUME NEW s \in Server,
               \/ Register(s) \/ List(s) \/ LookUp(s) \/ Dial(s) \/ Link(s)
               \/ AskTable(s) \/ Copy(s) \/ Listen(s) \/ Expire(s) \/ Lose(s) \/ Relink(s)
        PROVE  PassInv' /\ DoneMeansPeer'
    <2>1. UNCHANGED <<job, inbox>>
      BY <1>2 DEF Register, List, LookUp, Dial, Link, AskTable, Copy, Listen, JoinUnchanged,
                  Expire, Lose, Relink
    <2>2. \A r \in Server : Started(r) => phase'[r] = phase[r] /\ table'[r] = table[r]
      BY <1>2 DEF Passed, TypeOK, Started, Register, List, LookUp, Dial, Link, AskTable, Copy,
                  Listen, JoinUnchanged, Expire, Lose, Relink, Reach
    <2> QED
      BY <2>1, <2>2, PassKept
  <1>3. ASSUME NEW s \in Server, Dying(s)
        PROVE  PassInv' /\ DoneMeansPeer'
    BY <1>3, DyingDies, PassDie DEF Passed
  <1>4. ASSUME NEW s \in Server, Refetch(s) PROVE PassInv' /\ DoneMeansPeer'
    <2>1. UNCHANGED <<inbox, phase, table>>
      BY <1>4 DEF Refetch, WatchUnchanged
    <2>2. CASE UNCHANGED job
      BY <2>1, <2>2, PassKept
    <2>3. CASE job[s].at = "waiting" /\ job' = [job EXCEPT ![s].at = "hung"]
      BY <2>1, <2>3, PassMoves
    <2> QED
      BY <1>4, <2>2, <2>3 DEF Refetch
  <1>5. ASSUME NEW s \in Server, NoSuccessor(s) PROVE PassInv' /\ DoneMeansPeer'
    BY <1>5, PassMoves DEF NoSuccessor
  <1>6. ASSUME NEW s \in Server, UseFreed(s) PROVE PassInv' /\ DoneMeansPeer'
    <2>1. CASE Die(s)
      BY <2>1, PassDie
    <2>2. CASE job' = [job EXCEPT ![s].at = "hung"] /\ UNCHANGED <<inbox, phase, table>>
      BY <1>6, <2>2, PassMoves DEF UseFreed
    <2> QED
      BY <1>6, <2>1, <2>2 DEF UseFreed
  <1>7. ASSUME NEW c \in Client, Command(c) PROVE PassInv' /\ DoneMeansPeer'
    <2>1. CASE Submit(c)
      BY <2>1, PassSubmit
    <2>2. CASE ~Submit(c)
      <3>1. UNCHANGED <<job, inbox, phase, table>>
        BY <1>7, <2>2 DEF Command, Start, OpenHead, OpenTail, CommandCrash, ClientCrash,
                          ClientUnchanged
      <3> QED
        BY <3>1, PassKept
    <2> QED
      BY <2>1, <2>2
  <1> QED
    BY <1>1, <1>2, <1>3, <1>4, <1>5, <1>6, <1>7, PassApply, PassForward, PassAnswer, PassSleep
       DEF Next, Join, Watch, Serve, Dying

\* However long the chain, a write that was passed on and answered is in the
\* table of the server it was passed to.
THEOREM AnswersMeanPeers == Spec => []DoneMeansPeer
  <1>1. Init => PeerInv /\ PassInv /\ DoneMeansPeer
    BY ChainAssumption DEF Init, PeerInv, PassInv, DoneMeansPeer, Idle, Busy
  <1> QED
    BY <1>1, InitTypes, StepTypes, StepPeers, StepPassed, PTL DEF Spec, Passed
-----------------------------------------------------------------------------
(* What the tables hold, with one client.  Its write is in one place at a   *)
(* time, in an inbox or with a server that has applied it, and has been to  *)
(* the head before it is anywhere else; the next is not sent before it is   *)
(* nowhere.  So the tables are increasing, and FollowsHead only says that   *)
(* they have nothing that the head's does not have.                         *)

OneClient == \A c, d \in Client : c = d

\* a has a write that it still has to pass on or to answer.
Held(a) == job[a].at \in {"applied", "done"}

Active(a) == inbox[a] # {} \/ Held(a)

\* The last write sent is in one place at most, in none unless its client waits.
TokenInv ==
  /\ \A a, b \in Server : Active(a) /\ Active(b) => a = b
  /\ \A a \in Server : \A m, n \in inbox[a] : m = n
  /\ \A a \in Server : inbox[a] # {} => ~Held(a)
  /\ \A a \in Server : \A m \in inbox[a] : m.write = sent
  /\ \A a \in Server : Held(a) => job[a].write = sent
  /\ \A a \in Server, c \in Client : Active(a) => client[c].at \in {"waiting", "down"}

HeadHas(c) == client[c].head \in Server /\ sent \in Elements(table[client[c].head])

\* It is sent to the head, and the head has it before it passes it on.
HeadInv ==
  \A c \in Client :
    /\ client[c].head = Null => sent = 0
    /\ client[c].at \in {"out", "listed"} => client[c].head = Null
    /\ client[c].head \in Server => Started(client[c].head)
    /\ \A a \in Server : \A m \in inbox[a] :
         IF m.from \in Client THEN a = client[c].head ELSE HeadHas(c)
    /\ \A a \in Server : Held(a) => HeadHas(c)

Increasing(t) == \A i, j \in 1 .. Len(t) : i < j => t[i] < t[j]

\* Every table is in the order of sending, and within that of the head.
OrderInv ==
  /\ \A s \in Server : Increasing(table[s]) /\ Elements(table[s]) \subseteq 1 .. sent
  /\ \A c \in Client, s \in Server :
       client[c].head \in Server => Elements(table[s]) \subseteq Elements(table[client[c].head])

Ordered == TokenInv /\ HeadInv /\ OrderInv

\* All that is known of the writes in a state.
Chained == Passed /\ Upwards /\ Ordered

\* The last write sent goes to the end of an increasing table.
LEMMA AppliedIncreasing ==
  ASSUME NEW t \in Seq(Write), NEW n \in Write, Increasing(t), Elements(t) \subseteq 1 .. n
  PROVE  Increasing(Applied(t, n)) /\ Elements(Applied(t, n)) \subseteq 1 .. n
  <1>0. n \in Nat /\ n >= 1 /\ Len(t) \in Nat
    BY ChainAssumption DEF Write
  <1>1. Elements(Applied(t, n)) \subseteq 1 .. n
    BY <1>0, AppliedElements
  <1>2. CASE t # <<>> /\ t[Len(t)] = n
    BY <1>1, <1>2 DEF Applied
  <1>3. CASE ~(t # <<>> /\ t[Len(t)] = n)
    <2>1. Applied(t, n) = Append(t, n)
      BY <1>3 DEF Applied
    <2>2. /\ Len(Append(t, n)) = Len(t) + 1 /\ Append(t, n)[Len(t) + 1] = n
          /\ \A i \in 1 .. Len(t) : Append(t, n)[i] = t[i]
      BY AppendProperties
    <2>3. ASSUME NEW i \in 1 .. Len(t) PROVE t[i] \in Nat /\ t[i] <= n
      <3>1. t[i] \in Elements(t)
        BY DEF Elements
      <3> QED
        BY <1>0, <3>1
    <2>4. ASSUME NEW i \in 1 .. Len(t) PROVE t[i] < n
      <3>1. Len(t) \in 1 .. Len(t) /\ t # <<>>
        BY <1>0, <2>4
      <3>2. t[Len(t)] < n
        BY <1>0, <1>3, <2>3, <3>1
      <3>3. i < Len(t) => t[i] < t[Len(t)]
        BY <3>1 DEF Increasing
      <3> QED
        BY <1>0, <2>3, <3>1, <3>2, <3>3
    <2>5. Increasing(Append(t, n))
      <3> SUFFICES ASSUME NEW i \in 1 .. Len(t) + 1, NEW j \in 1 .. Len(t) + 1, i < j
                   PROVE  Append(t, n)[i] < Append(t, n)[j]
        BY <2>2 DEF Increasing
      <3>1. i \in 1 .. Len(t)
        BY <1>0
      <3>2. CASE j = Len(t) + 1
        BY <2>2, <2>4, <3>1, <3>2
      <3>3. CASE j # Len(t) + 1
        <4>1. j \in 1 .. Len(t)
          BY <1>0, <3>3
        <4> QED
          BY <2>2, <3>1, <4>1 DEF Increasing
      <3> QED
        BY <3>2, <3>3
    <2> QED
      BY <1>1, <2>1, <2>5
  <1> QED
    BY <1>2, <1>3

\* An increasing table whose writes another one has follows that one.
LEMMA IncreasingFollows ==
  ASSUME NEW t \in Seq(Write), NEW u \in Seq(Write), Increasing(t), Increasing(u),
         Elements(t) \subseteq Elements(u)
  PROVE  Follows(t, u)
  <1>0. /\ Len(t) \in Nat /\ Len(u) \in Nat
        /\ \A i \in 1 .. Len(t) : t[i] \in Nat
        /\ \A i \in 1 .. Len(u) : u[i] \in Nat
    BY ChainAssumption DEF Write
  <1>1. ASSUME NEW i \in 1 .. Len(t) PROVE \E k \in 1 .. Len(u) : u[k] = t[i]
    BY <1>1, LenProperties DEF Elements
  <1> DEFINE at == [i \in 1 .. Len(t) |-> CHOOSE k \in 1 .. Len(u) : u[k] = t[i]]
  <1>2. \A i \in 1 .. Len(t) : at[i] \in 1 .. Len(u) /\ u[at[i]] = t[i]
    BY <1>1
  <1>3. at \in [1 .. Len(t) -> 1 .. Len(u)]
    BY <1>2
  <1> HIDE DEF at
  <1>4. ASSUME NEW i \in 1 .. Len(t), NEW j \in 1 .. i - 1 PROVE at[j] < at[i]
    <2>1. j \in 1 .. Len(t) /\ j < i
      BY <1>0
    <2>2. u[at[j]] < u[at[i]]
      BY <1>2, <2>1 DEF Increasing
    <2>3. at[i] # at[j]
      BY <1>0, <1>2, <2>1, <2>2
    <2>4. ~(at[i] < at[j])
      <3> SUFFICES ASSUME at[i] < at[j] PROVE FALSE
        OBVIOUS
      <3>1. u[at[i]] < u[at[j]]
        BY <1>2, <2>1 DEF Increasing
      <3> QED
        BY <1>0, <1>2, <2>1, <2>2, <3>1
    <2> QED
      BY <1>0, <1>2, <2>1, <2>3, <2>4
  <1> QED
    BY <1>2, <1>3, <1>4 DEF Follows

\* No step that leaves the write where it is, or loses it, disturbs the tables.
LEMMA OrderKept ==
  ASSUME Chained, UNCHANGED sent,
         \A a \in Server :
           /\ inbox'[a] \subseteq inbox[a]
           /\ Held(a)' => Held(a) /\ job'[a].write = job[a].write
           /\ Started(a) => Started(a)' /\ table'[a] = table[a]
           /\ Increasing(table'[a])
           /\ \E b \in Server : Elements(table'[a]) \subseteq Elements(table[b]),
         \A c \in Client :
           /\ client'[c].head = client[c].head
           /\ client[c].at \in {"waiting", "down"} => client'[c].at \in {client[c].at, "down"}
           /\ client'[c].at \in {"out", "listed"} => client[c].at \in {"out", "listed"}
  PROVE  Ordered'
  <1> USE DEF Chained, Ordered
  <1>1. \A a \in Server : Active(a)' => Active(a)
    BY DEF Active
  <1>2. TokenInv'
    BY <1>1 DEF TokenInv
  <1>3. ASSUME NEW c \in Client, HeadHas(c) PROVE HeadHas(c)'
    BY <1>3 DEF HeadInv, HeadHas
  <1>4. HeadInv'
    BY <1>3 DEF HeadInv
  <1>5. \A c \in Client : client'[c].head \in Server =>
           table'[client'[c].head] = table[client[c].head]
    BY DEF HeadInv
  <1>6. OrderInv'
    <2>1. ASSUME NEW s \in Server
          PROVE  /\ Increasing(table'[s]) /\ Elements(table'[s]) \subseteq 1 .. sent
                 /\ \A c \in Client : client'[c].head \in Server =>
                      Elements(table'[s]) \subseteq Elements(table'[client'[c].head])
      <3>1. PICK b \in Server : Elements(table'[s]) \subseteq Elements(table[b])
        OBVIOUS
      <3> QED
        BY <1>5, <3>1 DEF OrderInv
    <2> QED
      BY <2>1 DEF OrderInv
  <1> QED
    BY <1>2, <1>4, <1>6

\* So does one that leaves the tables too.
LEMMA OrderSame ==
  ASSUME Chained, UNCHANGED <<sent, table>>,
         \A a \in Server :
           /\ inbox'[a] \subseteq inbox[a]
           /\ Held(a)' => Held(a) /\ job'[a].write = job[a].write
           /\ Started(a) => Started(a)',
         \A c \in Client :
           /\ client'[c].head = client[c].head
           /\ client[c].at \in {"waiting", "down"} => client'[c].at \in {client[c].at, "down"}
           /\ client'[c].at \in {"out", "listed"} => client[c].at \in {"out", "listed"}
  PROVE  Ordered'
  <1>1. \A a \in Server : Increasing(table'[a]) /\ Elements(table'[a]) \subseteq Elements(table[a])
    BY DEF Chained, Ordered, OrderInv
  <1> QED
    BY <1>1, OrderKept

\* A server that dies loses the write if it had it.
LEMMA OrderDie ==
  ASSUME Chained, NEW d \in Server, Die(d)
  PROVE  Ordered'
  <1> USE DEF Chained, Passed
  <1>1. /\ job'[d] = Idle /\ inbox'[d] = {} /\ phase'[d] = "down"
        /\ UNCHANGED <<table, client, sent>>
        /\ \A r \in Server \ {d} : job'[r] = job[r] /\ inbox'[r] = inbox[r] /\ phase'[r] = phase[r]
    BY DEF Die, TypeOK, clientVars
  <1> QED
    BY <1>1, OrderSame DEF Held, Idle, Started

\* So does a server that falls asleep.
LEMMA OrderSleep ==
  ASSUME Chained, NEW d \in Server, Sleep(d)
  PROVE  Ordered'
  <1> USE DEF Chained, Passed
  <1>1. /\ job'[d] = Asleep /\ UNCHANGED <<inbox, phase, table, client, sent>>
        /\ \A r \in Server \ {d} : job'[r] = job[r]
    BY DEF Sleep, TypeOK, initVars, clientVars
  <1> QED
    BY <1>1, OrderSame DEF Held, Asleep, Idle, Started

\* A write that ends without a successor stays; one that hangs is lost.
LEMMA OrderMoves ==
  ASSUME Chained, NEW d \in Server, NEW step \in {"done", "hung"},
         job[d].at = "applied" \/ (job[d].at = "waiting" /\ step = "hung"),
         job' = [job EXCEPT ![d].at = step], UNCHANGED <<inbox, phase, table, client, sent>>
  PROVE  Ordered'
  <1> USE DEF Chained, Passed
  <1>1. /\ job'[d].at = step /\ job'[d].write = job[d].write
        /\ \A r \in Server \ {d} : job'[r] = job[r]
    BY DEF TypeOK, Working, Idle
  <1> QED
    BY <1>1, OrderSame DEF Held, Started

\* What follows an increasing table is increasing.
LEMMA FollowsIncreasing ==
  ASSUME NEW t \in Seq(Write), NEW u \in Seq(Write), Increasing(u), Follows(t, u)
  PROVE  Increasing(t)
  <1>1. PICK at \in [1 .. Len(t) -> 1 .. Len(u)] :
          \A i \in 1 .. Len(t) : t[i] = u[at[i]] /\ \A j \in 1 .. i - 1 : at[j] < at[i]
    BY DEF Follows
  <1> SUFFICES ASSUME NEW i \in 1 .. Len(t), NEW j \in 1 .. Len(t), i < j
               PROVE  t[i] < t[j]
    BY DEF Increasing
  <1>2. i \in 1 .. j - 1
    OBVIOUS
  <1>3. at[i] < at[j] /\ at[i] \in 1 .. Len(u) /\ at[j] \in 1 .. Len(u)
    BY <1>1, <1>2
  <1> QED
    BY <1>1, <1>3 DEF Increasing

\* A table copied from another server is as good as that one's.
LEMMA OrderCopy ==
  ASSUME Chained, NEW s \in Server, Copy(s)
  PROVE  Ordered'
  <1> USE DEF Chained, Passed
  <1>1. /\ UNCHANGED <<inbox, job, client, sent>>
        /\ \A r \in Server \ {s} : phase'[r] = phase[r] /\ table'[r] = table[r]
        /\ ~Started(s)
    BY DEF Copy, JoinUnchanged, TypeOK, clientVars, Reach, Started
  <1>2. PICK t \in Copies(s) : table' = [table EXCEPT ![s] = t]
    BY DEF Copy
  <1>3. /\ peer[s] \in Server /\ t \in Seq(Write) /\ table[peer[s]] \in Seq(Write)
        /\ Elements(t) \subseteq Elements(table[peer[s]])
        /\ t = table[peer[s]] \/ Follows(t, table[peer[s]])
    BY CopiesFollow DEF Copy, TypeOK
  <1>4. Increasing(t)
    BY <1>3, FollowsIncreasing DEF Ordered, OrderInv
  <1>5. \A a \in Server : Increasing(table'[a]) /\
           \E b \in Server : Elements(table'[a]) \subseteq Elements(table[b])
    BY <1>1, <1>2, <1>3, <1>4 DEF Ordered, OrderInv, TypeOK
  <1> QED
    BY <1>1, <1>5, OrderKept DEF Held, Started

\* The client sends its next write when the last is nowhere.
LEMMA OrderSubmit ==
  ASSUME OneClient, Chained, NEW c \in Client, Submit(c)
  PROVE  Ordered'
  <1> USE DEF Chained, Passed, Ordered
  <1>h. PICK h \in Server : h = client[c].head
    BY DEF Submit, TypeOK, Connections
  <1>m. PICK m : m = [from |-> c, write |-> sent + 1]
    OBVIOUS
  <1>1. /\ sent' = sent + 1 /\ UNCHANGED <<table, phase, job>> /\ sent \in Nat
        /\ inbox'[h] = inbox[h] \cup {m}
        /\ \A a \in Server \ {h} : inbox'[a] = inbox[a]
        /\ client'[c].at = "waiting" /\ client'[c].head = h
    BY <1>h, <1>m DEF Submit, TypeOK, ClientUnchanged, initVars, Connections
  <1>2. \A d \in Client : d = c
    BY DEF OneClient
  <1>3. \A a \in Server : ~Active(a)
    BY DEF TokenInv, Submit
  <1>4. /\ \A a \in Server : ~Held(a)'
        /\ \A a \in Server : \A n \in inbox'[a] : a = h /\ n = m
    BY <1>1, <1>3 DEF Active, Held
  <1>5. m.write = sent' /\ m.from = c
    BY <1>1, <1>m
  <1>6. TokenInv'
    BY <1>1, <1>2, <1>4, <1>5 DEF TokenInv, Active
  <1>7. HeadInv'
    BY <1>h, <1>1, <1>2, <1>4, <1>5, ChainAssumption DEF HeadInv, Started
  <1>8. OrderInv'
    BY <1>h, <1>1, <1>2 DEF OrderInv
  <1> QED
    BY <1>6, <1>7, <1>8

\* The client finds its head before it has sent anything.
LEMMA OrderOpenHead ==
  ASSUME OneClient, Chained, NEW c \in Client, OpenHead(c)
  PROVE  Ordered'
  <1> USE DEF Chained, Passed, Ordered
  <1>1. /\ UNCHANGED <<sent, table, phase, job, inbox>>
        /\ client[c].at = "listed" /\ client[c] \in Connections
    BY DEF OpenHead, ClientUnchanged, initVars, TypeOK
  <1>2. \A d \in Client : d = c
    BY DEF OneClient
  <1>3. client[c].head = Null /\ sent = 0
    BY <1>1 DEF HeadInv
  <1>4. \A a \in Server : ~Active(a)
    BY <1>1 DEF TokenInv
  <1>5. \A a \in Server : Elements(table[a]) = {}
    BY <1>3 DEF OrderInv
  <1>6. /\ client'[c].at \in {"down", "headed", "idle"}
        /\ client'[c].head \in Server => Started(client'[c].head)
    <2> DEFINE named == Named(client[c].list)
    <2>1. CASE named = {}
      <3>1. client'[c] = [client[c] EXCEPT !.at = "down", !.list = {}]
        BY <2>1 DEF OpenHead, TypeOK
      <3> QED
        BY <1>1, <1>3, <3>1, ChainAssumption DEF Connections
    <2>2. CASE named # {} /\ znode[Lowest(named)]
      <3>1. client'[c] = [client[c] EXCEPT !.at = "headed", !.head = Connect(Lowest(named))]
        BY <2>2 DEF OpenHead, TypeOK
      <3>2. client'[c].at = "headed" /\ client'[c].head = Connect(Lowest(named))
        BY <1>1, <3>1 DEF Connections
      <3> QED
        BY <3>2, ChainAssumption DEF Connect, Started
    <2>3. CASE named # {} /\ ~znode[Lowest(named)]
      <3>1. client'[c] = [client[c] EXCEPT !.at = "idle", !.list = {}]
        BY <2>3 DEF OpenHead, TypeOK
      <3> QED
        BY <1>1, <1>3, <3>1, ChainAssumption DEF Connections
    <2>4. named # {} => znode[Lowest(named)] \in BOOLEAN
      <3>1. named \subseteq Server
        BY <1>1 DEF Connections, Named
      <3>2. named # {} => Lowest(named) \in Server
        BY <3>1, LowestIn
      <3> QED
        BY <3>2 DEF TypeOK
    <2> QED
      BY <2>1, <2>2, <2>3, <2>4
  <1>7. \A a \in Server : ~Active(a)'
    BY <1>1, <1>4 DEF Active, Held
  <1>8. TokenInv'
    BY <1>7 DEF TokenInv, Active
  <1>9. HeadInv'
    BY <1>1, <1>2, <1>3, <1>6, <1>7 DEF HeadInv, Active, Started
  <1>10. OrderInv'
    BY <1>1, <1>5 DEF OrderInv
  <1> QED
    BY <1>8, <1>9, <1>10

\* The other steps of the client send nothing.
LEMMA OrderCommand ==
  ASSUME Chained, NEW c \in Client,
         Start(c) \/ OpenTail(c) \/ CommandCrash(c) \/ ClientCrash(c)
  PROVE  Ordered'
  <1> USE DEF Chained, Passed
  <1>1. UNCHANGED <<sent, table, phase, job, inbox>>
    BY DEF Start, OpenTail, CommandCrash, ClientCrash, ClientUnchanged, initVars
  <1>2. client[c] \in Connections
    BY DEF TypeOK
  <1>3. \A d \in Client \ {c} : client'[d] = client[d]
    BY DEF Start, OpenTail, CommandCrash, ClientCrash, TypeOK
  <1>4. /\ client'[c].head = client[c].head
        /\ client[c].at \in {"waiting", "down"} => client'[c].at = "down"
        /\ client'[c].at \in {"out", "listed"} => client[c].at \in {"out", "listed"}
    <2>1. CASE Start(c)
      BY <1>2, <2>1 DEF Start, TypeOK, Connections
    <2>2. CASE OpenTail(c)
      BY <1>2, <2>2 DEF OpenTail, TypeOK, Connections
    <2>3. CASE CommandCrash(c) \/ ClientCrash(c)
      BY <1>2, <2>3 DEF CommandCrash, ClientCrash, TypeOK, Connections
    <2> QED
      BY <2>1, <2>2, <2>3
  <1> QED
    BY <1>1, <1>3, <1>4, OrderSame DEF Held, Started

\* The write is applied: at the head, or where the head has sent it.
LEMMA OrderApply ==
  ASSUME Chained, NEW d \in Server, Apply(d)
  PROVE  Ordered'
  <1> USE DEF Chained, Passed, Ordered
  <1>1. PICK m \in inbox[d] :
          /\ inbox' = [inbox EXCEPT ![d] = @ \ {m}]
          /\ table' = [table EXCEPT ![d] = Applied(@, m.write)]
          /\ job' = [job EXCEPT ![d] = [at |-> "applied", from |-> m.from,
                                        write |-> m.write, peer |-> Null]]
    BY DEF Apply
  <1>2. m \in Request /\ m.write \in Write /\ UNCHANGED <<phase, client, sent>>
    BY DEF Apply, TypeOK, Request, initVars, clientVars
  <1>3. m.write = sent /\ inbox[d] = {m} /\ Active(d)
    BY DEF TokenInv, Active
  <1>4. /\ inbox'[d] = {} /\ Held(d)' /\ job'[d].write = sent
        /\ table'[d] = Applied(table[d], sent)
        /\ \A r \in Server \ {d} : job'[r] = job[r] /\ inbox'[r] = inbox[r] /\ table'[r] = table[r]
    BY <1>1, <1>3 DEF TypeOK, Held
  <1>5. \A r \in Server \ {d} : inbox'[r] = {} /\ ~Held(r)'
    BY <1>3, <1>4 DEF TokenInv, Active, Held
  <1>6. table[d] \in Seq(Write) /\ sent \in Write
    BY <1>2, <1>3 DEF TypeOK
  <1>7. Elements(table'[d]) = Elements(table[d]) \cup {sent}
    BY <1>4, <1>6, AppliedElements
  <1>8. ASSUME NEW c \in Client PROVE HeadHas(c)'
    <2>1. CASE m.from \in Client
      <3>1. client[c].head = d
        BY <2>1 DEF HeadInv
      <3> QED
        BY <1>2, <1>7, <3>1 DEF HeadHas
    <2>2. CASE m.from \notin Client
      <3>1. HeadHas(c)
        BY <2>2 DEF HeadInv
      <3> QED
        BY <1>2, <1>4, <1>7, <3>1 DEF HeadHas
    <2> QED
      BY <2>1, <2>2
  <1>9. TokenInv'
    BY <1>2, <1>3, <1>4, <1>5 DEF TokenInv, Active
  <1>10. HeadInv'
    BY <1>2, <1>4, <1>5, <1>8 DEF HeadInv, Started
  <1>11. OrderInv'
    <2>1. Increasing(table'[d]) /\ Elements(table'[d]) \subseteq 1 .. sent
      BY <1>4, <1>6, AppliedIncreasing DEF OrderInv
    <2>2. ASSUME NEW c \in Client, NEW s \in Server
          PROVE  Elements(table'[s]) \subseteq Elements(table'[client[c].head])
      <3>1. client[c].head \in Server /\ sent \in Elements(table'[client[c].head])
        BY <1>2, <1>8 DEF HeadHas
      <3>2. Elements(table[s]) \subseteq Elements(table[client[c].head])
        BY <3>1 DEF OrderInv
      <3>3. Elements(table[client[c].head]) \subseteq Elements(table'[client[c].head])
        BY <1>4, <1>7, <3>1
      <3>4. Elements(table'[s]) \subseteq Elements(table[s]) \cup {sent}
        BY <1>4, <1>7
      <3> QED
        BY <3>1, <3>2, <3>3, <3>4
    <2> QED
      BY <1>2, <1>4, <2>1, <2>2 DEF OrderInv
  <1> QED
    BY <1>9, <1>10, <1>11

\* The write goes on to a successor, which is another server.
LEMMA OrderForward ==
  ASSUME Chained, NEW d \in Server, Forward(d)
  PROVE  Ordered'
  <1> USE DEF Chained, Passed, Ordered
  <1>p. PICK p \in Server : p = succ[d]
    BY DEF Forward
  <1>m. PICK m : m = [from |-> d, write |-> job[d].write]
    OBVIOUS
  <1>1. /\ UNCHANGED <<phase, table, client, sent>>
        /\ inbox'[p] = inbox[p] \cup {m}
        /\ \A r \in Server \ {p} : inbox'[r] = inbox[r]
        /\ job'[d].at = "waiting"
        /\ \A r \in Server \ {d} : job'[r] = job[r]
    BY <1>p, <1>m DEF Forward, TypeOK, initVars, clientVars
  <1>2. d # p
    BY <1>p DEF Upwards, ForwardUp, Server
  <1>3. Held(d) /\ Active(d)
    BY DEF Forward, Held, Active
  <1>4. \A a \in Server : inbox[a] = {} /\ (a # d => ~Held(a))
    BY <1>3 DEF TokenInv, Active
  <1>5. /\ \A a \in Server : ~Held(a)'
        /\ \A a \in Server : \A n \in inbox'[a] : a = p /\ n = m
    BY <1>1, <1>4 DEF Held
  <1>6. m.write = sent /\ m.from = d /\ d \notin Client
    BY <1>3, <1>m, ChainAssumption DEF TokenInv
  <1>7. \A c \in Client : HeadHas(c) /\ client[c].at \in {"waiting", "down"}
    BY <1>3 DEF HeadInv, TokenInv
  <1>8. TokenInv'
    BY <1>1, <1>5, <1>6, <1>7 DEF TokenInv, Active
  <1>9. HeadInv'
    BY <1>1, <1>5, <1>6, <1>7 DEF HeadInv, HeadHas, Started
  <1>10. OrderInv'
    BY <1>1 DEF OrderInv
  <1> QED
    BY <1>8, <1>9, <1>10

\* The answer brings the write back to who sent it, a server or the client.
LEMMA OrderAnswer ==
  ASSUME Chained, NEW d \in Server, Answer(d)
  PROVE  Ordered'
  <1> USE DEF Chained, Passed, Ordered
  <1>1. /\ job'[d] = Idle /\ job[d].at = "done"
        /\ UNCHANGED <<phase, table, inbox, sent>>
    BY DEF Answer, WaitsFor, initVars
  <1>2. Held(d) /\ Active(d) /\ job[d].write = sent
    BY <1>1 DEF Held, Active, TokenInv
  <1>3. \A a \in Server : inbox[a] = {} /\ (a # d => ~Held(a))
    BY <1>2 DEF TokenInv, Active
  <1>4. ASSUME NEW r \in Server, Held(r)'
        PROVE  r = job[d].from /\ job'[r].write = sent
    <2>1. r # d /\ job'[r] # job[r]
      BY <1>1, <1>3, <1>4 DEF Held, Idle
    <2>2. r = job[d].from /\ WaitsFor(r, d) /\ job'[r] = [job[r] EXCEPT !.at = "done"]
      BY <2>1 DEF Answer
    <2>3. job'[r].write = job[r].write
      BY <2>2 DEF TypeOK, Working, Idle
    <2>4. phase[r] = "up" /\ Outstanding(r, d, job[d].write)
      BY <1>1, <2>2 DEF PassInv, Busy, WaitsFor
    <2>5. job[r].write = job[d].write
      BY <2>4 DEF Outstanding
    <2> QED
      BY <1>2, <2>2, <2>3, <2>5
  <1>5. \A c \in Client : /\ client'[c].head = client[c].head
                          /\ client'[c].at = client[c].at \/ client'[c].at = "idle"
                          /\ c # job[d].from => client'[c] = client[c]
    BY DEF Answer, TypeOK, Connections
  <1>6. \A c \in Client : HeadHas(c) /\ client[c].at \in {"waiting", "down"}
    BY <1>2 DEF HeadInv, TokenInv
  <1>7. TokenInv'
    BY <1>1, <1>3, <1>4, <1>5, <1>6, ChainAssumption DEF TokenInv, Active
  <1>8. HeadInv'
    BY <1>1, <1>3, <1>5, <1>6 DEF HeadInv, HeadHas, Started
  <1>9. OrderInv'
    BY <1>1, <1>5 DEF OrderInv
  <1> QED
    BY <1>7, <1>8, <1>9

\* Every action keeps the writes in order.
LEMMA StepOrdered == OneClient /\ Chained /\ [Next]_vars => Ordered'
  <1> SUFFICES ASSUME OneClient, Chained, [Next]_vars PROVE Ordered'
    OBVIOUS
  <1> USE DEF zkVars, initVars, listVars, clientVars
  <1>1. CASE UNCHANGED vars
    BY <1>1, OrderSame DEF vars, Held, Started
  <1>2. ASSUME NEW s \in Server,
               \/ Register(s) \/ List(s) \/ LookUp(s) \/ Dial(s) \/ Link(s)
               \/ AskTable(s) \/ Listen(s) \/ Expire(s) \/ Lose(s) \/ Relink(s)
        PROVE  Ordered'
    <2>1. UNCHANGED <<job, inbox, table, client, sent>>
      BY <1>2 DEF Register, List, LookUp, Dial, Link, AskTable, Listen, JoinUnchanged,
                  Expire, Lose, Relink
    <2>2. \A r \in Server : Started(r) => Started(r)'
      BY <1>2 DEF Chained, Passed, TypeOK, Started, Register, List, LookUp, Dial, Link, AskTable,
                  Listen, Expire, Lose, Relink, Reach
    <2> QED
      BY <2>1, <2>2, OrderSame DEF Held
  <1>3. ASSUME NEW s \in Server, Dying(s)
        PROVE  Ordered'
    BY <1>3, DyingDies, OrderDie DEF Chained, Passed
  <1>4. ASSUME NEW s \in Server, Refetch(s) PROVE Ordered'
    <2>1. UNCHANGED <<inbox, phase, table, client, sent>>
      BY <1>4 DEF Refetch, WatchUnchanged
    <2>2. CASE UNCHANGED job
      BY <2>1, <2>2, OrderSame DEF Held, Started
    <2>3. CASE job[s].at = "waiting" /\ job' = [job EXCEPT ![s].at = "hung"]
      BY <2>1, <2>3, OrderMoves
    <2> QED
      BY <1>4, <2>2, <2>3 DEF Refetch
  <1>5. ASSUME NEW s \in Server, NoSuccessor(s) PROVE Ordered'
    BY <1>5, OrderMoves DEF NoSuccessor
  <1>6. ASSUME NEW s \in Server, UseFreed(s) PROVE Ordered'
    <2>1. CASE Die(s)
      BY <2>1, OrderDie
    <2>2. CASE job' = [job EXCEPT ![s].at = "hung"] /\ UNCHANGED <<inbox, phase, table, client, sent>>
      BY <1>6, <2>2, OrderMoves DEF UseFreed
    <2> QED
      BY <1>6, <2>1, <2>2 DEF UseFreed
  <1>7. ASSUME NEW c \in Client, Command(c) PROVE Ordered'
    BY <1>7, OrderSubmit, OrderOpenHead, OrderCommand DEF Command
  <1> QED
    BY <1>1, <1>2, <1>3, <1>4, <1>5, <1>6, <1>7, OrderCopy, OrderApply, OrderForward, OrderAnswer, OrderSleep
       DEF Next, Join, Watch, Serve, Dying

\* With one client, however long the chain and whatever fails in it, the table
\* of a server that serves is some of what the client's head has, in its order.
THEOREM HeadFollowed ==
  ASSUME OneClient
  PROVE  Spec => []FollowsHead
  <1>1. Init => Upwards /\ PeerInv /\ PassInv /\ DoneMeansPeer
    BY ChainAssumption DEF Init, Upwards, ForwardUp, PeerUp, PeerInv, PassInv, DoneMeansPeer, Idle, Busy
  <1>2. Init => Ordered
    <2> SUFFICES ASSUME Init PROVE Ordered
      OBVIOUS
    <2>1. TokenInv
      BY DEF Init, TokenInv, Active, Held, Idle
    <2>2. HeadInv
      BY ChainAssumption DEF Init, HeadInv, Held, Idle
    <2>3. \A s \in Server : table[s] = <<>> /\ Elements(table[s]) = {} /\ Increasing(table[s])
      BY DEF Init, Elements, Increasing
    <2>4. OrderInv
      BY <2>3 DEF OrderInv
    <2> QED
      BY <2>1, <2>2, <2>4 DEF Ordered
  <1>3. Chained => FollowsHead
    <2> SUFFICES ASSUME Chained, NEW c \in Client, NEW s \in Server, client[c].head # Null
                 PROVE  Follows(table[s], table[client[c].head])
      BY DEF FollowsHead
    <2>1. client[c].head \in Server
      BY DEF Chained, Passed, TypeOK, Connections
    <2>2. table[s] \in Seq(Write) /\ table[client[c].head] \in Seq(Write)
      BY <2>1 DEF Chained, Passed, TypeOK
    <2>3. /\ Increasing(table[s]) /\ Increasing(table[client[c].head])
          /\ Elements(table[s]) \subseteq Elements(table[client[c].head])
      BY <2>1 DEF Chained, Ordered, OrderInv
    <2> QED
      BY <2>2, <2>3, IncreasingFollows
  <1>4. Init => Chained
    BY <1>1, <1>2, InitTypes DEF Chained, Passed
  <1>5. Chained /\ [Next]_vars => Chained'
    BY StepTypes, StepForwardUp, StepPeers, StepPassed, StepOrdered DEF Chained, Passed
  <1> QED
    BY <1>3, <1>4, <1>5, PTL DEF Spec
=============================================================================
