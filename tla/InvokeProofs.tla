--------------------------- MODULE InvokeProofs ---------------------------
(***************************************************************************)
(* What holds of invoke() for any number of threads, any keys, requests    *)
(* and bounds: the types, the exclusion of writers, and what follows from  *)
(* it for the table and for the successor.                                 *)
(***************************************************************************)
EXTENDS Invoke, FiniteSetTheorems, TLAPS

\* The holder of lock_data is the one thread in code that runs with it held.
LockInv ==
  \A t \in Thread : pc[t] \in {"check", "sleep", "claim", "release"} => lock_data = t

\* A thread about to claim has seen no writer, and still holds the lock.
ClaimInv == \A t \in Thread : pc[t] = "claim" => writers_count = 0

\* The step a thread is at tells whether its request writes.
RoleInv ==
  \A t \in Thread :
    /\ pc[t] \in {"lock", "check", "sleep", "wait", "claim", "apply", "forward",
                  "relock", "release"} => msg[t].op \in Writes
    /\ pc[t] \in {"enter", "enter_store", "read", "keys", "alloc", "copy", "count",
                  "leave", "leave_store", "signal", "stats_enter", "stats_enter_store",
                  "stats_leave", "stats_leave_store"} => msg[t].op \notin Writes

\* writers_count is 1 exactly while a writer is in the section, and one is.
SectionInv ==
  /\ writers_count \in {0, 1}
  /\ \A t \in Thread : InWrite(t) => writers_count = 1
  /\ WriterExclusion

IndInv == TypeOK /\ LockInv /\ ClaimInv /\ RoleInv /\ SectionInv

-----------------------------------------------------------------------------
(* How the steps of a thread move the program counters. *)

LEMMA GoEffect ==
  ASSUME TypeOK, NEW t \in Thread, NEW s \in Steps, Go(t, s)
  PROVE  /\ pc' \in [Thread -> Steps]
         /\ pc'[t] = s
         /\ \A u \in Thread : u # t => pc'[u] = pc[u]
  BY DEF TypeOK, Go

LEMMA BroadcastEffect ==
  ASSUME TypeOK, NEW t \in Thread, NEW s \in Steps, Broadcast(t, s)
  PROVE  /\ pc' \in [Thread -> Steps]
         /\ pc'[t] = s
         /\ \A u \in Thread :
              u # t => pc'[u] = IF pc[u] = "wait" THEN "lock" ELSE pc[u]
  <1>1. "lock" \in Steps
    BY DEF Steps
  <1>2. Woken \in [Thread -> Steps]
    BY <1>1 DEF Woken, TypeOK
  <1> QED
    BY <1>1, <1>2 DEF Broadcast, Woken

LEMMA TableSize ==
  ASSUME NEW S, S \subseteq Key
  PROVE  Cardinality(S) \in Nat
  BY InvokeAssumption, FS_Subset, FS_CardinalityType

LEMMA InitInd == Init => IndInv
  <1> SUFFICES ASSUME Init PROVE IndInv
    OBVIOUS
  <1> USE InvokeAssumption
  <1>1. NoRequest \in Request
    BY DEF NoRequest, Request, Op
  <1>2. NoCopy \in [left : SUBSET Key, cap : Nat, n : Nat]
    BY DEF NoCopy
  <1>3. TypeOK
    BY <1>1, <1>2 DEF Init, TypeOK, Steps
  <1>4. LockInv /\ ClaimInv /\ RoleInv
    BY DEF Init, LockInv, ClaimInv, RoleInv
  <1>5. SectionInv
    BY DEF Init, SectionInv, WriterExclusion, InWrite, Updating
  <1> QED
    BY <1>3, <1>4, <1>5 DEF IndInv

LEMMA StepTypes == IndInv /\ [Next]_vars => TypeOK'
  <1> SUFFICES ASSUME IndInv, [Next]_vars PROVE TypeOK'
    OBVIOUS
  <1> USE InvokeAssumption DEF IndInv, At
  <1>1. CASE UNCHANGED vars
    BY <1>1 DEF TypeOK, vars, tableVars, lockVars, statVars, localVars
  <1>2. ASSUME NEW t \in Thread, Receive(t) PROVE TypeOK'
    <2>1. PICK m \in Requests[t] :
            /\ msg' = [msg EXCEPT ![t] = m]
            /\ Go(t, FirstStep(m.op))
            /\ reply' = [reply EXCEPT ![t] = IF m.op = "bad" THEN "error" ELSE "none"]
      BY <1>2 DEF Receive
    <2>2. m \in Request
      OBVIOUS
    <2>3. m.op \in Op
      BY <2>2 DEF Request
    <2>4. FirstStep(m.op) \in Steps
      BY <2>3 DEF FirstStep, Steps, Op, Writes, Lookups, Copies
    <2>5. pc' \in [Thread -> Steps]
      BY <2>1, <2>4, GoEffect
    <2>6. handled' \in [Thread -> 0 .. MaxRequests]
      BY <1>2 DEF Receive, TypeOK
    <2>7. msg' \in [Thread -> Request] /\ reply' \in [Thread -> {"none", "ok", "error", "garbage"}]
      BY <2>1, <2>2 DEF TypeOK
    <2> QED
      BY <1>2, <2>5, <2>6, <2>7 DEF Receive, TypeOK, tableVars, lockVars, statVars
  <1>3. ASSUME NEW t \in Thread, Writer(t) \/ Spurious(t) \/ ForwardLost(t) PROVE TypeOK'
    <2> USE DEF WriterUnchanged, TypeOK, tableVars, lockVars, statVars, localVars
    <2>1. CASE Lock(t)
      BY <2>1, GoEffect DEF Lock, Steps
    <2>2. CASE Check(t)
      BY <2>2, GoEffect DEF Check, Steps
    <2>3. CASE CondWait(t)
      BY <2>3, GoEffect DEF CondWait, Steps
    <2>4. CASE Claim(t)
      BY <2>4, GoEffect DEF Claim, Steps
    <2>5. CASE Apply(t)
      <3>1. msg[t] \in Request /\ msg[t].key \in Key
        BY DEF Request
      <3>2. pc' \in [Thread -> Steps]
        BY <2>5, GoEffect DEF Apply, Steps, Updating
      <3>3. applied' \in Seq(Request)
        BY <2>5, <3>1 DEF Apply
      <3>4. table' \subseteq Key
        BY <2>5, <3>1 DEF Apply
      <3>5. reply' \in [Thread -> {"none", "ok", "error", "garbage"}]
        BY <2>5 DEF Apply
      <3> QED
        BY <2>5, <3>2, <3>3, <3>4, <3>5 DEF Apply
    <2>6. CASE Forward(t)
      <3>1. pc' \in [Thread -> Steps]
        BY <2>6, GoEffect DEF Forward, Steps, Updating
      <3>2. forwarded' \in Seq(Request)
        BY <2>6 DEF Forward
      <3> QED
        BY <2>6, <3>1, <3>2 DEF Forward
    <2>7. CASE Relock(t)
      BY <2>7, GoEffect DEF Relock, Steps
    <2>8. CASE Release(t)
      <3>1. writers_count = 1
        BY <2>8 DEF Release, SectionInv, InWrite
      <3>2. "receive" \in Steps
        BY DEF Steps
      <3>3. pc' \in [Thread -> Steps]
        BY <2>8, <3>2, BroadcastEffect DEF Release
      <3> QED
        BY <2>8, <3>1, <3>3 DEF Release
    <2>9. CASE Spurious(t)
      <3>1. "lock" \in Steps /\ "u_check" \in Steps
        BY DEF Steps, Updating
      <3> QED
        BY <2>9, <3>1, GoEffect DEF Spurious
    <2>10. CASE ForwardLost(t)
      BY <2>10 DEF ForwardLost
    <2> QED
      BY <1>3, <2>1, <2>2, <2>3, <2>4, <2>5, <2>6, <2>7, <2>8, <2>9, <2>10 DEF Writer
  <1>4. ASSUME NEW t \in Thread, Reader(t) PROVE TypeOK'
    <2> USE DEF ReaderUnchanged, TypeOK, tableVars, lockVars, statVars, localVars
    <2>1. CASE Enter(t)
      BY <2>1, GoEffect DEF Enter, Load, Steps
    <2>2. CASE EnterStore(t)
      <3>1. PICK s \in {"keys", "alloc", "read"} : Go(t, s)
        BY <2>2 DEF EnterStore
      <3>2. pc' \in [Thread -> Steps]
        BY <3>1, GoEffect DEF Steps
      <3>3. readers_count' \in Int
        BY <2>2 DEF EnterStore
      <3>4. UNCHANGED <<process, reg, raced, copy, reply>> /\ ReaderUnchanged
        BY <2>2 DEF EnterStore
      <3> QED
        BY <3>2, <3>3, <3>4
    <2>3. CASE Read(t)
      BY <2>3, GoEffect DEF Read, Steps, Updating
    <2>4. CASE ListKeys(t)
      <3>1. pc' \in [Thread -> Steps]
        BY <2>4, GoEffect DEF ListKeys, Steps
      <3>2. copy' \in [Thread -> [left : SUBSET Key, cap : Nat, n : Nat]]
        BY <2>4 DEF ListKeys
      <3> QED
        BY <2>4, <3>1, <3>2 DEF ListKeys
    <2>5. CASE Alloc(t)
      <3>1. pc' \in [Thread -> Steps]
        BY <2>5, GoEffect DEF Alloc, Steps
      <3>2. Cardinality(table) \in Nat
        BY TableSize
      <3>3. copy' \in [Thread -> [left : SUBSET Key, cap : Nat, n : Nat]]
        BY <2>5, <3>2 DEF Alloc
      <3> QED
        BY <2>5, <3>1, <3>3 DEF Alloc
    <2>6. CASE CopyNext(t)
      <3>1. PICK k \in copy[t].left :
              copy' = [copy EXCEPT ![t] = [left |-> @.left \ {k}, cap |-> @.cap, n |-> @.n + 1]]
        BY <2>6 DEF CopyNext
      <3>2. copy' \in [Thread -> [left : SUBSET Key, cap : Nat, n : Nat]]
        BY <3>1
      <3> QED
        BY <2>6, <3>2 DEF CopyNext
    <2>7. CASE CopyCrash(t) \/ ReadCrash(t)
      BY <2>7 DEF CopyCrash, ReadCrash
    <2>8. CASE CopyDone(t)
      BY <2>8, GoEffect DEF CopyDone, Steps
    <2>9. CASE Count(t)
      BY <2>9, GoEffect DEF Count, Steps, Updating, NoCopy
    <2>10. CASE Leave(t)
      BY <2>10, GoEffect DEF Leave, Load, Steps
    <2>11. CASE LeaveStore(t)
      <3>1. pc' \in [Thread -> Steps]
        BY <2>11, GoEffect DEF LeaveStore, Steps
      <3> QED
        BY <2>11, <3>1 DEF LeaveStore
    <2>12. CASE Signal(t)
      BY <2>12, BroadcastEffect DEF Signal, Steps
    <2> QED
      BY <1>4, <2>1, <2>2, <2>3, <2>4, <2>5, <2>6, <2>7, <2>8, <2>9, <2>10, <2>11, <2>12
         DEF Reader
  <1>5. ASSUME NEW t \in Thread, Statistics(t) PROVE TypeOK'
    <2>0. pc' \in [Thread -> Steps]
      <3>1. PICK s \in Steps : Go(t, s)
        BY <1>5 DEF Statistics, UpdateCheck, UpdateLoad, UpdateStore, StatsEnter, StatsEnterStore,
                    StatsLeave, StatsLeaveStore, Steps, Updating
      <3> QED
        BY <3>1, GoEffect
    <2> USE <2>0 DEF StatUnchanged, TypeOK, tableVars, lockVars, statVars, localVars
    <2>1. CASE UpdateCheck(t)
      BY <2>1 DEF UpdateCheck
    <2>2. CASE UpdateLoad(t)
      BY <2>2 DEF UpdateLoad
    <2>3. CASE UpdateStore(t)
      BY <2>3, SMTT(30) DEF UpdateStore
    <2>4. CASE StatsEnter(t)
      BY <2>4 DEF StatsEnter, Load
    <2>5. CASE StatsEnterStore(t)
      BY <2>5 DEF StatsEnterStore
    <2>6. CASE StatsLeave(t)
      BY <2>6 DEF StatsLeave, Load
    <2>7. CASE StatsLeaveStore(t)
      BY <2>7 DEF StatsLeaveStore
    <2> QED
      BY <1>5, <2>1, <2>2, <2>3, <2>4, <2>5, <2>6, <2>7 DEF Statistics
  <1>6. CASE Interrupt \/ Close \/ \E t \in Thread : UseDestroyed(t)
    BY <1>6 DEF Interrupt, Close, UseDestroyed, CloseUnchanged, TypeOK, tableVars, lockVars, statVars, localVars
  <1> QED
    BY <1>1, <1>2, <1>3, <1>4, <1>5, <1>6 DEF Next, Step

LockPart == LockInv /\ ClaimInv /\ RoleInv /\ SectionInv

LEMMA StepLock == IndInv /\ [Next]_vars => LockPart'
  <1> SUFFICES ASSUME IndInv, [Next]_vars PROVE LockPart'
    OBVIOUS
  <1> USE InvokeAssumption
  <1> USE DEF IndInv, At, LockPart, LockInv, ClaimInv, RoleInv, SectionInv,
              WriterExclusion, InWrite, Updating
  <1> TypeOK
    OBVIOUS
  <1>1. CASE UNCHANGED vars
    BY <1>1 DEF vars, tableVars, lockVars, statVars, localVars
  <1>2. ASSUME NEW t \in Thread, Receive(t) PROVE LockPart'
    <2>1. PICK m \in Requests[t] :
            msg' = [msg EXCEPT ![t] = m] /\ Go(t, FirstStep(m.op))
      BY <1>2 DEF Receive
    <2>2. m.op \in Op
      BY DEF Request
    <2>3. FirstStep(m.op) \in {"lock", "enter", "stats_enter", "stats_leave"}
      BY <2>2 DEF FirstStep, Op, Writes, Lookups, Copies
    <2>4. FirstStep(m.op) = "lock" => m.op \in Writes
      BY <2>2 DEF FirstStep, Op, Writes, Lookups, Copies
    <2>5. FirstStep(m.op) \in {"enter", "stats_enter", "stats_leave"} => m.op \notin Writes
      BY <2>2 DEF FirstStep, Op, Writes, Lookups, Copies
    <2>6. FirstStep(m.op) \in Steps
      BY <2>3 DEF Steps
    <2>7. pc'[t] = FirstStep(m.op) /\ msg'[t] = m /\
          \A u \in Thread : u # t => pc'[u] = pc[u] /\ msg'[u] = msg[u]
      BY <2>1, <2>6, GoEffect DEF TypeOK
    <2>8. UNCHANGED <<lock_data, writers_count>>
      BY <1>2 DEF Receive, lockVars
    <2> QED
      BY <2>3, <2>4, <2>5, <2>7, <2>8
  <1>3. ASSUME NEW t \in Thread, Writer(t) \/ Spurious(t) \/ ForwardLost(t) PROVE LockPart'
    <2> USE DEF WriterUnchanged, lockVars, localVars
    <2>1. CASE Lock(t)
      BY <2>1, GoEffect DEF Lock, Steps
    <2>2. CASE Check(t)
      BY <2>2, GoEffect DEF Check, Steps
    <2>3. CASE CondWait(t)
      BY <2>3, GoEffect DEF CondWait, Steps
    <2>4. CASE Claim(t)
      BY <2>4, GoEffect DEF Claim, Steps
    <2>5. CASE Apply(t)
      BY <2>5, GoEffect DEF Apply, Steps
    <2>6. CASE Forward(t)
      BY <2>6, GoEffect DEF Forward, Steps
    <2>7. CASE Relock(t)
      BY <2>7, GoEffect DEF Relock, Steps
    <2>8. CASE Release(t)
      BY <2>8, BroadcastEffect DEF Release, Steps
    <2>9. CASE Spurious(t)
      BY <2>9, GoEffect DEF Spurious, Steps
    <2>10. CASE ForwardLost(t)
      BY <2>10 DEF ForwardLost
    <2> QED
      BY <1>3, <2>1, <2>2, <2>3, <2>4, <2>5, <2>6, <2>7, <2>8, <2>9, <2>10 DEF Writer
  <1>4. ASSUME NEW t \in Thread, Reader(t) PROVE LockPart'
    <2> USE DEF ReaderUnchanged, lockVars, localVars
    <2>1. CASE Enter(t)
      BY <2>1, GoEffect DEF Enter, Steps
    <2>2. CASE EnterStore(t)
      BY <2>2, GoEffect DEF EnterStore, Steps
    <2>3. CASE Read(t)
      BY <2>3, GoEffect DEF Read, Steps
    <2>4. CASE ListKeys(t)
      BY <2>4, GoEffect DEF ListKeys, Steps
    <2>5. CASE Alloc(t)
      BY <2>5, GoEffect DEF Alloc, Steps
    <2>6. CASE CopyNext(t)
      BY <2>6 DEF CopyNext
    <2>7. CASE CopyCrash(t)
      BY <2>7 DEF CopyCrash
    <2>8. CASE ReadCrash(t)
      BY <2>8 DEF ReadCrash
    <2>9. CASE CopyDone(t)
      BY <2>9, GoEffect DEF CopyDone, Steps
    <2>10. CASE Count(t)
      BY <2>10, GoEffect DEF Count, Steps
    <2>11. CASE Leave(t)
      BY <2>11, GoEffect DEF Leave, Steps
    <2>12. CASE LeaveStore(t)
      BY <2>12, GoEffect DEF LeaveStore, Steps
    <2>13. CASE Signal(t)
      BY <2>13, BroadcastEffect DEF Signal, Steps
    <2> QED
      BY <1>4, <2>1, <2>2, <2>3, <2>4, <2>5, <2>6, <2>7, <2>8, <2>9, <2>10, <2>11, <2>12, <2>13
         DEF Reader
  <1>5. ASSUME NEW t \in Thread, Statistics(t) PROVE LockPart'
    <2> USE DEF StatUnchanged, lockVars, localVars
    <2>1. CASE UpdateCheck(t)
      BY <2>1, GoEffect DEF UpdateCheck, Steps
    <2>2. CASE UpdateLoad(t)
      BY <2>2, GoEffect DEF UpdateLoad, Steps
    <2>3. CASE UpdateStore(t)
      BY <2>3, GoEffect DEF UpdateStore, Steps
    <2>4. CASE StatsEnter(t)
      BY <2>4, GoEffect DEF StatsEnter, Steps
    <2>5. CASE StatsEnterStore(t)
      BY <2>5, GoEffect DEF StatsEnterStore, Steps
    <2>6. CASE StatsLeave(t)
      BY <2>6, GoEffect DEF StatsLeave, Steps
    <2>7. CASE StatsLeaveStore(t)
      BY <2>7, GoEffect DEF StatsLeaveStore, Steps
    <2> QED
      BY <1>5, <2>1, <2>2, <2>3, <2>4, <2>5, <2>6, <2>7 DEF Statistics
  <1>6. CASE Interrupt \/ Close \/ \E t \in Thread : UseDestroyed(t)
    BY <1>6 DEF Interrupt, Close, UseDestroyed, CloseUnchanged, lockVars, localVars
  <1> QED
    BY <1>1, <1>2, <1>3, <1>4, <1>5, <1>6 DEF Next, Step

LEMMA StepInd == IndInv /\ [Next]_vars => IndInv'
  BY StepTypes, StepLock DEF IndInv, LockPart

\* Every variable keeps its type: in particular writers_count, which every
\* writer takes down without looking, never goes below zero.
THEOREM TypeCorrect == Spec => []TypeOK
  <1>1. IndInv => TypeOK
    BY DEF IndInv
  <1> QED
    BY InitInd, StepInd, <1>1, PTL DEF Spec

\* put and del exclude each other for any number of threads, in spite of the
\* counters that readers and statistics change without the lock.
THEOREM WritersExcluded == Spec => []WriterExclusion
  <1>1. IndInv => WriterExclusion
    BY DEF IndInv, SectionInv
  <1> QED
    BY InitInd, StepInd, <1>1, PTL DEF Spec

-----------------------------------------------------------------------------
(* What writers do to the table and to the successor.  Only Apply touches  *)
(* the one and only Forward the other; every other step leaves both as     *)
(* they are and takes no thread past either.                               *)

Undisturbed ==
  /\ UNCHANGED <<tableVars, forwarded>>
  /\ \A u \in Thread :
       /\ InWrite(u)' /\ pc'[u] # "apply" =>
            InWrite(u) /\ pc[u] # "apply" /\ msg'[u] = msg[u]
       /\ (pc'[u] = "forward") <=> (pc[u] = "forward")

LEMMA Frame ==
  ASSUME IndInv, [Next]_vars
  PROVE  (\E t \in Thread : Apply(t) \/ Forward(t)) \/ Undisturbed
  <1> USE InvokeAssumption
  <1> USE DEF IndInv, At, RoleInv, InWrite, Updating, Undisturbed, tableVars
  <1> TypeOK
    OBVIOUS
  <1>1. CASE UNCHANGED vars
    BY <1>1 DEF vars, lockVars, statVars, localVars
  <1>2. ASSUME NEW t \in Thread, Receive(t) PROVE Undisturbed
    <2>1. PICK m \in Requests[t] :
            msg' = [msg EXCEPT ![t] = m] /\ Go(t, FirstStep(m.op))
      BY <1>2 DEF Receive
    <2>2. m.op \in Op
      BY DEF Request
    <2>3. FirstStep(m.op) \in {"lock", "enter", "stats_enter", "stats_leave"}
      BY <2>2 DEF FirstStep, Op, Writes, Lookups, Copies
    <2>4. FirstStep(m.op) \in Steps
      BY <2>3 DEF Steps
    <2>5. pc[t] = "receive" /\ pc'[t] = FirstStep(m.op) /\
          \A u \in Thread : u # t => pc'[u] = pc[u] /\ msg'[u] = msg[u]
      BY <1>2, <2>1, <2>4, GoEffect, SMTT(30) DEF TypeOK, Receive
    <2>6. UNCHANGED <<tableVars, forwarded>>
      BY <1>2 DEF Receive
    <2> QED
      BY <2>3, <2>5, <2>6
  <1>3. ASSUME NEW t \in Thread, Writer(t) \/ Spurious(t) \/ ForwardLost(t),
              ~Apply(t), ~Forward(t) PROVE Undisturbed
    <2> USE DEF WriterUnchanged, lockVars, localVars
    <2>1. CASE Lock(t)
      BY <2>1, GoEffect DEF Lock, Steps
    <2>2. CASE Check(t)
      BY <2>2, GoEffect DEF Check, Steps
    <2>3. CASE CondWait(t)
      BY <2>3, GoEffect DEF CondWait, Steps
    <2>4. CASE Claim(t)
      BY <2>4, GoEffect DEF Claim, Steps
    <2>5. CASE Relock(t)
      BY <2>5, GoEffect DEF Relock, Steps
    <2>6. CASE Release(t)
      BY <2>6, BroadcastEffect DEF Release, Steps
    <2>7. CASE Spurious(t)
      BY <2>7, GoEffect DEF Spurious, Steps
    <2>8. CASE ForwardLost(t)
      BY <2>8 DEF ForwardLost
    <2> QED
      BY <1>3, <2>1, <2>2, <2>3, <2>4, <2>5, <2>6, <2>7, <2>8
         DEF Writer
  <1>4. ASSUME NEW t \in Thread, Reader(t) PROVE Undisturbed
    <2> USE DEF ReaderUnchanged, lockVars, localVars
    <2>1. CASE Enter(t)
      BY <2>1, GoEffect DEF Enter, Steps
    <2>2. CASE EnterStore(t)
      BY <2>2, GoEffect DEF EnterStore, Steps
    <2>3. CASE Read(t)
      BY <2>3, GoEffect DEF Read, Steps
    <2>4. CASE ListKeys(t)
      BY <2>4, GoEffect DEF ListKeys, Steps
    <2>5. CASE Alloc(t)
      BY <2>5, GoEffect DEF Alloc, Steps
    <2>6. CASE CopyNext(t)
      BY <2>6 DEF CopyNext
    <2>7. CASE CopyCrash(t)
      BY <2>7 DEF CopyCrash
    <2>8. CASE ReadCrash(t)
      BY <2>8 DEF ReadCrash
    <2>9. CASE CopyDone(t)
      BY <2>9, GoEffect DEF CopyDone, Steps
    <2>10. CASE Count(t)
      BY <2>10, GoEffect DEF Count, Steps
    <2>11. CASE Leave(t)
      BY <2>11, GoEffect DEF Leave, Steps
    <2>12. CASE LeaveStore(t)
      BY <2>12, GoEffect DEF LeaveStore, Steps
    <2>13. CASE Signal(t)
      BY <2>13, BroadcastEffect DEF Signal, Steps
    <2> QED
      BY <1>4, <2>1, <2>2, <2>3, <2>4, <2>5, <2>6, <2>7, <2>8, <2>9, <2>10, <2>11, <2>12, <2>13
         DEF Reader
  <1>5. ASSUME NEW t \in Thread, Statistics(t) PROVE Undisturbed
    <2> USE DEF StatUnchanged, lockVars, localVars
    <2>1. CASE UpdateCheck(t)
      BY <2>1, GoEffect DEF UpdateCheck, Steps
    <2>2. CASE UpdateLoad(t)
      BY <2>2, GoEffect DEF UpdateLoad, Steps
    <2>3. CASE UpdateStore(t)
      BY <2>3, GoEffect DEF UpdateStore, Steps
    <2>4. CASE StatsEnter(t)
      BY <2>4, GoEffect DEF StatsEnter, Steps
    <2>5. CASE StatsEnterStore(t)
      BY <2>5, GoEffect DEF StatsEnterStore, Steps
    <2>6. CASE StatsLeave(t)
      BY <2>6, GoEffect DEF StatsLeave, Steps
    <2>7. CASE StatsLeaveStore(t)
      BY <2>7, GoEffect DEF StatsLeaveStore, Steps
    <2> QED
      BY <1>5, <2>1, <2>2, <2>3, <2>4, <2>5, <2>6, <2>7
         DEF Statistics
  <1>6. CASE Interrupt \/ Close \/ \E t \in Thread : UseDestroyed(t)
    BY <1>6 DEF Interrupt, Close, UseDestroyed, CloseUnchanged, lockVars, localVars
  <1> QED
    BY <1>1, <1>2, <1>3, <1>4, <1>5, <1>6 DEF Next, Step

\* What a put or del did to its key still stands when the writer leaves.
THEOREM WritesStable == Spec => []WriteStable
  <1>1. Init => WriteStable
    BY DEF Init, WriteStable, InWrite, Updating
  <1>2. IndInv /\ WriteStable /\ [Next]_vars => WriteStable'
    <2> SUFFICES ASSUME IndInv, WriteStable, [Next]_vars PROVE WriteStable'
      OBVIOUS
    <2>1. CASE Undisturbed
      BY <2>1 DEF Undisturbed, WriteStable, tableVars
    <2>2. ASSUME NEW t \in Thread, Apply(t) PROVE WriteStable'
      <3>1. InWrite(t) /\ msg[t].op \in Writes /\ UNCHANGED msg
        BY <2>2 DEF Apply, At, InWrite, IndInv, RoleInv, WriterUnchanged, localVars
      <3>2. \A u \in Thread : u # t => pc'[u] = pc[u]
        BY <2>2 DEF Apply, Go, IndInv, TypeOK
      <3>3. \A u \in Thread : InWrite(u)' => u = t
        BY <3>1, <3>2 DEF InWrite, IndInv, SectionInv, WriterExclusion
      <3>4. msg[t].key \in table' <=> msg[t].op = "put"
        BY <2>2, <3>1 DEF Apply, Writes
      <3> QED
        BY <3>1, <3>3, <3>4 DEF WriteStable
    <2>3. ASSUME NEW t \in Thread, Forward(t) PROVE WriteStable'
      <3>1. InWrite(t) /\ pc[t] # "apply" /\ UNCHANGED <<msg, table>>
        BY <2>3 DEF Forward, At, InWrite, WriterUnchanged, localVars, tableVars
      <3>2. \A u \in Thread : u # t => pc'[u] = pc[u]
        BY <2>3 DEF Forward, Go, IndInv, TypeOK
      <3> QED
        BY <3>1, <3>2 DEF WriteStable, InWrite
    <2> QED
      BY <2>1, <2>2, <2>3, Frame
  <1> QED
    BY InitInd, StepInd, <1>1, <1>2, PTL DEF Spec

\* ForwardOrder made inductive: the thread at "forward" accounts for the lag.
ForwardInv ==
  IF Successor
  THEN /\ \A t \in Thread : pc[t] = "forward" => applied = Append(forwarded, msg[t])
       /\ (\A t \in Thread : pc[t] # "forward") => forwarded = applied
  ELSE forwarded = <<>> /\ \A t \in Thread : pc[t] # "forward"

LEMMA InitForward == Init => ForwardInv
  BY DEF Init, ForwardInv

LEMMA StepForward == IndInv /\ ForwardInv /\ [Next]_vars => ForwardInv'
  <1> SUFFICES ASSUME IndInv, ForwardInv, [Next]_vars PROVE ForwardInv'
    OBVIOUS
  <1>1. CASE Undisturbed
    BY <1>1 DEF Undisturbed, ForwardInv, tableVars, InWrite
  <1>2. ASSUME NEW t \in Thread, Apply(t) PROVE ForwardInv'
    <2>1. UNCHANGED <<msg, forwarded>> /\ applied' = Append(applied, msg[t])
      BY <1>2 DEF Apply, WriterUnchanged, localVars
    <2>2. /\ pc'[t] = IF Successor THEN "forward" ELSE "u_check"
          /\ \A u \in Thread : u # t => pc'[u] = pc[u]
      BY <1>2 DEF Apply, Go, IndInv, TypeOK
    <2>3. \A u \in Thread : pc[u] # "forward"
      BY <1>2 DEF Apply, At, InWrite, IndInv, SectionInv, WriterExclusion
    <2> QED
      BY <2>1, <2>2, <2>3 DEF ForwardInv
  <1>3. ASSUME NEW t \in Thread, Forward(t) PROVE ForwardInv'
    <2>1. UNCHANGED <<msg, applied>> /\ forwarded' = Append(forwarded, msg[t])
      BY <1>3 DEF Forward, WriterUnchanged, localVars, tableVars
    <2>2. /\ pc[t] = "forward" /\ pc'[t] = "u_check"
          /\ \A u \in Thread : u # t => pc'[u] = pc[u]
      BY <1>3 DEF Forward, At, Go, IndInv, TypeOK
    <2>3. \A u \in Thread : u # t => pc[u] # "forward"
      BY <2>2 DEF InWrite, IndInv, SectionInv, WriterExclusion
    <2> QED
      BY <2>1, <2>2, <2>3 DEF ForwardInv
  <1> QED
    BY <1>1, <1>2, <1>3, Frame

\* The successor is told every write of this server in the order the table
\* took them, at most one behind.
THEOREM ForwardsInOrder == Spec => []ForwardOrder
  <1>1. ForwardInv => ForwardOrder
    BY DEF ForwardInv, ForwardOrder
  <1> QED
    BY InitInd, StepInd, InitForward, StepForward, <1>1, PTL DEF Spec

-----------------------------------------------------------------------------
(* Writes are atomic.  Every step is a step of Replica or changes nothing  *)
(* that Replica sees.                                                      *)

\* What a thread's client waits for, and its answer once the write is taken.
Asked(t) == IF pc[t] # "receive" /\ msg[t].op \in Writes THEN msg[t] ELSE NoRequest
Answered(t) == IF Taken(t) THEN reply[t] ELSE "none"

\* The table holds what the writes applied to it say; the answer of a write on
\* its way to the successor is what the writes before it say, unless the table
\* was being freed; and what is taken has an answer.
ReplyInv ==
  /\ table = {k \in Key : Service!Holds(applied, k)}
  /\ \A t \in Thread :
       /\ pc[t] = "forward" =>
            /\ reply[t] \in {"ok", "error"}
            /\ reply[t] = Service!Answer(forwarded, msg[t]) \/ (reply[t] = "error" /\ process # "up")
       /\ Taken(t) => reply[t] \in {"ok", "error"}

\* A step that neither applies, forwards nor answers a write.
Quiet ==
  /\ UNCHANGED <<process, tableVars, forwarded>>
  /\ \A u \in Thread :
       /\ Asked(u)' = Asked(u) /\ Answered(u)' = Answered(u)
       /\ Taken(u)' => Taken(u)
       /\ pc'[u] = "forward" => pc[u] = "forward" /\ reply'[u] = reply[u] /\ msg'[u] = msg[u]

\* Threads that at most wake up keep what their clients see.
LEMMA OthersKeep ==
  ASSUME IndInv, NEW u \in Thread, msg'[u] = msg[u], reply'[u] = reply[u],
         pc'[u] = pc[u] \/ (pc[u] = "wait" /\ pc'[u] = "lock")
  PROVE  /\ Asked(u)' = Asked(u) /\ Answered(u)' = Answered(u) /\ Taken(u)' = Taken(u)
         /\ pc'[u] = "forward" => pc[u] = "forward"
  BY DEF Asked, Answered, Taken, InWrite, Updating

\* A thread moves within a request without taking or answering a write.
LEMMA QuietMove ==
  ASSUME IndInv, NEW t \in Thread, UNCHANGED <<process, tableVars, forwarded, msg>>,
         \A u \in Thread : u # t =>
           reply'[u] = reply[u] /\ (pc'[u] = pc[u] \/ (pc[u] = "wait" /\ pc'[u] = "lock")),
         pc[t] # "receive", pc'[t] # "forward",
         \/ msg[t].op \notin Writes /\ pc'[t] \notin {"apply", "relock", "release"}
         \/ pc'[t] # "receive" /\ reply'[t] = reply[t] /\ Taken(t)' = Taken(t)
  PROVE  Quiet
  <1>1. msg'[t] = msg[t]
    OBVIOUS
  <1>2. CASE msg[t].op \notin Writes /\ pc'[t] \notin {"apply", "relock", "release"}
    <2>1. ~Taken(t) /\ ~Taken(t)'
      BY <1>1, <1>2 DEF Taken, InWrite, Updating, IndInv, RoleInv
    <2>2. Asked(t) = NoRequest /\ Asked(t)' = NoRequest
      BY <1>1, <1>2 DEF Asked
    <2>3. Answered(t)' = Answered(t)
      BY <2>1 DEF Answered
    <2>4. ASSUME NEW u \in Thread, u # t
          PROVE  /\ Asked(u)' = Asked(u) /\ Answered(u)' = Answered(u)
                 /\ Taken(u)' => Taken(u)
                 /\ pc'[u] = "forward" => pc[u] = "forward" /\ reply'[u] = reply[u] /\ msg'[u] = msg[u]
      BY <2>4, OthersKeep
    <2> QED
      BY <2>1, <2>2, <2>3, <2>4 DEF Quiet
  <1>3. CASE pc'[t] # "receive" /\ reply'[t] = reply[t] /\ Taken(t)' = Taken(t)
    <2>1. Asked(t)' = Asked(t)
      BY <1>1, <1>3 DEF Asked
    <2>2. Answered(t)' = Answered(t)
      BY <1>3 DEF Answered
    <2>3. ASSUME NEW u \in Thread, u # t
          PROVE  /\ Asked(u)' = Asked(u) /\ Answered(u)' = Answered(u)
                 /\ Taken(u)' => Taken(u)
                 /\ pc'[u] = "forward" => pc[u] = "forward" /\ reply'[u] = reply[u] /\ msg'[u] = msg[u]
      BY <2>3, OthersKeep
    <2> QED
      BY <1>3, <2>1, <2>2, <2>3 DEF Quiet
  <1> QED
    BY <1>2, <1>3

LEMMA WriterQuiet ==
  ASSUME IndInv, NEW t \in Thread,
         Lock(t) \/ Check(t) \/ CondWait(t) \/ Claim(t) \/ Relock(t) \/ Spurious(t)
  PROVE  Quiet
  <1> USE DEF At, WriterUnchanged, lockVars, localVars
  <1>0. TypeOK
    BY DEF IndInv
  <1>1. UNCHANGED <<process, tableVars, forwarded, msg, reply>>
    BY DEF Lock, Check, CondWait, Claim, Relock, Spurious
  <1>2. \A u \in Thread : u # t => pc'[u] = pc[u]
    BY <1>0 DEF Lock, Check, CondWait, Claim, Relock, Spurious, Go, TypeOK
  <1>3. /\ pc[t] # "receive" /\ pc'[t] # "forward" /\ pc'[t] # "receive"
        /\ Taken(t)' = Taken(t)
    <2> USE <1>0, <1>1 DEF Go, TypeOK, Taken, InWrite, Updating
    <2>1. CASE Lock(t)
      BY <2>1 DEF Lock
    <2>2. CASE Check(t)
      BY <2>2 DEF Check
    <2>3. CASE CondWait(t)
      BY <2>3 DEF CondWait
    <2>4. CASE Claim(t)
      BY <2>4 DEF Claim
    <2>5. CASE Relock(t)
      BY <2>5 DEF Relock
    <2>6. CASE Spurious(t)
      BY <2>6 DEF Spurious
    <2> QED
      BY <2>1, <2>2, <2>3, <2>4, <2>5, <2>6
  <1> QED
    BY <1>1, <1>2, <1>3, QuietMove

LEMMA ReaderQuiet ==
  ASSUME IndInv, NEW t \in Thread, Reader(t), ~CopyCrash(t), ~ReadCrash(t)
  PROVE  Quiet
  <1> USE DEF At, ReaderUnchanged, localVars
  <1>0. TypeOK
    BY DEF IndInv
  <1>1. UNCHANGED <<process, tableVars, forwarded, msg>>
    BY DEF Reader, Enter, EnterStore, Read, ListKeys, Alloc, CopyNext, CopyDone, Count, Leave,
           LeaveStore, Signal
  <1>2. \A u \in Thread : u # t => reply'[u] = reply[u]
    BY <1>0 DEF Reader, Enter, EnterStore, Read, ListKeys, Alloc, CopyNext, CopyDone, Count,
                Leave, LeaveStore, Signal, TypeOK
  <1>3. /\ pc[t] # "receive" /\ msg[t].op \notin Writes
        /\ pc'[t] \notin {"forward", "apply", "relock", "release"}
        /\ \A u \in Thread : u # t => (pc'[u] = pc[u] \/ (pc[u] = "wait" /\ pc'[u] = "lock"))
    <2> USE <1>0 DEF IndInv, RoleInv
    <2>1. CASE Enter(t)
      BY <2>1, GoEffect DEF Enter, Steps
    <2>2. CASE EnterStore(t)
      BY <2>2, GoEffect DEF EnterStore, Steps
    <2>3. CASE Read(t)
      BY <2>3, GoEffect DEF Read, Steps, Updating
    <2>4. CASE ListKeys(t)
      BY <2>4, GoEffect DEF ListKeys, Steps
    <2>5. CASE Alloc(t)
      BY <2>5, GoEffect DEF Alloc, Steps
    <2>6. CASE CopyNext(t)
      BY <2>6 DEF CopyNext
    <2>7. CASE CopyDone(t)
      BY <2>7, GoEffect DEF CopyDone, Steps
    <2>8. CASE Count(t)
      BY <2>8, GoEffect DEF Count, Steps, Updating
    <2>9. CASE Leave(t)
      BY <2>9, GoEffect DEF Leave, Steps
    <2>10. CASE LeaveStore(t)
      BY <2>10, GoEffect DEF LeaveStore, Steps
    <2>11. CASE Signal(t)
      BY <2>11, BroadcastEffect DEF Signal, Steps
    <2> QED
      BY <2>1, <2>2, <2>3, <2>4, <2>5, <2>6, <2>7, <2>8, <2>9, <2>10, <2>11 DEF Reader
  <1> QED
    BY <1>1, <1>2, <1>3, QuietMove

LEMMA StatisticsQuiet ==
  ASSUME IndInv, NEW t \in Thread, Statistics(t)
  PROVE  Quiet
  <1> USE DEF At, StatUnchanged, localVars
  <1>0. TypeOK
    BY DEF IndInv
  <1>1. UNCHANGED <<process, tableVars, forwarded, msg>>
    BY DEF Statistics, UpdateCheck, UpdateLoad, UpdateStore, StatsEnter, StatsEnterStore,
           StatsLeave, StatsLeaveStore
  <1>2. /\ pc[t] # "receive" /\ pc'[t] # "forward"
        /\ \A u \in Thread : u # t => reply'[u] = reply[u] /\ pc'[u] = pc[u]
        /\ \/ msg[t].op \notin Writes /\ pc'[t] \notin {"apply", "relock", "release"}
           \/ pc'[t] # "receive" /\ reply'[t] = reply[t] /\ Taken(t)' = Taken(t)
    <2> USE <1>0, <1>1 DEF IndInv, RoleInv, Go, TypeOK, Taken, InWrite, Updating
    <2>1. CASE UpdateCheck(t)
      BY <2>1 DEF UpdateCheck
    <2>2. CASE UpdateLoad(t)
      BY <2>2 DEF UpdateLoad
    <2>3. CASE UpdateStore(t)
      BY <2>3 DEF UpdateStore
    <2>4. CASE StatsEnter(t)
      BY <2>4 DEF StatsEnter
    <2>5. CASE StatsEnterStore(t)
      BY <2>5 DEF StatsEnterStore
    <2>6. CASE StatsLeave(t)
      BY <2>6 DEF StatsLeave
    <2>7. CASE StatsLeaveStore(t)
      BY <2>7 DEF StatsLeaveStore
    <2> QED
      BY <2>1, <2>2, <2>3, <2>4, <2>5, <2>6, <2>7 DEF Statistics
  <1> QED
    BY <1>1, <1>2, QuietMove

\* What a write makes of the writes before it.
LEMMA HoldsAppend ==
  ASSUME NEW l \in Seq(Request), NEW w \in Request, NEW k
  PROVE  Service!Holds(Append(l, w), k) <=> IF w.key = k THEN w.op = "put" ELSE Service!Holds(l, k)
  <1> DEFINE m == Append(l, w)
             e == Len(l) + 1
  <1>1. /\ Len(l) \in Nat /\ DOMAIN l = 1 .. Len(l) /\ DOMAIN m = 1 .. e
        /\ m[e] = w /\ \A n \in 1 .. Len(l) : m[n] = l[n]
    OBVIOUS
  <1>2. \A n \in 1 .. e : n \in 1 .. Len(l) \/ n = e
    BY <1>1
  <1>3. \A n \in 1 .. Len(l) : n < e /\ n \in 1 .. e
    BY <1>1
  <1>4. e \in 1 .. e /\ \A n \in 1 .. e : ~(n > e)
    BY <1>1
  <1> HIDE DEF m, e
  <1>5. CASE w.key = k
    <2>1. ASSUME Service!Holds(m, k) PROVE w.op = "put"
      <3>1. PICK n \in DOMAIN m : /\ m[n].op = "put" /\ m[n].key = k
                                  /\ \A x \in DOMAIN m : x > n => m[x].key # k
        BY <2>1 DEF Service!Holds
      <3>2. ~(e > n)
        BY <1>1, <1>4, <1>5, <3>1
      <3>3. n = e
        BY <1>1, <1>2, <1>3, <3>1, <3>2
      <3> QED
        BY <1>1, <3>1, <3>3
    <2>2. ASSUME w.op = "put" PROVE Service!Holds(m, k)
      BY <1>1, <1>4, <1>5, <2>2 DEF Service!Holds
    <2> QED
      BY <1>5, <2>1, <2>2 DEF m
  <1>6. CASE w.key # k
    <2>1. ASSUME Service!Holds(m, k) PROVE Service!Holds(l, k)
      <3>1. PICK n \in DOMAIN m : /\ m[n].op = "put" /\ m[n].key = k
                                  /\ \A x \in DOMAIN m : x > n => m[x].key # k
        BY <2>1 DEF Service!Holds
      <3>2. n \in 1 .. Len(l)
        BY <1>1, <1>2, <1>6, <3>1
      <3>3. \A x \in DOMAIN l : x > n => l[x].key # k
        BY <1>1, <1>3, <3>1
      <3> QED
        BY <1>1, <3>1, <3>2, <3>3 DEF Service!Holds
    <2>2. ASSUME Service!Holds(l, k) PROVE Service!Holds(m, k)
      <3>1. PICK n \in DOMAIN l : /\ l[n].op = "put" /\ l[n].key = k
                                  /\ \A x \in DOMAIN l : x > n => l[x].key # k
        BY <2>2 DEF Service!Holds
      <3>2. n \in DOMAIN m /\ m[n].op = "put" /\ m[n].key = k
        BY <1>1, <1>3, <3>1
      <3>3. ASSUME NEW x \in DOMAIN m, x > n PROVE m[x].key # k
        BY <1>1, <1>2, <1>6, <3>1, <3>3
      <3> QED
        BY <3>2, <3>3 DEF Service!Holds
    <2> QED
      BY <1>6, <2>1, <2>2 DEF m
  <1> QED
    BY <1>5, <1>6

LEMMA InitReply == Init => ReplyInv
  <1> SUFFICES ASSUME Init PROVE ReplyInv
    OBVIOUS
  <1>1. \A k \in Key : ~Service!Holds(applied, k)
    BY DEF Init, Service!Holds
  <1>2. table = {k \in Key : Service!Holds(applied, k)}
    BY <1>1 DEF Init
  <1>3. \A t \in Thread : pc[t] = "receive"
    BY DEF Init
  <1> QED
    BY <1>2, <1>3 DEF ReplyInv, Taken, InWrite, Updating

\* A request arrives: a write is asked for, and nothing else is seen.
LEMMA ReceiveSeen ==
  ASSUME IndInv, NEW t \in Thread, Receive(t)
  PROVE  /\ UNCHANGED <<process, tableVars, forwarded>> /\ alive
         /\ Asked(t) = NoRequest /\ (Asked(t)' = NoRequest \/ Asked(t)' \in [op : Writes, key : Key])
         /\ ~Taken(t) /\ ~Taken(t)' /\ pc'[t] # "forward"
         /\ \A u \in Thread : u # t => msg'[u] = msg[u] /\ reply'[u] = reply[u] /\ pc'[u] = pc[u]
  <1>0. TypeOK
    BY DEF IndInv
  <1>1. PICK m \in Requests[t] :
          msg' = [msg EXCEPT ![t] = m] /\ Go(t, FirstStep(m.op))
          /\ reply' = [reply EXCEPT ![t] = IF m.op = "bad" THEN "error" ELSE "none"]
    BY DEF Receive
  <1>2. m \in Request
    BY InvokeAssumption
  <1>3. FirstStep(m.op) \in {"lock", "enter", "stats_enter", "stats_leave"}
    BY <1>2 DEF FirstStep, Request, Op, Writes, Lookups, Copies
  <1>4. FirstStep(m.op) \in Steps
    BY <1>3 DEF Steps
  <1>5. /\ pc[t] = "receive" /\ pc'[t] = FirstStep(m.op) /\ msg'[t] = m
        /\ \A u \in Thread : u # t => msg'[u] = msg[u] /\ reply'[u] = reply[u] /\ pc'[u] = pc[u]
    <2>1. pc[t] = "receive"
      BY DEF Receive, At
    <2>2. pc'[t] = FirstStep(m.op) /\ \A u \in Thread : u # t => pc'[u] = pc[u]
      BY <1>0, <1>1, <1>4, GoEffect
    <2> QED
      BY <1>0, <1>1, <2>1, <2>2 DEF TypeOK
  <1>6. UNCHANGED <<process, tableVars, forwarded>> /\ alive
    BY DEF Receive, At
  <1>7. ~Taken(t) /\ ~Taken(t)' /\ pc'[t] # "forward"
    BY <1>3, <1>5 DEF Taken, InWrite, Updating
  <1>8. Asked(t) = NoRequest /\ (Asked(t)' = NoRequest \/ Asked(t)' \in [op : Writes, key : Key])
    BY <1>2, <1>5 DEF Asked, Request
  <1> QED
    BY <1>5, <1>6, <1>7, <1>8

LEMMA ApplySeen ==
  ASSUME IndInv, ForwardInv, NEW t \in Thread, Apply(t)
  PROVE  /\ UNCHANGED <<process, msg, forwarded>> /\ alive
         /\ applied' = Append(applied, msg[t])
         /\ msg[t] \in Request /\ msg[t].op \in Writes
         /\ table' = IF msg[t].op = "put" THEN table \cup {msg[t].key} ELSE table \ {msg[t].key}
         /\ \/ reply'[t] = IF msg[t].op = "del" /\ msg[t].key \notin table THEN "error" ELSE "ok"
            \/ process = "closing" /\ reply'[t] = "error"
         /\ pc[t] = "apply" /\ pc'[t] = IF Successor THEN "forward" ELSE "u_check"
         /\ \A u \in Thread : u # t => reply'[u] = reply[u] /\ pc'[u] = pc[u]
         /\ Successor => forwarded = applied
  <1>0. TypeOK
    BY DEF IndInv
  <1>1. pc[t] = "apply" /\ alive /\ UNCHANGED <<process, msg, forwarded>>
    BY DEF Apply, At, WriterUnchanged, localVars
  <1>2. msg[t] \in Request /\ msg[t].op \in Writes
    BY <1>0, <1>1 DEF TypeOK, IndInv, RoleInv
  <1>3. /\ pc'[t] = IF Successor THEN "forward" ELSE "u_check"
        /\ \A u \in Thread : u # t => pc'[u] = pc[u]
    BY <1>0 DEF Apply, Go, TypeOK
  <1>4. /\ \A u \in Thread : u # t => reply'[u] = reply[u]
        /\ \/ reply'[t] = IF msg[t].op = "del" /\ msg[t].key \notin table THEN "error" ELSE "ok"
           \/ process = "closing" /\ reply'[t] = "error"
    BY <1>0 DEF Apply, TypeOK
  <1>5. \A u \in Thread : pc[u] # "forward"
    BY <1>1 DEF InWrite, IndInv, SectionInv, WriterExclusion
  <1>6. Successor => forwarded = applied
    BY <1>5 DEF ForwardInv
  <1>7. /\ applied' = Append(applied, msg[t])
        /\ table' = IF msg[t].op = "put" THEN table \cup {msg[t].key} ELSE table \ {msg[t].key}
    BY DEF Apply
  <1> QED
    BY <1>1, <1>2, <1>3, <1>4, <1>6, <1>7

\* Applied to the table, a write makes of it what it makes of the writes.
LEMMA ApplyReply ==
  ASSUME IndInv, ForwardInv, ReplyInv, NEW t \in Thread, Apply(t)
  PROVE  /\ table' = {k \in Key : Service!Holds(applied', k)}
         /\ \/ reply'[t] = Service!Answer(applied, msg[t])
            \/ process = "closing" /\ reply'[t] = "error"
         /\ reply'[t] \in {"ok", "error"}
  <1>1. applied \in Seq(Request) /\ msg[t] \in Request /\ msg[t].op \in {"put", "del"} /\ msg[t].key \in Key
    BY ApplySeen DEF IndInv, TypeOK, Request, Writes
  <1>2. applied' = Append(applied, msg[t])
    BY ApplySeen
  <1>3. table = {k \in Key : Service!Holds(applied, k)}
    BY DEF ReplyInv
  <1>4. \A k \in Key : Service!Holds(applied', k)
          <=> IF msg[t].key = k THEN msg[t].op = "put" ELSE Service!Holds(applied, k)
    BY <1>1, <1>2, HoldsAppend
  <1>5. table' = {k \in Key : Service!Holds(applied', k)}
    <2>1. table' = IF msg[t].op = "put" THEN table \cup {msg[t].key} ELSE table \ {msg[t].key}
      BY ApplySeen
    <2>2. CASE msg[t].op = "put"
      BY <1>1, <1>3, <1>4, <2>1, <2>2
    <2>3. CASE msg[t].op = "del"
      BY <1>1, <1>3, <1>4, <2>1, <2>3
    <2> QED
      BY <1>1, <2>2, <2>3
  <1>6. \/ reply'[t] = IF msg[t].op = "del" /\ msg[t].key \notin table THEN "error" ELSE "ok"
        \/ process = "closing" /\ reply'[t] = "error"
    BY ApplySeen
  <1>7. msg[t].key \in table <=> Service!Holds(applied, msg[t].key)
    BY <1>1, <1>3
  <1>8. \/ reply'[t] = Service!Answer(applied, msg[t])
        \/ process = "closing" /\ reply'[t] = "error"
    BY <1>6, <1>7 DEF Service!Answer
  <1> QED
    BY <1>5, <1>6, <1>8

LEMMA ForwardSeen ==
  ASSUME IndInv, ForwardInv, NEW t \in Thread, Forward(t)
  PROVE  /\ UNCHANGED <<process, msg, reply, tableVars>> /\ alive /\ Successor
         /\ forwarded' = Append(forwarded, msg[t])
         /\ msg[t] \in Request /\ msg[t].op \in Writes
         /\ pc[t] = "forward" /\ pc'[t] = "u_check"
         /\ \A u \in Thread : u # t => pc'[u] = pc[u]
  <1>1. /\ UNCHANGED <<process, msg, reply, tableVars>> /\ alive /\ pc[t] = "forward"
        /\ forwarded' = Append(forwarded, msg[t])
    BY DEF Forward, At, WriterUnchanged, localVars
  <1>2. msg[t] \in Request /\ msg[t].op \in Writes
    BY <1>1 DEF IndInv, TypeOK, RoleInv
  <1>3. pc'[t] = "u_check" /\ \A u \in Thread : u # t => pc'[u] = pc[u]
    BY DEF Forward, Go, IndInv, TypeOK
  <1>4. Successor
    BY <1>1 DEF ForwardInv
  <1> QED
    BY <1>1, <1>2, <1>3, <1>4

LEMMA ReleaseSeen ==
  ASSUME IndInv, NEW t \in Thread, Release(t)
  PROVE  /\ UNCHANGED <<process, msg, reply, tableVars, forwarded>> /\ alive
         /\ pc[t] = "release" /\ pc'[t] = "receive"
         /\ \A u \in Thread : u # t => (pc'[u] = pc[u] \/ (pc[u] = "wait" /\ pc'[u] = "lock"))
  <1>1. UNCHANGED <<process, msg, reply, tableVars, forwarded>> /\ alive /\ pc[t] = "release"
    BY DEF Release, At, WriterUnchanged, localVars
  <1>2. "receive" \in Steps /\ TypeOK /\ Broadcast(t, "receive")
    BY DEF Steps, IndInv, Release
  <1> QED
    BY <1>1, <1>2, BroadcastEffect

\* The process ends, or the handler enters; threads stay where they are.
Ending ==
  /\ UNCHANGED <<tableVars, forwarded, pc, msg, reply>>
  /\ \/ process = "up" /\ process' = "closing"
     \/ alive /\ process' \in {"exited", "crashed"}

LEMMA StepKinds ==
  ASSUME IndInv, [Next]_vars
  PROVE  \/ UNCHANGED vars \/ Quiet \/ Ending
         \/ \E t \in Thread : Receive(t) \/ Apply(t) \/ Forward(t) \/ Release(t)
  <1>1. ASSUME NEW t \in Thread,
               CopyCrash(t) \/ ReadCrash(t) \/ ForwardLost(t) \/ UseDestroyed(t)
        PROVE  Ending
    BY <1>1 DEF CopyCrash, ReadCrash, ForwardLost, UseDestroyed, Ending, At, alive, ReaderUnchanged,
                WriterUnchanged, CloseUnchanged, tableVars, localVars
  <1>2. ASSUME Interrupt \/ Close PROVE Ending
    BY <1>2 DEF Interrupt, Close, Ending, alive, CloseUnchanged, tableVars, localVars
  <1>3. ASSUME NEW t \in Thread, Writer(t) \/ Spurious(t), ~Apply(t), ~Forward(t), ~Release(t)
        PROVE  Quiet
    <2>1. Lock(t) \/ Check(t) \/ CondWait(t) \/ Claim(t) \/ Relock(t) \/ Spurious(t)
      BY <1>3 DEF Writer
    <2> QED
      BY <2>1, WriterQuiet
  <1>4. ASSUME NEW t \in Thread, Reader(t), ~CopyCrash(t), ~ReadCrash(t) PROVE Quiet
    BY <1>4, ReaderQuiet
  <1>5. ASSUME NEW t \in Thread, Statistics(t) PROVE Quiet
    BY <1>5, StatisticsQuiet
  <1> QED
    BY <1>1, <1>2, <1>3, <1>4, <1>5 DEF Next, Step

LEMMA StepReply == IndInv /\ ForwardInv /\ ReplyInv /\ [Next]_vars => ReplyInv'
  <1> SUFFICES ASSUME IndInv, ForwardInv, ReplyInv, [Next]_vars PROVE ReplyInv'
    OBVIOUS
  <1> DEFINE Held(l) == {k \in Key : Service!Holds(l, k)}
  <1>0. table = Held(applied)
    BY DEF ReplyInv
  <1>1. CASE UNCHANGED vars
    <2>1. UNCHANGED <<process, tableVars, forwarded, pc, msg, reply>>
      BY <1>1 DEF vars, localVars
    <2> QED
      BY <2>1 DEF ReplyInv, tableVars, Taken, InWrite
  <1>2. CASE Quiet
    <2>1. table' = Held(applied')
      BY <1>0, <1>2 DEF Quiet, tableVars
    <2>2. ASSUME NEW u \in Thread, pc'[u] = "forward"
          PROVE  /\ reply'[u] \in {"ok", "error"}
                 /\ \/ reply'[u] = Service!Answer(forwarded', msg'[u])
                    \/ reply'[u] = "error" /\ process' # "up"
      <3>1. /\ pc[u] = "forward" /\ reply'[u] = reply[u] /\ msg'[u] = msg[u]
            /\ forwarded' = forwarded /\ process' = process
        BY <1>2, <2>2 DEF Quiet
      <3> QED
        BY <3>1 DEF ReplyInv
    <2>3. ASSUME NEW u \in Thread, Taken(u)' PROVE reply'[u] \in {"ok", "error"}
      <3>1. Taken(u) /\ Answered(u)' = Answered(u)
        BY <1>2, <2>3 DEF Quiet
      <3>2. reply'[u] = reply[u]
        BY <2>3, <3>1 DEF Answered
      <3> QED
        BY <3>1, <3>2 DEF ReplyInv
    <2> QED
      BY <2>1, <2>2, <2>3 DEF ReplyInv
  <1>3. CASE Ending
    BY <1>3 DEF Ending, ReplyInv, tableVars, Taken, InWrite, alive
  <1>4. ASSUME NEW t \in Thread, Receive(t) PROVE ReplyInv'
    <2>1. table' = Held(applied') /\ UNCHANGED <<process, forwarded>>
      BY <1>0, <1>4, ReceiveSeen DEF tableVars
    <2>2. ~Taken(t)' /\ pc'[t] # "forward"
      BY <1>4, ReceiveSeen
    <2>3. ASSUME NEW u \in Thread, u # t
          PROVE msg'[u] = msg[u] /\ reply'[u] = reply[u] /\ pc'[u] = pc[u] /\ Taken(u)' = Taken(u)
      BY <1>4, <2>3, ReceiveSeen, OthersKeep
    <2> QED
      BY <2>1, <2>2, <2>3 DEF ReplyInv
  <1>5. ASSUME NEW t \in Thread, Apply(t) PROVE ReplyInv'
    <2>1. table' = Held(applied')
      BY <1>5, ApplyReply
    <2>2. UNCHANGED <<process, msg, forwarded>> /\ (Successor => forwarded = applied)
      BY <1>5, ApplySeen
    <2>3. /\ reply'[t] = Service!Answer(applied, msg[t]) \/ (process = "closing" /\ reply'[t] = "error")
          /\ reply'[t] \in {"ok", "error"}
      BY <1>5, ApplyReply
    <2>4. pc'[t] = "forward" => Successor
      BY <1>5, ApplySeen
    <2>5. ASSUME NEW u \in Thread, u # t
          PROVE msg'[u] = msg[u] /\ reply'[u] = reply[u] /\ pc'[u] = pc[u] /\ Taken(u)' = Taken(u)
      BY <1>5, <2>2, <2>5, ApplySeen, OthersKeep
    <2> QED
      BY <2>1, <2>2, <2>3, <2>4, <2>5 DEF ReplyInv
  <1>6. ASSUME NEW t \in Thread, Forward(t) PROVE ReplyInv'
    <2>1. table' = Held(applied') /\ UNCHANGED <<process, msg, reply>>
      BY <1>0, <1>6, ForwardSeen DEF tableVars
    <2>2. reply[t] \in {"ok", "error"} /\ pc'[t] # "forward"
      BY <1>6, ForwardSeen DEF ReplyInv
    <2>3. \A u \in Thread : pc[u] = "forward" => u = t
      BY <1>6, ForwardSeen DEF InWrite, IndInv, SectionInv, WriterExclusion
    <2>4. ASSUME NEW u \in Thread, u # t PROVE pc'[u] = pc[u] /\ Taken(u)' = Taken(u)
      BY <1>6, <2>1, <2>4, ForwardSeen, OthersKeep
    <2> QED
      BY <2>1, <2>2, <2>3, <2>4 DEF ReplyInv
  <1>7. ASSUME NEW t \in Thread, Release(t) PROVE ReplyInv'
    <2>1. table' = Held(applied') /\ UNCHANGED <<process, msg, reply, forwarded>>
      BY <1>0, <1>7, ReleaseSeen DEF tableVars
    <2>2. ~Taken(t)' /\ pc'[t] # "forward"
      BY <1>7, ReleaseSeen DEF Taken, InWrite, Updating
    <2>3. ASSUME NEW u \in Thread, u # t
          PROVE Taken(u)' = Taken(u) /\ (pc'[u] = "forward" => pc[u] = "forward")
      BY <1>7, <2>1, <2>3, ReleaseSeen, OthersKeep
    <2> QED
      BY <2>1, <2>2, <2>3 DEF ReplyInv
  <1> QED
    BY <1>1, <1>2, <1>3, <1>4, <1>5, <1>6, <1>7, StepKinds

\* What Replica sees of a server, thread by thread.
Phase == IF alive THEN process ELSE "down"
Log == IF Successor THEN forwarded ELSE applied

\* A step is a step of Replica as soon as it is one for every thread.
LEMMA SeenSame ==
  ASSUME Phase' = Phase, Log' = Log,
         \A u \in Thread : Asked(u)' = Asked(u) /\ Answered(u)' = Answered(u)
  PROVE  UNCHANGED Service!vars
  BY DEF Service!vars, Phase, Log, Asked, Answered

LEMMA SeenEnd ==
  ASSUME Log' = Log, \A u \in Thread : Asked(u)' = Asked(u) /\ Answered(u)' = Answered(u),
         (Phase = "up" /\ Phase' = "closing") \/ Phase' = "down"
  PROVE  Service!Next
  <1>1. Service!Close \/ Service!Stop
    BY DEF Service!Close, Service!Stop, Phase, Log, Asked, Answered
  <1> QED
    BY <1>1 DEF Service!Next

LEMMA SeenAsk ==
  ASSUME Phase' = Phase, Phase # "down", Log' = Log, NEW t \in Thread,
         Asked(t) = NoRequest, Asked(t)' \in [op : Writes, key : Key], Answered(t)' = Answered(t),
         \A u \in Thread : u # t => Asked(u)' = Asked(u) /\ Answered(u)' = Answered(u)
  PROVE  Service!Next
  <1> DEFINE asked == [u \in Thread |-> Asked(u)]
             w == Asked(t)'
  <1>1. asked' = [asked EXCEPT ![t] = w]
    OBVIOUS
  <1>2. \E x \in [op : Writes, key : Key] : asked' = [asked EXCEPT ![t] = x]
    BY <1>1
  <1>3. [u \in Thread |-> Answered(u)]' = [u \in Thread |-> Answered(u)]
    OBVIOUS
  <1>4. Service!Ask(t)
    BY <1>2, <1>3 DEF Service!Ask, Phase, Log, Asked, Answered
  <1> QED
    BY <1>4 DEF Service!Next, Phase

LEMMA SeenTake ==
  ASSUME Phase' = Phase, Phase # "down", NEW t \in Thread,
         Asked(t) # NoRequest, Log' = Append(Log, Asked(t)), Answered(t) = "none",
         \/ Answered(t)' = Service!Answer(Log, Asked(t))
         \/ Phase = "closing" /\ Answered(t)' = "error",
         Asked(t)' = Asked(t),
         \A u \in Thread : u # t => Asked(u)' = Asked(u) /\ Answered(u)' = Answered(u)
  PROVE  Service!Next
  <1> DEFINE answer == [u \in Thread |-> Answered(u)]
  <1>1. answer' = [answer EXCEPT ![t] = Answered(t)']
    OBVIOUS
  <1>2. [u \in Thread |-> Asked(u)]' = [u \in Thread |-> Asked(u)]
    OBVIOUS
  <1>3. Service!TakeEffect(t)
    BY <1>1, <1>2 DEF Service!TakeEffect, Phase, Log, Asked, Answered
  <1> QED
    BY <1>3 DEF Service!Next, Phase

LEMMA SeenReply ==
  ASSUME Phase' = Phase, Phase # "down", Log' = Log, NEW t \in Thread,
         Answered(t) # "none", Asked(t)' = NoRequest, Answered(t)' = "none",
         \A u \in Thread : u # t => Asked(u)' = Asked(u) /\ Answered(u)' = Answered(u)
  PROVE  Service!Next
  <1>1. [u \in Thread |-> Answered(u)]' = [[u \in Thread |-> Answered(u)] EXCEPT ![t] = "none"]
    OBVIOUS
  <1>2. [u \in Thread |-> Asked(u)]' = [[u \in Thread |-> Asked(u)] EXCEPT ![t] = NoRequest]
    OBVIOUS
  <1>3. Service!Reply(t)
    BY <1>1, <1>2 DEF Service!Reply, Phase, Log, Asked, Answered
  <1> QED
    BY <1>3 DEF Service!Next, Phase

LEMMA StepAtomic ==
  IndInv /\ ForwardInv /\ ReplyInv /\ [Next]_vars => [Service!Next]_(Service!vars)
  <1> SUFFICES ASSUME IndInv, ForwardInv, ReplyInv, [Next]_vars
               PROVE  Service!Next \/ UNCHANGED Service!vars
    OBVIOUS
  <1>1. CASE UNCHANGED vars
    <2>1. UNCHANGED <<process, tableVars, forwarded, pc, msg, reply>>
      BY <1>1 DEF vars, localVars
    <2> QED
      BY <2>1, SeenSame DEF tableVars, Phase, alive, Log, Asked, Answered, Taken, InWrite
  <1>2. CASE Quiet
    BY <1>2, SeenSame DEF Quiet, tableVars, Phase, alive, Log
  <1>3. CASE Ending
    <2>1. Log' = Log /\ \A u \in Thread : Asked(u)' = Asked(u) /\ Answered(u)' = Answered(u)
      BY <1>3 DEF Ending, tableVars, Log, Asked, Answered, Taken, InWrite
    <2>2. (Phase = "up" /\ Phase' = "closing") \/ Phase' = "down"
      BY <1>3 DEF Ending, Phase, alive
    <2> QED
      BY <2>1, <2>2, SeenEnd
  <1>4. ASSUME NEW t \in Thread, Receive(t) PROVE Service!Next \/ UNCHANGED Service!vars
    <2>1. Phase' = Phase /\ Phase # "down" /\ Log' = Log
      BY <1>4, ReceiveSeen DEF Phase, alive, Log, tableVars
    <2>2. /\ Asked(t) = NoRequest /\ (Asked(t)' = NoRequest \/ Asked(t)' \in [op : Writes, key : Key])
          /\ Answered(t)' = Answered(t)
      BY <1>4, ReceiveSeen DEF Answered
    <2>3. \A u \in Thread : u # t => Asked(u)' = Asked(u) /\ Answered(u)' = Answered(u)
      BY <1>4, ReceiveSeen, OthersKeep
    <2>4. CASE Asked(t)' = NoRequest
      BY <2>1, <2>2, <2>3, <2>4, SeenSame
    <2>5. CASE Asked(t)' \in [op : Writes, key : Key]
      BY <2>1, <2>2, <2>3, <2>5, SeenAsk
    <2> QED
      BY <2>2, <2>4, <2>5
  <1>5. ASSUME NEW t \in Thread, Apply(t) PROVE Service!Next \/ UNCHANGED Service!vars
    <2>1. /\ UNCHANGED <<process, msg, forwarded>> /\ alive
          /\ applied' = Append(applied, msg[t]) /\ msg[t].op \in Writes
          /\ pc[t] = "apply" /\ pc'[t] = IF Successor THEN "forward" ELSE "u_check"
      BY <1>5, ApplySeen
    <2>2. Phase' = Phase /\ Phase # "down" /\ Phase = process
      BY <2>1 DEF Phase, alive
    <2>3. Asked(t) = msg[t] /\ Asked(t)' = Asked(t) /\ msg[t] # NoRequest
      BY <2>1 DEF Asked, NoRequest, Writes
    <2>4. Answered(t) = "none" /\ Answered(t)' = IF Successor THEN "none" ELSE reply'[t]
      BY <2>1 DEF Answered, Taken, InWrite, Updating
    <2>5. \A u \in Thread : u # t => Asked(u)' = Asked(u) /\ Answered(u)' = Answered(u)
      BY <1>5, ApplySeen, OthersKeep
    <2>6. CASE Successor
      <3>1. Log' = Log
        BY <2>1, <2>6 DEF Log
      <3> QED
        BY <2>2, <2>3, <2>4, <2>5, <2>6, <3>1, SeenSame
    <2>7. CASE ~Successor
      <3>1. Log = applied /\ Log' = Append(Log, Asked(t))
        BY <2>1, <2>3, <2>7 DEF Log
      <3>2. \/ Answered(t)' = Service!Answer(Log, Asked(t))
            \/ Phase = "closing" /\ Answered(t)' = "error"
        BY <1>5, <2>2, <2>3, <2>4, <2>7, <3>1, ApplyReply
      <3> QED
        BY <2>2, <2>3, <2>4, <2>5, <3>1, <3>2, SeenTake
    <2> QED
      BY <2>6, <2>7
  <1>6. ASSUME NEW t \in Thread, Forward(t) PROVE Service!Next
    <2>1. /\ UNCHANGED <<process, msg, reply, tableVars>> /\ alive /\ Successor
          /\ forwarded' = Append(forwarded, msg[t]) /\ msg[t].op \in Writes
          /\ pc[t] = "forward" /\ pc'[t] = "u_check"
      BY <1>6, ForwardSeen
    <2>2. Phase' = Phase /\ Phase # "down" /\ Phase = process /\ (process # "up" => process = "closing")
      BY <2>1 DEF Phase, alive
    <2>3. Asked(t) = msg[t] /\ Asked(t)' = Asked(t) /\ msg[t] # NoRequest
      BY <2>1 DEF Asked, NoRequest, Writes
    <2>4. Answered(t) = "none" /\ Answered(t)' = reply[t]
      BY <2>1 DEF Answered, Taken, InWrite, Updating
    <2>5. \A u \in Thread : u # t => Asked(u)' = Asked(u) /\ Answered(u)' = Answered(u)
      BY <1>6, ForwardSeen, OthersKeep
    <2>6. Log = forwarded /\ Log' = Append(Log, Asked(t))
      BY <2>1, <2>3 DEF Log
    <2>7. \/ Answered(t)' = Service!Answer(Log, Asked(t))
          \/ Phase = "closing" /\ Answered(t)' = "error"
      BY <2>1, <2>2, <2>3, <2>4, <2>6 DEF ReplyInv
    <2> QED
      BY <2>2, <2>3, <2>4, <2>5, <2>6, <2>7, SeenTake
  <1>7. ASSUME NEW t \in Thread, Release(t) PROVE Service!Next
    <2>1. /\ UNCHANGED <<process, msg, reply, tableVars, forwarded>> /\ alive
          /\ pc[t] = "release" /\ pc'[t] = "receive"
      BY <1>7, ReleaseSeen
    <2>2. Phase' = Phase /\ Phase # "down" /\ Log' = Log
      BY <2>1 DEF Phase, alive, Log, tableVars
    <2>3. Asked(t)' = NoRequest /\ Answered(t)' = "none"
      BY <2>1 DEF Asked, Answered, Taken, InWrite, Updating
    <2>4. Answered(t) # "none"
      <3>1. Taken(t)
        BY <2>1 DEF Taken, InWrite
      <3> QED
        BY <3>1 DEF Answered, ReplyInv
    <2>5. \A u \in Thread : u # t => Asked(u)' = Asked(u) /\ Answered(u)' = Answered(u)
      BY <1>7, ReleaseSeen, OthersKeep
    <2> QED
      BY <2>2, <2>3, <2>4, <2>5, SeenReply
  <1> QED
    BY <1>1, <1>2, <1>3, <1>4, <1>5, <1>6, <1>7, StepKinds

\* A put or del is one atomic write of the table and of the successor's, made
\* exactly once before its answer, which is the one that the successor's order
\* of writes determines: for any number of threads, any mix of requests, and a
\* connection or a process that may break at any step.
THEOREM WritesAreAtomic == Spec => WritesAtomic
  <1>1. Init => Service!Init
    <2> SUFFICES ASSUME Init PROVE Service!Init
      OBVIOUS
    <2>1. process = "up" /\ applied = <<>> /\ forwarded = <<>> /\ \A t \in Thread : pc[t] = "receive"
      BY DEF Init
    <2>2. \A t \in Thread : ~Taken(t)
      BY <2>1 DEF Taken, InWrite, Updating
    <2> QED
      BY <2>1, <2>2 DEF Service!Init, alive
  <1> DEFINE Inv == IndInv /\ ForwardInv /\ ReplyInv
  <1>2. Init => Inv
    BY InitInd, InitForward, InitReply
  <1>3. Inv /\ [Next]_vars => Inv'
    BY StepInd, StepForward, StepReply
  <1>4. Inv /\ [Next]_vars => [Service!Next]_(Service!vars)
    BY StepAtomic
  <1> QED
    BY <1>1, <1>2, <1>3, <1>4, PTL DEF Spec, WritesAtomic, Service!Spec

-----------------------------------------------------------------------------
(* A server whose clients only write.                                      *)

OnlyWriters == \A t \in Thread : \A m \in Requests[t] : m.op \in Writes

WriterOnlySteps == {"receive", "lock", "check", "sleep", "wait", "claim", "apply",
                    "forward", "relock", "release"} \cup Updating

\* No reader and no stats request runs; a thread sleeps only while a writer is
\* in the section, and writers_count is 1 only for such a writer.
WakeInv ==
  /\ readers_count = 0
  /\ \A t \in Thread :
       /\ pc[t] \in WriterOnlySteps
       /\ pc[t] \in Updating => msg[t].op \in Writes
       /\ pc[t] \in {"sleep", "wait"} => writers_count = 1
  /\ writers_count = 1 => \E t \in Thread : InWrite(t)

\* The increment of num_ops in progress, if any, has the last value loaded.
CountInv ==
  /\ NumOpsExact
  /\ \A t \in Thread : pc[t] = "u_store" => reg[t] = num_ops

\* An increment that loses nothing keeps the count exact.
LEMMA CountedOnce ==
  ASSUME TypeOK, NumOpsExact, num_ops' = num_ops + 1, executed' = executed + 1
  PROVE  NumOpsExact'
  <1>1. PICK g \in Garbage : num_ops = g + executed
    BY DEF NumOpsExact
  <1>2. g \in Int /\ executed \in Int
    BY InvokeAssumption DEF TypeOK
  <1>3. num_ops' = g + executed'
    BY <1>1, <1>2
  <1> QED
    BY <1>3 DEF NumOpsExact

LEMMA OnlyWritersStep ==
  ASSUME OnlyWriters, IndInv, WakeInv, CountInv, [Next]_vars
  PROVE  WakeInv' /\ CountInv'
  <1> USE InvokeAssumption
  <1> USE DEF IndInv, At, RoleInv, InWrite, Updating, WakeInv, CountInv, NumOpsExact,
              WriterOnlySteps, SectionInv, WriterExclusion, LockInv
  <1> TypeOK
    OBVIOUS
  <1>1. CASE UNCHANGED vars
    BY <1>1 DEF vars, lockVars, statVars, localVars
  <1>2. ASSUME NEW t \in Thread, Receive(t) PROVE WakeInv' /\ CountInv'
    <2>1. PICK m \in Requests[t] :
            msg' = [msg EXCEPT ![t] = m] /\ Go(t, FirstStep(m.op))
      BY <1>2 DEF Receive
    <2>2. m.op \in Writes
      BY DEF OnlyWriters
    <2>3. FirstStep(m.op) = "lock"
      BY <2>2 DEF FirstStep, Writes, Lookups, Copies
    <2>4. "lock" \in Steps
      BY DEF Steps
    <2>5. /\ pc[t] = "receive" /\ pc'[t] = "lock"
          /\ \A u \in Thread : u # t => pc'[u] = pc[u] /\ msg'[u] = msg[u]
      <3>1. pc[t] = "receive"
        BY <1>2 DEF Receive
      <3>2. pc'[t] = "lock" /\ \A u \in Thread : u # t => pc'[u] = pc[u]
        BY <2>1, <2>3, <2>4, GoEffect
      <3>3. \A u \in Thread : u # t => msg'[u] = msg[u]
        BY <2>1 DEF TypeOK
      <3> QED
        BY <3>1, <3>2, <3>3
    <2>6. UNCHANGED <<readers_count, writers_count, reg, num_ops, executed>>
      BY <1>2 DEF Receive, lockVars, statVars
    <2> QED
      BY <2>5, <2>6
  <1>3. ASSUME NEW t \in Thread, Writer(t) \/ Spurious(t) \/ ForwardLost(t)
        PROVE WakeInv' /\ CountInv'
    <2> USE DEF WriterUnchanged, lockVars, localVars, statVars
    <2>1. CASE Lock(t)
      BY <2>1, GoEffect DEF Lock, Steps
    <2>2. CASE Check(t)
      BY <2>2, GoEffect DEF Check, Steps
    <2>3. CASE CondWait(t)
      BY <2>3, GoEffect DEF CondWait, Steps
    <2>4. CASE Claim(t)
      BY <2>4, GoEffect DEF Claim, Steps, ClaimInv
    <2>5. CASE Apply(t)
      BY <2>5, GoEffect DEF Apply, Steps
    <2>6. CASE Forward(t)
      BY <2>6, GoEffect DEF Forward, Steps
    <2>7. CASE Relock(t)
      BY <2>7, GoEffect DEF Relock, Steps
    <2>8. CASE Release(t)
      BY <2>8, BroadcastEffect DEF Release, Steps
    <2>9. CASE Spurious(t)
      BY <2>9, GoEffect DEF Spurious, Steps
    <2>10. CASE ForwardLost(t)
      BY <2>10 DEF ForwardLost
    <2> QED
      BY <1>3, <2>1, <2>2, <2>3, <2>4, <2>5, <2>6, <2>7, <2>8, <2>9, <2>10
         DEF Writer
  <1>4. ASSUME NEW t \in Thread, Statistics(t) PROVE WakeInv' /\ CountInv'
    <2> USE GoEffect DEF StatUnchanged, lockVars, localVars, statVars, Steps
    <2>1. CASE UpdateCheck(t)
      BY <2>1 DEF UpdateCheck
    <2>2. CASE UpdateLoad(t)
      <3>1. WakeInv'
        BY <2>2 DEF UpdateLoad
      <3>2. /\ UNCHANGED <<num_ops, executed>> /\ reg'[t] = num_ops
            /\ \A u \in Thread : u # t => reg'[u] = reg[u]
        BY <2>2 DEF UpdateLoad, TypeOK
      <3>3. NumOpsExact'
        BY <3>2 DEF NumOpsExact
      <3>4. \A u \in Thread : pc'[u] = "u_store" => reg'[u] = num_ops'
        BY <2>2, <3>2 DEF UpdateLoad
      <3> QED
        BY <3>1, <3>3, <3>4
    <2>3. CASE UpdateStore(t)
      <3>1. WakeInv'
        BY <2>3 DEF UpdateStore
      <3>2. num_ops' = num_ops + 1 /\ executed' = executed + 1
        BY <2>3 DEF UpdateStore
      <3>3. NumOpsExact'
        BY <3>2, CountedOnce
      <3>4. \A u \in Thread : pc'[u] # "u_store"
        BY <2>3 DEF UpdateStore
      <3> QED
        BY <3>1, <3>3, <3>4
    <2>4. CASE StatsEnter(t) \/ StatsEnterStore(t) \/ StatsLeave(t) \/ StatsLeaveStore(t)
      BY <2>4 DEF StatsEnter, StatsEnterStore, StatsLeave, StatsLeaveStore
    <2> QED
      BY <1>4, <2>1, <2>2, <2>3, <2>4 DEF Statistics
  <1>5. ASSUME NEW t \in Thread, Reader(t) PROVE FALSE
    BY <1>5 DEF Reader, Enter, EnterStore, Read, ListKeys, Alloc, CopyNext, CopyCrash,
                ReadCrash, CopyDone, Count, Leave, LeaveStore, Signal
  <1>6. CASE Interrupt \/ Close \/ \E t \in Thread : UseDestroyed(t)
    BY <1>6 DEF Interrupt, Close, UseDestroyed, CloseUnchanged, lockVars, localVars, statVars
  <1> QED
    BY <1>1, <1>2, <1>3, <1>4, <1>5, <1>6 DEF Next, Step

LEMMA OnlyWritersInv ==
  ASSUME OnlyWriters
  PROVE  Spec => [](IndInv /\ WakeInv /\ CountInv)
  <1>1. Init => WakeInv /\ CountInv
    BY InvokeAssumption
       DEF Init, WakeInv, CountInv, NumOpsExact, WriterOnlySteps, Updating
  <1>2. IndInv /\ WakeInv /\ CountInv /\ [Next]_vars => WakeInv' /\ CountInv'
    BY OnlyWritersStep
  <1> QED
    BY InitInd, StepInd, <1>1, <1>2, PTL DEF Spec

\* Among writers no wakeup is lost: whoever sleeps has a writer in the section,
\* whose broadcast is still to come.
THEOREM SleepersAreWoken ==
  ASSUME OnlyWriters
  PROVE  Spec => []SleeperHasWaker
  <1>1. WakeInv => SleeperHasWaker
    BY DEF WakeInv, SleeperHasWaker
  <1> QED
    BY OnlyWritersInv, <1>1, PTL

\* Among writers num_ops counts every operation, although update_stats() does
\* not hold a lock for the increment: the writers' section covers it.
THEOREM OperationsCounted ==
  ASSUME OnlyWriters
  PROVE  Spec => []NumOpsExact
  <1>1. CountInv => NumOpsExact
    BY DEF CountInv
  <1> QED
    BY OnlyWritersInv, <1>1, PTL

-----------------------------------------------------------------------------
(* Readers lose increments of num_ops and never invent one.                 *)

\* From some garbage on, num_ops and every value loaded of it lag behind.
LagInv == \E g \in Garbage :
            /\ num_ops <= g + executed
            /\ \A t \in Thread : pc[t] = "u_store" => reg[t] <= g + executed

\* A step that neither counts nor loads keeps the lag.
LEMMA LagKept ==
  ASSUME LagInv, UNCHANGED statVars,
         \A t \in Thread : pc'[t] = "u_store" => pc[t] = "u_store" /\ reg'[t] = reg[t]
  PROVE  LagInv'
  BY DEF LagInv, statVars

\* Where a step goes tells whether it counts.
LEMMA GoesElsewhere ==
  ASSUME TypeOK, NEW t \in Thread, NEW s \in Steps \ {"u_store"}, Go(t, s) \/ Broadcast(t, s)
  PROVE  \A u \in Thread : pc'[u] = "u_store" => u # t /\ pc[u] = "u_store"
  <1>1. CASE Go(t, s)
    BY <1>1, GoEffect
  <1>2. CASE Broadcast(t, s)
    BY <1>2, BroadcastEffect
  <1> QED
    BY <1>1, <1>2

LEMMA StepLags ==
  ASSUME TypeOK, LagInv, [Next]_vars
  PROVE  LagInv'
  <1>1. CASE UNCHANGED vars
    BY <1>1, LagKept DEF vars, localVars
  <1>2. ASSUME NEW t \in Thread, Receive(t) PROVE LagInv'
    <2>1. PICK m \in Requests[t] : Go(t, FirstStep(m.op))
      BY <1>2 DEF Receive
    <2>2. FirstStep(m.op) \in Steps \ {"u_store"}
      BY InvokeAssumption DEF FirstStep, Op, Writes, Lookups, Copies, Request, Steps
    <2> QED
      BY <1>2, <2>1, <2>2, GoesElsewhere, LagKept DEF Receive
  <1>3. ASSUME NEW t \in Thread, Writer(t) \/ Spurious(t) \/ ForwardLost(t) PROVE LagInv'
    <2>1. UNCHANGED statVars /\ UNCHANGED reg
      BY <1>3 DEF Writer, Spurious, ForwardLost, Lock, Check, CondWait, Claim, Apply, Forward,
                  Relock, Release, WriterUnchanged, localVars
    <2>2. pc' = pc \/ \E s \in Steps \ {"u_store"} : Go(t, s) \/ Broadcast(t, s)
      BY <1>3 DEF Writer, Spurious, ForwardLost, Lock, Check, CondWait, Claim, Apply, Forward,
                  Relock, Release, Steps, Updating
    <2> QED
      BY <2>1, <2>2, GoesElsewhere, LagKept
  <1>4. ASSUME NEW t \in Thread, Reader(t) PROVE LagInv'
    <2>1. UNCHANGED statVars /\ \A u \in Thread : u # t => reg'[u] = reg[u]
      BY <1>4 DEF TypeOK, Load, Reader, Enter, EnterStore, Read, ListKeys, Alloc, CopyNext, CopyCrash,
                  ReadCrash, CopyDone, Count, Leave, LeaveStore, Signal, ReaderUnchanged, statVars
    <2>2. (pc' = pc /\ UNCHANGED reg) \/ \E s \in Steps \ {"u_store"} : Go(t, s) \/ Broadcast(t, s)
      BY <1>4 DEF Reader, Enter, EnterStore, Read, ListKeys, Alloc, CopyNext, CopyCrash,
                  ReadCrash, CopyDone, Count, Leave, LeaveStore, Signal, Steps, Updating
    <2> QED
      BY <2>1, <2>2, GoesElsewhere, LagKept
  <1>5. ASSUME NEW t \in Thread, Statistics(t) PROVE LagInv'
    <2>1. CASE UpdateLoad(t)
      <3>1. /\ UNCHANGED <<num_ops, executed>> /\ reg'[t] = num_ops
            /\ \A u \in Thread : u # t => reg'[u] = reg[u] /\ pc'[u] = pc[u]
        BY <2>1 DEF UpdateLoad, TypeOK, Go, statVars
      <3> QED
        BY <3>1 DEF LagInv
    <2>2. CASE UpdateStore(t)
      <3>1. /\ num_ops' = reg[t] + 1 /\ executed' = executed + 1
            /\ UNCHANGED reg /\ pc[t] = "u_store"
        BY <2>2 DEF UpdateStore, At
      <3>2. \A u \in Thread : pc'[u] = "u_store" => pc[u] = "u_store"
        BY <2>2, GoesElsewhere DEF UpdateStore, Steps
      <3>3. PICK g \in Garbage :
              \A u \in Thread : pc[u] = "u_store" => reg[u] <= g + executed
        BY DEF LagInv
      <3>4. g \in Int /\ executed \in Int /\ \A u \in Thread : reg[u] \in Int
        BY InvokeAssumption DEF TypeOK
      <3>5. num_ops' <= g + executed'
        BY <3>1, <3>3, <3>4
      <3>6. \A u \in Thread : pc'[u] = "u_store" => reg'[u] <= g + executed'
        BY <3>1, <3>2, <3>3, <3>4
      <3> QED
        BY <3>5, <3>6 DEF LagInv
    <2>3. CASE UpdateCheck(t) \/ StatsEnter(t) \/ StatsEnterStore(t) \/ StatsLeave(t)
               \/ StatsLeaveStore(t)
      <3>1. UNCHANGED statVars /\ \A u \in Thread : u # t => reg'[u] = reg[u]
        BY <2>3 DEF TypeOK, Load, UpdateCheck, StatsEnter, StatsEnterStore, StatsLeave, StatsLeaveStore
      <3>2. \E s \in Steps \ {"u_store"} : Go(t, s) \/ Broadcast(t, s)
        BY <2>3 DEF UpdateCheck, StatsEnter, StatsEnterStore, StatsLeave, StatsLeaveStore,
                    Steps, Updating
      <3> QED
        BY <3>1, <3>2, GoesElsewhere, LagKept
    <2> QED
      BY <1>5, <2>1, <2>2, <2>3 DEF Statistics
  <1>6. CASE Interrupt \/ Close \/ \E t \in Thread : UseDestroyed(t)
    BY <1>6, LagKept DEF Interrupt, Close, UseDestroyed, CloseUnchanged
  <1> QED
    BY <1>1, <1>2, <1>3, <1>4, <1>5, <1>6 DEF Next, Step

\* Whatever the mix of requests and the number of threads, num_ops never runs
\* ahead of the operations that update_stats() was called for.
THEOREM OperationsBounded == Spec => []NumOpsBounded
  <1>1. Init => LagInv
    <2> SUFFICES ASSUME Init PROVE LagInv
      OBVIOUS
    <2>1. num_ops \in Garbage /\ num_ops \in Int /\ executed = 0
      BY InvokeAssumption DEF Init
    <2>2. \A t \in Thread : pc[t] # "u_store"
      BY DEF Init
    <2> QED
      BY <2>1, <2>2 DEF LagInv
  <1>2. LagInv => NumOpsBounded
    BY DEF LagInv, NumOpsBounded
  <1>3. IndInv => TypeOK
    BY DEF IndInv
  <1> QED
    BY InitInd, StepInd, StepLags, <1>1, <1>2, <1>3, PTL DEF Spec

-----------------------------------------------------------------------------
(* Any number of clients that read and ask for statistics: the counters    *)
(* that no lock protects count who is inside, until two updates of one     *)
(* overlap.                                                                *)

Reading == {t \in Thread : InRead(t)}
Asking  == {t \in Thread : InStats(t)}

\* Between the load and the store of an update.
ReadUpdate == {"enter_store", "leave_store"}
StatUpdate == {"stats_enter_store", "stats_leave_store"}

\* Until an update of readers_count meets another, it is the number of readers,
\* at most one thread is in an update, and what that thread loaded still holds.
ReadersInv ==
  /\ IsFiniteSet(Reading)
  /\ "readers_count" \notin raced =>
       /\ readers_count = Cardinality(Reading)
       /\ \A t \in Thread : pc[t] \in ReadUpdate => reg[t] = readers_count
       /\ \A t, u \in Thread : pc[t] \in ReadUpdate /\ pc[u] \in ReadUpdate => t = u

\* The same of stats_readers, which unknown requests only take down.
StatsInv ==
  /\ IsFiniteSet(Asking)
  /\ "stats_readers" \notin raced =>
       /\ stats_readers <= Cardinality(Asking)
       /\ \A t \in Thread : pc[t] \in StatUpdate => reg[t] = stats_readers
       /\ \A t, u \in Thread : pc[t] \in StatUpdate /\ pc[u] \in StatUpdate => t = u

\* Only stats requests take stats_readers up.
AskInv == \A t \in Thread : pc[t] \in {"stats_enter", "stats_enter_store"} => msg[t].op = "stats"

\* writers_count is 1 only for a writer that will take it down.
WriterThere == writers_count = 1 => \E t \in Thread : InWrite(t)

CounterInv == ReadersInv /\ StatsInv /\ AskInv /\ WriterThere

\* What the steps that do not touch a counter keep.
ReadsKept ==
  /\ UNCHANGED readers_count /\ raced \subseteq raced'
  /\ \A u \in Thread :
       /\ InRead(u)' <=> InRead(u)
       /\ pc'[u] \in ReadUpdate => pc[u] \in ReadUpdate /\ reg'[u] = reg[u]
StatsKept ==
  /\ UNCHANGED stats_readers /\ raced \subseteq raced'
  /\ \A u \in Thread :
       /\ InStats(u)' <=> InStats(u)
       /\ pc'[u] \in StatUpdate => pc[u] \in StatUpdate /\ reg'[u] = reg[u]
WritesKept ==
  /\ UNCHANGED writers_count
  /\ \A u \in Thread : InWrite(u) => InWrite(u)'

Counts(t) == Enter(t) \/ EnterStore(t) \/ Leave(t) \/ LeaveStore(t)
StatCounts(t) == StatsEnter(t) \/ StatsEnterStore(t) \/ StatsLeave(t) \/ StatsLeaveStore(t)

LEMMA CounterFrame ==
  ASSUME IndInv, AskInv, [Next]_vars
  PROVE  /\ ReadsKept \/ \E t \in Thread : Counts(t)
         /\ StatsKept \/ \E t \in Thread : StatCounts(t)
         /\ WritesKept \/ \E t \in Thread : Claim(t) \/ Release(t)
         /\ AskInv'
  <1> DEFINE Kept == ReadsKept /\ StatsKept /\ WritesKept /\ AskInv'
  <1> USE InvokeAssumption
  <1> USE DEF IndInv, At, RoleInv, InWrite, InRead, InStats, Updating, ReadsKept, StatsKept,
              WritesKept, AskInv, ReadUpdate, StatUpdate
  <1> TypeOK
    OBVIOUS
  <1>1. CASE UNCHANGED vars
    BY <1>1 DEF vars, lockVars, localVars
  <1>2. ASSUME NEW t \in Thread, Receive(t) PROVE Kept
    <2>1. PICK m \in Requests[t] :
            msg' = [msg EXCEPT ![t] = m] /\ Go(t, FirstStep(m.op))
      BY <1>2 DEF Receive
    <2>2. m.op \in Op
      BY DEF Request
    <2>3. FirstStep(m.op) \in {"lock", "enter", "stats_enter", "stats_leave"}
      BY <2>2 DEF FirstStep, Op, Writes, Lookups, Copies
    <2>4. /\ FirstStep(m.op) = "stats_enter" => m.op = "stats"
          /\ FirstStep(m.op) = "stats_leave" => m.op # "stats"
      BY <2>2 DEF FirstStep, Op, Writes, Lookups, Copies
    <2>5. FirstStep(m.op) \in Steps
      BY <2>3 DEF Steps
    <2>6. /\ pc[t] = "receive" /\ pc'[t] = FirstStep(m.op) /\ msg'[t] = m
          /\ \A u \in Thread : u # t => pc'[u] = pc[u] /\ msg'[u] = msg[u]
      BY <1>2, <2>1, <2>5, GoEffect DEF TypeOK, Receive
    <2>7. UNCHANGED <<readers_count, stats_readers, writers_count, reg, raced>>
      BY <1>2 DEF Receive, lockVars
    <2> QED
      BY <2>3, <2>4, <2>6, <2>7
  <1>3. ASSUME NEW t \in Thread, Writer(t) \/ Spurious(t) \/ ForwardLost(t)
        PROVE  /\ ReadsKept /\ StatsKept /\ AskInv'
               /\ WritesKept \/ Claim(t) \/ Release(t)
    <2> USE DEF WriterUnchanged, lockVars, localVars
    <2>1. CASE Lock(t)
      BY <2>1, GoEffect DEF Lock, Steps
    <2>2. CASE Check(t)
      BY <2>2, GoEffect DEF Check, Steps
    <2>3. CASE CondWait(t)
      BY <2>3, GoEffect DEF CondWait, Steps
    <2>4. CASE Claim(t)
      BY <2>4, GoEffect DEF Claim, Steps
    <2>5. CASE Apply(t)
      BY <2>5, GoEffect DEF Apply, Steps
    <2>6. CASE Forward(t)
      BY <2>6, GoEffect DEF Forward, Steps
    <2>7. CASE Relock(t)
      BY <2>7, GoEffect DEF Relock, Steps
    <2>8. CASE Release(t)
      BY <2>8, BroadcastEffect DEF Release, Steps
    <2>9. CASE Spurious(t)
      BY <2>9, GoEffect DEF Spurious, Steps
    <2>10. CASE ForwardLost(t)
      BY <2>10 DEF ForwardLost
    <2> QED
      BY <1>3, <2>1, <2>2, <2>3, <2>4, <2>5, <2>6, <2>7, <2>8, <2>9, <2>10
         DEF Writer
  <1>4. ASSUME NEW t \in Thread, Reader(t)
        PROVE  (ReadsKept \/ Counts(t)) /\ StatsKept /\ WritesKept /\ AskInv'
    <2> USE DEF ReaderUnchanged, lockVars, localVars
    <2>1. CASE Enter(t)
      BY <2>1, GoEffect DEF Enter, Load, Counts, Steps
    <2>2. CASE EnterStore(t)
      BY <2>2, GoEffect DEF EnterStore, Counts, Steps
    <2>3. CASE Read(t)
      BY <2>3, GoEffect DEF Read, Steps
    <2>4. CASE ListKeys(t)
      BY <2>4, GoEffect DEF ListKeys, Steps
    <2>5. CASE Alloc(t)
      BY <2>5, GoEffect DEF Alloc, Steps
    <2>6. CASE CopyNext(t)
      BY <2>6 DEF CopyNext
    <2>7. CASE CopyCrash(t)
      BY <2>7 DEF CopyCrash
    <2>8. CASE ReadCrash(t)
      BY <2>8 DEF ReadCrash
    <2>9. CASE CopyDone(t)
      BY <2>9, GoEffect DEF CopyDone, Steps
    <2>10. CASE Count(t)
      BY <2>10, GoEffect DEF Count, Steps
    <2>11. CASE Leave(t)
      BY <2>11, GoEffect DEF Leave, Load, Counts, Steps
    <2>12. CASE LeaveStore(t)
      BY <2>12, GoEffect DEF LeaveStore, Counts, Steps
    <2>13. CASE Signal(t)
      BY <2>13, BroadcastEffect DEF Signal, Steps
    <2> QED
      BY <1>4, <2>1, <2>2, <2>3, <2>4, <2>5, <2>6, <2>7, <2>8, <2>9, <2>10, <2>11, <2>12, <2>13
         DEF Reader
  <1>5. ASSUME NEW t \in Thread, Statistics(t)
        PROVE  ReadsKept /\ WritesKept /\ AskInv' /\ (StatsKept \/ StatCounts(t))
    <2> USE DEF StatUnchanged, lockVars, localVars
    <2>1. CASE UpdateCheck(t)
      BY <2>1, GoEffect DEF UpdateCheck, Steps
    <2>2. CASE UpdateLoad(t)
      BY <2>2, GoEffect DEF UpdateLoad, Steps
    <2>3. CASE UpdateStore(t)
      BY <2>3, GoEffect DEF UpdateStore, Steps
    <2>4. CASE StatsEnter(t)
      BY <2>4, GoEffect DEF StatsEnter, Load, StatCounts, Steps
    <2>5. CASE StatsEnterStore(t)
      BY <2>5, GoEffect DEF StatsEnterStore, StatCounts, Steps
    <2>6. CASE StatsLeave(t)
      BY <2>6, GoEffect DEF StatsLeave, Load, StatCounts, Steps
    <2>7. CASE StatsLeaveStore(t)
      BY <2>7, GoEffect DEF StatsLeaveStore, StatCounts, Steps
    <2> QED
      BY <1>5, <2>1, <2>2, <2>3, <2>4, <2>5, <2>6, <2>7 DEF Statistics
  <1>6. CASE Interrupt \/ Close \/ \E t \in Thread : UseDestroyed(t)
    BY <1>6 DEF Interrupt, Close, UseDestroyed, CloseUnchanged, lockVars, localVars
  <1> HIDE DEF ReadsKept, StatsKept, WritesKept, AskInv
  <1> QED
    BY <1>1, <1>2, <1>3, <1>4, <1>5, <1>6 DEF Next, Step

LEMMA StepReaders ==
  ASSUME IndInv, ReadersInv, AskInv, [Next]_vars
  PROVE  ReadersInv'
  <1> TypeOK
    BY DEF IndInv
  <1> USE DEF At, ReadUpdate
  <1>0. Cardinality(Reading) \in Nat
    BY FS_CardinalityType DEF ReadersInv
  <1>1. CASE ReadsKept
    <2>1. Reading' = Reading
      BY <1>1 DEF ReadsKept, Reading
    <2> QED
      BY <1>1, <2>1 DEF ReadsKept, ReadersInv
  <1>2. ASSUME NEW t \in Thread, Enter(t) \/ Leave(t) PROVE ReadersInv'
    <2>1. /\ readers_count' = readers_count /\ reg'[t] = readers_count
          /\ \A u \in Thread : u # t => pc'[u] = pc[u]
          /\ pc[t] \in {"enter", "leave"} /\ msg' = msg
          /\ pc'[t] = IF pc[t] = "enter" THEN "enter_store" ELSE "leave_store"
      BY <1>2, GoEffect DEF Enter, Leave, Load, ReaderUnchanged, localVars, Steps, TypeOK
    <2>2. Reading' = Reading
      BY <2>1 DEF Reading, InRead, Updating
    <2>3. "readers_count" \notin raced' =>
            "readers_count" \notin raced /\ \A u \in Thread : pc[u] \notin ReadUpdate
      BY <1>2 DEF Enter, Leave, Load
    <2> QED
      BY <2>1, <2>2, <2>3 DEF ReadersInv
  <1>3. ASSUME NEW t \in Thread, EnterStore(t) \/ LeaveStore(t) PROVE ReadersInv'
    <2>1. /\ pc[t] \in ReadUpdate /\ UNCHANGED <<reg, raced, msg>>
          /\ readers_count' = IF pc[t] = "enter_store" THEN reg[t] + 1 ELSE reg[t] - 1
          /\ \A u \in Thread : u # t => pc'[u] = pc[u]
          /\ IF pc[t] = "enter_store" THEN pc'[t] \in {"read", "keys", "alloc"}
                                      ELSE pc'[t] \in {"receive", "signal"}
      BY <1>3, GoEffect DEF EnterStore, LeaveStore, ReaderUnchanged, localVars, Steps
    <2>2. "readers_count" \notin raced => \A u \in Thread : pc'[u] \notin ReadUpdate
      BY <2>1 DEF ReadersInv
    <2>3. CASE pc[t] = "enter_store"
      <3>1. t \notin Reading /\ Reading' = Reading \cup {t}
        BY <2>1, <2>3 DEF Reading, InRead, Updating
      <3>2. IsFiniteSet(Reading') /\ Cardinality(Reading') = Cardinality(Reading) + 1
        BY <3>1, FS_AddElement DEF ReadersInv
      <3> QED
        BY <2>1, <2>2, <2>3, <3>2 DEF ReadersInv
    <2>4. CASE pc[t] = "leave_store"
      <3>1. t \in Reading /\ Reading' = Reading \ {t}
        BY <2>1, <2>4 DEF Reading, InRead, Updating
      <3>2. IsFiniteSet(Reading') /\ Cardinality(Reading') = Cardinality(Reading) - 1
        BY <3>1, FS_RemoveElement DEF ReadersInv
      <3> QED
        BY <2>1, <2>2, <2>4, <3>2 DEF ReadersInv
    <2> QED
      BY <2>1, <2>3, <2>4
  <1> QED
    BY <1>1, <1>2, <1>3, CounterFrame DEF Counts

LEMMA StepStats ==
  ASSUME IndInv, StatsInv, AskInv, [Next]_vars
  PROVE  StatsInv'
  <1> TypeOK
    BY DEF IndInv
  <1> USE DEF At, StatUpdate
  <1>0. Cardinality(Asking) \in Nat
    BY FS_CardinalityType DEF StatsInv
  <1>1. CASE StatsKept
    <2>1. Asking' = Asking
      BY <1>1 DEF StatsKept, Asking
    <2> QED
      BY <1>1, <2>1 DEF StatsKept, StatsInv
  <1>2. ASSUME NEW t \in Thread, StatsEnter(t) \/ StatsLeave(t) PROVE StatsInv'
    <2>1. /\ stats_readers' = stats_readers /\ reg'[t] = stats_readers
          /\ \A u \in Thread : u # t => pc'[u] = pc[u]
          /\ pc[t] \in {"stats_enter", "stats_leave"} /\ msg' = msg
          /\ pc'[t] = IF pc[t] = "stats_enter" THEN "stats_enter_store" ELSE "stats_leave_store"
      BY <1>2, GoEffect DEF StatsEnter, StatsLeave, Load, StatUnchanged, localVars, Steps, TypeOK
    <2>2. Asking' = Asking
      BY <2>1 DEF Asking, InStats
    <2>3. "stats_readers" \notin raced' =>
            "stats_readers" \notin raced /\ \A u \in Thread : pc[u] \notin StatUpdate
      BY <1>2 DEF StatsEnter, StatsLeave, Load
    <2> QED
      BY <2>1, <2>2, <2>3 DEF StatsInv
  <1>3. ASSUME NEW t \in Thread, StatsEnterStore(t) \/ StatsLeaveStore(t) PROVE StatsInv'
    <2>1. /\ pc[t] \in StatUpdate /\ UNCHANGED <<reg, raced, msg>>
          /\ stats_readers' = IF pc[t] = "stats_enter_store" THEN reg[t] + 1 ELSE reg[t] - 1
          /\ \A u \in Thread : u # t => pc'[u] = pc[u]
          /\ pc'[t] = IF pc[t] = "stats_enter_store" THEN "stats_leave" ELSE "receive"
      BY <1>3, GoEffect DEF StatsEnterStore, StatsLeaveStore, StatUnchanged, localVars, Steps
    <2>2. "stats_readers" \notin raced => \A u \in Thread : pc'[u] \notin StatUpdate
      BY <2>1 DEF StatsInv
    <2>3. "stats_readers" \notin raced => reg[t] <= Cardinality(Asking) /\ reg[t] \in Int
      BY <2>1 DEF StatsInv, TypeOK
    <2>4. CASE pc[t] = "stats_enter_store"
      <3>1. t \notin Asking /\ Asking' = Asking \cup {t}
        BY <2>1, <2>4 DEF Asking, InStats, AskInv
      <3>2. IsFiniteSet(Asking') /\ Cardinality(Asking') = Cardinality(Asking) + 1
        BY <3>1, FS_AddElement DEF StatsInv
      <3> QED
        BY <1>0, <2>1, <2>2, <2>3, <2>4, <3>2 DEF StatsInv
    <2>5. CASE pc[t] = "stats_leave_store" /\ msg[t].op = "stats"
      <3>1. t \in Asking /\ Asking' = Asking \ {t}
        BY <2>1, <2>5 DEF Asking, InStats
      <3>2. IsFiniteSet(Asking') /\ Cardinality(Asking') = Cardinality(Asking) - 1
        BY <3>1, FS_RemoveElement DEF StatsInv
      <3> QED
        BY <1>0, <2>1, <2>2, <2>3, <2>5, <3>2 DEF StatsInv
    <2>6. CASE pc[t] = "stats_leave_store" /\ msg[t].op # "stats"
      <3>1. Asking' = Asking
        BY <2>1, <2>6 DEF Asking, InStats
      <3> QED
        BY <1>0, <2>1, <2>2, <2>3, <2>6, <3>1 DEF StatsInv
    <2> QED
      BY <2>1, <2>4, <2>5, <2>6
  <1> QED
    BY <1>1, <1>2, <1>3, CounterFrame DEF StatCounts

LEMMA StepWriterThere ==
  ASSUME IndInv, WriterThere, AskInv, [Next]_vars
  PROVE  WriterThere'
  <1> TypeOK
    BY DEF IndInv
  <1>1. CASE WritesKept
    BY <1>1 DEF WritesKept, WriterThere
  <1>2. ASSUME NEW t \in Thread, Claim(t) PROVE WriterThere'
    <2>1. pc'[t] = "apply"
      BY <1>2, GoEffect DEF Claim, Steps
    <2> QED
      BY <2>1 DEF WriterThere, InWrite
  <1>3. ASSUME NEW t \in Thread, Release(t) PROVE WriterThere'
    <2>1. writers_count' = 0
      BY <1>3 DEF Release, At, IndInv, SectionInv, InWrite
    <2> QED
      BY <2>1 DEF WriterThere
  <1> QED
    BY <1>1, <1>2, <1>3, CounterFrame

LEMMA InitCounter == Init => CounterInv
  <1> SUFFICES ASSUME Init PROVE CounterInv
    OBVIOUS
  <1>1. Reading = {} /\ Asking = {}
    BY DEF Init, Reading, Asking, InRead, InStats, Updating
  <1>2. ReadersInv /\ StatsInv
    BY <1>1, FS_EmptySet DEF Init, ReadersInv, StatsInv, ReadUpdate, StatUpdate
  <1> QED
    BY <1>2 DEF Init, CounterInv, AskInv, WriterThere

LEMMA CountersHold == Spec => [](IndInv /\ CounterInv)
  <1>1. IndInv /\ CounterInv /\ [Next]_vars => CounterInv'
    BY StepReaders, StepStats, StepWriterThere, CounterFrame DEF CounterInv
  <1> QED
    BY InitInd, StepInd, InitCounter, <1>1, PTL DEF Spec

\* A writer is let through by its check only.
LEMMA ClaimedByCheck ==
  ASSUME TypeOK, [Next]_vars, NEW w \in Thread, pc[w] = "check", pc'[w] = "claim"
  PROVE  Check(w)
  <1> USE InvokeAssumption DEF At
  <1> DEFINE Elsewhere == \E t \in Thread : \E s \in Steps \ {"claim"} : Go(t, s) \/ Broadcast(t, s)
  <1>1. ~Elsewhere
    <2> SUFFICES ASSUME NEW t \in Thread, NEW s \in Steps \ {"claim"}, Go(t, s) \/ Broadcast(t, s)
                 PROVE  pc'[w] # "claim"
      OBVIOUS
    <2>1. CASE Go(t, s)
      BY <2>1, GoEffect
    <2>2. CASE Broadcast(t, s)
      BY <2>2, BroadcastEffect
    <2> QED
      BY <2>1, <2>2
  <1>2. pc' # pc
    OBVIOUS
  <1>3. ASSUME NEW t \in Thread, Receive(t) PROVE FALSE
    <2>1. PICK m \in Requests[t] : Go(t, FirstStep(m.op))
      BY <1>3 DEF Receive
    <2>2. FirstStep(m.op) \in Steps \ {"claim"}
      BY DEF FirstStep, Op, Writes, Lookups, Copies, Request, Steps
    <2> QED
      BY <1>1, <2>1, <2>2
  <1>4. ASSUME NEW t \in Thread, Writer(t) \/ Spurious(t) \/ ForwardLost(t) PROVE Check(w)
    <2>1. CASE Check(t)
      <3>1. t = w
        <4> SUFFICES ASSUME t # w PROVE FALSE
          OBVIOUS
        <4>1. PICK s \in Steps : Go(t, s)
          BY <2>1 DEF Check, Steps
        <4> QED
          BY <4>1, GoEffect
      <3> QED
        BY <2>1, <3>1
    <2>2. ASSUME ~Check(t) PROVE Elsewhere \/ pc' = pc
      BY <1>4, <2>2 DEF Writer, Spurious, ForwardLost, Lock, CondWait, Claim, Apply, Forward,
                  Relock, Release, WriterUnchanged, Steps, Updating
    <2> QED
      BY <2>1, <2>2, <1>1, <1>2
  <1>5. ASSUME NEW t \in Thread, Reader(t) PROVE FALSE
    <2>1. Elsewhere \/ pc' = pc
      BY <1>5 DEF Reader, Enter, EnterStore, Read, ListKeys, Alloc, CopyNext, CopyCrash,
                  ReadCrash, CopyDone, Count, Leave, LeaveStore, Signal, Steps, Updating
    <2> QED
      BY <2>1, <1>1, <1>2
  <1>6. ASSUME NEW t \in Thread, Statistics(t) PROVE FALSE
    <2>1. Elsewhere
      BY <1>6 DEF Statistics, UpdateCheck, UpdateLoad, UpdateStore, StatsEnter, StatsEnterStore,
                  StatsLeave, StatsLeaveStore, Steps, Updating
    <2> QED
      BY <2>1, <1>1
  <1>7. ~(Interrupt \/ Close \/ \E t \in Thread : UseDestroyed(t)) /\ ~UNCHANGED vars
    BY <1>2 DEF Interrupt, Close, UseDestroyed, CloseUnchanged, vars
  <1> HIDE DEF Elsewhere
  <1> QED
    BY <1>3, <1>4, <1>5, <1>6, <1>7 DEF Next, Step

\* However many clients read and whatever else they and the others send, no
\* writer is admitted while a reader is in its section, although readers_count is
\* taken up and down without lock_data, before two updates of it overlap.
THEOREM WriterSeesReader == Spec => AdmissionSeesReader
  <1>1. ASSUME IndInv, CounterInv, [Next]_vars, "readers_count" \notin raced,
               NEW w \in Thread, NEW r \in Thread, pc[w] = "check" /\ pc'[w] = "claim"
        PROVE  ~InRead(r)
    <2>1. Check(w)
      BY <1>1, ClaimedByCheck DEF IndInv
    <2>2. ~(readers_count > 0)
      BY <2>1, <1>1, GoEffect DEF Check, IndInv, Steps
    <2>3. /\ IsFiniteSet(Reading) /\ readers_count = Cardinality(Reading)
          /\ Cardinality(Reading) \in Nat
      BY <1>1, FS_CardinalityType DEF CounterInv, ReadersInv
    <2>4. Reading = {}
      BY <2>2, <2>3, FS_EmptySet
    <2> QED
      BY <2>4 DEF Reading
  <1>2. IndInv /\ CounterInv /\ [Next]_vars =>
          [\A w, r \in Thread :
             pc[w] = "check" /\ pc'[w] = "claim" /\ InRead(r) => "readers_count" \in raced]_vars
    BY <1>1
  <1>3. Spec => [](IndInv /\ CounterInv)
    BY CountersHold, PTL
  <1>4. Spec => [][Next]_vars
    BY PTL DEF Spec
  <1> QED
    BY <1>2, <1>3, <1>4, PTL DEF AdmissionSeesReader

\* However many clients read or ask for statistics, when no request is being
\* served no counter keeps writers, readers or update_stats() out for good,
\* before two updates of that counter overlap.
THEOREM CountersSettle == Spec => []QuiescentCounters
  <1>1. IndInv /\ CounterInv => QuiescentCounters
    <2> SUFFICES ASSUME IndInv, CounterInv, \A t \in Thread : pc[t] = "receive"
                 PROVE  /\ readers_count = 0 \/ "readers_count" \in raced
                        /\ writers_count = 0
                        /\ stats_readers <= 0 \/ "stats_readers" \in raced
      BY DEF QuiescentCounters
    <2>1. Reading = {} /\ Asking = {}
      BY DEF Reading, Asking, InRead, InStats, Updating
    <2>2. readers_count = 0 \/ "readers_count" \in raced
      BY <2>1, FS_EmptySet DEF CounterInv, ReadersInv
    <2>3. writers_count = 0
      BY DEF CounterInv, WriterThere, IndInv, SectionInv, InWrite, Updating
    <2>4. stats_readers <= 0 \/ "stats_readers" \in raced
      BY <2>1, FS_EmptySet DEF CounterInv, StatsInv
    <2> QED
      BY <2>2, <2>3, <2>4
  <1> QED
    BY CountersHold, <1>1, PTL

=============================================================================
