-------------------------- MODULE ThreadPool_proof --------------------------
(***************************************************************************)
(* Proofs about ThreadPool, for any number of slots, workers and           *)
(* descriptors.                                                            *)
(***************************************************************************)
EXTENDS ThreadPoolRefinement, FiniteSetTheorems, SequenceTheorems, TLAPS

\* Succ stays inside the ring.
LEMMA SuccSlot ==
    ASSUME NEW i \in Slot
    PROVE  Succ(i) \in Slot
BY PoolAssumption DEF Slot, Succ

\* Filling slot rear and moving rear on adds slot rear to the occupied ones,
\* which it did not belong to, or leaves none occupied.
LEMMA PushOccupies ==
    ASSUME TypeOK, rear' = Succ(rear), front' = front,
           NEW i \in Slot, Occupied(i)'
    PROVE  /\ Occupied(i) \/ i = rear
           /\ ~Occupied(rear)
BY PoolAssumption DEF TypeOK, Slot, Succ, Occupied

\* Moving front on over an occupied ring takes slot front, and no other, away.
LEMMA PopVacates ==
    ASSUME TypeOK, front' = Succ(front), rear' = rear, front # rear,
           NEW i \in Slot, Occupied(i)'
    PROVE  Occupied(i) /\ i # front
BY PoolAssumption DEF TypeOK, Slot, Succ, Occupied

\* A slot that pop is about to read is occupied.
LEMMA FrontOccupied ==
    ASSUME TypeOK, front # rear
    PROVE  Occupied(front)
BY PoolAssumption DEF TypeOK, Slot, Occupied

-----------------------------------------------------------------------------
(* Type correctness *)

\* The labels of main and of the workers share no member, so a step of one
\* never looks like a step of the other.
LEMMA TypeInit == Init => TypeOK
BY PoolAssumption
   DEF Init, TypeOK, Slot, Thread, MainLabel, WorkerLabel, PushLabel, PopLabel,
       EndLabel, EchoLabel

\* Every step keeps the types.
LEMMA TypeStep == TypeOK /\ [Next]_vars => TypeOK'
<1> SUFFICES ASSUME TypeOK, [Next]_vars
             PROVE  TypeOK'
    OBVIOUS
<1> USE PoolAssumption
    DEF TypeOK, Thread, MainLabel, WorkerLabel, PushLabel, PopLabel, EndLabel,
        EchoLabel, Goto, ring
<1>1. CASE SigInt
      BY <1>1 DEF SigInt
<1>2. CASE MainStep
  <2>1. CASE MainTest \/ AcceptFail \/ InterruptAccept \/ PushLock \/ PushUnlock
        BY <2>1 DEF MainTest, AcceptFail, InterruptAccept, PushLock, PushUnlock
  <2>2. ASSUME NEW f \in Fd, Accept(f)
        PROVE  TypeOK'
        BY <2>2 DEF Accept
  <2>3. CASE PushStore
        BY <2>3 DEF PushStore
  <2>4. CASE PushAdvance
        BY <2>4, SuccSlot DEF PushAdvance
  <2>5. CASE PushSignal
        BY <2>5 DEF PushSignal
  <2>6. QED
        BY <1>2, <2>1, <2>2, <2>3, <2>4, <2>5 DEF MainStep
<1>3. ASSUME NEW w \in Worker, Pop(w)
      PROVE  TypeOK'
  <2>1. CASE RunTest(w) \/ PopLock(w) \/ PopWait(w) \/ PopReady(w) \/ PopUnlock(w)
        BY <2>1 DEF RunTest, PopLock, PopWait, PopReady, PopUnlock
  <2>2. CASE PopTake(w)
        BY <2>2 DEF PopTake
  <2>3. CASE PopAdvance(w)
        BY <2>3, SuccSlot DEF PopAdvance
  <2>4. QED
        BY <1>3, <2>1, <2>2, <2>3 DEF Pop
<1>4. ASSUME NEW w \in Worker, Echo(w)
      PROVE  TypeOK'
  <2>1. CASE EchoEnter(w) \/ EchoLeave(w) \/ RecvData(w) \/ SendDone(w)
        BY <2>1 DEF EchoEnter, EchoLeave, RecvData, SendDone
  <2>2. CASE RecvEnd(w) \/ SendFail(w)
        BY <2>2 DEF RecvEnd, SendFail, Close
  <2>3. CASE SendSigPipe(w) \/ InterruptEcho(w)
        BY <2>3 DEF SendSigPipe, InterruptEcho
  <2>4. QED
        BY <1>4, <2>1, <2>2, <2>3 DEF Echo
<1>5. ASSUME NEW w \in Worker, SpuriousWakeup(w)
      PROVE  TypeOK'
      BY <1>5 DEF SpuriousWakeup
<1>6. CASE Terminated \/ UNCHANGED vars
      BY <1>6 DEF Terminated, vars
<1>7. QED
      BY <1>1, <1>2, <1>3, <1>4, <1>5, <1>6 DEF Next

\* In every reachable state each variable has the type the model declares:
\* the ring indices in particular stay inside the array calloc allocated.
THEOREM TypeCorrect == Spec => []TypeOK
BY TypeInit, TypeStep, PTL DEF Spec

-----------------------------------------------------------------------------
(* The inductive invariant *)

\* Initially nothing is held, queued or locked and nobody sleeps.
LEMMA InvInit == Init => IInv
<1> SUFFICES ASSUME Init PROVE IInv
    OBVIOUS
<1> USE PoolAssumption DEF Init
<1>1. TypeOK
      BY TypeInit
<1>2. LockInv
      BY DEF LockInv, PushLabel, PopLabel, Thread
<1>3. MainHolds /\ \A w \in Worker : WorkerHolds(w)
      BY DEF MainHolds, WorkerHolds, EchoLabel, Thread
<1>4. ExclusiveService
  <2>1. \A i \in Slot : ~Occupied(i)
        BY DEF Occupied, Slot
  <2>2. QED
        BY <2>1 DEF ExclusiveService, Queued
<1>5. NoSleepOnWork /\ NoLostWakeup
      BY DEF NoSleepOnWork, NoLostWakeup, Thread
<1>6. QED
      BY <1>1, <1>2, <1>3, <1>4, <1>5 DEF IInv

\* Mutual exclusion inside push and pop.  A thread enters with the mutex free,
\* when nobody is inside, and leaves owning it.
LEMMA LockStep == TypeOK /\ LockInv /\ Next => LockInv'
<1> SUFFICES ASSUME TypeOK, LockInv, Next
             PROVE  LockInv'
    OBVIOUS
<1> USE PoolAssumption
    DEF TypeOK, LockInv, Thread, PushLabel, PopLabel, EndLabel, EchoLabel, Goto
<1>1. CASE SigInt \/ Terminated
      BY <1>1 DEF SigInt, Terminated, vars
<1>2. CASE MainStep
  <2>1. CASE MainTest \/ AcceptFail \/ InterruptAccept \/ PushLock \/ PushUnlock
        BY <2>1 DEF MainTest, AcceptFail, InterruptAccept, PushLock, PushUnlock
  <2>2. CASE (\E f \in Fd : Accept(f)) \/ PushStore \/ PushAdvance
        BY <2>2 DEF Accept, PushStore, PushAdvance
  <2>3. CASE PushSignal
        BY <2>3 DEF PushSignal
  <2>4. QED
        BY <1>2, <2>1, <2>2, <2>3 DEF MainStep
<1>3. ASSUME NEW w \in Worker, Pop(w)
      PROVE  LockInv'
  <2>1. CASE RunTest(w) \/ PopReady(w) \/ PopTake(w) \/ PopAdvance(w)
        BY <2>1 DEF RunTest, PopReady, PopTake, PopAdvance
  <2>2. CASE PopLock(w) \/ PopWait(w) \/ PopUnlock(w)
        BY <2>2 DEF PopLock, PopWait, PopUnlock
  <2>3. QED
        BY <1>3, <2>1, <2>2 DEF Pop
<1>4. ASSUME NEW w \in Worker, Echo(w) \/ SpuriousWakeup(w)
      PROVE  LockInv'
      BY <1>4 DEF Echo, EchoEnter, EchoLeave, RecvData, RecvEnd, SendFail, SendDone,
             Close, SendSigPipe, InterruptEcho, SpuriousWakeup
<1>5. QED
      BY <1>1, <1>2, <1>3, <1>4 DEF Next

\* What main holds follows from its place, and a pop disturbs neither the slot
\* main has written nor rear.
LEMMA MainHoldsStep == TypeOK /\ LockInv /\ MainHolds /\ Next => MainHolds'
<1> SUFFICES ASSUME TypeOK, LockInv, MainHolds, Next
             PROVE  MainHolds'
    OBVIOUS
<1> USE PoolAssumption
    DEF TypeOK, MainHolds, Thread, EndLabel, Goto, ring
<1>1. CASE SigInt \/ Terminated
      BY <1>1 DEF SigInt, Terminated, vars
<1>2. CASE MainStep
  <2>1. CASE MainTest \/ AcceptFail \/ InterruptAccept \/ PushLock \/ PushUnlock
        BY <2>1 DEF MainTest, AcceptFail, InterruptAccept, PushLock, PushUnlock
  <2>2. CASE (\E f \in Fd : Accept(f)) \/ PushStore \/ PushAdvance
        BY <2>2 DEF Accept, PushStore, PushAdvance
  <2>3. CASE PushSignal
        BY <2>3 DEF PushSignal
  <2>4. QED
        BY <1>2, <2>1, <2>2, <2>3 DEF MainStep
<1>3. ASSUME NEW w \in Worker, Pop(w)
      PROVE  MainHolds'
      BY <1>3 DEF Pop, RunTest, PopReady, PopTake, PopAdvance, PopLock, PopWait, PopUnlock
<1>4. ASSUME NEW w \in Worker, Echo(w) \/ SpuriousWakeup(w)
      PROVE  MainHolds'
      BY <1>4 DEF Echo, EchoEnter, EchoLeave, RecvData, RecvEnd, SendFail, SendDone,
             Close, SendSigPipe, InterruptEcho, SpuriousWakeup
<1>5. QED
      BY <1>1, <1>2, <1>3, <1>4 DEF Next

\* What a worker holds follows from its place.  Between the test and the end of
\* its pop no push moves rear and no other pop moves front: they would need
\* the mutex.
LEMMA WorkerHoldsStep ==
    ASSUME TypeOK, LockInv, Next, NEW v \in Worker, WorkerHolds(v), ExclusiveService
    PROVE  WorkerHolds(v)'
<1> USE PoolAssumption
    DEF TypeOK, LockInv, WorkerHolds, Thread, EndLabel, EchoLabel, PopLabel, PushLabel,
        WorkerLabel, Goto, ring
<1>1. CASE SigInt \/ Terminated
      BY <1>1 DEF SigInt, Terminated, vars
<1>2. CASE MainStep
  <2>1. CASE MainTest \/ AcceptFail \/ InterruptAccept \/ PushLock \/ PushUnlock
        BY <2>1 DEF MainTest, AcceptFail, InterruptAccept, PushLock, PushUnlock
  <2>2. CASE (\E f \in Fd : Accept(f)) \/ PushStore \/ PushAdvance
        BY <2>2 DEF Accept, PushStore, PushAdvance
  <2>3. CASE PushSignal
        BY <2>3 DEF PushSignal
  <2>4. QED
        BY <1>2, <2>1, <2>2, <2>3 DEF MainStep
<1>3. ASSUME NEW w \in Worker, Pop(w)
      PROVE  WorkerHolds(v)'
  <2>1. CASE RunTest(w) \/ PopLock(w) \/ PopWait(w) \/ PopReady(w) \/ PopUnlock(w)
        BY <2>1 DEF RunTest, PopLock, PopWait, PopReady, PopUnlock
  <2>2. CASE PopTake(w)
        BY <2>2 DEF PopTake
  <2>3. CASE PopAdvance(w)
    <3>1. v = w => fd[front] # NoFd
          BY <2>3, FrontOccupied DEF PopAdvance, ExclusiveService, Queued
    <3>2. QED
          BY <2>3, <3>1 DEF PopAdvance
  <2>4. QED
        BY <1>3, <2>1, <2>2, <2>3 DEF Pop
<1>4. ASSUME NEW w \in Worker, Echo(w) \/ SpuriousWakeup(w)
      PROVE  WorkerHolds(v)'
      BY <1>4 DEF Echo, EchoEnter, EchoLeave, RecvData, RecvEnd, SendFail, SendDone,
             Close, SendSigPipe, InterruptEcho, SpuriousWakeup
<1>5. QED
      BY <1>1, <1>2, <1>3, <1>4 DEF Next

\* One owner for each connection.  Only six kinds of step move a connection:
\* accept, the two halves of a push, the two halves of a pop and the end of
\* echo_loop; every other step leaves held, open and the ring alone.
LEMMA ExclusiveStep ==
    ASSUME TypeOK, LockInv, MainHolds, \A w \in Worker : WorkerHolds(w),
           ExclusiveService, Next
    PROVE  ExclusiveService'
<1> USE PoolAssumption
    DEF TypeOK, ExclusiveService, Queued, Thread, EndLabel, Goto, ring
<1>1. ASSUME UNCHANGED <<ring, held, open>>,
             \A t \in Thread : pc[t] = "pop_advance" => pc'[t] = "pop_advance"
      PROVE  ExclusiveService'
      BY <1>1 DEF Occupied
<1>2. CASE SigInt \/ Terminated
      BY <1>1, <1>2 DEF SigInt, Terminated, vars
<1>3. CASE MainStep
  <2>1. CASE MainTest \/ AcceptFail \/ InterruptAccept \/ PushLock \/ PushUnlock
        BY <1>1, <2>1, Zenon
           DEF MainTest, AcceptFail, InterruptAccept, PushLock, PushUnlock, MainLabel,
               PushLabel
  <2>2. CASE PushSignal
        BY <1>1, <2>2 DEF PushSignal
  <2>3. ASSUME NEW f \in Fd, Accept(f)
        PROVE  ExclusiveService'
        BY <2>3 DEF Accept, Occupied
  <2>4. CASE PushStore
    <3>1. ~Occupied(rear)
          BY DEF Occupied, Slot
    <3>2. \A i \in Slot : Occupied(i)' => Occupied(i) /\ fd'[i] = fd[i]
          BY <2>4, <3>1 DEF PushStore, Occupied
    <3>3. Queued' \subseteq Queued
          BY <3>2
    <3>4. UNCHANGED <<held, open, front>>
          BY <2>4 DEF PushStore
    <3>5. \A t \in Thread : pc[t] = "pop_advance" => pc'[t] = "pop_advance"
          BY <2>4 DEF PushStore
    <3>6. QED
          BY <3>2, <3>3, <3>4, <3>5
  <2>5. CASE PushAdvance
    <3>1. /\ fd[rear] = held[Main]
          /\ held[Main] # NoFd
          BY <2>5 DEF PushAdvance, MainHolds
    <3>2. \A i \in Slot : Occupied(i)' => (Occupied(i) \/ i = rear) /\ ~Occupied(rear)
          BY <2>5, PushOccupies DEF PushAdvance
    <3>3. \A i \in Slot : Occupied(i) => fd[i] # held[Main]
          BY <2>5 DEF PushAdvance
    <3>4. Queued' \subseteq Queued \cup {held[Main]}
          BY <2>5, <3>1, <3>2 DEF PushAdvance
    <3>5. \A t \in Thread : held'[t] = (IF t = Main THEN NoFd ELSE held[t])
          BY <2>5 DEF PushAdvance
    <3>6. UNCHANGED <<fd, front, open>>
          BY <2>5 DEF PushAdvance
    <3>7. \A t \in Thread : pc[t] = "pop_advance" => pc'[t] = "pop_advance"
          BY <2>5 DEF PushAdvance
    <3>8. \A i, j \in Slot : Occupied(i)' /\ Occupied(j)' /\ fd'[i] = fd'[j] => i = j
          BY <3>1, <3>2, <3>3, <3>6
    <3>9. \A t \in Thread, i \in Slot :
             Occupied(i)' /\ held'[t] = fd'[i] => pc'[t] = "pop_advance" /\ i = front'
          BY <3>1, <3>2, <3>5, <3>6, <3>7
    <3>10. QED
          BY <3>1, <3>4, <3>5, <3>6, <3>8, <3>9
  <2>6. QED
        BY <1>3, <2>1, <2>2, <2>3, <2>4, <2>5 DEF MainStep
<1>4. ASSUME NEW w \in Worker, Pop(w)
      PROVE  ExclusiveService'
  <2>1. CASE RunTest(w) \/ PopLock(w) \/ PopWait(w) \/ PopReady(w) \/ PopUnlock(w)
        BY <1>1, <2>1 DEF RunTest, PopLock, PopWait, PopReady, PopUnlock
  <2>2. CASE PopTake(w)
    <3>1. Occupied(front)
          BY <2>2, FrontOccupied DEF PopTake, WorkerHolds
    <3>2. \A t \in Thread : held[t] # fd[front]
          BY <2>2, <3>1 DEF PopTake, LockInv, PopLabel, PushLabel
    <3>3. UNCHANGED <<ring, open>> /\ \A i \in Slot : Occupied(i)' <=> Occupied(i)
          BY <2>2 DEF PopTake, Occupied
    <3>4. \A t \in Thread : held'[t] = (IF t = w THEN fd[front] ELSE held[t])
          BY <2>2 DEF PopTake
    <3>5. /\ pc'[w] = "pop_advance"
          /\ \A t \in Thread : pc[t] = "pop_advance" => pc'[t] = "pop_advance"
          BY <2>2 DEF PopTake
    <3>6. Queued' = Queued /\ fd[front] \in open
          BY <3>1, <3>3
    <3>7. \A t, u \in Thread : held'[t] = held'[u] => t = u \/ held'[t] = NoFd
          BY <3>2, <3>4
    <3>8. \A t \in Thread, i \in Slot :
             Occupied(i)' /\ held'[t] = fd'[i] => pc'[t] = "pop_advance" /\ i = front'
          BY <3>1, <3>3, <3>4, <3>5
    <3>9. QED
          BY <3>3, <3>4, <3>6, <3>7, <3>8
  <2>3. CASE PopAdvance(w)
    <3>1. front # rear /\ held[w] = fd[front]
          BY <2>3 DEF PopAdvance, WorkerHolds
    <3>2. \A i \in Slot : Occupied(i)' => Occupied(i) /\ i # front
          BY <2>3, <3>1, PopVacates DEF PopAdvance
    <3>3. \A t \in Thread : pc[t] = "pop_advance" => t = w
          BY <2>3 DEF PopAdvance, LockInv, PopLabel
    <3>4. UNCHANGED <<fd, held, open>>
          BY <2>3 DEF PopAdvance
    <3>5. QED
          BY <3>2, <3>3, <3>4
  <2>4. QED
        BY <1>4, <2>1, <2>2, <2>3 DEF Pop
<1>5. ASSUME NEW w \in Worker, Echo(w)
      PROVE  ExclusiveService'
  <2>1. CASE EchoEnter(w) \/ RecvData(w) \/ SendDone(w) \/ SendSigPipe(w) \/ InterruptEcho(w)
    <3>1. pc[Main] # "pop_advance"
          BY DEF MainLabel, PushLabel
    <3>2. QED
          BY <1>1, <2>1, <3>1 DEF EchoEnter, RecvData, SendDone, SendSigPipe, InterruptEcho
  <2>2. CASE EchoLeave(w)
    <3>1. /\ \A t \in Thread : held'[t] = (IF t = w THEN NoFd ELSE held[t])
          /\ UNCHANGED <<ring, open>>
          /\ \A t \in Thread : pc[t] = "pop_advance" => pc'[t] = "pop_advance"
          BY <2>2 DEF EchoLeave
    <3>2. \A i \in Slot : Occupied(i)' <=> Occupied(i)
          BY <3>1 DEF Occupied
    <3>3. NoFd \notin Queued
          OBVIOUS
    <3>4. QED
          BY <3>1, <3>2, <3>3
  <2>3. CASE RecvEnd(w) \/ SendFail(w)
    <3>1. /\ pc[w] # "pop_advance"
          /\ held[w] # NoFd
          BY <2>3 DEF RecvEnd, SendFail, WorkerHolds, EchoLabel
    <3>2. held[w] \notin Queued
          BY <3>1
    <3>3. /\ held' = [held EXCEPT ![w] = NoFd]
          /\ open' = open \ {held[w]}
          /\ UNCHANGED ring
          BY <2>3 DEF RecvEnd, SendFail, Close
    <3>4. \A t \in Thread : pc[t] = "pop_advance" => pc'[t] = "pop_advance"
          BY <2>3, <3>1 DEF RecvEnd, SendFail
    <3>5. \A i \in Slot : Occupied(i)' <=> Occupied(i)
          BY <3>3 DEF Occupied
    <3>6. \A t \in Thread : held'[t] = (IF t = w THEN NoFd ELSE held[t])
          BY <3>3
    <3>7. Queued' = Queued
          BY <3>3, <3>5
    <3>8. Queued' \subseteq open'
          BY <3>2, <3>3, <3>7
    <3>9. \A t \in Thread : held'[t] \in open' \cup {NoFd}
          BY <3>1, <3>3, <3>6
    <3>10. \A t \in Thread, i \in Slot :
              Occupied(i)' /\ held'[t] = fd'[i] => pc'[t] = "pop_advance" /\ i = front'
      <4>1. NoFd \notin Queued
            OBVIOUS
      <4>2. QED
            BY <3>3, <3>4, <3>5, <3>6, <4>1
    <3>11. QED
          BY <3>3, <3>5, <3>6, <3>8, <3>9, <3>10
  <2>4. QED
        BY <1>5, <2>1, <2>2, <2>3 DEF Echo
<1>6. ASSUME NEW w \in Worker, SpuriousWakeup(w)
      PROVE  ExclusiveService'
      BY <1>1, <1>6 DEF SpuriousWakeup
<1>7. QED
      BY <1>2, <1>3, <1>4, <1>5, <1>6 DEF Next

\* No sleep on work.  A worker falls asleep only on an empty ring, a push that
\* may find all of them asleep has its signal still to give, and the signal
\* wakes one.
LEMMA SleepStep == TypeOK /\ NoSleepOnWork /\ Next => NoSleepOnWork'
<1> SUFFICES ASSUME TypeOK, NoSleepOnWork, Next
             PROVE  NoSleepOnWork'
    OBVIOUS
<1> USE PoolAssumption
    DEF TypeOK, NoSleepOnWork, Thread, EndLabel, Goto, ring
<1>1. CASE SigInt \/ Terminated
      BY <1>1 DEF SigInt, Terminated, vars
<1>2. CASE MainStep
  <2>1. CASE MainTest \/ AcceptFail \/ InterruptAccept \/ PushLock \/ PushUnlock
        BY <2>1 DEF MainTest, AcceptFail, InterruptAccept, PushLock, PushUnlock
  <2>2. CASE (\E f \in Fd : Accept(f)) \/ PushStore \/ PushAdvance
        BY <2>2 DEF Accept, PushStore, PushAdvance
  <2>3. CASE PushSignal
        BY <2>3 DEF PushSignal
  <2>4. QED
        BY <1>2, <2>1, <2>2, <2>3 DEF MainStep
<1>3. ASSUME NEW w \in Worker, Pop(w)
      PROVE  NoSleepOnWork'
      BY <1>3 DEF Pop, RunTest, PopReady, PopTake, PopAdvance, PopLock, PopWait, PopUnlock
<1>4. ASSUME NEW w \in Worker, Echo(w) \/ SpuriousWakeup(w)
      PROVE  NoSleepOnWork'
      BY <1>4 DEF Echo, EchoEnter, EchoLeave, RecvData, RecvEnd, SendFail, SendDone,
             Close, SendSigPipe, InterruptEcho, SpuriousWakeup
<1>5. QED
      BY <1>1, <1>2, <1>3, <1>4 DEF Next

\* The occupied slots are counted, and there are always fewer than QSIZE.
LEMMA PendingCounts ==
    ASSUME TypeOK
    PROVE  Pending \in 0 .. QSIZE - 1 /\ (Pending = 0 <=> front = rear)
BY PoolAssumption DEF TypeOK, Slot, Pending

\* A push adds one or, if it catches up with front, makes all of them vanish.
LEMMA PushCounts ==
    ASSUME TypeOK, rear' = Succ(rear), front' = front
    PROVE  IF Pending + 1 = QSIZE THEN rear' = front /\ Pending' = 0
                                  ELSE rear' # front /\ Pending' = Pending + 1
BY PoolAssumption DEF TypeOK, Slot, Succ, Pending

\* A pop takes one.
LEMMA PopCounts ==
    ASSUME TypeOK, front' = Succ(front), rear' = rear, front # rear
    PROVE  Pending' = Pending - 1
BY PoolAssumption DEF TypeOK, Slot, Succ, Pending

\* The workers on their way into the ring are finitely many.
LEMMA ComingFinite == IsFiniteSet(Coming) /\ Cardinality(Coming) \in Nat
<1>1. Coming \subseteq Worker
      BY DEF Coming
<1>2. QED
      BY <1>1, WorkersAssumption, FS_Subset, FS_CardinalityType

LEMMA ComingMore ==
    ASSUME Coming \subseteq Coming'
    PROVE  Cardinality(Coming) <= Cardinality(Coming')
<1>1. Coming' \subseteq Worker
      BY DEF Coming
<1>2. QED
      BY <1>1, WorkersAssumption, FS_Subset

\* No lost wake-up.  Whoever falls asleep finds the ring empty, each push has a
\* signal for one sleeper, and whoever takes a connection takes it out.
LEMMA WakeupStep ==
    ASSUME TypeOK, \A w \in Worker : WorkerHolds(w), NoLostWakeup, Next
    PROVE  NoLostWakeup'
<1> USE PoolAssumption DEF TypeOK, Thread, EndLabel, Goto, ring
<1> DEFINE Signal == IF pc[Main] = "push_signal" THEN 1 ELSE 0
<1>1. /\ Cardinality(Coming) \in Nat /\ Cardinality(Coming') \in Nat
      /\ Pending \in 0 .. QSIZE - 1 /\ Signal \in {0, 1} /\ Signal' \in {0, 1}
  <2>1. IsFiniteSet(Coming')
        BY WorkersAssumption, FS_Subset DEF Coming
  <2>2. QED
        BY <2>1, ComingFinite, PendingCounts, FS_CardinalityType
<1>2. ASSUME UNCHANGED <<front, rear>>, Coming \subseteq Coming', Alive,
             pc[Main] = "push_signal" => pc'[Main] = "push_signal",
             \A w \in Worker : pc'[w] = "cond_wait" => pc[w] = "cond_wait"
      PROVE  NoLostWakeup'
  <2>1. Cardinality(Coming) <= Cardinality(Coming') /\ Pending' = Pending
        BY <1>2, ComingMore DEF Pending
  <2>2. Signal <= Signal'
        BY <1>2
  <2>3. CASE \E w \in Worker : pc'[w] = "cond_wait"
    <3>1. Pending <= Cardinality(Coming) + Signal
          BY <1>2, <2>3 DEF NoLostWakeup
    <3>2. Pending' <= Cardinality(Coming') + Signal'
          BY <1>1, <2>1, <2>2, <3>1
    <3>3. QED
          BY <3>2 DEF NoLostWakeup
  <2>4. QED
        BY <2>3 DEF NoLostWakeup
<1>3. CASE SigInt
      BY <1>2, <1>3 DEF SigInt, Coming
<1>4. CASE Terminated
      BY <1>4 DEF Terminated, NoLostWakeup, vars, Alive
<1>5. CASE MainStep
  <2>1. CASE \/ MainTest \/ AcceptFail \/ InterruptAccept \/ PushLock \/ PushStore
             \/ PushUnlock \/ \E f \in Fd : Accept(f)
        BY <1>2, <2>1 DEF MainTest, AcceptFail, InterruptAccept, PushLock, PushStore,
           PushUnlock, Accept, Coming
  <2>2. CASE PushAdvance
    <3>1. /\ Alive /\ rear' = Succ(rear) /\ front' = front
          /\ pc[Main] = "push_advance" /\ pc' = [pc EXCEPT ![Main] = "push_signal"]
          BY <2>2 DEF PushAdvance
    <3>2. Coming' = Coming /\ Signal = 0 /\ Signal' = 1
          BY <3>1 DEF Coming
    <3>3. \A w \in Worker : pc'[w] = pc[w]
          BY <3>1
    <3>4. Pending' <= Pending + 1
          BY <1>1, <3>1, PushCounts
    <3>5. CASE \E w \in Worker : pc'[w] = "cond_wait"
      <4>1. Pending <= Cardinality(Coming) + Signal
            BY <3>1, <3>3, <3>5 DEF NoLostWakeup
      <4>2. Pending' \in Nat
            BY <3>1, <1>1, PushCounts
      <4>3. Pending' <= Cardinality(Coming') + Signal'
            BY <1>1, <3>2, <3>4, <4>1, <4>2
      <4>4. QED
            BY <4>3 DEF NoLostWakeup
    <3>6. QED
          BY <3>5 DEF NoLostWakeup
  <2>3. CASE PushSignal
    <3>1. CASE \A w \in Worker : pc[w] # "cond_wait"
          BY <2>3, <3>1 DEF PushSignal, NoLostWakeup
    <3>2. CASE \E w \in Worker : pc[w] = "cond_wait"
      <4>1. PICK w \in Worker : /\ pc[w] = "cond_wait"
                                /\ pc' = [pc EXCEPT ![Main] = "push_unlock", ![w] = "pop_lock"]
            BY <2>3, <3>2 DEF PushSignal
      <4>2. Coming' = Coming \cup {w} /\ w \notin Coming
            BY <4>1 DEF Coming
      <4>3. Cardinality(Coming') = Cardinality(Coming) + 1
            BY <4>2, ComingFinite, FS_AddElement
      <4>4. /\ Alive /\ Pending' = Pending /\ Signal = 1 /\ Signal' = 0
            BY <2>3, <4>1 DEF PushSignal, Pending, Alive
      <4>5. Pending <= Cardinality(Coming) + Signal
            BY <3>2, <4>4 DEF NoLostWakeup
      <4>6. Pending' <= Cardinality(Coming') + Signal'
            BY <1>1, <4>3, <4>4, <4>5
      <4>7. QED
            BY <4>6 DEF NoLostWakeup
    <3>3. QED
          BY <3>1, <3>2
  <2>4. QED
        BY <1>5, <2>1, <2>2, <2>3 DEF MainStep
<1>6. ASSUME NEW w \in Worker, Pop(w)
      PROVE  NoLostWakeup'
  <2>1. CASE RunTest(w) \/ PopLock(w) \/ PopReady(w) \/ PopTake(w) \/ PopUnlock(w)
        BY <1>2, <2>1 DEF RunTest, PopLock, PopReady, PopTake, PopUnlock, Coming
  <2>2. CASE PopWait(w)
    <3>1. Pending' = 0
          BY <2>2 DEF PopWait, Pending, Slot
    <3>2. Pending' <= Cardinality(Coming') + Signal'
          BY <1>1, <3>1
    <3>3. QED
          BY <3>2 DEF NoLostWakeup
  <2>3. CASE PopAdvance(w)
    <3>1. /\ Alive /\ front' = Succ(front) /\ rear' = rear /\ front # rear
          /\ pc[w] = "pop_advance" /\ pc' = [pc EXCEPT ![w] = "pop_unlock"]
          BY <2>3 DEF PopAdvance, WorkerHolds
    <3>2. Coming' = Coming \ {w} /\ w \in Coming
          BY <3>1 DEF Coming
    <3>3. Cardinality(Coming') = Cardinality(Coming) - 1
          BY <3>2, ComingFinite, FS_RemoveElement
    <3>4. Pending' = Pending - 1 /\ Signal' = Signal
          BY <3>1, PopCounts
    <3>5. CASE \E v \in Worker : pc'[v] = "cond_wait"
      <4>1. Pending <= Cardinality(Coming) + Signal
            BY <3>1, <3>5 DEF NoLostWakeup
      <4>2. Pending' <= Cardinality(Coming') + Signal'
            BY <1>1, <3>3, <3>4, <4>1
      <4>3. QED
            BY <4>2 DEF NoLostWakeup
    <3>6. QED
          BY <3>5 DEF NoLostWakeup
  <2>4. QED
        BY <1>6, <2>1, <2>2, <2>3 DEF Pop
<1>7. ASSUME NEW w \in Worker, Echo(w) \/ SpuriousWakeup(w)
      PROVE  NoLostWakeup'
  <2>1. CASE SendSigPipe(w)
        BY <2>1 DEF SendSigPipe, NoLostWakeup, Alive
  <2>2. CASE ~SendSigPipe(w)
        BY <1>2, <1>7, <2>2 DEF Echo, EchoEnter, EchoLeave, RecvData, RecvEnd, SendFail,
           SendDone, Close, InterruptEcho, SpuriousWakeup, Coming
  <2>3. QED
        BY <2>1, <2>2
<1>8. QED
      BY <1>3, <1>4, <1>5, <1>6, <1>7 DEF Next

\* The parts together.
LEMMA InvStep == IInv /\ [Next]_vars => IInv'
<1> SUFFICES ASSUME IInv, [Next]_vars PROVE IInv'
    OBVIOUS
<1>1. CASE Next
      BY <1>1, TypeStep, LockStep, MainHoldsStep, WorkerHoldsStep, ExclusiveStep,
         SleepStep, WakeupStep DEF IInv
<1>2. CASE UNCHANGED vars
      BY <1>2 DEF vars, ring, IInv, TypeOK, LockInv, MainHolds, WorkerHolds,
         ExclusiveService, NoSleepOnWork, NoLostWakeup, Queued, Occupied, Pending,
         Coming, Alive
<1>3. QED
      BY <1>1, <1>2

LEMMA Invariance == Spec => []IInv
BY InvInit, InvStep, PTL DEF Spec

-----------------------------------------------------------------------------
(* The theorems *)

\* Whatever the ring's size and the number of workers, and however the pushes
\* overflow, a connection is never in the hands of two threads, queued twice,
\* or both queued and served.
THEOREM ServiceIsExclusive == Spec => []ExclusiveService
<1>1. IInv => ExclusiveService
      BY DEF IInv
<1>2. QED
      BY <1>1, Invariance, PTL

\* The workers are never all asleep while the ring holds a connection, except
\* between main's store and its signal: no wake-up is lost, for any number of
\* workers and any ring size.
THEOREM NobodySleepsOnWork == Spec => []NoSleepOnWork
<1>1. IInv => NoSleepOnWork
      BY DEF IInv
<1>2. QED
      BY <1>1, Invariance, PTL

\* No signal is wasted: a worker sleeps only if enough others are on their way
\* into the ring for everything in it, for any number of workers and slots.
THEOREM NoWakeupIsLost == Spec => []NoLostWakeup
<1>1. IInv => NoLostWakeup
      BY DEF IInv
<1>2. QED
      BY <1>1, Invariance, PTL

-----------------------------------------------------------------------------
(* The occupied slots, read in order *)

Backlog == [k \in 1 .. Pending |-> fd[Nth(k - 1)]]

\* Counting on from front runs through the occupied slots and no others.
LEMMA NthOccupied ==
    ASSUME TypeOK
    PROVE  /\ \A k \in 0 .. Pending - 1 : Nth(k) \in Slot /\ Occupied(Nth(k))
           /\ \A i \in Slot : Occupied(i) => \E k \in 0 .. Pending - 1 : Nth(k) = i
<1> USE PoolAssumption DEF TypeOK, Slot, Pending, Occupied, Nth
<1>1. \A k \in 0 .. Pending - 1 : Nth(k) \in Slot /\ Occupied(Nth(k))
      OBVIOUS
<1>2. ASSUME NEW i \in Slot, Occupied(i)
      PROVE  \E k \in 0 .. Pending - 1 : Nth(k) = i
  <2>1. CASE front <= i
    <3>1. i - front \in 0 .. Pending - 1 /\ Nth(i - front) = i
          BY <1>2, <2>1
    <3>2. QED
          BY <3>1
  <2>2. CASE ~(front <= i)
    <3>1. QSIZE - front + i \in 0 .. Pending - 1 /\ Nth(QSIZE - front + i) = i
          BY <1>2, <2>2
    <3>2. QED
          BY <3>1
  <2>3. QED
        BY <2>1, <2>2
<1>3. QED
      BY <1>1, <1>2

\* The backlog is a sequence of what the occupied slots hold.
BacklogOK ==
    /\ Backlog \in Seq(Fd \cup {NoFd}) /\ Len(Backlog) = Pending
    /\ \A k \in 1 .. Pending : Backlog[k] = fd[Nth(k - 1)]
    /\ {Backlog[k] : k \in 1 .. Len(Backlog)} = Queued

LEMMA BacklogSequence == TypeOK => BacklogOK
<1> SUFFICES ASSUME TypeOK PROVE BacklogOK
    OBVIOUS
<1>1. Pending \in Nat
      BY PendingCounts, PoolAssumption
<1>2. \A k \in 1 .. Pending : k - 1 \in 0 .. Pending - 1
      BY <1>1
<1>3. \A k \in 1 .. Pending : fd[Nth(k - 1)] \in Fd \cup {NoFd}
      BY <1>2, NthOccupied DEF TypeOK
<1>4. /\ Backlog \in Seq(Fd \cup {NoFd}) /\ Len(Backlog) = Pending
      /\ \A k \in 1 .. Pending : Backlog[k] = fd[Nth(k - 1)]
      BY <1>1, <1>3 DEF Backlog
<1>5. {Backlog[k] : k \in 1 .. Pending} = Queued
  <2>1. ASSUME NEW k \in 1 .. Pending PROVE Backlog[k] \in Queued
        BY <1>2, <1>4, NthOccupied DEF Queued
  <2>2. ASSUME NEW i \in Slot, Occupied(i)
        PROVE  fd[i] \in {Backlog[k] : k \in 1 .. Pending}
    <3>1. PICK k \in 0 .. Pending - 1 : Nth(k) = i
          BY <2>2, NthOccupied
    <3>2. k + 1 \in 1 .. Pending /\ (k + 1) - 1 = k
          BY <1>1
    <3>3. QED
          BY <1>4, <3>1, <3>2
  <2>3. QED
        BY <2>1, <2>2 DEF Queued
<1>6. QED
      BY <1>4, <1>5 DEF BacklogOK

LEMMA BacklogNext == TypeOK' => BacklogOK'
BY BacklogSequence, PTL

\* A step that moves neither index and writes to no occupied slot keeps it.
LEMMA BacklogKept ==
    ASSUME TypeOK, UNCHANGED <<front, rear>>,
           \A i \in Slot : Occupied(i) => fd'[i] = fd[i]
    PROVE  Backlog' = Backlog /\ Queued' = Queued
<1>1. Pending' = Pending /\ \A k \in 0 .. Pending - 1 : fd'[Nth(k)] = fd[Nth(k)]
      BY NthOccupied DEF Pending
<1>2. \A k : Nth(k)' = Nth(k)
      BY DEF Nth
<1>3. Pending \in Nat
      BY PendingCounts, PoolAssumption
<1>4. \A k \in 1 .. Pending : fd'[Nth(k - 1)'] = fd[Nth(k - 1)]
      BY <1>1, <1>2, <1>3
<1>5. Backlog' = Backlog
      BY <1>1, <1>4 DEF Backlog
<1>6. Queued' = Queued
      BY DEF Queued, Occupied
<1>7. QED
      BY <1>5, <1>6

\* A push appends to it or, one too many, empties it.
LEMMA BacklogPush ==
    ASSUME TypeOK, TypeOK', rear' = Succ(rear), UNCHANGED <<fd, front>>
    PROVE  IF Pending + 1 = QSIZE
              THEN Backlog' = <<>> /\ Queued' = {}
              ELSE Backlog' = Append(Backlog, fd[rear]) /\ Queued' = Queued \cup {fd[rear]}
<1>1. /\ Backlog \in Seq(Fd \cup {NoFd}) /\ Len(Backlog) = Pending
      /\ \A k \in 1 .. Pending : Backlog[k] = fd[Nth(k - 1)]
      /\ Pending \in Nat /\ Pending \in 0 .. QSIZE - 1 /\ QSIZE \in Nat
      BY BacklogSequence, PendingCounts, PoolAssumption DEF BacklogOK
<1>2. /\ Backlog' \in Seq(Fd \cup {NoFd}) /\ Len(Backlog') = Pending'
      /\ \A k \in 1 .. Pending' : Backlog'[k] = fd[Nth(k - 1)']
      /\ {Backlog'[k] : k \in 1 .. Len(Backlog')} = Queued'
      BY BacklogNext DEF BacklogOK
<1>3. \A k : Nth(k)' = Nth(k)
      BY DEF Nth
<1>4. CASE Pending + 1 = QSIZE
  <2>1. Pending' = 0
        BY <1>4, PushCounts
  <2>2. Backlog' = <<>> /\ Queued' = {}
        BY <1>2, <2>1
  <2>3. QED
        BY <1>4, <2>2
<1>5. CASE Pending + 1 # QSIZE
  <2>1. Pending' = Pending + 1 /\ Nth(Pending) = rear /\ fd[rear] \in Fd \cup {NoFd}
        BY <1>5, PushCounts, PoolAssumption DEF TypeOK, Pending, Nth, Slot
  <2> DEFINE t == Append(Backlog, fd[rear])
  <2>2. /\ t \in Seq(Fd \cup {NoFd}) /\ Len(t) = Pending + 1
        /\ \A k \in 1 .. Pending : t[k] = Backlog[k]
        /\ t[Pending + 1] = fd[rear]
        BY <1>1, <2>1, AppendProperties
  <2> HIDE DEF t
  <2>3. \A k \in 1 .. Pending + 1 : Backlog'[k] = t[k]
    <3> SUFFICES ASSUME NEW k \in 1 .. Pending + 1 PROVE Backlog'[k] = t[k]
        OBVIOUS
    <3>1. Backlog'[k] = fd[Nth(k - 1)]
          BY <1>2, <1>3, <2>1
    <3>2. CASE k \in 1 .. Pending
          BY <1>1, <2>2, <3>1, <3>2
    <3>3. CASE k = Pending + 1
          BY <1>1, <2>1, <2>2, <3>1, <3>3
    <3>4. QED
          BY <1>1, <3>2, <3>3
  <2>4. Backlog' = t
        BY <1>2, <2>1, <2>2, <2>3, SeqEqual
  <2>5. Queued' = Queued \cup {fd[rear]}
    <3>1. Queued = {Backlog[k] : k \in 1 .. Pending}
          BY <1>1, BacklogSequence DEF BacklogOK
    <3>2. Queued' = {t[k] : k \in 1 .. Pending + 1}
          BY <1>2, <2>1, <2>4
    <3>3. QED
          BY <1>1, <2>2, <3>1, <3>2
  <2>6. QED
        BY <1>5, <2>4, <2>5 DEF t
<1>6. QED
      BY <1>4, <1>5

\* A pop takes its head.
LEMMA BacklogPop ==
    ASSUME TypeOK, TypeOK', front' = Succ(front), front # rear, UNCHANGED <<fd, rear>>
    PROVE  /\ Backlog # <<>> /\ Head(Backlog) = fd[front] /\ Backlog' = Tail(Backlog)
           /\ Queued' \cup {fd[front]} = Queued
<1>1. /\ Backlog \in Seq(Fd \cup {NoFd}) /\ Len(Backlog) = Pending
      /\ \A k \in 1 .. Pending : Backlog[k] = fd[Nth(k - 1)]
      /\ Pending \in Nat \ {0} /\ QSIZE \in Nat
      BY BacklogSequence, PendingCounts, PoolAssumption DEF BacklogOK
<1>2. /\ Backlog' \in Seq(Fd \cup {NoFd}) /\ Len(Backlog') = Pending'
      /\ \A k \in 1 .. Pending' : Backlog'[k] = fd[Nth(k - 1)']
      /\ {Backlog'[k] : k \in 1 .. Len(Backlog')} = Queued'
      BY BacklogNext DEF BacklogOK
<1>3. Pending' = Pending - 1
      BY PopCounts
<1>4. Nth(0) = front /\ \A k \in 0 .. Pending - 2 : Nth(k)' = Nth(k + 1)
      BY PoolAssumption DEF TypeOK, Slot, Succ, Nth, Pending
<1> DEFINE t == Tail(Backlog)
<1>5. /\ Backlog # <<>> /\ Head(Backlog) = Backlog[1]
      /\ t \in Seq(Fd \cup {NoFd}) /\ Len(t) = Pending - 1
      /\ \A k \in 1 .. Pending - 1 : t[k] = Backlog[k + 1]
      BY <1>1
<1> HIDE DEF t
<1>6. Backlog[1] = fd[front]
      BY <1>1, <1>4
<1>7. \A k \in 1 .. Pending - 1 : Backlog'[k] = t[k]
  <2> SUFFICES ASSUME NEW k \in 1 .. Pending - 1 PROVE Backlog'[k] = t[k]
      OBVIOUS
  <2>1. /\ k - 1 \in 0 .. Pending - 2 /\ (k - 1) + 1 = k /\ (k + 1) - 1 = k
        /\ k \in 1 .. Pending' /\ k + 1 \in 1 .. Pending
        BY <1>1, <1>3
  <2>2. Backlog'[k] = fd[Nth(k - 1)'] /\ Nth(k - 1)' = Nth(k)
        BY <1>2, <1>4, <2>1
  <2>3. t[k] = fd[Nth(k)]
        BY <1>1, <1>5, <2>1
  <2>4. QED
        BY <2>2, <2>3
<1>8. Backlog' = t
      BY <1>1, <1>2, <1>3, <1>5, <1>7, SeqEqual
<1>9. Queued' \cup {fd[front]} = Queued
  <2>1. Queued = {Backlog[k] : k \in 1 .. Pending}
        BY <1>1, BacklogSequence DEF BacklogOK
  <2>2. Queued' = {t[k] : k \in 1 .. Pending - 1}
        BY <1>2, <1>3, <1>8
  <2>3. ASSUME NEW k \in 1 .. Pending PROVE Backlog[k] \in Queued' \cup {fd[front]}
    <3>1. CASE k = 1
          BY <1>6, <3>1
    <3>2. CASE k # 1
      <4>1. k - 1 \in 1 .. Pending - 1 /\ (k - 1) + 1 = k
            BY <1>1, <3>2
      <4>2. t[k - 1] = Backlog[k]
            BY <1>5, <4>1
      <4>3. QED
            BY <2>2, <4>1, <4>2
    <3>3. QED
          BY <3>1, <3>2
  <2>4. ASSUME NEW k \in 1 .. Pending - 1 PROVE t[k] \in Queued
    <3>1. k + 1 \in 1 .. Pending
          BY <1>1
    <3>2. QED
          BY <1>5, <2>1, <3>1
  <2>5. fd[front] \in Queued
        BY <1>1, <1>6, <2>1
  <2>6. QED
        BY <2>1, <2>2, <2>3, <2>4, <2>5
<1>10. QED
       BY <1>5, <1>6, <1>8, <1>9 DEF t

-----------------------------------------------------------------------------
(* What each kind of step does to the backlog and to what is lost *)

\* An abandoned connection is open, not queued, and in nobody's hands.
LEMMA AbandonedMeans ==
    /\ \A f : f \in Abandoned <=>
              f \in open /\ f \notin Queued /\ \A t \in Thread : held[t] # f
    /\ \A f : f \in Abandoned' <=>
              f \in open' /\ f \notin Queued' /\ \A t \in Thread : held'[t] # f
BY DEF Abandoned

\* Nothing but a flag, the lock or a place in the code changes.
Calm ==
    /\ Alive
    /\ UNCHANGED <<ring, held, open>>
    /\ running' \in {running, FALSE}
    /\ \A w \in Worker : pc'[w] = "pop_advance" <=> pc[w] = "pop_advance"

LEMMA CalmKeeps ==
    ASSUME TypeOK, Calm
    PROVE  /\ Backlog' = Backlog /\ Abandoned' = Abandoned
           /\ held'[Main] = held[Main] /\ \A w \in Worker : Serving(w)' = Serving(w)
<1>1. Backlog' = Backlog /\ Queued' = Queued
      BY BacklogKept DEF Calm, ring
<1>2. Abandoned' = Abandoned
      BY <1>1 DEF Calm, Abandoned
<1>3. \A w \in Worker : Serving(w)' = Serving(w)
      BY DEF Calm, Serving
<1>4. QED
      BY <1>1, <1>2, <1>3 DEF Calm

\* main's store writes to a slot that is not occupied.
LEMMA StoreKeeps ==
    ASSUME TypeOK, PushStore
    PROVE  /\ Backlog' = Backlog /\ Abandoned' = Abandoned
           /\ held'[Main] = held[Main] /\ \A w \in Worker : Serving(w)' = Serving(w)
<1>1. /\ fd' = [fd EXCEPT ![rear] = held[Main]] /\ UNCHANGED <<front, rear, held, open>>
      /\ pc' = [pc EXCEPT ![Main] = "push_advance"]
      BY DEF PushStore, Goto
<1>2. ~Occupied(rear) /\ \A i \in Slot : i # rear => fd'[i] = fd[i]
      BY <1>1 DEF TypeOK, Occupied, Slot
<1>3. Backlog' = Backlog /\ Queued' = Queued
      BY <1>1, <1>2, BacklogKept
<1>4. \A w \in Worker : Serving(w)' = Serving(w)
      BY <1>1, PoolAssumption DEF Serving, TypeOK, Thread
<1>5. QED
      BY <1>1, <1>3, <1>4 DEF Abandoned

\* accept brings a connection that was in nobody's hands.
LEMMA AcceptGives ==
    ASSUME IInv, NEW f \in Fd, Accept(f)
    PROVE  /\ f \notin open /\ held[Main] = NoFd /\ held'[Main] = f
           /\ Backlog' = Backlog /\ Abandoned' = Abandoned
           /\ \A w \in Worker : Serving(w)' = Serving(w)
<1>1. /\ f \notin open /\ held[Main] = NoFd /\ open' = open \cup {f}
      /\ pc' = [pc EXCEPT ![Main] = "push_lock"] /\ held' = [held EXCEPT ![Main] = f]
      /\ UNCHANGED <<fd, front, rear>>
      BY DEF Accept, Goto, ring, IInv, MainHolds
<1>2. Backlog' = Backlog /\ Queued' = Queued
      BY <1>1, BacklogKept DEF IInv
<1>3. \A t \in Thread : held'[t] = IF t = Main THEN f ELSE held[t]
      BY <1>1 DEF IInv, TypeOK
<1>4. Main \in Thread /\ \A w \in Worker : w # Main /\ w \in Thread
      BY PoolAssumption DEF Thread
<1>5. NoFd \notin open /\ NoFd \notin Fd
      BY PoolAssumption DEF IInv, TypeOK
<1>6. \A g : g \in Abandoned' <=> g \in Abandoned
      BY <1>1, <1>2, <1>3, <1>4, <1>5, AbandonedMeans
<1>7. \A w \in Worker : Serving(w)' = Serving(w)
      BY <1>1, <1>3, <1>4 DEF Serving, IInv, TypeOK
<1>8. QED
      BY <1>1, <1>2, <1>3, <1>4, <1>6, <1>7

\* While main stands before the new value of rear, no pop is half done.
LEMMA PushIsAlone ==
    ASSUME IInv, PushAdvance
    PROVE  \A w \in Worker : pc[w] # "pop_advance"
BY PoolAssumption DEF IInv, LockInv, PushLabel, PopLabel, Thread, PushAdvance, Goto

\* The rest of the push hands the connection over, or loses all there are.
LEMMA PushGives ==
    ASSUME IInv, TypeOK', PushAdvance
    PROVE  /\ held[Main] \in Fd /\ held'[Main] = NoFd
           /\ \A w \in Worker : Serving(w)' = Serving(w)
           /\ IF Pending + 1 = QSIZE
                 THEN /\ rear' = front
                      /\ Backlog' = <<>> /\ Abandoned' = Abandoned \cup Queued \cup {held[Main]}
                 ELSE Backlog' = Append(Backlog, held[Main]) /\ Abandoned' = Abandoned
<1> DEFINE f == held[Main]
<1>1. /\ f # NoFd /\ fd[rear] = f /\ rear' = Succ(rear)
      /\ held' = [held EXCEPT ![Main] = NoFd] /\ pc' = [pc EXCEPT ![Main] = "push_signal"]
      /\ UNCHANGED <<fd, front, open>>
      BY DEF PushAdvance, Goto, IInv, MainHolds
<1>2. Main \in Thread /\ \A w \in Worker : w # Main /\ w \in Thread
      BY PoolAssumption DEF Thread
<1>3. \A t \in Thread : held'[t] = IF t = Main THEN NoFd ELSE held[t]
      BY <1>1 DEF IInv, TypeOK
<1>4. NoFd \notin open /\ f \in open /\ f \in Fd
      BY <1>1, <1>2, PoolAssumption DEF IInv, TypeOK, ExclusiveService
<1>5. \A t \in Thread : held[t] = f => t = Main
      BY <1>1, <1>2 DEF IInv, ExclusiveService
<1>6. \A w \in Worker : Serving(w)' = Serving(w)
      BY <1>1, <1>2, <1>3 DEF Serving, IInv, TypeOK
<1>7. CASE Pending + 1 = QSIZE
  <2>1. rear' = front /\ Backlog' = <<>> /\ Queued' = {}
        BY <1>1, <1>7, BacklogPush, PushCounts DEF IInv
  <2>2. ASSUME NEW g \in Queued PROVE g \in open /\ \A t \in Thread : held[t] # g
    <3>1. PICK i \in Slot : Occupied(i) /\ g = fd[i]
          BY DEF Queued
    <3>2. g \in open
          BY DEF IInv, ExclusiveService
    <3>3. \A t \in Thread : pc[t] # "pop_advance"
          BY <1>1, PushIsAlone DEF Thread, PushAdvance, Goto
    <3>4. QED
          BY <3>1, <3>2, <3>3 DEF IInv, ExclusiveService
  <2>3. \A g : g \in Abandoned' <=> g \in Abandoned \/ g \in Queued \/ g = f
        BY <1>1, <1>2, <1>3, <1>4, <1>5, <2>1, <2>2, AbandonedMeans
  <2>4. QED
        BY <1>1, <1>2, <1>3, <1>4, <1>6, <1>7, <2>1, <2>3
<1>8. CASE Pending + 1 # QSIZE
  <2>1. Backlog' = Append(Backlog, f) /\ Queued' = Queued \cup {f}
        BY <1>1, <1>8, BacklogPush DEF IInv
  <2>2. \A g : g \in Abandoned' <=> g \in Abandoned
        BY <1>1, <1>2, <1>3, <1>4, <2>1, AbandonedMeans
  <2>3. Abandoned' = Abandoned
        BY <2>2
  <2>4. held'[Main] = NoFd
        BY <1>2, <1>3
  <2>5. QED
        BY <1>4, <1>6, <1>8, <2>1, <2>3, <2>4
<1>9. QED
      BY <1>7, <1>8

\* A pop reads its slot, and serves the connection once it has passed the slot.
LEMMA TakeKeeps ==
    ASSUME IInv, NEW w \in Worker, PopTake(w)
    PROVE  /\ Backlog' = Backlog /\ Abandoned' = Abandoned
           /\ held'[Main] = held[Main] /\ \A v \in Worker : Serving(v)' = Serving(v)
<1>1. /\ pc[w] = "pop_take" /\ pc' = [pc EXCEPT ![w] = "pop_advance"]
      /\ held' = [held EXCEPT ![w] = fd[front]] /\ UNCHANGED <<fd, front, rear, open>>
      BY DEF PopTake, Goto, ring
<1>2. w \in Thread /\ Main \in Thread /\ w # Main
      BY PoolAssumption DEF Thread
<1>3. front # rear /\ held[w] = NoFd
      BY <1>1 DEF IInv, WorkerHolds, WorkerLabel, PopLabel, EchoLabel
<1>4. fd[front] \in Queued
      BY <1>3, FrontOccupied DEF IInv, TypeOK, Queued
<1>5. Backlog' = Backlog /\ Queued' = Queued
      BY <1>1, BacklogKept DEF IInv
<1>6. \A t \in Thread : held'[t] = IF t = w THEN fd[front] ELSE held[t]
      BY <1>1 DEF IInv, TypeOK
<1>7. NoFd \notin open
      BY PoolAssumption DEF IInv, TypeOK
<1>8. \A g : g \in Abandoned' <=> g \in Abandoned
      BY <1>1, <1>2, <1>3, <1>4, <1>5, <1>6, <1>7, AbandonedMeans
<1>9. \A v \in Worker : Serving(v)' = Serving(v)
  <2> SUFFICES ASSUME NEW v \in Worker PROVE Serving(v)' = Serving(v)
      OBVIOUS
  <2>1. pc'[v] = IF v = w THEN "pop_advance" ELSE pc[v]
        BY <1>1 DEF IInv, TypeOK, Thread
  <2>2. QED
        BY <1>1, <1>3, <1>6, <2>1 DEF Serving, Thread
<1>10. QED
       BY <1>2, <1>5, <1>6, <1>8, <1>9

LEMMA PopGives ==
    ASSUME IInv, TypeOK', NEW w \in Worker, PopAdvance(w)
    PROVE  /\ Serving(w) = NoFd /\ Backlog # <<>> /\ Serving(w)' = Head(Backlog)
           /\ Backlog' = Tail(Backlog) /\ Abandoned' = Abandoned
           /\ held'[Main] = held[Main]
           /\ \A v \in Worker : v # w => Serving(v)' = Serving(v)
<1>1. /\ pc[w] = "pop_advance" /\ pc' = [pc EXCEPT ![w] = "pop_unlock"]
      /\ front' = Succ(front) /\ UNCHANGED <<fd, rear, held, open>>
      BY DEF PopAdvance, Goto
<1>2. front # rear /\ held[w] = fd[front] /\ w \in Thread
      BY <1>1 DEF IInv, WorkerHolds, Thread
<1>3. /\ Backlog # <<>> /\ Head(Backlog) = fd[front] /\ Backlog' = Tail(Backlog)
      /\ Queued' \cup {fd[front]} = Queued
      BY <1>1, <1>2, BacklogPop DEF IInv
<1>4. \A g : g \in Abandoned' <=> g \in Abandoned
      BY <1>1, <1>2, <1>3, AbandonedMeans
<1>5. \A v \in Worker : pc'[v] = IF v = w THEN "pop_unlock" ELSE pc[v]
      BY <1>1 DEF IInv, TypeOK, Thread
<1>6. QED
      BY <1>1, <1>2, <1>3, <1>4, <1>5 DEF Serving

\* A worker closes what it serves, or walks away from it once it is told to stop.
LEMMA EndGives ==
    ASSUME IInv, NEW w \in Worker, RecvEnd(w) \/ SendFail(w) \/ EchoLeave(w)
    PROVE  /\ Serving(w) # NoFd /\ Serving(w) = held[w] /\ Serving(w)' = NoFd
           /\ Backlog' = Backlog
           /\ IF EchoLeave(w) THEN Abandoned' = Abandoned \cup {held[w]}
                              ELSE Abandoned' = Abandoned
           /\ held'[Main] = held[Main]
           /\ \A v \in Worker : v # w => Serving(v)' = Serving(v)
<1> DEFINE f == held[w]
<1>1. /\ pc[w] \in {"recv", "send", "echo_test"} /\ pc' = [pc EXCEPT ![w] = "run_test"]
      /\ held' = [held EXCEPT ![w] = NoFd] /\ UNCHANGED <<fd, front, rear>>
      /\ EchoLeave(w) => open' = open
      /\ ~EchoLeave(w) => open' = open \ {f}
      BY DEF RecvEnd, SendFail, EchoLeave, Close, Goto, ring
<1>2. f # NoFd /\ w \in Thread /\ Main \in Thread /\ w # Main
      BY <1>1, PoolAssumption DEF IInv, WorkerHolds, EchoLabel, Thread
<1>3. \A t \in Thread : held'[t] = IF t = w THEN NoFd ELSE held[t]
      BY <1>1 DEF IInv, TypeOK
<1>4. f \notin Queued /\ f \in open
      BY <1>1, <1>2 DEF IInv, ExclusiveService, Queued
<1>5. \A t \in Thread : held[t] = f => t = w
      BY <1>2 DEF IInv, ExclusiveService
<1>6. Backlog' = Backlog /\ Queued' = Queued
      BY <1>1, BacklogKept DEF IInv
<1>7. NoFd \notin open
      BY PoolAssumption DEF IInv, TypeOK
<1>8. IF EchoLeave(w) THEN Abandoned' = Abandoned \cup {f} ELSE Abandoned' = Abandoned
  <2>1. CASE EchoLeave(w)
    <3>1. \A g : g \in Abandoned' <=> g \in Abandoned \/ g = f
          BY <1>1, <1>2, <1>3, <1>4, <1>5, <1>6, <1>7, <2>1, AbandonedMeans
    <3>2. QED
          BY <2>1, <3>1
  <2>2. CASE ~EchoLeave(w)
    <3>1. \A g : g \in Abandoned' <=> g \in Abandoned
          BY <1>1, <1>2, <1>3, <1>6, <1>7, <2>2, AbandonedMeans
    <3>2. QED
          BY <2>2, <3>1
  <2>3. QED
        BY <2>1, <2>2
<1>9. \A v \in Worker : pc'[v] = IF v = w THEN "run_test" ELSE pc[v]
      BY <1>1 DEF IInv, TypeOK, Thread
<1>10. QED
       BY <1>1, <1>2, <1>3, <1>6, <1>8, <1>9 DEF Serving, Thread

\* The steps of the pool, sorted.
LEMMA KindsOfStep ==
    ASSUME IInv, Next
    PROVE  \/ UNCHANGED vars \/ Calm \/ PushStore \/ PushAdvance
           \/ \E f \in Fd : Accept(f)
           \/ \E w \in Worker : \/ PopTake(w) \/ PopAdvance(w)
                               \/ RecvEnd(w) \/ SendFail(w) \/ EchoLeave(w)
<1> USE PoolAssumption
    DEF IInv, TypeOK, Thread, Alive, Goto, MainLabel, WorkerLabel, EndLabel, PushLabel,
        PopLabel, EchoLabel
<1>1. CASE SigInt
      BY <1>1 DEF SigInt, Calm
<1>2. CASE MainTest \/ AcceptFail \/ InterruptAccept \/ PushLock \/ PushUnlock
      BY <1>2 DEF MainTest, AcceptFail, InterruptAccept, PushLock, PushUnlock, Calm
<1>3. CASE PushSignal
      BY <1>3 DEF PushSignal, Calm
<1>4. ASSUME NEW w \in Worker,
             \/ RunTest(w) \/ PopLock(w) \/ PopWait(w) \/ PopReady(w) \/ PopUnlock(w)
             \/ SpuriousWakeup(w)
      PROVE  Calm
      BY <1>4 DEF RunTest, PopLock, PopWait, PopReady, PopUnlock, SpuriousWakeup, Calm
<1>5. ASSUME NEW w \in Worker,
             \/ EchoEnter(w) \/ RecvData(w) \/ SendDone(w) \/ SendSigPipe(w)
             \/ InterruptEcho(w)
      PROVE  Calm
      BY <1>5 DEF EchoEnter, RecvData, SendDone, SendSigPipe, InterruptEcho, Calm
<1>6. QED
      BY <1>1, <1>2, <1>3, <1>4, <1>5 DEF Next, MainStep, Pop, Echo, Terminated

\* A connection gets out of everybody's reach only in a push that catches up with
\* front, or because a worker leaves after SIGINT.
LEMMA LossStep ==
    ASSUME IInv, TypeOK', [Next]_vars, NEW f \in Abandoned' \ Abandoned
    PROVE  \/ pc[Main] = "push_advance" /\ rear' = front
           \/ ~running /\ \E w \in Worker : pc[w] = "echo_test" /\ held[w] = f
<1>1. TypeOK
      BY DEF IInv
<1>2. CASE UNCHANGED vars
  <2>1. UNCHANGED Abandoned
        BY <1>2 DEF vars, Abandoned, Queued, Occupied
  <2>2. QED
        BY <2>1
<1>3. CASE Calm \/ PushStore \/ (\E g \in Fd : Accept(g)) \/ \E w \in Worker : PopTake(w)
      BY <1>1, <1>3, CalmKeeps, StoreKeeps, AcceptGives, TakeKeeps
<1>4. CASE PushAdvance
      BY <1>4, PushGives DEF PushAdvance, Goto
<1>5. ASSUME NEW w \in Worker, PopAdvance(w)
      PROVE  FALSE
      BY <1>5, PopGives
<1>6. ASSUME NEW w \in Worker, RecvEnd(w) \/ SendFail(w) \/ EchoLeave(w)
      PROVE  ~running /\ pc[w] = "echo_test" /\ held[w] = f
  <2>1. EchoLeave(w) /\ f \in Abandoned \cup {held[w]}
        BY <1>6, EndGives
  <2>2. QED
        BY <2>1 DEF EchoLeave, Goto
<1>7. QED
      BY <1>2, <1>3, <1>4, <1>5, <1>6, KindsOfStep

\* Nothing else ever loses a connection, for any number of workers and slots.
THEOREM LossNeedsOverflow == Spec => LostOnlyByOverflow
<1>1. IInv => TypeOK
      BY DEF IInv
<1>2. ASSUME IInv, TypeOK', [Next]_vars
      PROVE  \A f \in Abandoned' \ Abandoned :
                \/ pc[Main] = "push_advance" /\ rear' = front
                \/ ~running /\ \E w \in Worker : pc[w] = "echo_test" /\ held[w] = f
      BY <1>2, LossStep
<1>3. QED
      BY Invariance, <1>1, <1>2, PTL DEF Spec, LostOnlyByOverflow

-----------------------------------------------------------------------------
(* The pool implements the simple backlog *)

\* What is in use there are the accepted connections and nothing else.
LEMMA InUseIsOpen ==
    ASSUME IInv
    PROVE  Pool!InBacklog = Queued /\ Pool!InUse \subseteq open \cup {NoFd}
<1>1. Pool!InBacklog = Queued
      BY BacklogSequence DEF IInv, BacklogOK, Backlog, Pool!InBacklog
<1>2. /\ Queued \subseteq open /\ Abandoned \subseteq open
      /\ \A t \in Thread : held[t] \in open \cup {NoFd}
      BY DEF IInv, ExclusiveService, Abandoned
<1>3. \A w \in Worker : Serving(w) \in open \cup {NoFd}
      BY <1>2 DEF Serving, Thread
<1>4. Main \in Thread
      BY DEF Thread
<1>5. QED
      BY <1>1, <1>2, <1>3, <1>4 DEF Pool!InUse

LEMMA PoolInit == Init => Pool!Init
<1> SUFFICES ASSUME Init PROVE Pool!Init
    OBVIOUS
<1>1. TypeOK /\ Pending = 0 /\ \A i \in Slot : ~Occupied(i)
      BY TypeInit, PoolAssumption DEF Init, Pending, Occupied, Slot
<1>2. Backlog = <<>>
      BY <1>1, BacklogSequence DEF BacklogOK
<1>3. Queued = {} /\ Abandoned = {}
      BY <1>1 DEF Queued, Abandoned, Init
<1>4. Main \in Thread /\ \A w \in Worker : w \in Thread /\ w # Main
      BY PoolAssumption DEF Thread
<1>5. held[Main] = NoFd /\ \A w \in Worker : Serving(w) = NoFd
      BY <1>4 DEF Init, Serving
<1>6. running = TRUE /\ Alive
      BY <1>4 DEF Init, Alive, EndLabel
<1>7. QED
      BY <1>2, <1>3, <1>5, <1>6 DEF Pool!Init, Backlog

\* A step that moves a connection leaves the flags alone.
LEMMA MovesKeepFlags ==
    ASSUME IInv,
           \/ PushStore \/ PushAdvance \/ \E f \in Fd : Accept(f)
           \/ \E w \in Worker : \/ PopTake(w) \/ PopAdvance(w)
                               \/ RecvEnd(w) \/ SendFail(w) \/ EchoLeave(w)
    PROVE  Alive /\ Alive' /\ running' = running
BY PoolAssumption
   DEF IInv, TypeOK, Thread, Alive, Goto, EndLabel, PushStore, PushAdvance, Accept,
       PopTake, PopAdvance, RecvEnd, SendFail, EchoLeave, Close

\* The parts of the mapping.
LEMMA Mapped ==
    /\ held'[Main] = held[Main] => UNCHANGED ({held[Main]} \ {NoFd})
    /\ (\A w \in Worker : Serving(w)' = Serving(w)) =>
           UNCHANGED [w \in Worker |-> Serving(w)]
    /\ Backlog' = Backlog => UNCHANGED [k \in 1 .. Pending |-> fd[Nth(k - 1)]]
    /\ \A w \in Worker : \A x :
           Serving(w)' = x /\ (\A v \in Worker : v # w => Serving(v)' = Serving(v)) =>
               [v \in Worker |-> Serving(v)]'
                   = [[v \in Worker |-> Serving(v)] EXCEPT ![w] = x]
<1>1. (\A w \in Worker : Serving(w)' = Serving(w)) =>
           UNCHANGED [w \in Worker |-> Serving(w)]
      OBVIOUS
<1>2. ASSUME NEW w \in Worker, NEW x, Serving(w)' = x,
             \A v \in Worker : v # w => Serving(v)' = Serving(v)
      PROVE  [v \in Worker |-> Serving(v)]'
                 = [[v \in Worker |-> Serving(v)] EXCEPT ![w] = x]
      BY <1>2
<1>3. QED
      BY <1>1, <1>2 DEF Backlog

\* A step in which no connection moves is a request to stop, the end, or nothing.
LEMMA CalmImplements ==
    ASSUME IInv, Calm
    PROVE  Pool!Next \/ UNCHANGED Pool!vars
<1>1. /\ Backlog' = Backlog /\ Abandoned' = Abandoned
      /\ held'[Main] = held[Main] /\ \A w \in Worker : Serving(w)' = Serving(w)
      BY CalmKeeps DEF IInv
<1>2. /\ UNCHANGED ({held[Main]} \ {NoFd}) /\ UNCHANGED Abandoned
      /\ UNCHANGED [k \in 1 .. Pending |-> fd[Nth(k - 1)]]
      /\ UNCHANGED [w \in Worker |-> Serving(w)]
      BY <1>1, Mapped
<1>3. Alive /\ running' \in {running, FALSE}
      BY DEF Calm
<1>4. CASE ~Alive'
  <2>1. (~Alive)' = TRUE
        BY <1>4
  <2>2. (~running)' = (~running) \/ (~running)' = TRUE
        BY <1>3
  <2>3. (~running)' \in {~running, TRUE}
        BY <2>2, Zenon
  <2>4. Pool!End
        BY <1>2, <2>1, <2>3 DEF Pool!End
  <2>5. QED
        BY <1>3, <2>4 DEF Pool!Next
<1>5. CASE Alive' /\ running' = FALSE
  <2>1. (~running)' = TRUE /\ UNCHANGED (~Alive)
        BY <1>3, <1>5
  <2>2. Pool!Stop
        BY <1>2, <2>1 DEF Pool!Stop
  <2>3. QED
        BY <1>3, <2>2 DEF Pool!Next
<1>6. CASE Alive' /\ running' = running
  <2>1. UNCHANGED (~running) /\ UNCHANGED (~Alive)
        BY <1>3, <1>6
  <2>2. QED
        BY <1>2, <2>1 DEF Pool!vars
<1>7. QED
      BY <1>3, <1>4, <1>5, <1>6

\* Every step of the threads is one of the simple backlog, or none.
LEMMA PoolStep == IInv /\ TypeOK' /\ [Next]_vars => [Pool!Next]_(Pool!vars)
<1> SUFFICES ASSUME IInv, TypeOK', [Next]_vars
             PROVE  Pool!Next \/ UNCHANGED Pool!vars
    OBVIOUS
<1> USE Mapped
<1>1. TypeOK
      BY DEF IInv
<1>2. CASE UNCHANGED vars
      BY <1>2 DEF vars, Pool!vars, Pending, Nth, Serving, Abandoned, Queued, Occupied,
                  Alive
<1>3. CASE Calm
      BY <1>3, CalmImplements
<1>4. ASSUME Alive, Alive', running' = running
      PROVE  UNCHANGED (~running) /\ UNCHANGED (~Alive)
      BY <1>4
<1>5. CASE PushStore \/ \E w \in Worker : PopTake(w)
  <2>1. /\ Backlog' = Backlog /\ Abandoned' = Abandoned
        /\ held'[Main] = held[Main] /\ \A w \in Worker : Serving(w)' = Serving(w)
        BY <1>1, <1>5, StoreKeeps, TakeKeeps
  <2>2. UNCHANGED (~running) /\ UNCHANGED (~Alive)
        BY <1>4, <1>5, MovesKeepFlags
  <2>3. QED
        BY <2>1, <2>2 DEF Pool!vars
<1>6. ASSUME NEW f \in Fd, Accept(f)
      PROVE  Pool!Next
  <2>1. /\ f \notin open /\ held[Main] = NoFd /\ held'[Main] = f
        /\ Backlog' = Backlog /\ Abandoned' = Abandoned
        /\ \A w \in Worker : Serving(w)' = Serving(w)
        BY <1>6, AcceptGives
  <2>2. f \notin Pool!InUse
        BY <2>1, InUseIsOpen, PoolAssumption
  <2>3. Alive /\ UNCHANGED (~running) /\ UNCHANGED (~Alive)
        BY <1>4, <1>6, MovesKeepFlags
  <2>4. {held[Main]} \ {NoFd} = {} /\ {held'[Main]} \ {NoFd} = {f}
        BY <2>1, PoolAssumption
  <2>5. Pool!Connect(f)
        BY <2>1, <2>2, <2>3, <2>4 DEF Pool!Connect
  <2>6. QED
        BY <2>3, <2>5 DEF Pool!Next
<1>7. ASSUME PushAdvance
      PROVE  Pool!Next
  <2>1. PICK f \in Fd : f = held[Main]
        BY <1>7, PushGives
  <2>2. /\ held'[Main] = NoFd /\ \A w \in Worker : Serving(w)' = Serving(w)
        /\ IF Pending + 1 = QSIZE
              THEN Backlog' = <<>> /\ Abandoned' = Abandoned \cup Queued \cup {f}
              ELSE Backlog' = Append(Backlog, f) /\ Abandoned' = Abandoned
        BY <1>7, <2>1, PushGives
  <2>3. {held[Main]} \ {NoFd} = {f} /\ {held'[Main]} \ {NoFd} = {}
        BY <2>1, <2>2, PoolAssumption
  <2>4. Alive /\ UNCHANGED (~running) /\ UNCHANGED (~Alive)
        BY <1>4, <1>7, MovesKeepFlags
  <2>5. /\ Len(Backlog) = Pending /\ Pool!InBacklog = Queued
        /\ Pending \in 0 .. QSIZE - 1 /\ QSIZE \in Nat
        BY <1>1, BacklogSequence, InUseIsOpen, PendingCounts, PoolAssumption DEF BacklogOK
  <2>6. CASE Pending + 1 = QSIZE
    <3>1. Pool!Overflow(f)
          BY <2>2, <2>3, <2>4, <2>5, <2>6 DEF Pool!Overflow, Backlog
    <3>2. QED
          BY <2>4, <3>1 DEF Pool!Next
  <2>7. CASE Pending + 1 # QSIZE
    <3>1. Len(Backlog) + 1 < QSIZE
          BY <2>5, <2>7
    <3>2. Pool!Queue(f)
          BY <2>2, <2>3, <2>4, <2>7, <3>1 DEF Pool!Queue, Backlog
    <3>3. QED
          BY <2>4, <3>2 DEF Pool!Next
  <2>8. QED
        BY <2>6, <2>7
<1>8. ASSUME NEW w \in Worker, PopAdvance(w)
      PROVE  Pool!Next
  <2>1. /\ Serving(w) = NoFd /\ Backlog # <<>> /\ Serving(w)' = Head(Backlog)
        /\ Backlog' = Tail(Backlog) /\ Abandoned' = Abandoned
        /\ held'[Main] = held[Main]
        /\ \A v \in Worker : v # w => Serving(v)' = Serving(v)
        BY <1>8, PopGives
  <2>2. Alive /\ UNCHANGED (~running) /\ UNCHANGED (~Alive)
        BY <1>4, <1>8, MovesKeepFlags
  <2>3. [v \in Worker |-> Serving(v)]'
            = [[v \in Worker |-> Serving(v)] EXCEPT ![w] = Head(Backlog)]
        BY <2>1
  <2>4. Pool!Dispatch(w)
        BY <2>1, <2>2, <2>3 DEF Pool!Dispatch, Backlog
  <2>5. QED
        BY <2>2, <2>4 DEF Pool!Next
<1>9. ASSUME NEW w \in Worker, RecvEnd(w) \/ SendFail(w) \/ EchoLeave(w)
      PROVE  Pool!Next
  <2>1. /\ Serving(w) # NoFd /\ Serving(w) = held[w] /\ Serving(w)' = NoFd
        /\ Backlog' = Backlog /\ held'[Main] = held[Main]
        /\ IF EchoLeave(w) THEN Abandoned' = Abandoned \cup {held[w]}
                           ELSE Abandoned' = Abandoned
        /\ \A v \in Worker : v # w => Serving(v)' = Serving(v)
        BY <1>9, EndGives
  <2>2. Alive /\ UNCHANGED (~running) /\ UNCHANGED (~Alive)
        BY <1>4, <1>9, MovesKeepFlags
  <2>3. [v \in Worker |-> Serving(v)]'
            = [[v \in Worker |-> Serving(v)] EXCEPT ![w] = NoFd]
        BY <2>1
  <2>4. CASE EchoLeave(w)
    <3>1. ~running
          BY <2>4 DEF EchoLeave
    <3>2. Pool!WalkAway(w)
          BY <2>1, <2>2, <2>3, <2>4, <3>1 DEF Pool!WalkAway, Backlog
    <3>3. QED
          BY <2>2, <3>2 DEF Pool!Next
  <2>5. CASE ~EchoLeave(w)
    <3>1. Pool!Finish(w)
          BY <2>1, <2>2, <2>3, <2>5 DEF Pool!Finish, Backlog
    <3>2. QED
          BY <2>2, <3>1 DEF Pool!Next
  <2>6. QED
        BY <2>4, <2>5
<1>10. QED
       BY <1>2, <1>3, <1>5, <1>6, <1>7, <1>8, <1>9, KindsOfStep

\* The ring, its lock and its threads are, for any number of slots, workers and
\* descriptors, the simple backlog of ConnectionPool: connections are handed to
\* workers in the order they were accepted, and only the two losses occur.
THEOREM RingImplementsPool == Spec => ImplementsPool
<1>1. IInv => TypeOK
      BY DEF IInv
<1>2. QED
      BY Invariance, PoolInit, PoolStep, <1>1, PTL DEF Spec, Pool!Spec, ImplementsPool
==============================================================================
