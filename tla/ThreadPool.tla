----------------------------- MODULE ThreadPool -----------------------------
(***************************************************************************)
(* thread/tcp_thread_pool_server.c: main accepts connections and pushes    *)
(* their descriptors onto a ring of QSIZE slots; the workers pop them and  *)
(* run echo_loop on them.  The ring is guarded by one mutex and one        *)
(* condition variable.  A push never looks whether the ring is full.       *)
(*                                                                         *)
(* One action per access to shared state.  The payload of an echo is not   *)
(* modelled; which system call a thread is blocked in, how it fails and    *)
(* which descriptors stay open is.                                         *)
(***************************************************************************)
EXTENDS Naturals, FiniteSets

CONSTANTS
    Worker,     \* the pool's threads (the code starts QSIZE of them)
    Main,       \* the accepting thread
    Fd,         \* descriptors that accept can return
    NoFd,       \* no descriptor: an unused slot, an idle thread
    NoThread,   \* the owner of a free mutex
    QSIZE       \* slots of the ring

ASSUME PoolAssumption ==
    /\ QSIZE \in Nat \ {0}
    /\ Worker # {}
    /\ Main \notin Worker
    /\ NoThread \notin Worker \cup {Main}
    /\ NoFd \notin Fd

ASSUME WorkersAssumption == IsFiniteSet(Worker)

VARIABLES
    running,    \* the global flag that sig_handler clears
    mutex,      \* block_queue.mutex: the thread that owns it, or NoThread
    fd,         \* block_queue.fd: the slots
    front,      \* block_queue.front: the slot the next pop takes
    rear,       \* block_queue.rear: the slot the next push fills
    pc,         \* where each thread is
    held,       \* the connection a thread has in its hands, or NoFd
    open        \* accepted connections that nobody has closed

vars == <<running, mutex, fd, front, rear, pc, held, open>>
ring == <<fd, front, rear>>

Thread == Worker \cup {Main}
Slot == 0 .. QSIZE - 1

\* Labels are named after the statement the thread executes next.
PushLabel == {"push_store", "push_advance", "push_signal", "push_unlock"}
PopLabel == {"pop_test", "pop_take", "pop_advance", "pop_unlock"}
EndLabel == {"returned", "failed", "killed"}
MainLabel == {"main_test", "accept", "push_lock"} \cup PushLabel \cup EndLabel
EchoLabel == {"echo_test", "recv", "send"}
WorkerLabel == {"run_test", "pop_lock", "cond_wait", "done"} \cup PopLabel \cup EchoLabel

\* The process exists until main returns, somebody calls exit or a signal
\* kills it.  Its last state stays as it was; nothing reads it any more.
Alive == pc[Main] \notin EndLabel

\* "if (++index == maxfd) index = 0"
Succ(i) == IF i + 1 = QSIZE THEN 0 ELSE i + 1

\* The slots from front up to, but without, rear: what pop can still return.
Occupied(i) == IF front <= rear THEN front <= i /\ i < rear
                                ELSE front <= i \/ i < rear

\* How many they are.
Pending == IF front <= rear THEN rear - front ELSE QSIZE - front + rear

Queued == {fd[i] : i \in {j \in Slot : Occupied(j)}}

\* Open connections that no thread holds and no pop will return.
Abandoned == open \ (Queued \cup {held[t] : t \in Thread})

\* Thread t, standing at from, goes on to to.
Goto(t, from, to) ==
    /\ Alive
    /\ pc[t] = from
    /\ pc' = [pc EXCEPT ![t] = to]

Init ==
    /\ running = TRUE
    /\ mutex = NoThread
    /\ fd = [i \in Slot |-> NoFd]
    /\ front = 0
    /\ rear = 0
    /\ pc = [t \in Thread |-> IF t = Main THEN "main_test" ELSE "run_test"]
    /\ held = [t \in Thread |-> NoFd]
    /\ open = {}

-----------------------------------------------------------------------------
(* Signals *)

\* sig_handler, run by any thread that is not blocked in a system call, or
\* is about to block in one: the flag changes and nobody is interrupted.
SigInt ==
    /\ Alive
    /\ running
    /\ running' = FALSE
    /\ UNCHANGED <<mutex, ring, pc, held, open>>

\* The handler is installed without SA_RESTART.  An interrupted accept fails,
\* and main treats EINTR as any other error: handle_errno exits.
InterruptAccept ==
    /\ Goto(Main, "accept", "failed")
    /\ running' = FALSE
    /\ UNCHANGED <<mutex, ring, held, open>>

\* An interrupted recv or send is retried from the loop's test; a chunk that
\* was about to be sent is dropped.
InterruptEcho(w) ==
    /\ Alive
    /\ pc[w] \in {"recv", "send"}
    /\ pc' = [pc EXCEPT ![w] = "echo_test"]
    /\ running' = FALSE
    /\ UNCHANGED <<mutex, ring, held, open>>

-----------------------------------------------------------------------------
(* main and block_queue_push *)

MainTest ==
    /\ Goto(Main, "main_test", IF running THEN "accept" ELSE "returned")
    /\ UNCHANGED <<running, mutex, ring, held, open>>

\* The descriptor accept returns is one the process has not got open.
Accept(f) ==
    /\ f \notin open
    /\ Goto(Main, "accept", "push_lock")
    /\ held' = [held EXCEPT ![Main] = f]
    /\ open' = open \cup {f}
    /\ UNCHANGED <<running, mutex, ring>>

\* The table is full, or the connection broke before it was accepted.
AcceptFail ==
    /\ Goto(Main, "accept", "failed")
    /\ UNCHANGED <<running, mutex, ring, held, open>>

PushLock ==
    /\ mutex = NoThread
    /\ Goto(Main, "push_lock", "push_store")
    /\ mutex' = Main
    /\ UNCHANGED <<running, ring, held, open>>

PushStore ==
    /\ Goto(Main, "push_store", "push_advance")
    /\ fd' = [fd EXCEPT ![rear] = held[Main]]
    /\ UNCHANGED <<running, mutex, front, rear, held, open>>

\* From here on the ring, not main, answers for the connection.
PushAdvance ==
    /\ Goto(Main, "push_advance", "push_signal")
    /\ rear' = Succ(rear)
    /\ held' = [held EXCEPT ![Main] = NoFd]
    /\ UNCHANGED <<running, mutex, fd, front, open>>

\* Variant: a push without a signal.
PushSignalForgotten ==
    /\ Goto(Main, "push_signal", "push_unlock")
    /\ UNCHANGED <<running, mutex, ring, held, open>>

\* Variant: a push signals only if it made the ring non-empty.
PushSignalFirstOnly ==
    /\ pc[Main] = "push_signal"
    /\ \/ \E w \in Worker :
             /\ Succ(front) = rear
             /\ pc[w] = "cond_wait"
             /\ pc' = [pc EXCEPT ![Main] = "push_unlock", ![w] = "pop_lock"]
       \/ /\ Succ(front) # rear \/ \A w \in Worker : pc[w] # "cond_wait"
          /\ pc' = [pc EXCEPT ![Main] = "push_unlock"]
    /\ UNCHANGED <<running, mutex, ring, held, open>>

\* pthread_cond_signal wakes one waiter if there is one.  The waiter has to
\* take the mutex again before its wait returns.
PushSignal ==
    /\ pc[Main] = "push_signal"
    /\ \/ \E w \in Worker :
             /\ pc[w] = "cond_wait"
             /\ pc' = [pc EXCEPT ![Main] = "push_unlock", ![w] = "pop_lock"]
       \/ /\ \A w \in Worker : pc[w] # "cond_wait"
          /\ pc' = [pc EXCEPT ![Main] = "push_unlock"]
    /\ UNCHANGED <<running, mutex, ring, held, open>>

PushUnlock ==
    /\ Goto(Main, "push_unlock", "main_test")
    /\ mutex' = NoThread
    /\ UNCHANGED <<running, ring, held, open>>

-----------------------------------------------------------------------------
(* thread_run and block_queue_pop *)

RunTest(w) ==
    /\ Goto(w, "run_test", IF running THEN "pop_lock" ELSE "done")
    /\ UNCHANGED <<running, mutex, ring, held, open>>

PopLock(w) ==
    /\ mutex = NoThread
    /\ Goto(w, "pop_lock", "pop_test")
    /\ mutex' = w
    /\ UNCHANGED <<running, ring, held, open>>

\* Variant: the wait keeps the mutex.
PopWaitLocked(w) ==
    /\ front = rear
    /\ Goto(w, "pop_test", "cond_wait")
    /\ UNCHANGED <<running, mutex, ring, held, open>>

\* The wait releases the mutex and falls asleep in one step.
PopWait(w) ==
    /\ front = rear
    /\ Goto(w, "pop_test", "cond_wait")
    /\ mutex' = NoThread
    /\ UNCHANGED <<running, ring, held, open>>

\* Variant: the mutex is released as soon as the ring is known to be occupied.
PopReadyUnlocks(w) ==
    /\ front # rear
    /\ Goto(w, "pop_test", "pop_take")
    /\ mutex' = NoThread
    /\ UNCHANGED <<running, ring, held, open>>

PopReady(w) ==
    /\ front # rear
    /\ Goto(w, "pop_test", "pop_take")
    /\ UNCHANGED <<running, mutex, ring, held, open>>

\* A wait may return without a signal.
SpuriousWakeup(w) ==
    /\ Goto(w, "cond_wait", "pop_lock")
    /\ UNCHANGED <<running, mutex, ring, held, open>>

\* Variant: the index is advanced before the slot is read.
PopTakeNext(w) ==
    /\ Goto(w, "pop_take", "pop_advance")
    /\ held' = [held EXCEPT ![w] = fd[Succ(front)]]
    /\ UNCHANGED <<running, mutex, ring, open>>

PopTake(w) ==
    /\ Goto(w, "pop_take", "pop_advance")
    /\ held' = [held EXCEPT ![w] = fd[front]]
    /\ UNCHANGED <<running, mutex, ring, open>>

PopAdvance(w) ==
    /\ Goto(w, "pop_advance", "pop_unlock")
    /\ front' = Succ(front)
    /\ UNCHANGED <<running, mutex, fd, rear, held, open>>

PopUnlock(w) ==
    /\ Goto(w, "pop_unlock", "echo_test")
    /\ mutex' = NoThread
    /\ UNCHANGED <<running, ring, held, open>>

-----------------------------------------------------------------------------
(* echo_loop *)

EchoEnter(w) ==
    /\ running
    /\ Goto(w, "echo_test", "recv")
    /\ UNCHANGED <<running, mutex, ring, held, open>>

\* The flag ends the loop without a close: the descriptor stays open.
EchoLeave(w) ==
    /\ ~running
    /\ Goto(w, "echo_test", "run_test")
    /\ held' = [held EXCEPT ![w] = NoFd]
    /\ UNCHANGED <<running, mutex, ring, open>>

RecvData(w) ==
    /\ Goto(w, "recv", "send")
    /\ UNCHANGED <<running, mutex, ring, held, open>>

\* End of file, or an error of recv or send: close and break.
Close(w) ==
    /\ open' = open \ {held[w]}
    /\ held' = [held EXCEPT ![w] = NoFd]
    /\ UNCHANGED <<running, mutex, ring>>

\* Variant: the end of file leaves the loop without a close.
RecvEndNoClose(w) ==
    /\ Goto(w, "recv", "run_test")
    /\ held' = [held EXCEPT ![w] = NoFd]
    /\ UNCHANGED <<running, mutex, ring, open>>

\* Variant: the end of file ends the thread and not only its echo_loop.
RecvEndQuits(w) == Goto(w, "recv", "done") /\ Close(w)

RecvEnd(w) == Goto(w, "recv", "run_test") /\ Close(w)

SendFail(w) == Goto(w, "send", "run_test") /\ Close(w)

SendDone(w) ==
    /\ Goto(w, "send", "echo_test")
    /\ UNCHANGED <<running, mutex, ring, held, open>>

\* A send on a connection the peer has reset raises SIGPIPE, which nothing
\* ignores or handles: the whole process ends.
SendSigPipe(w) ==
    /\ Alive
    /\ pc[w] = "send"
    /\ pc' = [pc EXCEPT ![Main] = "killed"]
    /\ UNCHANGED <<running, mutex, ring, held, open>>

-----------------------------------------------------------------------------

MainStep ==
    \/ MainTest
    \/ \E f \in Fd : Accept(f)
    \/ AcceptFail \/ InterruptAccept
    \/ PushLock \/ PushStore \/ PushAdvance \/ PushSignal \/ PushUnlock

Pop(w) ==
    \/ RunTest(w) \/ PopLock(w) \/ PopWait(w) \/ PopReady(w)
    \/ PopTake(w) \/ PopAdvance(w) \/ PopUnlock(w)

Echo(w) ==
    \/ EchoEnter(w) \/ EchoLeave(w) \/ RecvData(w) \/ RecvEnd(w)
    \/ SendFail(w) \/ SendDone(w) \/ SendSigPipe(w) \/ InterruptEcho(w)

\* After the process is gone nothing happens.
Terminated == ~Alive /\ UNCHANGED vars

Next ==
    \/ SigInt
    \/ MainStep
    \/ \E w \in Worker : Pop(w) \/ Echo(w) \/ SpuriousWakeup(w)
    \/ Terminated

Spec == Init /\ [][Next]_vars

\* Threads that can run do run, and a thread that keeps asking for the mutex
\* gets it.  The peers are assumed to end their connection at some time; no
\* fairness for signals, errors, new connections or spurious wake-ups.
PoolFairness ==
    /\ WF_vars(MainTest \/ PushStore \/ PushAdvance \/ PushSignal \/ PushUnlock)
    /\ SF_vars(PushLock)
    /\ \A w \in Worker :
          /\ WF_vars(Pop(w))
          /\ WF_vars(EchoEnter(w) \/ EchoLeave(w) \/ SendDone(w))
          /\ SF_vars(RecvEnd(w))

FairSpec == Spec /\ PoolFairness

-----------------------------------------------------------------------------
(* Properties *)

\* Every variable keeps its type.
TypeOK ==
    /\ running \in BOOLEAN
    /\ mutex \in Thread \cup {NoThread}
    /\ fd \in [Slot -> Fd \cup {NoFd}]
    /\ front \in Slot
    /\ rear \in Slot
    /\ pc \in [Thread -> MainLabel \cup WorkerLabel]
    /\ pc[Main] \in MainLabel
    /\ \A w \in Worker : pc[w] \in WorkerLabel
    /\ held \in [Thread -> Fd \cup {NoFd}]
    /\ open \in SUBSET Fd

\* Every accepted connection has one owner: what two threads hold differs,
\* what two occupied slots hold differs, nothing is both held and queued except
\* while a pop is between reading its slot and passing it, and whatever is held
\* or queued is still open.  This is what makes a close by echo_loop safe: no
\* other thread can be using that descriptor or its reuse.
ExclusiveService ==
    /\ \A t, u \in Thread : held[t] = held[u] => t = u \/ held[t] = NoFd
    /\ \A i, j \in Slot : Occupied(i) /\ Occupied(j) /\ fd[i] = fd[j] => i = j
    /\ \A t \in Thread, i \in Slot :
          Occupied(i) /\ held[t] = fd[i] => pc[t] = "pop_advance" /\ i = front
    /\ Queued \subseteq open
    /\ \A t \in Thread : held[t] \in open \cup {NoFd}

\* The wait of block_queue_pop never sleeps on work: if all the workers are
\* asleep in pthread_cond_wait, then the ring is empty or main is about to
\* signal.
NoSleepOnWork ==
    (\A w \in Worker : pc[w] = "cond_wait") =>
        front = rear \/ pc[Main] = "push_signal"

\* A worker asleep in the wait of block_queue_pop is owed nothing: there are at
\* least as many workers on their way into the ring as there are connections in
\* it, main's outstanding signal counted.  One signal for each push is needed
\* for this as soon as the ring can hold two.
Coming == {w \in Worker : pc[w] \in {"pop_lock", "pop_test", "pop_take", "pop_advance"}}
NoLostWakeup ==
    (Alive /\ \E w \in Worker : pc[w] = "cond_wait") =>
        Pending <= Cardinality(Coming) + (IF pc[Main] = "push_signal" THEN 1 ELSE 0)

\* A connection gets out of everybody's reach, open and never to be served or
\* closed, only in a push onto a full ring (rear catches up with front, which
\* pop takes for an empty ring) or because a worker leaves echo_loop after
\* SIGINT.
LostOnlyByOverflow ==
    [][\A f \in Abandoned' \ Abandoned :
          \/ pc[Main] = "push_advance" /\ rear' = front
          \/ ~running /\ \E w \in Worker : pc[w] = "echo_test" /\ held[w] = f]_vars

\* A connection in the ring does not stay there for ever while the server
\* runs, if the peers being served end their connections: a worker pops it or
\* an overflow drops it.
BacklogDrains ==
    \A f \in Fd : f \in Queued /\ running ~> f \notin Queued \/ ~running \/ ~Alive

\* What SIGINT achieves when no further client comes: the process ends or main
\* sits in its accept.  Neither a worker nor the mutex can hold main up.
StopReachesAccept == ~running ~> ~Alive \/ pc[Main] = "accept"

-----------------------------------------------------------------------------
(* The inductive invariant behind the safety properties *)

\* A thread inside push or pop owns the mutex.
LockInv == \A t \in Thread : pc[t] \in PushLabel \cup PopLabel => mutex = t

\* What main holds, and what it has written ahead of rear.
MainHolds ==
    /\ pc[Main] \in {"main_test", "accept", "push_signal", "push_unlock"} => held[Main] = NoFd
    /\ pc[Main] \in {"push_lock", "push_store", "push_advance"} => held[Main] # NoFd
    /\ pc[Main] = "push_advance" => fd[rear] = held[Main]

\* What a worker holds, and that a pop past its test finds the ring occupied.
WorkerHolds(w) ==
    /\ pc[w] \in {"pop_unlock"} \cup EchoLabel => held[w] # NoFd
    /\ pc[w] \in WorkerLabel \ ({"pop_advance", "pop_unlock"} \cup EchoLabel) => held[w] = NoFd
    /\ pc[w] = "pop_advance" => held[w] = fd[front]
    /\ pc[w] \in {"pop_take", "pop_advance"} => front # rear

\* Together: no thread acts on the ring without the lock, and what a thread
\* holds is what its place in the code says.
IInv ==
    /\ TypeOK
    /\ LockInv
    /\ MainHolds
    /\ \A w \in Worker : WorkerHolds(w)
    /\ ExclusiveService
    /\ NoSleepOnWork
    /\ NoLostWakeup
=============================================================================
