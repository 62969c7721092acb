--------------------------- MODULE ConnectionPool ---------------------------
(***************************************************************************)
(* What a user of thread/tcp_thread_pool_server.c can rely on, with no     *)
(* ring, mutex, condition variable or program counter: connections are     *)
(* handed to workers in the order they were accepted, one worker each, and *)
(* a connection is lost in two ways only.  The backlog holds Capacity - 1  *)
(* connections; one more empties it and everything in it is lost.  Once    *)
(* the server is stopping, a worker may walk away from its connection.     *)
(***************************************************************************)
EXTENDS Naturals, Sequences

CONSTANTS Worker, Fd, NoFd, Capacity

VARIABLES
    accepted,   \* connections accepted and not yet in the backlog
    backlog,    \* connections waiting for a worker, oldest first
    serving,    \* the connection each worker serves, or NoFd
    lost,       \* open connections nobody will ever serve or close
    stopping,   \* somebody asked the server to stop
    over        \* the process has ended

vars == <<accepted, backlog, serving, lost, stopping, over>>

InBacklog == {backlog[i] : i \in 1 .. Len(backlog)}
InUse == accepted \cup InBacklog \cup {serving[w] : w \in Worker} \cup lost

Init ==
    /\ accepted = {}
    /\ backlog = <<>>
    /\ serving = [w \in Worker |-> NoFd]
    /\ lost = {}
    /\ stopping = FALSE
    /\ over = FALSE

Connect(f) ==
    /\ accepted = {}
    /\ f \notin InUse
    /\ accepted' = {f}
    /\ UNCHANGED <<backlog, serving, lost, stopping, over>>

Queue(f) ==
    /\ accepted = {f}
    /\ Len(backlog) + 1 < Capacity
    /\ accepted' = {}
    /\ backlog' = Append(backlog, f)
    /\ UNCHANGED <<serving, lost, stopping, over>>

Overflow(f) ==
    /\ accepted = {f}
    /\ Len(backlog) + 1 = Capacity
    /\ accepted' = {}
    /\ backlog' = <<>>
    /\ lost' = lost \cup InBacklog \cup {f}
    /\ UNCHANGED <<serving, stopping, over>>

Dispatch(w) ==
    /\ serving[w] = NoFd
    /\ backlog # <<>>
    /\ serving' = [serving EXCEPT ![w] = Head(backlog)]
    /\ backlog' = Tail(backlog)
    /\ UNCHANGED <<accepted, lost, stopping, over>>

Finish(w) ==
    /\ serving[w] # NoFd
    /\ serving' = [serving EXCEPT ![w] = NoFd]
    /\ UNCHANGED <<accepted, backlog, lost, stopping, over>>

WalkAway(w) ==
    /\ stopping
    /\ serving[w] # NoFd
    /\ serving' = [serving EXCEPT ![w] = NoFd]
    /\ lost' = lost \cup {serving[w]}
    /\ UNCHANGED <<accepted, backlog, stopping, over>>

Stop ==
    /\ stopping' = TRUE
    /\ UNCHANGED <<accepted, backlog, serving, lost, over>>

\* exit, a return of main or a fatal signal; an interrupted accept asks the
\* server to stop and ends it at the same time.
End ==
    /\ over' = TRUE
    /\ stopping' \in {stopping, TRUE}
    /\ UNCHANGED <<accepted, backlog, serving, lost>>

Next ==
    /\ ~over
    /\ \/ Stop \/ End
       \/ \E f \in Fd : Connect(f) \/ Queue(f) \/ Overflow(f)
       \/ \E w \in Worker : Dispatch(w) \/ Finish(w) \/ WalkAway(w)

Spec == Init /\ [][Next]_vars
=============================================================================
