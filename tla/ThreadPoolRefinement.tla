------------------------ MODULE ThreadPoolRefinement ------------------------
(***************************************************************************)
(* The thread pool implements ConnectionPool: the occupied slots, read     *)
(* from front on, are the backlog.                                         *)
(***************************************************************************)
EXTENDS ThreadPool, Sequences

\* The k-th occupied slot, counted from front.
Nth(k) == IF front + k < QSIZE THEN front + k ELSE front + k - QSIZE

\* A connection counts as served from the moment the pop has passed its slot.
Serving(w) == IF pc[w] = "pop_advance" THEN NoFd ELSE held[w]

Pool == INSTANCE ConnectionPool WITH
    Capacity <- QSIZE,
    accepted <- {held[Main]} \ {NoFd},
    backlog <- [k \in 1 .. Pending |-> fd[Nth(k - 1)]],
    serving <- [w \in Worker |-> Serving(w)],
    lost <- Abandoned,
    stopping <- ~running,
    over <- ~Alive

\* Every behaviour of the ring, its lock and its threads is one of the simple
\* backlog: first in first out, each connection to one worker, a capacity of
\* QSIZE - 1 and a loss of everything queued by the push that exceeds it.
ImplementsPool == Pool!Spec
=============================================================================
