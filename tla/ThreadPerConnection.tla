------------------------- MODULE ThreadPerConnection -------------------------
(***************************************************************************)
(* thread/tcp_multi_thread_server.c: main accepts and starts one detached  *)
(* thread per connection.  The thread gets the address of main's variable  *)
(* connfd, which main reuses for the next accept, and reads it whenever it *)
(* is first scheduled.                                                     *)
(*                                                                         *)
(* Descriptors and connections are kept apart: a recv that has begun stays *)
(* with its connection, a new call goes to what the number stands for now. *)
(***************************************************************************)
EXTENDS Naturals

CONSTANTS
    Conn,       \* connections clients make during a run
    Thread,     \* threads main can have at a time
    Fd,         \* descriptor numbers accept can return
    NoFd, NoConn

ASSUME ServerAssumption == Fd \subseteq Nat /\ NoFd \notin Fd /\ NoConn \notin Conn

VARIABLES
    running,    \* the global flag sig_handler clears
    main,       \* the statement main executes next
    connfd,     \* main's variable, whose address every thread gets
    table,      \* the connection each descriptor number stands for
    fresh,      \* connections not made yet
    thread,     \* the state of each thread
    fd,         \* the thread's own variable, once it has read connfd
    bound,      \* the connection of the recv a thread is in
    dispatched, \* the connection main logged the thread for
    overtaken   \* history: an accept changed connfd before a thread read it

vars == <<running, main, connfd, table, fresh, thread, fd, bound, dispatched, overtaken>>
locals == <<fd, bound, dispatched>>

ThreadLabel == {"none", "born", "test", "recv", "send"}
MainLabel == {"test", "accept", "create", "ended"}

Up == main # "ended"
Alive(t) == thread[t] # "none"
OpenConns == {table[f] : f \in Fd} \ {NoConn}

\* accept returns the lowest number that is free.
Unused == {f \in Fd : table[f] = NoConn}
Lowest(S) == CHOOSE f \in S : \A g \in S : f <= g

Init ==
    /\ running = TRUE
    /\ main = "test"
    /\ connfd = NoFd
    /\ table = [f \in Fd |-> NoConn]
    /\ fresh = Conn
    /\ thread = [t \in Thread |-> "none"]
    /\ fd = [t \in Thread |-> NoFd]
    /\ bound = [t \in Thread |-> NoConn]
    /\ dispatched = [t \in Thread |-> NoConn]
    /\ overtaken = FALSE

-----------------------------------------------------------------------------
(* main *)

MainTest ==
    /\ main = "test"
    /\ main' = IF running THEN "accept" ELSE "ended"
    /\ UNCHANGED <<running, connfd, table, fresh, thread, locals, overtaken>>

Accept(c) ==
    /\ main = "accept"
    /\ c \in fresh
    /\ Unused # {}
    /\ main' = "create"
    /\ connfd' = Lowest(Unused)
    /\ table' = [table EXCEPT ![Lowest(Unused)] = c]
    /\ fresh' = fresh \ {c}
    /\ overtaken' = (overtaken \/ \E t \in Thread : thread[t] = "born")
    /\ UNCHANGED <<running, thread, locals>>

\* Out of descriptors, an aborted connection, an interrupted call: main treats
\* them alike and exits.
AcceptFail ==
    /\ main = "accept"
    /\ main' = "ended"
    /\ UNCHANGED <<running, connfd, table, fresh, thread, locals, overtaken>>

Create(t) ==
    /\ main = "create"
    /\ thread[t] = "none"
    /\ main' = "test"
    /\ thread' = [thread EXCEPT ![t] = "born"]
    /\ dispatched' = [dispatched EXCEPT ![t] = table[connfd]]
    /\ UNCHANGED <<running, connfd, table, fresh, fd, bound, overtaken>>

\* No more threads: the wrapper of pthread_create exits.
CreateFail ==
    /\ main = "create"
    /\ main' = "ended"
    /\ UNCHANGED <<running, connfd, table, fresh, thread, locals, overtaken>>

\* SIGINT.  A blocked accept is interrupted, which ends the process; a blocked
\* recv or send is not restarted and the loop's test comes next.
SigInt ==
    /\ Up /\ running
    /\ running' = FALSE
    /\ \/ UNCHANGED <<main, thread, bound>>
       \/ main = "accept" /\ main' = "ended" /\ UNCHANGED <<thread, bound>>
       \/ \E t \in Thread :
             /\ thread[t] \in {"recv", "send"}
             /\ thread' = [thread EXCEPT ![t] = "test"]
             /\ bound' = [bound EXCEPT ![t] = NoConn]
             /\ UNCHANGED main
    /\ UNCHANGED <<connfd, table, fresh, fd, dispatched, overtaken>>

-----------------------------------------------------------------------------
(* thread_run and echo_loop *)

TGoto(t, from, to) == Up /\ thread[t] = from /\ thread' = [thread EXCEPT ![t] = to]

\* "int fd = *(int *)arg", at any time after the thread was created.
ReadArg(t) ==
    /\ TGoto(t, "born", "test")
    /\ fd' = [fd EXCEPT ![t] = connfd]
    /\ UNCHANGED <<running, main, connfd, table, fresh, bound, dispatched, overtaken>>

\* The thread is gone, and its variables with it.
Gone(t) ==
    /\ Up
    /\ thread' = [thread EXCEPT ![t] = "none"]
    /\ fd' = [fd EXCEPT ![t] = NoFd]
    /\ bound' = [bound EXCEPT ![t] = NoConn]
    /\ dispatched' = [dispatched EXCEPT ![t] = NoConn]
    /\ UNCHANGED <<running, main, connfd, fresh, overtaken>>

\* Variant: the thread exits without a close.
ExitWithoutClose(t) ==
    /\ Gone(t)
    /\ UNCHANGED table

\* close closes what the number stands for, or fails if it stands for nothing.
CloseAndExit(t) ==
    /\ Gone(t)
    /\ table' = [table EXCEPT ![fd[t]] = NoConn]

RecvBegin(t) ==
    /\ running
    /\ TGoto(t, "test", "recv")
    /\ table[fd[t]] # NoConn
    /\ bound' = [bound EXCEPT ![t] = table[fd[t]]]
    /\ UNCHANGED <<running, main, connfd, table, fresh, fd, dispatched, overtaken>>

\* The number stands for nothing any more: EBADF.
RecvBad(t) ==
    /\ running
    /\ thread[t] = "test"
    /\ table[fd[t]] = NoConn
    /\ CloseAndExit(t)

\* The flag ends the loop and the thread without a close.
Leave(t) ==
    /\ ~running
    /\ thread[t] = "test"
    /\ Gone(t)
    /\ UNCHANGED table

RecvData(t) ==
    /\ TGoto(t, "recv", "send")
    /\ UNCHANGED <<running, main, connfd, table, fresh, locals, overtaken>>

\* The peer has closed, or recv or send failed.
RecvEnd(t) == thread[t] = "recv" /\ CloseAndExit(t)
SendFail(t) == thread[t] = "send" /\ CloseAndExit(t)

SendDone(t) ==
    /\ TGoto(t, "send", "test")
    /\ table[fd[t]] # NoConn
    /\ bound' = [bound EXCEPT ![t] = NoConn]
    /\ UNCHANGED <<running, main, connfd, table, fresh, fd, dispatched, overtaken>>

\* SIGPIPE ends the process.
SendKills(t) ==
    /\ Up
    /\ thread[t] = "send"
    /\ main' = "ended"
    /\ UNCHANGED <<running, connfd, table, fresh, thread, locals, overtaken>>

-----------------------------------------------------------------------------

ThreadStep(t) ==
    \/ ReadArg(t)
    \/ RecvBegin(t) \/ RecvBad(t) \/ Leave(t)
    \/ RecvData(t) \/ RecvEnd(t)
    \/ SendDone(t) \/ SendFail(t) \/ SendKills(t)

Next ==
    \/ MainTest \/ AcceptFail \/ CreateFail \/ SigInt
    \/ \E c \in Conn : Accept(c)
    \/ \E t \in Thread : Create(t) \/ ThreadStep(t)

Spec == Init /\ [][Next]_vars

-----------------------------------------------------------------------------
(* Properties *)

\* Every variable keeps its type.
TypeOK ==
    /\ running \in BOOLEAN
    /\ main \in MainLabel
    /\ connfd \in Fd \cup {NoFd}
    /\ table \in [Fd -> Conn \cup {NoConn}]
    /\ fresh \in SUBSET Conn
    /\ thread \in [Thread -> ThreadLabel]
    /\ fd \in [Thread -> Fd \cup {NoFd}]
    /\ bound \in [Thread -> Conn \cup {NoConn}]
    /\ dispatched \in [Thread -> Conn \cup {NoConn}]
    /\ overtaken \in BOOLEAN
    /\ \A t \in Thread : thread[t] \in {"test", "recv", "send"} => fd[t] \in Fd

\* The connection of thread t: the one it will read or has read the number of.
Serves(t) == IF thread[t] = "born" THEN table[connfd] ELSE table[fd[t]]

\* As long as every thread has read connfd before the next accept returned,
\* and nobody asked the server to stop, threads and connections match one to
\* one: no connection is without its thread, none has two, and no thread reads
\* from, answers or closes another's.
MatchedUnlessOvertaken ==
    (Up /\ running /\ ~overtaken) =>
        /\ \A t \in Thread : Alive(t) => Serves(t) = dispatched[t]
        /\ \A t \in Thread : bound[t] \in {NoConn, dispatched[t]}
        /\ \A t, u \in Thread :
              dispatched[t] = dispatched[u] => t = u \/ dispatched[t] = NoConn
        /\ OpenConns = ({dispatched[t] : t \in Thread} \ {NoConn})
                          \cup (IF main = "create" THEN {table[connfd]} ELSE {})

\* The log line of main, "client [%s:%u] dispatch for thread %ld" (line 83):
\* the thread a client was dispatched to serves that client.
DispatchedAsLogged ==
    \A t \in Thread : bound[t] # NoConn => bound[t] = dispatched[t]
=============================================================================
