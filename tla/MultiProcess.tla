---------------------------- MODULE MultiProcess ----------------------------
(***************************************************************************)
(* MIO/tcp_multi_process_server.c: the parent accepts, forks one child per *)
(* connection, and reaps the children in its SIGCHLD handler.              *)
(*                                                                         *)
(* A member c of Child stands for a connection and for the child process   *)
(* that serves it; it is free for reuse when the child has been reaped and *)
(* nobody has the connection open any more.  Signals run their handler     *)
(* between any two statements of the parent; SIGCHLD does not queue.       *)
(***************************************************************************)
CONSTANTS
    Child,      \* connections and their child processes
    Parent,     \* the listening process
    NoChild     \* the parent has no connection in connfd

ASSUME ProcessAssumption == Parent \notin Child /\ NoChild \notin Child

VARIABLES
    running,    \* the flag running, in each process its own copy after fork
    parent,     \* the statement the parent executes next
    handler,    \* "idle", or "wait" inside child_handler
    pending,    \* a SIGCHLD is pending for the parent
    errno,      \* the parent's errno, as far as the accept loop reads it
    connfd,     \* the connection of the parent's loop body, or NoChild
    child,      \* the state of each child
    listening,  \* the processes that have the listening socket open
    holders     \* the processes that have each connection open

vars == <<running, parent, handler, pending, errno, connfd, child, listening, holders>>

Process == Child \cup {Parent}
ParentLabel == {"test", "accept", "errno", "fork", "close", "exited"}
ChildLabel == {"none", "close_listen", "test", "recv", "send", "zombie"}

Up == parent # "exited"
Zombies == {c \in Child : child[c] = "zombie"}
Children == {c \in Child : child[c] # "none"}
Serving == Children \ Zombies

Init ==
    /\ running = [p \in Process |-> TRUE]
    /\ parent = "test"
    /\ handler = "idle"
    /\ pending = FALSE
    /\ errno = "other"
    /\ connfd = NoChild
    /\ child = [c \in Child |-> "none"]
    /\ listening = {Parent}
    /\ holders = [c \in Child |-> {}]

-----------------------------------------------------------------------------
(* The parent's loop.  It stands still while a handler runs. *)

At(label) == handler = "idle" /\ parent = label

\* The kernel closes what the parent had open, and init takes over its
\* children: those that have ended are reaped.
Exit ==
    /\ parent' = "exited"
    /\ listening' = listening \ {Parent}
    /\ holders' = [c \in Child |-> holders[c] \ {Parent}]
    /\ child' = [c \in Child |-> IF child[c] = "zombie" THEN "none" ELSE child[c]]
    /\ pending' = FALSE
    /\ connfd' = NoChild
    /\ UNCHANGED <<running, handler, errno>>

ParentEnter ==
    /\ At("test") /\ running[Parent]
    /\ parent' = "accept"
    /\ UNCHANGED <<running, handler, pending, errno, connfd, child, listening, holders>>

ParentLeave == At("test") /\ ~running[Parent] /\ Exit

Accept(c) ==
    /\ At("accept")
    /\ child[c] = "none" /\ holders[c] = {}
    /\ parent' = "fork"
    /\ connfd' = c
    /\ holders' = [holders EXCEPT ![c] = {Parent}]
    /\ UNCHANGED <<running, handler, pending, errno, child, listening>>

\* accept fails for a reason of its own: not EINTR, so the parent exits.
AcceptFail == At("accept") /\ Exit

ParentRetry ==
    /\ At("errno") /\ errno = "EINTR"
    /\ parent' = "test"
    /\ UNCHANGED <<running, handler, pending, errno, connfd, child, listening, holders>>

\* The errno that the test finds is no longer the one accept left.
ParentGivesUp == At("errno") /\ errno # "EINTR" /\ Exit

\* The child starts with copies of the flag and of both descriptors.
Fork ==
    /\ At("fork")
    /\ parent' = "close"
    /\ child' = [child EXCEPT ![connfd] = "close_listen"]
    /\ running' = [running EXCEPT ![connfd] = running[Parent]]
    /\ listening' = listening \cup {connfd}
    /\ holders' = [holders EXCEPT ![connfd] = @ \cup {connfd}]
    /\ UNCHANGED <<handler, pending, errno, connfd>>

ForkFail == At("fork") /\ Exit

\* Variant: the parent keeps its copy of the connection.
ParentCloseForgotten ==
    /\ At("close")
    /\ parent' = "test"
    /\ connfd' = NoChild
    /\ UNCHANGED <<running, handler, pending, errno, child, listening, holders>>

ParentClose ==
    /\ At("close")
    /\ parent' = "test"
    /\ holders' = [holders EXCEPT ![connfd] = @ \ {Parent}]
    /\ connfd' = NoChild
    /\ UNCHANGED <<running, handler, pending, errno, child, listening>>

-----------------------------------------------------------------------------
(* Signals of the parent *)

\* A signal that finds the parent blocked in accept makes accept fail with
\* EINTR (no SA_RESTART); errno is stored after the handler has returned.  One
\* that comes just before accept blocks does not.
AcceptInterrupted == parent' = "errno" /\ errno' = "EINTR"
AcceptUndisturbed == UNCHANGED <<parent, errno>>

SigInt ==
    /\ Up
    /\ running' = [running EXCEPT ![Parent] = FALSE]
    /\ \/ AcceptUndisturbed
       \/ At("accept") /\ AcceptInterrupted
    /\ UNCHANGED <<handler, pending, connfd, child, listening, holders>>

\* SIGCHLD is blocked while its handler runs.
SigChld ==
    /\ Up /\ pending /\ handler = "idle"
    /\ handler' = "wait"
    /\ pending' = FALSE
    /\ UNCHANGED <<running, parent, errno, connfd, child, listening, holders>>

\* One round of "while (waitpid(-1, 0, WNOHANG) > 0)".
Reap(c) ==
    /\ handler = "wait"
    /\ child[c] = "zombie"
    /\ child' = [child EXCEPT ![c] = "none"]
    /\ UNCHANGED <<running, parent, handler, pending, errno, connfd, listening, holders>>

\* Variant: "if" for "while", the handler reaps at most one child.
HandlerReturnEarly ==
    /\ handler = "wait"
    /\ handler' = "idle"
    /\ \/ parent = "accept" /\ AcceptInterrupted
       \/ AcceptUndisturbed
    /\ UNCHANGED <<running, pending, connfd, child, listening, holders>>

\* Variant: the handler leaves some other errno, children or not.
HandlerReturnClobbers ==
    /\ handler = "wait"
    /\ Zombies = {}
    /\ handler' = "idle"
    /\ errno' = "other"
    /\ parent' = IF parent = "accept" THEN "errno" ELSE parent
    /\ UNCHANGED <<running, pending, connfd, child, listening, holders>>

\* waitpid finds no ended child: 0 while others live, -1 and ECHILD when there
\* are none at all.  The handler does not save errno.
HandlerReturn ==
    /\ handler = "wait"
    /\ Zombies = {}
    /\ handler' = "idle"
    /\ \/ /\ parent = "accept"
          /\ AcceptInterrupted
       \/ /\ errno' = IF Children = {} THEN "ECHILD" ELSE errno
          /\ UNCHANGED parent
    /\ UNCHANGED <<running, pending, connfd, child, listening, holders>>

-----------------------------------------------------------------------------
(* child_run *)

Goto(c, from, to) == child[c] = from /\ child' = [child EXCEPT ![c] = to]

\* Variant: the child keeps the listening socket.
CloseListenForgotten(c) ==
    /\ Goto(c, "close_listen", "test")
    /\ UNCHANGED <<running, parent, handler, pending, errno, connfd, listening, holders>>

CloseListen(c) ==
    /\ Goto(c, "close_listen", "test")
    /\ listening' = listening \ {c}
    /\ UNCHANGED <<running, parent, handler, pending, errno, connfd, holders>>

\* exit, or death by SIGPIPE or another signal: the kernel closes what is open
\* and tells the parent; without one, init reaps at once.
End(c) ==
    /\ child' = [child EXCEPT ![c] = IF Up THEN "zombie" ELSE "none"]
    /\ pending' = Up
    /\ listening' = listening \ {c}
    /\ holders' = [holders EXCEPT ![c] = @ \ {c}]
    /\ UNCHANGED <<running, parent, handler, errno, connfd>>

ChildEnter(c) ==
    /\ running[c]
    /\ Goto(c, "test", "recv")
    /\ UNCHANGED <<running, parent, handler, pending, errno, connfd, listening, holders>>

ChildLeave(c) == child[c] = "test" /\ ~running[c] /\ End(c)

RecvData(c) ==
    /\ Goto(c, "recv", "send")
    /\ UNCHANGED <<running, parent, handler, pending, errno, connfd, listening, holders>>

RecvEnd(c) == child[c] = "recv" /\ End(c)

SendDone(c) ==
    /\ Goto(c, "send", "test")
    /\ UNCHANGED <<running, parent, handler, pending, errno, connfd, listening, holders>>

SendEnd(c) == child[c] = "send" /\ End(c)

\* SIGINT reaches a child that inherited the parent's handler; recv and send
\* fail with EINTR and the loop's test comes next, unless they had not begun.
ChildSigInt(c) ==
    /\ c \in Serving /\ running[c]
    /\ running' = [running EXCEPT ![c] = FALSE]
    /\ child' \in {child} \cup
           (IF child[c] \in {"recv", "send"} THEN {[child EXCEPT ![c] = "test"]} ELSE {})
    /\ UNCHANGED <<parent, handler, pending, errno, connfd, listening, holders>>

-----------------------------------------------------------------------------

ParentRuns ==
    \/ ParentEnter \/ ParentLeave \/ ParentRetry \/ ParentGivesUp
    \/ Fork \/ ForkFail \/ ParentClose

HandlerRuns == SigChld \/ (\E c \in Child : Reap(c)) \/ HandlerReturn

ChildRuns(c) == CloseListen(c) \/ ChildEnter(c) \/ ChildLeave(c) \/ SendDone(c) \/ SendEnd(c)

Next ==
    \/ ParentRuns
    \/ AcceptFail \/ \E c \in Child : Accept(c)
    \/ SigInt \/ HandlerRuns
    \/ \E c \in Child :
          ChildRuns(c) \/ RecvData(c) \/ RecvEnd(c) \/ ChildSigInt(c)

Spec == Init /\ [][Next]_vars

\* Processes that can run do; pending signals are delivered.  Clients, SIGINT
\* and failures owe nothing: a client may stay connected for ever.
FairSpec ==
    /\ Spec
    /\ WF_vars(ParentRuns)
    /\ WF_vars(HandlerRuns)
    /\ \A c \in Child : WF_vars(ChildRuns(c))

-----------------------------------------------------------------------------
(* Properties *)

\* Every variable keeps its type.
TypeOK ==
    /\ running \in [Process -> BOOLEAN]
    /\ parent \in ParentLabel
    /\ handler \in {"idle", "wait"}
    /\ pending \in BOOLEAN
    /\ errno \in {"other", "EINTR", "ECHILD"}
    /\ connfd \in Child \cup {NoChild}
    /\ child \in [Child -> ChildLabel]
    /\ listening \in SUBSET Process
    /\ holders \in [Child -> SUBSET Process]
    /\ parent \in {"fork", "close"} => connfd \in Child

\* However many children end while one SIGCHLD is pending or being handled, a
\* zombie is never forgotten: a SIGCHLD is still to come or the handler has not
\* yet made its last waitpid.
ZombiesAnnounced == Zombies # {} => pending \/ handler = "wait"

\* The handler's stale errno can end the parent in the middle of its EINTR
\* test, but only when no child is left: no client loses its service by it.
ErrnoRaceSparesClients == parent = "errno" /\ errno # "EINTR" => Children = {}

\* The sockets have the owners the two close calls after fork are for: the
\* parent has no connection open but the one in its hands, a child serves
\* without the listening socket and nobody has the connection of another.
SocketOwners ==
    /\ \A c \in Child :
          /\ Parent \in holders[c] <=> connfd = c
          /\ holders[c] \subseteq {Parent, c}
          /\ c \in holders[c] <=> c \in Serving
          /\ c \in listening => child[c] = "close_listen"
    /\ Parent \in listening <=> Up

\* A child that has ended is reaped.
ZombiesReaped == \A c \in Child : child[c] = "zombie" ~> child[c] = "none"

\* When its child has ended, a client sees the end of its connection: the
\* parent's copy of the descriptor cannot keep it open.
ClientSeesEnd == \A c \in Child : child[c] = "zombie" ~> holders[c] = {}

\* The header's comment announces "the Linux interface that makes sure that
\* the children exit when the parent exits" (line 10).
ChildrenExitWithParent == ~Up ~> Children = {}

-----------------------------------------------------------------------------
(* The inductive invariant behind the safety properties *)

\* connfd names a connection only between accept and close, and before the
\* fork nobody serves it.
ConnfdInv ==
    /\ connfd # NoChild <=> parent \in {"fork", "close"}
    /\ parent = "fork" => child[connfd] = "none"

\* Without a parent there are no zombies and no handler runs.
OrphanInv == ~Up => Zombies = {} /\ handler = "idle"

IInv ==
    /\ TypeOK
    /\ ConnfdInv
    /\ OrphanInv
    /\ SocketOwners
    /\ ZombiesAnnounced
    /\ ErrnoRaceSparesClients

=============================================================================
