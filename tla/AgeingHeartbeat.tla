-------------------------- MODULE AgeingHeartbeat ---------------------------
(***************************************************************************)
(* tcp_demo/tcp_server.c with the heartbeat clients (tcp_demo/tcp_client.c *)
(* is the one written for it): the parent accepts one connection a second  *)
(* and forks a child for it; the child reads message by message and closes *)
(* the connection when nothing has come for the ageing time.               *)
(*                                                                         *)
(* A connection is closed for its client when no process has it open any   *)
(* more.  Children are reaped by the kernel (SIGCHLD is ignored with       *)
(* SA_NOCLDWAIT), so no signal interrupts the parent.                      *)
(***************************************************************************)
EXTENDS HeartbeatClient

CONSTANT NoClient   \* connfd before the first accept

ASSUME ServerAssumption == NoClient \notin Client

VARIABLES
    parent,     \* the statement the parent executes next
    connfd,     \* the connection in the parent's variable
    kept,       \* connections the parent has a descriptor of
    child       \* the statement of each connection's child, or "none"

serverVars == <<parent, connfd, kept, child>>
vars == <<clientVars, connection, begun, serverVars>>

ParentLabel == {"poll", "accept", "fork", "close", "sleep"}
ChildLabel == {"none", "select", "aged", "length", "text", "reply_length", "reply_text"}

Children(label) == {c \in Client : child[c] = label}

Service == INSTANCE HeartbeatService WITH
    reading <- Children("text"),
    owing <- Children("reply_length"),
    answering <- Children("reply_text")

Init ==
    /\ ClientInit /\ begun = {}
    /\ parent = "poll" /\ connfd = NoClient /\ kept = {}
    /\ child = [c \in Client |-> "none"]

PGoto(from, to) == parent = from /\ parent' = to
KGoto(c, from, to) == child[c] = from /\ child' = [child EXCEPT ![c] = to]

-----------------------------------------------------------------------------
(* The parent *)

Poll ==
    /\ PGoto("poll", "accept") /\ queue # <<>>
    /\ UNCHANGED <<connfd, kept, child, connection>>

Accept ==
    /\ PGoto("accept", "fork") /\ queue # <<>>
    /\ connfd' = Head(queue) /\ queue' = Tail(queue)
    /\ kept' = kept \cup {Head(queue)}
    /\ sopen' = [sopen EXCEPT ![Head(queue)] = "open"]
    /\ UNCHANGED <<child, up, down, copen, reset>>

AcceptFail ==
    /\ PGoto("accept", "sleep")
    /\ UNCHANGED <<connfd, kept, child, connection>>

Fork ==
    /\ PGoto("fork", "close")
    /\ child' = [child EXCEPT ![connfd] = "select"]
    /\ UNCHANGED <<connfd, kept, connection>>

\* "fork error": the parent goes on with the connection open and nobody to
\* serve it.
ForkFail ==
    /\ PGoto("fork", "sleep")
    /\ UNCHANGED <<connfd, kept, child, connection>>

\* The last descriptor of c is closed: its end is sent, and what has not been
\* read is thrown away.
LastClose(c) ==
    /\ sopen' = [sopen EXCEPT ![c] = "closed"]
    /\ up' = [up EXCEPT ![c] = <<>>]
    /\ UNCHANGED <<down, copen, queue, reset>>

\* Variant: the parent does not close its copy.
ParentCloseForgotten ==
    /\ PGoto("close", "sleep")
    /\ UNCHANGED <<connfd, kept, child, connection>>

ParentClose ==
    /\ PGoto("close", "sleep")
    /\ kept' = kept \ {connfd}
    /\ IF child[connfd] = "none" THEN LastClose(connfd) ELSE UNCHANGED connection
    /\ UNCHANGED <<connfd, child>>

\* Variant: the parent waits for the child it has forked.
RestTillChildEnds ==
    /\ connfd # NoClient => child[connfd] = "none"
    /\ PGoto("sleep", "poll")
    /\ UNCHANGED <<connfd, kept, child, connection>>

Rest ==
    /\ PGoto("sleep", "poll")
    /\ UNCHANGED <<connfd, kept, child, connection>>

-----------------------------------------------------------------------------
(* The child that serves c *)

\* Data or end of file, which select reports.
Readable(c) == up[c] # <<>> \/ c \in begun \/ ~copen[c]

ChildReady(c) ==
    /\ Readable(c)
    /\ KGoto(c, "select", "length")
    /\ UNCHANGED connection

\* Variant: an alarm, which runs on while a message is read and answered, in
\* the place of the timeout of select.
AlarmRings(c) ==
    /\ child[c] \notin {"none", "aged"}
    /\ child' = [child EXCEPT ![c] = "aged"]
    /\ UNCHANGED connection

\* select returns 0: nothing has arrived for the ageing time, up to now.
ChildTimeout(c) ==
    /\ ~Readable(c)
    /\ KGoto(c, "select", "aged")
    /\ UNCHANGED connection

\* The child closes and exits; the parent may have the connection open still.
ChildExit(c) ==
    /\ child' = [child EXCEPT ![c] = "none"]
    /\ IF c \in kept THEN UNCHANGED connection ELSE LastClose(c)

CloseAged(c) == child[c] = "aged" /\ ChildExit(c)

RecvLengthOf(c) ==
    /\ KGoto(c, "length", "text")
    /\ up[c] # <<>>
    /\ up' = [up EXCEPT ![c] = Tail(@)]
    /\ UNCHANGED <<down, copen, sopen, queue, reset>>

\* A '0' is answered; a '1' goes to the child's file, the rest to the log.
RecvText(c) ==
    /\ up[c] # <<>>
    /\ KGoto(c, "text", IF Head(up[c]).of = "probe" THEN "reply_length" ELSE "select")
    /\ up' = [up EXCEPT ![c] = Tail(@)]
    /\ UNCHANGED <<down, copen, sopen, queue, reset>>

\* Variant: an error of tcp_recv ends the switch and not the loop.
RecvShortIgnored(c) ==
    /\ child[c] \in {"length", "text"}
    /\ up[c] = <<>> /\ ~copen[c]
    /\ child' = [child EXCEPT ![c] = "select"]
    /\ UNCHANGED connection

\* tcp_recv returns -1, the client is gone: OUT_LOOP.
RecvShort(c) ==
    /\ child[c] \in {"length", "text"}
    /\ up[c] = <<>> /\ ~copen[c]
    /\ ChildExit(c)

\* One send of the acknowledgement.  An error is logged and ignored; sent to a
\* client that is gone it is answered with a reset.
Reply(c, u) ==
    /\ down' = IF copen[c] THEN [down EXCEPT ![c] = Append(@, u)] ELSE down
    /\ reset' = IF copen[c] THEN reset ELSE reset \cup {c}
    /\ UNCHANGED <<up, copen, sopen, queue>>

ReplyLength(c) == KGoto(c, "reply_length", "reply_text") /\ Reply(c, Length("ack"))

ReplyText(c) == KGoto(c, "reply_text", "select") /\ Reply(c, Text("ack"))

-----------------------------------------------------------------------------

\* What the processes do of their own accord.
ParentWorks == Poll \/ Fork \/ ForkFail \/ ParentClose \/ Rest
ParentStep == ParentWorks \/ Accept \/ AcceptFail

ChildWorks(c) ==
    /\ \/ ChildReady(c) \/ CloseAged(c)
       \/ RecvLengthOf(c) \/ RecvText(c) \/ RecvShort(c)
       \/ ReplyLength(c) \/ ReplyText(c)
    /\ UNCHANGED <<parent, connfd, kept>>

ChildAges(c) == ChildTimeout(c) /\ UNCHANGED <<parent, connfd, kept>>

ChildStep == \E c \in Client : ChildWorks(c) \/ ChildAges(c)
ClientStep ==
    /\ \/ (\E c \in Client : ClientNext(c)) /\ DigitsSettled
       \/ \E c \in Client : DigitsArrive(c)
    /\ UNCHANGED serverVars

Elsewhere == <<clientVars, begun>>

Next ==
    \/ ClientStep
    \/ (ParentStep \/ ChildStep) /\ UNCHANGED Elsewhere

Spec == Init /\ [][Next]_vars

\* Every process of the server runs, and accept does not fail for ever; fork
\* may.  Nothing is assumed of the clients, nor of when an ageing time is up.
FairSpec ==
    /\ Spec
    /\ WF_vars(ParentWorks /\ UNCHANGED Elsewhere)
    /\ SF_vars(Accept /\ UNCHANGED Elsewhere)
    /\ \A c \in Client : WF_vars(ChildWorks(c) /\ UNCHANGED Elsewhere)

-----------------------------------------------------------------------------
(* Properties *)

\* Every variable keeps its type (that of begun is part of BegunInv).
TypeOK ==
    /\ ClientTypeOK
    /\ parent \in ParentLabel
    /\ connfd \in Client \cup {NoClient}
    /\ kept \in SUBSET Client
    /\ child \in [Client -> ChildLabel]

\* The parent has an open connection of c that nobody serves or will serve.
Forgotten(c) ==
    /\ c \in kept /\ child[c] = "none"
    /\ ~(parent \in {"fork", "close"} /\ connfd = c)

\* An open connection is some process's, and while its child serves it the
\* parent has a copy only until its own close: the end of the child is the end
\* of the connection for the client.  What a failing fork leaves over is the
\* parent's for good, and it never gets a child.
ConnectionsHaveOwners ==
    /\ \A c \in Client : sopen[c] = "open" <=> c \in kept \/ child[c] # "none"
    /\ \A c \in kept : child[c] # "none" => parent = "close" /\ connfd = c

\* Ageing does not break what the clients are promised: a child closes only
\* where it owes no acknowledgement, whatever arrives between the timeout of
\* its select and its close.
ImplementsService == Service!Spec

\* A probing client gets its answer or the end of its connection although the
\* parent sleeps between two accepts and other clients stop in the middle of a
\* message, which blocks their own child only; and what a client that has gone
\* leaves behind, descriptors and child, is cleared away.  All this unless fork
\* has failed for it.
EveryClientServed ==
    \A c \in Client :
        /\ cpc[c] = "select" ~>
               cpc[c] # "select" \/ down[c] # <<>> \/ Hangup(c) \/ Forgotten(c)
        /\ ~copen[c] /\ sopen[c] = "open" ~> sopen[c] = "closed" \/ Forgotten(c)
=============================================================================
