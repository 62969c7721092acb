----------------------------- MODULE EpollEcho ------------------------------
(***************************************************************************)
(* MIO/tcp_epoll_server_LT.c: an epoll server that echoes byte by byte.    *)
(* The listening socket is edge-triggered and one connection is accepted   *)
(* for each of its events; the clients are level-triggered and one byte is *)
(* read for each of theirs.  Its clients are interactive                   *)
(* (tcp_epoll_client.c): they send, read what comes back, and end.         *)
(*                                                                         *)
(* A client names its connection.  An accepted connection is "watched",    *)
(* or not: "refused" when epoll_ctl fails to add it, "eof" once its end    *)
(* has been read, which takes it out of the epoll set and does not close   *)
(* it.                                                                     *)
(***************************************************************************)
EXTENDS Naturals, Sequences, FiniteSets

CONSTANTS
    Client,     \* client processes
    Listening,  \* the listening socket's place among the events
    Files,      \* connections the server may have open (a bound)
    Typed,      \* bytes each client sends at most (a bound)
    Window      \* bytes that fit on their way to a client (a bound)

VARIABLES
    cl,         \* the client: "off", "on", ended with "fin" or with "rst"
    typed,      \* bytes it has sent
    up, down,   \* bytes on their way to the server and back
    bounced,    \* ended clients that the server has sent something to
    reset,      \* ... and whose answer to that, a reset, has arrived
    queue,      \* connections not accepted yet, oldest first
    conn,       \* the server's end of each connection
    edge,       \* sockets something has happened on since epoll_wait told
    events,     \* what is left of the events of the round
    current,    \* the client whose byte is being echoed, or Listening
    spc,        \* the statement the server executes next
    running

clientVars == <<cl, typed>>
wire == <<up, down, bounced, reset, queue>>
serverVars == <<conn, events, current, spc, running>>
vars == <<clientVars, wire, serverVars, edge>>

ConnState == {"none", "queued", "watched", "refused", "eof", "closed"}
Descriptors == {c \in Client : conn[c] \in {"watched", "refused", "eof"}}

Init ==
    /\ cl = [c \in Client |-> "off"] /\ typed = [c \in Client |-> 0]
    /\ up = [c \in Client |-> 0] /\ down = [c \in Client |-> 0]
    /\ bounced = {} /\ reset = {} /\ queue = <<>>
    /\ conn = [c \in Client |-> "none"]
    /\ edge = {} /\ events = {} /\ current = Listening
    /\ spc = "test" /\ running = TRUE

Arrives(s) == edge' = edge \cup {s}

-----------------------------------------------------------------------------
(* The clients *)

Connect(c) ==
    /\ cl[c] # "on" /\ conn[c] \in {"none", "closed"} /\ spc # "exit"
    /\ cl' = [cl EXCEPT ![c] = "on"]
    /\ typed' = [typed EXCEPT ![c] = 0]
    /\ up' = [up EXCEPT ![c] = 0] /\ down' = [down EXCEPT ![c] = 0]
    /\ bounced' = bounced \ {c} /\ reset' = reset \ {c}
    /\ queue' = Append(queue, c)
    /\ conn' = [conn EXCEPT ![c] = "queued"]
    /\ Arrives(Listening)
    /\ UNCHANGED <<events, current, spc, running>>

Send(c) ==
    /\ cl[c] = "on" /\ typed[c] < Typed[c]
    /\ typed' = [typed EXCEPT ![c] = @ + 1]
    /\ up' = [up EXCEPT ![c] = @ + 1]
    /\ Arrives(c)
    /\ UNCHANGED <<cl, down, bounced, reset, queue, serverVars>>

Receive(c) ==
    /\ cl[c] = "on" /\ down[c] > 0
    /\ down' = [down EXCEPT ![c] = 0]
    /\ UNCHANGED <<clientVars, up, bounced, reset, queue, serverVars, edge>>

\* The client ends: with a reset if it has left something unread.
End(c) ==
    /\ cl[c] = "on"
    /\ cl' = [cl EXCEPT ![c] = IF down[c] = 0 THEN "fin" ELSE "rst"]
    /\ down' = [down EXCEPT ![c] = 0]
    /\ Arrives(c)
    /\ UNCHANGED <<typed, up, bounced, reset, queue, serverVars>>

\* What the server has sent to an ended client is answered with a reset.
ResetArrives(c) ==
    /\ c \in bounced \ reset
    /\ reset' = reset \cup {c}
    /\ Arrives(c)
    /\ UNCHANGED <<clientVars, up, down, bounced, queue, serverVars>>

-----------------------------------------------------------------------------
(* The server *)

SGoto(from, to) == spc = from /\ spc' = to

Test ==
    /\ SGoto("test", IF running THEN "wait" ELSE "exit")
    /\ conn' = IF running THEN conn ELSE [c \in Client |-> "closed"]
    /\ queue' = IF running THEN queue ELSE <<>>
    /\ UNCHANGED <<clientVars, up, down, bounced, reset, events, current, running, edge>>

\* SIGINT: epoll_wait, if that is where the server is, returns EINTR.
SigInt ==
    /\ running /\ spc # "exit" /\ running' = FALSE
    /\ spc' = IF spc = "wait" THEN "test" ELSE spc
    /\ UNCHANGED <<clientVars, wire, conn, events, current, edge>>

Broken(c) == cl[c] = "rst" \/ c \in reset

\* Variant: EPOLLIN | EPOLLET for the clients as well.
ReadyOnEdge(c) == c \in edge /\ conn[c] = "watched" /\ (up[c] > 0 \/ cl[c] # "on")

\* Level-triggered: c is reported as long as there is something to read.
Ready(c) == conn[c] = "watched" /\ (up[c] > 0 \/ cl[c] # "on")

\* Edge-triggered: the listening socket is reported once for all that has come.
Due == {[of |-> s, bad |-> FALSE] : s \in edge \cap {Listening}}
       \cup {[of |-> c, bad |-> Broken(c)] : c \in {d \in Client : Ready(d)}}

Wait ==
    /\ Due # {}
    /\ SGoto("wait", "events")
    /\ events' = Due
    /\ edge' = {}
    /\ UNCHANGED <<clientVars, wire, conn, current, running>>

\* The loop takes the events in the order the kernel has put them in.
Take(e) == spc = "events" /\ e \in events /\ events' = events \ {e}

RoundEnds ==
    /\ events = {} /\ SGoto("events", "test")
    /\ UNCHANGED <<clientVars, wire, conn, events, current, running, edge>>

\* One accept for the event; epoll_ctl may fail and the connection stays open.
Accept ==
    /\ Take([of |-> Listening, bad |-> FALSE])
    /\ queue # <<>> /\ Cardinality(Descriptors) < Files
    /\ queue' = Tail(queue)
    /\ \E s \in {"watched", "refused"} : conn' = [conn EXCEPT ![Head(queue)] = s]
    /\ UNCHANGED <<clientVars, up, down, bounced, reset, current, spc, running, edge>>

\* Nothing in the queue, or no descriptor free: the event is used up.
AcceptFail ==
    /\ Take([of |-> Listening, bad |-> FALSE])
    /\ queue = <<>> \/ Cardinality(Descriptors) = Files
    /\ UNCHANGED <<clientVars, wire, conn, current, spc, running, edge>>

\* EPOLL_CTL_DEL and close; what has not been read goes with the connection.
Close(c) ==
    /\ conn' = [conn EXCEPT ![c] = "closed"]
    /\ up' = [up EXCEPT ![c] = 0]
    /\ UNCHANGED <<down, bounced, reset, queue>>

\* EPOLLERR or EPOLLHUP.
ErrorEvent(c) ==
    /\ Take([of |-> c, bad |-> TRUE])
    /\ Close(c)
    /\ UNCHANGED <<clientVars, current, spc, running, edge>>

RecvByte(c) ==
    /\ Take([of |-> c, bad |-> FALSE])
    /\ up[c] > 0
    /\ up' = [up EXCEPT ![c] = @ - 1]
    /\ current' = c /\ spc' = "send"
    /\ UNCHANGED <<clientVars, down, bounced, reset, queue, conn, running, edge>>

\* The end of the connection: out of the epoll set, but not closed.  (recv does
\* not fail here: a reset that comes after epoll_wait leaves what it reported.)
RecvEof(c) ==
    /\ Take([of |-> c, bad |-> FALSE])
    /\ up[c] = 0 /\ cl[c] = "fin"
    /\ conn' = [conn EXCEPT ![c] = "eof"]
    /\ UNCHANGED <<clientVars, wire, current, spc, running, edge>>

\* The byte in hand has been sent, or not.
Sent(next) ==
    /\ SGoto("send", next)
    /\ current' = Listening
    /\ UNCHANGED <<clientVars, events, running, edge>>

SendByte ==
    /\ Sent("events")
    /\ cl[current] = "on" /\ down[current] < Window
    /\ down' = [down EXCEPT ![current] = @ + 1]
    /\ UNCHANGED <<up, bounced, reset, queue, conn>>

\* Variant: EAGAIN takes the connection for ended.
SendWouldBlockForgets ==
    /\ Sent("events")
    /\ cl[current] = "on" /\ down[current] = Window
    /\ conn' = [conn EXCEPT ![current] = "eof"]
    /\ UNCHANGED wire

\* EAGAIN: the byte is dropped.
SendWouldBlock ==
    /\ Sent("events")
    /\ cl[current] = "on" /\ down[current] = Window
    /\ UNCHANGED <<wire, conn>>

SendToEnded ==
    /\ Sent("events")
    /\ cl[current] = "fin" /\ current \notin reset
    /\ bounced' = bounced \cup {current}
    /\ UNCHANGED <<up, down, reset, queue, conn>>

SendFail ==
    /\ Sent("events")
    /\ cl[current] = "rst"
    /\ Close(current)

\* The second byte for an ended client, when the reset that answered the first
\* has come after this round's epoll_wait: SIGPIPE ends the server.
SendSigPipe ==
    /\ Sent("exit")
    /\ cl[current] = "fin" /\ current \in reset
    /\ conn' = [c \in Client |-> "closed"] /\ queue' = <<>>
    /\ UNCHANGED <<up, down, bounced, reset>>

ServerStep ==
    \/ Test \/ Wait \/ RoundEnds \/ Accept \/ AcceptFail
    \/ \E c \in Client : ErrorEvent(c) \/ RecvByte(c) \/ RecvEof(c)
    \/ SendByte \/ SendWouldBlock \/ SendToEnded \/ SendFail \/ SendSigPipe

ClientStep ==
    \E c \in Client : Connect(c) \/ Send(c) \/ Receive(c) \/ End(c) \/ ResetArrives(c)

Next == ServerStep \/ ClientStep \/ SigInt

-----------------------------------------------------------------------------
(* Properties *)

\* Every variable keeps its type.
TypeOK ==
    /\ cl \in [Client -> {"off", "on", "fin", "rst"}]
    /\ typed \in [Client -> Nat] /\ up \in [Client -> Nat]
    /\ \A c \in Client : typed[c] <= Typed[c] /\ up[c] <= Typed[c]
    /\ down \in [Client -> 0 .. Window]
    /\ bounced \in SUBSET Client /\ reset \in SUBSET bounced
    /\ queue \in Seq(Client)
    /\ conn \in [Client -> ConnState]
    /\ edge \in SUBSET (Client \cup {Listening})
    /\ events \in SUBSET [of : Client \cup {Listening}, bad : BOOLEAN]
    /\ current \in Client \cup {Listening}
    /\ spc \in {"test", "wait", "events", "send", "exit"} /\ running \in BOOLEAN

\* The server loses sight of a client only when that has ended, or when epoll_ctl
\* has refused its descriptor: the one that an end of file leaves open is never
\* that of a client still there, and no event of an earlier round, or about an
\* earlier connection, closes one.
NoLiveClientForgotten ==
    \A c \in Client : cl[c] = "on" /\ spc # "exit" =>
        conn[c] \in {"queued", "watched", "refused"}

\* What the events promise: when the listening socket has an event, the oldest
\* connection that waits is accepted, unless all descriptors are used up (the
\* others of a burst wait until somebody connects); and a watched connection's
\* bytes are all read, one per event, without any further ones arriving.
EventsServed ==
    \A c \in Client :
        /\ Listening \in edge /\ queue # <<>> /\ c = Head(queue) ~>
               conn[c] # "queued" \/ Cardinality(Descriptors) = Files
        /\ conn[c] = "watched" /\ up[c] > 0 ~> up[c] = 0 \/ conn[c] # "watched"
=============================================================================
