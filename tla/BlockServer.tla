---------------------------- MODULE BlockServer -----------------------------
(***************************************************************************)
(* MIO/tcp_block_server.c, which waits for connections with select, sleeps *)
(* ten seconds and then calls an accept that blocks, and its clients: one  *)
(* that sends and reads its echo, and tcp_linger_client.c, which resets    *)
(* its connection as soon as it has it.  What becomes of a connection that *)
(* is reset before it is accepted is the platform's choice: it may go.     *)
(***************************************************************************)
EXTENDS Naturals, Sequences, FiniteSets

CONSTANTS
    Client,     \* client processes
    Table,      \* connections that status[] has room for
    Window      \* bytes that fit on their way, in either direction

Fewer(a, b) == IF a < b THEN a ELSE b

VARIABLES
    cl,         \* the client: "off", "on", "linger", ended with "fin" or "rst"
    up, down,   \* bytes on their way to the server and back
    reset,      \* ended clients that have answered something with a reset
    queue,      \* connections not accepted yet, oldest first
    conn,       \* the server's end of each connection
    due,        \* clients in rfd that the scan has not reached
    current,    \* the client being served
    owed,       \* bytes of its message that send has not passed on yet
    taken,      \* a connection has left the queue unaccepted since select
    spc,        \* the statement the server executes next
    running

wire == <<up, down, reset, queue>>
vars == <<cl, wire, conn, due, current, owed, taken, spc, running>>

Status == {c \in Client : conn[c] = "open"}
Over(c) == cl[c] \in {"fin", "rst"}

Init ==
    /\ cl = [c \in Client |-> "off"]
    /\ up = [c \in Client |-> 0] /\ down = [c \in Client |-> 0]
    /\ reset = {} /\ queue = <<>> /\ conn = [c \in Client |-> "none"]
    /\ due = {} /\ current \in Client /\ owed = 0 /\ taken = FALSE
    /\ spc = "test" /\ running = TRUE

-----------------------------------------------------------------------------
(* The clients *)

Connect(c) ==
    /\ cl[c] \in {"off", "fin", "rst"} /\ conn[c] \in {"none", "closed"} /\ spc # "exit"
    /\ \E k \in {"on", "linger"} : cl' = [cl EXCEPT ![c] = k]
    /\ up' = [up EXCEPT ![c] = 0] /\ down' = [down EXCEPT ![c] = 0]
    /\ reset' = reset \ {c}
    /\ queue' = Append(queue, c) /\ conn' = [conn EXCEPT ![c] = "queued"]
    /\ UNCHANGED <<due, current, owed, taken, spc, running>>

Say(c) ==
    /\ cl[c] = "on" /\ up[c] < Window
    /\ up' = [up EXCEPT ![c] = @ + 1]
    /\ UNCHANGED <<cl, down, reset, queue, conn, due, current, owed, taken, spc, running>>

Hear(c) ==
    /\ cl[c] = "on" /\ down[c] > 0
    /\ down' = [down EXCEPT ![c] = 0]
    /\ UNCHANGED <<cl, up, reset, queue, conn, due, current, owed, taken, spc, running>>

\* The client ends: with a reset if it has left something unread.
End(c) ==
    /\ cl[c] = "on"
    /\ cl' = [cl EXCEPT ![c] = IF down[c] = 0 THEN "fin" ELSE "rst"]
    /\ down' = [down EXCEPT ![c] = 0]
    /\ UNCHANGED <<up, reset, queue, conn, due, current, owed, taken, spc, running>>

\* SO_LINGER with a zero timeout: close sends a reset.
Linger(c) ==
    /\ cl[c] = "linger" /\ cl' = [cl EXCEPT ![c] = "rst"]
    /\ \/ UNCHANGED <<queue, conn, taken>>
       \/ /\ conn[c] = "queued" /\ conn' = [conn EXCEPT ![c] = "closed"]
          /\ queue' = SelectSeq(queue, LAMBDA d : d # c)
          /\ taken' = TRUE
    /\ UNCHANGED <<up, down, reset, due, current, owed, spc, running>>

-----------------------------------------------------------------------------
(* The server *)

SGoto(from, to) == spc = from /\ spc' = to

Test ==
    /\ SGoto("test", IF running THEN "select" ELSE "exit")
    /\ conn' = IF running THEN conn ELSE [c \in Client |-> "closed"]
    /\ queue' = IF running THEN queue ELSE <<>>
    /\ UNCHANGED <<cl, up, down, reset, due, current, owed, taken, running>>

Readable(c) == up[c] > 0 \/ Over(c)

\* Variant: the listening socket is taken to be among what is reported.
SelectAccepts ==
    /\ queue # <<>> \/ \E c \in Status : Readable(c)
    /\ SGoto("select", "sleep")
    /\ due' = {c \in Status : Readable(c)} /\ taken' = FALSE
    /\ UNCHANGED <<cl, wire, conn, current, owed, running>>

Select ==
    /\ queue # <<>> \/ \E c \in Status : Readable(c)
    /\ SGoto("select", IF queue # <<>> THEN "sleep" ELSE "scan")
    /\ due' = {c \in Status : Readable(c)} /\ taken' = FALSE
    /\ UNCHANGED <<cl, wire, conn, current, owed, running>>

\* SIGINT cuts select, sleep and a waiting accept short.
SigInt ==
    /\ spc # "exit" /\ running' = FALSE
    /\ spc' = CASE spc = "select" -> "test"
                [] spc = "sleep" -> "accept"
                [] spc = "accept" /\ queue = <<>> -> "scan"
                [] OTHER -> spc
    /\ UNCHANGED <<cl, wire, conn, due, current, owed, taken>>

\* A send that waits for room is cut short too: -1, which closes the connection,
\* or, if a part of the message has been taken already, the number of its bytes.
SigIntInSend ==
    /\ running' = FALSE
    /\ SGoto("send", "scan") /\ cl[current] = "on" /\ down[current] = Window
    /\ \E s \in {"open", "closed"} : conn' = [conn EXCEPT ![current] = s]
    /\ UNCHANGED <<cl, wire, due, current, owed, taken>>

Sleep ==
    /\ SGoto("sleep", "accept")
    /\ UNCHANGED <<cl, wire, conn, due, current, owed, taken, running>>

\* A descriptor beyond the table is closed.
Accept ==
    /\ SGoto("accept", "scan")
    /\ queue # <<>> /\ queue' = Tail(queue)
    /\ conn' = [conn EXCEPT ![Head(queue)] =
                    IF Cardinality(Status) < Table THEN "open" ELSE "closed"]
    /\ UNCHANGED <<cl, up, down, reset, due, current, owed, taken, running>>

ScanEnds ==
    /\ SGoto("scan", "test") /\ due = {}
    /\ UNCHANGED <<cl, wire, conn, due, current, owed, taken, running>>

Recv(c) ==
    /\ SGoto("scan", "send") /\ c \in due /\ due' = due \ {c}
    /\ up[c] > 0 /\ up' = [up EXCEPT ![c] = 0]
    /\ current' = c /\ owed' = up[c]
    /\ UNCHANGED <<cl, down, reset, queue, conn, taken, running>>

\* End of file or a reset.
RecvEnd(c) ==
    /\ SGoto("scan", "scan") /\ c \in due /\ due' = due \ {c}
    /\ up[c] = 0 /\ Over(c)
    /\ conn' = [conn EXCEPT ![c] = "closed"]
    /\ UNCHANGED <<cl, wire, current, owed, taken, running>>

\* The send blocks until everything has been taken.
Send ==
    /\ spc = "send" /\ cl[current] = "on" /\ down[current] < Window
    /\ LET n == Fewer(owed, Window - down[current])
       IN /\ down' = [down EXCEPT ![current] = @ + n]
          /\ owed' = owed - n
          /\ spc' = IF n = owed THEN "scan" ELSE "send"
    /\ UNCHANGED <<cl, up, reset, queue, conn, due, current, taken, running>>

\* The client has closed; it answers with a reset.
SendToEnded ==
    /\ SGoto("send", "scan") /\ cl[current] = "fin" /\ current \notin reset
    /\ reset' = reset \cup {current}
    /\ UNCHANGED <<cl, up, down, queue, conn, due, current, owed, taken, running>>

SendFail ==
    /\ SGoto("send", "scan") /\ cl[current] = "rst"
    /\ conn' = [conn EXCEPT ![current] = "closed"]
    /\ UNCHANGED <<cl, wire, due, current, owed, taken, running>>

\* Once the reset is there a further send raises SIGPIPE, which ends the server.
SendSigPipe ==
    /\ SGoto("send", "exit") /\ current \in reset
    /\ conn' = [c \in Client |-> "closed"] /\ queue' = <<>> /\ due' = {}
    /\ UNCHANGED <<cl, up, down, reset, current, owed, taken, running>>

ServerStep ==
    \/ Test \/ Select \/ Sleep \/ Accept \/ ScanEnds
    \/ \E c \in Client : Recv(c) \/ RecvEnd(c)
    \/ Send \/ SendToEnded \/ SendFail \/ SendSigPipe

ClientStep == \E c \in Client : Connect(c) \/ Say(c) \/ Hear(c) \/ End(c) \/ Linger(c)

Next == ClientStep \/ ServerStep \/ SigInt \/ SigIntInSend

-----------------------------------------------------------------------------
(* Properties *)

\* Every variable keeps its type.
TypeOK ==
    /\ cl \in [Client -> {"off", "on", "linger", "fin", "rst"}]
    /\ up \in [Client -> 0 .. Window] /\ down \in [Client -> 0 .. Window]
    /\ reset \in SUBSET Client /\ queue \in Seq(Client)
    /\ conn \in [Client -> {"none", "queued", "open", "closed"}]
    /\ due \in SUBSET Status /\ current \in Client /\ owed \in 0 .. Window
    /\ taken \in BOOLEAN /\ running \in BOOLEAN
    /\ spc \in {"test", "select", "sleep", "accept", "scan", "send", "exit"}

\* One client's data waits for another client in one case only: the connection
\* that select reported was taken back during the ten seconds' sleep, and accept
\* waits for the next one.  Otherwise it is read, whatever the others do.
ServedUnlessTakenBack ==
    \A c \in Client :
        conn[c] = "open" /\ up[c] > 0 ~>
            \/ up[c] = 0 \/ conn[c] # "open"
            \/ spc = "accept" /\ queue = <<>> /\ taken
=============================================================================
