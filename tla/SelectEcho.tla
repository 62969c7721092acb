----------------------------- MODULE SelectEcho -----------------------------
(***************************************************************************)
(* The select echo servers with the client written for them, tcp_client.c. *)
(* They are one program in three versions: MIO/tcp_server.c builds the set *)
(* for select anew from its table each round, tcp_server1.c keeps a second *)
(* set up to date and copies it, and in tcp_server_select_LT.c what reads  *)
(* from a client is compiled out.                                          *)
(*                                                                         *)
(* make_noblocking is given the slot's old value (line 115), so the        *)
(* connections stay blocking: recv waits for data and send for room.  The  *)
(* order of the table is left open, the scan takes the clients in any.     *)
(***************************************************************************)
EXTENDS Naturals, Sequences, FiniteSets

CONSTANTS
    Client,     \* client processes
    Typist,     \* those whose user types something
    Slots,      \* size of the table (1024)
    Line,       \* bytes of the longest line fgets returns (4095)
    Chunk,      \* bytes recv asks for (4096)
    Window      \* bytes that fit on their way, in either direction

Least(a, b) == IF a < b THEN a ELSE b

VARIABLES
    version,    \* which of the three servers runs
    cl,         \* the client: "off", a statement, ended with "fin" or "rst"
    left,       \* bytes of its line that sendn has to send yet
    heard,      \* clients whose select has reported the connection
    up, down,   \* bytes on their way to the server and back
    reset,      \* ended clients that have answered something with a reset
    queue,      \* connections not accepted yet, oldest first
    hung,       \* connections the server has closed
    cli,        \* clients in the table
    dupli,      \* descriptors in the set of tcp_server1.c
    due,        \* clients in readfd that the scan has not reached
    current,    \* the client being served
    buffer,     \* rindex - windex: bytes each client is still owed
    broken,     \* clients to whom a send has failed
    spc,        \* the statement the server executes next
    running

clientVars == <<cl, left, heard>>
wire == <<up, down, reset, queue>>
serverVars == <<version, hung, cli, dupli, due, current, buffer, broken, spc, running>>
vars == <<clientVars, wire, serverVars>>

Ended(c) == cl[c] \in {"fin", "rst"}

Init ==
    /\ version \in {"rebuild", "copy", "no_recv"}
    /\ cl = [c \in Client |-> "off"] /\ left = [c \in Client |-> 0] /\ heard = {}
    /\ up = [c \in Client |-> 0] /\ down = [c \in Client |-> 0]
    /\ reset = {} /\ queue = <<>> /\ hung = {}
    /\ cli = {} /\ dupli = {} /\ due = {} /\ broken = {}
    /\ current \in Client
    /\ buffer = [c \in Client |-> 0]
    /\ spc = "test" /\ running = TRUE

-----------------------------------------------------------------------------
(* The clients *)

CGoto(c, from, to) == cl[c] = from /\ cl' = [cl EXCEPT ![c] = to]

Connect(c) ==
    /\ CGoto(c, "off", "select") /\ spc # "exit"
    /\ queue' = Append(queue, c)
    /\ UNCHANGED <<left, heard, up, down, reset, serverVars>>

\* select returns: the user has typed a line of n bytes, or there is something
\* on the connection, or both.
ClientSelect(c) ==
    \E n \in 0 .. (IF c \in Typist THEN Line ELSE 0) :
        /\ CGoto(c, "select", IF n > 0 THEN "send" ELSE "recv")
        /\ left' = [left EXCEPT ![c] = n]
        /\ IF down[c] > 0 \/ c \in hung
              THEN heard' = heard \cup {c}
              ELSE n > 0 /\ UNCHANGED heard
        /\ UNCHANGED <<wire, serverVars>>

\* Variant: the connection is not looked at after a line has been sent.
ClientSendSkips(c) ==
    /\ up[c] < Window /\ c \notin hung
    /\ LET n == Least(left[c], Window - up[c])
       IN /\ left' = [left EXCEPT ![c] = @ - n]
          /\ up' = [up EXCEPT ![c] = @ + n]
          /\ CGoto(c, "send", IF n < left[c] THEN "send" ELSE "select")
          /\ heard' = IF n < left[c] THEN heard ELSE heard \ {c}
    /\ UNCHANGED <<down, reset, queue, serverVars>>

\* sendn takes what there is room for, and spins on EAGAIN when there is none.
ClientSend(c) ==
    /\ up[c] < Window /\ c \notin hung
    /\ LET n == Least(left[c], Window - up[c])
       IN /\ left' = [left EXCEPT ![c] = @ - n]
          /\ up' = [up EXCEPT ![c] = @ + n]
          /\ CGoto(c, "send", IF n < left[c] THEN "send"
                              ELSE IF c \in heard THEN "recv" ELSE "select")
    /\ UNCHANGED <<heard, down, reset, queue, serverVars>>

ClientRecv(c) ==
    /\ CGoto(c, "recv", "select") /\ down[c] > 0
    /\ down' = [down EXCEPT ![c] = @ - Least(@, Chunk)]
    /\ heard' = heard \ {c}
    /\ UNCHANGED <<left, up, reset, queue, serverVars>>

\* The client is killed, or ends because the server has closed: with a reset if
\* it has not read everything.
ClientEnd(c) ==
    /\ cl[c] \in {"select", "send", "recv"}
    /\ cl' = [cl EXCEPT ![c] = IF down[c] = 0 THEN "fin" ELSE "rst"]
    /\ left' = [left EXCEPT ![c] = 0] /\ down' = [down EXCEPT ![c] = 0]
    /\ reset' = IF down[c] = 0 THEN reset ELSE reset \cup {c}
    /\ heard' = heard \ {c}
    /\ UNCHANGED <<up, queue, serverVars>>

ClientWorks(c) ==
    \/ down[c] > 0 /\ ClientSelect(c)
    \/ ClientSend(c) \/ ClientRecv(c)
    \/ c \in hung /\ ClientEnd(c)

ClientNext == \E c \in Client : Connect(c) \/ ClientSelect(c) \/ ClientWorks(c) \/ ClientEnd(c)

-----------------------------------------------------------------------------
(* The server *)

SGoto(from, to) == spc = from /\ spc' = to
Unmoved == UNCHANGED <<clientVars, version>>

Test ==
    /\ SGoto("test", IF running THEN "select" ELSE "exit")
    /\ hung' = IF running THEN hung ELSE Client
    /\ UNCHANGED <<wire, cli, dupli, due, current, buffer, broken, running>> /\ Unmoved

Readable(c) == up[c] > 0 \/ Ended(c)

\* The set that is passed to select.
Watching == IF version = "copy" THEN dupli ELSE cli

\* A descriptor that is closed would make select fail and leave the set as it is.
Reported == IF Watching \subseteq cli THEN {c \in Watching : Readable(c)} ELSE cli

Select ==
    /\ queue # <<>> \/ Reported # {}
    /\ SGoto("select", IF queue # <<>> THEN "accept" ELSE "scan")
    /\ due' = Reported
    /\ UNCHANGED <<wire, hung, cli, dupli, current, buffer, broken, running>> /\ Unmoved

\* SIGINT or SIGTERM while the server is at work.
Signal ==
    /\ running /\ running' = FALSE
    /\ spc \notin {"select", "exit"}
    /\ UNCHANGED <<wire, hung, cli, dupli, due, current, buffer, broken, spc>> /\ Unmoved

\* In select it is EINTR, which is logged and then taken for a result: the sets
\* are as they were passed in, with everything in them.
SignalInSelect ==
    /\ running /\ running' = FALSE
    /\ SGoto("select", "accept")
    /\ due' = cli
    /\ UNCHANGED <<wire, hung, cli, dupli, current, buffer, broken>> /\ Unmoved

\* In a send that waits for room it makes sendn return -1.
SignalInSend ==
    /\ running /\ running' = FALSE
    /\ SGoto("send", "scan") /\ ~Ended(current) /\ down[current] = Window
    /\ UNCHANGED <<wire, hung, cli, dupli, due, current, buffer, broken>> /\ Unmoved

\* A new connection is not among those select has reported.  Without a free slot
\* it is closed, and so it is whenever clen, which is not initialised, happens to
\* be negative: accept fails after it has taken the connection.
Accept ==
    /\ SGoto("accept", "scan")
    /\ queue # <<>> /\ queue' = Tail(queue)
    /\ \/ /\ Cardinality(cli) < Slots
          /\ cli' = cli \cup {Head(queue)} /\ dupli' = dupli \cup {Head(queue)}
          /\ UNCHANGED hung
       \/ hung' = hung \cup {Head(queue)} /\ UNCHANGED <<cli, dupli>>
    /\ UNCHANGED <<up, down, reset, due, current, buffer, broken, running>> /\ Unmoved

\* The listening socket does not block.
AcceptFail ==
    /\ SGoto("accept", "scan") /\ queue = <<>>
    /\ UNCHANGED <<wire, hung, cli, dupli, due, current, buffer, broken, running>> /\ Unmoved

ScanEnds ==
    /\ SGoto("scan", "test") /\ due = {}
    /\ UNCHANGED <<wire, hung, cli, dupli, due, current, buffer, broken, running>> /\ Unmoved

\* tcp_server_select_LT.c only logs the event, and is told of it again.
Ignore(c) ==
    /\ version = "no_recv"
    /\ spc = "scan" /\ c \in due /\ due' = due \ {c}
    /\ UNCHANGED <<wire, hung, cli, dupli, current, buffer, broken, spc, running>> /\ Unmoved

Serve(c) ==
    /\ version # "no_recv"
    /\ SGoto("scan", "recv") /\ c \in due /\ due' = due \ {c}
    /\ current' = c
    /\ UNCHANGED <<wire, hung, cli, dupli, buffer, broken, running>> /\ Unmoved

\* What is read is appended to the buffer, which holds one byte less than recv
\* may return (its last is kept for a zero).
Recv ==
    /\ SGoto("recv", "send") /\ up[current] > 0
    /\ LET n == Least(up[current], Chunk)
       IN /\ up' = [up EXCEPT ![current] = @ - n]
          /\ buffer' = [buffer EXCEPT ![current] = Least(@ + n, Chunk - 1)]
    /\ UNCHANGED <<down, reset, queue, hung, cli, dupli, due, current, broken, running>> /\ Unmoved

\* Variant: FD_CLR is forgotten.
DropKeepsBit ==
    /\ SGoto("recv", "scan")
    /\ up[current] = 0 /\ Ended(current)
    /\ cli' = cli \ {current} /\ hung' = hung \cup {current}
    /\ buffer' = [buffer EXCEPT ![current] = 0]
    /\ UNCHANGED <<wire, dupli, due, current, broken, running>> /\ Unmoved

\* End of file or an error: close, and the slot is free.
Drop ==
    /\ SGoto("recv", "scan")
    /\ up[current] = 0 /\ Ended(current)
    /\ cli' = cli \ {current} /\ dupli' = dupli \ {current}
    /\ hung' = hung \cup {current}
    /\ buffer' = [buffer EXCEPT ![current] = 0]
    /\ UNCHANGED <<wire, due, current, broken, running>> /\ Unmoved

\* A second signal, in a recv that waits: EINTR is taken for the client's fault.
SignalInRecv ==
    /\ ~running /\ SGoto("recv", "scan") /\ ~Readable(current)
    /\ cli' = cli \ {current} /\ dupli' = dupli \ {current}
    /\ hung' = hung \cup {current}
    /\ UNCHANGED <<wire, due, current, buffer, broken, running>> /\ Unmoved

\* sendn: the kernel takes what there is room for and makes the server wait for
\* the rest.  All sent: windex and rindex are set back to 0.
Send ==
    /\ spc = "send" /\ ~Ended(current) /\ down[current] < Window
    /\ LET n == Least(buffer[current], Window - down[current])
       IN /\ down' = [down EXCEPT ![current] = @ + n]
          /\ buffer' = [buffer EXCEPT ![current] = @ - n]
          /\ spc' = IF n = buffer[current] THEN "scan" ELSE "send"
    /\ UNCHANGED <<up, reset, queue, hung, cli, dupli, due, current, broken, running>> /\ Unmoved

\* The client has closed; it answers with a reset.
SendToEnded ==
    /\ SGoto("send", "scan") /\ cl[current] = "fin" /\ current \notin reset
    /\ reset' = reset \cup {current}
    /\ buffer' = [buffer EXCEPT ![current] = 0]
    /\ UNCHANGED <<up, down, queue, hung, cli, dupli, due, current, broken, running>> /\ Unmoved

\* sendn returns -1: nothing is done about it, and the bytes stay in the buffer.
SendFail ==
    /\ SGoto("send", "scan") /\ cl[current] = "rst" /\ current \notin broken
    /\ broken' = broken \cup {current}
    /\ UNCHANGED <<wire, hung, cli, dupli, due, current, buffer, running>> /\ Unmoved

\* A send after a reset that followed the client's end, or after one that has
\* been reported already, raises SIGPIPE: one client ends the server for all.
SendSigPipe ==
    /\ SGoto("send", "exit") /\ current \in reset
    /\ cl[current] = "fin" \/ current \in broken
    /\ hung' = Client
    /\ UNCHANGED <<wire, cli, dupli, due, current, buffer, broken, running>> /\ Unmoved

ServerStep ==
    \/ Test \/ Select \/ Accept \/ AcceptFail \/ ScanEnds
    \/ \E c \in Client : Ignore(c) \/ Serve(c)
    \/ Recv \/ Drop \/ Send \/ SendToEnded \/ SendFail \/ SendSigPipe

Next ==
    \/ ClientNext \/ ServerStep
    \/ Signal \/ SignalInSelect \/ SignalInSend \/ SignalInRecv

-----------------------------------------------------------------------------
(* Properties *)

\* Every variable keeps its type.
TypeOK ==
    /\ version \in {"rebuild", "copy", "no_recv"}
    /\ cl \in [Client -> {"off", "select", "send", "recv", "fin", "rst"}]
    /\ left \in [Client -> 0 .. Line] /\ heard \in SUBSET Client
    /\ up \in [Client -> 0 .. Window] /\ down \in [Client -> 0 .. Window]
    /\ reset \in SUBSET Client /\ queue \in Seq(Client) /\ hung \in SUBSET Client
    /\ cli \in SUBSET Client /\ dupli \in SUBSET Client /\ due \in SUBSET cli
    /\ current \in Client /\ broken \in SUBSET Client
    /\ buffer \in [Client -> 0 .. Chunk - 1]
    /\ spc \in {"test", "select", "accept", "scan", "recv", "send", "exit"}
    /\ running \in BOOLEAN

\* The connections are blocking by mistake, and yet the server waits in recv
\* for a client that says nothing in one case only: after a signal has
\* interrupted select, when it is about to end, and does not.
BlocksOnlyWhenStopping == spc = "recv" /\ ~Readable(current) => ~running

\* Server and client both send everything before they read on, each making the
\* other wait, and still never wait for each other: a client reads after every
\* line, and more than a line.
NobodyStuckSending ==
    version # "no_recv" =>
        /\ spc = "send" ~> spc # "send"
        /\ \A c \in Client : cl[c] = "send" ~> cl[c] # "send" \/ ~running
=============================================================================
