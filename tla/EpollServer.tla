---------------------------- MODULE EpollServer -----------------------------
(***************************************************************************)
(* MIO/tcp_epoll_server.c: one thread, one level-triggered epoll set, and  *)
(* non-blocking sockets.  The events of one epoll_wait are handled one     *)
(* after the other and name descriptors, not connections.                  *)
(*                                                                         *)
(* A message is read with MSG_WAITALL, which does not wait on a            *)
(* non-blocking socket: one to four of the five digits, or a text that has *)
(* not arrived, are an error, and the connection is closed.                *)
(***************************************************************************)
EXTENDS Naturals, Sequences

CONSTANTS
    Client,     \* the clients; a client names its connection here
    Files,      \* descriptor numbers 1 .. Files are there for connections
    NoClient    \* what a descriptor that is not open refers to

VARIABLES
    spc,        \* the statement the server executes next
    running,    \* cleared by SIGINT
    table,      \* the connection behind each descriptor
    watched,    \* the descriptors in the epoll set, but for the listening one
    refused,    \* descriptors that EPOLL_CTL_ADD failed for (history variable)
    events,     \* what is left of the array epoll_wait has filled in
    current,    \* the event being handled
    up, down,   \* units on their way to the server and back
    copen,      \* the client's end of the connection is open
    sopen,      \* the server's end: "none", "backlog", "open" or "closed"
    queue,      \* connections not accepted yet, oldest first
    reset,      \* connections whose client has answered with a reset
    begun       \* connections on which one to four digits of a length have
                \* arrived behind the units in up; only their clients change it

serverVars == <<spc, running, table, watched, refused, events, current>>
descriptors == <<table, watched, refused>>

Fd == 1 .. Files
Listening == 0
ServerLabel ==
    {"test", "wait", "event", "text", "drop", "reply_length", "reply_text", "exit"}

\* In the code an event has a descriptor and flags.  "about" is the connection
\* the descriptor referred to when the event was reported: a history variable.
ListenEvent == [fd |-> Listening, about |-> NoClient, broken |-> FALSE]
Event == [fd : Fd, about : Client, broken : BOOLEAN] \cup {ListenEvent}

Free == {f \in Fd : table[f] = NoClient}

\* Data, end of file or an error: what level-triggered epoll reports.
Readable(c) == up[c] # <<>> \/ c \in begun \/ ~copen[c]

\* EPOLLERR or EPOLLHUP, after a reset, or EPOLLIN.
Due ==
    {[fd |-> f, about |-> table[f], broken |-> table[f] \in reset] :
        f \in {g \in watched : Readable(table[g])}}
    \cup (IF queue = <<>> THEN {} ELSE {ListenEvent})

\* The connection the event is applied to.
Target(e) == table[e.fd]

ServerInit ==
    /\ spc = "test"
    /\ running = TRUE
    /\ table = [f \in Fd |-> NoClient]
    /\ watched = {} /\ refused = {}
    /\ events = {}
    /\ current = ListenEvent

SGoto(from, to) == spc = from /\ spc' = to

-----------------------------------------------------------------------------

\* "while (running)".
Test ==
    /\ running
    /\ SGoto("test", "wait")
    /\ UNCHANGED <<running, descriptors, events, current>>
    /\ UNCHANGED <<up, down, copen, sopen, queue, reset>>

\* Variant: "while (1)".
LeaveNever ==
    /\ ~running
    /\ SGoto("test", "wait")
    /\ UNCHANGED <<running, descriptors, events, current>>
    /\ UNCHANGED <<up, down, copen, sopen, queue, reset>>

\* main returns and the kernel closes everything.
Leave ==
    /\ ~running
    /\ SGoto("test", "exit")
    /\ table' = [f \in Fd |-> NoClient] /\ watched' = {} /\ refused' = {}
    /\ sopen' = [c \in Client |-> IF sopen[c] = "none" THEN "none" ELSE "closed"]
    /\ queue' = <<>>
    /\ up' = [c \in Client |-> <<>>]
    /\ UNCHANGED <<running, events, current, down, copen, reset>>

\* SIGINT.  Inside epoll_wait it makes the call fail; the loop then tests
\* running.  Between the test and the call it goes unnoticed until the next
\* event, and a model that has the handler run before "wait" is left has both.
SigInt ==
    /\ spc # "exit" /\ running
    /\ running' = FALSE
    /\ spc' \in IF spc = "wait" THEN {"wait", "test"} ELSE {spc}
    /\ UNCHANGED <<descriptors, events, current, up, down, copen, sopen, queue, reset>>

Wait ==
    /\ Due # {} /\ events' = Due
    /\ SGoto("wait", "event")
    /\ UNCHANGED <<running, descriptors, current, up, down, copen, sopen, queue, reset>>

\* Variant: the loop is left after one event.
FinishBreaks(e) ==
    /\ e \in events
    /\ events' = {} /\ spc' = "test"

\* The end of the loop's body for event e.
Finish(e) ==
    /\ events' = events \ {e}
    /\ spc' = IF events' = {} THEN "test" ELSE "event"

Turn(e) == spc = "event" /\ e \in events /\ current' = e

\* close.  The kernel takes a closed descriptor out of the epoll set.
CloseFd(f) ==
    /\ sopen' = [sopen EXCEPT ![table[f]] = "closed"]
    /\ up' = [up EXCEPT ![table[f]] = <<>>]
    /\ table' = [table EXCEPT ![f] = NoClient]
    /\ watched' = watched \ {f} /\ refused' = refused \ {f}
    /\ UNCHANGED <<running, down, copen, queue, reset>>

\* The first branch: closed without a look at what could still be read.
CloseBroken(e) ==
    /\ Turn(e) /\ e.broken
    /\ CloseFd(e.fd)
    /\ Finish(e)

\* accept returns the lowest number that is free.  If epoll_ctl then fails the
\* error is printed, and the connection stays open with nobody to watch it.
Accept(e, c, f) ==
    /\ Turn(e) /\ e.fd = Listening
    /\ queue # <<>> /\ c = Head(queue) /\ queue' = Tail(queue)
    /\ f \in Free /\ \A g \in Free : f <= g
    /\ sopen' = [sopen EXCEPT ![c] = "open"]
    /\ table' = [table EXCEPT ![f] = c]
    /\ \/ watched' = watched \cup {f} /\ UNCHANGED refused
       \/ refused' = refused \cup {f} /\ UNCHANGED watched
    /\ Finish(e)
    /\ UNCHANGED <<running, up, down, copen, reset>>

AcceptFail(e) ==
    /\ Turn(e) /\ e.fd = Listening
    /\ Finish(e)
    /\ UNCHANGED <<running, descriptors, up, down, copen, sopen, queue, reset>>

Reads(e) == Turn(e) /\ e.fd # Listening /\ ~e.broken

\* The first recv of tcp_recv has its five digits.
RecvLength(e) ==
    /\ Reads(e)
    /\ up[Target(e)] # <<>>
    /\ up' = [up EXCEPT ![Target(e)] = Tail(@)]
    /\ spc' = "text"
    /\ UNCHANGED <<running, descriptors, events, down, copen, sopen, queue, reset>>

\* Variant: the descriptor is taken out of the epoll set and not closed.
DropShortNoClose(e) ==
    /\ Reads(e)
    /\ up[Target(e)] = <<>>
    /\ watched' = watched \ {e.fd}
    /\ Finish(e)
    /\ UNCHANGED <<running, table, refused, up, down, copen, sopen, queue, reset>>

\* It has fewer: either none, because the client is gone, and cannot come back
\* before the close; or those of a length whose other digits are on their way.
DropShort(e) ==
    /\ Reads(e)
    /\ up[Target(e)] = <<>>
    /\ CloseFd(e.fd)
    /\ Finish(e)

\* Variant: the received length is compared with one too many.
RecvTextOffByOne ==
    /\ spc = "text"
    /\ up[Target(current)] # <<>>
    /\ CloseFd(current.fd)
    /\ Finish(current)
    /\ UNCHANGED current

\* Variant: case '1' has no break.
RecvTextFallsThrough ==
    /\ SGoto("text", "reply_length")
    /\ up[Target(current)] # <<>>
    /\ up' = [up EXCEPT ![Target(current)] = Tail(@)]
    /\ UNCHANGED <<running, descriptors, events, current, down, copen, sopen, queue, reset>>

\* '0' is answered; a '1' is written to the record file.
RecvText ==
    /\ spc = "text"
    /\ up[Target(current)] # <<>>
    /\ up' = [up EXCEPT ![Target(current)] = Tail(@)]
    /\ IF Head(up[Target(current)]).of = "probe"
          THEN spc' = "reply_length" /\ UNCHANGED events
          ELSE Finish(current)
    /\ UNCHANGED <<running, descriptors, current, down, copen, sopen, queue, reset>>

\* The text has not arrived: tcp_recv returns -1, whatever errno says.
RecvTextFails ==
    /\ SGoto("text", "drop")
    /\ up[Target(current)] = <<>>
    /\ UNCHANGED <<running, descriptors, events, current>>
    /\ UNCHANGED <<up, down, copen, sopen, queue, reset>>

\* Variant: the index of the loop is not advanced past the event.
DropAgain ==
    /\ SGoto("drop", "event")
    /\ CloseFd(current.fd)
    /\ UNCHANGED <<events, current>>

\* The connection is removed and closed, though the text may be there by now.
Drop ==
    /\ spc = "drop"
    /\ CloseFd(current.fd)
    /\ Finish(current)
    /\ UNCHANGED current

\* send: a client has at most one acknowledgement outstanding, so it never
\* fails with EAGAIN, on which tcp_send would repeat it for ever.
Reply(u) ==
    LET c == Target(current)
    IN /\ down' = IF copen[c] THEN [down EXCEPT ![c] = Append(@, u)] ELSE down
       /\ reset' = IF copen[c] THEN reset ELSE reset \cup {c}
       /\ UNCHANGED <<running, descriptors, current, up, copen, sopen, queue>>

ReplyLength ==
    /\ SGoto("reply_length", "reply_text")
    /\ Reply([part |-> "length", of |-> "ack"])
    /\ UNCHANGED events

ReplyText ==
    /\ spc = "reply_text"
    /\ Reply([part |-> "text", of |-> "ack"])
    /\ Finish(current)

ServerWorks ==
    \/ Test \/ Leave \/ Wait
    \/ \E e \in events : CloseBroken(e) \/ RecvLength(e) \/ DropShort(e)
    \/ RecvText \/ RecvTextFails \/ Drop \/ ReplyLength \/ ReplyText

ServerAccepts == \E e \in events, c \in Client, f \in Fd : Accept(e, c, f)

ServerNext ==
    \/ ServerWorks
    \/ ServerAccepts
    \/ \E e \in events : AcceptFail(e)
    \/ SigInt
=============================================================================
