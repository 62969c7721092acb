------------------------------ MODULE LockStep ------------------------------
(***************************************************************************)
(* tcp_demo/tcp_server_4.c and tcp_client_4.c, and their twins for IPv6,   *)
(* tcp_server_6.c and tcp_client_6.c.  A server takes one connection after *)
(* the other and exchanges three messages on it, each side calling recv    *)
(* and send once for each: its greeting, the client's number, and as many  *)
(* letters as that says.  A recv of nothing counts as success.             *)
(***************************************************************************)
EXTENDS Naturals, Sequences

CONSTANTS
    Client,     \* client processes
    Connections \* connections each makes, one after the other

VARIABLES
    cl,         \* the client: "idle", "greeting", "number", "letters"
    made,       \* connections it has made
    up,         \* clients whose number is on its way
    down,       \* what is on its way to each client
    fate,       \* the client's end of the connection: "open", "fin", "rst"
    bounced, reset, \* ended clients sent something; ... whose reset has come
    conn,       \* the server's end: "queued", "open", "closed"
    queue,      \* connections not accepted yet, oldest first
    current,    \* the connection being served
    early,      \* clients killed before their greeting was sent
    spc         \* the statement the server executes next

clientVars == <<cl, made>>
wire == <<up, down, fate, bounced, reset, queue>>
vars == <<clientVars, wire, conn, current, early, spc>>

Init ==
    /\ cl = [c \in Client |-> "idle"] /\ made = [c \in Client |-> 0]
    /\ up = {} /\ down = [c \in Client |-> <<>>]
    /\ fate = [c \in Client |-> "fin"] /\ bounced = {} /\ reset = {}
    /\ conn = [c \in Client |-> "closed"] /\ queue = <<>>
    /\ current \in Client /\ early = {} /\ spc = "accept"

-----------------------------------------------------------------------------
(* The clients *)

Connect(c) ==
    /\ cl[c] = "idle" /\ conn[c] = "closed" /\ made[c] < Connections /\ spc # "dead"
    /\ cl' = [cl EXCEPT ![c] = "greeting"] /\ made' = [made EXCEPT ![c] = @ + 1]
    /\ up' = up \ {c} /\ down' = [down EXCEPT ![c] = <<>>]
    /\ fate' = [fate EXCEPT ![c] = "open"]
    /\ bounced' = bounced \ {c} /\ reset' = reset \ {c}
    /\ queue' = Append(queue, c) /\ conn' = [conn EXCEPT ![c] = "queued"]
    /\ early' = early \ {c}
    /\ UNCHANGED <<current, spc>>

\* A recv returns what has arrived, be it a part of what was sent; once the
\* server has closed, it may return nothing, and that is as good.
Recv(c, n) ==
    /\ n \in 0 .. Len(down[c])
    /\ n = 0 => down[c] = <<>> /\ conn[c] = "closed"

RecvGreeting(c, n) ==
    /\ cl[c] = "greeting" /\ Recv(c, n)
    /\ cl' = [cl EXCEPT ![c] = "number"]
    /\ down' = [down EXCEPT ![c] = SubSeq(@, n + 1, Len(@))]
    /\ UNCHANGED <<made, up, fate, bounced, reset, queue, conn, current, early, spc>>

SendNumber(c) ==
    /\ cl[c] = "number"
    /\ cl' = [cl EXCEPT ![c] = "letters"]
    /\ up' = up \cup {c}
    /\ UNCHANGED <<made, down, fate, bounced, reset, queue, conn, current, early, spc>>

\* close, after all but rest has been read: a reset, if that is something.
Close(c, rest) ==
    /\ cl' = [cl EXCEPT ![c] = "idle"]
    /\ fate' = [fate EXCEPT ![c] = IF rest = <<>> THEN "fin" ELSE "rst"]
    /\ down' = [down EXCEPT ![c] = <<>>]
    /\ UNCHANGED <<made, up, bounced, reset, queue, conn, current, spc>>

RecvLetters(c, n) ==
    /\ cl[c] = "letters" /\ Recv(c, n)
    /\ Close(c, SubSeq(down[c], n + 1, Len(down[c])))
    /\ UNCHANGED early

Kill(c) ==
    /\ cl[c] # "idle"
    /\ Close(c, down[c])
    /\ early' = IF conn[c] = "queued" \/ (spc = "greet" /\ current = c)
                    THEN early \cup {c} ELSE early

ResetArrives(c) ==
    /\ c \in bounced \ reset /\ reset' = reset \cup {c}
    /\ UNCHANGED <<clientVars, up, down, fate, bounced, queue, conn, current, early, spc>>

ClientWorks(c) ==
    \/ SendNumber(c)
    \/ \E n \in 0 .. Len(down[c]) : RecvGreeting(c, n) \/ RecvLetters(c, n)

-----------------------------------------------------------------------------
(* The server *)

SGoto(from, to) == spc = from /\ spc' = to

\* The connection in hand is closed, whatever went wrong with it or not.
Done == conn' = [conn EXCEPT ![current] = "closed"]

Accept ==
    /\ SGoto("accept", "greet") /\ queue # <<>>
    /\ current' = Head(queue) /\ queue' = Tail(queue)
    /\ conn' = [conn EXCEPT ![Head(queue)] = "open"]
    /\ UNCHANGED <<clientVars, up, down, fate, bounced, reset, early>>

\* A message goes out; the network may take it apart.
Send(m, next) ==
    /\ SGoto(m, next) /\ fate[current] = "open"
    /\ down' = [down EXCEPT ![current] = @ \o <<m, m>>]
    /\ UNCHANGED <<clientVars, up, fate, bounced, reset, queue, current, early>>

Greet == Send("greet", "recv") /\ UNCHANGED conn
Reply == Send("reply", "accept") /\ Done

\* To a client that has closed: it will answer with a reset.
SendToEnded(m, next) ==
    /\ SGoto(m, next) /\ fate[current] = "fin" /\ current \notin reset
    /\ bounced' = bounced \cup {current}
    /\ UNCHANGED <<clientVars, up, down, fate, reset, queue, current, early>>

GreetEnded == SendToEnded("greet", "recv") /\ UNCHANGED conn
ReplyEnded == SendToEnded("reply", "accept") /\ Done

\* The client has reset the connection: the failure is ignored.
Fail ==
    /\ SGoto(spc, "accept") /\ fate[current] = "rst"
    /\ spc \in {"greet", "reply"} \/ (spc = "recv" /\ current \notin up)
    /\ Done
    /\ UNCHANGED <<clientVars, wire, current, early>>

\* The reset that answered the greeting has come: SIGPIPE ends the server.
SigPipe ==
    /\ SGoto("reply", "dead") /\ fate[current] = "fin" /\ current \in reset
    /\ conn' = [c \in Client |-> "closed"] /\ queue' = <<>>
    /\ UNCHANGED <<clientVars, up, down, fate, bounced, reset, current, early>>

RecvNumber ==
    /\ SGoto("recv", "reply") /\ current \in up
    /\ up' = up \ {current}
    /\ UNCHANGED <<clientVars, down, fate, bounced, reset, queue, conn, current, early>>

\* Variant: a recv of nothing is tried again.
RecvEofRetries ==
    /\ SGoto("recv", "recv") /\ current \notin up /\ fate[current] = "fin"
    /\ UNCHANGED <<clientVars, wire, conn, current, early>>

\* The end of the connection is taken for a message: it asks for six letters.
RecvEof ==
    /\ SGoto("recv", "reply") /\ current \notin up /\ fate[current] = "fin"
    /\ UNCHANGED <<clientVars, wire, conn, current, early>>

ServerStep ==
    \/ Accept \/ Greet \/ GreetEnded \/ RecvNumber \/ RecvEof
    \/ Reply \/ ReplyEnded \/ Fail \/ SigPipe

ClientStep == \E c \in Client : Connect(c) \/ ClientWorks(c) \/ Kill(c) \/ ResetArrives(c)

Next == ClientStep \/ ServerStep

-----------------------------------------------------------------------------
(* Properties *)

\* Every variable keeps its type.
TypeOK ==
    /\ cl \in [Client -> {"idle", "greeting", "number", "letters"}]
    /\ made \in [Client -> 0 .. Connections]
    /\ up \in SUBSET Client /\ down \in [Client -> Seq({"greet", "reply"})]
    /\ fate \in [Client -> {"open", "fin", "rst"}]
    /\ reset \in SUBSET bounced /\ bounced \in SUBSET Client
    /\ conn \in [Client -> {"queued", "open", "closed"}]
    /\ queue \in Seq(Client) /\ current \in Client /\ early \in SUBSET Client
    /\ spc \in {"accept", "greet", "recv", "reply", "dead"}

\* Each side waits for the other in turn, and the server for one client at a
\* time, but nobody waits for ever: every connection is dealt with and closed,
\* however its messages are taken apart and whoever is killed, unless a client
\* was killed before its greeting was sent, which can end the server for all.
EveryConnectionCloses ==
    \A c \in Client :
        conn[c] = "queued" ~>
            \/ conn[c] = "closed" /\ spc # "dead"
            \/ spc = "dead" /\ current \in early
=============================================================================
