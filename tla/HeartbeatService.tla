-------------------------- MODULE HeartbeatService --------------------------
(***************************************************************************)
(* What the heartbeat clients can rely on, whichever server they talk to:  *)
(* it accepts or turns away, reads each connection in order and in two     *)
(* parts, owes one acknowledgement for every probe it has read, sends it,  *)
(* and may close a connection on which it owes nothing, or end.  There     *)
(* are no slots, descriptors, events or program counters.                  *)
(***************************************************************************)
EXTENDS HeartbeatClient

VARIABLES
    reading,    \* connections of which the length has been read, but no text
    owing,      \* connections on which an acknowledgement is due
    answering   \* connections on which it has been sent in part

serverVars == <<reading, owing, answering>>
vars == <<clientVars, connection, serverVars>>

\* At most one of these may be reading, owing or answering at a time.
Idle(c) == c \notin reading \cup owing \cup answering

Init ==
    /\ ClientInit
    /\ reading = {} /\ owing = {} /\ answering = {}

Accept(c) ==
    /\ queue # <<>> /\ c = Head(queue) /\ queue' = Tail(queue)
    /\ sopen' = [sopen EXCEPT ![c] = "open"]
    /\ UNCHANGED <<up, down, copen, reset, serverVars>>

TurnAway(c) ==
    /\ queue # <<>> /\ c = Head(queue) /\ queue' = Tail(queue)
    /\ sopen' = [sopen EXCEPT ![c] = "closed"]
    /\ up' = [up EXCEPT ![c] = <<>>]
    /\ UNCHANGED <<down, copen, reset, serverVars>>

ReadLength(c) ==
    /\ sopen[c] = "open" /\ Idle(c) /\ up[c] # <<>>
    /\ up' = [up EXCEPT ![c] = Tail(@)]
    /\ reading' = reading \cup {c}
    /\ UNCHANGED <<down, copen, sopen, queue, reset, owing, answering>>

ReadText(c) ==
    /\ c \in reading /\ up[c] # <<>>
    /\ up' = [up EXCEPT ![c] = Tail(@)]
    /\ reading' = reading \ {c}
    /\ owing' = IF Head(up[c]).of = "probe" THEN owing \cup {c} ELSE owing
    /\ UNCHANGED <<down, copen, sopen, queue, reset, answering>>

\* What is sent to a client that is gone is answered with a reset.
Answer(c, u) ==
    /\ down' = IF copen[c] THEN [down EXCEPT ![c] = Append(@, u)] ELSE down
    /\ reset' = IF copen[c] THEN reset ELSE reset \cup {c}
    /\ UNCHANGED <<up, copen, sopen, queue, reading>>

AnswerLength(c) ==
    /\ c \in owing
    /\ owing' = owing \ {c} /\ answering' = answering \cup {c}
    /\ Answer(c, Length("ack"))

AnswerText(c) ==
    /\ c \in answering
    /\ answering' = answering \ {c}
    /\ Answer(c, Text("ack"))
    /\ UNCHANGED owing

Close(c) ==
    /\ sopen[c] = "open"
    /\ c \notin owing \cup answering
    /\ sopen' = [sopen EXCEPT ![c] = "closed"]
    /\ up' = [up EXCEPT ![c] = <<>>]
    /\ reading' = reading \ {c}
    /\ UNCHANGED <<down, copen, queue, reset, owing, answering>>

\* The client is gone in the middle of a message: the server gives up reading.
GiveUp(c) ==
    /\ c \in reading /\ up[c] = <<>> /\ ~copen[c]
    /\ reading' = reading \ {c}
    /\ UNCHANGED <<connection, owing, answering>>

\* The server ends, owing nothing to anybody.
Stop ==
    /\ owing \cup answering = {}
    /\ sopen' = [c \in Client |-> IF sopen[c] = "none" THEN "none" ELSE "closed"]
    /\ up' = [c \in Client |-> <<>>]
    /\ queue' = <<>>
    /\ reading' = {}
    /\ UNCHANGED <<down, copen, reset, owing, answering>>

ServerNext ==
    \/ Stop
    \/ \E c \in Client :
        \/ Accept(c) \/ TurnAway(c) \/ ReadLength(c) \/ ReadText(c)
        \/ AnswerLength(c) \/ AnswerText(c) \/ Close(c) \/ GiveUp(c)

Next ==
    \/ \E c \in Client : ClientNext(c) /\ UNCHANGED serverVars
    \/ ServerNext /\ UNCHANGED clientVars

Spec == Init /\ [][Next]_vars

-----------------------------------------------------------------------------
(* What follows from this for the clients *)

\* Probes of c that are on their way, being answered, or answered on the way.
Outstanding(c) ==
    {<<"up", k>> : k \in {i \in DOMAIN up[c] : up[c][i] = Text("probe")}}
    \cup {<<"down", k>> : k \in {i \in DOMAIN down[c] : down[c][i] = Text("ack")}}
    \cup (IF c \in owing \cup answering THEN {<<"server", 0>>} ELSE {})

\* The '$' a client takes for the answer to its probe is the answer to that
\* probe and not a late one to an earlier: no second probe is ever sent while
\* one is outstanding.
AckMatchesProbe ==
    \A c \in Client : copen[c] =>
        /\ cpc[c] \notin {"select", "ack_length", "ack_text"} => Outstanding(c) = {}
        /\ \A p, q \in Outstanding(c) : p = q

\* No acknowledgement is ever due on a connection that its client has reset,
\* because a client is owed no more than one and a client that leaves something
\* unread is owed none: the servers ignore no SIGPIPE and survive all the same.
NoBrokenPipe == \A c \in Client : c \in owing => c \notin reset

\* Two sends in a row do not blur: what is taken for a length is one, and what
\* is taken for a text is the one the length announced.
FramesInStep ==
    \A c \in Client : sopen[c] = "open" /\ up[c] # <<>> =>
        /\ Head(up[c]).part = IF c \in reading THEN "text" ELSE "length"
        /\ \A k \in 1 .. Len(up[c]) - 1 :
              /\ up[c][k].part # up[c][k + 1].part
              /\ up[c][k].part = "length" => up[c][k].of = up[c][k + 1].of
=============================================================================
