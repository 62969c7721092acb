--------------------------- MODULE EpollHeartbeat ---------------------------
(***************************************************************************)
(* The heartbeat clients with the epoll server in place of the poll server.*)
(***************************************************************************)
EXTENDS HeartbeatClient

CONSTANTS Files, NoClient   \* see EpollServer

ASSUME ServerAssumption == Files \in Nat \ {0} /\ NoClient \notin Client

VARIABLES spc, running, table, watched, refused, events, current

Server == INSTANCE EpollServer

serverVars == <<spc, running, table, watched, refused, events, current>>
vars == <<clientVars, connection, begun, serverVars>>

Serving(label) == IF spc = label THEN {Server!Target(current)} ELSE {}

Service == INSTANCE HeartbeatService WITH
    reading <- Serving("text") \cup Serving("drop"),
    owing <- Serving("reply_length"),
    answering <- Serving("reply_text")

Init == ClientInit /\ Server!ServerInit /\ begun = {}

\* Once the server has exited, connect is refused.
ClientStep ==
    /\ \/ (\E c \in Client : ClientNext(c)) /\ DigitsSettled
       \/ \E c \in Client : DigitsArrive(c)
    /\ spc = "exit" => queue' = queue
    /\ UNCHANGED serverVars

Elsewhere == <<clientVars, begun>>

ServerStep == Server!ServerNext /\ UNCHANGED Elsewhere

Next == ClientStep \/ ServerStep

Spec == Init /\ [][Next]_vars

\* The server runs, and a connection it keeps trying to accept is accepted.
\* Nothing at all is assumed of the clients.
FairSpec ==
    /\ Spec
    /\ WF_vars(Server!ServerWorks /\ UNCHANGED Elsewhere)
    /\ SF_vars(Server!ServerAccepts /\ UNCHANGED Elsewhere)

-----------------------------------------------------------------------------
(* Properties *)

\* Every variable keeps its type (that of begun is part of BegunInv).
TypeOK ==
    /\ ClientTypeOK
    /\ spc \in Server!ServerLabel
    /\ running \in BOOLEAN
    /\ table \in [Server!Fd -> Client \cup {NoClient}]
    /\ watched \in SUBSET Server!Fd /\ refused \in SUBSET Server!Fd
    /\ events \in SUBSET Server!Event
    /\ current \in Server!Event

\* A number that is closed while a round of events is handled can be another
\* connection's a moment later, but no event left in the array ever hits a
\* connection other than the one it was reported for.
EventsHitTheirConnection ==
    \A e \in events : e.fd # Server!Listening =>
        /\ Server!Target(e) = e.about
        /\ e.fd \in watched

\* An accepted connection has one descriptor, in the epoll set until the server
\* closes it: none is forgotten but those that epoll_ctl refused to add.
OpenMeansWatched ==
    /\ \A c \in Client : sopen[c] = "open" <=> \E f \in Server!Fd : table[f] = c
    /\ \A f, g \in Server!Fd : table[f] = table[g] /\ table[f] # NoClient => f = g
    /\ \A f \in Server!Fd : table[f] # NoClient => f \in watched \cup refused

\* The server ends the connection of a client that is still there only when it
\* has looked in the middle of a message: when some of the digits are there and
\* not all, or between the length and the text; or when it ends itself.  A
\* client of which nothing, or only whole messages, has arrived is never cut
\* off.  (What the network still holds counts as unsent.)
DropsOnlyHalfSent ==
    [][\A c \in Client : copen[c] =>
          /\ spc = "text" /\ spc' = "drop" /\ Server!Target(current) = c =>
                cpc[c] \in {"hello_text", "probe_text"}
          /\ sopen[c] = "open" /\ sopen'[c] = "closed" =>
                \/ spc = "event" /\ c \in begun /\ up[c] = <<>>
                \/ spc = "drop" /\ Server!Target(current) = c
                \/ spc' = "exit"]_vars

\* Nonblocking sockets, events and reused descriptors keep the same promise to
\* the clients as the poll server's slots: see HeartbeatService.
ImplementsService == Service!Spec

Refused(c) == \E f \in refused : table[f] = c

\* A probing client gets something to read although others may stop in the
\* middle of a message for ever, which the poll server would wait for; unless
\* nobody watches its connection.
ProbeAnswered ==
    \A c \in Client :
        cpc[c] = "select" ~>
            cpc[c] # "select" \/ down[c] # <<>> \/ Hangup(c) \/ Refused(c)

\* The two invariants above are not inductive.  This is what they need: a
\* round's events are of different descriptors, the event being handled is
\* still one of them, and between two rounds there are none.
RoundInv ==
    /\ \A f \in watched : table[f] \in Client
    /\ \A e, d \in events : e.fd = d.fd => e = d
    /\ spc \in {"text", "drop", "reply_length", "reply_text"} =>
          current \in events /\ current.fd # Server!Listening
    /\ spc \in {"test", "wait", "exit"} => events = {}

\* What waits to be accepted waits once, and has not been accepted before.
QueueInv ==
    /\ \A c \in Client : sopen[c] = "backlog" <=> \E i \in DOMAIN queue : queue[i] = c
    /\ \A i, j \in DOMAIN queue : queue[i] = queue[j] => i = j

IInv ==
    /\ TypeOK /\ RoundInv /\ QueueInv
    /\ EventsHitTheirConnection /\ OpenMeansWatched

\* After SIGINT the server ends as soon as there is an event to wake it up.
SigIntStops == (~running /\ Server!Due # {}) ~> spc = "exit"
=============================================================================
