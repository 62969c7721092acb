----------------------------- MODULE Heartbeat ------------------------------
(***************************************************************************)
(* The heartbeat demo: any number of tcp_poll_client processes and one     *)
(* tcp_poll_server, joined by their connections.                           *)
(***************************************************************************)
EXTENDS HeartbeatClient

CONSTANTS Slots, NoClient   \* see PollServer

ASSUME ServerAssumption == Slots \in Nat \ {0} /\ NoClient \notin Client

VARIABLES spc, slot, revents, ready, index

Server == INSTANCE PollServer

serverVars == <<spc, slot, revents, ready, index>>
vars == <<clientVars, connection, begun, serverVars>>

At(label) == IF spc = label THEN {Server!Current} ELSE {}

Service == INSTANCE HeartbeatService WITH
    reading <- At("text"),
    owing <- At("reply_length"),
    answering <- At("reply_text")

Init == ClientInit /\ Server!ServerInit /\ begun = {}

Elsewhere == <<clientVars, begun>>

ClientStep ==
    /\ \/ (\E c \in Client : ClientNext(c)) /\ DigitsSettled
       \/ \E c \in Client : DigitsArrive(c)
    /\ UNCHANGED serverVars

ServerStep == Server!ServerNext /\ UNCHANGED Elsewhere

Next == ClientStep \/ ServerStep

Spec == Init /\ [][Next]_vars

\* The server runs, a connection it keeps trying to accept is accepted, and a
\* client finishes the message it has begun.  Nothing is assumed of timeouts,
\* of kills and of what a client does between two messages.
FairSpec ==
    /\ Spec
    /\ WF_vars(Server!ServerWorks /\ UNCHANGED Elsewhere)
    /\ SF_vars(Server!ServerAccepts /\ UNCHANGED Elsewhere)
    /\ \A c \in Client : WF_vars(ClientSends(c) /\ DigitsSettled /\ UNCHANGED serverVars)

-----------------------------------------------------------------------------
(* Properties *)

\* Every variable keeps its type (that of begun is part of BegunInv).
TypeOK ==
    /\ ClientTypeOK
    /\ spc \in Server!ServerLabel
    /\ slot \in [Server!SlotIndex -> Client \cup {NoClient}]
    /\ revents \in SUBSET Server!SlotIndex
    /\ ready \in 0 .. Slots + 1
    /\ index \in 1 .. Slots + 1

\* Open descriptors and slots are the same thing: an accepted connection is in
\* exactly one slot until the server closes it, so none leaks and none is
\* closed twice.
SlotsAreOpenConnections ==
    /\ \A c \in Client : sopen[c] = "open" <=> \E i \in Server!SlotIndex : slot[i] = c
    /\ \A i, j \in Server!SlotIndex : slot[i] = slot[j] /\ slot[i] # NoClient => i = j

\* The server never starts to read from a client that has nothing to say: the
\* slot was reported for the very connection that is in it now, not for one
\* that has been replaced, and ready_number never leads past the last of them.
NoIdleRead ==
    /\ spc = "length" => Server!Readable(Server!Current)
    /\ spc \in {"accept", "scan", "length"} => ready > 0

\* The slots, the poll and the single thread are one way of keeping what
\* HeartbeatService promises.
ImplementsService == Service!Spec

\* What that is worth to the clients: see HeartbeatService.
FramesInStep == Service!FramesInStep
AckMatchesProbe == Service!AckMatchesProbe
NoBrokenPipe == Service!NoBrokenPipe

\* A probing client gets something to read, however busy the others keep the
\* server and however often accept fails, if the others finish what they begin.
ProbeAnswered ==
    \A c \in Client :
        cpc[c] = "select" ~> cpc[c] # "select" \/ down[c] # <<>> \/ Hangup(c)
=============================================================================
