-------------------------- MODULE HeartbeatClient --------------------------
(***************************************************************************)
(* tcp_demo/tcp_poll_client.c (and tcp_client.c, the same loop): a client  *)
(* that sends a greeting again and again and, from the ProbeAfter-th on,   *)
(* a heartbeat probe after each greeting, whose acknowledgement it waits   *)
(* for with a timeout.                                                     *)
(*                                                                         *)
(* A message travels as two units, the five digits that announce its       *)
(* length and its text, because tcp_recv reads it with two recv calls; the *)
(* receiver may find the first unit and have to wait for the second.  A    *)
(* unit is in up when all of it has arrived; of a length, a few digits may *)
(* be there before.                                                        *)
(***************************************************************************)
EXTENDS Naturals, Sequences

CONSTANTS
    Client,     \* the client processes
    ProbeAfter  \* greetings before a probe is due (3 in the code)

ASSUME ClientAssumption == ProbeAfter \in Nat \ {0}

VARIABLES
    cpc,        \* the statement each client executes next
    sends,      \* send_times of each client
    up,         \* units on their way from each client to the server
    down,       \* units on their way back
    copen,      \* the client's end of the connection is open
    sopen,      \* the server's end: "none", "backlog", "open" or "closed"
    queue,      \* connections the server has not accepted, oldest first
    reset,      \* connections whose client has answered with a reset
    begun       \* connections on which one to four digits of a length have
                \* arrived, behind the units in up

connection == <<up, down, copen, sopen, queue, reset>>
clientVars == <<cpc, sends>>

Message == {"hello", "probe", "ack"}
Unit == [part : {"length", "text"}, of : Message]
Length(m) == [part |-> "length", of |-> m]
Text(m) == [part |-> "text", of |-> m]

ClientLabel == {"off", "hello_length", "hello_text", "count", "probe_length",
                "probe_text", "select", "ack_length", "ack_text", "sleep"}

\* The types of the clients' and the connections' variables, for the modules
\* that add a server.
ClientTypeOK ==
    /\ cpc \in [Client -> ClientLabel]
    /\ sends \in [Client -> 0 .. ProbeAfter]
    /\ up \in [Client -> Seq(Unit)]
    /\ down \in [Client -> Seq(Unit)]
    /\ copen \in [Client -> BOOLEAN]
    /\ sopen \in [Client -> {"none", "backlog", "open", "closed"}]
    /\ queue \in Seq(Client)
    /\ reset \in SUBSET Client

\* The client that sends a length has not sent or not got through all of it.
AtLength(c) == cpc[c] \in {"hello_length", "probe_length"}

\* Only then are there some of its digits.
BegunInv == begun \subseteq {c \in Client : AtLength(c)}

\* The server can no longer send anything to c: it has closed its end.
Hangup(c) == sopen[c] = "closed"

ClientInit ==
    /\ cpc = [c \in Client |-> "off"]
    /\ sends = [c \in Client |-> 0]
    /\ up = [c \in Client |-> <<>>]
    /\ down = [c \in Client |-> <<>>]
    /\ copen = [c \in Client |-> FALSE]
    /\ sopen = [c \in Client |-> "none"]
    /\ queue = <<>>
    /\ reset = {}

CGoto(c, from, to) == cpc[c] = from /\ cpc' = [cpc EXCEPT ![c] = to]

-----------------------------------------------------------------------------

\* A new client process connects; the connection waits in the listen queue.
Connect(c) ==
    /\ CGoto(c, "off", "hello_length")
    /\ sopen[c] \in {"none", "closed"}
    /\ sends' = [sends EXCEPT ![c] = 0]
    /\ copen' = [copen EXCEPT ![c] = TRUE]
    /\ sopen' = [sopen EXCEPT ![c] = "backlog"]
    /\ queue' = Append(queue, c)
    /\ up' = [up EXCEPT ![c] = <<>>]
    /\ down' = [down EXCEPT ![c] = <<>>]
    /\ reset' = reset \ {c}

\* One send of tcp_send.  What is sent after the server has closed goes nowhere.
Emit(c, u) ==
    /\ up' = IF Hangup(c) THEN up ELSE [up EXCEPT ![c] = Append(@, u)]
    /\ UNCHANGED <<down, copen, sopen, queue, reset>>

SendHelloLength(c) ==
    /\ CGoto(c, "hello_length", "hello_text")
    /\ Emit(c, Length("hello"))
    /\ UNCHANGED sends

SendHelloText(c) ==
    /\ CGoto(c, "hello_text", "count")
    /\ Emit(c, Text("hello"))
    /\ UNCHANGED sends

\* tcp_send returned 0; "if (send_times >= 3)" on the incremented counter.  The
\* model counts no further than the test can tell apart.
Count(c) ==
    /\ CGoto(c, "count", IF sends[c] + 1 >= ProbeAfter THEN "probe_length" ELSE "sleep")
    /\ sends' = [sends EXCEPT ![c] = IF @ < ProbeAfter THEN @ + 1 ELSE @]
    /\ UNCHANGED connection

SendProbeLength(c) ==
    /\ CGoto(c, "probe_length", "probe_text")
    /\ Emit(c, Length("probe"))
    /\ UNCHANGED sends

SendProbeText(c) ==
    /\ CGoto(c, "probe_text", "select")
    /\ Emit(c, Text("probe"))
    /\ UNCHANGED sends

\* Variant: tcp_send gives up in the middle of a message on an error that
\* leaves the connection usable.
SendGivesUp(c) ==
    /\ cpc[c] \in {"hello_length", "hello_text", "probe_length", "probe_text"}
    /\ cpc' = [cpc EXCEPT ![c] = "sleep"]
    /\ UNCHANGED <<sends, connection>>

\* tcp_send returned -1, possible only once the server has closed: the client
\* does not look at the error, does not count, and goes on with its sleep.
SendFails(c) ==
    /\ Hangup(c)
    /\ cpc[c] \in {"hello_length", "hello_text", "probe_length", "probe_text"}
    /\ cpc' = [cpc EXCEPT ![c] = "sleep"]
    /\ UNCHANGED <<sends, connection>>

\* close and exit; the kernel discards what the client has not read, and
\* resets the connection if that was anything.
Exit(c) ==
    /\ cpc' = [cpc EXCEPT ![c] = "off"]
    /\ copen' = [copen EXCEPT ![c] = FALSE]
    /\ down' = [down EXCEPT ![c] = <<>>]
    /\ reset' = IF down[c] = <<>> THEN reset ELSE reset \cup {c}
    /\ UNCHANGED <<sends, up, sopen, queue>>

\* A repeated send after the server has closed raises SIGPIPE.
SendKills(c) ==
    /\ Hangup(c)
    /\ cpc[c] \in {"hello_length", "hello_text", "probe_length", "probe_text"}
    /\ Exit(c)

\* The connection has become readable: units, or its end.
SelectReady(c) ==
    /\ down[c] # <<>> \/ Hangup(c)
    /\ CGoto(c, "select", "ack_length")
    /\ UNCHANGED <<sends, connection>>

\* Variant: the client carries on after a timeout.
SelectTimeoutRetries(c) ==
    /\ CGoto(c, "select", "sleep")
    /\ UNCHANGED <<sends, connection>>

\* Ten seconds without an answer, or an error of select.
SelectTimeout(c) == cpc[c] = "select" /\ Exit(c)

RecvLength(c) ==
    /\ down[c] # <<>>
    /\ CGoto(c, "ack_length", "ack_text")
    /\ down' = [down EXCEPT ![c] = Tail(@)]
    /\ UNCHANGED <<sends, up, copen, sopen, queue, reset>>

\* '$' resets the counter; anything else makes the client give up.
RecvAck(c) ==
    /\ cpc[c] = "ack_text"
    /\ down[c] # <<>>
    /\ \/ /\ Head(down[c]) = Text("ack")
          /\ cpc' = [cpc EXCEPT ![c] = "sleep"]
          /\ sends' = [sends EXCEPT ![c] = 0]
          /\ down' = [down EXCEPT ![c] = Tail(@)]
          /\ UNCHANGED <<up, copen, sopen, queue, reset>>
       \/ /\ Head(down[c]) # Text("ack")
          /\ Exit(c)

\* recv returns less than asked for: the server is gone.
RecvEnd(c) ==
    /\ cpc[c] \in {"ack_length", "ack_text"}
    /\ down[c] = <<>> /\ Hangup(c)
    /\ Exit(c)

Sleep(c) ==
    /\ CGoto(c, "sleep", "hello_length")
    /\ UNCHANGED <<sends, connection>>

\* Somebody kills the client: it can end between any two units.
Kill(c) == cpc[c] # "off" /\ Exit(c)

\* One send need not take all the digits, nor the network deliver them together.
DigitsArrive(c) ==
    /\ AtLength(c) /\ ~Hangup(c)
    /\ begun' = begun \cup {c}
    /\ UNCHANGED <<clientVars, connection>>

\* When a client goes on, the length is complete, or will never be.
DigitsSettled == begun' = {c \in begun : cpc'[c] = cpc[c]}

ClientSends(c) ==
    \/ SendHelloLength(c) \/ SendHelloText(c) \/ Count(c)
    \/ SendProbeLength(c) \/ SendProbeText(c)
    \/ SendFails(c) \/ SendKills(c)

ClientReceives(c) == SelectReady(c) \/ RecvLength(c) \/ RecvAck(c) \/ RecvEnd(c)

ClientNext(c) ==
    \/ Connect(c)
    \/ ClientSends(c) \/ ClientReceives(c)
    \/ SelectTimeout(c) \/ Sleep(c) \/ Kill(c)
=============================================================================
