------------------------ MODULE HeartbeatClient_proof ------------------------
(***************************************************************************)
(* Lemmas about the heartbeat clients, for the proofs about the servers    *)
(* they are composed with.                                                 *)
(***************************************************************************)
EXTENDS HeartbeatClient, TLAPS

\* At the start there are no connections and no clients.
LEMMA ClientInitTyped == ClientInit => ClientTypeOK
BY ClientAssumption DEF ClientInit, ClientTypeOK, ClientLabel

\* What a client appends to a stream is a unit.
LEMMA UnitTyped ==
    ASSUME NEW m \in Message
    PROVE  Length(m) \in Unit /\ Text(m) \in Unit
BY DEF Unit, Length, Text

\* Sending keeps the types of the connections.
LEMMA EmitTyped ==
    ASSUME ClientTypeOK, NEW c \in Client, NEW u \in Unit, Emit(c, u),
           cpc' \in [Client -> ClientLabel], UNCHANGED sends
    PROVE  ClientTypeOK'
BY DEF ClientTypeOK, Emit

\* So does the end of a client.
LEMMA ExitTyped ==
    ASSUME ClientTypeOK, NEW c \in Client, Exit(c)
    PROVE  ClientTypeOK'
BY DEF ClientTypeOK, Exit, ClientLabel

\* Whatever a client does, its own and the connections' variables keep their
\* types.
LEMMA ClientKeepsTypes ==
    ASSUME ClientTypeOK, NEW c \in Client, ClientNext(c)
    PROVE  ClientTypeOK'
<1> USE ClientAssumption
<1>1. CASE Connect(c)
      BY <1>1 DEF Connect, CGoto, ClientTypeOK, ClientLabel
<1>2. CASE SendHelloLength(c) \/ SendHelloText(c)
  <2>1. Length("hello") \in Unit /\ Text("hello") \in Unit
        BY UnitTyped DEF Message
  <2>2. cpc' \in [Client -> ClientLabel] /\ UNCHANGED sends
        BY <1>2 DEF SendHelloLength, SendHelloText, CGoto, ClientTypeOK, ClientLabel
  <2>3. QED
        BY <1>2, <2>1, <2>2, EmitTyped DEF SendHelloLength, SendHelloText
<1>3. CASE SendProbeLength(c) \/ SendProbeText(c)
  <2>1. Length("probe") \in Unit /\ Text("probe") \in Unit
        BY UnitTyped DEF Message
  <2>2. cpc' \in [Client -> ClientLabel] /\ UNCHANGED sends
        BY <1>3 DEF SendProbeLength, SendProbeText, CGoto, ClientTypeOK, ClientLabel
  <2>3. QED
        BY <1>3, <2>1, <2>2, EmitTyped DEF SendProbeLength, SendProbeText
<1>4. CASE Count(c)
      BY <1>4 DEF Count, CGoto, ClientTypeOK, ClientLabel, connection
<1>5. CASE SendFails(c) \/ SelectReady(c) \/ Sleep(c)
      BY <1>5 DEF SendFails, SelectReady, Sleep, CGoto, ClientTypeOK, ClientLabel,
                  connection
<1>6. CASE SendKills(c) \/ SelectTimeout(c) \/ RecvEnd(c) \/ Kill(c)
      BY <1>6, ExitTyped DEF SendKills, SelectTimeout, RecvEnd, Kill
<1>7. CASE RecvLength(c)
      BY <1>7 DEF RecvLength, CGoto, ClientTypeOK, ClientLabel
<1>8. CASE RecvAck(c)
  <2>1. CASE Head(down[c]) = Text("ack")
    <3>1. Tail(down[c]) \in Seq(Unit)
          BY <1>8 DEF RecvAck, ClientTypeOK
    <3>2. /\ cpc' = [cpc EXCEPT ![c] = "sleep"] /\ sends' = [sends EXCEPT ![c] = 0]
          /\ down' = [down EXCEPT ![c] = Tail(@)]
          /\ UNCHANGED <<up, copen, sopen, queue, reset>>
          BY <1>8, <2>1 DEF RecvAck
    <3>3. QED
          BY <3>1, <3>2 DEF ClientTypeOK, ClientLabel
  <2>2. CASE Head(down[c]) # Text("ack")
        BY <1>8, <2>2, ExitTyped DEF RecvAck
  <2>3. QED
        BY <2>1, <2>2
<1>9. QED
      BY <1>1, <1>2, <1>3, <1>4, <1>5, <1>6, <1>7, <1>8
      DEF ClientNext, ClientSends, ClientReceives

\* Nothing but a new connection changes the queue or the server's ends.
LEMMA OnlyConnectQueues ==
    ASSUME NEW c \in Client, ClientNext(c), ~Connect(c)
    PROVE  UNCHANGED <<sopen, queue>>
BY DEF ClientNext, ClientSends, ClientReceives, SendHelloLength, SendHelloText,
       Count, SendProbeLength, SendProbeText, SendFails, SendKills, SelectReady,
       RecvLength, RecvAck, RecvEnd, SelectTimeout, Sleep, Kill, Exit, Emit,
       connection

-----------------------------------------------------------------------------
(* Lengths of which some digits have arrived *)

LEMMA DigitsOfLengths ==
    ASSUME BegunInv,
           \/ DigitsSettled
           \/ \E c \in Client : DigitsArrive(c)
           \/ UNCHANGED <<cpc, begun>>
    PROVE  BegunInv'
<1>1. CASE DigitsSettled
      BY <1>1 DEF BegunInv, DigitsSettled, AtLength
<1>2. CASE \E c \in Client : DigitsArrive(c)
      BY <1>2 DEF BegunInv, DigitsArrive, AtLength, clientVars
<1>3. CASE UNCHANGED <<cpc, begun>>
      BY <1>3 DEF BegunInv, AtLength
<1>4. QED
      BY <1>1, <1>2, <1>3

\* What has been sent is there.
LEMMA SentIsThere ==
    ASSUME NEW s \in Seq(Unit), NEW u \in Unit
    PROVE  Append(s, u) # <<>>
<1>1. Len(Append(s, u)) = Len(s) + 1 /\ Len(s) \in Nat /\ Len(<<>>) = 0
      OBVIOUS
<1>2. QED
      BY <1>1

\* The other digits follow, or the client ends.
LEMMA DigitsFollow ==
    ASSUME ClientTypeOK, BegunInv, NEW c \in Client, ClientNext(c), DigitsSettled,
           NEW d \in begun, sopen[d] = "open"
    PROVE  d \in begun' \/ up'[d] # <<>> \/ ~copen'[d]
<1> SUFFICES ASSUME cpc'[d] # cpc[d] PROVE up'[d] # <<>> \/ ~copen'[d]
    BY DEF DigitsSettled
<1>1. /\ d \in Client /\ cpc[d] \in {"hello_length", "probe_length"} /\ ~Hangup(d)
      /\ cpc \in [Client -> ClientLabel] /\ up[d] \in Seq(Unit)
      /\ up \in [Client -> Seq(Unit)] /\ copen \in [Client -> BOOLEAN]
      BY DEF BegunInv, AtLength, Hangup, ClientTypeOK
<1>2. c = d
  <2>1. ASSUME c # d PROVE cpc'[d] = cpc[d]
        BY <1>1, <2>1
        DEF ClientNext, ClientSends, ClientReceives, Connect, SendHelloLength,
            SendHelloText, Count, SendProbeLength, SendProbeText, SendFails, SendKills,
            SelectReady, RecvLength, RecvAck, RecvEnd, SelectTimeout, Sleep, Kill,
            Exit, CGoto
  <2>2. QED
        BY <2>1
<1>3. CASE Exit(c)
      BY <1>1, <1>2, <1>3 DEF Exit
<1>4. CASE SendHelloLength(c) \/ SendProbeLength(c)
  <2>1. PICK u \in Unit : Emit(c, u)
        BY <1>4, UnitTyped DEF SendHelloLength, SendProbeLength, Message
  <2>2. up'[d] = Append(up[d], u)
        BY <1>1, <1>2, <2>1 DEF Emit
  <2>3. QED
        BY <1>1, <2>2, SentIsThere
<1>5. Exit(c) \/ SendHelloLength(c) \/ SendProbeLength(c)
      BY <1>1, <1>2
      DEF ClientNext, ClientSends, ClientReceives, Connect, SendHelloText, Count,
          SendProbeText, SendFails, SendKills, SelectReady, RecvLength, RecvAck,
          RecvEnd, SelectTimeout, Sleep, Kill, CGoto
<1>6. QED
      BY <1>3, <1>4, <1>5

-----------------------------------------------------------------------------
(* The listen queue *)

\* A connection waits once, and is not open yet.
WaitsOnce ==
    /\ \A i \in DOMAIN queue : sopen[queue[i]] = "backlog"
    /\ \A i, j \in DOMAIN queue : queue[i] = queue[j] => i = j

\* A client that connects does not wait already.
LEMMA ClientsWaitOnce ==
    ASSUME ClientTypeOK, WaitsOnce, NEW c \in Client, ClientNext(c)
    PROVE  WaitsOnce'
<1>1. CASE Connect(c)
  <2>1. /\ sopen[c] # "backlog" /\ sopen' = [sopen EXCEPT ![c] = "backlog"]
        /\ queue' = Append(queue, c)
        BY <1>1 DEF Connect
  <2>2. queue \in Seq(Client) /\ sopen \in [Client -> {"none", "backlog", "open", "closed"}]
        BY DEF ClientTypeOK
  <2>3. /\ DOMAIN queue' = DOMAIN queue \cup {Len(queue) + 1}
        /\ \A i \in DOMAIN queue : queue'[i] = queue[i]
        /\ queue'[Len(queue) + 1] = c
        BY <2>1, <2>2
  <2>4. \A i \in DOMAIN queue : queue[i] # c
        BY <2>1 DEF WaitsOnce
  <2>5. QED
        BY <2>1, <2>2, <2>3, <2>4 DEF WaitsOnce
<1>2. CASE ~Connect(c)
      BY <1>2, OnlyConnectQueues DEF WaitsOnce
<1>3. QED
      BY <1>1, <1>2

\* The server takes the oldest connection, to open it or to close it.
LEMMA HeadLeavesQueue ==
    ASSUME ClientTypeOK, WaitsOnce, queue # <<>>, NEW s \in {"open", "closed"},
           queue' = Tail(queue), sopen' = [sopen EXCEPT ![Head(queue)] = s]
    PROVE  /\ Head(queue) \in Client /\ sopen[Head(queue)] = "backlog"
           /\ queue' \in Seq(Client) /\ WaitsOnce'
<1> DEFINE c == Head(queue)
<1>1. /\ queue \in Seq(Client)
      /\ sopen \in [Client -> {"none", "backlog", "open", "closed"}]
      BY DEF ClientTypeOK
<1>2. c \in Client /\ c = queue[1] /\ 1 \in DOMAIN queue /\ queue' \in Seq(Client)
      BY <1>1
<1>3. /\ DOMAIN queue' = 1 .. Len(queue) - 1
      /\ \A i \in DOMAIN queue' : queue'[i] = queue[i + 1] /\ i + 1 \in DOMAIN queue
      BY <1>1, <1>2
<1>4. \A i \in DOMAIN queue' : queue'[i] # c
  <2> SUFFICES ASSUME NEW i \in DOMAIN queue', queue'[i] = c PROVE FALSE
      OBVIOUS
  <2>1. queue[i + 1] = queue[1] /\ i + 1 \in DOMAIN queue /\ i \in Nat \ {0}
        BY <1>2, <1>3
  <2>2. i + 1 = 1
        BY <1>2, <2>1 DEF WaitsOnce
  <2>3. QED
        BY <2>1, <2>2
<1>5. \A i \in DOMAIN queue' : sopen'[queue'[i]] = "backlog"
      BY <1>1, <1>2, <1>3, <1>4 DEF WaitsOnce
<1>6. \A i, j \in DOMAIN queue' : queue'[i] = queue'[j] => i = j
      BY <1>3 DEF WaitsOnce
<1>7. QED
      BY <1>2, <1>5, <1>6 DEF WaitsOnce

\* What happens to a connection that has been accepted does not concern it.
LEMMA AcceptedEnds ==
    ASSUME ClientTypeOK, WaitsOnce, NEW c \in Client, sopen[c] # "backlog", NEW s,
           sopen' = [sopen EXCEPT ![c] = s], UNCHANGED queue
    PROVE  WaitsOnce'
BY DEF ClientTypeOK, WaitsOnce
=============================================================================
