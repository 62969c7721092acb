------------------------ MODULE EpollHeartbeat_proof ------------------------
(***************************************************************************)
(* Proofs about the epoll heartbeat server, for any number of clients and  *)
(* descriptors.                                                            *)
(***************************************************************************)
EXTENDS EpollHeartbeat, HeartbeatClient_proof

\* The server's own variables have their types.
ServerTypeOK ==
    /\ spc \in Server!ServerLabel
    /\ running \in BOOLEAN
    /\ table \in [Server!Fd -> Client \cup {NoClient}]
    /\ watched \in SUBSET Server!Fd /\ refused \in SUBSET Server!Fd
    /\ events \in SUBSET Server!Event
    /\ current \in Server!Event

LEMMA TypeParts == TypeOK <=> ClientTypeOK /\ ServerTypeOK
BY DEF TypeOK, ServerTypeOK

\* The listening socket is not one of the connections' descriptors.
LEMMA ListeningApart == Server!Listening \notin Server!Fd
BY ServerAssumption DEF Server!Listening, Server!Fd

\* What an event that is not the listening socket's refers to is a connection.
LEMMA TargetIsClient ==
    ASSUME IInv, NEW e \in events, e.fd # Server!Listening
    PROVE  /\ e.fd \in Server!Fd /\ e.fd \in watched
           /\ Server!Target(e) = table[e.fd] /\ table[e.fd] \in Client
<1>1. e \in Server!Event
      BY TypeParts DEF IInv, ServerTypeOK
<1>2. e.fd \in Server!Fd
      BY <1>1 DEF Server!Event, Server!ListenEvent
<1>3. e.fd \in watched
      BY DEF IInv, EventsHitTheirConnection
<1>4. QED
      BY <1>2, <1>3 DEF Server!Target, IInv, RoundInv

LEMMA InvInit == Init => IInv
<1> SUFFICES ASSUME Init PROVE IInv
    OBVIOUS
<1> USE ServerAssumption DEF Init, Server!ServerInit, ClientInit
<1>1. TypeOK
  <2>1. ClientTypeOK
        BY ClientInitTyped
  <2>2. ServerTypeOK
        BY DEF ServerTypeOK, Server!ServerLabel, Server!Event, Server!ListenEvent,
               Server!Listening, Server!Fd
  <2>3. QED
        BY <2>1, <2>2, TypeParts
<1>2. RoundInv
      BY DEF RoundInv
<1>3. QueueInv
      BY DEF QueueInv
<1>4. EventsHitTheirConnection
      BY DEF EventsHitTheirConnection
<1>5. OpenMeansWatched
      BY DEF OpenMeansWatched
<1>6. QED
      BY <1>1, <1>2, <1>3, <1>4, <1>5 DEF IInv

-----------------------------------------------------------------------------
(* Steps of the clients *)

LEMMA ClientStepInv ==
    ASSUME IInv, NEW c \in Client, ClientNext(c), UNCHANGED serverVars
    PROVE  IInv'
<1>1. UNCHANGED serverVars
      OBVIOUS
<1>2. TypeOK'
  <2>1. ClientTypeOK'
        BY ClientKeepsTypes, TypeParts DEF IInv
  <2>2. ServerTypeOK'
        BY <1>1, TypeParts DEF IInv, ServerTypeOK, serverVars, Server!Fd, Server!Event
  <2>3. QED
        BY <2>1, <2>2, TypeParts DEF TypeOK, ServerTypeOK
<1>3. RoundInv' /\ EventsHitTheirConnection'
      BY <1>1 DEF IInv, RoundInv, EventsHitTheirConnection, serverVars,
                  Server!Target, Server!Listening
<1>4. QueueInv' /\ OpenMeansWatched'
  <2>1. CASE Connect(c)
    <3>1. /\ sopen[c] # "open" /\ sopen[c] # "backlog"
          /\ sopen' = [sopen EXCEPT ![c] = "backlog"]
          /\ queue' = Append(queue, c)
          BY <2>1 DEF Connect
    <3>2. queue \in Seq(Client) /\ sopen \in [Client -> {"none", "backlog", "open", "closed"}]
          BY DEF IInv, TypeOK, ClientTypeOK
    <3>3. /\ DOMAIN queue' = DOMAIN queue \cup {Len(queue) + 1}
          /\ \A i \in DOMAIN queue : queue'[i] = queue[i]
          /\ queue'[Len(queue) + 1] = c
          BY <3>1, <3>2
    <3>4. \A i \in DOMAIN queue : queue[i] # c
          BY <3>1, <3>2 DEF IInv, QueueInv
    <3>5. QueueInv'
          BY <3>1, <3>2, <3>3, <3>4 DEF IInv, QueueInv
    <3>6. OpenMeansWatched'
          BY <1>1, <3>1, <3>2 DEF IInv, OpenMeansWatched, serverVars, Server!Fd
    <3>7. QED
          BY <3>5, <3>6
  <2>2. CASE ~Connect(c)
        BY <1>1, <2>2, OnlyConnectQueues
        DEF IInv, QueueInv, OpenMeansWatched, serverVars, Server!Fd
  <2>3. QED
        BY <2>1, <2>2
<1>5. QED
      BY <1>2, <1>3, <1>4 DEF IInv

-----------------------------------------------------------------------------
(* Steps of the server that open and close nothing *)

Opening == <<table, watched, refused, sopen, queue>>

\* The end of an event leaves a round that is as good as before.
LEMMA FinishKeepsRound ==
    ASSUME IInv, NEW e \in events, Server!Finish(e),
           UNCHANGED <<table, watched>>
    PROVE  RoundInv' /\ EventsHitTheirConnection'
BY DEF Server!Finish, IInv, RoundInv, EventsHitTheirConnection, Server!Target,
       Server!Listening

\* epoll_wait reports a descriptor once, with what it refers to.
LEMMA WaitStartsRound ==
    ASSUME IInv, Server!Wait
    PROVE  RoundInv' /\ EventsHitTheirConnection' /\ events' \subseteq Server!Event
<1>1. /\ events' = Server!Due /\ spc' = "event"
      /\ UNCHANGED <<table, watched, current>>
      BY DEF Server!Wait, Server!SGoto, Server!descriptors
<1>2. watched \subseteq Server!Fd
      BY TypeParts DEF IInv, ServerTypeOK
<1>3. \A e \in Server!Due :
         \/ e = Server!ListenEvent
         \/ /\ e.fd \in watched
            /\ e = [fd |-> e.fd, about |-> table[e.fd], broken |-> table[e.fd] \in reset]
      BY DEF Server!Due
<1>4. Server!ListenEvent.fd = Server!Listening
      BY DEF Server!ListenEvent
<1>5. RoundInv'
      BY <1>1, <1>2, <1>3, <1>4, ListeningApart DEF IInv, RoundInv
<1>6. EventsHitTheirConnection'
      BY <1>1, <1>2, <1>3, <1>4, ListeningApart
      DEF EventsHitTheirConnection, Server!Target, Server!Listening
<1>7. \A e \in Server!Due : e \in Server!Event
  <2> SUFFICES ASSUME NEW e \in Server!Due PROVE e \in Server!Event
      OBVIOUS
  <2>1. CASE e = Server!ListenEvent
        BY <2>1 DEF Server!Event
  <2>2. CASE e.fd \in watched /\ e = [fd |-> e.fd, about |-> table[e.fd],
                                      broken |-> table[e.fd] \in reset]
    <3>1. e.fd \in Server!Fd /\ table[e.fd] \in Client
          BY <2>2, <1>2 DEF IInv, RoundInv
    <3>2. (table[e.fd] \in reset) \in BOOLEAN
          OBVIOUS
    <3>3. \A f \in Server!Fd, c \in Client, b \in BOOLEAN :
             [fd |-> f, about |-> c, broken |-> b] \in Server!Event
          BY DEF Server!Event
    <3>4. QED
          BY <2>2, <3>1, <3>2, <3>3, Zenon
  <2>3. QED
        BY <2>1, <2>2, <1>3
<1>8. QED
      BY <1>1, <1>5, <1>6, <1>7

\* A step that opens and closes nothing keeps the queue and the table.
LEMMA OpeningKept ==
    ASSUME IInv, UNCHANGED Opening
    PROVE  QueueInv' /\ OpenMeansWatched'
BY DEF IInv, QueueInv, OpenMeansWatched, Opening, Server!Fd

\* What the server reads is taken away from the front of a stream.
LEMMA ReadTyped ==
    ASSUME ClientTypeOK, NEW c \in Client, up[c] # <<>>,
           up' = [up EXCEPT ![c] = Tail(@)],
           UNCHANGED <<clientVars, down, copen, sopen, queue, reset>>
    PROVE  ClientTypeOK'
<1>1. Tail(up[c]) \in Seq(Unit)
      BY DEF ClientTypeOK
<1>2. QED
      BY <1>1 DEF ClientTypeOK, clientVars

\* What the server sends is a unit.
LEMMA ReplyTyped ==
    ASSUME ClientTypeOK, NEW u \in Unit, Server!Reply(u), UNCHANGED clientVars,
           Server!Target(current) \in Client
    PROVE  ClientTypeOK'
BY DEF ClientTypeOK, clientVars, Server!Reply

LEMMA AckTyped ==
    /\ [part |-> "length", of |-> "ack"] \in Unit
    /\ [part |-> "text", of |-> "ack"] \in Unit
BY DEF Unit, Message

\* The event being handled is one of the round.
LEMMA CurrentInRound ==
    ASSUME IInv, spc \in {"text", "drop", "reply_length", "reply_text"}
    PROVE  /\ current \in events /\ current.fd # Server!Listening
           /\ Server!Target(current) \in Client
<1>1. current \in events /\ current.fd # Server!Listening
      BY DEF IInv, RoundInv
<1>2. QED
      BY <1>1, TargetIsClient

\* What the end of an event leaves behind has its type.
LEMMA FinishTyped ==
    ASSUME IInv, NEW e \in events, Server!Finish(e)
    PROVE  events' \in SUBSET Server!Event /\ spc' \in Server!ServerLabel
BY TypeParts DEF Server!Finish, Server!ServerLabel, IInv, ServerTypeOK

\* The steps that leave the connections' variables alone altogether.
LEMMA SilentStepInv ==
    ASSUME IInv, UNCHANGED <<clientVars, connection>>,
           \/ Server!Test \/ Server!SigInt \/ Server!Wait \/ Server!RecvTextFails
           \/ \E e \in events : Server!AcceptFail(e)
    PROVE  IInv'
<1> USE DEF Server!descriptors
<1>1. QueueInv' /\ OpenMeansWatched'
      BY OpeningKept
      DEF Opening, connection, Server!Test, Server!SigInt, Server!Wait,
          Server!RecvTextFails, Server!AcceptFail
<1>2. ClientTypeOK'
      BY TypeParts DEF IInv, ClientTypeOK, clientVars, connection
<1>3. CASE Server!Test \/ Server!SigInt \/ Server!RecvTextFails
  <2>1. ServerTypeOK'
        BY <1>3, TypeParts
        DEF IInv, ServerTypeOK, Server!Test, Server!SigInt, Server!RecvTextFails,
            Server!SGoto, Server!ServerLabel, Server!Fd, Server!Event
  <2>2. RoundInv' /\ EventsHitTheirConnection'
        BY <1>3
        DEF IInv, RoundInv, EventsHitTheirConnection, Server!Target, Server!Listening,
            Server!Test, Server!SigInt, Server!RecvTextFails, Server!SGoto
  <2>3. QED
        BY <1>1, <1>2, <2>1, <2>2, TypeParts DEF IInv, TypeOK, ServerTypeOK
<1>4. CASE Server!Wait
  <2>1. ServerTypeOK'
        BY <1>4, WaitStartsRound, TypeParts
        DEF IInv, ServerTypeOK, Server!Wait, Server!SGoto, Server!ServerLabel,
            Server!Fd, Server!Event
  <2>2. QED
        BY <1>1, <1>2, <1>4, <2>1, WaitStartsRound, TypeParts
        DEF IInv, TypeOK, ServerTypeOK
<1>5. ASSUME NEW e \in events, Server!AcceptFail(e)
      PROVE  IInv'
  <2>1. /\ Server!Finish(e) /\ current' = e
        /\ UNCHANGED <<running, table, watched, refused>>
        BY <1>5 DEF Server!AcceptFail, Server!Turn
  <2>2. ServerTypeOK'
        BY <2>1, FinishTyped, TypeParts DEF IInv, ServerTypeOK, Server!Fd, Server!Event
  <2>3. QED
        BY <1>1, <1>2, <2>1, <2>2, FinishKeepsRound, TypeParts
        DEF IInv, TypeOK, ServerTypeOK
<1>6. QED
      BY <1>3, <1>4, <1>5

\* The steps that read a unit or send one.
LEMMA TransferInv ==
    ASSUME IInv, UNCHANGED clientVars,
           \/ \E e \in events : Server!RecvLength(e)
           \/ Server!RecvText \/ Server!ReplyLength \/ Server!ReplyText
    PROVE  IInv'
<1> USE DEF Server!descriptors
<1>1. QueueInv' /\ OpenMeansWatched'
      BY OpeningKept
      DEF Opening, Server!RecvLength, Server!RecvText, Server!ReplyLength,
          Server!ReplyText, Server!Reply
<1>2. ASSUME NEW e \in events, Server!RecvLength(e)
      PROVE  IInv'
  <2>1. e.fd # Server!Listening
        BY <1>2 DEF Server!RecvLength, Server!Reads
  <2>2. ClientTypeOK'
    <3>1. Server!Target(e) \in Client
          BY <2>1, TargetIsClient
    <3>2. ClientTypeOK
          BY TypeParts DEF IInv
    <3>3. /\ up[Server!Target(e)] # <<>>
          /\ up' = [up EXCEPT ![Server!Target(e)] = Tail(@)]
          /\ UNCHANGED <<clientVars, down, copen, sopen, queue, reset>>
          BY <1>2 DEF Server!RecvLength
    <3>4. QED
          BY <3>1, <3>2, <3>3, ReadTyped
  <2>3. ServerTypeOK'
        BY <1>2, TypeParts
        DEF IInv, ServerTypeOK, Server!RecvLength, Server!Reads, Server!Turn,
            Server!ServerLabel, Server!Fd, Server!Event
  <2>4. RoundInv' /\ EventsHitTheirConnection'
        BY <1>2, <2>1
        DEF IInv, RoundInv, EventsHitTheirConnection, Server!Target, Server!Listening,
            Server!RecvLength, Server!Reads, Server!Turn
  <2>5. QED
        BY <1>1, <2>2, <2>3, <2>4, TypeParts DEF IInv, TypeOK, ServerTypeOK
<1>3. CASE Server!RecvText \/ Server!ReplyLength \/ Server!ReplyText
  <2>1. /\ current \in events /\ current.fd # Server!Listening
        /\ Server!Target(current) \in Client
        BY <1>3, CurrentInRound
        DEF Server!RecvText, Server!ReplyLength, Server!ReplyText, Server!SGoto
  <2>2. /\ UNCHANGED <<running, table, watched, refused, current>>
        /\ \/ UNCHANGED events /\ spc' \in {"reply_length", "reply_text"}
           \/ Server!Finish(current)
        BY <1>3 DEF Server!RecvText, Server!ReplyLength, Server!ReplyText,
                    Server!Reply, Server!SGoto
  <2>3. ServerTypeOK'
        BY <2>1, <2>2, FinishTyped, TypeParts
        DEF IInv, ServerTypeOK, Server!ServerLabel, Server!Fd, Server!Event
  <2>4. RoundInv' /\ EventsHitTheirConnection'
    <3>1. CASE UNCHANGED events /\ spc' \in {"reply_length", "reply_text"}
          BY <2>1, <2>2, <3>1
          DEF IInv, RoundInv, EventsHitTheirConnection, Server!Target, Server!Listening
    <3>2. CASE Server!Finish(current)
          BY <2>1, <2>2, <3>2, FinishKeepsRound
    <3>3. QED
          BY <2>2, <3>1, <3>2
  <2>5. ClientTypeOK'
    <3>1. ClientTypeOK
          BY TypeParts DEF IInv
    <3>2. CASE Server!RecvText
          BY <2>1, <3>1, <3>2, ReadTyped DEF Server!RecvText
    <3>3. CASE Server!ReplyLength \/ Server!ReplyText
          BY <2>1, <3>1, <3>3, ReplyTyped, AckTyped
          DEF Server!ReplyLength, Server!ReplyText
    <3>4. QED
          BY <1>3, <3>2, <3>3
  <2>6. QED
        BY <1>1, <2>3, <2>4, <2>5, TypeParts DEF IInv, TypeOK, ServerTypeOK
<1>4. QED
      BY <1>2, <1>3

-----------------------------------------------------------------------------
(* Steps of the server that open or close a connection *)

\* Closing the descriptor of an event and going on to the next event.
LEMMA CloseInv ==
    ASSUME IInv, NEW e \in events, e.fd # Server!Listening,
           Server!CloseFd(e.fd), Server!Finish(e), current' \in {e, current},
           UNCHANGED clientVars
    PROVE  IInv'
<1> DEFINE f == e.fd
           c == table[f]
<1>1. f \in Server!Fd /\ f \in watched /\ c \in Client
      BY TargetIsClient
<1>2. /\ sopen' = [sopen EXCEPT ![c] = "closed"]
      /\ up' = [up EXCEPT ![c] = <<>>]
      /\ table' = [table EXCEPT ![f] = NoClient]
      /\ watched' = watched \ {f} /\ refused' = refused \ {f}
      /\ UNCHANGED <<running, down, copen, queue, reset>>
      BY DEF Server!CloseFd
<1>3. table \in [Server!Fd -> Client \cup {NoClient}] /\ watched \subseteq Server!Fd
      BY TypeParts DEF IInv, ServerTypeOK
<1>4. sopen \in [Client -> {"none", "backlog", "open", "closed"}]
      BY DEF IInv, TypeOK, ClientTypeOK
<1>5. sopen[c] = "open" /\ \A g \in Server!Fd : table[g] = c => g = f
      BY <1>1, ServerAssumption DEF IInv, OpenMeansWatched
<1>6. ClientTypeOK'
      BY <1>1, <1>2, TypeParts DEF IInv, ClientTypeOK, clientVars
<1>7. ServerTypeOK'
      BY <1>1, <1>2, FinishTyped, TypeParts
      DEF IInv, ServerTypeOK, Server!Fd, Server!Event
<1>8. \A d \in events' : d \in events /\ d.fd # f
      BY DEF Server!Finish, IInv, RoundInv
<1>9. RoundInv'
      BY <1>1, <1>2, <1>3, <1>8 DEF Server!Finish, IInv, RoundInv, Server!Listening
<1>10. EventsHitTheirConnection'
  <2> SUFFICES ASSUME NEW d \in events', d.fd # Server!Listening
               PROVE  table'[d.fd] = d.about /\ d.fd \in watched'
      BY DEF EventsHitTheirConnection, Server!Target, Server!Listening
  <2>1. d \in events /\ d.fd # f
        BY <1>8
  <2>2. table[d.fd] = d.about /\ d.fd \in watched
        BY <2>1 DEF IInv, EventsHitTheirConnection, Server!Target
  <2>3. QED
        BY <1>2, <1>3, <2>1, <2>2
<1>11. QueueInv'
      BY <1>1, <1>2, <1>4, <1>5 DEF IInv, QueueInv
<1>12. OpenMeansWatched'
  <2>1. \A k \in Client : sopen'[k] = "open" <=> sopen[k] = "open" /\ k # c
        BY <1>1, <1>2, <1>4
  <2>2. \A g \in Server!Fd : table'[g] = IF g = f THEN NoClient ELSE table[g]
        BY <1>1, <1>2, <1>3
  <2>3. \A k \in Client : sopen'[k] = "open" <=> \E g \in Server!Fd : table'[g] = k
        BY <1>5, <2>1, <2>2, ServerAssumption DEF IInv, OpenMeansWatched
  <2>4. QED
        BY <1>2, <2>2, <2>3 DEF IInv, OpenMeansWatched, Server!Fd
<1>13. QED
      BY <1>6, <1>7, <1>9, <1>10, <1>11, <1>12, TypeParts
      DEF IInv, TypeOK, ServerTypeOK

\* A descriptor that is free, and its event, are not among those of the round.
LEMMA AcceptInv ==
    ASSUME IInv, NEW e \in events, NEW c \in Client, NEW f \in Server!Fd,
           Server!Accept(e, c, f), UNCHANGED clientVars
    PROVE  IInv'
<1>1. /\ queue # <<>> /\ c = Head(queue) /\ queue' = Tail(queue)
      /\ table[f] = NoClient
      /\ sopen' = [sopen EXCEPT ![c] = "open"]
      /\ table' = [table EXCEPT ![f] = c]
      /\ \/ watched' = watched \cup {f} /\ refused' = refused
         \/ refused' = refused \cup {f} /\ watched' = watched
      /\ Server!Finish(e) /\ current' = e
      /\ UNCHANGED <<running, up, down, copen, reset>>
      BY DEF Server!Accept, Server!Turn, Server!Free
<1>2. table \in [Server!Fd -> Client \cup {NoClient}] /\ watched \subseteq Server!Fd
      BY TypeParts DEF IInv, ServerTypeOK
<1>3. /\ sopen \in [Client -> {"none", "backlog", "open", "closed"}]
      /\ queue \in Seq(Client)
      BY DEF IInv, TypeOK, ClientTypeOK
<1>4. f \notin watched /\ c # NoClient
      BY <1>1, ServerAssumption DEF IInv, RoundInv
<1>5. /\ \A i \in DOMAIN queue' : i \in DOMAIN queue /\ i + 1 \in DOMAIN queue
                                /\ queue'[i] = queue[i + 1]
      /\ \A i \in DOMAIN queue : i = 1 \/ (i - 1 \in DOMAIN queue' /\ queue'[i - 1] = queue[i])
      /\ 1 \in DOMAIN queue /\ queue[1] = c
      BY <1>1, <1>3
<1>6. sopen[c] = "backlog"
      BY <1>5 DEF IInv, QueueInv
<1>7. ClientTypeOK'
  <2>1. queue' \in Seq(Client)
        BY <1>1, <1>3
  <2>2. QED
        BY <1>1, <2>1, TypeParts DEF IInv, ClientTypeOK, clientVars
<1>8. ServerTypeOK'
      BY <1>1, FinishTyped, TypeParts DEF IInv, ServerTypeOK, Server!Fd, Server!Event
<1>9. RoundInv'
      BY <1>1, <1>2, <1>4 DEF Server!Finish, IInv, RoundInv, Server!Listening
<1>10. EventsHitTheirConnection'
  <2> SUFFICES ASSUME NEW d \in events', d.fd # Server!Listening
               PROVE  table'[d.fd] = d.about /\ d.fd \in watched'
      BY DEF EventsHitTheirConnection, Server!Target, Server!Listening
  <2>1. d \in events
        BY <1>1 DEF Server!Finish
  <2>2. table[d.fd] = d.about /\ d.fd \in watched
        BY <2>1 DEF IInv, EventsHitTheirConnection, Server!Target
  <2>3. QED
        BY <1>1, <1>2, <1>4, <2>2
<1>11. QueueInv'
  <2>1. \A i \in DOMAIN queue' : queue'[i] # c
    <3> SUFFICES ASSUME NEW i \in DOMAIN queue', queue'[i] = c PROVE FALSE
        OBVIOUS
    <3>1. i \in DOMAIN queue /\ i + 1 \in DOMAIN queue /\ queue[i + 1] = queue[1]
          BY <1>5
    <3>2. i + 1 = 1
          BY <1>5, <3>1 DEF IInv, QueueInv
    <3>3. QED
          BY <1>3, <3>1, <3>2
  <2>2. \A k \in Client : sopen'[k] = "backlog" <=> \E i \in DOMAIN queue' : queue'[i] = k
    <3>1. ASSUME NEW k \in Client, sopen'[k] = "backlog"
          PROVE  \E i \in DOMAIN queue' : queue'[i] = k
      <4>1. k # c /\ sopen[k] = "backlog"
            BY <1>1, <1>3, <3>1
      <4>2. PICK i \in DOMAIN queue : queue[i] = k
            BY <4>1 DEF IInv, QueueInv
      <4>3. QED
            BY <1>5, <4>1, <4>2
    <3>2. ASSUME NEW k \in Client, NEW i \in DOMAIN queue', queue'[i] = k
          PROVE  sopen'[k] = "backlog"
      <4>1. k # c
            BY <2>1, <3>2
      <4>2. sopen[k] = "backlog"
            BY <1>5, <3>2 DEF IInv, QueueInv
      <4>3. QED
            BY <1>1, <1>3, <4>1, <4>2
    <3>3. QED
          BY <3>1, <3>2
  <2>3. \A i, j \in DOMAIN queue' : queue'[i] = queue'[j] => i = j
    <3> SUFFICES ASSUME NEW i \in DOMAIN queue', NEW j \in DOMAIN queue',
                        queue'[i] = queue'[j]
                 PROVE  i = j
        OBVIOUS
    <3>1. i + 1 = j + 1
          BY <1>5 DEF IInv, QueueInv
    <3>2. i \in Nat /\ j \in Nat
          BY <1>3, <1>5
    <3>3. QED
          BY <3>1, <3>2
  <2>4. QED
        BY <2>2, <2>3 DEF QueueInv
<1>12. OpenMeansWatched'
  <2>1. \A k \in Client : sopen'[k] = "open" <=> sopen[k] = "open" \/ k = c
        BY <1>1, <1>3
  <2>2. \A g \in Server!Fd : table'[g] = IF g = f THEN c ELSE table[g]
        BY <1>1, <1>2
  <2>3. \A g \in Server!Fd : table[g] # c
        BY <1>6 DEF IInv, OpenMeansWatched
  <2>4. \A k \in Client : sopen'[k] = "open" <=> \E g \in Server!Fd : table'[g] = k
        BY <1>1, <1>4, <2>1, <2>2, <2>3, ServerAssumption DEF IInv, OpenMeansWatched
  <2>5. QED
        BY <1>1, <2>2, <2>3, <2>4 DEF IInv, OpenMeansWatched, Server!Fd
<1>13. QED
      BY <1>7, <1>8, <1>9, <1>10, <1>11, <1>12, TypeParts
      DEF IInv, TypeOK, ServerTypeOK

\* At the end everything is closed and nothing is being handled.
LEMMA LeaveInv ==
    ASSUME IInv, Server!Leave, UNCHANGED clientVars
    PROVE  IInv'
<1>1. /\ spc = "test" /\ spc' = "exit"
      /\ table' = [f \in Server!Fd |-> NoClient] /\ watched' = {} /\ refused' = {}
      /\ sopen' = [c \in Client |-> IF sopen[c] = "none" THEN "none" ELSE "closed"]
      /\ queue' = <<>> /\ up' = [c \in Client |-> <<>>]
      /\ UNCHANGED <<running, events, current, down, copen, reset>>
      BY DEF Server!Leave, Server!SGoto
<1>2. events = {}
      BY <1>1 DEF IInv, RoundInv
<1>3. ClientTypeOK'
      BY <1>1, TypeParts DEF IInv, ClientTypeOK, clientVars
<1>4. ServerTypeOK'
      BY <1>1, TypeParts DEF IInv, ServerTypeOK, Server!ServerLabel, Server!Fd, Server!Event
<1>5. RoundInv' /\ EventsHitTheirConnection'
      BY <1>1, <1>2 DEF RoundInv, EventsHitTheirConnection
<1>6. QueueInv'
      BY <1>1 DEF QueueInv
<1>7. OpenMeansWatched'
      BY <1>1, ServerAssumption DEF OpenMeansWatched, Server!Fd
<1>8. QED
      BY <1>3, <1>4, <1>5, <1>6, <1>7, TypeParts DEF IInv, TypeOK, ServerTypeOK

-----------------------------------------------------------------------------
(* The theorems *)

LEMMA StandStill ==
    ASSUME IInv, UNCHANGED <<clientVars, connection, serverVars>>
    PROVE  IInv'
BY TypeParts
DEF clientVars, connection, serverVars, IInv, TypeOK, ClientTypeOK, ServerTypeOK,
    RoundInv, QueueInv, EventsHitTheirConnection, OpenMeansWatched, Server!Target,
    Server!Listening, Server!Fd, Server!Event

\* Every step of either side keeps the invariant.
LEMMA InvStep == IInv /\ [Next]_vars => IInv'
<1> SUFFICES ASSUME IInv, [Next]_vars PROVE IInv'
    OBVIOUS
<1>1. CASE ClientStep
  <2>1. UNCHANGED serverVars
        BY <1>1 DEF ClientStep
  <2>2. CASE \E c \in Client : ClientNext(c)
        BY <2>1, <2>2, ClientStepInv
  <2>3. CASE \E c \in Client : DigitsArrive(c)
    <3>1. UNCHANGED <<clientVars, connection>>
          BY <2>3 DEF DigitsArrive
    <3>2. QED
          BY <2>1, <3>1, StandStill
  <2>4. QED
        BY <1>1, <2>2, <2>3 DEF ClientStep
<1>2. CASE ServerStep
  <2>1. UNCHANGED clientVars
        BY <1>2 DEF ServerStep, Elsewhere
  <2>2. CASE \/ Server!Test \/ Server!SigInt \/ Server!Wait \/ Server!RecvTextFails
             \/ \E e \in events : Server!AcceptFail(e)
    <3>1. UNCHANGED connection
          BY <2>2 DEF connection, Server!Test, Server!SigInt, Server!Wait,
                      Server!RecvTextFails, Server!AcceptFail
    <3>2. QED
          BY <2>1, <2>2, <3>1, SilentStepInv
  <2>3. CASE \/ \E e \in events : Server!RecvLength(e)
             \/ Server!RecvText \/ Server!ReplyLength \/ Server!ReplyText
        BY <2>1, <2>3, TransferInv
  <2>4. ASSUME NEW e \in events, Server!DropShort(e)
        PROVE  IInv'
        BY <2>1, <2>4, CloseInv DEF Server!DropShort, Server!Reads, Server!Turn
  <2>5. ASSUME NEW e \in events, Server!CloseBroken(e)
        PROVE  IInv'
    <3>1. e.broken /\ e \in Server!Event
          BY <2>5, TypeParts DEF Server!CloseBroken, IInv, ServerTypeOK
    <3>2. e.fd # Server!Listening
          BY <3>1, ListeningApart DEF Server!Event, Server!ListenEvent
    <3>3. QED
          BY <2>1, <2>5, <3>2, CloseInv DEF Server!CloseBroken, Server!Turn
  <2>6. CASE Server!Drop
    <3>1. current \in events /\ current.fd # Server!Listening
          BY <2>6, CurrentInRound DEF Server!Drop
    <3>2. QED
          BY <2>1, <2>6, <3>1, CloseInv DEF Server!Drop
  <2>7. ASSUME NEW e \in events, NEW c \in Client, NEW f \in Server!Fd,
               Server!Accept(e, c, f)
        PROVE  IInv'
        BY <2>1, <2>7, AcceptInv
  <2>8. CASE Server!Leave
        BY <2>1, <2>8, LeaveInv
  <2>9. QED
        BY <1>2, <2>2, <2>3, <2>4, <2>5, <2>6, <2>7, <2>8
        DEF ServerStep, Server!ServerNext, Server!ServerWorks, Server!ServerAccepts
<1>3. CASE UNCHANGED vars
      BY <1>3, StandStill DEF vars
<1>4. QED
      BY <1>1, <1>2, <1>3 DEF Next

\* The invariant holds in every reachable state.
LEMMA Invariant == Spec => []IInv
BY InvInit, InvStep, PTL DEF Spec

LEMMA DigitsStep == BegunInv /\ [Next]_vars => BegunInv'
BY DigitsOfLengths
DEF Next, ClientStep, ServerStep, Elsewhere, vars, clientVars

LEMMA Digits == Spec => []BegunInv
<1>1. Init => BegunInv
      BY DEF Init, BegunInv
<1>2. QED
      BY <1>1, DigitsStep, PTL DEF Spec

\* Every variable of clients, connections and server keeps its type, and there
\* are digits of a length only while its client is sending it.
THEOREM TypeCorrect == Spec => [](TypeOK /\ BegunInv)
<1>1. IInv => TypeOK
      BY DEF IInv
<1>2. QED
      BY Invariant, Digits, <1>1, PTL

\* However many connections come and go while a round of events is handled, an
\* event is applied to the connection it was reported for.
THEOREM NoEventGoesAstray == Spec => []EventsHitTheirConnection
<1>1. IInv => EventsHitTheirConnection
      BY DEF IInv
<1>2. QED
      BY Invariant, <1>1, PTL

\* No accepted connection is forgotten: it has one descriptor, and that is
\* watched unless epoll_ctl refused it.
THEOREM NoConnectionForgotten == Spec => []OpenMeansWatched
<1>1. IInv => OpenMeansWatched
      BY DEF IInv
<1>2. QED
      BY Invariant, <1>1, PTL

-----------------------------------------------------------------------------
(* The server implements the service *)

LEMMA ServiceInit == Init => Service!Init
BY DEF Init, ClientInit, Server!ServerInit, Service!Init, Service!ClientInit, Serving

\* The clients of the service are the clients of the server.
LEMMA SameClients == \A c \in Client : ClientNext(c) => Service!ClientNext(c)
BY DEF Connect, Emit, Hangup, Length, Text, SendHelloLength, SendHelloText,
       Count, SendProbeLength, SendProbeText, SendFails, Exit, SendKills,
       SelectReady, SelectTimeout, RecvLength, RecvAck, RecvEnd, Sleep, Kill,
       ClientSends, ClientReceives, ClientNext, CGoto, connection,
       Service!Connect, Service!Emit, Service!Hangup, Service!Length,
       Service!Text, Service!SendHelloLength, Service!SendHelloText,
       Service!Count, Service!SendProbeLength, Service!SendProbeText,
       Service!SendFails, Service!Exit, Service!SendKills,
       Service!SelectReady, Service!SelectTimeout, Service!RecvLength,
       Service!RecvAck, Service!RecvEnd, Service!Sleep, Service!Kill,
       Service!ClientSends, Service!ClientReceives, Service!ClientNext,
       Service!CGoto, Service!connection

\* A test, a wait, a signal, a failed accept and a text that is not there are
\* nothing to the clients.
LEMMA StutterSteps ==
    ASSUME \/ Server!Test \/ Server!SigInt \/ Server!Wait \/ Server!RecvTextFails
           \/ \E e \in events : Server!AcceptFail(e),
           UNCHANGED clientVars
    PROVE  UNCHANGED Service!vars
<1>1. UNCHANGED Service!serverVars
  <2>1. CASE Server!Test \/ Server!Wait \/ \E e \in events : Server!AcceptFail(e)
    <3>1. /\ spc \notin {"text", "drop", "reply_length", "reply_text"}
          /\ spc' \notin {"text", "drop", "reply_length", "reply_text"}
          BY <2>1 DEF Server!Test, Server!Wait, Server!AcceptFail, Server!Turn,
                      Server!Finish, Server!SGoto
    <3>2. QED
          BY <3>1 DEF Serving, Service!serverVars
  <2>2. CASE Server!SigInt
    <3>1. /\ \/ spc' = spc
             \/ spc = "wait" /\ spc' \in {"wait", "test"}
          /\ UNCHANGED <<table, current>>
          BY <2>2 DEF Server!SigInt, Server!descriptors
    <3>2. QED
          BY <3>1 DEF Serving, Server!Target, Service!serverVars
  <2>3. CASE Server!RecvTextFails
    <3>1. spc = "text" /\ spc' = "drop" /\ UNCHANGED <<table, current>>
          BY <2>3 DEF Server!RecvTextFails, Server!SGoto, Server!descriptors
    <3>2. QED
          BY <3>1 DEF Serving, Server!Target, Service!serverVars
  <2>4. QED
        BY <2>1, <2>2, <2>3
<1>2. UNCHANGED Service!connection
      BY DEF Service!connection, Server!Test, Server!SigInt, Server!Wait,
             Server!RecvTextFails, Server!AcceptFail
<1>3. QED
      BY <1>1, <1>2 DEF Service!vars, Service!clientVars, clientVars

\* Between two events the service sees nothing of the server.
LEMMA Between ==
    ASSUME spc \notin {"text", "drop", "reply_length", "reply_text"}
    PROVE  /\ Serving("text") = {} /\ Serving("drop") = {}
           /\ Serving("reply_length") = {} /\ Serving("reply_text") = {}
BY DEF Serving

\* After an event the server is between two events.
LEMMA FinishEnds ==
    ASSUME NEW e, Server!Finish(e)
    PROVE  /\ Serving("text")' = {} /\ Serving("drop")' = {}
           /\ Serving("reply_length")' = {} /\ Serving("reply_text")' = {}
BY DEF Serving, Server!Finish

LEMMA AcceptImplements ==
    ASSUME NEW e \in events, NEW c \in Client, NEW f \in Server!Fd,
           Server!Accept(e, c, f)
    PROVE  Service!Accept(c)
<1>1. spc = "event" /\ Server!Finish(e)
      BY DEF Server!Accept, Server!Turn
<1>2. UNCHANGED Service!serverVars
      BY <1>1, Between, FinishEnds DEF Service!serverVars
<1>3. QED
      BY <1>2 DEF Server!Accept, Service!Accept

\* A descriptor is closed when nothing is owed on it.
LEMMA CloseImplements ==
    ASSUME IInv, NEW e \in events, e.fd # Server!Listening,
           Server!CloseFd(e.fd), Server!Finish(e),
           \/ spc = "event"
           \/ spc = "drop" /\ current = e
    PROVE  Service!Close(Server!Target(e))
<1> DEFINE c == Server!Target(e)
<1>1. c = table[e.fd] /\ c \in Client /\ e.fd \in Server!Fd
      BY TargetIsClient
<1>2. sopen[c] = "open"
      BY <1>1 DEF IInv, OpenMeansWatched
<1>3. /\ sopen' = [sopen EXCEPT ![c] = "closed"]
      /\ up' = [up EXCEPT ![c] = <<>>]
      /\ UNCHANGED <<down, copen, queue, reset>>
      BY <1>1 DEF Server!CloseFd
<1>4. /\ Serving("reply_length") = {} /\ Serving("reply_text") = {}
      /\ Serving("text") = {} /\ Serving("drop") \subseteq {c}
      BY DEF Serving
<1>5. QED
      BY <1>2, <1>3, <1>4, FinishEnds DEF Service!Close

LEMMA LeaveImplements ==
    ASSUME Server!Leave
    PROVE  Service!Stop
<1>1. spc = "test" /\ spc' = "exit"
      BY DEF Server!Leave, Server!SGoto
<1>2. /\ Serving("text")' = {} /\ Serving("drop")' = {}
      /\ Serving("reply_length")' = {} /\ Serving("reply_text")' = {}
      BY <1>1 DEF Serving
<1>3. QED
      BY <1>1, <1>2, Between DEF Server!Leave, Service!Stop

LEMMA ReadLengthImplements ==
    ASSUME IInv, NEW e \in events, Server!RecvLength(e)
    PROVE  Service!ReadLength(Server!Target(e))
<1> DEFINE c == Server!Target(e)
<1>1. /\ spc = "event" /\ spc' = "text" /\ current' = e /\ table' = table
      /\ e.fd # Server!Listening
      /\ up[c] # <<>> /\ up' = [up EXCEPT ![c] = Tail(@)]
      /\ UNCHANGED <<down, copen, sopen, queue, reset>>
      BY DEF Server!RecvLength, Server!Reads, Server!Turn, Server!descriptors
<1>2. c = table[e.fd] /\ c \in Client /\ e.fd \in Server!Fd
      BY <1>1, TargetIsClient
<1>3. sopen[c] = "open"
      BY <1>2 DEF IInv, OpenMeansWatched
<1>4. /\ Serving("text")' = {c} /\ Serving("drop")' = {}
      /\ Serving("reply_length")' = {} /\ Serving("reply_text")' = {}
      BY <1>1 DEF Serving, Server!Target
<1>5. QED
      BY <1>1, <1>3, <1>4, Between DEF Service!ReadLength, Service!Idle

LEMMA ReadTextImplements ==
    ASSUME Server!RecvText
    PROVE  Service!ReadText(Server!Target(current))
<1> DEFINE c == Server!Target(current)
<1>1. /\ spc = "text" /\ up[c] # <<>> /\ up' = [up EXCEPT ![c] = Tail(@)]
      /\ UNCHANGED <<table, current, down, copen, sopen, queue, reset>>
      /\ IF Head(up[c]).of = "probe" THEN spc' = "reply_length" ELSE Server!Finish(current)
      BY DEF Server!RecvText, Server!descriptors
<1>2. /\ Serving("text") = {c} /\ Serving("drop") = {}
      /\ Serving("reply_length") = {} /\ Serving("reply_text") = {}
      BY <1>1 DEF Serving
<1>3. /\ Serving("text")' = {} /\ Serving("drop")' = {} /\ Serving("reply_text")' = {}
      /\ Serving("reply_length")' = IF Head(up[c]).of = "probe" THEN {c} ELSE {}
  <2>1. CASE Head(up[c]).of = "probe"
        BY <1>1, <2>1 DEF Serving, Server!Target
  <2>2. CASE Head(up[c]).of # "probe"
        BY <1>1, <2>2, FinishEnds
  <2>3. QED
        BY <2>1, <2>2
<1>4. QED
      BY <1>1, <1>2, <1>3 DEF Service!ReadText

LEMMA ReplyImplements ==
    ASSUME Server!ReplyLength \/ Server!ReplyText
    PROVE  \/ Service!AnswerLength(Server!Target(current))
           \/ Service!AnswerText(Server!Target(current))
<1> DEFINE c == Server!Target(current)
<1>1. CASE Server!ReplyLength
  <2>1. spc = "reply_length" /\ spc' = "reply_text" /\ UNCHANGED <<table, current>>
        BY <1>1 DEF Server!ReplyLength, Server!Reply, Server!SGoto, Server!descriptors
  <2>2. /\ Serving("text") = {} /\ Serving("drop") = {}
        /\ Serving("reply_length") = {c} /\ Serving("reply_text") = {}
        /\ Serving("text")' = {} /\ Serving("drop")' = {}
        /\ Serving("reply_length")' = {} /\ Serving("reply_text")' = {c}
        BY <2>1 DEF Serving, Server!Target
  <2>3. Service!AnswerLength(c)
        BY <1>1, <2>2 DEF Server!ReplyLength, Server!Reply, Service!AnswerLength,
                          Service!Answer, Service!Length
  <2>4. QED
        BY <2>3
<1>2. CASE Server!ReplyText
  <2>1. spc = "reply_text" /\ Server!Finish(current)
        BY <1>2 DEF Server!ReplyText
  <2>2. /\ Serving("text") = {} /\ Serving("drop") = {}
        /\ Serving("reply_length") = {} /\ Serving("reply_text") = {c}
        BY <2>1 DEF Serving
  <2>3. Service!AnswerText(c)
        BY <1>2, <2>1, <2>2, FinishEnds
        DEF Server!ReplyText, Server!Reply, Service!AnswerText, Service!Answer, Service!Text
  <2>4. QED
        BY <2>3
<1>3. QED
      BY <1>1, <1>2

\* An event with a broken connection is not the listening socket's.
LEMMA BrokenIsConnection ==
    ASSUME IInv, NEW e \in events, e.broken
    PROVE  e.fd # Server!Listening
<1>1. e \in Server!Event
      BY TypeParts DEF IInv, ServerTypeOK
<1>2. QED
      BY <1>1, ListeningApart DEF Server!Event, Server!ListenEvent

\* Every step of the server is one of the service, or none.
LEMMA ServiceStep == IInv /\ [Next]_vars => [Service!Next]_(Service!vars)
<1> SUFFICES ASSUME IInv, [Next]_vars PROVE Service!Next \/ UNCHANGED Service!vars
    OBVIOUS
<1>1. CASE UNCHANGED vars
      BY <1>1 DEF vars, clientVars, connection, serverVars, Service!vars, Service!clientVars,
         Service!connection, Service!serverVars, Serving, Server!Target
<1>2. CASE ClientStep
  <2>1. UNCHANGED serverVars
        BY <1>2 DEF ClientStep
  <2>2. UNCHANGED Service!serverVars
        BY <2>1 DEF serverVars, Service!serverVars, Serving, Server!Target
  <2>3. ASSUME NEW c \in Client, ClientNext(c) PROVE Service!Next
        BY <2>2, <2>3, SameClients DEF Service!Next
  <2>4. ASSUME NEW c \in Client, DigitsArrive(c) PROVE UNCHANGED Service!vars
        BY <2>2, <2>4 DEF DigitsArrive, clientVars, connection, Service!vars,
                          Service!clientVars, Service!connection
  <2>5. QED
        BY <1>2, <2>3, <2>4 DEF ClientStep
<1>3. CASE ServerStep
  <2>1. UNCHANGED clientVars /\ UNCHANGED Service!clientVars
        BY <1>3 DEF ServerStep, Elsewhere, clientVars, Service!clientVars
  <2>2. CASE \/ Server!Test \/ Server!SigInt \/ Server!Wait \/ Server!RecvTextFails
             \/ \E e \in events : Server!AcceptFail(e)
        BY <2>1, <2>2, StutterSteps
  <2>3. ASSUME Service!ServerNext PROVE Service!Next
        BY <2>1, <2>3 DEF Service!Next
  <2>4. CASE Server!Leave
        BY <2>3, <2>4, LeaveImplements DEF Service!ServerNext
  <2>5. ASSUME NEW e \in events, Server!CloseBroken(e) \/ Server!DropShort(e)
        PROVE  Service!ServerNext
    <3>1. /\ spc = "event" /\ e.fd # Server!Listening
          /\ Server!CloseFd(e.fd) /\ Server!Finish(e)
          BY <2>5, BrokenIsConnection
          DEF Server!CloseBroken, Server!DropShort, Server!Reads, Server!Turn
    <3>2. Server!Target(e) \in Client /\ Service!Close(Server!Target(e))
          BY <3>1, CloseImplements, TargetIsClient
    <3>3. QED
          BY <3>2 DEF Service!ServerNext
  <2>6. CASE Server!Drop
    <3>1. /\ spc = "drop" /\ Server!CloseFd(current.fd) /\ Server!Finish(current)
          BY <2>6 DEF Server!Drop
    <3>2. /\ current \in events /\ current.fd # Server!Listening
          /\ Server!Target(current) \in Client
          BY <3>1, CurrentInRound
    <3>3. Service!Close(Server!Target(current))
          BY <3>1, <3>2, CloseImplements
    <3>4. QED
          BY <2>3, <3>2, <3>3 DEF Service!ServerNext
  <2>7. ASSUME NEW e \in events, Server!RecvLength(e)
        PROVE  Service!ServerNext
    <3>1. Server!Target(e) \in Client
          BY <2>7, TargetIsClient DEF Server!RecvLength, Server!Reads
    <3>2. QED
          BY <2>7, <3>1, ReadLengthImplements DEF Service!ServerNext
  <2>8. CASE Server!RecvText \/ Server!ReplyLength \/ Server!ReplyText
    <3>1. Server!Target(current) \in Client
          BY <2>8, CurrentInRound
          DEF Server!RecvText, Server!ReplyLength, Server!ReplyText, Server!SGoto
    <3>2. QED
          BY <2>3, <2>8, <3>1, ReadTextImplements, ReplyImplements DEF Service!ServerNext
  <2>9. ASSUME NEW e \in events, NEW c \in Client, NEW f \in Server!Fd,
               Server!Accept(e, c, f)
        PROVE  Service!ServerNext
        BY <2>9, AcceptImplements DEF Service!ServerNext
  <2>10. QED
        BY <1>3, <2>2, <2>3, <2>4, <2>5, <2>6, <2>7, <2>8, <2>9
        DEF ServerStep, Server!ServerNext, Server!ServerWorks, Server!ServerAccepts
<1>4. QED
      BY <1>1, <1>2, <1>3 DEF Next

\* Nonblocking sockets, rounds of events and reused descriptors keep what
\* HeartbeatService promises, for any number of clients and descriptors.
THEOREM ServerImplementsService == Spec => ImplementsService
BY Invariant, ServiceInit, ServiceStep, PTL DEF Spec, Service!Spec, ImplementsService

-----------------------------------------------------------------------------
(* What that is worth to the clients *)

\* The service again, with what has been proved of it.
Promise == INSTANCE HeartbeatService_proof WITH
    reading <- Serving("text") \cup Serving("drop"),
    owing <- Serving("reply_length"),
    answering <- Serving("reply_text")

LEMMA PromiseInit == Service!Init => Promise!Init
BY DEF Service!Init, Promise!Init, Service!ClientInit, Promise!ClientInit

LEMMA PromiseNext == Service!Next => Promise!Next
BY DEF Service!Next, Service!ServerNext, Service!Stop, Service!Accept, Service!TurnAway,
       Service!ReadLength, Service!ReadText, Service!AnswerLength, Service!AnswerText,
       Service!Answer, Service!Close, Service!GiveUp, Service!Idle, Service!serverVars,
       Service!ClientNext, Service!ClientSends, Service!ClientReceives, Service!Connect,
       Service!SendHelloLength, Service!SendHelloText, Service!Count,
       Service!SendProbeLength, Service!SendProbeText, Service!SendFails,
       Service!SendKills, Service!SelectReady, Service!RecvLength, Service!RecvAck,
       Service!RecvEnd, Service!SelectTimeout, Service!Sleep, Service!Kill,
       Service!Exit, Service!Emit, Service!Hangup, Service!CGoto, Service!Length,
       Service!Text, Service!clientVars, Service!connection, Promise!Next,
       Promise!ServerNext, Promise!Stop, Promise!Accept, Promise!TurnAway,
       Promise!ReadLength, Promise!ReadText, Promise!AnswerLength, Promise!AnswerText,
       Promise!Answer, Promise!Close, Promise!GiveUp, Promise!Idle, Promise!serverVars,
       Promise!ClientNext, Promise!ClientSends, Promise!ClientReceives, Promise!Connect,
       Promise!SendHelloLength, Promise!SendHelloText, Promise!Count,
       Promise!SendProbeLength, Promise!SendProbeText, Promise!SendFails,
       Promise!SendKills, Promise!SelectReady, Promise!RecvLength, Promise!RecvAck,
       Promise!RecvEnd, Promise!SelectTimeout, Promise!Sleep, Promise!Kill,
       Promise!Exit, Promise!Emit, Promise!Hangup, Promise!CGoto, Promise!Length,
       Promise!Text, Promise!clientVars, Promise!connection

LEMMA PromiseStep == [Service!Next]_(Service!vars) => [Promise!Next]_(Promise!vars)
BY PromiseNext
DEF Service!vars, Promise!vars, Service!serverVars, Promise!serverVars,
    Service!clientVars, Promise!clientVars, Service!connection, Promise!connection

LEMMA KeepsPromise == Spec => Promise!Spec
BY ServerImplementsService, PromiseInit, PromiseStep, PTL
DEF ImplementsService, Service!Spec, Promise!Spec

\* With this server too a length is taken for a length and a text for the text
\* it announces, no client takes a late answer for that to its last probe, and
\* no answer is begun on a connection that has been reset.
THEOREM ClientsGetTheSame ==
    Spec => [](Service!FramesInStep /\ Service!AckMatchesProbe /\ Service!NoBrokenPipe)
<1>1. Promise!FramesInStep => Service!FramesInStep
      BY DEF Promise!FramesInStep, Service!FramesInStep
<1>2. Promise!AckMatchesProbe => Service!AckMatchesProbe
      BY DEF Promise!AckMatchesProbe, Service!AckMatchesProbe,
             Promise!Outstanding, Service!Outstanding, Promise!Text, Service!Text
<1>3. Promise!NoBrokenPipe => Service!NoBrokenPipe
      BY DEF Promise!NoBrokenPipe, Service!NoBrokenPipe
<1>4. QED
      BY KeepsPromise, Promise!ServiceKeepsFrames, Promise!ServiceAnswersOnce,
         Promise!ServiceSparesServer, ClientAssumption, <1>1, <1>2, <1>3, PTL

-----------------------------------------------------------------------------
(* Which connections the server closes *)

\* An event that has not been handled is still true: the connection is readable,
\* and broken only if its client has reset it.
EventOK(e) ==
    /\ e.broken => Server!Target(e) \in reset
    /\ spc = "event" \/ e # current => Server!Readable(Server!Target(e))
EventInv == \A e \in events : e.fd # Server!Listening => EventOK(e)

\* No client takes back what it has said, its end, or a reset.
LEMMA ClientsStayReadable ==
    ASSUME ClientTypeOK, BegunInv, NEW c \in Client, ClientNext(c), DigitsSettled,
           NEW d \in Client, sopen[d] = "open"
    PROVE  /\ Server!Readable(d) => Server!Readable(d)'
           /\ d \in reset => d \in reset'
<1>1. up \in [Client -> Seq(Unit)] /\ copen \in [Client -> BOOLEAN]
      BY DEF ClientTypeOK
<1>2. ASSUME Connect(c)
      PROVE  /\ (up[d] # <<>> \/ ~copen[d] => up'[d] # <<>> \/ ~copen'[d])
             /\ d \in reset => d \in reset'
      BY <1>1, <1>2 DEF Connect, ClientTypeOK
<1>3. ASSUME NEW u \in Unit, Emit(c, u)
      PROVE  /\ (up[d] # <<>> \/ ~copen[d] => up'[d] # <<>> \/ ~copen'[d])
             /\ d \in reset => d \in reset'
  <2>1. up[c] \in Seq(Unit) /\ Append(up[c], u) # <<>>
        BY <1>1, SentIsThere
  <2>2. QED
        BY <1>1, <1>3, <2>1 DEF Emit
<1>4. ASSUME Exit(c)
      PROVE  /\ (up[d] # <<>> \/ ~copen[d] => up'[d] # <<>> \/ ~copen'[d])
             /\ d \in reset => d \in reset'
      BY <1>1, <1>4 DEF Exit
<1>5. ASSUME UNCHANGED <<up, copen, reset>>
      PROVE  /\ (up[d] # <<>> \/ ~copen[d] => up'[d] # <<>> \/ ~copen'[d])
             /\ d \in reset => d \in reset'
      BY <1>5
<1>6. Length("hello") \in Unit /\ Text("hello") \in Unit
      /\ Length("probe") \in Unit /\ Text("probe") \in Unit
      BY UnitTyped DEF Message
<1>7. \/ Connect(c) \/ Exit(c) \/ UNCHANGED <<up, copen, reset>>
      \/ \E u \in Unit : Emit(c, u)
      BY <1>6 DEF ClientNext, ClientSends, ClientReceives, SendHelloLength,
         SendHelloText, Count, SendProbeLength, SendProbeText, SendFails, SendKills,
         SelectReady, RecvLength, RecvAck, RecvEnd, SelectTimeout, Sleep, Kill,
         connection
<1>8. /\ (up[d] # <<>> \/ ~copen[d] => up'[d] # <<>> \/ ~copen'[d])
      /\ d \in reset => d \in reset'
      BY <1>2, <1>3, <1>4, <1>5, <1>7
<1>9. d \in begun => d \in begun' \/ up'[d] # <<>> \/ ~copen'[d]
      BY DigitsFollow
<1>10. QED
      BY <1>8, <1>9 DEF Server!Readable

LEMMA EventInit == Init => EventInv
BY DEF Init, Server!ServerInit, EventInv

\* A connection that an event is about is open, and no other event is about it.
LEMMA EventIsOpen ==
    ASSUME IInv, NEW e \in events, e.fd # Server!Listening
    PROVE  /\ Server!Target(e) \in Client /\ sopen[Server!Target(e)] = "open"
           /\ \A d \in events : d # e /\ d.fd # Server!Listening =>
                  d.fd # e.fd /\ Server!Target(d) # Server!Target(e)
<1>1. /\ e.fd \in Server!Fd /\ Server!Target(e) = table[e.fd]
      /\ table[e.fd] \in Client
      BY TargetIsClient
<1>2. sopen[table[e.fd]] = "open"
      BY <1>1 DEF IInv, OpenMeansWatched
<1>3. ASSUME NEW d \in events, d # e, d.fd # Server!Listening
      PROVE  d.fd # e.fd /\ Server!Target(d) # Server!Target(e)
  <2>1. d.fd \in Server!Fd /\ Server!Target(d) = table[d.fd] /\ d.fd # e.fd
        BY <1>3, TargetIsClient DEF IInv, RoundInv
  <2>2. QED
        BY <1>1, <2>1, ServerAssumption DEF IInv, OpenMeansWatched
<1>4. QED
      BY <1>1, <1>2, <1>3

LEMMA ClientEvents ==
    ASSUME IInv, EventInv, BegunInv, ClientStep
    PROVE  EventInv'
<1> SUFFICES ASSUME NEW e \in events, e.fd # Server!Listening PROVE EventOK(e)'
    BY DEF ClientStep, serverVars, EventInv, Server!Listening
<1>1. UNCHANGED <<spc, table, events, current>>
      BY DEF ClientStep, serverVars
<1> PICK d \in Client : d = table[e.fd] /\ sopen[d] = "open"
    BY EventIsOpen DEF Server!Target
<1>2. EventOK(e)
      BY DEF EventInv
<1>3. /\ Server!Readable(d) => Server!Readable(d)'
      /\ d \in reset => d \in reset'
  <2>1. CASE (\E c \in Client : ClientNext(c)) /\ DigitsSettled
        BY <2>1, ClientsStayReadable, TypeParts DEF IInv
  <2>2. CASE \E c \in Client : DigitsArrive(c)
        BY <2>2 DEF DigitsArrive, connection, Server!Readable
  <2>3. QED
        BY <2>1, <2>2 DEF ClientStep
<1>4. QED
      BY <1>1, <1>2, <1>3 DEF EventOK, Server!Target, Server!Readable

\* epoll_wait reports what is readable, and what is broken only if it is.
LEMMA WaitEvents ==
    ASSUME IInv, Server!Wait, UNCHANGED begun
    PROVE  EventInv'
<1> SUFFICES ASSUME NEW e \in events', e.fd # Server!Listening PROVE EventOK(e)'
    BY DEF EventInv, Server!Listening
<1>1. /\ events' = Server!Due /\ UNCHANGED <<table, reset, up, copen>>
      BY DEF Server!Wait, Server!descriptors
<1>2. /\ e.fd \in watched /\ Server!Readable(table[e.fd])
      /\ e = [fd |-> e.fd, about |-> table[e.fd], broken |-> table[e.fd] \in reset]
      BY <1>1 DEF Server!Due, Server!ListenEvent
<1>3. e.broken => table[e.fd] \in reset
  <2>1. \A b : e = [fd |-> e.fd, about |-> table[e.fd], broken |-> b] => e.broken = b
        OBVIOUS
  <2>2. e.broken = (table[e.fd] \in reset)
        BY <1>2, <2>1, Zenon
  <2>3. QED
        BY <2>2
<1>4. QED
      BY <1>1, <1>2, <1>3 DEF EventOK, Server!Target, Server!Readable

\* A step that is about one event leaves the others true.
LEMMA OthersStayTrue ==
    ASSUME IInv, EventInv, NEW e \in events, spc = "event" \/ e = current,
           events' \subseteq events, current' = e,
           e \in events' => spc' # "event",
           e \in events' => table'[e.fd] = table[e.fd],
           reset \subseteq reset',
           \A d \in events : d # e /\ d.fd # Server!Listening =>
               /\ table'[d.fd] = table[d.fd]
               /\ Server!Readable(table[d.fd]) => Server!Readable(table[d.fd])'
    PROVE  EventInv'
<1> SUFFICES ASSUME NEW d \in events', d.fd # Server!Listening PROVE EventOK(d)'
    BY DEF EventInv, Server!Listening
<1>1. d \in events /\ EventOK(d)
      BY DEF EventInv
<1>2. CASE d = e
      BY <1>1, <1>2 DEF EventOK, Server!Target
<1>3. CASE d # e
  <2>1. Server!Readable(table[d.fd]) /\ (d.broken => table[d.fd] \in reset)
        BY <1>1, <1>3 DEF EventOK, Server!Target
  <2>2. table'[d.fd] = table[d.fd] /\ Server!Readable(table[d.fd])'
        BY <1>1, <1>3, <2>1
  <2>3. QED
        BY <2>1, <2>2 DEF EventOK, Server!Target, Server!Readable
<1>4. QED
      BY <1>2, <1>3

LEMMA CloseEvents ==
    ASSUME IInv, EventInv, NEW e \in events, e.fd # Server!Listening,
           spc = "event" \/ e = current,
           Server!CloseFd(e.fd), Server!Finish(e), current' = e, UNCHANGED begun
    PROVE  EventInv'
<1>1. /\ table' = [table EXCEPT ![e.fd] = NoClient] /\ events' = events \ {e}
      /\ up' = [up EXCEPT ![table[e.fd]] = <<>>] /\ UNCHANGED <<copen, reset>>
      BY DEF Server!CloseFd, Server!Finish
<1>2. ASSUME NEW d \in events, d # e, d.fd # Server!Listening
      PROVE  /\ table'[d.fd] = table[d.fd]
             /\ Server!Readable(table[d.fd]) => Server!Readable(table[d.fd])'
  <2>1. /\ d.fd # e.fd /\ table[d.fd] # table[e.fd] /\ table[d.fd] \in Client
        /\ d.fd \in Server!Fd
        BY <1>2, EventIsOpen, TargetIsClient DEF Server!Target
  <2>2. table \in [Server!Fd -> Client \cup {NoClient}] /\ up \in [Client -> Seq(Unit)]
        BY TypeParts DEF IInv, ServerTypeOK, ClientTypeOK
  <2>3. table'[d.fd] = table[d.fd] /\ up'[table[d.fd]] = up[table[d.fd]]
        BY <1>1, <2>1, <2>2
  <2>4. QED
        BY <1>1, <2>3 DEF Server!Readable
<1>3. QED
      BY <1>1, <1>2, OthersStayTrue

LEMMA AcceptEvents ==
    ASSUME IInv, EventInv, NEW e \in events, NEW c \in Client, NEW f \in Server!Fd,
           Server!Accept(e, c, f), UNCHANGED begun
    PROVE  EventInv'
<1>1. /\ spc = "event" /\ current' = e /\ events' = events \ {e}
      /\ table[f] = NoClient /\ table' = [table EXCEPT ![f] = c]
      /\ UNCHANGED <<up, copen, reset>>
      BY DEF Server!Accept, Server!Turn, Server!Finish, Server!Free
<1>2. ASSUME NEW d \in events, d # e, d.fd # Server!Listening
      PROVE  /\ table'[d.fd] = table[d.fd]
             /\ Server!Readable(table[d.fd]) => Server!Readable(table[d.fd])'
  <2>1. d.fd # f /\ d.fd \in Server!Fd
        BY <1>1, <1>2, TargetIsClient, ServerAssumption
  <2>2. table \in [Server!Fd -> Client \cup {NoClient}]
        BY TypeParts DEF IInv, ServerTypeOK
  <2>3. QED
        BY <1>1, <2>1, <2>2 DEF Server!Readable
<1>3. QED
      BY <1>1, <1>2, OthersStayTrue

LEMMA TransferEvents ==
    ASSUME IInv, EventInv, UNCHANGED begun,
           \/ \E e \in events : Server!RecvLength(e)
           \/ Server!RecvText \/ Server!ReplyLength \/ Server!ReplyText
    PROVE  EventInv'
<1>1. PICK e \in events :
         /\ e.fd # Server!Listening /\ current' = e
         /\ \/ Server!RecvLength(e)
            \/ e = current /\ (Server!RecvText \/ Server!ReplyLength \/ Server!ReplyText)
  <2>1. CASE \E e \in events : Server!RecvLength(e)
        BY <2>1 DEF Server!RecvLength, Server!Reads, Server!Turn
  <2>2. CASE Server!RecvText \/ Server!ReplyLength \/ Server!ReplyText
    <3>1. current \in events /\ current.fd # Server!Listening
          BY <2>2, CurrentInRound
          DEF Server!RecvText, Server!ReplyLength, Server!ReplyText, Server!SGoto
    <3>2. current' = current
          BY <2>2 DEF Server!RecvText, Server!ReplyLength, Server!ReplyText, Server!Reply
    <3>3. QED
          BY <2>2, <3>1, <3>2
  <2>3. QED
        BY <2>1, <2>2
<1>2. /\ spc = "event" \/ e = current
      /\ table' = table /\ copen' = copen /\ reset \subseteq reset'
      /\ up' = up \/ up' = [up EXCEPT ![table[e.fd]] = Tail(@)]
      /\ (events' = events /\ spc' # "event") \/ events' = events \ {e}
  <2>1. CASE Server!RecvLength(e)
        BY <2>1 DEF Server!RecvLength, Server!Reads, Server!Turn, Server!Target,
                    Server!descriptors
  <2>2. CASE e = current /\ Server!RecvText
        BY <2>2 DEF Server!RecvText, Server!Target, Server!descriptors, Server!Finish
  <2>3. CASE e = current /\ Server!ReplyLength
        BY <2>3 DEF Server!ReplyLength, Server!Reply, Server!descriptors, Server!SGoto
  <2>4. CASE e = current /\ Server!ReplyText
        BY <2>4 DEF Server!ReplyText, Server!Reply, Server!descriptors, Server!Finish
  <2>5. QED
        BY <1>1, <2>1, <2>2, <2>3, <2>4
<1>3. ASSUME NEW d \in events, d # e, d.fd # Server!Listening
      PROVE  Server!Readable(table[d.fd]) => Server!Readable(table[d.fd])'
  <2>1. table[d.fd] # table[e.fd] /\ table[d.fd] \in Client
        BY <1>1, <1>3, EventIsOpen, TargetIsClient DEF Server!Target
  <2>2. up \in [Client -> Seq(Unit)]
        BY TypeParts DEF IInv, ClientTypeOK
  <2>3. up'[table[d.fd]] = up[table[d.fd]]
        BY <1>2, <2>1, <2>2
  <2>4. QED
        BY <1>2, <2>3 DEF Server!Readable
<1>4. QED
      BY <1>1, <1>2, <1>3, OthersStayTrue

LEMMA EventStep == IInv /\ BegunInv /\ EventInv /\ [Next]_vars => EventInv'
<1> SUFFICES ASSUME IInv, BegunInv, EventInv, [Next]_vars PROVE EventInv'
    OBVIOUS
<1>1. CASE ClientStep
      BY <1>1, ClientEvents
<1>2. CASE UNCHANGED vars
      BY <1>2 DEF vars, serverVars, connection, EventInv, EventOK, Server!Target,
                  Server!Readable, Server!Listening
<1>3. CASE ServerStep
  <2>1. UNCHANGED begun
        BY <1>3 DEF ServerStep, Elsewhere
  <2>2. CASE Server!Test \/ Server!Leave
    <3>1. spc = "test" /\ events' = events
          BY <2>2 DEF Server!Test, Server!Leave, Server!SGoto
    <3>2. QED
          BY <3>1 DEF IInv, RoundInv, EventInv
  <2>3. CASE Server!SigInt
    <3>1. /\ UNCHANGED <<table, events, current, up, copen, reset>>
          /\ spc' = spc \/ events = {}
          BY <2>3 DEF Server!SigInt, Server!descriptors, IInv, RoundInv
    <3>2. QED
          BY <2>1, <3>1 DEF EventInv, EventOK, Server!Target, Server!Readable, Server!Listening
  <2>4. CASE Server!Wait
        BY <2>1, <2>4, WaitEvents
  <2>5. CASE Server!RecvTextFails
    <3>1. /\ UNCHANGED <<table, events, current, up, copen, reset>>
          /\ spc = "text" /\ spc' = "drop"
          BY <2>5 DEF Server!RecvTextFails, Server!descriptors, Server!SGoto
    <3>2. QED
          BY <2>1, <3>1 DEF EventInv, EventOK, Server!Target, Server!Readable, Server!Listening
  <2>6. ASSUME NEW e \in events, Server!AcceptFail(e)
        PROVE  EventInv'
    <3>1. /\ UNCHANGED <<table, up, copen, reset>> /\ events' = events \ {e}
          /\ spc = "event" /\ current' = e
          BY <2>6 DEF Server!AcceptFail, Server!Turn, Server!Finish, Server!descriptors
    <3>2. \A d \in events : Server!Readable(table[d.fd]) => Server!Readable(table[d.fd])'
          BY <2>1, <3>1 DEF Server!Readable
    <3>3. QED
          BY <3>1, <3>2, OthersStayTrue
  <2>7. ASSUME NEW e \in events, Server!CloseBroken(e) \/ Server!DropShort(e)
        PROVE  EventInv'
    <3>1. /\ spc = "event" /\ current' = e /\ e.fd # Server!Listening
          /\ Server!CloseFd(e.fd) /\ Server!Finish(e)
          BY <2>7, BrokenIsConnection
          DEF Server!CloseBroken, Server!DropShort, Server!Reads, Server!Turn
    <3>2. QED
          BY <2>1, <3>1, CloseEvents
  <2>8. CASE Server!Drop
    <3>1. /\ spc = "drop" /\ current' = current
          /\ Server!CloseFd(current.fd) /\ Server!Finish(current)
          BY <2>8 DEF Server!Drop
    <3>2. current \in events /\ current.fd # Server!Listening
          BY <3>1, CurrentInRound
    <3>3. QED
          BY <2>1, <3>1, <3>2, CloseEvents
  <2>9. CASE \/ \E e \in events : Server!RecvLength(e)
             \/ Server!RecvText \/ Server!ReplyLength \/ Server!ReplyText
        BY <2>1, <2>9, TransferEvents
  <2>10. ASSUME NEW e \in events, NEW c \in Client, NEW f \in Server!Fd,
                Server!Accept(e, c, f)
         PROVE  EventInv'
         BY <2>1, <2>10, AcceptEvents
  <2>11. QED
         BY <1>3, <2>2, <2>3, <2>4, <2>5, <2>6, <2>7, <2>8, <2>9, <2>10
         DEF ServerStep, Server!ServerNext, Server!ServerWorks, Server!ServerAccepts
<1>4. QED
      BY <1>1, <1>2, <1>3 DEF Next

\* The server looks for a text in vain, with the client still there, only when
\* the client has not sent it.
LEMMA MissesOnlyUnsent ==
    ASSUME IInv, Promise!HalfSent, [Next]_vars, NEW c \in Client, copen[c],
           spc = "text", spc' = "drop", Server!Target(current) = c
    PROVE  cpc[c] \in {"hello_text", "probe_text"}
<1>1. Server!RecvTextFails
      BY DEF Next, ClientStep, ServerStep, vars, serverVars, Server!ServerNext,
         Server!ServerWorks, Server!ServerAccepts, Server!Test, Server!Leave, Server!Wait,
         Server!CloseBroken, Server!DropShort, Server!Reads, Server!RecvLength,
         Server!RecvText, Server!Drop, Server!ReplyLength, Server!ReplyText,
         Server!Accept, Server!AcceptFail, Server!SigInt, Server!Turn, Server!SGoto,
         Server!Finish
<1>2. up[c] = <<>> /\ c \in Serving("text")
      BY <1>1 DEF Server!RecvTextFails, Serving
<1>3. QED
      BY <1>2 DEF Promise!HalfSent, Promise!Mid

\* A connection of a client that is still there is closed for want of digits or
\* of a text, or at the end.
LEMMA ClosesOnlyThen ==
    ASSUME IInv, EventInv, Promise!HalfSent, [Next]_vars, NEW c \in Client, copen[c],
           sopen[c] = "open", sopen'[c] = "closed"
    PROVE  \/ spc = "event" /\ c \in begun /\ up[c] = <<>>
           \/ spc = "drop" /\ Server!Target(current) = c
           \/ spc' = "exit"
<1>1. ClientTypeOK /\ c \notin reset
      BY TypeParts DEF IInv, Promise!HalfSent
<1>2. CASE ClientStep
  <2>1. ASSUME NEW d \in Client, ClientNext(d)
        PROVE  sopen' = sopen \/ sopen' = [sopen EXCEPT ![d] = "backlog"]
    <3>1. CASE Connect(d)
          BY <3>1 DEF Connect
    <3>2. CASE ~Connect(d)
          BY <2>1, <3>2, OnlyConnectQueues
    <3>3. QED
          BY <3>1, <3>2
  <2>2. ASSUME NEW d \in Client, DigitsArrive(d) PROVE sopen' = sopen
        BY <2>2 DEF DigitsArrive, connection
  <2>3. QED
        BY <1>1, <1>2, <2>1, <2>2 DEF ClientStep, ClientTypeOK
<1>3. CASE ServerStep /\ sopen' # sopen
  <2>1. CASE Server!Leave
        BY <2>1 DEF Server!Leave, Server!SGoto
  <2>2. ASSUME NEW e \in events, Server!CloseBroken(e) \/ Server!DropShort(e)
        PROVE  spc = "event" /\ c \in begun /\ up[c] = <<>>
    <3>1. /\ spc = "event" /\ e.fd # Server!Listening
          /\ sopen' = [sopen EXCEPT ![table[e.fd]] = "closed"]
          BY <2>2, BrokenIsConnection
          DEF Server!CloseBroken, Server!DropShort, Server!Reads, Server!Turn,
              Server!CloseFd
    <3>2. Server!Target(e) = c
          BY <1>1, <3>1 DEF ClientTypeOK, Server!Target
    <3>3. Server!Readable(c) /\ (e.broken => c \in reset)
          BY <3>1, <3>2 DEF EventInv, EventOK
    <3>4. QED
          BY <1>1, <2>2, <3>1, <3>2, <3>3
          DEF Server!CloseBroken, Server!DropShort, Server!Readable
  <2>3. CASE Server!Drop
    <3>1. spc = "drop" /\ sopen' = [sopen EXCEPT ![Server!Target(current)] = "closed"]
          BY <2>3 DEF Server!Drop, Server!CloseFd, Server!Target
    <3>2. QED
          BY <1>1, <3>1 DEF ClientTypeOK
  <2>4. ASSUME NEW e \in events, NEW d \in Client, NEW f \in Server!Fd,
               Server!Accept(e, d, f)
        PROVE  FALSE
        BY <1>1, <2>4 DEF Server!Accept, ClientTypeOK
  <2>5. QED
        BY <1>3, <2>1, <2>2, <2>3, <2>4
        DEF ServerStep, Server!ServerNext, Server!ServerWorks, Server!ServerAccepts,
            Server!Test, Server!Wait, Server!SigInt, Server!RecvLength, Server!RecvText,
            Server!RecvTextFails, Server!ReplyLength, Server!ReplyText, Server!Reply,
            Server!AcceptFail
<1>4. CASE sopen' = sopen
      BY <1>4
<1>5. QED
      BY <1>2, <1>3, <1>4 DEF Next, vars, connection

\* The server ends the connection of a client that is still there only when it
\* has looked while a length or the text behind it was on its way, or when it
\* ends itself.
THEOREM OnlyHalfSentIsDropped == Spec => DropsOnlyHalfSent
<1>1. Spec => []EventInv
      BY Invariant, Digits, EventInit, EventStep, PTL DEF Spec
<1>2. Spec => []Promise!HalfSent
      BY KeepsPromise, Promise!ServiceWaitsForText, ClientAssumption, PTL
<1>3. ASSUME IInv, EventInv, Promise!HalfSent, [Next]_vars
      PROVE  \A c \in Client : copen[c] =>
                /\ spc = "text" /\ spc' = "drop" /\ Server!Target(current) = c =>
                      cpc[c] \in {"hello_text", "probe_text"}
                /\ sopen[c] = "open" /\ sopen'[c] = "closed" =>
                      \/ spc = "event" /\ c \in begun /\ up[c] = <<>>
                      \/ spc = "drop" /\ Server!Target(current) = c
                      \/ spc' = "exit"
      BY <1>3, MissesOnlyUnsent, ClosesOnlyThen
<1>4. QED
      BY Invariant, <1>1, <1>2, <1>3, PTL DEF Spec, DropsOnlyHalfSent
==============================================================================
