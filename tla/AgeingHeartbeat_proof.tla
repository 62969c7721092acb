----------------------- MODULE AgeingHeartbeat_proof ------------------------
(***************************************************************************)
(* Proofs about the forking heartbeat server, for any number of clients.   *)
(***************************************************************************)
EXTENDS AgeingHeartbeat, HeartbeatClient_proof

\* The server's own variables have their types.
ServerTypeOK ==
    /\ parent \in ParentLabel
    /\ connfd \in Client \cup {NoClient}
    /\ kept \in SUBSET Client
    /\ child \in [Client -> ChildLabel]

\* From accept to close the parent has the connection in connfd, before the
\* fork with nobody to serve it.
ConnfdInv ==
    /\ parent \in {"fork", "close"} => connfd \in kept
    /\ parent = "fork" => child[connfd] = "none"

IInv == TypeOK /\ WaitsOnce /\ ConnfdInv /\ ConnectionsHaveOwners

LEMMA TypeParts == TypeOK <=> ClientTypeOK /\ ServerTypeOK
BY DEF TypeOK, ServerTypeOK

LEMMA InvInit == Init => IInv
<1> SUFFICES ASSUME Init PROVE IInv
    OBVIOUS
<1>1. ClientTypeOK
      BY ClientInitTyped DEF Init
<1>2. ServerTypeOK
      BY DEF Init, ServerTypeOK, ParentLabel, ChildLabel
<1>3. WaitsOnce /\ ConnfdInv /\ ConnectionsHaveOwners
      BY DEF Init, ClientInit, WaitsOnce, ConnfdInv, ConnectionsHaveOwners
<1>4. QED
      BY <1>1, <1>2, <1>3, TypeParts DEF IInv

-----------------------------------------------------------------------------
(* Steps of the clients *)

LEMMA ClientStepInv ==
    ASSUME IInv, NEW c \in Client, ClientNext(c), UNCHANGED serverVars
    PROVE  IInv'
<1>1. UNCHANGED serverVars
      OBVIOUS
<1>2. TypeOK'
  <2>1. ClientTypeOK'
        BY ClientKeepsTypes, TypeParts DEF IInv
  <2>2. ServerTypeOK'
        BY <1>1, TypeParts DEF IInv, ServerTypeOK, serverVars
  <2>3. QED
        BY <2>1, <2>2, TypeParts DEF TypeOK, ServerTypeOK
<1>3. ConnfdInv'
      BY <1>1 DEF IInv, ConnfdInv, serverVars
<1>4. WaitsOnce'
      BY ClientsWaitOnce, TypeParts DEF IInv
<1>5. ConnectionsHaveOwners'
  <2>1. CASE Connect(c)
    <3>1. sopen[c] # "open" /\ sopen' = [sopen EXCEPT ![c] = "backlog"]
          BY <2>1 DEF Connect
    <3>2. sopen \in [Client -> {"none", "backlog", "open", "closed"}]
          BY DEF IInv, TypeOK, ClientTypeOK
    <3>3. QED
          BY <1>1, <3>1, <3>2 DEF IInv, ConnectionsHaveOwners, serverVars
  <2>2. CASE ~Connect(c)
        BY <1>1, <2>2, OnlyConnectQueues DEF IInv, ConnectionsHaveOwners, serverVars
  <2>3. QED
        BY <2>1, <2>2
<1>6. QED
      BY <1>2, <1>3, <1>4, <1>5 DEF IInv

-----------------------------------------------------------------------------
(* What the steps of the server have in common *)

\* Closing the last descriptor keeps the types.
LEMMA LastCloseTyped ==
    ASSUME ClientTypeOK, NEW c \in Client, LastClose(c), UNCHANGED clientVars
    PROVE  ClientTypeOK'
<1>1. <<>> \in Seq(Unit)
      OBVIOUS
<1>2. up' \in [Client -> Seq(Unit)]
      BY <1>1 DEF ClientTypeOK, LastClose
<1>3. sopen' \in [Client -> {"none", "backlog", "open", "closed"}]
      BY DEF ClientTypeOK, LastClose
<1>4. QED
      BY <1>2, <1>3 DEF ClientTypeOK, LastClose, clientVars

\* A connection that is closed does not wait.
LEMMA LastCloseQueue ==
    ASSUME TypeOK, WaitsOnce, NEW c \in Client, sopen[c] = "open", LastClose(c)
    PROVE  WaitsOnce'
BY DEF TypeOK, ClientTypeOK, WaitsOnce, LastClose

\* The labels the parent moves between.
LEMMA ParentSteps ==
    ASSUME ServerTypeOK, NEW to \in ParentLabel, parent' = to,
           UNCHANGED <<connfd, kept, child>>
    PROVE  ServerTypeOK'
BY DEF ServerTypeOK

-----------------------------------------------------------------------------
(* Steps of the parent *)

LEMMA AcceptInv ==
    ASSUME IInv, Accept, UNCHANGED clientVars
    PROVE  IInv'
<1> DEFINE c == Head(queue)
<1>1. /\ parent = "accept" /\ parent' = "fork" /\ connfd' = c
      /\ queue # <<>> /\ queue' = Tail(queue)
      /\ kept' = kept \cup {c} /\ sopen' = [sopen EXCEPT ![c] = "open"]
      /\ UNCHANGED <<child, up, down, copen, reset, clientVars>>
      BY DEF Accept, PGoto
<1>2. /\ c \in Client /\ sopen[c] = "backlog"
      /\ queue' \in Seq(Client) /\ WaitsOnce'
      BY <1>1, HeadLeavesQueue, TypeParts DEF IInv
<1>3. /\ sopen \in [Client -> {"none", "backlog", "open", "closed"}]
      /\ child \in [Client -> ChildLabel] /\ kept \in SUBSET Client
      BY DEF IInv, TypeOK, ClientTypeOK
<1>4. child[c] = "none" /\ c \notin kept
      BY <1>2 DEF IInv, ConnectionsHaveOwners
<1>5. ClientTypeOK'
      BY <1>1, <1>2, <1>3 DEF IInv, TypeOK, ClientTypeOK, clientVars
<1>6. ServerTypeOK'
      BY <1>1, <1>2, <1>3 DEF ServerTypeOK, ParentLabel
<1>7. ConnfdInv'
      BY <1>1, <1>4 DEF ConnfdInv
<1>8. ConnectionsHaveOwners'
      BY <1>1, <1>2, <1>3, <1>4 DEF IInv, ConnectionsHaveOwners
<1>9. QED
      BY <1>2, <1>5, <1>6, <1>7, <1>8, TypeParts DEF IInv, TypeOK, ServerTypeOK

\* The steps of the parent that open and close nothing.
LEMMA ParentMovesInv ==
    ASSUME IInv, Poll \/ AcceptFail \/ ForkFail \/ Rest, UNCHANGED clientVars
    PROVE  IInv'
<1>1. /\ parent' \in ParentLabel \ {"fork", "close"} /\ parent # "close"
      /\ UNCHANGED <<connfd, kept, child, connection>>
      BY DEF Poll, AcceptFail, ForkFail, Rest, PGoto, ParentLabel
<1>2. TypeOK'
      BY <1>1 DEF IInv, TypeOK, ClientTypeOK, clientVars, connection
<1>3. WaitsOnce' /\ ConnfdInv' /\ ConnectionsHaveOwners'
      BY <1>1 DEF IInv, WaitsOnce, ConnfdInv, ConnectionsHaveOwners, connection
<1>4. QED
      BY <1>2, <1>3 DEF IInv

LEMMA ForkInv ==
    ASSUME IInv, Fork, UNCHANGED clientVars
    PROVE  IInv'
<1>1. /\ parent = "fork" /\ parent' = "close"
      /\ child' = [child EXCEPT ![connfd] = "select"]
      /\ UNCHANGED <<connfd, kept, connection, clientVars>>
      BY DEF Fork, PGoto
<1>2. connfd \in kept /\ kept \in SUBSET Client /\ child \in [Client -> ChildLabel]
      BY <1>1 DEF IInv, TypeOK, ConnfdInv
<1>3. TypeOK'
      BY <1>1, <1>2
      DEF IInv, TypeOK, ClientTypeOK, clientVars, connection, ParentLabel, ChildLabel
<1>4. WaitsOnce' /\ ConnfdInv' /\ ConnectionsHaveOwners'
      BY <1>1, <1>2 DEF IInv, WaitsOnce, ConnfdInv, ConnectionsHaveOwners, connection
<1>5. QED
      BY <1>3, <1>4 DEF IInv

LEMMA ParentCloseInv ==
    ASSUME IInv, ParentClose, UNCHANGED clientVars
    PROVE  IInv'
<1>1. /\ parent = "close" /\ parent' = "sleep" /\ kept' = kept \ {connfd}
      /\ UNCHANGED <<connfd, child, clientVars>>
      BY DEF ParentClose, PGoto
<1>2. /\ connfd \in kept /\ connfd \in Client /\ sopen[connfd] = "open"
      /\ sopen \in [Client -> {"none", "backlog", "open", "closed"}]
      /\ kept \in SUBSET Client
      BY <1>1 DEF IInv, TypeOK, ClientTypeOK, ConnfdInv, ConnectionsHaveOwners
<1>3. ServerTypeOK'
      BY <1>1, TypeParts DEF IInv, ServerTypeOK, ParentLabel
<1>4. ConnfdInv'
      BY <1>1 DEF ConnfdInv
<1>5. CASE child[connfd] = "none"
  <2>1. LastClose(connfd)
        BY <1>5 DEF ParentClose
  <2>2. ClientTypeOK'
        BY <1>2, <2>1, LastCloseTyped, TypeParts DEF IInv
  <2>3. WaitsOnce'
        BY <1>2, <2>1, LastCloseQueue DEF IInv
  <2>4. ConnectionsHaveOwners'
        BY <1>1, <1>2, <1>5, <2>1 DEF IInv, ConnectionsHaveOwners, LastClose
  <2>5. QED
        BY <1>3, <1>4, <2>2, <2>3, <2>4, TypeParts DEF IInv, TypeOK, ServerTypeOK
<1>6. CASE child[connfd] # "none"
  <2>1. UNCHANGED connection
        BY <1>6 DEF ParentClose
  <2>2. ClientTypeOK' /\ WaitsOnce'
        BY <1>1, <2>1 DEF IInv, TypeOK, ClientTypeOK, WaitsOnce, connection, clientVars
  <2>3. ConnectionsHaveOwners'
        BY <1>1, <1>2, <1>6, <2>1 DEF IInv, ConnectionsHaveOwners, connection
  <2>4. QED
        BY <1>3, <1>4, <2>2, <2>3, TypeParts DEF IInv, TypeOK, ServerTypeOK
<1>7. QED
      BY <1>5, <1>6

-----------------------------------------------------------------------------
(* Steps of a child *)

\* The end of a child, for whatever reason.
LEMMA ChildExitInv ==
    ASSUME IInv, NEW c \in Client, child[c] # "none", ChildExit(c),
           UNCHANGED <<clientVars, parent, connfd, kept>>
    PROVE  IInv'
<1>1. child' = [child EXCEPT ![c] = "none"]
      BY DEF ChildExit
<1>2. /\ sopen[c] = "open" /\ child \in [Client -> ChildLabel]
      /\ sopen \in [Client -> {"none", "backlog", "open", "closed"}]
      BY DEF IInv, TypeOK, ClientTypeOK, ConnectionsHaveOwners
<1>3. ServerTypeOK'
      BY <1>1, <1>2, TypeParts DEF IInv, ServerTypeOK, ChildLabel
<1>4. ConnfdInv'
      BY <1>1, <1>2 DEF IInv, ConnfdInv, TypeOK
<1>5. CASE c \in kept
  <2>1. UNCHANGED connection
        BY <1>5 DEF ChildExit
  <2>2. ClientTypeOK' /\ WaitsOnce' /\ ConnectionsHaveOwners'
        BY <1>1, <1>2, <1>5, <2>1
        DEF IInv, TypeOK, ClientTypeOK, WaitsOnce, ConnectionsHaveOwners,
            connection, clientVars
  <2>3. QED
        BY <1>3, <1>4, <2>2, TypeParts DEF IInv, TypeOK, ServerTypeOK
<1>6. CASE c \notin kept
  <2>1. LastClose(c)
        BY <1>6 DEF ChildExit
  <2>2. ClientTypeOK'
        BY <2>1, LastCloseTyped, TypeParts DEF IInv
  <2>3. WaitsOnce'
        BY <1>2, <2>1, LastCloseQueue DEF IInv
  <2>4. ConnectionsHaveOwners'
        BY <1>1, <1>2, <1>6, <2>1 DEF IInv, ConnectionsHaveOwners, LastClose
  <2>5. QED
        BY <1>3, <1>4, <2>2, <2>3, <2>4, TypeParts DEF IInv, TypeOK, ServerTypeOK
<1>7. QED
      BY <1>5, <1>6

\* Steps that change the streams and leave descriptors and queue alone.
LEMMA ChildServesInv ==
    ASSUME IInv, NEW c \in Client, NEW to \in ChildLabel \ {"none"},
           child[c] # "none", child' = [child EXCEPT ![c] = to],
           up' \in [Client -> Seq(Unit)], down' \in [Client -> Seq(Unit)],
           reset' \in SUBSET Client,
           UNCHANGED <<clientVars, parent, connfd, kept, copen, sopen, queue>>
    PROVE  IInv'
<1>1. TypeOK'
      BY DEF IInv, TypeOK, ClientTypeOK, clientVars
<1>2. WaitsOnce' /\ ConnfdInv' /\ ConnectionsHaveOwners'
      BY DEF IInv, TypeOK, WaitsOnce, ConnfdInv, ConnectionsHaveOwners
<1>3. QED
      BY <1>1, <1>2 DEF IInv

LEMMA ChildInv ==
    ASSUME IInv, NEW c \in Client, ChildWorks(c) \/ ChildAges(c), UNCHANGED clientVars
    PROVE  IInv'
<1>1. /\ UNCHANGED <<parent, connfd, kept>>
      /\ up \in [Client -> Seq(Unit)] /\ down \in [Client -> Seq(Unit)]
      /\ reset \in SUBSET Client
      BY DEF ChildWorks, ChildAges, IInv, TypeOK, ClientTypeOK
<1>2. CASE ChildReady(c) \/ ChildTimeout(c)
  <2>1. PICK to \in ChildLabel \ {"none"} : child' = [child EXCEPT ![c] = to]
        BY <1>2 DEF ChildReady, ChildTimeout, KGoto, ChildLabel
  <2>2. child[c] # "none" /\ UNCHANGED connection
        BY <1>2 DEF ChildReady, ChildTimeout, KGoto
  <2>3. QED
        BY <1>1, <2>1, <2>2, ChildServesInv DEF connection
<1>3. CASE CloseAged(c) \/ RecvShort(c)
  <2>1. child[c] # "none" /\ ChildExit(c)
        BY <1>3 DEF CloseAged, RecvShort
  <2>2. QED
        BY <1>1, <2>1, ChildExitInv
<1>4. CASE RecvLengthOf(c) \/ RecvText(c)
  <2>1. /\ up[c] # <<>> /\ up' = [up EXCEPT ![c] = Tail(@)] /\ child[c] # "none"
        /\ UNCHANGED <<down, copen, sopen, queue, reset>>
        BY <1>4 DEF RecvLengthOf, RecvText, KGoto
  <2>2. PICK to \in ChildLabel \ {"none"} : child' = [child EXCEPT ![c] = to]
        BY <1>4 DEF RecvLengthOf, RecvText, KGoto, ChildLabel
  <2>3. Tail(up[c]) \in Seq(Unit)
        BY <1>1, <2>1
  <2>4. up' \in [Client -> Seq(Unit)]
        BY <1>1, <2>1, <2>3
  <2>5. QED
        BY <1>1, <2>1, <2>2, <2>4, ChildServesInv
<1>5. CASE ReplyLength(c) \/ ReplyText(c)
  <2>1. PICK u \in Unit : Reply(c, u)
        BY <1>5, UnitTyped DEF ReplyLength, ReplyText, Message
  <2>2. PICK to \in ChildLabel \ {"none"} : child' = [child EXCEPT ![c] = to]
        BY <1>5 DEF ReplyLength, ReplyText, KGoto, ChildLabel
  <2>3. child[c] # "none"
        BY <1>5 DEF ReplyLength, ReplyText, KGoto
  <2>4. Append(down[c], u) \in Seq(Unit)
        BY <1>1
  <2>5. down' \in [Client -> Seq(Unit)] /\ reset' \in SUBSET Client
        BY <1>1, <2>1, <2>4 DEF Reply
  <2>6. QED
        BY <1>1, <2>1, <2>2, <2>3, <2>5, ChildServesInv DEF Reply
<1>6. QED
      BY <1>2, <1>3, <1>4, <1>5 DEF ChildWorks, ChildAges

-----------------------------------------------------------------------------

\* The invariant does not mention the digits.
LEMMA StandStill ==
    ASSUME IInv, UNCHANGED <<clientVars, connection, serverVars>>
    PROVE  IInv'
BY DEF clientVars, connection, serverVars, IInv, TypeOK, ClientTypeOK, WaitsOnce,
       ConnfdInv, ConnectionsHaveOwners

LEMMA InvStep == IInv /\ [Next]_vars => IInv'
<1> SUFFICES ASSUME IInv, [Next]_vars PROVE IInv'
    OBVIOUS
<1>1. CASE UNCHANGED vars
      BY <1>1, StandStill DEF vars
<1>2. CASE ClientStep
  <2>1. ASSUME NEW c \in Client, DigitsArrive(c) PROVE UNCHANGED <<clientVars, connection>>
        BY <2>1 DEF DigitsArrive
  <2>2. QED
        BY <1>2, <2>1, ClientStepInv, StandStill DEF ClientStep
<1>3. CASE ParentStep /\ UNCHANGED Elsewhere
  <2>1. UNCHANGED clientVars
        BY <1>3 DEF Elsewhere
  <2>2. QED
        BY <1>3, <2>1, AcceptInv, ParentMovesInv, ForkInv, ParentCloseInv
        DEF ParentStep, ParentWorks
<1>4. CASE ChildStep /\ UNCHANGED Elsewhere
      BY <1>4, ChildInv DEF ChildStep, Elsewhere
<1>5. QED
      BY <1>1, <1>2, <1>3, <1>4 DEF Next

LEMMA AlwaysIInv == Spec => []IInv
BY InvInit, InvStep, PTL DEF Spec

\* There are digits only of a length that is being sent.
LEMMA Digits == Spec => []BegunInv
<1>1. Init => BegunInv
      BY DEF Init, BegunInv
<1>2. BegunInv /\ [Next]_vars => BegunInv'
      BY DigitsOfLengths DEF Next, ClientStep, Elsewhere, vars, clientVars
<1>3. QED
      BY <1>1, <1>2, PTL DEF Spec

\* Every variable of the server, its clients and their connections keeps its
\* type, and there are digits of a length only while its client is sending it.
THEOREM TypeCorrect == Spec => [](TypeOK /\ BegunInv)
<1>1. IInv => TypeOK
      BY DEF IInv
<1>2. QED
      BY AlwaysIInv, Digits, <1>1, PTL

\* An open connection is the parent's or its child's; the parent's copy outlives
\* the fork only up to its own close.
THEOREM ConnectionsAreOwned == Spec => []ConnectionsHaveOwners
<1>1. IInv => ConnectionsHaveOwners
      BY DEF IInv
<1>2. QED
      BY AlwaysIInv, <1>1, PTL

-----------------------------------------------------------------------------
(* The server implements the heartbeat service *)

\* Where a child that moves is found, and where it is not.
LEMMA Moved ==
    ASSUME child \in [Client -> ChildLabel], NEW c \in Client, NEW to,
           child' = [child EXCEPT ![c] = to], NEW label
    PROVE  Children(label)' = IF to = label THEN Children(label) \cup {c}
                                            ELSE Children(label) \ {c}
BY DEF Children

LEMMA ServiceInit == Init => Service!Init
BY DEF Init, ClientInit, Service!Init, Service!ClientInit, Children

\* The clients of the service are the clients of the server.
LEMMA SameClients == \A c \in Client : ClientNext(c) => Service!ClientNext(c)
BY DEF Connect, Emit, Hangup, Length, Text, SendHelloLength, SendHelloText,
       Count, SendProbeLength, SendProbeText, SendFails, Exit, SendKills,
       SelectReady, SelectTimeout, RecvLength, RecvAck, RecvEnd, Sleep, Kill,
       ClientSends, ClientReceives, ClientNext, CGoto, connection,
       Service!Connect, Service!Emit, Service!Hangup, Service!Length,
       Service!Text, Service!SendHelloLength, Service!SendHelloText,
       Service!Count, Service!SendProbeLength, Service!SendProbeText,
       Service!SendFails, Service!Exit, Service!SendKills,
       Service!SelectReady, Service!SelectTimeout, Service!RecvLength,
       Service!RecvAck, Service!RecvEnd, Service!Sleep, Service!Kill,
       Service!ClientSends, Service!ClientReceives, Service!ClientNext,
       Service!CGoto, Service!connection

\* Nothing the service has is touched: a stutter.
LEMMA Stutter ==
    ASSUME UNCHANGED <<clientVars, connection>>,
           \A label \in {"text", "reply_length", "reply_text"} :
               Children(label)' = Children(label)
    PROVE  UNCHANGED Service!vars
BY DEF Service!vars, Service!serverVars, Service!clientVars, Service!connection,
       clientVars, connection

\* The last descriptor of a connection is closed where nothing is owed.
LEMMA LastCloseIsClose ==
    ASSUME NEW c \in Client, LastClose(c), sopen[c] = "open",
           child[c] \notin {"reply_length", "reply_text"},
           Children("text")' = Children("text") \ {c},
           Children("reply_length")' = Children("reply_length"),
           Children("reply_text")' = Children("reply_text")
    PROVE  Service!Close(c)
BY DEF LastClose, Service!Close, Children

LEMMA ParentImplements ==
    ASSUME IInv, ParentStep, UNCHANGED clientVars
    PROVE  Service!Next \/ UNCHANGED Service!vars
<1>1. child \in [Client -> ChildLabel]
      BY DEF IInv, TypeOK
<1>2. CASE Accept
  <2>1. Head(queue) \in Client
        BY <1>2 DEF Accept, IInv, TypeOK, ClientTypeOK
  <2>2. Service!Accept(Head(queue))
        BY <1>2 DEF Accept, Service!Accept, Service!serverVars, Children
  <2>3. QED
        BY <2>1, <2>2 DEF Service!Next, Service!ServerNext, Service!clientVars, clientVars
<1>3. CASE Poll \/ AcceptFail \/ ForkFail \/ Rest
      BY <1>3, Stutter DEF Poll, AcceptFail, ForkFail, Rest, Children
<1>4. CASE Fork
  <2>1. /\ child' = [child EXCEPT ![connfd] = "select"] /\ UNCHANGED connection
        /\ connfd \in Client /\ child[connfd] = "none"
        BY <1>4 DEF Fork, PGoto, IInv, ConnfdInv, TypeOK
  <2>2. \A label \in {"text", "reply_length", "reply_text"} :
            Children(label)' = Children(label)
        BY <1>1, <2>1 DEF Children
  <2>3. QED
        BY <2>1, <2>2, Stutter
<1>5. CASE ParentClose
  <2>1. UNCHANGED child /\ connfd \in Client /\ sopen[connfd] = "open"
        BY <1>5 DEF ParentClose, PGoto, IInv, ConnfdInv, TypeOK, ConnectionsHaveOwners
  <2>2. CASE child[connfd] = "none"
    <3>1. LastClose(connfd)
          BY <1>5, <2>2 DEF ParentClose
    <3>2. /\ Children("text")' = Children("text") \ {connfd}
          /\ Children("reply_length")' = Children("reply_length")
          /\ Children("reply_text")' = Children("reply_text")
          BY <2>1, <2>2 DEF Children
    <3>3. Service!Close(connfd)
          BY <2>1, <2>2, <3>1, <3>2, LastCloseIsClose
    <3>4. QED
          BY <2>1, <3>3 DEF Service!Next, Service!ServerNext, Service!clientVars, clientVars
  <2>3. CASE child[connfd] # "none"
        BY <1>5, <2>1, <2>3, Stutter DEF ParentClose, Children
  <2>4. QED
        BY <2>2, <2>3
<1>6. QED
      BY <1>2, <1>3, <1>4, <1>5 DEF ParentStep, ParentWorks

\* A child that ends owes nothing; if the parent still has the connection open,
\* at most the reading is given up.
LEMMA ChildExitImplements ==
    ASSUME IInv, NEW c \in Client, ChildExit(c), CloseAged(c) \/ RecvShort(c)
    PROVE  Service!ServerNext \/ (UNCHANGED connection /\
               \A label \in {"text", "reply_length", "reply_text"} :
                   Children(label)' = Children(label))
<1>1. child \in [Client -> ChildLabel] /\ child' = [child EXCEPT ![c] = "none"]
      BY DEF IInv, TypeOK, ChildExit
<1>2. child[c] \in {"aged", "length", "text"}
      BY DEF CloseAged, RecvShort
<1>3. /\ Children("text")' = Children("text") \ {c}
      /\ Children("reply_length")' = Children("reply_length")
      /\ Children("reply_text")' = Children("reply_text")
      BY <1>1, <1>2 DEF Children
<1>4. CASE c \notin kept
  <2>1. sopen[c] = "open" /\ LastClose(c)
        BY <1>2, <1>4 DEF IInv, ConnectionsHaveOwners, ChildExit
  <2>2. Service!Close(c)
        BY <1>2, <1>3, <2>1, LastCloseIsClose
  <2>3. QED
        BY <2>2 DEF Service!ServerNext
<1>5. CASE c \in kept /\ child[c] = "text"
  <2>1. Service!GiveUp(c)
        BY <1>3, <1>5 DEF CloseAged, RecvShort, ChildExit, Service!GiveUp,
                          Service!connection, connection, Children
  <2>2. QED
        BY <2>1 DEF Service!ServerNext
<1>6. CASE c \in kept /\ child[c] # "text"
      BY <1>3, <1>6 DEF ChildExit, Children
<1>7. QED
      BY <1>4, <1>5, <1>6

LEMMA ChildImplements ==
    ASSUME IInv, NEW c \in Client, ChildWorks(c) \/ ChildAges(c), UNCHANGED clientVars
    PROVE  Service!Next \/ UNCHANGED Service!vars
<1>1. child \in [Client -> ChildLabel] /\ (child[c] # "none" => sopen[c] = "open")
      BY DEF IInv, TypeOK, ConnectionsHaveOwners
<1>2. CASE ChildReady(c) \/ ChildTimeout(c)
  <2>1. \A label \in {"text", "reply_length", "reply_text"} :
            Children(label)' = Children(label)
        BY <1>1, <1>2 DEF ChildReady, ChildTimeout, KGoto, Children
  <2>2. QED
        BY <1>2, <2>1, Stutter DEF ChildReady, ChildTimeout
<1>3. CASE CloseAged(c) \/ RecvShort(c)
  <2>1. ChildExit(c)
        BY <1>3 DEF CloseAged, RecvShort
  <2>2. QED
        BY <1>3, <2>1, ChildExitImplements, Stutter
        DEF Service!Next, Service!clientVars, clientVars
<1>4. CASE RecvLengthOf(c)
  <2>1. child[c] = "length" /\ child' = [child EXCEPT ![c] = "text"]
        BY <1>4 DEF RecvLengthOf, KGoto
  <2>2. /\ Children("text")' = Children("text") \cup {c}
        /\ Children("reply_length")' = Children("reply_length")
        /\ Children("reply_text")' = Children("reply_text")
        BY <1>1, <2>1 DEF Children
  <2>3. Service!ReadLength(c)
        BY <1>1, <1>4, <2>1, <2>2
        DEF RecvLengthOf, Service!ReadLength, Service!Idle, Children
  <2>4. QED
        BY <2>3 DEF Service!Next, Service!ServerNext, Service!clientVars, clientVars
<1>5. CASE RecvText(c)
  <2>1. /\ child[c] = "text"
        /\ child' = [child EXCEPT ![c] =
                IF Head(up[c]).of = "probe" THEN "reply_length" ELSE "select"]
        BY <1>5 DEF RecvText, KGoto
  <2>2. /\ Children("text")' = Children("text") \ {c}
        /\ Children("reply_length")' = IF Head(up[c]).of = "probe"
               THEN Children("reply_length") \cup {c} ELSE Children("reply_length")
        /\ Children("reply_text")' = Children("reply_text")
        BY <1>1, <2>1 DEF Children
  <2>3. Service!ReadText(c)
        BY <1>5, <2>1, <2>2 DEF RecvText, Service!ReadText, Children
  <2>4. QED
        BY <2>3 DEF Service!Next, Service!ServerNext, Service!clientVars, clientVars
<1>6. CASE ReplyLength(c)
  <2>1. child[c] = "reply_length" /\ child' = [child EXCEPT ![c] = "reply_text"]
        BY <1>6 DEF ReplyLength, KGoto
  <2>2. /\ Children("text")' = Children("text")
        /\ Children("reply_length")' = Children("reply_length") \ {c}
        /\ Children("reply_text")' = Children("reply_text") \cup {c}
        BY <1>1, <2>1 DEF Children
  <2>3. Service!AnswerLength(c)
        BY <1>6, <2>1, <2>2
        DEF ReplyLength, Reply, Service!AnswerLength, Service!Answer, Service!Length,
            Length, Children
  <2>4. QED
        BY <2>3 DEF Service!Next, Service!ServerNext, Service!clientVars, clientVars
<1>7. CASE ReplyText(c)
  <2>1. child[c] = "reply_text" /\ child' = [child EXCEPT ![c] = "select"]
        BY <1>7 DEF ReplyText, KGoto
  <2>2. /\ Children("text")' = Children("text")
        /\ Children("reply_length")' = Children("reply_length")
        /\ Children("reply_text")' = Children("reply_text") \ {c}
        BY <1>1, <2>1 DEF Children
  <2>3. Service!AnswerText(c)
        BY <1>7, <2>1, <2>2
        DEF ReplyText, Reply, Service!AnswerText, Service!Answer, Service!Text,
            Text, Children
  <2>4. QED
        BY <2>3 DEF Service!Next, Service!ServerNext, Service!clientVars, clientVars
<1>8. QED
      BY <1>2, <1>3, <1>4, <1>5, <1>6, <1>7 DEF ChildWorks, ChildAges

LEMMA ServiceStep == IInv /\ [Next]_vars => [Service!Next]_(Service!vars)
<1> SUFFICES ASSUME IInv, [Next]_vars PROVE Service!Next \/ UNCHANGED Service!vars
    OBVIOUS
<1>1. CASE UNCHANGED vars
      BY <1>1, Stutter DEF vars, serverVars, Children
<1>2. CASE ClientStep
  <2>1. UNCHANGED serverVars
        BY <1>2 DEF ClientStep
  <2>2. UNCHANGED Service!serverVars
        BY <2>1 DEF serverVars, Service!serverVars, Children
  <2>3. ASSUME NEW c \in Client, ClientNext(c) PROVE Service!Next
        BY <2>2, <2>3, SameClients DEF Service!Next
  <2>4. ASSUME NEW c \in Client, DigitsArrive(c) PROVE UNCHANGED Service!vars
        BY <2>1, <2>4, Stutter DEF DigitsArrive, serverVars, Children
  <2>5. QED
        BY <1>2, <2>3, <2>4 DEF ClientStep
<1>3. CASE ParentStep /\ UNCHANGED Elsewhere
      BY <1>3, ParentImplements DEF Elsewhere
<1>4. CASE ChildStep /\ UNCHANGED Elsewhere
      BY <1>4, ChildImplements DEF ChildStep, Elsewhere
<1>5. QED
      BY <1>1, <1>2, <1>3, <1>4 DEF Next

\* Ageing does not break what the clients are promised, for any number of them:
\* the forking server implements the heartbeat service.
THEOREM ServerImplementsService == Spec => ImplementsService
BY AlwaysIInv, ServiceInit, ServiceStep, PTL DEF Spec, Service!Spec, ImplementsService
=============================================================================
