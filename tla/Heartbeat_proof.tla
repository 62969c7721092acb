--------------------------- MODULE Heartbeat_proof ---------------------------
(***************************************************************************)
(* What the poll server does with its slots, proved for any number of      *)
(* clients and slots, and that it thereby implements HeartbeatService,     *)
(* whose promises the clients of this server inherit.                      *)
(***************************************************************************)
EXTENDS Heartbeat, HeartbeatClient_proof, FiniteSetTheorems, WellFoundedInduction

\* The slots poll has reported and the loop has not finished with.
Remaining == revents \cap (index .. Slots)

\* ready_number counts them, and the new connection as long as it is due.
CountInv ==
    /\ spc = "accept" => ready = Cardinality(Remaining) + 1
    /\ spc \notin {"poll", "accept"} => ready = Cardinality(Remaining) /\ Remaining # {}
    /\ spc \notin {"poll", "accept", "scan"} => index \in Remaining

\* Each of them is still what poll has found, but for the one that is served.
RoundInv ==
    spc # "poll" =>
        \A i \in Remaining :
            /\ slot[i] # NoClient
            /\ i # index \/ spc \in {"accept", "scan", "length"} =>
                   Server!Readable(slot[i])

IInv == TypeOK /\ WaitsOnce /\ SlotsAreOpenConnections /\ CountInv /\ RoundInv

-----------------------------------------------------------------------------
(* Slots and numbers *)

\* Among some slots there is a first one.
LEMMA LowestIsFirst ==
    ASSUME NEW S \in SUBSET Nat, S # {}
    PROVE  Server!Lowest(S) \in S /\ \A j \in S : Server!Lowest(S) <= j
<1>1. \A x, y \in Nat : y < x => <<y, x>> \in OpToRel(<, Nat)
      BY DEF OpToRel
<1>2. PICK x \in S : \A y \in S : ~(<<y, x>> \in OpToRel(<, Nat))
      BY NatLessThanWellFounded, WFMin
<1>3. \A y \in S : ~(y < x)
      BY <1>1, <1>2, Zenon
<1>4. \A y \in S : x <= y
      BY <1>3
<1>5. QED
      BY <1>4 DEF Server!Lowest

\* Both modules count alike.
LEMMA SameCardinality == \A S : Server!Cardinality(S) = Cardinality(S)
BY DEF Server!Cardinality, Cardinality

\* No more slots can be reported than there are.
LEMMA SlotsAreFinite ==
    ASSUME NEW S \in SUBSET Server!SlotIndex
    PROVE  IsFiniteSet(S) /\ Cardinality(S) \in 0 .. Slots
<1>1. Slots \in Nat \ {0} /\ Server!SlotIndex = 1 .. Slots
      BY ServerAssumption DEF Server!SlotIndex
<1>2. IsFiniteSet(1 .. Slots) /\ Cardinality(1 .. Slots) = Slots
      BY <1>1, FS_Interval
<1>3. IsFiniteSet(S) /\ Cardinality(S) <= Slots
      BY <1>1, <1>2, FS_Subset
<1>4. Cardinality(S) \in Nat
      BY <1>3, FS_CardinalityType
<1>5. QED
      BY <1>1, <1>3, <1>4

\* What remains is a set of slots.
LEMMA RemainingSlots ==
    ASSUME TypeOK
    PROVE  /\ Remaining \in SUBSET Server!SlotIndex /\ Remaining \in SUBSET Nat
           /\ IsFiniteSet(Remaining) /\ Cardinality(Remaining) \in 0 .. Slots
           /\ Remaining # {} => Cardinality(Remaining) > 0
<1>1. Remaining \in SUBSET Server!SlotIndex /\ Remaining \in SUBSET Nat
      BY DEF TypeOK, Remaining, Server!SlotIndex
<1>2. IsFiniteSet(Remaining) /\ Cardinality(Remaining) \in 0 .. Slots
      BY <1>1, SlotsAreFinite
<1>3. Remaining # {} => Cardinality(Remaining) # 0
      BY <1>2, FS_EmptySet
<1>4. QED
      BY <1>1, <1>2, <1>3

\* The slot that has been served no longer remains, and the others do.
LEMMA ServedLeaves ==
    ASSUME TypeOK, index \in Remaining, index' = index + 1, revents' = revents
    PROVE  /\ Remaining' = Remaining \ {index}
           /\ Cardinality(Remaining') = Cardinality(Remaining) - 1
<1>1. Remaining' = Remaining \ {index}
      BY DEF TypeOK, Remaining, Server!SlotIndex
<1>2. QED
      BY <1>1, RemainingSlots, FS_RemoveElement

\* Wherever the server has a current connection, it is an open one.
LEMMA CurrentIsOpen ==
    ASSUME IInv, spc \notin {"poll", "accept", "scan"}
    PROVE  /\ index \in Remaining /\ index \in Server!SlotIndex
           /\ Server!Current = slot[index] /\ Server!Current \in Client
           /\ sopen[Server!Current] = "open"
<1>1. index \in Remaining /\ index \in Server!SlotIndex
      BY RemainingSlots DEF IInv, CountInv
<1>2. slot[index] # NoClient
      BY <1>1 DEF IInv, RoundInv
<1>3. slot[index] \in Client
      BY <1>1, <1>2 DEF IInv, TypeOK
<1>4. QED
      BY <1>1, <1>3 DEF IInv, SlotsAreOpenConnections, Server!Current

\* At the start there is nothing.
LEMMA InvInit == Init => IInv
<1> SUFFICES ASSUME Init PROVE IInv
    OBVIOUS
<1>1. TypeOK
  <2>1. ClientTypeOK
        BY ClientInitTyped DEF Init
  <2>2. 0 \in 0 .. Slots + 1 /\ 1 \in 1 .. Slots + 1
        BY ServerAssumption
  <2>3. QED
        BY <2>1, <2>2 DEF Init, Server!ServerInit, TypeOK, Server!ServerLabel
<1>2. WaitsOnce
      BY DEF Init, ClientInit, WaitsOnce
<1>3. SlotsAreOpenConnections
      BY ServerAssumption
      DEF Init, ClientInit, Server!ServerInit, SlotsAreOpenConnections
<1>4. CountInv /\ RoundInv
      BY DEF Init, Server!ServerInit, CountInv, RoundInv
<1>5. QED
      BY <1>1, <1>2, <1>3, <1>4 DEF IInv

-----------------------------------------------------------------------------
(* The clients *)

\* No client takes back what it has said, or its end.
LEMMA ClientsStayReadable ==
    ASSUME ClientTypeOK, BegunInv, NEW c \in Client, ClientNext(c), DigitsSettled,
           NEW d \in Client, sopen[d] = "open", Server!Readable(d)
    PROVE  Server!Readable(d)'
<1>1. up \in [Client -> Seq(Unit)] /\ copen \in [Client -> BOOLEAN]
      BY DEF ClientTypeOK
<1>2. ASSUME d \in begun PROVE Server!Readable(d)'
      BY <1>2, DigitsFollow DEF Server!Readable
<1>3. ASSUME up[d] # <<>> \/ ~copen[d], NEW u \in Unit, Emit(c, u)
      PROVE  up'[d] # <<>> \/ ~copen'[d]
  <2>1. up[c] \in Seq(Unit) /\ Append(up[c], u) # <<>>
        BY <1>1, SentIsThere
  <2>2. QED
        BY <1>1, <1>3, <2>1 DEF Emit
<1>4. ASSUME up[d] # <<>> \/ ~copen[d],
             Connect(c) \/ Exit(c) \/ UNCHANGED <<up, copen, sopen>>
      PROVE  up'[d] # <<>> \/ ~copen'[d]
      BY <1>1, <1>4 DEF Connect, Exit, ClientTypeOK
<1>5. Length("hello") \in Unit /\ Text("hello") \in Unit
      /\ Length("probe") \in Unit /\ Text("probe") \in Unit
      BY UnitTyped DEF Message
<1>6. \/ Connect(c) \/ Exit(c) \/ UNCHANGED <<up, copen, sopen>>
      \/ \E u \in Unit : Emit(c, u)
      BY <1>5 DEF ClientNext, ClientSends, ClientReceives, SendHelloLength,
         SendHelloText, Count, SendProbeLength, SendProbeText, SendFails, SendKills,
         SelectReady, RecvLength, RecvAck, RecvEnd, SelectTimeout, Sleep, Kill,
         connection
<1>7. QED
      BY <1>2, <1>3, <1>4, <1>6 DEF Server!Readable

\* What a client does leaves the slots and the round as they are.
LEMMA ClientStepInv ==
    ASSUME IInv, BegunInv, NEW c \in Client, ClientNext(c), DigitsSettled,
           UNCHANGED serverVars
    PROVE  IInv'
<1>1. UNCHANGED <<spc, slot, revents, ready, index, Remaining>>
      BY DEF serverVars, Remaining
<1>2. ClientTypeOK /\ WaitsOnce /\ ClientTypeOK' /\ WaitsOnce'
      BY ClientKeepsTypes, ClientsWaitOnce DEF IInv, TypeOK
<1>3. TypeOK' /\ CountInv'
      BY <1>1, <1>2 DEF IInv, TypeOK, CountInv
<1>4. \A d \in Client : sopen'[d] = "open" <=> sopen[d] = "open"
  <2>1. CASE Connect(c)
        BY <1>2, <2>1 DEF Connect, ClientTypeOK
  <2>2. CASE ~Connect(c)
        BY <2>2, OnlyConnectQueues
  <2>3. QED
        BY <2>1, <2>2
<1>5. SlotsAreOpenConnections'
      BY <1>1, <1>4 DEF IInv, SlotsAreOpenConnections
<1>6. RoundInv'
  <2> SUFFICES ASSUME spc # "poll", NEW i \in Remaining
               PROVE  /\ slot[i] # NoClient
                      /\ i # index \/ spc \in {"accept", "scan", "length"} =>
                             Server!Readable(slot[i])'
      BY <1>1 DEF RoundInv, Server!Readable
  <2>1. slot[i] # NoClient /\ i \in Server!SlotIndex
        BY RemainingSlots DEF IInv, RoundInv
  <2>2. slot[i] \in Client /\ sopen[slot[i]] = "open"
        BY <2>1 DEF IInv, TypeOK, SlotsAreOpenConnections
  <2>3. QED
        BY <1>1, <1>2, <2>1, <2>2, ClientsStayReadable DEF IInv, RoundInv
<1>7. QED
      BY <1>2, <1>3, <1>5, <1>6 DEF IInv

\* A few digits of a length only make a connection readable.
LEMMA DigitsInv ==
    ASSUME IInv, NEW c \in Client, DigitsArrive(c), UNCHANGED serverVars
    PROVE  IInv'
<1>1. /\ begun \subseteq begun' /\ Remaining' = Remaining
      /\ UNCHANGED <<cpc, sends, up, down, copen, sopen, queue, reset>>
      /\ UNCHANGED <<spc, slot, revents, ready, index>>
      BY DEF DigitsArrive, clientVars, connection, serverVars, Remaining
<1>2. TypeOK' /\ WaitsOnce' /\ SlotsAreOpenConnections'
      BY <1>1 DEF IInv, TypeOK, ClientTypeOK, WaitsOnce, SlotsAreOpenConnections
<1>3. CountInv'
      BY <1>1 DEF IInv, CountInv
<1>4. \A d : Server!Readable(d) => Server!Readable(d)'
      BY <1>1 DEF Server!Readable
<1>5. RoundInv'
      BY <1>1, <1>4 DEF IInv, RoundInv, Server!Readable
<1>6. QED
      BY <1>2, <1>3, <1>5 DEF IInv

-----------------------------------------------------------------------------
(* The server *)

\* poll counts what it reports, and reports what is readable.
LEMMA PollInv ==
    ASSUME IInv, Server!Poll, UNCHANGED Elsewhere
    PROVE  IInv'
<1>1. /\ revents' = Server!Reported /\ index' = 1
      /\ ready' = Cardinality(Server!Reported) + (IF queue # <<>> THEN 1 ELSE 0)
      /\ spc' = IF queue # <<>> THEN "accept" ELSE "scan"
      /\ Server!Reported # {} \/ queue # <<>>
      /\ UNCHANGED <<slot, up, down, copen, sopen, queue, reset, cpc, sends, begun>>
      BY SameCardinality DEF Server!Poll, Server!SGoto, Elsewhere, clientVars
<1>2. Server!Reported \in SUBSET Server!SlotIndex /\ Slots \in Nat \ {0}
      BY ServerAssumption DEF Server!Reported
<1>3. IsFiniteSet(Server!Reported) /\ Cardinality(Server!Reported) \in 0 .. Slots
      BY <1>2, SlotsAreFinite
<1>4. Remaining' = Server!Reported
      BY <1>1, <1>2 DEF Remaining, Server!SlotIndex
<1>5. ClientTypeOK' /\ WaitsOnce' /\ SlotsAreOpenConnections'
      BY <1>1 DEF IInv, TypeOK, ClientTypeOK, WaitsOnce, SlotsAreOpenConnections
<1>6. TypeOK'
  <2>1. ready' \in 0 .. Slots + 1 /\ index' \in 1 .. Slots + 1
        BY <1>1, <1>2, <1>3
  <2>2. QED
        BY <1>1, <1>2, <1>5, <2>1 DEF IInv, TypeOK, Server!ServerLabel
<1>7. CountInv'
      BY <1>1, <1>3, <1>4 DEF CountInv
<1>8. RoundInv'
      BY <1>1, <1>4 DEF RoundInv, Server!Reported, Server!Readable
<1>9. QED
      BY <1>5, <1>6, <1>7, <1>8 DEF IInv

\* What is done with the new connection touches no reported slot.
LEMMA AcceptedInv ==
    ASSUME IInv, spc = "accept", Server!AfterOne("scan"), UNCHANGED <<revents, index>>
    PROVE  /\ spc' \in {"poll", "scan"} /\ ready' \in 0 .. Slots + 1
           /\ Remaining' = Remaining /\ CountInv'
<1>1. Remaining' = Remaining
      BY DEF Remaining
<1>2. /\ Cardinality(Remaining) \in 0 .. Slots /\ ready = Cardinality(Remaining) + 1
      /\ Remaining = {} => Cardinality(Remaining) = 0
      BY RemainingSlots, FS_EmptySet DEF IInv, CountInv
<1>3. /\ ready' = Cardinality(Remaining) /\ ready' \in 0 .. Slots + 1
      /\ spc' = IF Cardinality(Remaining) = 0 THEN "poll" ELSE "scan"
      BY <1>2, ServerAssumption DEF Server!AfterOne
<1>4. CountInv'
      BY <1>1, <1>2, <1>3 DEF CountInv
<1>5. QED
      BY <1>1, <1>3, <1>4

LEMMA AcceptInv ==
    ASSUME IInv, NEW c \in Client, Server!Accept(c), UNCHANGED Elsewhere
    PROVE  IInv'
<1> DEFINE k == Server!Lowest(Server!Free)
<1>1. /\ c = Head(queue) /\ queue # <<>> /\ queue' = Tail(queue)
      /\ slot' = [slot EXCEPT ![k] = c] /\ sopen' = [sopen EXCEPT ![c] = "open"]
      /\ spc = "accept" /\ Server!Free # {} /\ Server!AfterOne("scan")
      /\ UNCHANGED <<revents, index, up, down, copen, reset, cpc, sends, begun>>
      BY DEF Server!Accept, Elsewhere, clientVars
<1>2. k \in Server!SlotIndex /\ slot[k] = NoClient
  <2>1. Server!Free \in SUBSET Nat
        BY DEF Server!Free, Server!SlotIndex
  <2>2. QED
        BY <1>1, <2>1, LowestIsFirst DEF Server!Free
<1> HIDE DEF k
<1>3. /\ spc' \in {"poll", "scan"} /\ ready' \in 0 .. Slots + 1
      /\ Remaining' = Remaining /\ CountInv'
      BY <1>1, AcceptedInv
<1>4. sopen[c] = "backlog" /\ queue' \in Seq(Client) /\ WaitsOnce'
      BY <1>1, HeadLeavesQueue DEF IInv, TypeOK
<1>5. TypeOK'
      BY <1>1, <1>2, <1>3, <1>4
      DEF IInv, TypeOK, ClientTypeOK, Server!ServerLabel
<1>6. SlotsAreOpenConnections'
  <2>1. /\ \A d \in Client : sopen'[d] = IF d = c THEN "open" ELSE sopen[d]
        /\ \A i \in Server!SlotIndex : slot'[i] = IF i = k THEN c ELSE slot[i]
        BY <1>1, <1>2 DEF IInv, TypeOK, ClientTypeOK
  <2>2. \A i \in Server!SlotIndex : slot[i] # c
        BY <1>4 DEF IInv, SlotsAreOpenConnections
  <2>3. c # NoClient
        BY ServerAssumption
  <2>4. \A d \in Client :
            sopen'[d] = "open" <=> \E i \in Server!SlotIndex : slot'[i] = d
    <3> SUFFICES ASSUME NEW d \in Client
                 PROVE  sopen'[d] = "open" <=> \E i \in Server!SlotIndex : slot'[i] = d
        OBVIOUS
    <3>1. CASE d = c
          BY <1>2, <2>1, <3>1
    <3>2. CASE d # c
      <4>1. sopen'[d] = "open" <=> \E i \in Server!SlotIndex : slot[i] = d
            BY <2>1, <3>2 DEF IInv, SlotsAreOpenConnections
      <4>2. \A i \in Server!SlotIndex : slot'[i] = d <=> slot[i] = d
            BY <1>2, <2>1, <3>2, ServerAssumption
      <4>3. QED
            BY <4>1, <4>2
    <3>3. QED
          BY <3>1, <3>2
  <2>5. \A i, j \in Server!SlotIndex : slot'[i] = slot'[j] /\ slot'[i] # NoClient => i = j
        BY <1>2, <2>1, <2>2 DEF IInv, SlotsAreOpenConnections
  <2>6. QED
        BY <2>4, <2>5 DEF SlotsAreOpenConnections
<1>7. RoundInv'
  <2> SUFFICES ASSUME NEW i \in Remaining, spc' # "poll"
               PROVE  slot'[i] # NoClient /\ Server!Readable(slot[i])'
      BY <1>3 DEF RoundInv
  <2>1. slot[i] # NoClient /\ Server!Readable(slot[i]) /\ i \in Server!SlotIndex
        BY <1>1, RemainingSlots DEF IInv, RoundInv
  <2>2. slot'[i] = slot[i]
        BY <1>1, <1>2, <2>1 DEF IInv, TypeOK
  <2>3. QED
        BY <1>1, <2>1, <2>2 DEF Server!Readable
<1>8. QED
      BY <1>3, <1>4, <1>5, <1>6, <1>7 DEF IInv

LEMMA RefuseInv ==
    ASSUME IInv, NEW c \in Client, Server!Refuse(c), UNCHANGED Elsewhere
    PROVE  IInv'
<1>1. /\ c = Head(queue) /\ queue # <<>> /\ queue' = Tail(queue)
      /\ sopen' = [sopen EXCEPT ![c] = "closed"] /\ up' = [up EXCEPT ![c] = <<>>]
      /\ spc = "accept" /\ Server!AfterOne("scan")
      /\ UNCHANGED <<slot, revents, index, down, copen, reset, cpc, sends, begun>>
      BY DEF Server!Refuse, Elsewhere, clientVars
<1>2. /\ spc' \in {"poll", "scan"} /\ ready' \in 0 .. Slots + 1
      /\ Remaining' = Remaining /\ CountInv'
      BY <1>1, AcceptedInv
<1>3. sopen[c] = "backlog" /\ queue' \in Seq(Client) /\ WaitsOnce'
      BY <1>1, HeadLeavesQueue DEF IInv, TypeOK
<1>4. TypeOK'
  <2>1. up' \in [Client -> Seq(Unit)]
    <3>1. <<>> \in Seq(Unit) /\ up \in [Client -> Seq(Unit)]
          BY DEF IInv, TypeOK, ClientTypeOK
    <3>2. QED
          BY <1>1, <3>1
  <2>2. sopen' \in [Client -> {"none", "backlog", "open", "closed"}]
        BY <1>1 DEF IInv, TypeOK, ClientTypeOK
  <2>3. QED
        BY <1>1, <1>2, <1>3, <2>1, <2>2
        DEF IInv, TypeOK, ClientTypeOK, Server!ServerLabel
<1>5. \A i \in Server!SlotIndex : slot[i] # c
      BY <1>3 DEF IInv, SlotsAreOpenConnections
<1>6. SlotsAreOpenConnections'
      BY <1>1, <1>3, <1>5 DEF IInv, TypeOK, ClientTypeOK, SlotsAreOpenConnections
<1>7. RoundInv'
  <2> SUFFICES ASSUME NEW i \in Remaining, spc' # "poll"
               PROVE  slot'[i] # NoClient /\ Server!Readable(slot[i])'
      BY <1>2 DEF RoundInv
  <2>1. /\ slot[i] # NoClient /\ Server!Readable(slot[i])
        /\ slot[i] # c /\ slot[i] \in Client
        BY <1>1, <1>5, RemainingSlots DEF IInv, RoundInv, TypeOK
  <2>2. up'[slot[i]] = up[slot[i]]
        BY <1>1, <2>1 DEF IInv, TypeOK, ClientTypeOK
  <2>3. QED
        BY <1>1, <2>1, <2>2 DEF Server!Readable
<1>8. QED
      BY <1>2, <1>3, <1>4, <1>6, <1>7 DEF IInv

LEMMA AcceptFailInv ==
    ASSUME IInv, Server!AcceptFail, UNCHANGED Elsewhere
    PROVE  IInv'
<1>1. /\ spc = "accept" /\ Server!AfterOne("scan")
      /\ UNCHANGED <<slot, revents, index, up, down, copen, sopen, queue, reset>>
      /\ UNCHANGED <<cpc, sends, begun>>
      BY DEF Server!AcceptFail, Elsewhere, clientVars
<1>2. /\ spc' \in {"poll", "scan"} /\ ready' \in 0 .. Slots + 1
      /\ Remaining' = Remaining /\ CountInv'
      BY <1>1, AcceptedInv
<1>3. TypeOK'
      BY <1>1, <1>2 DEF IInv, TypeOK, ClientTypeOK, Server!ServerLabel
<1>4. WaitsOnce' /\ SlotsAreOpenConnections'
      BY <1>1 DEF IInv, WaitsOnce, SlotsAreOpenConnections
<1>5. RoundInv'
      BY <1>1, <1>2 DEF IInv, RoundInv, Server!Readable
<1>6. QED
      BY <1>2, <1>3, <1>4, <1>5 DEF IInv

\* The scan passes over nothing that remains.
LEMMA ScanInv ==
    ASSUME IInv, Server!Scan, UNCHANGED Elsewhere
    PROVE  IInv'
<1> DEFINE due == {i \in index .. Slots : slot[i] # NoClient /\ i \in revents}
<1>1. /\ spc = "scan" /\ spc' = IF due = {} THEN "poll" ELSE "length"
      /\ index' = IF due = {} THEN index ELSE Server!Lowest(due)
      /\ UNCHANGED <<slot, revents, ready, up, down, copen, sopen, queue, reset>>
      /\ UNCHANGED <<cpc, sends, begun>>
      BY DEF Server!Scan, Server!SGoto, Elsewhere, clientVars
<1>2. due = Remaining
      BY <1>1 DEF Remaining, IInv, RoundInv
<1> HIDE DEF due
<1>3. Remaining # {} /\ ready = Cardinality(Remaining)
      BY <1>1 DEF IInv, CountInv
<1>4. /\ spc' = "length" /\ index' \in Remaining
      /\ \A j \in Remaining : index' <= j
      BY <1>1, <1>2, <1>3, RemainingSlots, LowestIsFirst DEF IInv
<1>5. Remaining' = Remaining
      BY <1>1, <1>4, ServerAssumption DEF Remaining, IInv, TypeOK, Server!SlotIndex
<1>6. TypeOK'
      BY <1>1, <1>4, ServerAssumption
      DEF Remaining, IInv, TypeOK, ClientTypeOK, Server!ServerLabel
<1>7. WaitsOnce' /\ SlotsAreOpenConnections'
      BY <1>1 DEF IInv, WaitsOnce, SlotsAreOpenConnections
<1>8. CountInv'
      BY <1>1, <1>3, <1>4, <1>5 DEF CountInv
<1>9. RoundInv'
      BY <1>1, <1>4, <1>5 DEF IInv, RoundInv, Server!Readable
<1>10. QED
      BY <1>6, <1>7, <1>8, <1>9 DEF IInv
\* Taking what a client has sent keeps the types.
LEMMA TakenTyped ==
    ASSUME ClientTypeOK, NEW c \in Client, up[c] # <<>>,
           up' = [up EXCEPT ![c] = Tail(@)],
           UNCHANGED <<cpc, sends, down, copen, sopen, queue, reset>>
    PROVE  ClientTypeOK'
<1>1. Tail(up[c]) \in Seq(Unit) /\ up \in [Client -> Seq(Unit)]
      BY DEF ClientTypeOK
<1>2. up' \in [Client -> Seq(Unit)]
      BY <1>1
<1>3. QED
      BY <1>2 DEF ClientTypeOK

\* So does the acknowledgement.
LEMMA ReplyTyped ==
    ASSUME ClientTypeOK, Server!Current \in Client, UNCHANGED Elsewhere,
           NEW u \in Unit, Server!Reply(u)
    PROVE  ClientTypeOK'
BY DEF ClientTypeOK, Server!Reply, Elsewhere, clientVars

\* The service of one slot does not disturb the others, whatever it reads.
LEMMA OthersRemain ==
    ASSUME IInv, spc \notin {"poll", "accept", "scan"}, NEW i \in Remaining, i # index
    PROVE  /\ i \in Server!SlotIndex /\ slot[i] \in Client
           /\ slot[i] # Server!Current /\ Server!Readable(slot[i])
<1>1. i \in Server!SlotIndex /\ slot[i] \in Client /\ Server!Readable(slot[i])
      BY RemainingSlots DEF IInv, RoundInv, TypeOK
<1>2. slot[i] # slot[index]
      BY <1>1, CurrentIsOpen, ServerAssumption DEF IInv, SlotsAreOpenConnections
<1>3. QED
      BY <1>1, <1>2, CurrentIsOpen

\* Half a message, or half an answer: the server stays with its slot.
LEMMA StaysInv ==
    ASSUME IInv, spc \notin {"poll", "accept", "scan"}, ClientTypeOK',
           spc' \in {"text", "reply_length", "reply_text"},
           UNCHANGED <<slot, revents, ready, index, copen, sopen, queue, begun>>,
           \A d \in Client : d # Server!Current => up'[d] = up[d]
    PROVE  IInv'
<1>1. Remaining' = Remaining
      BY DEF Remaining
<1>2. TypeOK'
      BY DEF IInv, TypeOK, Server!ServerLabel
<1>3. WaitsOnce' /\ SlotsAreOpenConnections'
      BY DEF IInv, WaitsOnce, SlotsAreOpenConnections
<1>4. CountInv'
      BY <1>1 DEF IInv, CountInv
<1>5. RoundInv'
  <2> SUFFICES ASSUME NEW i \in Remaining
               PROVE  slot[i] # NoClient /\ (i # index => Server!Readable(slot[i])')
      BY <1>1 DEF RoundInv, Server!Readable
  <2>1. slot[i] # NoClient
        BY DEF IInv, RoundInv
  <2>2. ASSUME i # index PROVE Server!Readable(slot[i])'
        BY <2>2, OthersRemain DEF Server!Readable
  <2>3. QED
        BY <2>1, <2>2
<1>6. QED
      BY <1>2, <1>3, <1>4, <1>5 DEF IInv

\* A message has been read or answered, or the connection has ended: the slot is
\* done, and the count with it.
LEMMA ServedInv ==
    ASSUME IInv, spc \notin {"poll", "accept", "scan"}, ClientTypeOK', WaitsOnce',
           SlotsAreOpenConnections', Server!NextSlot, UNCHANGED <<revents, copen, begun>>,
           slot' \in [Server!SlotIndex -> Client \cup {NoClient}],
           \A i \in Server!SlotIndex \ {index} : slot'[i] = slot[i],
           \A d \in Client : d # Server!Current => up'[d] = up[d]
    PROVE  IInv'
<1>1. /\ index' = index + 1 /\ ready' = ready - 1
      /\ spc' = IF ready = 1 THEN "poll" ELSE "scan"
      BY DEF Server!NextSlot, Server!AfterOne
<1>2. /\ index \in Remaining /\ index \in Server!SlotIndex
      /\ Remaining' = Remaining \ {index}
      /\ Cardinality(Remaining') = Cardinality(Remaining) - 1
      BY <1>1, CurrentIsOpen, ServedLeaves DEF IInv
<1>3. /\ ready = Cardinality(Remaining) /\ ready \in 1 .. Slots
      BY <1>2, RemainingSlots DEF IInv, CountInv
<1>4. TypeOK'
  <2>1. ready' \in 0 .. Slots + 1 /\ index' \in 1 .. Slots + 1
        BY <1>1, <1>2, <1>3, ServerAssumption DEF Server!SlotIndex
  <2>2. QED
        BY <1>1, <2>1 DEF IInv, TypeOK, Server!ServerLabel
<1>5. CountInv'
  <2>1. ready' = Cardinality(Remaining') /\ (Remaining' = {} => ready' = 0)
        BY <1>1, <1>2, <1>3, FS_EmptySet
  <2>2. QED
        BY <1>1, <1>3, <2>1 DEF CountInv
<1>6. RoundInv'
  <2> SUFFICES ASSUME NEW i \in Remaining, i # index
               PROVE  slot'[i] # NoClient /\ Server!Readable(slot[i])'
      BY <1>2 DEF RoundInv
  <2>1. slot'[i] = slot[i] /\ slot[i] \in Client /\ slot[i] # Server!Current
        BY OthersRemain
  <2>2. QED
        BY <2>1, OthersRemain, ServerAssumption DEF Server!Readable
<1>7. QED
      BY <1>4, <1>5, <1>6 DEF IInv

LEMMA ReadInv ==
    ASSUME IInv, Server!RecvLength \/ Server!RecvText, UNCHANGED Elsewhere
    PROVE  IInv'
<1> DEFINE c == Server!Current
<1>1. /\ spc \in {"length", "text"} /\ up[c] # <<>>
      /\ up' = [up EXCEPT ![c] = Tail(@)]
      /\ UNCHANGED <<slot, revents, down, copen, sopen, queue, reset, cpc, sends, begun>>
      BY DEF Server!RecvLength, Server!RecvText, Server!SGoto, Elsewhere, clientVars
<1>2. c \in Client /\ ClientTypeOK
      BY <1>1, CurrentIsOpen DEF IInv, TypeOK
<1>3. ClientTypeOK' /\ \A d \in Client : d # c => up'[d] = up[d]
      BY <1>1, <1>2, TakenTyped DEF ClientTypeOK
<1>4. WaitsOnce' /\ SlotsAreOpenConnections' /\
      slot' \in [Server!SlotIndex -> Client \cup {NoClient}]
      BY <1>1 DEF IInv, TypeOK, WaitsOnce, SlotsAreOpenConnections
<1>5. \/ spc' \in {"text", "reply_length"} /\ UNCHANGED <<ready, index>>
      \/ Server!NextSlot
      BY DEF Server!RecvLength, Server!RecvText, Server!SGoto
<1>6. QED
      BY <1>1, <1>3, <1>4, <1>5, StaysInv, ServedInv

LEMMA RecvEndInv ==
    ASSUME IInv, Server!RecvEnd, UNCHANGED Elsewhere
    PROVE  IInv'
<1> DEFINE c == Server!Current
<1>1. /\ spc \in {"length", "text"} /\ sopen' = [sopen EXCEPT ![c] = "closed"]
      /\ slot' = [slot EXCEPT ![index] = NoClient] /\ Server!NextSlot
      /\ UNCHANGED <<revents, up, down, copen, queue, reset, cpc, sends, begun>>
      BY DEF Server!RecvEnd, Elsewhere, clientVars
<1>2. /\ c \in Client /\ index \in Server!SlotIndex /\ c = slot[index]
      /\ sopen[c] = "open"
      BY <1>1, CurrentIsOpen
<1>3. ClientTypeOK' /\ WaitsOnce'
      /\ slot' \in [Server!SlotIndex -> Client \cup {NoClient}]
      BY <1>1, <1>2, AcceptedEnds DEF IInv, TypeOK, ClientTypeOK
<1>4. SlotsAreOpenConnections'
  <2>1. /\ \A d \in Client : sopen'[d] = IF d = c THEN "closed" ELSE sopen[d]
        /\ \A i \in Server!SlotIndex : slot'[i] = IF i = index THEN NoClient ELSE slot[i]
        BY <1>1, <1>2 DEF IInv, TypeOK, ClientTypeOK
  <2>2. \A d \in Client :
            sopen'[d] = "open" <=> \E i \in Server!SlotIndex : slot'[i] = d
        BY <1>2, <2>1, ServerAssumption DEF IInv, SlotsAreOpenConnections
  <2>3. \A i, j \in Server!SlotIndex : slot'[i] = slot'[j] /\ slot'[i] # NoClient => i = j
        BY <2>1 DEF IInv, SlotsAreOpenConnections
  <2>4. QED
        BY <2>2, <2>3 DEF SlotsAreOpenConnections
<1>5. \A i \in Server!SlotIndex \ {index} : slot'[i] = slot[i]
      BY <1>1 DEF IInv, TypeOK
<1>6. QED
      BY <1>1, <1>3, <1>4, <1>5, ServedInv

LEMMA ReplyInv ==
    ASSUME IInv, Server!ReplyLength \/ Server!ReplyText, UNCHANGED Elsewhere
    PROVE  IInv'
<1> DEFINE u == [part |-> "length", of |-> "ack"]
           v == [part |-> "text", of |-> "ack"]
<1>1. u \in Unit /\ v \in Unit
      BY DEF Unit, Message
<1>2. /\ spc \in {"reply_length", "reply_text"}
      /\ Server!Reply(u) \/ Server!Reply(v)
      /\ UNCHANGED <<slot, revents, up, copen, sopen, queue, begun>>
      BY DEF Server!ReplyLength, Server!ReplyText, Server!Reply, Server!SGoto, Elsewhere
<1>3. ClientTypeOK'
      BY <1>1, <1>2, CurrentIsOpen, ReplyTyped DEF IInv, TypeOK
<1>4. WaitsOnce' /\ SlotsAreOpenConnections' /\
      slot' \in [Server!SlotIndex -> Client \cup {NoClient}]
      BY <1>2 DEF IInv, TypeOK, WaitsOnce, SlotsAreOpenConnections
<1>5. \/ spc' = "reply_text" /\ UNCHANGED <<ready, index>>
      \/ Server!NextSlot
      BY DEF Server!ReplyLength, Server!ReplyText, Server!SGoto
<1>6. QED
      BY <1>2, <1>3, <1>4, <1>5, StaysInv, ServedInv

\* Every step preserves the invariant.
LEMMA InvStep == IInv /\ BegunInv /\ [Next]_vars => IInv'
<1> SUFFICES ASSUME IInv, BegunInv, [Next]_vars PROVE IInv'
    OBVIOUS
<1>1. CASE ClientStep
  <2>1. UNCHANGED serverVars
        BY <1>1 DEF ClientStep
  <2>2. CASE (\E c \in Client : ClientNext(c)) /\ DigitsSettled
        BY <2>1, <2>2, ClientStepInv
  <2>3. CASE \E c \in Client : DigitsArrive(c)
        BY <2>1, <2>3, DigitsInv
  <2>4. QED
        BY <1>1, <2>2, <2>3 DEF ClientStep
<1>2. ASSUME Server!ServerWorks, UNCHANGED Elsewhere PROVE IInv'
      BY <1>2, PollInv, ScanInv, ReadInv, RecvEndInv, ReplyInv DEF Server!ServerWorks
<1>3. ASSUME Server!ServerAccepts, UNCHANGED Elsewhere PROVE IInv'
      BY <1>3, AcceptInv, RefuseInv DEF Server!ServerAccepts
<1>4. ASSUME Server!AcceptFail, UNCHANGED Elsewhere PROVE IInv'
      BY <1>4, AcceptFailInv
<1>5. CASE UNCHANGED vars
  <2>1. UNCHANGED <<cpc, sends, up, down, copen, sopen, queue, reset, spc, slot,
                    revents, ready, index, begun>>
        BY <1>5 DEF vars, clientVars, connection, serverVars
  <2>2. Remaining' = Remaining
        BY <2>1 DEF Remaining
  <2>3. TypeOK' /\ WaitsOnce' /\ SlotsAreOpenConnections'
        BY <2>1 DEF IInv, TypeOK, ClientTypeOK, WaitsOnce, SlotsAreOpenConnections
  <2>4. CountInv' /\ RoundInv'
        BY <2>1, <2>2 DEF IInv, CountInv, RoundInv, Server!Readable
  <2>5. QED
        BY <2>3, <2>4 DEF IInv
<1>6. QED
      BY <1>1, <1>2, <1>3, <1>4, <1>5 DEF Next, ServerStep, Server!ServerNext

\* There are digits only of a length that is being sent.
LEMMA Digits == Spec => []BegunInv
<1>1. Init => BegunInv
      BY DEF Init, BegunInv
<1>2. BegunInv /\ [Next]_vars => BegunInv'
      BY DigitsOfLengths DEF Next, ClientStep, ServerStep, Elsewhere, vars, clientVars
<1>3. QED
      BY <1>1, <1>2, PTL DEF Spec

LEMMA Invariance == Spec => []IInv
BY InvInit, InvStep, Digits, PTL DEF Spec

\* Every variable keeps its type, however many clients and slots there are, and
\* there are digits of a length only while its client is sending it.
THEOREM TypeCorrect == Spec => [](TypeOK /\ BegunInv)
<1>1. IInv => TypeOK
      BY DEF IInv
<1>2. QED
      BY Invariance, Digits, <1>1, PTL

\* No descriptor leaks and none is closed twice: the open connections are those
\* in the slots, each in one.
THEOREM SlotsMatchConnections == Spec => []SlotsAreOpenConnections
<1>1. IInv => SlotsAreOpenConnections
      BY DEF IInv
<1>2. QED
      BY Invariance, <1>1, PTL

\* ready_number never leads the one thread into a recv on a client that has
\* nothing to say, and the loop never looks for a slot that is not there.
THEOREM NoReadBlocksAtOnce == Spec => []NoIdleRead
<1>1. ASSUME IInv PROVE NoIdleRead
  <2>1. ASSUME spc = "length" PROVE Server!Readable(Server!Current)
        BY <1>1, <2>1, CurrentIsOpen DEF IInv, RoundInv
  <2>2. ASSUME spc \in {"accept", "scan", "length"} PROVE ready > 0
        BY <1>1, <2>2, RemainingSlots DEF IInv, CountInv
  <2>3. QED
        BY <2>1, <2>2 DEF NoIdleRead
<1>2. QED
      BY Invariance, <1>1, PTL
-----------------------------------------------------------------------------
(* The server implements the service *)

LEMMA ServiceInit == Init => Service!Init
BY DEF Init, ClientInit, Server!ServerInit, Service!Init, Service!ClientInit, At

\* The clients of the service are the clients of the server.
LEMMA SameClients == \A c \in Client : ClientNext(c) => Service!ClientNext(c)
BY DEF Connect, Emit, Hangup, Length, Text, SendHelloLength, SendHelloText,
       Count, SendProbeLength, SendProbeText, SendFails, Exit, SendKills,
       SelectReady, SelectTimeout, RecvLength, RecvAck, RecvEnd, Sleep, Kill,
       ClientSends, ClientReceives, ClientNext, CGoto, connection,
       Service!Connect, Service!Emit, Service!Hangup, Service!Length,
       Service!Text, Service!SendHelloLength, Service!SendHelloText,
       Service!Count, Service!SendProbeLength, Service!SendProbeText,
       Service!SendFails, Service!Exit, Service!SendKills,
       Service!SelectReady, Service!SelectTimeout, Service!RecvLength,
       Service!RecvAck, Service!RecvEnd, Service!Sleep, Service!Kill,
       Service!ClientSends, Service!ClientReceives, Service!ClientNext,
       Service!CGoto, Service!connection

\* The service sees the server between two slots, or at one of three places.
LEMMA Between ==
    ASSUME spc \notin {"text", "reply_length", "reply_text"}
    PROVE  At("text") = {} /\ At("reply_length") = {} /\ At("reply_text") = {}
BY DEF At

\* A poll, a scan and a failed accept are nothing to the clients.
LEMMA StutterSteps ==
    ASSUME Server!Poll \/ Server!Scan \/ Server!AcceptFail, UNCHANGED clientVars
    PROVE  UNCHANGED Service!vars
BY DEF Server!Poll, Server!Scan, Server!AcceptFail, Server!AfterOne, Server!SGoto, At,
       Service!vars, Service!clientVars, Service!connection, Service!serverVars,
       clientVars

LEMMA AcceptImplements ==
    ASSUME NEW c \in Client, Server!Accept(c) \/ Server!Refuse(c)
    PROVE  Service!Accept(c) \/ Service!TurnAway(c)
<1>1. UNCHANGED Service!serverVars
      BY DEF Server!Accept, Server!Refuse, Server!AfterOne, At, Service!serverVars
<1>2. QED
      BY <1>1 DEF Server!Accept, Server!Refuse, Service!Accept, Service!TurnAway

LEMMA ReadImplements ==
    ASSUME IInv, Server!RecvLength \/ Server!RecvText
    PROVE  Service!ReadLength(Server!Current) \/ Service!ReadText(Server!Current)
<1> DEFINE c == Server!Current
<1>1. /\ up[c] # <<>> /\ up' = [up EXCEPT ![c] = Tail(@)]
      /\ UNCHANGED <<down, copen, sopen, queue, reset>>
      BY DEF Server!RecvLength, Server!RecvText
<1>2. CASE Server!RecvLength
  <2>1. /\ spc = "length" /\ spc' = "text" /\ Server!Current' = c
        BY <1>2 DEF Server!RecvLength, Server!SGoto, Server!Current
  <2>2. /\ At("text") = {} /\ At("reply_length") = {} /\ At("reply_text") = {}
        /\ At("text")' = {c} /\ At("reply_length")' = {} /\ At("reply_text")' = {}
        BY <2>1 DEF At
  <2>3. sopen[c] = "open"
        BY <2>1, CurrentIsOpen
  <2>4. Service!ReadLength(c)
        BY <1>1, <2>2, <2>3 DEF Service!ReadLength, Service!Idle
  <2>5. QED
        BY <2>4
<1>3. CASE Server!RecvText
  <2>1. /\ spc = "text"
        /\ IF Head(up[c]).of = "probe"
              THEN spc' = "reply_length" /\ Server!Current' = c
              ELSE spc' \in {"poll", "scan"}
        BY <1>3 DEF Server!RecvText, Server!NextSlot, Server!AfterOne, Server!Current
  <2>2. /\ At("text") = {c} /\ At("reply_length") = {} /\ At("reply_text") = {}
        /\ At("text")' = {} /\ At("reply_text")' = {}
        /\ At("reply_length")' = IF Head(up[c]).of = "probe" THEN {c} ELSE {}
        BY <2>1 DEF At
  <2>3. Service!ReadText(c)
        BY <1>1, <2>2 DEF Service!ReadText
  <2>4. QED
        BY <2>3
<1>4. QED
      BY <1>2, <1>3

LEMMA EndImplements ==
    ASSUME IInv, Server!RecvEnd
    PROVE  Service!Close(Server!Current)
<1> DEFINE c == Server!Current
<1>1. /\ spc \in {"length", "text"} /\ spc' \in {"poll", "scan"} /\ up[c] = <<>>
      /\ sopen' = [sopen EXCEPT ![c] = "closed"]
      /\ UNCHANGED <<up, down, copen, queue, reset>>
      BY DEF Server!RecvEnd, Server!NextSlot, Server!AfterOne
<1>2. /\ At("text")' = {} /\ At("reply_length")' = {} /\ At("reply_text")' = {}
      /\ At("text") \subseteq {c} /\ At("reply_length") = {} /\ At("reply_text") = {}
      BY <1>1 DEF At
<1>3. c \in Client /\ sopen[c] = "open"
      BY <1>1, CurrentIsOpen
<1>4. up' = [up EXCEPT ![c] = <<>>]
      BY <1>1, <1>3 DEF IInv, TypeOK, ClientTypeOK
<1>5. QED
      BY <1>1, <1>2, <1>3, <1>4 DEF Service!Close

LEMMA ReplyImplements ==
    ASSUME Server!ReplyLength \/ Server!ReplyText
    PROVE  \/ Service!AnswerLength(Server!Current)
           \/ Service!AnswerText(Server!Current)
<1> DEFINE c == Server!Current
<1>1. CASE Server!ReplyLength
  <2>1. spc = "reply_length" /\ spc' = "reply_text" /\ Server!Current' = c
        BY <1>1 DEF Server!ReplyLength, Server!Reply, Server!SGoto, Server!Current
  <2>2. /\ At("text") = {} /\ At("reply_length") = {c} /\ At("reply_text") = {}
        /\ At("text")' = {} /\ At("reply_length")' = {} /\ At("reply_text")' = {c}
        BY <2>1 DEF At
  <2>3. Service!AnswerLength(c)
        BY <1>1, <2>2 DEF Server!ReplyLength, Server!Reply, Service!AnswerLength,
                          Service!Answer, Service!Length
  <2>4. QED
        BY <2>3
<1>2. CASE Server!ReplyText
  <2>1. spc = "reply_text" /\ spc' \in {"poll", "scan"}
        BY <1>2 DEF Server!ReplyText, Server!NextSlot, Server!AfterOne
  <2>2. /\ At("text") = {} /\ At("reply_length") = {} /\ At("reply_text") = {c}
        /\ At("text")' = {} /\ At("reply_length")' = {} /\ At("reply_text")' = {}
        BY <2>1 DEF At
  <2>3. Service!AnswerText(c)
        BY <1>2, <2>2 DEF Server!ReplyText, Server!Reply, Service!AnswerText,
                          Service!Answer, Service!Text
  <2>4. QED
        BY <2>3
<1>3. QED
      BY <1>1, <1>2

\* Every step of the server is one of the service, or none.
LEMMA ServiceStep == IInv /\ [Next]_vars => [Service!Next]_(Service!vars)
<1> SUFFICES ASSUME IInv, [Next]_vars PROVE Service!Next \/ UNCHANGED Service!vars
    OBVIOUS
<1>1. CASE UNCHANGED vars
      BY <1>1 DEF vars, clientVars, connection, serverVars, Service!vars,
         Service!clientVars, Service!connection, Service!serverVars, At, Server!Current
<1>2. CASE ClientStep
  <2>1. UNCHANGED serverVars
        BY <1>2 DEF ClientStep
  <2>2. UNCHANGED Service!serverVars
        BY <2>1 DEF serverVars, Service!serverVars, At, Server!Current
  <2>3. ASSUME NEW c \in Client, ClientNext(c) PROVE Service!Next
        BY <2>2, <2>3, SameClients DEF Service!Next
  <2>4. ASSUME NEW c \in Client, DigitsArrive(c) PROVE UNCHANGED Service!vars
        BY <2>2, <2>4 DEF DigitsArrive, clientVars, connection, Service!vars,
                          Service!clientVars, Service!connection
  <2>5. QED
        BY <1>2, <2>3, <2>4 DEF ClientStep
<1>3. CASE ServerStep
  <2>1. UNCHANGED clientVars /\ UNCHANGED Service!clientVars
        BY <1>3 DEF ServerStep, Elsewhere, clientVars, Service!clientVars
  <2>2. CASE Server!Poll \/ Server!Scan \/ Server!AcceptFail
        BY <2>1, <2>2, StutterSteps
  <2>3. CASE Server!ServerAccepts
        BY <2>1, <2>3, AcceptImplements
        DEF Server!ServerAccepts, Service!Next, Service!ServerNext
  <2>4. CASE \/ Server!RecvLength \/ Server!RecvText \/ Server!RecvEnd
             \/ Server!ReplyLength \/ Server!ReplyText
    <3>1. Server!Current \in Client
          BY <2>4, CurrentIsOpen DEF Server!RecvLength, Server!RecvText, Server!RecvEnd,
                                     Server!ReplyLength, Server!ReplyText, Server!SGoto
    <3>2. QED
          BY <2>1, <2>4, <3>1, ReadImplements, EndImplements, ReplyImplements
          DEF Service!Next, Service!ServerNext
  <2>5. QED
        BY <1>3, <2>2, <2>3, <2>4 DEF ServerStep, Server!ServerNext, Server!ServerWorks
<1>4. QED
      BY <1>1, <1>2, <1>3 DEF Next

\* The slots, the poll and the single thread keep what HeartbeatService promises,
\* for any number of clients and of slots.
THEOREM ServerImplementsService == Spec => ImplementsService
BY Invariance, ServiceInit, ServiceStep, PTL DEF Spec, Service!Spec, ImplementsService

-----------------------------------------------------------------------------
(* What that is worth to the clients *)

\* The service again, with what has been proved of it.
Promise == INSTANCE HeartbeatService_proof WITH
    reading <- At("text"),
    owing <- At("reply_length"),
    answering <- At("reply_text")

LEMMA PromiseInit == Service!Init => Promise!Init
BY DEF Service!Init, Promise!Init, Service!ClientInit, Promise!ClientInit

LEMMA PromiseNext == Service!Next => Promise!Next
BY DEF Service!Next, Service!ServerNext, Service!Stop, Service!Accept, Service!TurnAway,
       Service!ReadLength, Service!ReadText, Service!AnswerLength, Service!AnswerText,
       Service!Answer, Service!Close, Service!GiveUp, Service!Idle, Service!serverVars,
       Service!ClientNext, Service!ClientSends, Service!ClientReceives, Service!Connect,
       Service!SendHelloLength, Service!SendHelloText, Service!Count,
       Service!SendProbeLength, Service!SendProbeText, Service!SendFails,
       Service!SendKills, Service!SelectReady, Service!RecvLength, Service!RecvAck,
       Service!RecvEnd, Service!SelectTimeout, Service!Sleep, Service!Kill,
       Service!Exit, Service!Emit, Service!Hangup, Service!CGoto, Service!Length,
       Service!Text, Service!clientVars, Service!connection, Promise!Next,
       Promise!ServerNext, Promise!Stop, Promise!Accept, Promise!TurnAway,
       Promise!ReadLength, Promise!ReadText, Promise!AnswerLength, Promise!AnswerText,
       Promise!Answer, Promise!Close, Promise!GiveUp, Promise!Idle, Promise!serverVars,
       Promise!ClientNext, Promise!ClientSends, Promise!ClientReceives, Promise!Connect,
       Promise!SendHelloLength, Promise!SendHelloText, Promise!Count,
       Promise!SendProbeLength, Promise!SendProbeText, Promise!SendFails,
       Promise!SendKills, Promise!SelectReady, Promise!RecvLength, Promise!RecvAck,
       Promise!RecvEnd, Promise!SelectTimeout, Promise!Sleep, Promise!Kill,
       Promise!Exit, Promise!Emit, Promise!Hangup, Promise!CGoto, Promise!Length,
       Promise!Text, Promise!clientVars, Promise!connection

LEMMA PromiseStep == [Service!Next]_(Service!vars) => [Promise!Next]_(Promise!vars)
BY PromiseNext
DEF Service!vars, Promise!vars, Service!serverVars, Promise!serverVars,
    Service!clientVars, Promise!clientVars, Service!connection, Promise!connection

LEMMA KeepsPromise == Spec => Promise!Spec
BY ServerImplementsService, PromiseInit, PromiseStep, PTL
DEF ImplementsService, Service!Spec, Promise!Spec

\* What the server takes for a length is one, and what it takes for a text is
\* what that length has announced.
THEOREM FramesStayInStep == Spec => []FramesInStep
<1>1. Promise!FramesInStep => FramesInStep
      BY DEF Promise!FramesInStep, Service!FramesInStep, FramesInStep
<1>2. QED
      BY KeepsPromise, Promise!ServiceKeepsFrames, ClientAssumption, <1>1, PTL

\* No client takes the answer to an earlier probe for that to its last one.
THEOREM AcksMatchProbes == Spec => []AckMatchesProbe
<1>1. Promise!AckMatchesProbe => AckMatchesProbe
      BY DEF Promise!AckMatchesProbe, Service!AckMatchesProbe, AckMatchesProbe,
             Promise!Outstanding, Service!Outstanding, Promise!Text, Service!Text
<1>2. QED
      BY KeepsPromise, Promise!ServiceAnswersOnce, ClientAssumption, <1>1, PTL

\* The server never begins an answer on a connection that has been reset, where
\* SIGPIPE would end it.
THEOREM PipesHold == Spec => []NoBrokenPipe
<1>1. Promise!NoBrokenPipe => NoBrokenPipe
      BY DEF Promise!NoBrokenPipe, Service!NoBrokenPipe, NoBrokenPipe
<1>2. QED
      BY KeepsPromise, Promise!ServiceSparesServer, ClientAssumption, <1>1, PTL
==============================================================================
