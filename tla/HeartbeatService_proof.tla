----------------------- MODULE HeartbeatService_proof -----------------------
(***************************************************************************)
(* What the clients of the heartbeat service can rely on, proved for any   *)
(* number of them.  Every server that implements the service inherits it.  *)
(***************************************************************************)
EXTENDS HeartbeatService, HeartbeatClient_proof, SequenceTheorems

Probe == Text("probe")

\* A stream without a probe, and one with at most one.
Silent(s) == \A k \in DOMAIN s : s[k] # Probe
OneProbe(s) == \A j, k \in DOMAIN s : s[j] = Probe /\ s[k] = Probe => j = k

\* Lengths and texts take turns, and a length announces what follows it.
Alternate(s) ==
    \A k \in 1 .. Len(s) - 1 :
        /\ s[k].part # s[k + 1].part
        /\ s[k].part = "length" => s[k].of = s[k + 1].of

\* The client has sent a length and not yet the text.
Mid(c) == cpc[c] \in {"hello_text", "probe_text"}
Announced(c) == IF cpc[c] = "hello_text" THEN "hello" ELSE "probe"

\* Where the client and the server are with each other.
StageOK(c) ==
    /\ copen[c] <=> cpc[c] # "off"
    /\ copen[c] => sopen[c] # "none"
    /\ c \in reading \cup owing \cup answering => sopen[c] = "open"
    /\ c \in reading => c \notin owing \cup answering
    /\ c \in owing => c \notin answering

\* The stream continues what the server has read, and the client continues the
\* stream.
StreamOK(c) ==
    /\ Alternate(up[c])
    /\ up[c] # <<>> => up[c][1].part = IF c \in reading THEN "text" ELSE "length"
    /\ copen[c] /\ sopen[c] # "closed" =>
           IF up[c] = <<>>
              THEN c \in reading <=> Mid(c)
              ELSE IF Mid(c) THEN up[c][Len(up[c])] = Length(Announced(c))
                             ELSE up[c][Len(up[c])].part = "text"

\* How far the one probe of a client has got that may be under way.
None(c) == Silent(up[c]) /\ c \notin owing \cup answering
ProbeOK(c) ==
    CASE cpc[c] \in {"select", "ack_length"} ->
           \/ /\ down[c] = <<>> /\ c \notin answering /\ OneProbe(up[c])
              /\ c \in owing => Silent(up[c])
           \/ down[c] = <<Length("ack")>> /\ c \in answering \ owing /\ Silent(up[c])
           \/ down[c] = <<Length("ack"), Text("ack")>> /\ None(c)
      [] cpc[c] = "ack_text" ->
           \/ down[c] = <<>> /\ c \in answering \ owing /\ Silent(up[c])
           \/ down[c] = <<Text("ack")>> /\ None(c)
      [] cpc[c] = "off" ->
           /\ down[c] = <<>> /\ OneProbe(up[c])
           /\ c \in owing \cup answering => Silent(up[c])
           /\ c \in reset => Silent(up[c]) /\ c \notin owing
      [] OTHER -> down[c] = <<>> /\ None(c)

ClientOK(c) ==
    /\ StageOK(c) /\ StreamOK(c) /\ ProbeOK(c)
    /\ copen[c] => c \notin reset

ServerTypeOK ==
    reading \in SUBSET Client /\ owing \in SUBSET Client /\ answering \in SUBSET Client

IInv == ClientTypeOK /\ ServerTypeOK /\ WaitsOnce /\ \A c \in Client : ClientOK(c)

-----------------------------------------------------------------------------
(* The invariant says what the clients are promised *)

\* While a client waits, one probe is outstanding, and otherwise none.
LEMMA InvMeansAck == IInv => AckMatchesProbe
<1> SUFFICES ASSUME IInv, NEW c \in Client, copen[c]
             PROVE  /\ cpc[c] \notin {"select", "ack_length", "ack_text"} =>
                           Outstanding(c) = {}
                    /\ \A p, q \in Outstanding(c) : p = q
    BY DEF AckMatchesProbe
<1>1. cpc[c] # "off" /\ ProbeOK(c)
      BY DEF IInv, ClientOK, StageOK
<1> DEFINE U == {i \in DOMAIN up[c] : up[c][i] = Text("probe")}
           D == {i \in DOMAIN down[c] : down[c][i] = Text("ack")}
           S == IF c \in owing \cup answering THEN {<<"server", 0>>} ELSE {}
<1>2. Outstanding(c) = {<<"up", k>> : k \in U} \cup {<<"down", k>> : k \in D} \cup S
      BY DEF Outstanding
<1>3. Silent(up[c]) => U = {}
      BY DEF Silent, Probe
<1>4. OneProbe(up[c]) => \A j, k \in U : j = k
      BY DEF OneProbe, Probe
<1>5. down[c] = <<>> => D = {}
      OBVIOUS
<1>6. down[c] = <<Length("ack")>> => D = {}
      BY DEF Length, Text
<1>7. down[c] = <<Length("ack"), Text("ack")>> => D \subseteq {2}
      BY DEF Length, Text
<1>8. down[c] = <<Text("ack")>> => D \subseteq {1}
      OBVIOUS
<1> HIDE DEF U, D
<1>9. CASE cpc[c] \in {"select", "ack_length"}
  <2>1. CASE down[c] = <<>> /\ c \notin answering /\ OneProbe(up[c])
             /\ (c \in owing => Silent(up[c]))
        BY <1>2, <1>3, <1>4, <1>5, <1>9, <2>1
  <2>2. CASE down[c] = <<Length("ack")>> /\ Silent(up[c])
        BY <1>2, <1>3, <1>6, <1>9, <2>2
  <2>3. CASE down[c] = <<Length("ack"), Text("ack")>> /\ None(c)
        BY <1>2, <1>3, <1>7, <1>9, <2>3 DEF None
  <2>4. QED
        BY <1>1, <1>9, <2>1, <2>2, <2>3 DEF ProbeOK
<1>10. CASE cpc[c] = "ack_text"
  <2>1. CASE down[c] = <<>> /\ Silent(up[c])
        BY <1>2, <1>3, <1>5, <1>10, <2>1
  <2>2. CASE down[c] = <<Text("ack")>> /\ None(c)
        BY <1>2, <1>3, <1>8, <1>10, <2>2 DEF None
  <2>3. QED
        BY <1>1, <1>10, <2>1, <2>2 DEF ProbeOK
<1>11. CASE cpc[c] \notin {"select", "ack_length", "ack_text"}
  <2>1. down[c] = <<>> /\ None(c)
        BY <1>1, <1>11 DEF ProbeOK
  <2>2. QED
        BY <1>2, <1>3, <1>5, <2>1 DEF None
<1>12. QED
      BY <1>9, <1>10, <1>11

\* Only a client that is gone has reset its connection, and left no probe.
LEMMA InvMeansNoPipe == IInv => NoBrokenPipe
<1> SUFFICES ASSUME IInv, NEW c \in owing, c \in reset PROVE FALSE
    BY DEF NoBrokenPipe
<1>1. c \in Client
      BY DEF IInv, ServerTypeOK
<1>2. cpc[c] = "off" /\ ProbeOK(c)
      BY <1>1 DEF IInv, ClientOK, StageOK
<1>3. QED
      BY <1>2 DEF ProbeOK

\* The stream begins with the half message that the server expects.
LEMMA InvMeansFrames == IInv => FramesInStep
<1> SUFFICES ASSUME IInv, NEW c \in Client, up[c] # <<>>
             PROVE  /\ Head(up[c]).part = IF c \in reading THEN "text" ELSE "length"
                    /\ \A k \in 1 .. Len(up[c]) - 1 :
                          /\ up[c][k].part # up[c][k + 1].part
                          /\ up[c][k].part = "length" => up[c][k].of = up[c][k + 1].of
    BY DEF FramesInStep
<1>1. Head(up[c]) = up[c][1]
      BY DEF IInv, ClientTypeOK
<1>2. QED
      BY <1>1 DEF IInv, ClientOK, StreamOK, Alternate

\* A client that is there has reset nothing, and when it leaves the server without
\* the text of a message it has not sent that text.
HalfSent ==
    \A c \in Client : copen[c] =>
        /\ c \notin reset
        /\ c \in reading /\ up[c] = <<>> => Mid(c)

LEMMA InvMeansHalfSent == IInv => HalfSent
<1> SUFFICES ASSUME IInv, NEW c \in Client, copen[c], c \in reading, up[c] = <<>>
             PROVE  Mid(c)
    BY DEF IInv, ClientOK, HalfSent
<1>1. sopen[c] = "open"
      BY DEF IInv, ClientOK, StageOK
<1>2. QED
      BY <1>1 DEF IInv, ClientOK, StreamOK

\* At the start every connection is empty.
LEMMA InvInit == Init => IInv
<1> SUFFICES ASSUME Init PROVE IInv
    OBVIOUS
<1>1. ClientTypeOK
      BY ClientInitTyped DEF Init
<1>2. ServerTypeOK /\ WaitsOnce
      BY DEF Init, ClientInit, ServerTypeOK, WaitsOnce
<1>3. ASSUME NEW c \in Client PROVE ClientOK(c)
      BY DEF Init, ClientInit, ClientOK, StageOK, StreamOK, ProbeOK, Alternate, OneProbe
<1>4. QED
      BY <1>1, <1>2, <1>3 DEF IInv

-----------------------------------------------------------------------------
(* Streams *)

\* What is appended comes last and moves nothing.
LEMMA Appended ==
    ASSUME NEW s \in Seq(Unit), NEW u \in Unit
    PROVE  /\ Append(s, u) \in Seq(Unit) /\ Append(s, u) # <<>>
           /\ Len(Append(s, u)) = Len(s) + 1
           /\ DOMAIN Append(s, u) = 1 .. Len(s) + 1
           /\ \A k \in 1 .. Len(s) : Append(s, u)[k] = s[k]
           /\ Append(s, u)[Len(s) + 1] = u
OBVIOUS

\* What has been taken leaves the rest in its order.
LEMMA Taken ==
    ASSUME NEW s \in Seq(Unit), s # <<>>
    PROVE  /\ Tail(s) \in Seq(Unit) /\ Head(s) = s[1] /\ s[1] \in Unit
           /\ Len(s) \in Nat \ {0} /\ Len(Tail(s)) = Len(s) - 1
           /\ DOMAIN Tail(s) = 1 .. Len(s) - 1
           /\ \A k \in 1 .. Len(s) - 1 : Tail(s)[k] = s[k + 1]
           /\ (Tail(s) = <<>>) <=> (Len(s) = 1)
<1>1. Len(s) \in Nat \ {0} /\ s \in [1 .. Len(s) -> Unit]
      OBVIOUS
<1>2. /\ Tail(s) \in Seq(Unit) /\ Head(s) = s[1] /\ Len(Tail(s)) = Len(s) - 1
      /\ \A k \in 1 .. Len(s) - 1 : Tail(s)[k] = s[k + 1]
      OBVIOUS
<1>3. s[1] \in Unit
      BY <1>1
<1>4. DOMAIN Tail(s) = 1 .. Len(s) - 1
      BY <1>2
<1>5. (Tail(s) = <<>>) <=> (Len(s) = 1)
      BY <1>1, <1>2
<1>6. QED
      BY <1>1, <1>2, <1>3, <1>4, <1>5

\* One unit after another.
LEMMA TwoUnits ==
    ASSUME NEW x \in Unit, NEW y \in Unit
    PROVE  Append(<<x>>, y) = <<x, y>>
<1> DEFINE s == Append(<<x>>, y)
           t == <<x, y>>
<1>1. s \in Seq(Unit) /\ t \in Seq(Unit) /\ Len(s) = 2 /\ Len(t) = 2
      OBVIOUS
<1>2. s[1] = x /\ s[2] = y /\ t[1] = x /\ t[2] = y
      OBVIOUS
<1> HIDE DEF s, t
<1>3. \A i \in 1 .. Len(s) : s[i] = t[i]
      BY <1>1, <1>2
<1>4. s = t
      BY <1>1, <1>3, SeqEqual
<1>5. QED
      BY <1>4 DEF s, t

\* A stream without a probe has at most one after one more unit.
LEMMA SilentMore ==
    ASSUME NEW s \in Seq(Unit), NEW u \in Unit, Silent(s)
    PROVE  /\ u # Probe => Silent(Append(s, u))
           /\ OneProbe(Append(s, u))
<1>1. /\ DOMAIN Append(s, u) = 1 .. Len(s) + 1
      /\ \A k \in 1 .. Len(s) : Append(s, u)[k] = s[k]
      /\ Append(s, u)[Len(s) + 1] = u
      BY Appended
<1>2. \A k \in 1 .. Len(s) : Append(s, u)[k] # Probe
      BY <1>1 DEF Silent
<1>3. QED
      BY <1>1, <1>2 DEF Silent, OneProbe

\* Once the one probe of a stream has been read, none is left.
LEMMA SilentLess ==
    ASSUME NEW s \in Seq(Unit), s # <<>>
    PROVE  /\ Silent(s) => Silent(Tail(s)) /\ OneProbe(s) /\ Head(s) # Probe
           /\ OneProbe(s) => OneProbe(Tail(s))
           /\ OneProbe(s) /\ Head(s) = Probe => Silent(Tail(s))
<1>1. /\ Head(s) = s[1] /\ Len(s) \in Nat \ {0}
      /\ DOMAIN Tail(s) = 1 .. Len(s) - 1
      /\ \A k \in 1 .. Len(s) - 1 : Tail(s)[k] = s[k + 1]
      BY Taken
<1>2. /\ DOMAIN s = 1 .. Len(s) /\ 1 \in DOMAIN s
      /\ \A k \in DOMAIN Tail(s) : k + 1 \in DOMAIN s /\ Tail(s)[k] = s[k + 1]
      BY <1>1
<1>3. Silent(s) => Silent(Tail(s)) /\ OneProbe(s) /\ Head(s) # Probe
      BY <1>1, <1>2 DEF Silent, OneProbe
<1>4. OneProbe(s) => OneProbe(Tail(s))
  <2> SUFFICES ASSUME OneProbe(s), NEW j \in DOMAIN Tail(s), NEW k \in DOMAIN Tail(s),
                      Tail(s)[j] = Probe, Tail(s)[k] = Probe
               PROVE  j = k
      BY DEF OneProbe
  <2>1. j + 1 = k + 1
        BY <1>2 DEF OneProbe
  <2>2. QED
        BY <1>1, <2>1
<1>5. OneProbe(s) /\ Head(s) = Probe => Silent(Tail(s))
  <2> SUFFICES ASSUME OneProbe(s), Head(s) = Probe, NEW k \in DOMAIN Tail(s),
                      Tail(s)[k] = Probe
               PROVE  FALSE
      BY DEF Silent
  <2>1. k + 1 = 1
        BY <1>1, <1>2 DEF OneProbe
  <2>2. QED
        BY <1>1, <2>1
<1>6. QED
      BY <1>3, <1>4, <1>5

\* A stream goes on in turn with what fits its last unit.
LEMMA AlternateMore ==
    ASSUME NEW s \in Seq(Unit), NEW u \in Unit, Alternate(s),
           s # <<>> => /\ s[Len(s)].part # u.part
                       /\ s[Len(s)].part = "length" => s[Len(s)].of = u.of
    PROVE  Alternate(Append(s, u))
<1> DEFINE t == Append(s, u)
<1>1. /\ Len(t) = Len(s) + 1 /\ Len(s) \in Nat
      /\ \A k \in 1 .. Len(s) : t[k] = s[k]
      /\ t[Len(s) + 1] = u
      BY Appended
<1> HIDE DEF t
<1> SUFFICES ASSUME NEW k \in 1 .. Len(s)
             PROVE  /\ t[k].part # t[k + 1].part
                    /\ t[k].part = "length" => t[k].of = t[k + 1].of
    BY <1>1 DEF Alternate, t
<1>2. CASE k = Len(s)
  <2>1. s # <<>>
        BY <1>2
  <2>2. t[k] = s[Len(s)] /\ t[k + 1] = u
        BY <1>1, <1>2
  <2>3. QED
        BY <2>1, <2>2
<1>3. CASE k # Len(s)
  <2>1. k \in 1 .. Len(s) - 1 /\ t[k] = s[k] /\ t[k + 1] = s[k + 1]
        BY <1>1, <1>3
  <2>2. QED
        BY <2>1 DEF Alternate
<1>4. QED
      BY <1>2, <1>3

\* The rest of a stream goes on in turn and ends as the stream does.
LEMMA AlternateLess ==
    ASSUME NEW s \in Seq(Unit), s # <<>>, Alternate(s)
    PROVE  /\ Alternate(Tail(s))
           /\ Tail(s) # <<>> => /\ Tail(s)[1].part # s[1].part
                                /\ Tail(s)[1] \in Unit
                                /\ Tail(s)[Len(Tail(s))] = s[Len(s)]
<1>1. /\ Tail(s) \in Seq(Unit) /\ Len(s) \in Nat \ {0} /\ Len(Tail(s)) = Len(s) - 1
      /\ \A k \in 1 .. Len(s) - 1 : Tail(s)[k] = s[k + 1]
      /\ (Tail(s) = <<>>) <=> (Len(s) = 1)
      BY Taken
<1>2. Alternate(Tail(s))
  <2> SUFFICES ASSUME NEW k \in 1 .. Len(s) - 2
               PROVE  /\ Tail(s)[k].part # Tail(s)[k + 1].part
                      /\ Tail(s)[k].part = "length" => Tail(s)[k].of = Tail(s)[k + 1].of
      BY <1>1 DEF Alternate
  <2>1. /\ Tail(s)[k] = s[k + 1] /\ Tail(s)[k + 1] = s[(k + 1) + 1]
        /\ k + 1 \in 1 .. Len(s) - 1
        BY <1>1
  <2>2. QED
        BY <2>1 DEF Alternate
<1>3. ASSUME Tail(s) # <<>>
      PROVE  /\ Tail(s)[1].part # s[1].part /\ Tail(s)[1] \in Unit
             /\ Tail(s)[Len(Tail(s))] = s[Len(s)]
  <2>1. 1 \in 1 .. Len(s) - 1 /\ Len(s) - 1 \in 1 .. Len(s) - 1
        BY <1>1, <1>3
  <2>2. Tail(s)[1] = s[1 + 1] /\ Tail(s)[Len(s) - 1] = s[(Len(s) - 1) + 1]
        BY <1>1, <2>1
  <2>3. s[1].part # s[1 + 1].part
        BY <2>1 DEF Alternate
  <2>4. Tail(s)[1] \in Unit
        BY <1>1, <2>1
  <2>5. Len(Tail(s)) = Len(s) - 1 /\ (Len(s) - 1) + 1 = Len(s)
        BY <1>1
  <2>6. Tail(s)[Len(Tail(s))] = s[Len(s)]
        BY <2>2, <2>5
  <2>7. Tail(s)[1].part # s[1].part
        BY <2>2, <2>3
  <2>8. QED
        BY <2>4, <2>6, <2>7
<1>4. QED
      BY <1>2, <1>3

-----------------------------------------------------------------------------
(* The clients *)

\* What does not concern a client leaves it as it is.
LEMMA Frame ==
    ASSUME NEW c \in Client, ClientOK(c),
           cpc'[c] = cpc[c], up'[c] = up[c], down'[c] = down[c],
           copen'[c] = copen[c], sopen'[c] = sopen[c],
           c \in reset' <=> c \in reset, c \in reading' <=> c \in reading,
           c \in owing' <=> c \in owing, c \in answering' <=> c \in answering
    PROVE  ClientOK(c)'
<1>1. StageOK(c)'
      BY DEF ClientOK, StageOK
<1>2. StreamOK(c)'
      BY DEF ClientOK, StreamOK, Mid, Announced
<1>3. ProbeOK(c)'
      BY DEF ClientOK, ProbeOK, None
<1>4. QED
      BY <1>1, <1>2, <1>3 DEF ClientOK

\* A length that has been sent begins a message.
LEMMA LengthSent ==
    ASSUME ClientTypeOK, NEW c \in Client, NEW m \in Message, StreamOK(c), copen[c],
           sopen[c] # "none", ~Mid(c), Mid(c)', Announced(c)' = m,
           Emit(c, Length(m)), UNCHANGED reading
    PROVE  StreamOK(c)'
<1>1. up[c] \in Seq(Unit) /\ Length(m) \in Unit /\ up \in [Client -> Seq(Unit)]
      BY UnitTyped DEF ClientTypeOK
<1>2. CASE Hangup(c)
      BY <1>2 DEF Emit, Hangup, StreamOK
<1>3. CASE ~Hangup(c)
  <2> DEFINE s == up[c]
             u == Length(m)
  <2>1. up'[c] = Append(s, u) /\ sopen' = sopen /\ sopen[c] # "closed"
        BY <1>1, <1>3 DEF Emit, Hangup
  <2>2. s = <<>> => c \notin reading
        BY <2>1 DEF StreamOK
  <2>3. s # <<>> => s[Len(s)].part = "text"
        BY <2>1 DEF StreamOK
  <2>4. u.part = "length" /\ u.of = m
        BY DEF Length
  <2>5. Alternate(Append(s, u))
        BY <1>1, <2>3, <2>4, AlternateMore DEF StreamOK
  <2>6. /\ Append(s, u) # <<>> /\ Append(s, u)[Len(Append(s, u))] = u
        /\ s # <<>> => Append(s, u)[1] = s[1]
        /\ s = <<>> => Append(s, u)[1] = u
    <3>1. Append(s, u) # <<>> /\ Len(Append(s, u)) = Len(s) + 1
          /\ \A k \in 1 .. Len(s) : Append(s, u)[k] = s[k]
          /\ Append(s, u)[Len(s) + 1] = u
          BY <1>1, Appended
    <3>2. Len(s) \in Nat /\ (s # <<>> => 1 \in 1 .. Len(s)) /\ (s = <<>> => Len(s) + 1 = 1)
          BY <1>1
    <3>3. QED
          BY <3>1, <3>2
  <2>7. s # <<>> => s[1].part = IF c \in reading THEN "text" ELSE "length"
        BY DEF StreamOK
  <2> HIDE DEF s, u
  <2>8. up'[c][1].part = IF c \in reading THEN "text" ELSE "length"
        BY <2>1, <2>2, <2>4, <2>6, <2>7
  <2>9. up'[c] # <<>> /\ up'[c][Len(up'[c])] = Length(m)
        BY <2>1, <2>6 DEF u
  <2>10. QED
        BY <2>1, <2>5, <2>8, <2>9 DEF StreamOK
<1>4. QED
      BY <1>2, <1>3

\* The text that has been sent is the one its length has announced.
LEMMA TextSent ==
    ASSUME ClientTypeOK, NEW c \in Client, NEW m \in Message, StreamOK(c), copen[c],
           sopen[c] # "none", Mid(c), Announced(c) = m, ~Mid(c)',
           Emit(c, Text(m)), UNCHANGED reading
    PROVE  StreamOK(c)'
<1>1. up[c] \in Seq(Unit) /\ Text(m) \in Unit /\ up \in [Client -> Seq(Unit)]
      BY UnitTyped DEF ClientTypeOK
<1>2. CASE Hangup(c)
      BY <1>2 DEF Emit, Hangup, StreamOK
<1>3. CASE ~Hangup(c)
  <2> DEFINE s == up[c]
             u == Text(m)
  <2>1. up'[c] = Append(s, u) /\ sopen' = sopen /\ sopen[c] # "closed"
        BY <1>1, <1>3 DEF Emit, Hangup
  <2>2. s = <<>> => c \in reading
        BY <2>1 DEF StreamOK
  <2>3. s # <<>> => s[Len(s)].part = "length" /\ s[Len(s)].of = m
        BY <2>1 DEF StreamOK, Length
  <2>4. u.part = "text" /\ u.of = m
        BY DEF Text
  <2>5. Alternate(Append(s, u))
        BY <1>1, <2>3, <2>4, AlternateMore DEF StreamOK
  <2>6. /\ Append(s, u) # <<>> /\ Append(s, u)[Len(Append(s, u))] = u
        /\ s # <<>> => Append(s, u)[1] = s[1]
        /\ s = <<>> => Append(s, u)[1] = u
    <3>1. Append(s, u) # <<>> /\ Len(Append(s, u)) = Len(s) + 1
          /\ \A k \in 1 .. Len(s) : Append(s, u)[k] = s[k]
          /\ Append(s, u)[Len(s) + 1] = u
          BY <1>1, Appended
    <3>2. Len(s) \in Nat /\ (s # <<>> => 1 \in 1 .. Len(s)) /\ (s = <<>> => Len(s) + 1 = 1)
          BY <1>1
    <3>3. QED
          BY <3>1, <3>2
  <2>7. s # <<>> => s[1].part = IF c \in reading THEN "text" ELSE "length"
        BY DEF StreamOK
  <2> HIDE DEF s, u
  <2>8. up'[c][1].part = IF c \in reading THEN "text" ELSE "length"
        BY <2>1, <2>2, <2>4, <2>6, <2>7
  <2>9. up'[c] # <<>> /\ up'[c][Len(up'[c])].part = "text"
        BY <2>1, <2>4, <2>6
  <2>10. QED
        BY <2>1, <2>5, <2>8, <2>9 DEF StreamOK
<1>4. QED
      BY <1>2, <1>3

\* The statements of a message, one after the other.
LEMMA SendKeeps ==
    ASSUME ClientTypeOK, NEW c \in Client, ClientOK(c), UNCHANGED serverVars,
           \/ SendHelloLength(c) \/ SendHelloText(c)
           \/ SendProbeLength(c) \/ SendProbeText(c)
    PROVE  ClientOK(c)'
<1>1. /\ copen[c] /\ sopen[c] # "none" /\ StreamOK(c) /\ ProbeOK(c) /\ c \notin reset
      /\ UNCHANGED <<down, copen, sopen, reset, reading, owing, answering>>
      /\ up[c] \in Seq(Unit)
      /\ cpc \in [Client -> ClientLabel] /\ up \in [Client -> Seq(Unit)]
      BY DEF ClientOK, StageOK, SendHelloLength, SendHelloText, SendProbeLength,
             SendProbeText, CGoto, Emit, serverVars, ClientTypeOK
<1>2. StageOK(c)'
      BY <1>1 DEF ClientOK, StageOK, SendHelloLength, SendHelloText, SendProbeLength,
             SendProbeText, CGoto
<1>3. StreamOK(c)'
  <2>1. CASE SendHelloLength(c)
    <3>1. ~Mid(c) /\ Mid(c)' /\ Announced(c)' = "hello"
          BY <1>1, <2>1 DEF SendHelloLength, CGoto, Mid, Announced
    <3>2. QED
          BY <1>1, <2>1, <3>1, LengthSent DEF SendHelloLength, Message
  <2>2. CASE SendHelloText(c)
    <3>1. Mid(c) /\ Announced(c) = "hello" /\ ~Mid(c)'
          BY <1>1, <2>2 DEF SendHelloText, CGoto, Mid, Announced
    <3>2. QED
          BY <1>1, <2>2, <3>1, TextSent DEF SendHelloText, Message
  <2>3. CASE SendProbeLength(c)
    <3>1. ~Mid(c) /\ Mid(c)' /\ Announced(c)' = "probe"
          BY <1>1, <2>3 DEF SendProbeLength, CGoto, Mid, Announced
    <3>2. QED
          BY <1>1, <2>3, <3>1, LengthSent DEF SendProbeLength, Message
  <2>4. CASE SendProbeText(c)
    <3>1. Mid(c) /\ Announced(c) = "probe" /\ ~Mid(c)'
          BY <1>1, <2>4 DEF SendProbeText, CGoto, Mid, Announced
    <3>2. QED
          BY <1>1, <2>4, <3>1, TextSent DEF SendProbeText, Message
  <2>5. QED
        BY <2>1, <2>2, <2>3, <2>4
<1>4. ProbeOK(c)'
  <2>1. down[c] = <<>> /\ Silent(up[c]) /\ c \notin owing \cup answering
        BY <1>1 DEF ProbeOK, None, SendHelloLength, SendHelloText, SendProbeLength,
             SendProbeText, CGoto
  <2>2. CASE SendHelloLength(c) \/ SendHelloText(c) \/ SendProbeLength(c)
    <3>1. PICK u \in Unit : Emit(c, u) /\ u # Probe
          BY <2>2, UnitTyped
          DEF SendHelloLength, SendHelloText, SendProbeLength, Message, Length, Text, Probe
    <3>2. up'[c] = up[c] \/ up'[c] = Append(up[c], u)
          BY <1>1, <3>1 DEF Emit
    <3>3. Silent(up'[c])
          BY <1>1, <2>1, <3>1, <3>2, SilentMore
    <3>4. cpc'[c] \in {"hello_text", "count", "probe_text"}
          BY <1>1, <2>2 DEF SendHelloLength, SendHelloText, SendProbeLength, CGoto
    <3>5. QED
          BY <1>1, <2>1, <3>3, <3>4 DEF ProbeOK, None
  <2>3. CASE SendProbeText(c)
    <3>1. Emit(c, Probe) /\ Probe \in Unit /\ cpc'[c] = "select"
          BY <1>1, <2>3, UnitTyped DEF SendProbeText, CGoto, Message, Probe
    <3>2. up'[c] = up[c] \/ up'[c] = Append(up[c], Probe)
          BY <1>1, <3>1 DEF Emit
    <3>3. OneProbe(up'[c])
          BY <1>1, <2>1, <3>1, <3>2, SilentMore DEF Silent, OneProbe
    <3>4. QED
          BY <1>1, <2>1, <3>1, <3>3 DEF ProbeOK
  <2>4. QED
        BY <2>2, <2>3
<1>5. QED
      BY <1>1, <1>2, <1>3, <1>4 DEF ClientOK

\* The statements that neither send nor receive.
LEMMA PauseKeeps ==
    ASSUME ClientTypeOK, NEW c \in Client, ClientOK(c), UNCHANGED serverVars,
           Count(c) \/ SendFails(c) \/ SelectReady(c) \/ Sleep(c)
    PROVE  ClientOK(c)'
<1>1. /\ cpc \in [Client -> ClientLabel]
      /\ UNCHANGED <<up, down, copen, sopen, reset, reading, owing, answering>>
      BY DEF Count, SendFails, SelectReady, Sleep, connection, serverVars, ClientTypeOK
<1>2. cpc[c] # "off" /\ cpc'[c] # "off"
      BY <1>1 DEF Count, SendFails, SelectReady, Sleep, CGoto
<1>3. StageOK(c)'
      BY <1>1, <1>2 DEF ClientOK, StageOK
<1>4. StreamOK(c)'
  <2>1. CASE sopen[c] = "closed"
        BY <1>1, <2>1 DEF ClientOK, StreamOK
  <2>2. CASE sopen[c] # "closed"
    <3>1. ~Mid(c) /\ ~Mid(c)'
          BY <1>1, <2>2 DEF Count, SendFails, SelectReady, Sleep, CGoto, Hangup, Mid
    <3>2. QED
          BY <1>1, <3>1 DEF ClientOK, StreamOK
  <2>3. QED
        BY <2>1, <2>2
<1>5. ProbeOK(c)'
  <2>1. CASE SelectReady(c)
        BY <1>1, <2>1 DEF ClientOK, ProbeOK, None, SelectReady, CGoto
  <2>2. CASE Count(c) \/ SendFails(c) \/ Sleep(c)
    <3>1. cpc[c] \in {"hello_length", "hello_text", "count", "probe_length", "probe_text",
                      "sleep"}
          BY <2>2 DEF Count, SendFails, Sleep, CGoto
    <3>2. cpc'[c] \in {"hello_length", "probe_length", "sleep"}
          BY <1>1, <2>2 DEF Count, SendFails, Sleep, CGoto
    <3>3. QED
          BY <1>1, <3>1, <3>2 DEF ClientOK, ProbeOK, None
  <2>3. QED
        BY <2>1, <2>2
<1>6. QED
      BY <1>1, <1>3, <1>4, <1>5 DEF ClientOK

\* A client that ends leaves nothing that could be answered twice.
LEMMA ExitKeeps ==
    ASSUME ClientTypeOK, NEW c \in Client, ClientOK(c), UNCHANGED serverVars,
           cpc[c] # "off", Exit(c)
    PROVE  ClientOK(c)'
<1>1. /\ cpc'[c] = "off" /\ ~copen'[c] /\ down'[c] = <<>>
      /\ c \in reset' => down[c] # <<>>
      /\ copen[c] /\ c \notin reset
      /\ UNCHANGED <<up, sopen, reading, owing, answering>>
      BY DEF Exit, ClientTypeOK, ClientOK, StageOK, serverVars
<1>2. StageOK(c)' /\ StreamOK(c)'
      BY <1>1 DEF ClientOK, StageOK, StreamOK
<1>3. /\ OneProbe(up[c]) /\ (c \in owing \cup answering => Silent(up[c]))
      /\ down[c] # <<>> => Silent(up[c]) /\ c \notin owing
      BY DEF ClientOK, ProbeOK, None, Silent, OneProbe
<1>4. QED
      BY <1>1, <1>2, <1>3 DEF ClientOK, ProbeOK

\* A client reads its acknowledgement.
LEMMA RecvKeeps ==
    ASSUME ClientTypeOK, NEW c \in Client, ClientOK(c), UNCHANGED serverVars,
           RecvLength(c) \/ RecvAck(c)
    PROVE  ClientOK(c)'
<1>1. CASE RecvLength(c)
  <2>1. /\ cpc[c] = "ack_length" /\ cpc'[c] = "ack_text" /\ down[c] # <<>>
        /\ down'[c] = Tail(down[c])
        /\ UNCHANGED <<up, copen, sopen, reset, reading, owing, answering>>
        BY <1>1 DEF RecvLength, CGoto, ClientTypeOK, serverVars
  <2>2. StageOK(c)' /\ StreamOK(c)'
        BY <2>1 DEF ClientOK, StageOK, StreamOK, Mid
  <2>3. \/ down[c] = <<Length("ack")>> /\ c \in answering \ owing /\ Silent(up[c])
        \/ down[c] = <<Length("ack"), Text("ack")>> /\ None(c)
        BY <2>1 DEF ClientOK, ProbeOK
  <2>4. \/ down'[c] = <<>> /\ c \in answering \ owing /\ Silent(up[c])
        \/ down'[c] = <<Text("ack")>> /\ None(c)
    <3>1. \A x, y : Tail(<<x>>) = <<>> /\ Tail(<<x, y>>) = <<y>>
          OBVIOUS
    <3>2. QED
          BY <2>1, <2>3, <3>1
  <2>5. ProbeOK(c)'
        BY <2>1, <2>4 DEF ProbeOK, None
  <2>6. QED
        BY <2>1, <2>2, <2>5 DEF ClientOK
<1>2. CASE RecvAck(c)
  <2>1. cpc[c] = "ack_text" /\ down[c] # <<>>
        BY <1>2 DEF RecvAck
  <2>2. down[c] = <<Text("ack")>> /\ None(c)
        BY <2>1 DEF ClientOK, ProbeOK
  <2>3. Head(down[c]) = Text("ack") /\ Tail(down[c]) = <<>>
        BY <2>2
  <2>4. /\ cpc'[c] = "sleep" /\ down'[c] = <<>>
        /\ UNCHANGED <<up, copen, sopen, reset, reading, owing, answering>>
        BY <1>2, <2>3 DEF RecvAck, ClientTypeOK, serverVars
  <2>5. StageOK(c)' /\ StreamOK(c)'
        BY <2>1, <2>4 DEF ClientOK, StageOK, StreamOK, Mid
  <2>6. QED
        BY <2>2, <2>4, <2>5 DEF ClientOK, ProbeOK, None
<1>3. QED
      BY <1>1, <1>2

\* A new client starts with an empty connection.
LEMMA ConnectKeeps ==
    ASSUME ClientTypeOK, NEW c \in Client, ClientOK(c), UNCHANGED serverVars, Connect(c)
    PROVE  ClientOK(c)'
<1>1. /\ cpc'[c] = "hello_length" /\ copen'[c] /\ sopen'[c] = "backlog"
      /\ sopen[c] # "open" /\ up'[c] = <<>> /\ down'[c] = <<>> /\ c \notin reset'
      /\ UNCHANGED <<reading, owing, answering>>
      BY DEF Connect, CGoto, ClientTypeOK, serverVars
<1>2. c \notin reading /\ c \notin owing /\ c \notin answering
      BY <1>1 DEF ClientOK, StageOK
<1>3. StageOK(c)'
      BY <1>1, <1>2 DEF StageOK
<1>4. StreamOK(c)'
      BY <1>1, <1>2 DEF StreamOK, Alternate, Mid
<1>5. ProbeOK(c)'
      BY <1>1, <1>2 DEF ProbeOK, None, Silent
<1>6. QED
      BY <1>1, <1>3, <1>4, <1>5 DEF ClientOK

\* Whatever a client does, it keeps its own part of the invariant and does not
\* touch that of the others.
LEMMA ClientKeeps ==
    ASSUME IInv, NEW c \in Client, ClientNext(c), UNCHANGED serverVars
    PROVE  \A d \in Client : ClientOK(d)'
<1>1. ClientTypeOK /\ ClientOK(c)
      BY DEF IInv
<1>2. ClientOK(c)'
  <2>1. CASE SendHelloLength(c) \/ SendHelloText(c) \/ SendProbeLength(c) \/ SendProbeText(c)
        BY <1>1, <2>1, SendKeeps
  <2>2. CASE Count(c) \/ SendFails(c) \/ SelectReady(c) \/ Sleep(c)
        BY <1>1, <2>2, PauseKeeps
  <2>3. CASE SendKills(c) \/ RecvEnd(c) \/ SelectTimeout(c) \/ Kill(c)
        BY <1>1, <2>3, ExitKeeps DEF SendKills, RecvEnd, SelectTimeout, Kill
  <2>4. CASE RecvLength(c) \/ RecvAck(c)
        BY <1>1, <2>4, RecvKeeps
  <2>5. CASE Connect(c)
        BY <1>1, <2>5, ConnectKeeps
  <2>6. QED
        BY <2>1, <2>2, <2>3, <2>4, <2>5 DEF ClientNext, ClientSends, ClientReceives
<1>3. ASSUME NEW d \in Client, d # c PROVE ClientOK(d)'
  <2>1. /\ cpc'[d] = cpc[d] /\ up'[d] = up[d] /\ down'[d] = down[d]
        /\ copen'[d] = copen[d] /\ sopen'[d] = sopen[d] /\ (d \in reset' <=> d \in reset)
        BY <1>1, <1>3 DEF ClientNext, ClientSends, ClientReceives, Connect,
             SendHelloLength, SendHelloText, Count, SendProbeLength, SendProbeText,
             SendFails, SendKills, SelectReady, RecvLength, RecvAck, RecvEnd,
             SelectTimeout, Sleep, Kill, Exit, Emit, CGoto, connection, ClientTypeOK
  <2>2. ClientOK(d) /\ UNCHANGED <<reading, owing, answering>>
        BY DEF IInv, serverVars
  <2>3. QED
        BY <2>1, <2>2, Frame
<1>4. QED
      BY <1>2, <1>3

-----------------------------------------------------------------------------
(* The server *)

\* A connection leaves the queue, open or closed.
LEMMA QueueStepKeeps ==
    ASSUME IInv, NEW c \in Client, UNCHANGED clientVars, Accept(c) \/ TurnAway(c)
    PROVE  WaitsOnce' /\ ClientOK(c)'
<1>1. /\ c = Head(queue) /\ queue # <<>> /\ queue' = Tail(queue)
      /\ \/ sopen' = [sopen EXCEPT ![c] = "open"] /\ up' = up
         \/ sopen' = [sopen EXCEPT ![c] = "closed"] /\ up' = [up EXCEPT ![c] = <<>>]
      /\ UNCHANGED <<cpc, down, copen, reset, reading, owing, answering>>
      BY DEF Accept, TurnAway, serverVars, clientVars
<1>2. ClientTypeOK /\ WaitsOnce /\ ClientOK(c)
      BY DEF IInv
<1>3. sopen[c] = "backlog" /\ WaitsOnce'
      BY <1>1, <1>2, HeadLeavesQueue
<1>4. c \notin reading /\ c \notin owing /\ c \notin answering
      BY <1>2, <1>3 DEF ClientOK, StageOK
<1>5. /\ sopen'[c] \in {"open", "closed"}
      /\ sopen'[c] = "open" => up'[c] = up[c]
      /\ up'[c] = up[c] \/ up'[c] = <<>>
      BY <1>1, <1>2 DEF ClientTypeOK
<1>6. StageOK(c)'
      BY <1>1, <1>2, <1>4, <1>5 DEF ClientOK, StageOK
<1>7. StreamOK(c)'
      BY <1>1, <1>2, <1>3, <1>4, <1>5 DEF ClientOK, StreamOK, Alternate, Mid, Announced
<1>8. ProbeOK(c)'
  <2>1. ProbeOK(c)
        BY <1>2 DEF ClientOK
  <2>2. (Silent(up[c]) => Silent(up'[c])) /\ (OneProbe(up[c]) => OneProbe(up'[c]))
        BY <1>5 DEF Silent, OneProbe
  <2>3. QED
        BY <1>1, <2>1, <2>2 DEF ProbeOK, None
<1>9. QED
      BY <1>1, <1>2, <1>3, <1>6, <1>7, <1>8 DEF ClientOK

\* The server reads half a message: what it has read before and the rest of the
\* stream still fit.
LEMMA ReadStream ==
    ASSUME ClientTypeOK, NEW c \in Client, StreamOK(c), up[c] # <<>>,
           up'[c] = Tail(up[c]), c \in reading' <=> c \notin reading,
           UNCHANGED <<cpc, copen, sopen>>
    PROVE  StreamOK(c)' /\ (c \in reading => Head(up[c]).part = "text")
<1>1. up[c] \in Seq(Unit)
      BY DEF ClientTypeOK
<1>2. /\ Alternate(up'[c])
      /\ up'[c] # <<>> => /\ up'[c][1].part # up[c][1].part /\ up'[c][1] \in Unit
                          /\ up'[c][Len(up'[c])] = up[c][Len(up[c])]
      BY <1>1, AlternateLess DEF StreamOK
<1>3. /\ Head(up[c]) = up[c][1] /\ up[c][1] \in Unit
      /\ (up'[c] = <<>>) <=> (Len(up[c]) = 1)
      BY <1>1, Taken
<1>4. up[c][1].part = IF c \in reading THEN "text" ELSE "length"
      BY DEF StreamOK
<1>5. up'[c] # <<>> => up'[c][1].part = IF c \in reading' THEN "text" ELSE "length"
  <2>1. \A u \in Unit : u.part \in {"length", "text"}
        BY DEF Unit
  <2>2. QED
        BY <1>2, <1>4, <2>1
<1>6. ASSUME copen[c], sopen[c] # "closed"
      PROVE  IF up'[c] = <<>>
                THEN c \in reading' <=> Mid(c)
                ELSE IF Mid(c) THEN up'[c][Len(up'[c])] = Length(Announced(c))
                               ELSE up'[c][Len(up'[c])].part = "text"
  <2>1. IF Mid(c) THEN up[c][Len(up[c])] = Length(Announced(c))
                  ELSE up[c][Len(up[c])].part = "text"
        BY <1>6 DEF StreamOK
  <2>2. Length(Announced(c)).part = "length"
        BY DEF Length
  <2>3. CASE up'[c] = <<>>
    <3>1. up[c][Len(up[c])] = up[c][1]
          BY <1>3, <2>3
    <3>2. QED
          BY <1>4, <2>1, <2>2, <2>3, <3>1
  <2>4. CASE up'[c] # <<>>
        BY <1>2, <2>1, <2>4
  <2>5. QED
        BY <2>3, <2>4
<1>7. StreamOK(c)'
      BY <1>2, <1>5, <1>6 DEF StreamOK, Mid, Announced
<1>8. QED
      BY <1>3, <1>4, <1>7

\* It reads a length, or a text, after which an answer may be due.
LEMMA ReadKeeps ==
    ASSUME IInv, NEW c \in Client, UNCHANGED clientVars, ReadLength(c) \/ ReadText(c)
    PROVE  ClientOK(c)'
<1>1. /\ ClientTypeOK /\ ClientOK(c) /\ up[c] # <<>> /\ up'[c] = Tail(up[c])
      /\ c \in reading' <=> c \notin reading
      /\ UNCHANGED <<cpc, down, copen, sopen, reset, answering>>
      /\ sopen[c] = "open" /\ c \notin owing /\ c \notin answering
      /\ up[c] \in Seq(Unit)
      BY DEF IInv, ReadLength, ReadText, Idle, clientVars, ClientTypeOK, ClientOK, StageOK
<1>2. StreamOK(c)' /\ (c \in reading => Head(up[c]).part = "text")
      BY <1>1, ReadStream DEF ClientOK
<1>3. StageOK(c)'
      BY <1>1 DEF ClientOK, StageOK, ReadLength, ReadText
<1>4. /\ Silent(up[c]) => Silent(up'[c]) /\ Head(up[c]) # Probe
      /\ OneProbe(up[c]) => OneProbe(up'[c])
      /\ OneProbe(up[c]) /\ Head(up[c]) = Probe => Silent(up'[c])
      BY <1>1, SilentLess
<1>5. c \in owing' => Head(up[c]) = Probe
  <2>1. CASE ReadLength(c)
        BY <1>1, <2>1 DEF ReadLength
  <2>2. CASE ReadText(c)
    <3>1. c \in owing' => Head(up[c]).of = "probe"
          BY <1>1, <2>2 DEF ReadText
    <3>2. c \in reading /\ Head(up[c]) \in Unit
          BY <1>1, <2>2, Taken DEF ReadText
    <3>3. \A u \in Unit : u.part = "text" /\ u.of = "probe" => u = Probe
          BY DEF Unit, Probe, Text
    <3>4. QED
          BY <1>2, <3>1, <3>2, <3>3
  <2>3. QED
        BY <2>1, <2>2
<1>6. ProbeOK(c)'
  <2>1. ProbeOK(c)
        BY <1>1 DEF ClientOK
  <2>2. CASE cpc[c] \in {"select", "ack_length"}
        BY <1>1, <1>4, <1>5, <2>1, <2>2 DEF ProbeOK, None
  <2>3. CASE cpc[c] = "ack_text"
        BY <1>1, <1>4, <1>5, <2>1, <2>3 DEF ProbeOK, None
  <2>4. CASE cpc[c] = "off"
        BY <1>1, <1>4, <1>5, <2>1, <2>4 DEF ProbeOK, None
  <2>5. CASE cpc[c] \notin {"select", "ack_length", "ack_text", "off"}
        BY <1>1, <1>4, <1>5, <2>1, <2>5 DEF ProbeOK, None
  <2>6. QED
        BY <2>2, <2>3, <2>4, <2>5
<1>7. QED
      BY <1>1, <1>2, <1>3, <1>6 DEF ClientOK

\* It answers in two parts, to a client that waits or to one that is gone.
LEMMA AnswerKeeps ==
    ASSUME IInv, NEW c \in Client, UNCHANGED clientVars, AnswerLength(c) \/ AnswerText(c)
    PROVE  ClientOK(c)'
<1>1. /\ ClientTypeOK /\ ClientOK(c)
      /\ UNCHANGED <<cpc, up, copen, sopen, reading>>
      BY DEF IInv, AnswerLength, AnswerText, Answer, clientVars
<1>2. StreamOK(c)'
      BY <1>1 DEF ClientOK, StreamOK, Mid, Announced
<1>3. /\ copen[c] => /\ c \in reset' <=> c \in reset
                     /\ AnswerLength(c) => down'[c] = Append(down[c], Length("ack"))
                     /\ AnswerText(c) => down'[c] = Append(down[c], Text("ack"))
      /\ ~copen[c] => down'[c] = down[c]
      BY <1>1 DEF AnswerLength, AnswerText, Answer, ClientTypeOK
<1>4. StageOK(c)'
      BY <1>1 DEF ClientOK, StageOK, AnswerLength, AnswerText
<1>5. ProbeOK(c)'
  <2>1. ProbeOK(c) /\ (copen[c] <=> cpc[c] # "off")
        BY <1>1 DEF ClientOK, StageOK
  <2>2. CASE AnswerLength(c)
    <3>1. c \in owing /\ c \notin answering /\ c \notin owing' /\ c \in answering'
          BY <1>1, <2>2 DEF AnswerLength, ClientOK, StageOK
    <3>2. CASE cpc[c] = "off"
          BY <1>1, <1>3, <2>1, <3>1, <3>2 DEF ProbeOK
    <3>3. CASE cpc[c] # "off"
      <4>1. cpc[c] \in {"select", "ack_length"} /\ down[c] = <<>> /\ Silent(up[c])
            BY <2>1, <3>1, <3>3 DEF ProbeOK, None
      <4>2. \A x : Append(<<>>, x) = <<x>>
            OBVIOUS
      <4>3. down'[c] = <<Length("ack")>>
            BY <1>3, <2>1, <2>2, <3>3, <4>1, <4>2
      <4>4. QED
            BY <1>1, <3>1, <4>1, <4>3 DEF ProbeOK
    <3>4. QED
          BY <3>2, <3>3
  <2>3. CASE AnswerText(c)
    <3>1. c \in answering /\ c \notin owing /\ c \notin owing' /\ c \notin answering'
          BY <1>1, <2>3 DEF AnswerText, ClientOK, StageOK
    <3>2. CASE cpc[c] = "off"
          BY <1>1, <1>3, <2>1, <3>1, <3>2 DEF ProbeOK
    <3>3. CASE cpc[c] # "off"
      <4>1. /\ Append(<<>>, Text("ack")) = <<Text("ack")>>
            /\ Append(<<Length("ack")>>, Text("ack")) = <<Length("ack"), Text("ack")>>
            BY UnitTyped, TwoUnits DEF Message
      <4>2. down'[c] = Append(down[c], Text("ack"))
            BY <1>3, <2>1, <2>3, <3>3
      <4>3. CASE cpc[c] \in {"select", "ack_length"}
        <5>1. down[c] = <<Length("ack")>> /\ Silent(up[c])
              BY <2>1, <3>1, <4>3 DEF ProbeOK, None
        <5>2. down'[c] = <<Length("ack"), Text("ack")>>
              BY <4>1, <4>2, <5>1
        <5>3. QED
              BY <1>1, <3>1, <4>3, <5>1, <5>2 DEF ProbeOK, None
      <4>4. CASE cpc[c] = "ack_text"
        <5>1. down[c] = <<>> /\ Silent(up[c])
              BY <2>1, <3>1, <4>4 DEF ProbeOK, None
        <5>2. down'[c] = <<Text("ack")>>
              BY <4>1, <4>2, <5>1
        <5>3. QED
              BY <1>1, <3>1, <4>4, <5>1, <5>2 DEF ProbeOK, None
      <4>5. cpc[c] \in {"select", "ack_length", "ack_text"}
            BY <2>1, <3>1, <3>3 DEF ProbeOK, None
      <4>6. QED
            BY <4>3, <4>4, <4>5
    <3>4. QED
          BY <3>2, <3>3
  <2>4. QED
        BY <2>2, <2>3
<1>6. QED
      BY <1>1, <1>2, <1>3, <1>4, <1>5 DEF ClientOK

\* It closes a connection, or gives up reading from a client that is gone.
LEMMA EndKeeps ==
    ASSUME IInv, NEW c \in Client, UNCHANGED clientVars, Close(c) \/ GiveUp(c)
    PROVE  ClientOK(c)'
<1>1. /\ ClientTypeOK /\ ClientOK(c) /\ c \notin reading'
      /\ UNCHANGED <<cpc, down, copen, reset, owing, answering>>
      /\ \/ sopen'[c] = "closed" /\ up'[c] = <<>> /\ c \notin owing /\ c \notin answering
         \/ sopen'[c] = sopen[c] /\ up'[c] = <<>> /\ up[c] = <<>> /\ ~copen[c]
      BY DEF IInv, Close, GiveUp, connection, clientVars, ClientTypeOK
<1>2. StageOK(c)'
      BY <1>1 DEF ClientOK, StageOK
<1>3. StreamOK(c)'
      BY <1>1 DEF StreamOK, Alternate
<1>4. ProbeOK(c)'
  <2>1. Silent(up'[c]) /\ OneProbe(up'[c]) /\ ProbeOK(c)
        BY <1>1 DEF Silent, OneProbe, ClientOK
  <2>2. QED
        BY <1>1, <2>1 DEF ProbeOK, None
<1>5. QED
      BY <1>1, <1>2, <1>3, <1>4 DEF ClientOK

\* When it ends, all connections do.
LEMMA StopKeeps ==
    ASSUME IInv, UNCHANGED clientVars, Stop
    PROVE  WaitsOnce' /\ \A c \in Client : ClientOK(c)'
<1>1. WaitsOnce'
      BY DEF Stop, WaitsOnce
<1>2. ASSUME NEW c \in Client PROVE ClientOK(c)'
  <2>1. /\ ClientTypeOK /\ ClientOK(c) /\ c \notin reading' /\ up'[c] = <<>>
        /\ UNCHANGED <<cpc, down, copen, reset, owing, answering>>
        /\ c \notin owing /\ c \notin answering
        /\ IF sopen[c] = "none" THEN sopen'[c] = "none" ELSE sopen'[c] = "closed"
        BY DEF IInv, Stop, clientVars
  <2>2. StageOK(c)'
        BY <2>1 DEF ClientOK, StageOK
  <2>3. StreamOK(c)'
        BY <2>1 DEF ClientOK, StageOK, StreamOK, Alternate
  <2>4. ProbeOK(c)'
    <3>1. Silent(up'[c]) /\ OneProbe(up'[c]) /\ ProbeOK(c)
          BY <2>1 DEF Silent, OneProbe, ClientOK
    <3>2. QED
          BY <2>1, <3>1 DEF ProbeOK, None
  <2>5. QED
        BY <2>1, <2>2, <2>3, <2>4 DEF ClientOK
<1>3. QED
      BY <1>1, <1>2

\* Whatever the server does for a client, it keeps the types and the queue.
LEMMA ServerKeepsTypes ==
    ASSUME IInv, ServerNext, UNCHANGED clientVars
    PROVE  ClientTypeOK' /\ ServerTypeOK' /\ WaitsOnce'
<1>1. ClientTypeOK /\ ServerTypeOK /\ WaitsOnce
      BY DEF IInv
<1>2. CASE Stop
  <2>1. ClientTypeOK' /\ ServerTypeOK'
        BY <1>1, <1>2 DEF Stop, ClientTypeOK, ServerTypeOK, clientVars
  <2>2. QED
        BY <1>2, <2>1, StopKeeps
<1>3. ASSUME NEW c \in Client, Accept(c) \/ TurnAway(c)
      PROVE  ClientTypeOK' /\ ServerTypeOK' /\ WaitsOnce'
  <2>1. /\ c = Head(queue) /\ queue # <<>> /\ queue' = Tail(queue)
        /\ \/ sopen' = [sopen EXCEPT ![c] = "open"] /\ up' = up
           \/ sopen' = [sopen EXCEPT ![c] = "closed"] /\ up' = [up EXCEPT ![c] = <<>>]
        /\ UNCHANGED <<cpc, sends, down, copen, reset, reading, owing, answering>>
        BY <1>3 DEF Accept, TurnAway, serverVars, clientVars
  <2>2. queue' \in Seq(Client) /\ WaitsOnce'
        BY <1>1, <2>1, HeadLeavesQueue
  <2>3. up' \in [Client -> Seq(Unit)]
    <3>1. <<>> \in Seq(Unit) /\ up \in [Client -> Seq(Unit)]
          BY <1>1 DEF ClientTypeOK
    <3>2. QED
          BY <2>1, <3>1
  <2>4. sopen' \in [Client -> {"none", "backlog", "open", "closed"}]
        BY <1>1, <2>1 DEF ClientTypeOK
  <2>5. QED
        BY <1>1, <2>1, <2>2, <2>3, <2>4 DEF ClientTypeOK, ServerTypeOK
<1>4. ASSUME NEW c \in Client, ReadLength(c) \/ ReadText(c)
      PROVE  ClientTypeOK' /\ ServerTypeOK' /\ WaitsOnce'
  <2>1. up[c] \in Seq(Unit) /\ up[c] # <<>> /\ up' = [up EXCEPT ![c] = Tail(@)]
        BY <1>1, <1>4 DEF ReadLength, ReadText, ClientTypeOK
  <2>2. Tail(up[c]) \in Seq(Unit)
        BY <2>1, Taken
  <2>3. ClientTypeOK' /\ ServerTypeOK'
        BY <1>1, <1>4, <2>1, <2>2
        DEF ReadLength, ReadText, ClientTypeOK, ServerTypeOK, clientVars
  <2>4. QED
        BY <1>1, <1>4, <2>3 DEF ReadLength, ReadText, WaitsOnce
<1>5. ASSUME NEW c \in Client, AnswerLength(c) \/ AnswerText(c)
      PROVE  ClientTypeOK' /\ ServerTypeOK' /\ WaitsOnce'
  <2>1. PICK u \in Unit : Answer(c, u)
        BY <1>5, UnitTyped DEF AnswerLength, AnswerText, Message
  <2>2. ClientTypeOK'
        BY <1>1, <2>1 DEF Answer, ClientTypeOK, clientVars
  <2>3. ServerTypeOK'
        BY <1>1, <1>5, <2>1 DEF AnswerLength, AnswerText, Answer, ServerTypeOK
  <2>4. QED
        BY <1>1, <2>1, <2>2, <2>3 DEF Answer, WaitsOnce
<1>6. ASSUME NEW c \in Client, Close(c)
      PROVE  ClientTypeOK' /\ ServerTypeOK' /\ WaitsOnce'
  <2>1. ClientTypeOK' /\ ServerTypeOK'
        BY <1>1, <1>6 DEF Close, ClientTypeOK, ServerTypeOK, clientVars
  <2>2. WaitsOnce'
        BY <1>1, <1>6, AcceptedEnds DEF Close
  <2>3. QED
        BY <2>1, <2>2
<1>7. ASSUME NEW c \in Client, GiveUp(c)
      PROVE  ClientTypeOK' /\ ServerTypeOK' /\ WaitsOnce'
      BY <1>1, <1>7 DEF GiveUp, connection, clientVars, ClientTypeOK, ServerTypeOK, WaitsOnce
<1>8. QED
      BY <1>2, <1>3, <1>4, <1>5, <1>6, <1>7 DEF ServerNext

\* It keeps the client's part of the invariant and does not touch the others'.
LEMMA ServerKeeps ==
    ASSUME IInv, ServerNext, UNCHANGED clientVars
    PROVE  \A d \in Client : ClientOK(d)'
<1>1. CASE Stop
      BY <1>1, StopKeeps
<1>2. ASSUME NEW c \in Client,
             \/ Accept(c) \/ TurnAway(c) \/ ReadLength(c) \/ ReadText(c)
             \/ AnswerLength(c) \/ AnswerText(c) \/ Close(c) \/ GiveUp(c)
      PROVE  \A d \in Client : ClientOK(d)'
  <2>1. ClientOK(c)'
        BY <1>2, QueueStepKeeps, ReadKeeps, AnswerKeeps, EndKeeps
  <2>2. ASSUME NEW d \in Client, d # c PROVE ClientOK(d)'
    <3>1. ClientTypeOK /\ ServerTypeOK /\ ClientOK(d)
          BY DEF IInv
    <3>2. /\ cpc'[d] = cpc[d] /\ up'[d] = up[d] /\ down'[d] = down[d]
          /\ copen'[d] = copen[d] /\ sopen'[d] = sopen[d]
          /\ d \in reset' <=> d \in reset
          /\ d \in reading' <=> d \in reading
          /\ d \in owing' <=> d \in owing
          /\ d \in answering' <=> d \in answering
      <4>1. CASE Accept(c) \/ TurnAway(c) \/ Close(c) \/ GiveUp(c)
            BY <2>2, <3>1, <4>1 DEF Accept, TurnAway, Close, GiveUp, ClientTypeOK,
               connection, clientVars, serverVars
      <4>2. CASE ReadLength(c) \/ ReadText(c)
            BY <2>2, <3>1, <4>2 DEF ReadLength, ReadText, ClientTypeOK, clientVars
      <4>3. CASE AnswerLength(c) \/ AnswerText(c)
            BY <2>2, <3>1, <4>3 DEF AnswerLength, AnswerText, Answer, ClientTypeOK, clientVars
      <4>4. QED
            BY <1>2, <4>1, <4>2, <4>3
    <3>3. QED
          BY <3>1, <3>2, Frame
  <2>3. QED
        BY <2>1, <2>2
<1>3. QED
      BY <1>1, <1>2 DEF ServerNext

\* Every step preserves the invariant.
LEMMA InvStep == IInv /\ [Next]_vars => IInv'
<1> SUFFICES ASSUME IInv, [Next]_vars PROVE IInv'
    OBVIOUS
<1>1. ASSUME NEW c \in Client, ClientNext(c), UNCHANGED serverVars PROVE IInv'
  <2>1. ClientTypeOK' /\ WaitsOnce'
        BY <1>1, ClientKeepsTypes, ClientsWaitOnce DEF IInv
  <2>2. ServerTypeOK'
        BY <1>1 DEF IInv, ServerTypeOK, serverVars
  <2>3. QED
        BY <1>1, <2>1, <2>2, ClientKeeps DEF IInv
<1>2. CASE ServerNext /\ UNCHANGED clientVars
      BY <1>2, ServerKeepsTypes, ServerKeeps DEF IInv
<1>3. CASE UNCHANGED vars
  <2>1. UNCHANGED <<cpc, sends, up, down, copen, sopen, queue, reset, reading, owing,
                    answering>>
        BY <1>3 DEF vars, clientVars, connection, serverVars
  <2>2. ClientTypeOK' /\ ServerTypeOK' /\ WaitsOnce'
        BY <2>1 DEF IInv, ClientTypeOK, ServerTypeOK, WaitsOnce
  <2>3. ASSUME NEW c \in Client PROVE ClientOK(c)'
        BY <2>1, Frame DEF IInv
  <2>4. QED
        BY <2>2, <2>3 DEF IInv
<1>4. QED
      BY <1>1, <1>2, <1>3 DEF Next

-----------------------------------------------------------------------------
(* What the clients are promised *)

\* However many clients there are and however the two halves of their messages
\* arrive, the server takes for a length what is one, and for a text what that
\* length has announced.
THEOREM ServiceKeepsFrames == Spec => []FramesInStep
<1>1. Spec => []IInv
      BY InvInit, InvStep, PTL DEF Spec
<1>2. QED
      BY <1>1, InvMeansFrames, PTL

\* No client takes a late acknowledgement for that of its next probe: at most
\* one is ever outstanding.
THEOREM ServiceAnswersOnce == Spec => []AckMatchesProbe
<1>1. Spec => []IInv
      BY InvInit, InvStep, PTL DEF Spec
<1>2. QED
      BY <1>1, InvMeansAck, PTL

\* No server that implements the service begins an acknowledgement on a
\* connection that has been reset, so that SIGPIPE cannot end it there.
THEOREM ServiceSparesServer == Spec => []NoBrokenPipe
<1>1. Spec => []IInv
      BY InvInit, InvStep, PTL DEF Spec
<1>2. QED
      BY <1>1, InvMeansNoPipe, PTL

\* The server is left with half a message only between the two sends.
THEOREM ServiceWaitsForText == Spec => []HalfSent
<1>1. Spec => []IInv
      BY InvInit, InvStep, PTL DEF Spec
<1>2. QED
      BY <1>1, InvMeansHalfSent, PTL
=============================================================================
