----------------------------- MODULE PollServer -----------------------------
(***************************************************************************)
(* tcp_demo/tcp_poll_server.c: one thread, one poll over the listening     *)
(* socket and a table of client slots.  After each poll it accepts at most *)
(* one connection and reads one message from every slot that was reported, *)
(* with blocking calls.                                                    *)
(***************************************************************************)
EXTENDS Naturals, Sequences, FiniteSets

CONSTANTS
    Client,     \* the clients; a client names its connection here
    Slots,      \* client slots of event_set (INIT_SIZE - 1)
    NoClient    \* the slot's descriptor is -1

VARIABLES
    spc,        \* the statement the server executes next
    slot,       \* event_set[i].fd
    revents,    \* the slots whose revents poll has set to POLLRDNORM
    ready,      \* ready_number
    index,      \* i of the loop over the slots
    up, down,   \* units on their way to the server and back
    copen,      \* the client's end of the connection is open
    sopen,      \* the server's end: "none", "backlog", "open" or "closed"
    queue,      \* connections not accepted yet, oldest first
    reset,      \* connections whose client has answered with a reset
    begun       \* connections on which one to four digits of a length have
                \* arrived behind the units in up; only their clients change it

serverVars == <<spc, slot, revents, ready, index>>

SlotIndex == 1 .. Slots
ServerLabel == {"poll", "accept", "scan", "length", "text", "reply_length", "reply_text"}

\* Data or end of file, which poll reports.
Readable(c) == up[c] # <<>> \/ c \in begun \/ ~copen[c]

Reported == {i \in SlotIndex : slot[i] # NoClient /\ Readable(slot[i])}
Free == {i \in SlotIndex : slot[i] = NoClient}

Lowest(S) == CHOOSE i \in S : \A j \in S : i <= j

\* The client whose slot the scan has reached.
Current == slot[index]

ServerInit ==
    /\ spc = "poll"
    /\ slot = [i \in SlotIndex |-> NoClient]
    /\ revents = {}
    /\ ready = 0
    /\ index = 1

SGoto(from, to) == spc = from /\ spc' = to

-----------------------------------------------------------------------------

\* Variant: the revents of the slots that are not reported are left alone.
PollKeepsRevents ==
    /\ Reported # {} \/ queue # <<>>
    /\ revents' = revents \cup Reported
    /\ ready' = Cardinality(Reported) + (IF queue # <<>> THEN 1 ELSE 0)
    /\ SGoto("poll", IF queue # <<>> THEN "accept" ELSE "scan")
    /\ index' = 1
    /\ UNCHANGED <<slot, up, down, copen, sopen, queue, reset>>

\* poll fills in revents for every slot and counts what is ready; it returns
\* nothing for the slots with a descriptor of -1.
Poll ==
    /\ Reported # {} \/ queue # <<>>
    /\ revents' = Reported
    /\ ready' = Cardinality(Reported) + (IF queue # <<>> THEN 1 ELSE 0)
    /\ SGoto("poll", IF queue # <<>> THEN "accept" ELSE "scan")
    /\ index' = 1
    /\ UNCHANGED <<slot, up, down, copen, sopen, queue, reset>>

\* "if (!--ready_number)": is anything that poll has reported left to do?
AfterOne(next) ==
    /\ ready' = ready - 1
    /\ spc' = IF ready = 1 THEN "poll" ELSE next

\* The connection takes the first free slot.
Accept(c) ==
    /\ spc = "accept"
    /\ queue # <<>> /\ c = Head(queue) /\ queue' = Tail(queue)
    /\ Free # {}
    /\ slot' = [slot EXCEPT ![Lowest(Free)] = c]
    /\ sopen' = [sopen EXCEPT ![c] = "open"]
    /\ AfterOne("scan")
    /\ UNCHANGED <<revents, index, up, down, copen, reset>>

\* "fd exausted": the table is full and the connection is closed again.
Refuse(c) ==
    /\ spc = "accept"
    /\ queue # <<>> /\ c = Head(queue) /\ queue' = Tail(queue)
    /\ Free = {}
    /\ sopen' = [sopen EXCEPT ![c] = "closed"]
    /\ up' = [up EXCEPT ![c] = <<>>]
    /\ AfterOne("scan")
    /\ UNCHANGED <<slot, revents, index, down, copen, reset>>

AcceptFail ==
    /\ spc = "accept"
    /\ AfterOne("scan")
    /\ UNCHANGED <<slot, revents, index, up, down, copen, sopen, queue, reset>>

\* The loop skips the slots without a descriptor and those not reported.
Scan ==
    LET due == {i \in index .. Slots : slot[i] # NoClient /\ i \in revents}
    IN /\ SGoto("scan", IF due = {} THEN "poll" ELSE "length")
       /\ index' = IF due = {} THEN index ELSE Lowest(due)
       /\ UNCHANGED <<slot, revents, ready, up, down, copen, sopen, queue, reset>>

\* Variant: only the first reported slot is served.
NextSlotStops == AfterOne("poll") /\ index' = index + 1

NextSlot == AfterOne("scan") /\ index' = index + 1

\* The first recv of tcp_recv waits for the five digits, the second for the
\* text they announce.
RecvLength ==
    /\ SGoto("length", "text")
    /\ up[Current] # <<>>
    /\ up' = [up EXCEPT ![Current] = Tail(@)]
    /\ UNCHANGED <<slot, revents, ready, index, down, copen, sopen, queue, reset>>

\* '0' is answered; a '1' is written to the record file, anything else only
\* printed.
RecvText ==
    /\ spc = "text"
    /\ up[Current] # <<>>
    /\ up' = [up EXCEPT ![Current] = Tail(@)]
    /\ IF Head(up[Current]).of = "probe"
          THEN spc' = "reply_length" /\ UNCHANGED <<ready, index>>
          ELSE NextSlot
    /\ UNCHANGED <<slot, revents, down, copen, sopen, queue, reset>>

\* Variant: the descriptor is closed and its slot not cleared.
RecvEndKeepsSlot ==
    /\ spc \in {"length", "text"}
    /\ up[Current] = <<>> /\ ~copen[Current]
    /\ sopen' = [sopen EXCEPT ![Current] = "closed"]
    /\ NextSlot
    /\ UNCHANGED <<slot, revents, up, down, copen, queue, reset>>

\* recv returns less than asked for: the client is gone.
RecvEnd ==
    /\ spc \in {"length", "text"}
    /\ up[Current] = <<>> /\ ~copen[Current]
    /\ sopen' = [sopen EXCEPT ![Current] = "closed"]
    /\ slot' = [slot EXCEPT ![index] = NoClient]
    /\ NextSlot
    /\ UNCHANGED <<revents, up, down, copen, queue, reset>>

\* The send of the acknowledgement; an error is printed and ignored.  Sent to
\* a client that is gone it is answered with a reset.
Reply(u) ==
    /\ down' = IF copen[Current] THEN [down EXCEPT ![Current] = Append(@, u)] ELSE down
    /\ reset' = IF copen[Current] THEN reset ELSE reset \cup {Current}
    /\ UNCHANGED <<slot, revents, up, copen, sopen, queue>>

ReplyLength ==
    /\ SGoto("reply_length", "reply_text")
    /\ Reply([part |-> "length", of |-> "ack"])
    /\ UNCHANGED <<ready, index>>

\* Variant: the loop of tcp_send does not count down what it has sent.
ReplyTextRepeats ==
    /\ SGoto("reply_text", "reply_length")
    /\ Reply([part |-> "text", of |-> "ack"])
    /\ UNCHANGED <<ready, index>>

ReplyText ==
    /\ spc = "reply_text"
    /\ Reply([part |-> "text", of |-> "ack"])
    /\ NextSlot

ServerWorks == Poll \/ Scan \/ RecvLength \/ RecvText \/ RecvEnd \/ ReplyLength \/ ReplyText
ServerAccepts == \E c \in Client : Accept(c) \/ Refuse(c)

ServerNext == ServerWorks \/ ServerAccepts \/ AcceptFail
=============================================================================
