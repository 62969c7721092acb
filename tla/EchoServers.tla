---------------------------- MODULE EchoServers -----------------------------
(***************************************************************************)
(* The three single-threaded echo servers of MIO/ in one specification.    *)
(* They have nothing to do with each other: server says which of them      *)
(* runs, and the state of the other two stays what it is initially.  The   *)
(* prefixes e, s and b tell their variables apart.                         *)
(***************************************************************************)
EXTENDS Naturals

CONSTANTS
    EpollClient, Listening, Files, Typed, EpollWindow,      \* of EpollEcho
    SelectClient, Typist, Slots, Line, Chunk, SelectWindow, \* of SelectEcho
    BlockClient, Places, BlockWindow,                       \* of BlockServer
    Somebody    \* the first current of the servers that do not run

ASSUME EpollAssumption ==
    Listening \notin EpollClient /\ Typed \in [EpollClient -> Nat] /\ EpollWindow \in Nat
ASSUME SelectAssumption ==
    Line \in Nat /\ Chunk \in Nat \ {0} /\ SelectWindow \in Nat

VARIABLES
    server,
    ecl, etyped, eup, edown, ebounced, ereset, equeue, econn, eedge, eevents,
    ecurrent, espc, erunning,
    sversion, scl, sleft, sheard, sup, sdown, sreset, squeue, shung, scli,
    sdupli, sdue, scurrent, sbuffer, sbroken, sspc, srunning,
    bcl, bup, bdown, breset, bqueue, bconn, bdue, bcurrent, bowed, btaken,
    bspc, brunning

Epoll == INSTANCE EpollEcho WITH
    Client <- EpollClient, Window <- EpollWindow, cl <- ecl, typed <- etyped,
    up <- eup, down <- edown, bounced <- ebounced, reset <- ereset,
    queue <- equeue, conn <- econn, edge <- eedge, events <- eevents,
    current <- ecurrent, spc <- espc, running <- erunning

Sel == INSTANCE SelectEcho WITH
    Client <- SelectClient, Window <- SelectWindow, version <- sversion,
    cl <- scl, left <- sleft, heard <- sheard, up <- sup, down <- sdown,
    reset <- sreset, queue <- squeue, hung <- shung, cli <- scli,
    dupli <- sdupli, due <- sdue, current <- scurrent, buffer <- sbuffer,
    broken <- sbroken, spc <- sspc, running <- srunning

Block == INSTANCE BlockServer WITH
    Client <- BlockClient, Table <- Places, Window <- BlockWindow, cl <- bcl,
    up <- bup, down <- bdown, reset <- breset, queue <- bqueue,
    conn <- bconn, due <- bdue, current <- bcurrent, owed <- bowed,
    taken <- btaken, spc <- bspc, running <- brunning

eVars == <<
    ecl, etyped, eup, edown, ebounced, ereset, equeue, econn, eedge, eevents,
    ecurrent, espc, erunning>>
sVars == <<
    sversion, scl, sleft, sheard, sup, sdown, sreset, squeue, shung, scli,
    sdupli, sdue, scurrent, sbuffer, sbroken, sspc, srunning>>
bVars == <<
    bcl, bup, bdown, breset, bqueue, bconn, bdue, bcurrent, bowed, btaken,
    bspc, brunning>>
echo == <<server, eVars, sVars, bVars>>

EpollRuns(step) == server = "epoll" /\ step /\ UNCHANGED <<server, sVars, bVars>>
SelectRuns(step) == server = "select" /\ step /\ UNCHANGED <<server, eVars, bVars>>
BlockRuns(step) == server = "block" /\ step /\ UNCHANGED <<server, eVars, sVars>>

EchoInit ==
    /\ server \in {"epoll", "select", "block"}
    /\ Epoll!Init /\ Sel!Init /\ Block!Init
    /\ server # "select" => sversion = "rebuild" /\ scurrent = Somebody
    /\ server # "block" => bcurrent = Somebody

EchoNext ==
    \/ EpollRuns(Epoll!Next)
    \/ SelectRuns(Sel!Next)
    \/ BlockRuns(Block!Next)

\* The servers run; the client of the select servers reads and sends on, and
\* the block server's reads.  Nobody has to type or to end.
EchoSpec ==
    /\ EchoInit /\ [][EchoNext]_echo
    /\ WF_echo(EpollRuns(Epoll!ServerStep))
    /\ WF_echo(SelectRuns(Sel!ServerStep))
    /\ \A c \in SelectClient : WF_echo(SelectRuns(Sel!ClientWorks(c)))
    /\ WF_echo(BlockRuns(Block!ServerStep))
    /\ \A c \in BlockClient : WF_echo(BlockRuns(Block!Hear(c)))

\* What the run checks, as each server's own module states it.
NoLiveClientForgotten == Epoll!NoLiveClientForgotten
EventsServed == Epoll!EventsServed
BlocksOnlyWhenStopping == Sel!BlocksOnlyWhenStopping
NobodyStuckSending == Sel!NobodyStuckSending
ServedUnlessTakenBack == Block!ServedUnlessTakenBack
=============================================================================
