-------------------------- MODULE MCSmallPrograms ---------------------------
(***************************************************************************)
(* One run for five systems that have nothing to do with each other:       *)
(* program says which of them runs, and the state of the others stays what *)
(* it is initially.  The prefixes l, m, a, d and c of the variables stand  *)
(* for lock-step, memory, audit, (watch)dog and counter.                   *)
(***************************************************************************)
EXTENDS Naturals, FiniteSets

CONSTANTS
    Client, Connections, First,     \* of LockStep, First the first current
    LibWriter, LibReader, PlainWriter, PlainReader,     \* of ShmTools
    Segments, Sizes, Wants, AtOnce,
    Caller, Daemon, Backlog,        \* of AuditModule
    Nobody,
    MaxChild,                       \* of Watchdog
    Adder, Rounds                   \* the threads of Counter and their rounds

Tool == LibWriter \cup LibReader \cup PlainWriter \cup PlainReader

\* Every process runs one of the tools; a segment holds its header at least.
ASSUME ShmAssumption ==
    /\ LibWriter \cap LibReader = {} /\ LibWriter \cap PlainWriter = {}
    /\ LibWriter \cap PlainReader = {} /\ LibReader \cap PlainWriter = {}
    /\ LibReader \cap PlainReader = {} /\ PlainWriter \cap PlainReader = {}
    /\ Nobody \notin Segments \cup Tool \cup {"lib", "plain"}
    /\ Sizes \subseteq Nat \ {0} /\ Wants \subseteq Nat
ASSUME DogAssumption == MaxChild \in Nat
ASSUME CounterAssumption == IsFiniteSet(Adder) /\ Rounds \in Nat \ {0}

VARIABLES
    program,
    lcl, lmade, lup, ldown, lfate, lbounced, lreset, lconn, lqueue, lcurrent,
    learly, lspc,
    mkey, mat, msize, mtype, mlength, mfilled, mstep, mid, mwant, mtodo, mpos,
    mcount, mbad, msolo, msound, mdisturbed,
    amodule, ahooked, ask, apid, apc, acaught, afreed, adaemon, aholds, ainbox,
    dppc, dborn, dpid, dcopy, dhandler, dchild, dpending, dstopped, dstruck,
    ccount, cleft, cloaded, cpc, cjoined, cmpc, cshown

Lock == INSTANCE LockStep WITH
    cl <- lcl, made <- lmade, up <- lup, down <- ldown, fate <- lfate,
    bounced <- lbounced, reset <- lreset, conn <- lconn, queue <- lqueue,
    current <- lcurrent, early <- learly, spc <- lspc

Shm == INSTANCE ShmTools WITH
    key <- mkey, at <- mat, size <- msize, type <- mtype, length <- mlength,
    filled <- mfilled, pc <- mstep, id <- mid, want <- mwant, todo <- mtodo,
    pos <- mpos, count <- mcount, bad <- mbad, solo <- msolo, sound <- msound,
    disturbed <- mdisturbed

Audit == INSTANCE AuditModule WITH
    module <- amodule, hooked <- ahooked, nl_sk <- ask, pid <- apid, pc <- apc,
    caught <- acaught, freed <- afreed, daemon <- adaemon, holds <- aholds,
    inbox <- ainbox

Dog == INSTANCE Watchdog WITH
    ppc <- dppc, born <- dborn, pid <- dpid, own <- dcopy,
    handler <- dhandler, child <- dchild, pending <- dpending, stopped <- dstopped,
    struck <- dstruck

Adding == INSTANCE Counter WITH
    Thread <- Adder, count <- ccount, left <- cleft, loaded <- cloaded,
    pc <- cpc, joined <- cjoined, mpc <- cmpc, shown <- cshown

lVars == <<
    lcl, lmade, lup, ldown, lfate, lbounced, lreset, lconn, lqueue, lcurrent,
    learly, lspc>>
mVars == <<
    mkey, mat, msize, mtype, mlength, mfilled, mstep, mid, mwant, mtodo, mpos,
    mcount, mbad, msolo, msound, mdisturbed>>
aVars == <<
    amodule, ahooked, ask, apid, apc, acaught, afreed, adaemon, aholds, ainbox>>
dVars == <<dppc, dborn, dpid, dcopy, dhandler, dchild, dpending, dstopped, dstruck>>
cVars == <<ccount, cleft, cloaded, cpc, cjoined, cmpc, cshown>>
all == <<program, lVars, mVars, aVars, dVars, cVars>>

LockRuns(step) ==
    program = "lock-step" /\ step /\ UNCHANGED <<program, mVars, aVars, dVars, cVars>>
ShmRuns(step) ==
    program = "memory" /\ step /\ UNCHANGED <<program, lVars, aVars, dVars, cVars>>
AuditRuns(step) ==
    program = "audit" /\ step /\ UNCHANGED <<program, lVars, mVars, dVars, cVars>>
DogRuns(step) ==
    program = "watchdog" /\ step /\ UNCHANGED <<program, lVars, mVars, aVars, cVars>>
CounterRuns(step) ==
    program = "counter" /\ step /\ UNCHANGED <<program, lVars, mVars, aVars, dVars>>

AllInit ==
    /\ program \in {"lock-step", "memory", "audit", "watchdog", "counter"}
    /\ Lock!Init /\ Shm!Init /\ Audit!Init /\ Dog!Init /\ Adding!Init
    /\ program # "lock-step" => lcurrent = First

AllNext ==
    \/ LockRuns(Lock!Next)
    \/ ShmRuns(Shm!Next)
    \/ AuditRuns(Audit!Next)
    \/ DogRuns(Dog!Next)
    \/ CounterRuns(Adding!Next)

\* The lock-step server runs, and so do clients that are not killed.
AllSpec ==
    /\ AllInit /\ [][AllNext]_all
    /\ WF_all(LockRuns(Lock!ServerStep))
    /\ \A c \in Client : WF_all(LockRuns(Lock!ClientWorks(c)))

EveryConnectionCloses == Lock!EveryConnectionCloses
UndisturbedReadIsWhole == Shm!UndisturbedReadIsWhole
ReadsStayInside == Shm!ReadsStayInside
OnlyCaughtCallsFail == Audit!OnlyCaughtCallsFail
SigIntEndsBoth == Dog!SigIntEndsBoth
FinalCount == Adding!FinalCount
=============================================================================
