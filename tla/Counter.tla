------------------------------ MODULE Counter -------------------------------
(***************************************************************************)
(* thread/mthreads.c (two threads) and Mthreads.c (five): main starts its  *)
(* threads, each of which adds one to main's count Rounds times with no    *)
(* lock, waits for them and prints what has come of it.  An addition is a  *)
(* load and a store; a thread that loads before and stores after the       *)
(* others undoes everything they have done in between.                     *)
(***************************************************************************)
EXTENDS Naturals, FiniteSets

CONSTANTS
    Thread,     \* the threads of main
    Rounds      \* additions of each thread, one at least

VARIABLES
    count,      \* main's variable
    left,       \* additions each thread has yet to make
    loaded,     \* what it has loaded, to store one more (0 afterwards)
    pc,         \* "new", "load", "store", "done"
    joined,     \* threads main has waited for
    mpc,        \* main: "create", "join", "printed", "failed"
    shown       \* the last count main has printed

vars == <<count, left, loaded, pc, joined, mpc, shown>>

Init ==
    /\ count = 0 /\ shown = 0
    /\ left = [t \in Thread |-> Rounds]
    /\ loaded = [t \in Thread |-> 0]
    /\ pc = [t \in Thread |-> "new"]
    /\ joined = {} /\ mpc = "create"

Create(t) ==
    /\ mpc = "create" /\ pc[t] = "new"
    /\ pc' = [pc EXCEPT ![t] = "load"]
    /\ UNCHANGED <<count, left, loaded, joined, mpc, shown>>

\* pthread_create fails: the process exits with all its threads.
CreateFail ==
    /\ mpc = "create" /\ \E t \in Thread : pc[t] = "new"
    /\ mpc' = "failed"
    /\ UNCHANGED <<count, left, loaded, pc, joined, shown>>

\* mthreads.c prints the count here, too, with the threads at work.
AllCreated ==
    /\ mpc = "create" /\ \A t \in Thread : pc[t] # "new"
    /\ mpc' = "join" /\ shown' = count
    /\ UNCHANGED <<count, left, loaded, pc, joined>>

Load(t) ==
    /\ pc[t] = "load" /\ mpc # "failed"
    /\ loaded' = [loaded EXCEPT ![t] = count]
    /\ pc' = [pc EXCEPT ![t] = "store"]
    /\ UNCHANGED <<count, left, joined, mpc, shown>>

Store(t) ==
    /\ pc[t] = "store" /\ mpc # "failed"
    /\ count' = loaded[t] + 1
    /\ left' = [left EXCEPT ![t] = @ - 1]
    /\ pc' = [pc EXCEPT ![t] = IF left[t] = 1 THEN "done" ELSE "load"]
    /\ loaded' = [loaded EXCEPT ![t] = 0]
    /\ UNCHANGED <<joined, mpc, shown>>

\* Variant: main does not wait.
JoinAtOnce(t) ==
    /\ mpc = "join" /\ t \notin joined
    /\ joined' = joined \cup {t}
    /\ UNCHANGED <<count, left, loaded, pc, mpc, shown>>

\* The loop joins its threads in order; any order lets it wait as long.
Join(t) ==
    /\ mpc = "join" /\ t \notin joined /\ pc[t] = "done"
    /\ joined' = joined \cup {t}
    /\ UNCHANGED <<count, left, loaded, pc, mpc, shown>>

\* Mthreads.c prints after every join what mthreads.c prints after the last.
Show ==
    /\ mpc = "join" /\ joined # {}
    /\ shown' = count
    /\ mpc' = IF joined = Thread THEN "printed" ELSE "join"
    /\ UNCHANGED <<count, left, loaded, pc, joined>>

Next ==
    \/ CreateFail \/ AllCreated \/ Show
    \/ \E t \in Thread : Create(t) \/ Load(t) \/ Store(t) \/ Join(t)

Spec == Init /\ [][Next]_vars

-----------------------------------------------------------------------------
(* Properties *)

\* Every variable keeps its type.
TypeOK ==
    /\ count \in Nat /\ shown \in Nat
    /\ left \in [Thread -> 0 .. Rounds] /\ loaded \in [Thread -> Nat]
    /\ pc \in [Thread -> {"new", "load", "store", "done"}]
    /\ joined \in SUBSET Thread
    /\ mpc \in {"create", "join", "printed", "failed"}

\* What main prints at the end is at most the number of additions, and, however
\* many threads there are and however often they add, at least two (one if each
\* adds once): no thread can be undone after the last addition of another that
\* has seen one of its own.
FinalCount ==
    mpc = "printed" =>
        /\ shown <= Cardinality(Thread) * Rounds
        /\ shown >= IF Rounds = 1 THEN 1 ELSE 2
=============================================================================
