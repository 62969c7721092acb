------------------------------ MODULE Watchdog ------------------------------
(***************************************************************************)
(* start_daemon of network_hdr.h (the same text in MIO/, thread/ and       *)
(* ipc/): a parent that forks a child to return to the caller with, waits  *)
(* for its end, and forks another.  On SIGINT the parent is to end with    *)
(* its child.  The children are numbered in the order of their birth.      *)
(*                                                                         *)
(* The handler is registered after the first fork, so the first child does *)
(* not have it and all others inherit it.  They inherit _pid_ as well, and *)
(* keep what they have inherited until they have stored the 0 that fork    *)
(* returns to them: from then on their handler signals the whole process   *)
(* group.                                                                  *)
(***************************************************************************)
EXTENDS Integers

CONSTANT MaxChild   \* children born (a bound)

Child == 1 .. MaxChild

VARIABLES
    ppc,        \* what the parent does next
    born,       \* children born so far
    pid,        \* the parent's _pid_: a child, -1 after a failed fork, or 0
    own,        \* each child's copy of _pid_
    handler,    \* daemon_child_handler is registered
    child,      \* each child: "none", "runs", "zombie", "reaped"
    pending,    \* children to whom a SIGINT is on its way (0 is the parent)
    stopped,    \* what the parent was doing when SIGINT ended it
    struck      \* the calls of kill by a handler: <<whose, with what number>>

vars == <<ppc, born, pid, own, handler, child, pending, stopped, struck>>

Init ==
    /\ ppc = "fork" /\ born = 0 /\ pid = 0 /\ handler = FALSE
    /\ child = [k \in Child |-> "none"] /\ own = [k \in Child |-> 0]
    /\ pending = {} /\ stopped = "not" /\ struck = {}

Running == {k \in Child : child[k] = "runs"}
PGoto(from, to) == ppc = from /\ ppc' = to

\* Whom kill(n, SIGINT) reaches among parent (0) and children: the others of
\* the group, everybody, or the process of that number if it is still there.
Reached(self, n) ==
    IF n \in {0, -1}
        THEN (Running \cup IF ppc = "gone" THEN {} ELSE {0}) \ {self}
        ELSE Running \cap {n}

-----------------------------------------------------------------------------
(* The parent *)

Fork ==
    /\ PGoto("fork", "forked") /\ born < MaxChild
    /\ born' = born + 1
    /\ child' = [child EXCEPT ![born + 1] = "runs"]
    /\ own' = [own EXCEPT ![born + 1] = pid]
    /\ UNCHANGED <<pid, handler, pending, stopped, struck>>

ForkFail ==
    /\ PGoto("fork", "sleep")
    /\ pid' = -1
    /\ UNCHANGED <<born, own, handler, child, pending, stopped, struck>>

\* fork has returned; its result is stored.
Assign ==
    /\ PGoto("forked", "register")
    /\ pid' = born
    /\ UNCHANGED <<born, own, handler, child, pending, stopped, struck>>

Register ==
    /\ PGoto("register", "wait")
    /\ handler' = TRUE
    /\ UNCHANGED <<born, pid, own, child, pending, stopped, struck>>

\* Variant: waitpid does not wait.
ReapNoHang ==
    /\ pid \in Child /\ child[pid] \in {"runs", "zombie"}
    /\ PGoto("wait", "sleep")
    /\ child' = [child EXCEPT ![pid] = IF @ = "zombie" THEN "reaped" ELSE @]
    /\ UNCHANGED <<born, pid, own, handler, pending, stopped, struck>>

\* waitpid returns; the child is gone and its number is free.
Reap ==
    /\ pid \in Child /\ child[pid] = "zombie"
    /\ PGoto("wait", "sleep")
    /\ child' = [child EXCEPT ![pid] = "reaped"]
    /\ UNCHANGED <<born, pid, own, handler, pending, stopped, struck>>

Sleep ==
    /\ PGoto("sleep", "fork")
    /\ UNCHANGED <<born, pid, own, handler, child, pending, stopped, struck>>

\* SIGINT reaches the parent: the handler signals _pid_ and exits; without it
\* the parent just ends.
ParentInterrupted ==
    /\ 0 \in pending /\ ppc # "gone"
    /\ ppc' = "gone" /\ stopped' = ppc
    /\ struck' = IF handler THEN struck \cup {<<0, pid>>} ELSE struck
    /\ pending' = (pending \ {0}) \cup IF handler THEN Reached(0, pid) ELSE {}
    /\ UNCHANGED <<born, pid, own, handler, child>>

-----------------------------------------------------------------------------
(* The children, and who sends SIGINT *)

\* fork has returned in the child; its result is stored.
ChildAssigns(k) ==
    /\ child[k] = "runs" /\ own[k] # 0
    /\ own' = [own EXCEPT ![k] = 0]
    /\ UNCHANGED <<ppc, born, pid, handler, child, pending, stopped, struck>>

\* A child ends for reasons of its own.
ChildEnds(k) ==
    /\ child[k] = "runs"
    /\ child' = [child EXCEPT ![k] = "zombie"]
    /\ pending' = pending \ {k}
    /\ UNCHANGED <<ppc, born, pid, own, handler, stopped, struck>>

\* The inherited handler signals what the child's _pid_ says, and exits.
ChildInterrupted(k) ==
    /\ k \in pending /\ child[k] = "runs"
    /\ child' = [child EXCEPT ![k] = "zombie"]
    /\ struck' = IF k = 1 THEN struck ELSE struck \cup {<<k, own[k]>>}
    /\ pending' = (pending \ {k}) \cup IF k = 1 THEN {} ELSE Reached(k, own[k])
    /\ UNCHANGED <<ppc, born, pid, own, handler, stopped>>

\* Somebody sends SIGINT to the parent or to a child.
Interrupt(k) ==
    /\ ppc # "gone" /\ k \notin pending
    /\ k = 0 \/ k \in Running
    /\ pending' = pending \cup {k}
    /\ UNCHANGED <<ppc, born, pid, own, handler, child, stopped, struck>>

Next ==
    \/ Fork \/ ForkFail \/ Assign \/ Register \/ Reap \/ Sleep \/ ParentInterrupted
    \/ \E k \in Child : ChildAssigns(k) \/ ChildEnds(k) \/ ChildInterrupted(k)
    \/ \E k \in {0} \cup Child : Interrupt(k)

Spec == Init /\ [][Next]_vars

-----------------------------------------------------------------------------
(* Properties *)

\* Every variable keeps its type.
TypeOK ==
    /\ ppc \in {"fork", "forked", "register", "wait", "sleep", "gone"}
    /\ born \in 0 .. MaxChild /\ pid \in -1 .. MaxChild /\ handler \in BOOLEAN
    /\ own \in [Child -> -1 .. MaxChild]
    /\ child \in [Child -> {"none", "runs", "zombie", "reaped"}]
    /\ pending \in SUBSET ({0} \cup Child)
    /\ stopped \in {"not", "fork", "forked", "register", "wait", "sleep"}
    /\ struck \in SUBSET (({0} \cup Child) \X (-1 .. MaxChild))

\* The number is everybody's, or that of a child that has been reaped and may
\* be anybody's by now.
Strange(n) == n = -1 \/ (n \in Child /\ child[n] = "reaped")

\* SIGINT ends watchdog and child together, whichever of them it is sent to, and
\* nobody else, but for these windows.  A child survives the watchdog only if
\* the signal came while fork returned, or before the handler was there at all;
\* the watchdog survives a child only if that has signalled the wrong process,
\* or is the first and has no handler.  The watchdog's handler signals a
\* stranger, or everybody, only between two children; a child's only with the
\* number it has inherited, before it has stored its 0: that of the child
\* before it, or the -1 of a failed fork, whatever the watchdog does by then.
SigIntEndsBoth ==
    /\ ppc = "gone" =>
           \/ Running \subseteq pending
           \/ stopped = "forked" \/ (stopped = "register" /\ born = 1)
    /\ \A hit \in struck :
           IF hit[1] = 0
               THEN Strange(hit[2]) => stopped \in {"sleep", "fork", "forked"}
               ELSE IF hit[2] = 0
                   THEN ppc = "gone" \/ 0 \in pending
                   ELSE Strange(hit[2]) /\ hit[2] \in {-1, hit[1] - 1}
=============================================================================
