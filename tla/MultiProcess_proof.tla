------------------------- MODULE MultiProcess_proof -------------------------
(***************************************************************************)
(* Proofs about MultiProcess, for any number of children.                  *)
(***************************************************************************)
EXTENDS MultiProcess, TLAPS

\* The initial state satisfies the invariant.
LEMMA InvInit == Init => IInv
BY ProcessAssumption
   DEF Init, IInv, TypeOK, ConnfdInv, OrphanInv, SocketOwners, ZombiesAnnounced,
       ErrnoRaceSparesClients, Process, ParentLabel, ChildLabel, Up, Zombies, Children,
       Serving

-----------------------------------------------------------------------------
(* Steps of the parent *)

\* The parent's exit hands its sockets to nobody and its zombies to init.
LEMMA ExitStep == IInv /\ Exit /\ handler = "idle" => IInv'
<1> SUFFICES ASSUME IInv, Exit, handler = "idle" PROVE IInv'
    OBVIOUS
<1> USE ProcessAssumption
    DEF IInv, Exit, Up, Zombies, Children, Serving, Process, ParentLabel, ChildLabel
<1>1. TypeOK'
      BY DEF TypeOK
<1>2. ConnfdInv'
      BY DEF ConnfdInv
<1>3. SocketOwners'
      BY DEF TypeOK, SocketOwners
<1>4. ZombiesAnnounced' /\ ErrnoRaceSparesClients' /\ OrphanInv'
      BY DEF TypeOK, ZombiesAnnounced, ErrnoRaceSparesClients, OrphanInv
<1>5. QED
      BY <1>1, <1>2, <1>3, <1>4

\* Every step of the loop in main.
LEMMA ParentStep ==
    IInv /\ (ParentRuns \/ AcceptFail \/ \E c \in Child : Accept(c)) => IInv'
<1> SUFFICES ASSUME IInv, ParentRuns \/ AcceptFail \/ \E c \in Child : Accept(c)
             PROVE  IInv'
    OBVIOUS
<1> USE ProcessAssumption DEF At
<1>1. CASE ParentLeave \/ ParentGivesUp \/ ForkFail \/ AcceptFail
      BY <1>1, ExitStep DEF ParentLeave, ParentGivesUp, ForkFail, AcceptFail
<1>2. CASE ParentEnter \/ ParentRetry
      BY <1>2 DEF ParentEnter, ParentRetry, IInv, TypeOK, ConnfdInv, OrphanInv, SocketOwners,
         ZombiesAnnounced, ErrnoRaceSparesClients, Up, Zombies, Children, Serving,
         ParentLabel
<1>3. ASSUME NEW c \in Child, Accept(c)
      PROVE  IInv'
      BY <1>3 DEF Accept, IInv, TypeOK, ConnfdInv, OrphanInv, SocketOwners, ZombiesAnnounced,
         ErrnoRaceSparesClients, Up, Zombies, Children, Serving, ParentLabel, Process
<1>4. CASE Fork
  <2>1. /\ connfd \in Child
        /\ child[connfd] = "none"
        BY <1>4 DEF Fork, IInv, TypeOK, ConnfdInv
  <2>2. TypeOK'
        BY <1>4, <2>1 DEF Fork, IInv, TypeOK, Process, ParentLabel, ChildLabel
  <2>3. ConnfdInv'
        BY <1>4, <2>1 DEF Fork, IInv, ConnfdInv
  <2>4. \A c \in Child :
           /\ child'[c] = (IF c = connfd THEN "close_listen" ELSE child[c])
           /\ holders'[c] = (IF c = connfd THEN holders[c] \cup {connfd} ELSE holders[c])
        BY <1>4, <2>1 DEF Fork, IInv, TypeOK
  <2>5. /\ UNCHANGED <<connfd, pending, handler>>
        /\ listening' = listening \cup {connfd}
        /\ parent = "fork" /\ parent' = "close"
        BY <1>4 DEF Fork
  <2>6. \A c \in Child : c \in Serving' <=> c \in Serving \/ c = connfd
        BY <2>1, <2>4 DEF Serving, Children, Zombies
  <2>7. SocketOwners'
    <3>1. ASSUME NEW c \in Child
          PROVE  /\ Parent \in holders'[c] <=> connfd' = c
                 /\ holders'[c] \subseteq {Parent, c}
                 /\ c \in holders'[c] <=> c \in Serving'
                 /\ c \in listening' => child'[c] = "close_listen"
      <4>1. /\ Parent \in holders[c] <=> connfd = c
            /\ holders[c] \subseteq {Parent, c}
            /\ c \in holders[c] <=> c \in Serving
            /\ c \in listening => child[c] = "close_listen"
            BY DEF IInv, SocketOwners
      <4>2. CASE c = connfd
        <5>1. child'[c] = "close_listen" /\ holders'[c] = holders[c] \cup {c}
              BY <2>4, <4>2
        <5>2. c \in Serving' /\ connfd' = c
              BY <2>5, <2>6, <4>2
        <5>3. Parent \in holders[c] /\ holders[c] \subseteq {Parent, c}
              BY <4>1, <4>2
        <5>4. QED
              BY <5>1, <5>2, <5>3
      <4>3. CASE c # connfd
            BY <2>4, <2>5, <2>6, <4>1, <4>3
      <4>4. QED
            BY <4>2, <4>3
    <3>2. Parent \in listening' <=> Up'
          BY <2>1, <2>5 DEF IInv, SocketOwners, Up
    <3>3. QED
          BY <3>1, <3>2 DEF SocketOwners
  <2>8. ZombiesAnnounced' /\ ErrnoRaceSparesClients' /\ OrphanInv'
    <3>1. Zombies' = Zombies
          BY <2>1, <2>4 DEF Zombies
    <3>2. QED
          BY <2>5, <3>1
             DEF IInv, ZombiesAnnounced, ErrnoRaceSparesClients, OrphanInv, Up
  <2>9. QED
        BY <2>2, <2>3, <2>7, <2>8 DEF IInv
<1>5. CASE ParentClose
      BY <1>5 DEF ParentClose, IInv, TypeOK, ConnfdInv, OrphanInv, SocketOwners, ZombiesAnnounced,
         ErrnoRaceSparesClients, Up, Zombies, Children, Serving, ParentLabel, Process
<1>6. QED
      BY <1>1, <1>2, <1>3, <1>4, <1>5 DEF ParentRuns

-----------------------------------------------------------------------------
(* Signals and children *)

\* The signal handlers touch neither sockets nor serving children.
LEMMA SignalStep == IInv /\ (SigInt \/ HandlerRuns) => IInv'
<1> SUFFICES ASSUME IInv, SigInt \/ HandlerRuns PROVE IInv'
    OBVIOUS
<1> USE ProcessAssumption
    DEF IInv, TypeOK, ConnfdInv, OrphanInv, SocketOwners, ZombiesAnnounced, ErrnoRaceSparesClients,
        Up, Zombies, Children, Serving, ParentLabel, ChildLabel, Process, At,
        AcceptInterrupted, AcceptUndisturbed
<1>1. CASE SigInt
      BY <1>1 DEF SigInt
<1>2. CASE SigChld
  <2>1. /\ UNCHANGED <<running, parent, errno, connfd, child, listening, holders>>
        /\ parent # "exited" /\ handler' = "wait" /\ pending' = FALSE
        BY <1>2 DEF SigChld
  <2>2. TypeOK' /\ ConnfdInv' /\ OrphanInv'
        BY <2>1
  <2>3. SocketOwners'
        BY <2>1
  <2>4. ZombiesAnnounced' /\ ErrnoRaceSparesClients'
        BY <2>1
  <2>5. QED
        BY <2>2, <2>3, <2>4
<1>3. ASSUME NEW c \in Child, Reap(c)
      PROVE  IInv'
      BY <1>3 DEF Reap
<1>4. CASE HandlerReturn
      BY <1>4 DEF HandlerReturn
<1>5. QED
      BY <1>1, <1>2, <1>3, <1>4 DEF HandlerRuns

\* The end of a child gives up its descriptors and leaves its zombie announced.
LEMMA EndStep ==
    ASSUME NEW c \in Child, IInv, c \in Serving, End(c)
    PROVE  IInv'
<1> USE ProcessAssumption
    DEF IInv, End, Up, Zombies, Children, Serving, Process, ParentLabel, ChildLabel
<1>1. TypeOK'
      BY DEF TypeOK
<1>2. ConnfdInv'
      BY DEF TypeOK, ConnfdInv
<1>3. SocketOwners'
      BY DEF TypeOK, SocketOwners
<1>4. ZombiesAnnounced' /\ ErrnoRaceSparesClients' /\ OrphanInv'
      BY DEF TypeOK, ZombiesAnnounced, ErrnoRaceSparesClients, OrphanInv
<1>5. QED
      BY <1>1, <1>2, <1>3, <1>4

\* Every other step of a child.
LEMMA ChildStep ==
    ASSUME NEW c \in Child, IInv,
           ChildRuns(c) \/ RecvData(c) \/ RecvEnd(c) \/ ChildSigInt(c)
    PROVE  IInv'
<1> USE ProcessAssumption DEF Goto, Serving, Children, Zombies
<1>1. CASE ChildLeave(c) \/ SendEnd(c) \/ RecvEnd(c)
      BY <1>1, EndStep DEF ChildLeave, SendEnd, RecvEnd
<1>2. CASE CloseListen(c)
      BY <1>2 DEF CloseListen, IInv, TypeOK, ConnfdInv, OrphanInv, SocketOwners, ZombiesAnnounced,
         ErrnoRaceSparesClients, Up, ChildLabel, Process
<1>3. CASE ChildEnter(c) \/ SendDone(c) \/ RecvData(c)
      BY <1>3 DEF ChildEnter, SendDone, RecvData, IInv, TypeOK, ConnfdInv, OrphanInv, SocketOwners,
         ZombiesAnnounced, ErrnoRaceSparesClients, Up, ChildLabel, Process
<1>4. CASE ChildSigInt(c)
      BY <1>4 DEF ChildSigInt, IInv, TypeOK, ConnfdInv, OrphanInv, SocketOwners,
         ZombiesAnnounced, ErrnoRaceSparesClients, Up, ChildLabel, Process
<1>5. QED
      BY <1>1, <1>2, <1>3, <1>4 DEF ChildRuns

-----------------------------------------------------------------------------

LEMMA Invariance == Spec => []IInv
<1>1. IInv /\ [Next]_vars => IInv'
  <2>1. IInv /\ Next => IInv'
        BY ParentStep, SignalStep, ChildStep DEF Next
  <2>2. IInv /\ UNCHANGED vars => IInv'
        BY DEF vars, IInv, TypeOK, ConnfdInv, OrphanInv, SocketOwners, ZombiesAnnounced,
           ErrnoRaceSparesClients, Up, Zombies, Children, Serving
  <2>3. QED
        BY <2>1, <2>2
<1>2. QED
      BY <1>1, InvInit, PTL DEF Spec

\* Coalesced SIGCHLDs never hide a zombie, however many children end at once.
THEOREM NoZombieForgotten == Spec => []ZombiesAnnounced
<1>1. IInv => ZombiesAnnounced
      BY DEF IInv
<1>2. QED
      BY <1>1, Invariance, PTL

\* The race on errno between accept's failure and its test ends the parent
\* only when it has no child.
THEOREM NoClientLostToErrno == Spec => []ErrnoRaceSparesClients
<1>1. IInv => ErrnoRaceSparesClients
      BY DEF IInv
<1>2. QED
      BY <1>1, Invariance, PTL

\* For any number of children, each descriptor is open in the processes that
\* use it and in no other.
THEOREM DescriptorsHaveOwners == Spec => []SocketOwners
<1>1. IInv => SocketOwners
      BY DEF IInv
<1>2. QED
      BY <1>1, Invariance, PTL
=============================================================================
