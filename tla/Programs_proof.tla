---------------------------- MODULE Programs_proof ----------------------------
(***************************************************************************)
(* Proofs about the systems that are small enough to need no proof module  *)
(* of their own: four of those that share the run of MCSmallPrograms, the  *)
(* thread-per-connection echo server, and two of those in EchoServers.     *)
(* Each has an inductive invariant of its own; what those that share a run *)
(* have in common is that only one of them runs.                           *)
(***************************************************************************)
EXTENDS MCSmallPrograms, ThreadPerConnection, EchoServers, Integers, Sequences,
        FiniteSetTheorems, WellFoundedInduction, TLAPS

\* While one program takes a step the others take none.
LEMMA Others ==
    ASSUME [AllNext]_all
    PROVE  /\ Shm!Next \/ UNCHANGED mVars
           /\ Audit!Next \/ UNCHANGED aVars
           /\ Dog!Next \/ UNCHANGED dVars
           /\ Adding!Next \/ UNCHANGED cVars
BY DEF AllNext, all, LockRuns, ShmRuns, AuditRuns, DogRuns, CounterRuns

LEMMA OtherServers ==
    ASSUME [EchoNext]_echo
    PROVE  /\ Epoll!Next \/ UNCHANGED eVars
           /\ Sel!Next \/ UNCHANGED sVars
BY DEF EchoNext, echo, EpollRuns, SelectRuns, BlockRuns

-----------------------------------------------------------------------------
(* The audit module *)

\* The variables the argument is about have their types.
AuditTypes ==
    /\ amodule \in {"out", "hooked", "in", "unhooked", "released"}
    /\ ahooked \in BOOLEAN
    /\ apc \in [Caller -> {"user", "orig", "send", "oops"}]
    /\ acaught \in SUBSET Caller /\ afreed \in SUBSET Caller

\* The table leads to the hook as long as the module is whole, and then its
\* socket has not been released.
HookInv ==
    /\ ahooked <=> amodule \in {"hooked", "in"}
    /\ ask = "released" => ~ahooked

\* Whoever is inside the hook that is no longer in the table was caught there.
CaughtInv == ~ahooked => Audit!InHook \subseteq acaught

\* Whoever has lost the text under his feet was caught, and does not come back.
FreedInv == \A c \in afreed : c \in acaught /\ apc[c] # "user"

AuditInv == AuditTypes /\ HookInv /\ CaughtInv /\ FreedInv /\ OnlyCaughtCallsFail

LEMMA AuditInit == Audit!Init => AuditInv
BY DEF Audit!Init, AuditInv, AuditTypes, HookInv, CaughtInv, FreedInv,
       OnlyCaughtCallsFail, Audit!OnlyCaughtCallsFail, Audit!InHook


\* Loading and unloading.
LEMMA AuditModuleInv ==
    ASSUME AuditInv, Audit!ModuleStep
    PROVE  AuditInv'
<1> USE DEF AuditInv, AuditTypes, HookInv, CaughtInv, FreedInv, OnlyCaughtCallsFail,
            Audit!OnlyCaughtCallsFail, Audit!InHook, Audit!MGoto, Audit!callVars
<1>1. CASE Audit!Hook
      BY <1>1 DEF Audit!Hook
<1>2. CASE Audit!CreateSocket
      BY <1>2 DEF Audit!CreateSocket
<1>3. CASE Audit!Unhook
      BY <1>3 DEF Audit!Unhook
<1>4. CASE Audit!Release
      BY <1>4 DEF Audit!Release
<1>5. CASE Audit!Free
  <2>1. /\ amodule = "released" /\ amodule' = "out" /\ afreed' = afreed \cup Audit!InHook
        /\ UNCHANGED <<ahooked, ask, apc, acaught>>
        BY <1>5 DEF Audit!Free
  <2>2. ~ahooked /\ Audit!InHook \subseteq acaught
        BY <2>1
  <2>3. \A c \in Audit!InHook : c \in Caller /\ apc[c] # "user"
        OBVIOUS
  <2>4. FreedInv'
        BY <2>1, <2>2, <2>3
  <2>5. QED
        BY <2>1, <2>4
<1>6. QED
      BY <1>1, <1>2, <1>3, <1>4, <1>5 DEF Audit!ModuleStep

\* What a caller does inside the hook, or on its way into it.
LEMMA AuditCallInv ==
    ASSUME AuditInv, NEW c \in Caller,
           \/ Audit!Open(c) \/ Audit!Oops(c) \/ Audit!NoRecord(c)
           \/ Audit!Audit(c) \/ Audit!Send(c)
    PROVE  AuditInv'
<1> USE DEF AuditInv, AuditTypes, HookInv, CaughtInv, FreedInv, OnlyCaughtCallsFail,
            Audit!OnlyCaughtCallsFail, Audit!InHook, Audit!CGoto, Audit!moduleVars
<1>1. CASE Audit!Open(c)
      BY <1>1 DEF Audit!Open
<1>2. CASE Audit!Oops(c)
  <2>1. c \in acaught
    <3>1. CASE c \in afreed
          BY <3>1
    <3>2. CASE apc[c] = "send" /\ ask = "released"
          BY <3>2
    <3>3. QED
          BY <1>2, <3>1, <3>2 DEF Audit!Oops
  <2>2. QED
        BY <1>2, <2>1 DEF Audit!Oops
<1>3. CASE Audit!NoRecord(c)
      BY <1>3 DEF Audit!NoRecord, Audit!Returned
<1>4. CASE Audit!Audit(c)
      BY <1>4 DEF Audit!Audit
<1>5. CASE Audit!Send(c)
      BY <1>5 DEF Audit!Send
<1>6. QED
      BY <1>1, <1>2, <1>3, <1>4, <1>5

\* The daemons touch nothing of this.
LEMMA AuditDaemonInv ==
    ASSUME AuditInv, NEW d \in Daemon,
           Audit!Bind(d) \/ Audit!Register(d) \/ Audit!Receive(d) \/ Audit!End(d)
    PROVE  AuditInv'
<1>1. UNCHANGED <<amodule, ahooked, ask, Audit!callVars>>
      BY DEF Audit!Bind, Audit!Register, Audit!Receive, Audit!End, Audit!moduleVars
<1>2. QED
      BY <1>1 DEF AuditInv, AuditTypes, HookInv, CaughtInv, FreedInv,
         OnlyCaughtCallsFail, Audit!OnlyCaughtCallsFail, Audit!InHook, Audit!callVars

\* Every step of the run preserves the invariant.
LEMMA AuditStep == AuditInv /\ [AllNext]_all => AuditInv'
<1> SUFFICES ASSUME AuditInv, [AllNext]_all PROVE AuditInv'
    OBVIOUS
<1>1. CASE UNCHANGED aVars
      BY <1>1 DEF aVars, AuditInv, AuditTypes, HookInv, CaughtInv, FreedInv,
         OnlyCaughtCallsFail, Audit!OnlyCaughtCallsFail, Audit!InHook
<1>2. CASE Audit!Next
      BY <1>2, AuditModuleInv, AuditCallInv, AuditDaemonInv DEF Audit!Next
<1>3. QED
      BY <1>1, <1>2, Others

\* Unloading the module breaks the calls that are inside hacked_open when it
\* leaves the system call table, and no others, whoever calls open and however
\* often the module comes back.
THEOREM OnlyCaughtCallsBreak == AllSpec => []OnlyCaughtCallsFail
<1>1. AllInit => AuditInv
      BY AuditInit DEF AllInit
<1>2. AuditInv => OnlyCaughtCallsFail
      BY DEF AuditInv
<1>3. QED
      BY AuditStep, <1>1, <1>2, PTL DEF AllSpec

-----------------------------------------------------------------------------
(* The watchdog *)

\* Where the parent is says what it knows of its child: between two children
\* there is none that runs, and from Register to Reap _pid_ is the youngest's.
ParentInv ==
    /\ dppc \in {"fork", "sleep"} => Dog!Running = {}
    /\ dppc \in {"forked", "register", "wait"} =>
           /\ dborn \in Dog!Child /\ Dog!Running \subseteq {dborn}
           /\ dchild[dborn] \in {"runs", "zombie"}
    /\ dppc \in {"register", "wait"} => dpid = dborn

\* The handler is missing up to its registration after the first fork only.
HandlerInv ==
    /\ dppc = "wait" => dhandler
    /\ ~dhandler /\ dppc \in {"fork", "sleep"} => dborn = 0
    /\ ~dhandler /\ dppc \in {"forked", "register"} => dborn = 1

\* What a child inherits is the number of the child before it, which has been
\* reaped, or -1.
CopyInv ==
    /\ dppc \in {"fork", "sleep"} =>
           /\ dpid \in {-1, dborn}
           /\ dborn \in Dog!Child => dchild[dborn] = "reaped"
    /\ \A k \in Dog!Child :
           /\ k > dborn => dchild[k] = "none"
           /\ k < dborn => dchild[k] = "reaped"
           /\ k <= dborn => dcopy[k] \in {-1, 0, k - 1}

\* The parent ends with its handler.
HitInv == \A hit \in dstruck : hit[1] = 0 => dppc = "gone"

DogInv == Dog!TypeOK /\ ParentInv /\ HandlerInv /\ CopyInv /\ HitInv /\ SigIntEndsBoth

LEMMA DogInit == Dog!Init => DogInv
<1> SUFFICES ASSUME Dog!Init PROVE DogInv
    OBVIOUS
<1>1. Dog!TypeOK
  <2>1. 0 \in 0 .. MaxChild /\ 0 \in -1 .. MaxChild
        BY DogAssumption
  <2>2. /\ dchild \in [Dog!Child -> {"none", "runs", "zombie", "reaped"}]
        /\ dcopy \in [Dog!Child -> -1 .. MaxChild]
        BY <2>1 DEF Dog!Init
  <2>3. QED
        BY <2>1, <2>2 DEF Dog!Init, Dog!TypeOK
<1>2. ParentInv /\ HandlerInv /\ HitInv /\ SigIntEndsBoth
      BY DEF Dog!Init, ParentInv, HandlerInv, HitInv, SigIntEndsBoth,
         Dog!SigIntEndsBoth, Dog!Running
<1>3. CopyInv
      BY DogAssumption DEF Dog!Init, CopyInv, Dog!Child
<1>4. QED
      BY <1>1, <1>2, <1>3 DEF DogInv

\* Whom a signal reaches is the parent or one of its children.
LEMMA ReachedTyped ==
    ASSUME NEW k, NEW n
    PROVE  Dog!Reached(k, n) \subseteq {0} \cup Dog!Child
BY DEF Dog!Reached, Dog!Running

\* The types survive every step.
LEMMA DogTypeStep ==
    ASSUME Dog!TypeOK, ParentInv, Dog!Next
    PROVE  Dog!TypeOK'
<1> USE DogAssumption DEF Dog!TypeOK, Dog!Child
<1>1. CASE Dog!Fork
      BY <1>1 DEF Dog!Fork, Dog!PGoto
<1>2. CASE Dog!ForkFail
      BY <1>2 DEF Dog!ForkFail, Dog!PGoto
<1>3. CASE Dog!Assign
      BY <1>3 DEF Dog!Assign, Dog!PGoto
<1>4. CASE Dog!Register
      BY <1>4 DEF Dog!Register, Dog!PGoto
<1>5. CASE Dog!Reap
      BY <1>5 DEF Dog!Reap, Dog!PGoto
<1>6. CASE Dog!Sleep
      BY <1>6 DEF Dog!Sleep, Dog!PGoto
<1>7. CASE Dog!ParentInterrupted
  <2>1. /\ dppc' = "gone" /\ dstopped' = dppc /\ dppc # "gone"
        /\ UNCHANGED <<dborn, dpid, dcopy, dhandler, dchild>>
        BY <1>7 DEF Dog!ParentInterrupted
  <2>2. dstruck' \in SUBSET (({0} \cup Dog!Child) \X (-1 .. MaxChild))
        BY <1>7 DEF Dog!ParentInterrupted
  <2>3. dpending' \in SUBSET ({0} \cup Dog!Child)
        BY <1>7, ReachedTyped DEF Dog!ParentInterrupted
  <2>4. QED
        BY <2>1, <2>2, <2>3
<1>8. ASSUME NEW k \in Dog!Child, Dog!ChildAssigns(k) \/ Dog!ChildEnds(k)
      PROVE  Dog!TypeOK'
  <2>1. CASE Dog!ChildAssigns(k)
    <3>1. 0 \in -1 .. MaxChild
          OBVIOUS
    <3>2. dcopy' \in [Dog!Child -> -1 .. MaxChild]
          BY <2>1, <3>1 DEF Dog!ChildAssigns
    <3>3. QED
          BY <2>1, <3>2 DEF Dog!ChildAssigns
  <2>2. CASE Dog!ChildEnds(k)
        BY <2>2 DEF Dog!ChildEnds
  <2>3. QED
        BY <1>8, <2>1, <2>2
<1>9. ASSUME NEW k \in Dog!Child, Dog!ChildInterrupted(k) PROVE Dog!TypeOK'
  <2>1. /\ dchild' = [dchild EXCEPT ![k] = "zombie"]
        /\ UNCHANGED <<dppc, dborn, dpid, dcopy, dhandler, dstopped>>
        BY <1>9 DEF Dog!ChildInterrupted
  <2>2. dstruck' \in SUBSET (({0} \cup Dog!Child) \X (-1 .. MaxChild))
        BY <1>9 DEF Dog!ChildInterrupted
  <2>3. dpending' \in SUBSET ({0} \cup Dog!Child)
        BY <1>9, ReachedTyped DEF Dog!ChildInterrupted
  <2>4. QED
        BY <2>1, <2>2, <2>3
<1>10. CASE \E k \in {0} \cup Dog!Child : Dog!Interrupt(k)
      BY <1>10 DEF Dog!Interrupt
<1>11. QED
      BY <1>1, <1>2, <1>3, <1>4, <1>5, <1>6, <1>7, <1>8, <1>9, <1>10
      DEF Dog!Next

\* So does what is known of the children and the handler.
LEMMA DogParentStep ==
    ASSUME DogInv, Dog!Next
    PROVE  ParentInv' /\ HandlerInv' /\ CopyInv'
<1> USE DogAssumption
    DEF DogInv, Dog!TypeOK, Dog!Child, ParentInv, HandlerInv, CopyInv, Dog!Running
<1>1. CASE Dog!Fork
      BY <1>1 DEF Dog!Fork, Dog!PGoto
<1>2. CASE Dog!ForkFail
      BY <1>2 DEF Dog!ForkFail, Dog!PGoto
<1>3. CASE Dog!Assign
      BY <1>3 DEF Dog!Assign, Dog!PGoto
<1>4. CASE Dog!Register
      BY <1>4 DEF Dog!Register, Dog!PGoto
<1>5. CASE Dog!Reap
      BY <1>5 DEF Dog!Reap, Dog!PGoto
<1>6. CASE Dog!Sleep
      BY <1>6 DEF Dog!Sleep, Dog!PGoto
<1>7. CASE Dog!ParentInterrupted
      BY <1>7 DEF Dog!ParentInterrupted
<1>8. CASE \E k \in Dog!Child : Dog!ChildAssigns(k)
      BY <1>8 DEF Dog!ChildAssigns
<1>9. CASE \E k \in Dog!Child : Dog!ChildEnds(k) \/ Dog!ChildInterrupted(k)
      BY <1>9 DEF Dog!ChildEnds, Dog!ChildInterrupted
<1>10. CASE \E k \in {0} \cup Dog!Child : Dog!Interrupt(k)
      BY <1>10 DEF Dog!Interrupt
<1>11. QED
      BY <1>1, <1>2, <1>3, <1>4, <1>5, <1>6, <1>7, <1>8, <1>9, <1>10
      DEF Dog!Next

\* The two parts of the property.
LastChildEnds ==
    dppc = "gone" =>
        \/ Dog!Running \subseteq dpending
        \/ dstopped = "forked" \/ (dstopped = "register" /\ dborn = 1)
HitsAreMeant(hit) ==
    IF hit[1] = 0
        THEN Dog!Strange(hit[2]) => dstopped \in {"sleep", "fork", "forked"}
        ELSE IF hit[2] = 0
            THEN dppc = "gone" \/ 0 \in dpending
            ELSE Dog!Strange(hit[2]) /\ hit[2] \in {-1, hit[1] - 1}

LEMMA DogParts ==
    SigIntEndsBoth <=> LastChildEnds /\ \A hit \in dstruck : HitsAreMeant(hit)
BY DEF SigIntEndsBoth, Dog!SigIntEndsBoth, LastChildEnds, HitsAreMeant

\* The end of the parent leaves everything as the property says ...
LEMMA DogInterruptedStep ==
    ASSUME DogInv, Dog!ParentInterrupted
    PROVE  SigIntEndsBoth' /\ HitInv'
<1> USE DogAssumption DEF DogInv, Dog!TypeOK, Dog!Child, Dog!Running
<1>1. /\ dppc # "gone" /\ dppc' = "gone" /\ dstopped' = dppc
      /\ dpending' = (dpending \ {0}) \cup
             IF dhandler THEN Dog!Reached(0, dpid) ELSE {}
      /\ UNCHANGED <<dborn, dpid, dcopy, dhandler, dchild>>
      BY DEF Dog!ParentInterrupted
<1>2. LastChildEnds'
  <2>1. CASE ~dhandler
        BY <1>1, <2>1 DEF ParentInv, HandlerInv, LastChildEnds
  <2>2. CASE dhandler /\ dpid \in {0, -1}
        BY <1>1, <2>2 DEF Dog!Reached, LastChildEnds
  <2>3. CASE dhandler /\ dpid \notin {0, -1}
        BY <1>1, <2>3 DEF Dog!Reached, ParentInv, LastChildEnds
  <2>4. QED
        BY <2>1, <2>2, <2>3
<1>3. ASSUME NEW hit \in dstruck' PROVE HitsAreMeant(hit)'
  <2>1. CASE hit \in dstruck
    <3>1. hit[1] # 0 /\ HitsAreMeant(hit)
          BY <1>1, <2>1, DogParts DEF HitInv
    <3>2. QED
          BY <1>1, <3>1 DEF HitsAreMeant, Dog!Strange
  <2>2. CASE dhandler /\ hit = <<0, dpid>>
        BY <1>1, <2>2 DEF HitsAreMeant, Dog!Strange, ParentInv
  <2>3. QED
        BY <2>1, <2>2 DEF Dog!ParentInterrupted
<1>4. SigIntEndsBoth'
  <2>1. (LastChildEnds /\ \A hit \in dstruck : HitsAreMeant(hit))'
        BY <1>2, <1>3
  <2>2. QED
        BY <2>1 DEF SigIntEndsBoth, Dog!SigIntEndsBoth, LastChildEnds, HitsAreMeant
<1>5. QED
      BY <1>1, <1>4 DEF HitInv

\* ... and so does that of a child, before or after it.
LEMMA ChildInterruptedStep ==
    ASSUME DogInv, NEW k \in Dog!Child, Dog!ChildInterrupted(k)
    PROVE  SigIntEndsBoth' /\ HitInv'
<1> USE DogAssumption DEF DogInv, Dog!TypeOK, Dog!Child, Dog!Running
<1>1. /\ dchild[k] = "runs" /\ dchild' = [dchild EXCEPT ![k] = "zombie"]
      /\ dstruck' = IF k = 1 THEN dstruck ELSE dstruck \cup {<<k, dcopy[k]>>}
      /\ dpending \ {k} \subseteq dpending'
      /\ k # 1 => Dog!Reached(k, dcopy[k]) \subseteq dpending'
      /\ UNCHANGED <<dppc, dborn, dpid, dcopy, dhandler, dstopped>>
      BY DEF Dog!ChildInterrupted
<1>2. LastChildEnds'
      BY <1>1, DogParts DEF LastChildEnds
<1>3. \A n : Dog!Strange(n) <=> Dog!Strange(n)'
      BY <1>1 DEF Dog!Strange
<1>4. ASSUME NEW hit \in dstruck' PROVE HitsAreMeant(hit)'
  <2>1. CASE hit \in dstruck
    <3>1. HitsAreMeant(hit)
          BY <2>1, DogParts
    <3>2. QED
          BY <1>1, <1>3, <3>1 DEF HitsAreMeant
  <2>2. CASE k # 1 /\ hit = <<k, dcopy[k]>>
    <3>1. dborn \in Nat /\ k <= dborn /\ k \in 1 .. MaxChild
          BY <1>1 DEF CopyInv
    <3>2. dcopy[k] \in {-1, 0, k - 1} /\ (k - 1 \in Dog!Child => dchild[k - 1] = "reaped")
          BY <3>1 DEF CopyInv
    <3>3. CASE dcopy[k] = 0
      <4>1. dppc = "gone" \/ 0 \in Dog!Reached(k, dcopy[k])
            BY <3>1, <3>3 DEF Dog!Reached
      <4>2. QED
            BY <1>1, <2>2, <3>1, <3>3, <4>1 DEF HitsAreMeant
    <3>4. CASE dcopy[k] # 0
      <4>1. Dog!Strange(dcopy[k])
            BY <2>2, <3>1, <3>2, <3>4 DEF Dog!Strange
      <4>2. QED
            BY <1>1, <1>3, <2>2, <3>1, <3>2, <3>4, <4>1 DEF HitsAreMeant
    <3>5. QED
          BY <3>3, <3>4
  <2>3. QED
        BY <1>1, <2>1, <2>2
<1>5. SigIntEndsBoth'
  <2>1. (LastChildEnds /\ \A hit \in dstruck : HitsAreMeant(hit))'
        BY <1>2, <1>4
  <2>2. QED
        BY <2>1 DEF SigIntEndsBoth, Dog!SigIntEndsBoth, LastChildEnds, HitsAreMeant
<1>6. HitInv'
      BY <1>1 DEF HitInv
<1>7. QED
      BY <1>5, <1>6

\* No other step ends the parent, takes its signal back or makes a stranger of
\* it a child.
LEMMA DogOtherStep ==
    ASSUME DogInv, Dog!Next, ~Dog!ParentInterrupted,
           \A k \in Dog!Child : ~Dog!ChildInterrupted(k)
    PROVE  SigIntEndsBoth' /\ HitInv'
<1> USE DogAssumption DEF DogInv, Dog!TypeOK, Dog!Child, Dog!Running
<1>1. /\ dstruck' = dstruck /\ dstopped' = dstopped
      /\ 0 \in dpending => 0 \in dpending'
      /\ dppc = "gone" <=> dppc' = "gone"
      BY DEF Dog!Next, Dog!Fork, Dog!ForkFail, Dog!Assign, Dog!Register, Dog!Reap,
             Dog!Sleep, Dog!PGoto, Dog!ChildAssigns, Dog!ChildEnds, Dog!Interrupt
<1>2. \A j \in Dog!Child : dchild[j] = "reaped" => dchild'[j] = "reaped"
      BY DEF Dog!Next, Dog!Fork, Dog!ForkFail, Dog!Assign, Dog!Register, Dog!Reap,
             Dog!Sleep, Dog!PGoto, Dog!ChildAssigns, Dog!ChildEnds, Dog!Interrupt, CopyInv
<1>3. dppc = "gone" =>
          /\ dborn' = dborn
          /\ \A j \in Dog!Child : dchild'[j] = "reaped" => dchild[j] = "reaped"
          /\ Dog!Running' \subseteq Dog!Running
          /\ dpending \cap Dog!Running' \subseteq dpending'
      BY DEF Dog!Next, Dog!Fork, Dog!ForkFail, Dog!Assign, Dog!Register, Dog!Reap,
             Dog!Sleep, Dog!PGoto, Dog!ChildAssigns, Dog!ChildEnds, Dog!Interrupt
<1>4. LastChildEnds'
      BY <1>1, <1>3, DogParts DEF LastChildEnds
<1>5. ASSUME NEW hit \in dstruck' PROVE HitsAreMeant(hit)'
  <2>1. HitsAreMeant(hit)
        BY <1>1, DogParts
  <2>2. hit[1] = 0 => dppc = "gone"
        BY <1>1 DEF HitInv
  <2>3. QED
        BY <1>1, <1>2, <1>3, <2>1, <2>2 DEF HitsAreMeant, Dog!Strange
<1>6. SigIntEndsBoth'
  <2>1. (LastChildEnds /\ \A hit \in dstruck : HitsAreMeant(hit))'
        BY <1>4, <1>5
  <2>2. QED
        BY <2>1 DEF SigIntEndsBoth, Dog!SigIntEndsBoth, LastChildEnds, HitsAreMeant
<1>7. HitInv'
      BY <1>1 DEF HitInv
<1>8. QED
      BY <1>6, <1>7

\* Every step of the run preserves the invariant.
LEMMA DogStep == DogInv /\ [AllNext]_all => DogInv'
<1> SUFFICES ASSUME DogInv, [AllNext]_all PROVE DogInv'
    OBVIOUS
<1>1. CASE UNCHANGED dVars
      BY <1>1 DEF dVars, DogInv, Dog!TypeOK, ParentInv, HandlerInv, CopyInv, HitInv,
                  SigIntEndsBoth, Dog!SigIntEndsBoth, Dog!Running, Dog!Strange
<1>2. CASE Dog!Next
      BY <1>2, DogTypeStep, DogParentStep, DogInterruptedStep, ChildInterruptedStep,
         DogOtherStep DEF DogInv
<1>3. QED
      BY <1>1, <1>2, Others

\* SIGINT ends the watchdog and its child, whichever of them it is sent to, and
\* nobody else, but for the windows SigIntEndsBoth names, however many children
\* there have been.
THEOREM InterruptEndsBoth == AllSpec => []SigIntEndsBoth
<1>1. AllInit => DogInv
      BY DogInit DEF AllInit
<1>2. DogInv => SigIntEndsBoth
      BY DEF DogInv
<1>3. QED
      BY DogStep, <1>1, <1>2, PTL DEF AllSpec

-----------------------------------------------------------------------------
(* The counter *)

\* The additions that have been made: the one a thread makes when it has k left
\* is <<t, k>>.
Made == {a \in Adder \X (1 .. Rounds) : a[2] > cleft[a[1]]}

\* Where a thread is tells what it has left to do.
LeftInv ==
    \A t \in Adder :
        /\ cpc[t] = "new" => cleft[t] = Rounds
        /\ cpc[t] \in {"load", "store"} => cleft[t] >= 1
        /\ cpc[t] = "done" => cleft[t] = 0

\* Nothing that is or was in the count exceeds the additions made, ...
UpperInv ==
    /\ ccount <= Cardinality(Made)
    /\ \A t \in Adder : cloaded[t] <= Cardinality(Made)

\* ... and nobody who has added once adds to a zero again.
LowerInv ==
    /\ (\E t \in Adder : cleft[t] < Rounds) => ccount >= 1
    /\ \A t \in Adder : cpc[t] = "store" /\ cleft[t] < Rounds => cloaded[t] >= 1
    /\ Rounds > 1 /\ Adder # {} /\ (\A t \in Adder : cpc[t] = "done") => ccount >= 2

\* main shows the last count when every thread is done.
ShowInv ==
    /\ \A t \in cjoined : cpc[t] = "done"
    /\ cmpc = "printed" => cjoined = Adder /\ Adder # {} /\ cshown = ccount

CountInv == Adding!TypeOK /\ LeftInv /\ UpperInv /\ LowerInv /\ ShowInv

LEMMA AddingCardinality == \A S : Adding!Cardinality(S) = Cardinality(S)
BY DEF Adding!Cardinality, Cardinality

\* The additions made are finitely many, each thread's at most Rounds.
LEMMA MadeBound ==
    /\ IsFiniteSet(Made) /\ Cardinality(Made) \in Nat
    /\ Cardinality(Adder) \in Nat
    /\ Cardinality(Made) <= Cardinality(Adder) * Rounds
<1>1. IsFiniteSet(1 .. Rounds) /\ Cardinality(1 .. Rounds) = Rounds
      BY CounterAssumption, FS_Interval
<1>2. /\ IsFiniteSet(Adder \X (1 .. Rounds))
      /\ Cardinality(Adder \X (1 .. Rounds)) = Cardinality(Adder) * Rounds
      BY <1>1, CounterAssumption, FS_Product
<1>3. Made \subseteq Adder \X (1 .. Rounds)
      BY DEF Made
<1>4. IsFiniteSet(Made) /\ Cardinality(Made) <= Cardinality(Adder \X (1 .. Rounds))
      BY <1>2, <1>3, FS_Subset
<1>5. QED
      BY <1>2, <1>4, CounterAssumption, FS_CardinalityType

\* The set of additions, and so its size, follows what is left.
LEMMA MadeFollowsLeft == ASSUME UNCHANGED cleft PROVE Cardinality(Made') = Cardinality(Made)
<1>1. Made' = Made
      BY DEF Made
<1>2. QED
      BY <1>1

LEMMA CountInit == Adding!Init => CountInv
<1> SUFFICES ASSUME Adding!Init PROVE CountInv
    OBVIOUS
<1> USE CounterAssumption DEF Adding!Init
<1>1. Adding!TypeOK
      BY DEF Adding!TypeOK
<1>2. LeftInv /\ LowerInv /\ ShowInv
      BY DEF LeftInv, LowerInv, ShowInv
<1>3. UpperInv
      BY MadeBound DEF UpperInv
<1>4. QED
      BY <1>1, <1>2, <1>3 DEF CountInv

\* Every step but an addition leaves what is left alone.
LEMMA CountQuietStep ==
    ASSUME CountInv,
           \/ Adding!CreateFail \/ Adding!AllCreated \/ Adding!Show
           \/ \E t \in Adder : Adding!Create(t) \/ Adding!Load(t) \/ Adding!Join(t)
    PROVE  CountInv'
<1> USE CounterAssumption DEF CountInv
<1>1. UNCHANGED <<cleft, ccount>> /\ Cardinality(Made') = Cardinality(Made)
      BY MadeFollowsLeft DEF Adding!CreateFail, Adding!AllCreated, Adding!Show,
            Adding!Create, Adding!Load, Adding!Join
<1>2. CASE Adding!CreateFail \/ Adding!AllCreated
  <2>1. /\ cmpc' # "printed" /\ cmpc' \in {"create", "join", "printed", "failed"}
        /\ cshown' \in Nat
        /\ UNCHANGED <<ccount, cleft, cloaded, cpc, cjoined>>
        BY <1>2 DEF Adding!CreateFail, Adding!AllCreated, Adding!TypeOK
  <2>2. QED
        BY <1>1, <2>1 DEF Adding!TypeOK, LeftInv, UpperInv, LowerInv, ShowInv
<1>3. CASE Adding!Show
  <2>1. /\ cmpc' \in {"join", "printed"} /\ cshown' = ccount
        /\ cmpc' = "printed" => cjoined = Adder /\ Adder # {}
        /\ UNCHANGED <<ccount, cleft, cloaded, cpc, cjoined>>
        BY <1>3 DEF Adding!Show
  <2>2. QED
        BY <1>1, <2>1 DEF Adding!TypeOK, LeftInv, UpperInv, LowerInv, ShowInv
<1>4. ASSUME NEW t \in Adder, Adding!Create(t)
      PROVE  CountInv'
  <2>1. /\ cmpc = "create" /\ cpc[t] = "new" /\ cpc' = [cpc EXCEPT ![t] = "load"]
        /\ UNCHANGED <<ccount, cleft, cloaded, cjoined, cmpc, cshown>>
        BY <1>4 DEF Adding!Create
  <2>2. /\ Adding!TypeOK'
        BY <2>1 DEF Adding!TypeOK
  <2>3. \A u \in Adder : cpc'[u] = IF u = t THEN "load" ELSE cpc[u]
        BY <2>1 DEF Adding!TypeOK
  <2>4. LeftInv'
        BY <2>1, <2>3 DEF LeftInv, Adding!TypeOK
  <2>5. UpperInv'
        BY <1>1, <2>1 DEF UpperInv
  <2>6. LowerInv'
        BY <2>1, <2>3 DEF LowerInv
  <2>7. ShowInv'
        BY <2>1, <2>3 DEF ShowInv, Adding!TypeOK
  <2>8. QED
        BY <2>2, <2>4, <2>5, <2>6, <2>7
<1>5. ASSUME NEW t \in Adder, Adding!Load(t)
      PROVE  CountInv'
  <2>1. /\ cpc[t] = "load" /\ cpc' = [cpc EXCEPT ![t] = "store"]
        /\ cloaded' = [cloaded EXCEPT ![t] = ccount]
        /\ UNCHANGED <<ccount, cleft, cjoined, cmpc, cshown>>
        BY <1>5 DEF Adding!Load
  <2>2. /\ Adding!TypeOK'
        BY <2>1 DEF Adding!TypeOK
  <2>3. \A u \in Adder : /\ cpc'[u] = IF u = t THEN "store" ELSE cpc[u]
                         /\ cloaded'[u] = IF u = t THEN ccount ELSE cloaded[u]
        BY <2>1 DEF Adding!TypeOK
  <2>4. LeftInv'
        BY <2>1, <2>3 DEF LeftInv, Adding!TypeOK
  <2>5. UpperInv'
        BY <1>1, <2>1, <2>3 DEF UpperInv
  <2>6. LowerInv'
        BY <2>1, <2>3 DEF LowerInv
  <2>7. ShowInv'
        BY <2>1, <2>3 DEF ShowInv, Adding!TypeOK
  <2>8. QED
        BY <2>2, <2>4, <2>5, <2>6, <2>7
<1>6. ASSUME NEW t \in Adder, Adding!Join(t)
      PROVE  CountInv'
  <2>1. /\ cmpc = "join" /\ cpc[t] = "done" /\ cjoined' = cjoined \cup {t}
        /\ UNCHANGED <<ccount, cleft, cloaded, cpc, cmpc, cshown>>
        BY <1>6 DEF Adding!Join
  <2>2. QED
        BY <1>1, <2>1 DEF Adding!TypeOK, LeftInv, UpperInv, LowerInv, ShowInv
<1>7. QED
      BY <1>2, <1>3, <1>4, <1>5, <1>6

\* An addition: one more is made, and it is one more than what was loaded.
LEMMA CountStoreStep ==
    ASSUME CountInv, NEW t \in Adder, Adding!Store(t)
    PROVE  CountInv'
<1> USE CounterAssumption DEF CountInv
<1>1. /\ cpc[t] = "store" /\ ccount' = cloaded[t] + 1
      /\ cleft' = [cleft EXCEPT ![t] = @ - 1]
      /\ cpc' = [cpc EXCEPT ![t] = IF cleft[t] = 1 THEN "done" ELSE "load"]
      /\ cloaded' = [cloaded EXCEPT ![t] = 0]
      /\ UNCHANGED <<cjoined, cmpc, cshown>>
      BY DEF Adding!Store
<1>2. cleft[t] \in 1 .. Rounds /\ cloaded[t] \in Nat /\ t \notin cjoined
      BY <1>1 DEF LeftInv, ShowInv, Adding!TypeOK
<1>3. \A u \in Adder :
          /\ cpc'[u] = IF u = t THEN IF cleft[t] = 1 THEN "done" ELSE "load" ELSE cpc[u]
          /\ cleft'[u] = IF u = t THEN cleft[t] - 1 ELSE cleft[u]
          /\ cloaded'[u] = IF u = t THEN 0 ELSE cloaded[u]
      BY <1>1 DEF Adding!TypeOK
<1>4. Adding!TypeOK'
  <2>1. cleft[t] - 1 \in 0 .. Rounds
        BY <1>2
  <2>2. cleft' \in [Adder -> 0 .. Rounds]
        BY <1>1, <2>1 DEF Adding!TypeOK
  <2>3. QED
        BY <1>1, <1>2, <2>2 DEF Adding!TypeOK
<1>5. LeftInv'
      BY <1>2, <1>3 DEF LeftInv, Adding!TypeOK
<1>6. Made' = Made \cup {<<t, cleft[t]>>} /\ <<t, cleft[t]>> \notin Made
  <2>1. \A u \in Adder, k \in 1 .. Rounds :
            k > cleft'[u] <=> k > cleft[u] \/ (u = t /\ k = cleft[t])
        BY <1>2, <1>3 DEF Adding!TypeOK
  <2>2. \A a \in Adder \X (1 .. Rounds) :
            a[2] > cleft'[a[1]] <=> a[2] > cleft[a[1]] \/ a = <<t, cleft[t]>>
        BY <2>1
  <2>3. QED
        BY <1>2, <2>2 DEF Made
<1>7. Cardinality(Made') = Cardinality(Made) + 1
      BY <1>6, MadeBound, FS_AddElement
<1>8. UpperInv'
      BY <1>1, <1>2, <1>3, <1>7, MadeBound DEF UpperInv, Adding!TypeOK
<1>9. LowerInv'
  <2>1. ccount' >= 1
        BY <1>1, <1>2
  <2>2. ASSUME NEW u \in Adder, cpc'[u] = "store", cleft'[u] < Rounds
        PROVE  cloaded'[u] >= 1
        BY <2>2, <1>3 DEF LowerInv
  <2>3. ASSUME Rounds > 1, \A u \in Adder : cpc'[u] = "done"
        PROVE  ccount' >= 2
    <3>1. cleft[t] = 1
          BY <2>3, <1>3
    <3>2. QED
          BY <2>3, <3>1, <1>1, <1>2 DEF LowerInv
  <2>4. QED
        BY <2>1, <2>2, <2>3 DEF LowerInv
<1>10. ShowInv'
      BY <1>1, <1>2, <1>3 DEF ShowInv, Adding!TypeOK
<1>11. QED
      BY <1>4, <1>5, <1>8, <1>9, <1>10

\* Every step of the run preserves the invariant.
LEMMA CountStep == CountInv /\ [AllNext]_all => CountInv'
<1> SUFFICES ASSUME CountInv, [AllNext]_all PROVE CountInv'
    OBVIOUS
<1>1. CASE UNCHANGED cVars
  <2>1. /\ UNCHANGED <<ccount, cleft, cloaded, cpc, cjoined, cmpc, cshown>>
        /\ Cardinality(Made') = Cardinality(Made)
        BY <1>1, MadeFollowsLeft DEF cVars
  <2>2. QED
        BY <2>1 DEF CountInv, Adding!TypeOK, LeftInv, UpperInv, LowerInv, ShowInv
<1>2. CASE Adding!Next
      BY <1>2, CountQuietStep, CountStoreStep DEF Adding!Next
<1>3. QED
      BY <1>1, <1>2, Others

\* However many threads add, and however often, what main prints at the end is
\* at most the number of additions and at least two (one, if each adds once).
THEOREM AdditionsAreBounded == AllSpec => []FinalCount
<1>1. AllInit => CountInv
      BY CountInit DEF AllInit
<1>2. CountInv => FinalCount
  <2> SUFFICES ASSUME CountInv, cmpc = "printed"
               PROVE  /\ cshown <= Cardinality(Adder) * Rounds
                      /\ cshown >= IF Rounds = 1 THEN 1 ELSE 2
      BY AddingCardinality DEF FinalCount, Adding!FinalCount
  <2>1. cshown = ccount /\ ccount \in Nat /\ Adder # {}
        BY DEF CountInv, ShowInv, Adding!TypeOK
  <2>2. cshown <= Cardinality(Adder) * Rounds
        BY <2>1, MadeBound, CounterAssumption DEF CountInv, UpperInv
  <2>3. \A t \in Adder : cpc[t] = "done" /\ cleft[t] = 0
        BY DEF CountInv, ShowInv, LeftInv
  <2>4. cshown >= IF Rounds = 1 THEN 1 ELSE 2
        BY <2>1, <2>3, CounterAssumption DEF CountInv, LowerInv
  <2>5. QED
        BY <2>2, <2>4
<1>3. QED
      BY CountStep, <1>1, <1>2, PTL DEF AllSpec

-----------------------------------------------------------------------------
(* The shared memory tools *)

\* The variables have their types; a tool that is at work knows its segment.
ShmTypes ==
    /\ mkey \in Segments \cup {Nobody}
    /\ mat \in [Segments -> {"freed", "live", "removed"}]
    /\ msize \in [Segments -> Nat] /\ mlength \in [Segments -> Nat]
    /\ mtype \in SUBSET Segments /\ mfilled \in [Segments -> SUBSET Nat]
    /\ mstep \in [Tool -> {"off", "map", "copy", "length", "fits", "type", "fill",
                           "print", "printed", "crashed", "end"}]
    /\ mid \in [Tool -> Segments \cup {Nobody}]
    /\ mwant \in [Tool -> Nat] /\ mpos \in [Tool -> Nat]
    /\ mtodo \in [LibWriter -> SUBSET Nat] /\ mcount \in [LibReader -> Int]
    /\ mbad \in SUBSET Tool /\ mdisturbed \in SUBSET Tool
    /\ msolo \in [Segments -> Tool \cup {Nobody}]
    /\ msound \in [Segments -> {Nobody, "lib", "plain"}]

\* What the key leads to has been created, and not removed.
KeyInv == mkey # Nobody => mat[mkey] = "live" /\ msize[mkey] # 0

\* A complete message is all there.
MessageInv(s) ==
    /\ msound[s] \in {"lib", "plain"} => s \in mtype
    /\ msound[s] = "lib" =>
           mlength[s] >= 1 /\ \A i \in 1 .. mlength[s] - 1 : i \in mfilled[s]
    /\ msound[s] = "plain" => \A i \in 1 .. mlength[s] : i \in mfilled[s]

\* Which tools take which steps, and with what in hand.
LabelInv(p) ==
    /\ mstep[p] = "copy" => p \in LibWriter
    /\ mstep[p] \in {"length", "fits"} => p \in PlainWriter \cup PlainReader
    /\ mstep[p] = "fill" => p \in PlainWriter
    /\ mstep[p] \in {"print", "printed"} => p \in LibReader \cup PlainReader
    /\ mstep[p] # "off" => mid[p] \in Segments /\ msize[mid[p]] # 0
    /\ mstep[p] \in {"off", "map", "copy", "length", "fits", "type"} =>
           mpos[p] = 0 /\ p \notin mbad

\* What a writer has dealt with is in the segment, and so is the length it
\* wrote if it has written alone.
WriteInv(p) ==
    /\ mstep[p] = "copy" =>
           /\ \A i \in 1 .. mwant[p] : i \in mtodo[p] \/ i \in mfilled[mid[p]]
           /\ 0 \in mtodo[p] \/ mid[p] \in mtype
           /\ msolo[mid[p]] = p => 0 \in mtodo[p] \/ mlength[mid[p]] = 1 + mwant[p]
    /\ mstep[p] = "fill" =>
           mid[p] \in mtype /\ \A i \in 1 .. mpos[p] : i \in mfilled[mid[p]]

\* The cells a reader prints if nobody disturbs it.
Cells(r) == IF r \in LibReader THEN mcount[r] ELSE mlength[mid[r]]

\* A reader that has not been disturbed is somewhere in its message, or at its
\* end when it has printed.
ReadInv(r) ==
    /\ mstep[r] \in {"print", "printed"} /\ r \notin mdisturbed
    /\ msound[mid[r]] = Shm!Family(r)
    => /\ r \notin mbad
       /\ mpos[r] <= Cells(r) /\ (mstep[r] = "printed" => mpos[r] = Cells(r))
       /\ Cells(r) = mlength[mid[r]] - (IF r \in LibReader THEN 1 ELSE 0)

ToolInv(p) == LabelInv(p) /\ WriteInv(p) /\ ReadInv(p)

ShmInv ==
    /\ ShmTypes /\ KeyInv
    /\ \A s \in Segments : MessageInv(s)
    /\ \A p \in Tool : ToolInv(p)

LEMMA SameTools == Shm!Tool = Tool
BY DEF Shm!Tool, Tool

LEMMA ShmInit == Shm!Init => ShmInv
BY SameTools, ShmAssumption
DEF Shm!Init, ShmInv, ShmTypes, KeyInv, MessageInv, ToolInv, LabelInv, WriteInv, ReadInv

-----------------------------------------------------------------------------
(* Steps that store nothing *)

\* A step in which a tool stores nothing concerns nobody else.
LEMMA PrivateStep ==
    ASSUME ShmInv, ShmTypes', NEW p \in Tool, ToolInv(p)',
           UNCHANGED <<mkey, mat, msize, mtype, mlength, mfilled>>,
           UNCHANGED <<msolo, msound, mdisturbed>>,
           \A q \in Tool \ {p} :
               /\ mstep'[q] = mstep[q] /\ mid'[q] = mid[q] /\ mwant'[q] = mwant[q]
               /\ mpos'[q] = mpos[q] /\ (q \in mbad' <=> q \in mbad),
           \A w \in LibWriter \ {p} : mtodo'[w] = mtodo[w],
           \A r \in LibReader \ {p} : mcount'[r] = mcount[r]
    PROVE  ShmInv'
<1>1. KeyInv' /\ \A s \in Segments : MessageInv(s)'
      BY DEF ShmInv, KeyInv, MessageInv
<1>2. ASSUME NEW q \in Tool \ {p}
      PROVE  ToolInv(q)'
  <2>1. LabelInv(q) /\ WriteInv(q) /\ ReadInv(q)
        BY DEF ShmInv, ToolInv
  <2>2. LabelInv(q)'
        BY <2>1 DEF LabelInv
  <2>3. WriteInv(q)'
        BY <2>1 DEF WriteInv, LabelInv
  <2>4. Cells(q)' = Cells(q)
        BY DEF Cells
  <2>5. ReadInv(q)'
        BY <2>1, <2>4 DEF ReadInv, LabelInv, Shm!Family
  <2>6. QED
        BY <2>2, <2>3, <2>5 DEF ToolInv
<1>3. QED
      BY <1>1, <1>2 DEF ShmInv

\* A tool finds the segment.
LEMMA LookupKeeps ==
    ASSUME ShmInv, NEW p \in Tool, Shm!Lookup(p)
    PROVE  ShmInv'
<1>1. PICK n \in {0} \cup Wants : mwant' = [mwant EXCEPT ![p] = n]
      BY DEF Shm!Lookup
<1>2. /\ mkey # Nobody /\ mstep[p] = "off" /\ mstep' = [mstep EXCEPT ![p] = "map"]
      /\ mid' = [mid EXCEPT ![p] = mkey]
      /\ UNCHANGED <<mkey, mat, msize, mtype, mlength, mfilled, msolo, msound, mdisturbed,
                     mtodo, mpos, mcount, mbad>>
      BY DEF Shm!Lookup, Shm!PGoto, Shm!segVars, Shm!content, Shm!history
<1>3. n \in Nat
      BY ShmAssumption
<1>4. ShmTypes'
      BY <1>1, <1>2, <1>3 DEF ShmInv, ShmTypes
<1>5. /\ mstep'[p] = "map" /\ mid'[p] = mkey
      /\ mkey \in Segments /\ msize[mkey] # 0
      /\ mpos[p] = 0 /\ p \notin mbad
      BY <1>2 DEF ShmInv, ShmTypes, KeyInv, ToolInv, LabelInv
<1>6. ToolInv(p)'
      BY <1>2, <1>5 DEF ToolInv, LabelInv, WriteInv, ReadInv
<1>7. \A q \in Tool \ {p} :
          mstep'[q] = mstep[q] /\ mid'[q] = mid[q] /\ mwant'[q] = mwant[q]
      BY <1>1, <1>2 DEF ShmInv, ShmTypes
<1>8. QED
      BY <1>2, <1>4, <1>6, <1>7, PrivateStep

\* It maps it, ...
LEMMA MapKeeps ==
    ASSUME ShmInv, NEW p \in Tool, Shm!Map(p)
    PROVE  ShmInv'
<1>1. /\ mstep[p] = "map" /\ \E l : mstep' = [mstep EXCEPT ![p] = l]
      /\ mtodo' = [w \in LibWriter |-> IF w = p THEN 0 .. mwant[p] ELSE mtodo[w]]
      /\ UNCHANGED <<mkey, mat, msize, mtype, mlength, mfilled, msolo, msound, mdisturbed,
                     mid, mwant, mpos, mcount, mbad>>
      BY DEF Shm!Map, Shm!PGoto, Shm!segVars, Shm!content, Shm!history
<1>2. /\ mstep'[p] \in {"copy", "end", "type", "length", "fits"}
      /\ mstep'[p] = "copy" => p \in LibWriter
      /\ mstep'[p] \in {"length", "fits"} => p \in PlainWriter \cup PlainReader
  <2>0. mstep \in [Tool -> {"off", "map", "copy", "length", "fits", "type", "fill",
                           "print", "printed", "crashed", "end"}]
        BY DEF ShmInv, ShmTypes
  <2>1. CASE p \in LibWriter
        BY <2>0, <2>1, ShmAssumption DEF Shm!Map, Shm!PGoto
  <2>2. CASE p \in LibReader
        BY <2>0, <2>2, ShmAssumption DEF Shm!Map, Shm!PGoto
  <2>3. CASE p \in PlainWriter
        BY <2>0, <2>3, ShmAssumption DEF Shm!Map, Shm!PGoto
  <2>4. CASE p \in PlainReader
        BY <2>0, <2>4, ShmAssumption DEF Shm!Map, Shm!PGoto
  <2>5. QED
        BY <2>1, <2>2, <2>3, <2>4 DEF Tool
<1>3. mwant[p] \in Nat /\ mtodo' \in [LibWriter -> SUBSET Nat]
      BY <1>1 DEF ShmInv, ShmTypes
<1>4. ShmTypes'
      BY <1>1, <1>2, <1>3 DEF ShmInv, ShmTypes
<1>5. /\ mid[p] \in Segments /\ msize[mid[p]] # 0
      /\ mpos[p] = 0 /\ p \notin mbad
      BY <1>1 DEF ShmInv, ToolInv, LabelInv
<1>6. LabelInv(p)' /\ ReadInv(p)'
      BY <1>1, <1>2, <1>5 DEF LabelInv, ReadInv
<1>7. WriteInv(p)'
  <2>1. mstep'[p] = "copy" => mtodo'[p] = 0 .. mwant[p]
        BY <1>1, <1>2
  <2>2. QED
        BY <1>1, <1>2, <1>3, <2>1 DEF WriteInv
<1>8. \A q \in Tool \ {p} : mstep'[q] = mstep[q]
      BY <1>1 DEF ShmInv, ShmTypes
<1>9. \A w \in LibWriter \ {p} : mtodo'[w] = mtodo[w]
      BY <1>1
<1>10. QED
      BY <1>1, <1>4, <1>6, <1>7, <1>8, <1>9, PrivateStep DEF ToolInv

\* ... or comes too late, or finds no room, or no message.
LEMMA GiveUpKeeps ==
    ASSUME ShmInv, NEW p \in Tool, Shm!MapFail(p) \/ Shm!Fits(p) \/ Shm!Printed(p)
    PROVE  ShmInv'
<1>1. /\ \E l : mstep' = [mstep EXCEPT ![p] = l]
      /\ UNCHANGED <<mkey, mat, msize, mtype, mlength, mfilled, msolo, msound, mdisturbed,
                     mid, mwant, mtodo, mpos, mcount, mbad>>
      BY DEF Shm!MapFail, Shm!Fits, Shm!Printed, Shm!PGoto, Shm!segVars, Shm!content,
             Shm!history, Shm!locals
<1>2. \/ /\ mstep[p] = "map" /\ mat[mid[p]] = "freed"
         /\ mstep'[p] = IF p \in LibReader THEN "crashed" ELSE "end"
      \/ /\ mstep[p] = "fits" /\ mstep'[p] \in {"end", "type"}
      \/ /\ mstep[p] = "print" /\ mstep'[p] = "printed"
         /\ mpos[p] >= Cells(p)
      BY DEF ShmInv, ShmTypes, Shm!MapFail, Shm!Fits, Shm!Printed, Shm!PGoto, Cells
<1>3. ShmTypes'
      BY <1>1, <1>2 DEF ShmInv, ShmTypes
<1>4. LabelInv(p) /\ WriteInv(p) /\ ReadInv(p)
      BY DEF ShmInv, ToolInv
<1>5. LabelInv(p)' /\ WriteInv(p)'
      BY <1>1, <1>2, <1>4 DEF LabelInv, WriteInv
<1>6. ReadInv(p)'
  <2>1. mpos[p] \in Int /\ (mstep[p] = "print" => Cells(p) \in Int)
        BY <1>4 DEF ShmInv, ShmTypes, Cells, LabelInv
  <2>2. Cells(p)' = Cells(p)
        BY <1>1 DEF Cells
  <2>3. QED
        BY <1>1, <1>2, <1>4, <2>1, <2>2 DEF ReadInv
<1>7. \A q \in Tool \ {p} : mstep'[q] = mstep[q]
      BY <1>1 DEF ShmInv, ShmTypes
<1>8. QED
      BY <1>1, <1>3, <1>5, <1>6, <1>7, PrivateStep DEF ToolInv

\* A reader finds a message, and how long it is.
LEMMA CheckTypeKeeps ==
    ASSUME ShmInv, NEW p \in Tool, Shm!CheckType(p)
    PROVE  ShmInv'
<1>1. /\ p \in LibReader \cup PlainReader /\ mstep[p] = "type"
      /\ mstep' = [mstep EXCEPT ![p] = IF mid[p] \in mtype THEN "print" ELSE "end"]
      /\ mcount' = [q \in LibReader |-> IF q = p THEN mlength[mid[p]] - 1 ELSE mcount[q]]
      /\ UNCHANGED <<mkey, mat, msize, mtype, mlength, mfilled, msolo, msound, mdisturbed,
                     mid, mwant, mtodo, mpos, mbad>>
      BY DEF Shm!CheckType, Shm!PGoto, Shm!segVars, Shm!content, Shm!history, Shm!Header
<1>2. /\ mstep'[p] \in {"print", "end"}
      /\ mid[p] \in Segments /\ msize[mid[p]] # 0 /\ mlength[mid[p]] \in Nat
      /\ mpos[p] = 0 /\ p \notin mbad
      BY <1>1 DEF ShmInv, ShmTypes, ToolInv, LabelInv
<1>3. ShmTypes'
  <2>1. mcount' \in [LibReader -> Int]
        BY <1>1, <1>2 DEF ShmInv, ShmTypes
  <2>2. QED
        BY <1>1, <2>1 DEF ShmInv, ShmTypes
<1>4. LabelInv(p)' /\ WriteInv(p)'
      BY <1>1, <1>2 DEF LabelInv, WriteInv
<1>5. ReadInv(p)'
  <2>1. Cells(p)' = mlength[mid[p]] - (IF p \in LibReader THEN 1 ELSE 0)
        BY <1>1, <1>2 DEF Cells
  <2>2. p \in LibReader /\ msound[mid[p]] = Shm!Family(p) => mlength[mid[p]] >= 1
        BY <1>2 DEF ShmInv, MessageInv, Shm!Family
  <2>3. QED
        BY <1>1, <1>2, <2>1, <2>2 DEF ReadInv, Shm!Family
<1>6. \A q \in Tool \ {p} : mstep'[q] = mstep[q]
      BY <1>1 DEF ShmInv, ShmTypes
<1>7. \A r \in LibReader \ {p} : mcount'[r] = mcount[r]
      BY <1>1
<1>8. QED
      BY <1>1, <1>3, <1>4, <1>5, <1>6, <1>7, PrivateStep DEF ToolInv

\* A reader prints a cell, which a complete message has filled.
LEMMA PrintCellKeeps ==
    ASSUME ShmInv, NEW p \in Tool, Shm!PrintCell(p)
    PROVE  ShmInv'
<1>1. /\ mstep[p] = "print" /\ mpos[p] < Cells(p)
      /\ mpos' = [mpos EXCEPT ![p] = @ + 1]
      /\ mbad' = IF mpos[p] + 1 \in mfilled[mid[p]] THEN mbad ELSE mbad \cup {p}
      /\ UNCHANGED <<mkey, mat, msize, mtype, mlength, mfilled, msolo, msound, mdisturbed,
                     mstep, mid, mwant, mtodo, mcount>>
      BY DEF Shm!PrintCell, Shm!segVars, Shm!content, Shm!history, Cells
<1>2. LabelInv(p) /\ WriteInv(p) /\ ReadInv(p)
      BY DEF ShmInv, ToolInv
<1>3. mpos[p] \in Nat /\ mpos'[p] = mpos[p] + 1
      BY <1>1 DEF ShmInv, ShmTypes
<1>4. ShmTypes'
      BY <1>1, <1>3 DEF ShmInv, ShmTypes
<1>5. LabelInv(p)' /\ WriteInv(p)'
      BY <1>1, <1>2 DEF LabelInv, WriteInv
<1>6. ReadInv(p)'
  <2> SUFFICES ASSUME p \notin mdisturbed, msound[mid[p]] = Shm!Family(p)
               PROVE  /\ p \notin mbad' /\ mpos'[p] <= Cells(p)
                      /\ Cells(p) = mlength[mid[p]] - (IF p \in LibReader THEN 1 ELSE 0)
      BY <1>1 DEF ReadInv, Cells
  <2>1. /\ p \notin mbad
        /\ Cells(p) = mlength[mid[p]] - (IF p \in LibReader THEN 1 ELSE 0)
        BY <1>1, <1>2 DEF ReadInv
  <2>2. mid[p] \in Segments /\ mlength[mid[p]] \in Nat
        BY <1>1, <1>2 DEF ShmInv, ShmTypes, LabelInv
  <2>3. mpos[p] + 1 \in 1 .. Cells(p) /\ Cells(p) \in Int
        BY <1>1, <1>3, <2>1, <2>2
  <2>4. mpos[p] + 1 \in mfilled[mid[p]]
        BY <2>1, <2>2, <2>3 DEF ShmInv, MessageInv, Shm!Family
  <2>5. QED
        BY <1>1, <1>3, <2>1, <2>3, <2>4
<1>7. \A q \in Tool \ {p} : mpos'[q] = mpos[q] /\ (q \in mbad' <=> q \in mbad)
      BY <1>1 DEF ShmInv, ShmTypes
<1>8. QED
      BY <1>1, <1>4, <1>5, <1>6, <1>7, PrivateStep DEF ToolInv

-----------------------------------------------------------------------------
(* Steps that store something *)

\* A store disturbs the readers of its segment, and keeps it from being taken
\* for the message of any other writer; what is filled stays filled.
LEMMA StoreStep ==
    ASSUME ShmInv, ShmTypes', NEW p \in Tool, NEW first, NEW last,
           mid[p] \in Segments, Shm!Stores(p, first, last),
           LabelInv(p)', WriteInv(p)', mstep'[p] \notin {"print", "printed"},
           MessageInv(mid[p])',
           UNCHANGED <<mkey, mat, msize, mid, mwant, mcount, mbad>>,
           \A q \in Tool \ {p} : mstep'[q] = mstep[q] /\ mpos'[q] = mpos[q],
           \A w \in LibWriter \ {p} : mtodo'[w] = mtodo[w],
           \A s \in Segments \ {mid[p]} : /\ mlength'[s] = mlength[s]
                                          /\ mfilled'[s] = mfilled[s]
                                          /\ s \in mtype' <=> s \in mtype,
           mfilled[mid[p]] \subseteq mfilled'[mid[p]],
           mid[p] \in mtype => mid[p] \in mtype'
    PROVE  ShmInv'
<1> DEFINE s == mid[p]
<1>1. /\ mdisturbed' =
             mdisturbed \cup {q \in Tool : mid[q] = s /\ mstep[q] \in {"print", "printed"}}
      /\ msolo'[s] \in {p, Nobody}
      /\ \A x \in Segments \ {s} : msolo'[x] = msolo[x] /\ msound'[x] = msound[x]
      BY SameTools DEF Shm!Stores, ShmInv, ShmTypes
<1>2. KeyInv'
      BY DEF ShmInv, KeyInv
<1>3. ASSUME NEW x \in Segments PROVE MessageInv(x)'
  <2>1. CASE x = s
        BY <2>1
  <2>2. CASE x # s
    <3>1. MessageInv(x)
          BY DEF ShmInv
    <3>2. QED
          BY <1>1, <2>2, <3>1 DEF MessageInv
  <2>3. QED
        BY <2>1, <2>2
<1>4. ASSUME NEW q \in Tool \ {p} PROVE ToolInv(q)'
  <2>1. LabelInv(q) /\ WriteInv(q) /\ ReadInv(q)
        BY DEF ShmInv, ToolInv
  <2>2. LabelInv(q)'
        BY <2>1 DEF LabelInv
  <2>3. mstep[q] # "off" => mid[q] \in Segments
        BY <2>1 DEF LabelInv
  <2>4. q # Nobody
        BY ShmAssumption
  <2>5. WriteInv(q)'
    <3>1. ASSUME mstep[q] = "copy"
          PROVE  /\ q \in LibWriter /\ mtodo'[q] = mtodo[q]
                 /\ mid[q] \in Segments /\ mfilled[mid[q]] \subseteq mfilled'[mid[q]]
                 /\ mid[q] \in mtype => mid[q] \in mtype'
                 /\ msolo'[mid[q]] = q =>
                        msolo[mid[q]] = q /\ mlength'[mid[q]] = mlength[mid[q]]
          BY <1>1, <2>1, <2>3, <2>4, <3>1 DEF LabelInv
    <3>2. mstep[q] = "fill" =>
              /\ mid[q] \in Segments /\ mfilled[mid[q]] \subseteq mfilled'[mid[q]]
              /\ mid[q] \in mtype => mid[q] \in mtype'
          BY <2>3
    <3>3. QED
          BY <2>1, <3>1, <3>2 DEF WriteInv
  <2>6. ReadInv(q)'
    <3> SUFFICES ASSUME mstep[q] \in {"print", "printed"}, q \notin mdisturbed'
                 PROVE  ReadInv(q)'
        BY DEF ReadInv
    <3>1. mid[q] \in Segments \ {s} /\ q \notin mdisturbed
          BY <1>1, <2>3
    <3>2. Cells(q)' = Cells(q)
          BY <3>1 DEF Cells
    <3>3. QED
          BY <1>1, <2>1, <3>1, <3>2 DEF ReadInv, Shm!Family
  <2>7. QED
        BY <2>2, <2>5, <2>6 DEF ToolInv
<1>5. ToolInv(p)'
      BY DEF ToolInv, ReadInv
<1>6. QED
      BY <1>2, <1>3, <1>4, <1>5 DEF ShmInv

\* The types of what a store notes down.
LEMMA StoreTypes ==
    ASSUME ShmInv, NEW p \in Tool, mid[p] \in Segments, NEW first, NEW last,
           Shm!Stores(p, first, last)
    PROVE  /\ mdisturbed' \in SUBSET Tool
           /\ msolo' \in [Segments -> Tool \cup {Nobody}]
           /\ msound' \in [Segments -> {Nobody, "lib", "plain"}]
           /\ msound'[mid[p]] # Nobody =>
                  /\ last /\ (first \/ msolo[mid[p]] = p)
                  /\ msound'[mid[p]] = IF p \in LibWriter THEN "lib" ELSE "plain"
<1>1. /\ msolo \in [Segments -> Tool \cup {Nobody}]
      /\ msound \in [Segments -> {Nobody, "lib", "plain"}]
      /\ mdisturbed \in SUBSET Tool
      BY DEF ShmInv, ShmTypes
<1>2. msolo' = [msolo EXCEPT ![mid[p]] = IF first \/ msolo[mid[p]] = p THEN p ELSE Nobody]
      BY DEF Shm!Stores
<1>3. msound' = [msound EXCEPT ![mid[p]] =
                     IF last /\ (first \/ msolo[mid[p]] = p)
                         THEN IF p \in LibWriter THEN "lib" ELSE "plain" ELSE Nobody]
      BY DEF Shm!Stores
<1>4. mdisturbed' \in SUBSET Tool
      BY <1>1, SameTools DEF Shm!Stores
<1>5. QED
      BY <1>1, <1>2, <1>3, <1>4

\* memcpy copies a cell of a message, the last one perhaps.
LEMMA CopyKeeps ==
    ASSUME ShmInv, NEW p \in LibWriter, NEW k \in mtodo[p], Shm!Copy(p, k)
    PROVE  ShmInv'
<1> DEFINE full == mtodo[p] = 0 .. mwant[p]
<1>1. /\ mstep[p] = "copy"
      /\ mstep' = [mstep EXCEPT ![p] = IF mtodo[p] = {k} THEN "end" ELSE "copy"]
      /\ mtodo' = [mtodo EXCEPT ![p] = @ \ {k}]
      /\ Shm!Stores(p, full, mtodo[p] = {k})
      /\ UNCHANGED <<mkey, mat, msize, mid, mwant, mpos, mcount, mbad>>
      BY DEF Shm!Copy, Shm!PGoto, Shm!segVars
<1>0. PICK s \in Segments : s = mid[p]
  <2>1. p \in Tool
        BY DEF Tool
  <2>2. QED
        BY <1>1, <2>1 DEF ShmInv, ToolInv, LabelInv
<1>2. /\ k = 0 => /\ mtype' = mtype \cup {s} /\ mfilled' = mfilled
                  /\ mlength' = [mlength EXCEPT ![s] = 1 + mwant[p]]
      /\ k # 0 => /\ mtype' = mtype /\ mlength' = mlength
                  /\ mfilled' = [mfilled EXCEPT ![s] = @ \cup {k}]
      BY <1>0 DEF Shm!Copy, Shm!MessageLength, Shm!Header
<1>3. /\ p \in Tool /\ LabelInv(p) /\ WriteInv(p)
      /\ mwant[p] \in Nat /\ mtodo[p] \in SUBSET Nat /\ k \in Nat
      BY <1>1 DEF ShmInv, ShmTypes, ToolInv, LabelInv, Tool
<1>4. /\ mdisturbed' \in SUBSET Tool
      /\ msolo' \in [Segments -> Tool \cup {Nobody}]
      /\ msound' \in [Segments -> {Nobody, "lib", "plain"}]
      /\ msound'[s] # Nobody =>
             mtodo[p] = {k} /\ (full \/ msolo[s] = p) /\ msound'[s] = "lib"
      BY <1>0, <1>1, <1>3, StoreTypes
<1> HIDE DEF full
<1>5. /\ \A x \in Segments :
             mlength'[x] = IF x = s /\ k = 0 THEN 1 + mwant[p] ELSE mlength[x]
      /\ \A x \in Segments : mfilled'[x] =
             IF x = s /\ k # 0 THEN mfilled[x] \cup {k} ELSE mfilled[x]
      /\ mtype' = IF k = 0 THEN mtype \cup {s} ELSE mtype
      BY <1>2, <1>3 DEF ShmInv, ShmTypes
<1>6. /\ mtodo'[p] = mtodo[p] \ {k}
      /\ mstep'[p] = IF mtodo[p] = {k} THEN "end" ELSE "copy"
      /\ \A q \in Tool \ {p} : mstep'[q] = mstep[q]
      /\ \A w \in LibWriter \ {p} : mtodo'[w] = mtodo[w]
      BY <1>1, <1>3 DEF ShmInv, ShmTypes
<1>7. ShmTypes'
  <2>1. /\ mlength' \in [Segments -> Nat] /\ mfilled' \in [Segments -> SUBSET Nat]
        /\ mtype' \in SUBSET Segments
        BY <1>2, <1>3 DEF ShmInv, ShmTypes
  <2>2. mtodo' \in [LibWriter -> SUBSET Nat]
        BY <1>1, <1>3 DEF ShmInv, ShmTypes
  <2>3. QED
        BY <1>1, <1>4, <2>1, <2>2 DEF ShmInv, ShmTypes
\* What has been written, with the cell that has just been copied.
<1>8. /\ \A i \in 1 .. mwant[p] : i \in mtodo'[p] \/ i \in mfilled'[s]
      /\ 0 \in mtodo'[p] \/ s \in mtype'
  <2>1. /\ \A i \in 1 .. mwant[p] : i \in mtodo[p] \/ i \in mfilled[s]
        /\ 0 \in mtodo[p] \/ s \in mtype
        BY <1>0, <1>1, <1>3 DEF WriteInv
  <2>2. ASSUME NEW i \in 1 .. mwant[p]
        PROVE  i \in mtodo'[p] \/ i \in mfilled'[s]
    <3>1. i # 0
          BY <1>3
    <3>2. CASE i = k
          BY <1>5, <3>1, <3>2
    <3>3. CASE i # k
          BY <1>5, <1>6, <2>1, <3>3
    <3>4. QED
          BY <3>2, <3>3
  <2>3. 0 \in mtodo'[p] \/ s \in mtype'
        BY <1>5, <1>6, <2>1
  <2>4. QED
        BY <2>2, <2>3
<1>9. full \/ msolo[s] = p => 0 \in mtodo'[p] \/ mlength'[s] = 1 + mwant[p]
  <2>1. CASE k = 0
        BY <1>3, <1>5, <2>1
  <2>2. CASE k # 0
    <3>1. full \/ msolo[s] = p => 0 \in mtodo[p] \/ mlength[s] = 1 + mwant[p]
          BY <1>0, <1>1, <1>3 DEF WriteInv, full
    <3>2. QED
          BY <1>3, <1>5, <1>6, <2>2, <3>1
  <2>3. QED
        BY <2>1, <2>2
<1>10. LabelInv(p)'
      BY <1>1, <1>3, <1>6 DEF LabelInv
<1>11. WriteInv(p)'
  <2>1. msolo'[s] = p => full \/ msolo[s] = p
    <3>1. p # Nobody
          BY <1>3, ShmAssumption
    <3>2. msolo'[s] = IF full \/ msolo[s] = p THEN p ELSE Nobody
          BY <1>0, <1>1, <1>3 DEF Shm!Stores, ShmInv, ShmTypes
    <3>3. QED
          BY <3>1, <3>2
  <2>2. mid'[p] = s /\ mwant'[p] = mwant[p] /\ mstep'[p] # "fill"
        BY <1>0, <1>1, <1>6
  <2>3. QED
        BY <1>8, <1>9, <2>1, <2>2 DEF WriteInv
<1>12. MessageInv(s)'
  <2> SUFFICES ASSUME msound'[s] # Nobody
               PROVE  /\ s \in mtype' /\ mlength'[s] = 1 + mwant[p]
                      /\ \A i \in 1 .. mwant[p] : i \in mfilled'[s]
    <3>1. mlength'[s] = 1 + mwant[p] =>
              mlength'[s] >= 1 /\ 1 .. mlength'[s] - 1 = 1 .. mwant[p]
          BY <1>3
    <3>2. Nobody \notin {"lib", "plain"}
          BY ShmAssumption
    <3>3. QED
          BY <1>4, <3>1, <3>2 DEF MessageInv
  <2>1. mtodo'[p] = {} /\ (full \/ msolo[s] = p)
        BY <1>4, <1>6
  <2>2. QED
        BY <1>8, <1>9, <2>1
<1>13. /\ mid[p] \in Segments /\ MessageInv(mid[p])'
       /\ mstep'[p] \notin {"print", "printed"}
       /\ \A x \in Segments \ {mid[p]} :
              /\ mlength'[x] = mlength[x] /\ mfilled'[x] = mfilled[x]
              /\ x \in mtype' <=> x \in mtype
       /\ mfilled[mid[p]] \subseteq mfilled'[mid[p]]
       /\ mid[p] \in mtype => mid[p] \in mtype'
  <2>1. MessageInv(mid[p])'
        BY <1>0, <1>1, <1>12 DEF MessageInv
  <2>2. mstep'[p] \notin {"print", "printed"}
        BY <1>6
  <2>3. \A x \in Segments \ {s} :
            /\ mlength'[x] = mlength[x] /\ mfilled'[x] = mfilled[x]
            /\ x \in mtype' <=> x \in mtype
        BY <1>5
  <2>4. mfilled[s] \subseteq mfilled'[s] /\ (s \in mtype => s \in mtype')
        BY <1>5
  <2>5. QED
        BY <1>0, <2>1, <2>2, <2>3, <2>4
<1>14. \A q \in Tool \ {p} : mstep'[q] = mstep[q] /\ mpos'[q] = mpos[q]
      BY <1>1, <1>6
<1>15. QED
      BY <1>1, <1>3, <1>6, <1>7, <1>10, <1>11, <1>13, <1>14, StoreStep

\* The tools without the library begin a message with its length ...
LEMMA StoreLengthKeeps ==
    ASSUME ShmInv, NEW p \in Tool, Shm!StoreLength(p)
    PROVE  ShmInv'
<1>0. PICK s \in Segments : s = mid[p]
      BY DEF ShmInv, ToolInv, LabelInv, Shm!StoreLength, Shm!PGoto
<1> DEFINE n == IF mwant[p] = 0 THEN msize[s] - 1 ELSE mwant[p]
<1>1. /\ mstep[p] = "length" /\ mstep' = [mstep EXCEPT ![p] = "fits"]
      /\ mlength' = [mlength EXCEPT ![s] = n]
      /\ Shm!Stores(p, TRUE, FALSE)
      /\ UNCHANGED <<mkey, mat, msize, mtype, mfilled, mid, mwant, mtodo, mpos, mcount,
                     mbad>>
      BY <1>0 DEF Shm!StoreLength, Shm!PGoto, Shm!segVars, Shm!locals, Shm!Room, Shm!Header
<1>2. LabelInv(p) /\ msize[s] \in Nat /\ msize[s] # 0 /\ mwant[p] \in Nat
      BY <1>0, <1>1 DEF ShmInv, ShmTypes, ToolInv, LabelInv
<1>3. n \in Nat
      BY <1>2
<1> HIDE DEF n
<1>4. /\ mdisturbed' \in SUBSET Tool
      /\ msolo' \in [Segments -> Tool \cup {Nobody}]
      /\ msound' \in [Segments -> {Nobody, "lib", "plain"}]
      /\ msound'[s] = Nobody
      BY <1>0, <1>1, StoreTypes
<1>5. ShmTypes'
      BY <1>1, <1>2, <1>3, <1>4 DEF ShmInv, ShmTypes
<1>6. /\ mstep'[p] = "fits" /\ \A q \in Tool \ {p} : mstep'[q] = mstep[q]
      /\ \A x \in Segments \ {s} : mlength'[x] = mlength[x]
      BY <1>1 DEF ShmInv, ShmTypes
<1>7. LabelInv(p)' /\ WriteInv(p)'
      BY <1>1, <1>2, <1>6 DEF LabelInv, WriteInv
<1>8. MessageInv(s)'
      BY <1>4, ShmAssumption DEF MessageInv
<1>9. MessageInv(mid[p])'
      BY <1>0, <1>1, <1>8 DEF MessageInv
<1>10. QED
      BY <1>0, <1>1, <1>5, <1>6, <1>7, <1>9, StoreStep

\* ... go on with its type ...
LEMMA StoreTypeKeeps ==
    ASSUME ShmInv, NEW p \in Tool, Shm!StoreType(p)
    PROVE  ShmInv'
<1>0. PICK s \in Segments : s = mid[p]
      BY DEF ShmInv, ToolInv, LabelInv, Shm!StoreType, Shm!PGoto
<1>1. /\ p \in PlainWriter /\ mstep[p] = "type" /\ mstep' = [mstep EXCEPT ![p] = "fill"]
      /\ mtype' = mtype \cup {s}
      /\ Shm!Stores(p, FALSE, mlength[s] = 0)
      /\ UNCHANGED <<mkey, mat, msize, mlength, mfilled, mid, mwant, mtodo, mpos, mcount,
                     mbad>>
      BY <1>0 DEF Shm!StoreType, Shm!PGoto, Shm!segVars, Shm!locals
<1>2. LabelInv(p) /\ mpos[p] = 0
      BY <1>1 DEF ShmInv, ToolInv, LabelInv
<1>3. /\ mdisturbed' \in SUBSET Tool
      /\ msolo' \in [Segments -> Tool \cup {Nobody}]
      /\ msound' \in [Segments -> {Nobody, "lib", "plain"}]
      /\ msound'[s] # Nobody => mlength[s] = 0 /\ msound'[s] = "plain"
  <2>1. p \notin LibWriter
        BY <1>1, ShmAssumption
  <2>2. QED
        BY <1>0, <1>1, <2>1, StoreTypes
<1>4. ShmTypes'
      BY <1>1, <1>2, <1>3 DEF ShmInv, ShmTypes
<1>5. mstep'[p] = "fill" /\ \A q \in Tool \ {p} : mstep'[q] = mstep[q]
      BY <1>1 DEF ShmInv, ShmTypes
<1>6. LabelInv(p)'
      BY <1>1, <1>2, <1>5 DEF LabelInv
<1>7. WriteInv(p)'
      BY <1>0, <1>1, <1>2, <1>5 DEF WriteInv
<1>8. MessageInv(s)'
      BY <1>1, <1>3, ShmAssumption DEF MessageInv
<1>9. MessageInv(mid[p])'
      BY <1>0, <1>1, <1>8 DEF MessageInv
<1>10. QED
      BY <1>0, <1>1, <1>4, <1>5, <1>6, <1>7, <1>9, StoreStep

\* ... and fill it cell by cell.
LEMMA FillKeeps ==
    ASSUME ShmInv, NEW p \in Tool, Shm!Fill(p)
    PROVE  ShmInv'
<1>0. PICK s \in Segments : s = mid[p]
      BY DEF ShmInv, ToolInv, LabelInv, Shm!Fill, Shm!PGoto
<1>n. PICK n \in Nat : n = mpos[p] + 1
  <2>1. mpos[p] \in Nat
        BY DEF ShmInv, ShmTypes
  <2>2. QED
        BY <2>1
<1>1. /\ mstep[p] = "fill"
      /\ mstep' = [mstep EXCEPT ![p] = IF n >= mlength[s] THEN "end" ELSE "fill"]
      /\ mpos' = [mpos EXCEPT ![p] = n]
      /\ UNCHANGED <<mkey, mat, msize, mtype, mlength, mid, mwant, mtodo, mcount, mbad>>
      BY <1>0, <1>n DEF Shm!Fill, Shm!PGoto, Shm!segVars
<1>2. /\ LabelInv(p) /\ WriteInv(p) /\ p \in PlainWriter
      /\ mpos[p] \in Nat /\ mlength[s] \in Nat
      BY <1>0, <1>1 DEF ShmInv, ShmTypes, ToolInv, LabelInv
<1>3. /\ n >= 1 /\ \A i \in 1 .. n : i = n \/ i \in 1 .. mpos[p]
      /\ mpos[p] < mlength[s] <=> n <= mlength[s]
      BY <1>2, <1>n
<1>4. \/ /\ n <= mlength[s]
         /\ mfilled' = [mfilled EXCEPT ![s] = @ \cup {n}]
         /\ Shm!Stores(p, FALSE, n >= mlength[s])
      \/ n > mlength[s] /\ UNCHANGED <<mfilled, msolo, msound, mdisturbed>>
  <2>1. CASE mpos[p] < mlength[s]
        BY <1>0, <1>n, <1>3, <2>1 DEF Shm!Fill
  <2>2. CASE ~(mpos[p] < mlength[s])
    <3>1. n > mlength[s]
          BY <1>2, <1>3, <2>2
    <3>2. UNCHANGED <<mfilled, msolo, msound, mdisturbed>>
          BY <1>0, <2>2 DEF Shm!Fill, Shm!history
    <3>3. QED
          BY <3>1, <3>2
  <2>3. QED
        BY <2>1, <2>2
<1>5. /\ mstep'[p] = IF n >= mlength[s] THEN "end" ELSE "fill"
      /\ mpos'[p] = n
      /\ \A q \in Tool \ {p} : mstep'[q] = mstep[q] /\ mpos'[q] = mpos[q]
      BY <1>1 DEF ShmInv, ShmTypes
<1>6. LabelInv(p)'
      BY <1>1, <1>2, <1>5 DEF LabelInv
<1>7. CASE /\ n <= mlength[s]
           /\ mfilled' = [mfilled EXCEPT ![s] = @ \cup {n}]
           /\ Shm!Stores(p, FALSE, n >= mlength[s])
  <2>1. /\ mdisturbed' \in SUBSET Tool
        /\ msolo' \in [Segments -> Tool \cup {Nobody}]
        /\ msound' \in [Segments -> {Nobody, "lib", "plain"}]
        /\ msound'[s] # Nobody => n >= mlength[s] /\ msound'[s] = "plain"
    <3>1. p \notin LibWriter
          BY <1>2, ShmAssumption
    <3>2. QED
          BY <1>0, <1>2, <1>7, <3>1, StoreTypes
  <2>2. /\ mfilled'[s] = mfilled[s] \cup {n}
        /\ \A x \in Segments \ {s} : mfilled'[x] = mfilled[x]
        BY <1>2, <1>7 DEF ShmInv, ShmTypes
  <2>3. ShmTypes'
    <3>1. mfilled' \in [Segments -> SUBSET Nat]
          BY <1>2, <1>3, <1>7 DEF ShmInv, ShmTypes
    <3>2. mpos' \in [Tool -> Nat]
          BY <1>1, <1>3 DEF ShmInv, ShmTypes
    <3>3. QED
          BY <1>1, <2>1, <3>1, <3>2 DEF ShmInv, ShmTypes
  <2>4. s \in mtype /\ \A i \in 1 .. n : i \in mfilled'[s]
        BY <1>0, <1>1, <1>2, <1>3, <2>2 DEF WriteInv
  <2>5. WriteInv(p)'
        BY <1>0, <1>1, <1>5, <2>4 DEF WriteInv
  <2>6. MessageInv(s)'
    <3>1. msound'[s] # Nobody => mlength[s] = n
          BY <1>2, <1>3, <1>7, <2>1
    <3>2. QED
          BY <1>1, <2>1, <2>4, <3>1, ShmAssumption DEF MessageInv
  <2>7. MessageInv(mid[p])'
        BY <1>0, <1>1, <2>6 DEF MessageInv
  <2>8. mstep'[p] \notin {"print", "printed"}
        BY <1>5
  <2>9. /\ mfilled[mid[p]] \subseteq mfilled'[mid[p]] /\ mid[p] \in Segments
        /\ \A x \in Segments \ {mid[p]} : mfilled'[x] = mfilled[x]
        BY <1>0, <2>2
  <2>10. QED
        BY <1>1, <1>5, <1>6, <1>7, <2>3, <2>5, <2>7, <2>8, <2>9, StoreStep
<1>8. CASE n > mlength[s] /\ UNCHANGED <<mfilled, msolo, msound, mdisturbed>>
  <2>1. mpos' \in [Tool -> Nat]
        BY <1>1, <1>3 DEF ShmInv, ShmTypes
  <2>2. ShmTypes'
        BY <1>1, <1>8, <2>1 DEF ShmInv, ShmTypes
  <2>3. mstep'[p] = "end"
        BY <1>2, <1>3, <1>5, <1>8
  <2>4. WriteInv(p)' /\ ReadInv(p)'
        BY <2>3 DEF WriteInv, ReadInv
  <2>5. QED
        BY <1>1, <1>5, <1>6, <1>8, <2>2, <2>4, PrivateStep DEF ToolInv
<1>9. QED
      BY <1>4, <1>7, <1>8

-----------------------------------------------------------------------------
(* Segments and tools that come and go *)

\* Nobody is at work on a segment that is created.
LEMMA CreateSegmentKeeps ==
    ASSUME ShmInv, NEW s \in Segments, Shm!Create(s)
    PROVE  ShmInv'
<1>1. PICK n \in Sizes : msize' = [msize EXCEPT ![s] = n]
      BY DEF Shm!Create
<1>2. /\ \A p \in Tool : mid[p] # s
      /\ mkey' = s /\ mat' = [mat EXCEPT ![s] = "live"]
      /\ mtype' = mtype \ {s} /\ mlength' = [mlength EXCEPT ![s] = 0]
      /\ mfilled' = [mfilled EXCEPT ![s] = {}]
      /\ msolo' = [msolo EXCEPT ![s] = Nobody] /\ msound' = [msound EXCEPT ![s] = Nobody]
      /\ UNCHANGED <<mstep, mid, mwant, mtodo, mpos, mcount, mbad, mdisturbed>>
      BY SameTools DEF Shm!Create, Shm!locals
<1>3. n \in Nat /\ n # 0
      BY ShmAssumption
<1>4. ShmTypes'
      BY <1>1, <1>2, <1>3 DEF ShmInv, ShmTypes
<1>5. /\ mat'[s] = "live" /\ msize'[s] = n /\ msound'[s] = Nobody
      /\ \A x \in Segments \ {s} :
             /\ mat'[x] = mat[x] /\ msize'[x] = msize[x] /\ mlength'[x] = mlength[x]
             /\ mfilled'[x] = mfilled[x] /\ msolo'[x] = msolo[x] /\ msound'[x] = msound[x]
             /\ x \in mtype' <=> x \in mtype
      BY <1>1, <1>2 DEF ShmInv, ShmTypes
<1>6. KeyInv'
      BY <1>2, <1>3, <1>5 DEF KeyInv
<1>7. ASSUME NEW x \in Segments PROVE MessageInv(x)'
  <2>1. CASE x = s
        BY <1>5, <2>1, ShmAssumption DEF MessageInv
  <2>2. CASE x # s
    <3>1. MessageInv(x)
          BY DEF ShmInv
    <3>2. QED
          BY <1>5, <2>2, <3>1 DEF MessageInv
  <2>3. QED
        BY <2>1, <2>2
<1>8. ASSUME NEW q \in Tool PROVE ToolInv(q)'
  <2>1. LabelInv(q) /\ WriteInv(q) /\ ReadInv(q)
        BY DEF ShmInv, ToolInv
  <2>2. mstep[q] # "off" => mid[q] \in Segments \ {s}
        BY <1>2, <2>1 DEF LabelInv
  <2>3. LabelInv(q)'
        BY <1>2, <1>5, <2>1, <2>2 DEF LabelInv
  <2>4. WriteInv(q)'
        BY <1>2, <1>5, <2>1, <2>2 DEF WriteInv
  <2>5. mstep[q] # "off" => Cells(q)' = Cells(q)
        BY <1>2, <1>5, <2>2 DEF Cells
  <2>6. ReadInv(q)'
        BY <1>2, <1>5, <2>1, <2>2, <2>5 DEF ReadInv, Shm!Family
  <2>7. QED
        BY <2>3, <2>4, <2>6 DEF ToolInv
<1>9. QED
      BY <1>4, <1>6, <1>7, <1>8 DEF ShmInv

\* A segment that is removed has been there: whoever found none found none
\* before.
LEMMA RemoveKeeps ==
    ASSUME ShmInv, Shm!Remove
    PROVE  ShmInv'
<1>1. /\ mkey # Nobody /\ mkey' = Nobody
      /\ \E x \in {"freed", "removed"} : mat' = [mat EXCEPT ![mkey] = x]
      /\ UNCHANGED <<msize, mtype, mlength, mfilled, mstep, mid, mwant, mtodo, mpos, mcount,
                     mbad, msolo, msound, mdisturbed>>
      BY DEF Shm!Remove, Shm!content, Shm!locals, Shm!history
<1>2. mkey \in Segments /\ mat[mkey] = "live"
      BY <1>1 DEF ShmInv, ShmTypes, KeyInv
<1>3. ShmTypes'
      BY <1>1 DEF ShmInv, ShmTypes
<1>4. KeyInv' /\ \A x \in Segments : MessageInv(x)'
      BY <1>1 DEF ShmInv, KeyInv, MessageInv
<1>5. ASSUME NEW q \in Tool PROVE ToolInv(q)'
  <2>1. LabelInv(q) /\ WriteInv(q) /\ ReadInv(q)
        BY DEF ShmInv, ToolInv
  <2>2. LabelInv(q)'
        BY <1>1, <2>1 DEF LabelInv
  <2>3. WriteInv(q)'
        BY <1>1, <2>1 DEF WriteInv
  <2>4. Cells(q)' = Cells(q)
        BY <1>1 DEF Cells
  <2>5. ReadInv(q)'
        BY <1>1, <2>1, <2>4 DEF ReadInv, Shm!Family
  <2>6. QED
        BY <2>2, <2>3, <2>5 DEF ToolInv
<1>6. QED
      BY <1>3, <1>4, <1>5 DEF ShmInv

\* A tool that ends leaves what it has stored.
LEMMA ExitKeeps ==
    ASSUME ShmInv, NEW p \in Tool, Shm!Exit(p)
    PROVE  ShmInv'
<1>1. /\ mstep[p] # "off" /\ mstep' = [mstep EXCEPT ![p] = "off"]
      /\ mat' \in [Segments -> {"freed", "live", "removed"}]
      /\ \A x \in Segments :
             /\ mat[x] = "live" => mat'[x] = "live"
             /\ mat[x] = "freed" => mat'[x] = "freed"
      /\ mid' = [mid EXCEPT ![p] = Nobody] /\ mwant' = [mwant EXCEPT ![p] = 0]
      /\ mpos' = [mpos EXCEPT ![p] = 0]
      /\ mtodo' = [w \in LibWriter |-> IF w = p THEN {} ELSE mtodo[w]]
      /\ mcount' = [r \in LibReader |-> IF r = p THEN 0 ELSE mcount[r]]
      /\ mbad' = mbad \ {p} /\ mdisturbed' = mdisturbed \ {p}
      /\ UNCHANGED <<mkey, msize, mtype, mlength, mfilled, msolo, msound>>
  <2>1. mat \in [Segments -> {"freed", "live", "removed"}]
        BY DEF ShmInv, ShmTypes
  <2>2. QED
        BY <2>1 DEF Shm!Exit, Shm!content
<1>2. ShmTypes'
  <2>1. /\ mtodo' \in [LibWriter -> SUBSET Nat] /\ mcount' \in [LibReader -> Int]
        BY <1>1 DEF ShmInv, ShmTypes
  <2>2. QED
        BY <1>1, <2>1 DEF ShmInv, ShmTypes
<1>3. KeyInv'
      BY <1>1 DEF ShmInv, ShmTypes, KeyInv
<1>4. \A x \in Segments : MessageInv(x)'
      BY <1>1 DEF ShmInv, MessageInv
<1>5. ASSUME NEW q \in Tool PROVE ToolInv(q)'
  <2>1. LabelInv(q) /\ WriteInv(q) /\ ReadInv(q)
        BY DEF ShmInv, ToolInv
  <2>2. CASE q = p
    <3>1. mstep'[p] = "off" /\ mpos'[p] = 0 /\ p \notin mbad'
          BY <1>1 DEF ShmInv, ShmTypes
    <3>2. QED
          BY <2>2, <3>1 DEF ToolInv, LabelInv, WriteInv, ReadInv
  <2>3. CASE q # p
    <3>1. /\ mstep'[q] = mstep[q] /\ mid'[q] = mid[q] /\ mwant'[q] = mwant[q]
          /\ mpos'[q] = mpos[q] /\ (q \in mbad' <=> q \in mbad)
          /\ (q \in mdisturbed' <=> q \in mdisturbed)
          /\ q \in LibWriter => mtodo'[q] = mtodo[q]
          /\ q \in LibReader => mcount'[q] = mcount[q]
          BY <1>1, <2>3 DEF ShmInv, ShmTypes
    <3>2. LabelInv(q)'
          BY <1>1, <2>1, <3>1 DEF LabelInv
    <3>3. WriteInv(q)'
          BY <1>1, <2>1, <3>1 DEF WriteInv, LabelInv
    <3>4. Cells(q)' = Cells(q)
          BY <1>1, <3>1 DEF Cells
    <3>5. ReadInv(q)'
          BY <1>1, <2>1, <3>1, <3>4 DEF ReadInv, Shm!Family
    <3>6. QED
          BY <3>2, <3>3, <3>5 DEF ToolInv
  <2>4. QED
        BY <2>2, <2>3
<1>6. QED
      BY <1>2, <1>3, <1>4, <1>5 DEF ShmInv

-----------------------------------------------------------------------------
(* What follows for the tools *)

\* Every step of the run preserves the invariant.
LEMMA ShmStep == ShmInv /\ [AllNext]_all => ShmInv'
<1> SUFFICES ASSUME ShmInv, [AllNext]_all PROVE ShmInv'
    OBVIOUS
<1>1. CASE UNCHANGED mVars
      BY <1>1
      DEF mVars, ShmInv, ShmTypes, KeyInv, MessageInv, ToolInv, LabelInv, WriteInv, ReadInv,
          Cells
<1>2. CASE Shm!Next
  <2>1. CASE Shm!Remove \/ \E s \in Segments : Shm!Create(s)
        BY <2>1, RemoveKeeps, CreateSegmentKeeps
  <2>2. ASSUME NEW p \in Tool,
               \/ Shm!Exit(p) \/ Shm!Lookup(p) \/ Shm!Map(p) \/ Shm!MapFail(p)
               \/ Shm!StoreLength(p) \/ Shm!Fits(p) \/ Shm!StoreType(p) \/ Shm!Fill(p)
               \/ Shm!CheckType(p) \/ Shm!PrintCell(p) \/ Shm!Printed(p)
        PROVE  ShmInv'
        BY <2>2, ExitKeeps, LookupKeeps, MapKeeps, GiveUpKeeps, StoreLengthKeeps,
           StoreTypeKeeps, FillKeeps, CheckTypeKeeps, PrintCellKeeps
  <2>3. CASE \E w \in LibWriter : \E k \in mtodo[w] : Shm!Copy(w, k)
        BY <2>3, CopyKeeps
  <2>4. QED
        BY <1>2, <2>1, <2>2, <2>3, SameTools DEF Shm!Next
<1>3. QED
      BY <1>1, <1>2, Others

\* The invariant holds of the run, in whatever order the tools use the segments.
LEMMA ShmInvariant == AllSpec => []ShmInv
<1>1. AllInit => ShmInv
      BY ShmInit DEF AllInit
<1>2. QED
      BY ShmStep, <1>1, PTL DEF AllSpec

\* A reader during whose reading nobody stores anything prints the message of
\* its family, whole, if that is complete when it has printed: any number of
\* writers and readers of both families, killed or not, cannot make a remainder
\* look like one.
THEOREM UndisturbedReads == AllSpec => []UndisturbedReadIsWhole
<1>1. ShmInv => UndisturbedReadIsWhole
  <2> SUFFICES ASSUME ShmInv, NEW r \in LibReader \cup PlainReader, mstep[r] = "printed",
                      r \notin mdisturbed, msound[mid[r]] = Shm!Family(r)
               PROVE  r \notin mbad /\ mpos[r] =
                          mlength[mid[r]] - (IF r \in LibReader THEN Shm!Header ELSE 0)
      BY DEF UndisturbedReadIsWhole, Shm!UndisturbedReadIsWhole
  <2>1. ReadInv(r)
        BY DEF ShmInv, ToolInv, Tool
  <2>2. QED
        BY <2>1 DEF ReadInv, Shm!Header
<1>2. QED
      BY ShmInvariant, <1>1, PTL

-----------------------------------------------------------------------------
(* The lengths in the segments *)

\* No length in a segment exceeds its size, ...
SegmentFits(s) == mlength[s] <= msize[s]

\* ... because no tool comes with one that does, or stores it; and the library's
\* reader takes the header off.
ToolFits(p) ==
    /\ mstep[p] # "off" /\ p \in PlainWriter \cup PlainReader => mwant[p] <= msize[mid[p]]
    /\ mstep[p] = "copy" => 1 + mwant[p] <= msize[mid[p]]
    /\ p \in LibReader =>
           /\ mpos[p] > 0 => mstep[p] \in {"print", "printed"} /\ mpos[p] <= mcount[p]
           /\ mstep[p] \in {"print", "printed"} => mcount[p] <= msize[mid[p]] - 1

FitInv ==
    /\ \A s \in Segments : SegmentFits(s)
    /\ \A p \in Tool : ToolFits(p)

LEMMA FitInit == Shm!Init => FitInv
BY SameTools DEF Shm!Init, FitInv, SegmentFits, ToolFits, Tool

\* What one tool does to itself, and to the length in its segment.
LEMMA OneToolFits ==
    ASSUME FitInv, NEW p \in Tool, ToolFits(p)', UNCHANGED msize,
           \A s \in Segments : SegmentFits(s)',
           \A q \in Tool \ {p} : /\ mstep'[q] = mstep[q] /\ mid'[q] = mid[q]
                                 /\ mwant'[q] = mwant[q] /\ mpos'[q] = mpos[q],
           \A r \in LibReader \ {p} : mcount'[r] = mcount[r]
    PROVE  FitInv'
<1>1. ASSUME NEW q \in Tool \ {p} PROVE ToolFits(q)'
  <2>1. ToolFits(q)
        BY DEF FitInv
  <2>2. QED
        BY <2>1 DEF ToolFits
<1>2. QED
      BY <1>1 DEF FitInv

\* A tool that does not know what to do with the segment yet, or any more.
LEMMA ComingFits ==
    ASSUME ShmInv, FitInv, NEW p \in Tool,
           \/ Shm!Lookup(p) \/ Shm!Map(p) \/ Shm!MapFail(p) \/ Shm!Fits(p)
           \/ Shm!Printed(p)
    PROVE  FitInv'
<1>1. /\ UNCHANGED <<msize, mlength, mpos, mcount>>
      /\ \A q \in Tool \ {p} :
             mstep'[q] = mstep[q] /\ mid'[q] = mid[q] /\ mwant'[q] = mwant[q]
      BY DEF ShmInv, ShmTypes, Shm!Lookup, Shm!Map, Shm!MapFail, Shm!Fits, Shm!Printed,
             Shm!PGoto, Shm!segVars, Shm!content, Shm!locals
<1>2. \A s \in Segments : SegmentFits(s)'
      BY <1>1 DEF FitInv, SegmentFits
<1>3. ToolFits(p) /\ LabelInv(p) /\ mwant[p] \in Nat
      BY DEF FitInv, ShmInv, ShmTypes, ToolInv
<1>4. CASE Shm!Lookup(p)
  <2>1. /\ mstep[p] = "off" /\ mstep'[p] = "map" /\ mid'[p] = mkey
        /\ p \in PlainWriter \cup PlainReader => mwant'[p] <= msize[mkey]
        BY <1>4, ShmAssumption DEF ShmInv, ShmTypes, Shm!Lookup, Shm!PGoto
  <2>2. ~(mpos[p] > 0)
        BY <1>3, <2>1 DEF LabelInv
  <2>3. ToolFits(p)'
        BY <1>1, <2>1, <2>2 DEF ToolFits
  <2>4. QED
        BY <1>1, <1>2, <2>3, OneToolFits
<1>5. CASE Shm!Map(p)
  <2>1. /\ mstep[p] = "map" /\ mid' = mid /\ mwant' = mwant
        /\ mstep'[p] \in {"copy", "end", "type", "length", "fits"}
        BY <1>5 DEF ShmInv, ShmTypes, Shm!Map, Shm!PGoto, Tool
  <2>2. mstep'[p] = "copy" => 1 + mwant[p] <= msize[mid[p]]
    <3>1. /\ p \in LibReader => mstep'[p] = "type"
          /\ p \in PlainWriter => mstep'[p] = "length"
          /\ p \in PlainReader => mstep'[p] \in {"length", "fits"}
          BY <1>5, ShmAssumption DEF ShmInv, ShmTypes, Shm!Map, Shm!PGoto
    <3>2. p \in LibWriter => mstep'[p] =
              IF Shm!MessageLength(p) > msize[mid[p]] THEN "end" ELSE "copy"
          BY <1>5, ShmAssumption DEF ShmInv, ShmTypes, Shm!Map, Shm!PGoto
    <3>3. mid[p] \in Segments /\ msize[mid[p]] \in Nat
          BY <1>3, <2>1 DEF LabelInv, ShmInv, ShmTypes
    <3>4. QED
          BY <1>3, <3>1, <3>2, <3>3 DEF Tool, Shm!MessageLength, Shm!Header
  <2>3. ~(mpos[p] > 0)
        BY <1>3, <2>1 DEF LabelInv
  <2>4. ToolFits(p)'
        BY <1>1, <1>3, <2>1, <2>2, <2>3 DEF ToolFits
  <2>5. QED
        BY <1>1, <1>2, <2>4, OneToolFits
<1>6. CASE Shm!MapFail(p) \/ Shm!Fits(p) \/ Shm!Printed(p)
  <2>1. /\ mid' = mid /\ mwant' = mwant
        /\ \/ mstep[p] \in {"map", "fits"} /\ mstep'[p] \in {"crashed", "end", "type"}
           \/ mstep[p] = "print" /\ mstep'[p] = "printed"
        BY <1>6 DEF ShmInv, ShmTypes, Shm!MapFail, Shm!Fits, Shm!Printed, Shm!PGoto,
                    Shm!locals
  <2>2. mstep[p] \in {"map", "fits"} => ~(mpos[p] > 0)
        BY <1>3 DEF LabelInv
  <2>3. ToolFits(p)'
        BY <1>1, <1>3, <2>1, <2>2 DEF ToolFits
  <2>4. QED
        BY <1>1, <1>2, <2>3, OneToolFits
<1>7. QED
      BY <1>4, <1>5, <1>6

\* A tool that stores something: a length it has come with, at most.
LEMMA StoringFits ==
    ASSUME ShmInv, FitInv, NEW p \in Tool,
           \/ Shm!StoreLength(p) \/ Shm!StoreType(p) \/ Shm!Fill(p)
           \/ p \in LibWriter /\ \E k \in mtodo[p] : Shm!Copy(p, k)
    PROVE  FitInv'
<1>1. /\ UNCHANGED <<msize, mid, mwant, mcount>>
      /\ \A q \in Tool \ {p} : mstep'[q] = mstep[q] /\ mpos'[q] = mpos[q]
      /\ p \notin LibReader
      /\ mstep[p] \in {"length", "type", "fill", "copy"}
      /\ mstep'[p] \in {"fits", "fill", "end", "copy"}
      /\ mstep'[p] = "copy" => mstep[p] = "copy"
  <2> USE DEF Shm!PGoto, Shm!segVars, Shm!locals
  <2>1. p \notin LibReader
        BY ShmAssumption DEF ShmInv, ToolInv, LabelInv, Shm!StoreLength, Shm!StoreType, Shm!Fill
  <2>2. mstep = [q \in Tool |-> mstep[q]] /\ mpos = [q \in Tool |-> mpos[q]]
        BY DEF ShmInv, ShmTypes
  <2>3. CASE Shm!StoreLength(p)
        BY <2>1, <2>2, <2>3 DEF Shm!StoreLength
  <2>4. CASE Shm!StoreType(p)
        BY <2>1, <2>2, <2>4 DEF Shm!StoreType
  <2>5. CASE Shm!Fill(p)
        BY <2>1, <2>2, <2>5 DEF Shm!Fill
  <2>6. CASE p \in LibWriter /\ \E k \in mtodo[p] : Shm!Copy(p, k)
        BY <2>1, <2>2, <2>6 DEF Shm!Copy
  <2>7. QED
        BY <2>3, <2>4, <2>5, <2>6
<1>2. ToolFits(p) /\ LabelInv(p) /\ mwant[p] \in Nat
      BY DEF FitInv, ShmInv, ShmTypes, ToolInv
<1>3. ToolFits(p)'
      BY <1>1, <1>2 DEF ToolFits
<1>4. /\ mid[p] \in Segments /\ msize[mid[p]] \in Nat /\ msize[mid[p]] # 0
      /\ mlength \in [Segments -> Nat]
      BY <1>1, <1>2 DEF LabelInv, ShmInv, ShmTypes
<1>5. \/ mlength' = mlength
      \/ \E n \in Nat : n <= msize[mid[p]] /\ mlength' = [mlength EXCEPT ![mid[p]] = n]
  <2>1. CASE Shm!StoreType(p) \/ Shm!Fill(p)
        BY <2>1 DEF Shm!StoreType, Shm!Fill
  <2>2. CASE Shm!StoreLength(p)
    <3>1. mwant[p] <= msize[mid[p]]
          BY <1>2, <2>2 DEF ToolFits, LabelInv, Shm!StoreLength, Shm!PGoto
    <3>2. msize[mid[p]] - 1 \in Nat /\ msize[mid[p]] - 1 <= msize[mid[p]]
          BY <1>4
    <3>3. mlength' = [mlength EXCEPT ![mid[p]] =
                          IF mwant[p] = 0 THEN msize[mid[p]] - 1 ELSE mwant[p]]
          BY <2>2 DEF Shm!StoreLength, Shm!Room, Shm!Header
    <3>4. QED
          BY <1>2, <3>1, <3>2, <3>3
  <2>3. CASE p \in LibWriter /\ \E k \in mtodo[p] : Shm!Copy(p, k)
    <3>1. 1 + mwant[p] <= msize[mid[p]] /\ 1 + mwant[p] \in Nat
          BY <1>2, <2>3 DEF ToolFits, Shm!Copy, Shm!PGoto
    <3>2. mlength' \in {mlength, [mlength EXCEPT ![mid[p]] = 1 + mwant[p]]}
          BY <2>3 DEF Shm!Copy, Shm!MessageLength, Shm!Header
    <3>3. QED
          BY <3>1, <3>2
  <2>4. QED
        BY <2>1, <2>2, <2>3
<1>6. \A s \in Segments : SegmentFits(s)'
      BY <1>1, <1>4, <1>5 DEF FitInv, SegmentFits
<1>7. QED
      BY <1>1, <1>3, <1>6, OneToolFits

\* A tool that reads: the length without the header, and no further.
LEMMA ReadingFits ==
    ASSUME ShmInv, FitInv, NEW p \in Tool, Shm!CheckType(p) \/ Shm!PrintCell(p)
    PROVE  FitInv'
<1>1. /\ UNCHANGED <<msize, mlength, mid, mwant>>
      /\ \A q \in Tool \ {p} : mstep'[q] = mstep[q] /\ mpos'[q] = mpos[q]
      /\ \A r \in LibReader \ {p} : mcount'[r] = mcount[r]
      BY DEF ShmInv, ShmTypes, Shm!CheckType, Shm!PrintCell, Shm!PGoto, Shm!segVars,
             Shm!content
<1>2. \A s \in Segments : SegmentFits(s)'
      BY <1>1 DEF FitInv, SegmentFits
<1>3. ToolFits(p) /\ LabelInv(p) /\ mpos[p] \in Nat
      BY DEF FitInv, ShmInv, ShmTypes, ToolInv
<1>4. CASE Shm!CheckType(p)
  <2>1. /\ mstep[p] = "type" /\ mstep'[p] \in {"print", "end"} /\ mpos' = mpos
        /\ p \in LibReader => mcount'[p] = mlength[mid[p]] - 1
        BY <1>4 DEF ShmInv, ShmTypes, Shm!CheckType, Shm!PGoto, Shm!Header
  <2>2. /\ mid[p] \in Segments /\ SegmentFits(mid[p]) /\ ~(mpos[p] > 0)
        /\ mlength[mid[p]] \in Nat /\ msize[mid[p]] \in Nat
        BY <1>3, <2>1 DEF FitInv, ShmInv, ShmTypes, LabelInv
  <2>3. p \in LibReader => mcount'[p] <= msize[mid[p]] - 1
        BY <2>1, <2>2 DEF SegmentFits
  <2>4. ToolFits(p)'
        BY <1>1, <1>3, <2>1, <2>2, <2>3 DEF ToolFits
  <2>5. QED
        BY <1>1, <1>2, <2>4, OneToolFits
<1>5. CASE Shm!PrintCell(p)
  <2>1. /\ mstep[p] = "print" /\ mstep' = mstep /\ mcount' = mcount
        /\ mpos'[p] = mpos[p] + 1
        /\ p \in LibReader => mpos[p] < mcount[p] /\ mcount[p] \in Int
        BY <1>5 DEF ShmInv, ShmTypes, Shm!PrintCell
  <2>2. p \in LibReader => mpos'[p] <= mcount[p]
        BY <1>3, <2>1
  <2>3. ToolFits(p)'
        BY <1>1, <1>3, <2>1, <2>2 DEF ToolFits
  <2>4. QED
        BY <1>1, <1>2, <2>1, <2>3, OneToolFits
<1>6. QED
      BY <1>4, <1>5

\* A tool that ends.
LEMMA ExitFits ==
    ASSUME ShmInv, FitInv, NEW p \in Tool, Shm!Exit(p)
    PROVE  FitInv'
<1>1. /\ UNCHANGED <<msize, mlength>> /\ mstep'[p] = "off" /\ mpos'[p] = 0
      /\ \A q \in Tool \ {p} : /\ mstep'[q] = mstep[q] /\ mid'[q] = mid[q]
                               /\ mwant'[q] = mwant[q] /\ mpos'[q] = mpos[q]
      /\ \A r \in LibReader \ {p} : mcount'[r] = mcount[r]
      BY DEF ShmInv, ShmTypes, Shm!Exit, Shm!content
<1>2. ToolFits(p)' /\ \A s \in Segments : SegmentFits(s)'
      BY <1>1 DEF ToolFits, FitInv, SegmentFits
<1>3. QED
      BY <1>1, <1>2, OneToolFits

\* A new segment has a length of 0, and nobody has it in hand.
LEMMA SegmentsFit ==
    ASSUME ShmInv, FitInv, Shm!Remove \/ \E s \in Segments : Shm!Create(s)
    PROVE  FitInv'
<1>1. CASE Shm!Remove
      BY <1>1 DEF Shm!Remove, Shm!content, Shm!locals, FitInv, SegmentFits, ToolFits
<1>2. ASSUME NEW s \in Segments, Shm!Create(s) PROVE FitInv'
  <2>1. PICK n \in Sizes : msize' = [msize EXCEPT ![s] = n]
        BY <1>2 DEF Shm!Create
  <2>2. /\ \A p \in Tool : mid[p] # s
        /\ mlength' = [mlength EXCEPT ![s] = 0]
        /\ UNCHANGED <<mstep, mid, mwant, mpos, mcount>>
        BY <1>2, SameTools DEF Shm!Create, Shm!locals
  <2>3. /\ mlength'[s] = 0 /\ msize'[s] = n /\ n \in Nat
        /\ \A x \in Segments \ {s} : mlength'[x] = mlength[x] /\ msize'[x] = msize[x]
        BY <2>1, <2>2, ShmAssumption DEF ShmInv, ShmTypes
  <2>4. ASSUME NEW x \in Segments PROVE SegmentFits(x)'
        BY <2>3 DEF FitInv, SegmentFits
  <2>5. ASSUME NEW q \in Tool PROVE ToolFits(q)'
    <3>1. ToolFits(q) /\ (mstep[q] # "off" => mid[q] \in Segments \ {s})
          BY <2>2 DEF FitInv, ShmInv, ToolInv, LabelInv
    <3>2. QED
          BY <2>2, <2>3, <3>1 DEF ToolFits
  <2>6. QED
        BY <2>4, <2>5 DEF FitInv
<1>3. QED
      BY <1>1, <1>2

LEMMA FitStep == ShmInv /\ FitInv /\ [AllNext]_all => FitInv'
<1> SUFFICES ASSUME ShmInv, FitInv, [AllNext]_all PROVE FitInv'
    OBVIOUS
<1>1. CASE UNCHANGED mVars
      BY <1>1 DEF mVars, FitInv, SegmentFits, ToolFits
<1>2. CASE Shm!Next
  <2>1. LibWriter \subseteq Tool
        BY DEF Tool
  <2>2. QED
        BY <1>2, <2>1, SegmentsFit, ComingFits, StoringFits, ReadingFits, ExitFits,
           SameTools DEF Shm!Next
<1>3. QED
      BY <1>1, <1>2, Others

\* The library's reader prints nothing from outside its segment, whatever tools
\* have left their length there, for any number of tools, segments and sizes.
THEOREM LibraryReadsStayInside == AllSpec => []ReadsStayInside
<1>1. AllInit => FitInv
      BY FitInit DEF AllInit
<1>2. ShmInv /\ FitInv => ReadsStayInside
  <2> SUFFICES ASSUME ShmInv, FitInv, NEW r \in LibReader, mpos[r] > 0
               PROVE  mpos[r] <= msize[mid[r]] - 1
      BY DEF ReadsStayInside, Shm!ReadsStayInside, Shm!Room, Shm!Header
  <2>1. r \in Tool
        BY DEF Tool
  <2>2. ToolFits(r) /\ LabelInv(r) /\ mpos[r] \in Nat /\ mcount[r] \in Int
        BY <2>1 DEF FitInv, ShmInv, ShmTypes, ToolInv
  <2>3. mstep[r] # "off" /\ mpos[r] <= mcount[r] /\ mcount[r] <= msize[mid[r]] - 1
        BY <2>2 DEF ToolFits
  <2>4. msize[mid[r]] \in Nat
        BY <2>2, <2>3 DEF LabelInv, ShmInv, ShmTypes
  <2>5. QED
        BY <2>2, <2>3, <2>4
<1>3. QED
      BY ShmInvariant, FitStep, <1>1, <1>2, PTL DEF AllSpec

-----------------------------------------------------------------------------
(* The thread-per-connection server *)

\* The table leads from at most one number to a connection, and to none that
\* has not been made.
TableInv ==
    /\ \A f, g \in Fd : table[f] = table[g] => f = g \/ table[f] = NoConn
    /\ \A f \in Fd : table[f] \notin fresh

\* connfd is a number as soon as a connection has been accepted.
ConnfdInv == main = "create" \/ (\E t \in Thread : thread[t] = "born") => connfd \in Fd

\* No thread has been passed by an accept, and the server goes on.
Orderly == Up /\ running /\ ~overtaken

\* As long as that is so, main waits neither with a new connection nor in
\* accept's way for more than one thread that has not read its argument, ...
BornInv ==
    /\ \A t, u \in Thread : thread[t] = "born" /\ thread[u] = "born" => t = u
    /\ main = "create" => \A t \in Thread : thread[t] # "born"

\* ... a thread and the connection it was started for exist together, ...
PairInv ==
    /\ \A t \in Thread : dispatched[t] # NoConn <=> Alive(t)
    /\ \A t \in Thread : Alive(t) => Serves(t) = dispatched[t]
    /\ \A t \in Thread : bound[t] \in {NoConn, dispatched[t]}
    /\ \A t \in Thread : thread[t] = "born" => bound[t] = NoConn
    /\ \A t, u \in Thread :
           dispatched[t] = dispatched[u] => t = u \/ dispatched[t] = NoConn

\* ... and the only connection without a thread is the one main has accepted.
OpenInv ==
    /\ main = "create" =>
           table[connfd] # NoConn /\ \A t \in Thread : dispatched[t] # table[connfd]
    /\ \A f \in Fd : table[f] # NoConn =>
           \/ \E t \in Thread : dispatched[t] = table[f]
           \/ main = "create" /\ f = connfd

OrderlyInv == Orderly => BornInv /\ PairInv /\ OpenInv

MatchInv == TypeOK /\ TableInv /\ ConnfdInv /\ OrderlyInv

\* accept returns a number that is free.
LEMMA LowestIsUnused == Unused # {} => Lowest(Unused) \in Unused
<1> SUFFICES ASSUME Unused # {} PROVE Lowest(Unused) \in Unused
    OBVIOUS
<1>1. Unused \subseteq Nat
      BY ServerAssumption DEF Unused
<1>2. \A x, y \in Nat : y < x => <<y, x>> \in OpToRel(<, Nat)
      BY DEF OpToRel
<1>3. PICK x \in Unused : \A y \in Unused : ~(<<y, x>> \in OpToRel(<, Nat))
      BY <1>1, NatLessThanWellFounded, WFMin
<1>4. \A y \in Unused : ~(y < x)
      BY <1>1, <1>2, <1>3, Zenon
<1>5. \A y \in Unused : x <= y
      BY <1>1, <1>4
<1>6. QED
      BY <1>5 DEF Lowest

LEMMA MatchInit == Init => MatchInv
BY ServerAssumption
DEF Init, MatchInv, TypeOK, TableInv, ConnfdInv, OrderlyInv, BornInv, PairInv, OpenInv,
    Alive, Serves, MainLabel, ThreadLabel

\* Where main goes without an accept and a new thread, it goes in good order or
\* ends; the process that ends, or is asked to, is under no obligation.
LEMMA MainMatches ==
    ASSUME MatchInv, MainTest \/ AcceptFail \/ CreateFail \/ SigInt
    PROVE  MatchInv'
<1> USE DEF MatchInv
<1>1. UNCHANGED <<connfd, table, fresh, fd, dispatched, overtaken>>
      BY DEF MainTest, AcceptFail, CreateFail, SigInt, locals
<1>2. TypeOK'
  <2>1. CASE MainTest \/ AcceptFail \/ CreateFail
        BY <2>1 DEF MainTest, AcceptFail, CreateFail, locals, TypeOK, MainLabel
  <2>2. CASE SigInt
    <3>1. /\ running' = FALSE /\ main' \in MainLabel
          /\ thread' \in [Thread -> ThreadLabel]
          /\ bound' \in [Thread -> Conn \cup {NoConn}]
          /\ \A t \in Thread : thread'[t] \in {"test", "recv", "send"} =>
                 thread[t] \in {"test", "recv", "send"}
          BY <2>2 DEF SigInt, TypeOK, MainLabel, ThreadLabel
    <3>2. QED
          BY <1>1, <3>1 DEF TypeOK
  <2>3. QED
        BY <2>1, <2>2
<1>3. TableInv'
      BY <1>1 DEF TableInv
<1>4. /\ main' = "create" => main = "create"
      /\ \A t \in Thread : thread'[t] = "born" => thread[t] = "born"
      BY DEF MainTest, AcceptFail, CreateFail, SigInt, TypeOK
<1>5. ConnfdInv'
      BY <1>1, <1>4 DEF ConnfdInv
<1>6. OrderlyInv'
  <2> SUFFICES ASSUME Orderly' PROVE (BornInv /\ PairInv /\ OpenInv)'
      BY DEF OrderlyInv
  <2>1. main' # "ended" /\ running' = TRUE
        BY DEF Orderly, Up, SigInt
  <2>2. MainTest
        BY <2>1 DEF AcceptFail, CreateFail, SigInt
  <2>3. /\ UNCHANGED <<thread, bound>> /\ Orderly
        /\ main # "create" /\ main' # "create"
        BY <1>1, <2>1, <2>2 DEF Orderly, Up, MainTest, locals
  <2>4. BornInv /\ PairInv /\ OpenInv
        BY <2>3 DEF OrderlyInv
  <2>5. QED
        BY <1>1, <2>3, <2>4 DEF BornInv, PairInv, OpenInv, Alive, Serves
<1>7. QED
      BY <1>2, <1>3, <1>5, <1>6

\* A new connection has a number of its own and no thread yet.
LEMMA AcceptMatches ==
    ASSUME MatchInv, NEW c \in Conn, Accept(c)
    PROVE  MatchInv'
<1> USE DEF MatchInv
<1> DEFINE n == Lowest(Unused)
<1>1. /\ main = "accept" /\ main' = "create" /\ c \in fresh
      /\ connfd' = n /\ table' = [table EXCEPT ![n] = c] /\ fresh' = fresh \ {c}
      /\ overtaken' = (overtaken \/ \E t \in Thread : thread[t] = "born")
      /\ UNCHANGED <<running, thread, fd, bound, dispatched>>
      BY DEF Accept, locals
<1>2. n \in Fd /\ table[n] = NoConn /\ n # NoFd
      BY LowestIsUnused, ServerAssumption DEF Accept, Unused
<1> HIDE DEF n
<1>3. c # NoConn
      BY ServerAssumption
<1>4. \A f \in Fd : table'[f] = IF f = n THEN c ELSE table[f]
      BY <1>1, <1>2 DEF TypeOK
<1>5. TypeOK'
      BY <1>1, <1>2 DEF TypeOK, MainLabel
<1>6. TableInv'
  <2>1. \A f \in Fd : table[f] # c
        BY <1>1 DEF TableInv
  <2>2. QED
        BY <1>1, <1>2, <1>3, <1>4, <2>1 DEF TableInv
<1>7. ConnfdInv'
      BY <1>1, <1>2 DEF ConnfdInv
<1>8. OrderlyInv'
  <2> SUFFICES ASSUME Orderly' PROVE (BornInv /\ PairInv /\ OpenInv)'
      BY DEF OrderlyInv
  <2>1. Orderly /\ (\A t \in Thread : thread[t] # "born")
        BY <1>1 DEF Orderly, Up
  <2>2. BornInv /\ PairInv /\ OpenInv
        BY <2>1 DEF OrderlyInv
  <2>3. \A t \in Thread : Alive(t) =>
            fd[t] \in Fd /\ table[fd[t]] = dispatched[t] /\ fd[t] # n
    <3> SUFFICES ASSUME NEW t \in Thread, Alive(t)
                 PROVE  fd[t] \in Fd /\ table[fd[t]] = dispatched[t] /\ fd[t] # n
        OBVIOUS
    <3>1. thread[t] \in {"test", "recv", "send"}
          BY <2>1 DEF Alive, TypeOK, ThreadLabel
    <3>2. Serves(t) = table[fd[t]] /\ dispatched[t] # NoConn
          BY <2>2, <3>1 DEF PairInv, Serves
    <3>3. QED
          BY <1>2, <2>2, <3>1, <3>2 DEF PairInv, TypeOK
  <2>4. \A t \in Thread : dispatched[t] # c
        BY <1>1, <1>3, <2>2, <2>3 DEF TableInv, PairInv
  <2>5. BornInv'
        BY <1>1, <2>1 DEF BornInv
  <2>6. \A t \in Thread : Alive(t)' = Alive(t) /\ (Alive(t) => Serves(t)' = dispatched[t])
        BY <1>1, <1>4, <2>1, <2>3 DEF Alive, Serves
  <2>7. PairInv'
        BY <1>1, <2>1, <2>2, <2>6 DEF PairInv
  <2>8. OpenInv'
        BY <1>1, <1>2, <1>3, <1>4, <2>2, <2>4 DEF OpenInv
  <2>9. QED
        BY <2>5, <2>7, <2>8
<1>9. QED
      BY <1>5, <1>6, <1>7, <1>8

\* The new thread is the one of the connection main holds.
LEMMA CreateMatches ==
    ASSUME MatchInv, NEW t \in Thread, Create(t)
    PROVE  MatchInv'
<1> USE DEF MatchInv
<1>1. /\ main = "create" /\ thread[t] = "none" /\ main' = "test"
      /\ thread' = [thread EXCEPT ![t] = "born"]
      /\ dispatched' = [dispatched EXCEPT ![t] = table[connfd]]
      /\ UNCHANGED <<running, connfd, table, fresh, fd, bound, overtaken>>
      BY DEF Create
<1>2. connfd \in Fd
      BY <1>1 DEF ConnfdInv
<1>3. TypeOK'
      BY <1>1, <1>2 DEF TypeOK, MainLabel, ThreadLabel
<1>4. TableInv' /\ ConnfdInv'
      BY <1>1, <1>2 DEF TableInv, ConnfdInv
<1>5. OrderlyInv'
  <2> SUFFICES ASSUME Orderly' PROVE (BornInv /\ PairInv /\ OpenInv)'
      BY DEF OrderlyInv
  <2>1. BornInv /\ PairInv /\ OpenInv
        BY <1>1 DEF OrderlyInv, Orderly, Up
  <2>2. \A u \in Thread :
            /\ thread'[u] = IF u = t THEN "born" ELSE thread[u]
            /\ dispatched'[u] = IF u = t THEN table[connfd] ELSE dispatched[u]
        BY <1>1 DEF TypeOK
  <2>3. BornInv'
        BY <1>1, <2>1, <2>2 DEF BornInv
  <2>4. /\ dispatched[t] = NoConn /\ bound[t] = NoConn
        /\ \A u \in Thread : thread[u] # "born"
        /\ table[connfd] # NoConn
        /\ \A u \in Thread : dispatched[u] # table[connfd]
        BY <1>1, <2>1 DEF BornInv, PairInv, OpenInv, Alive
  <2>5. \A u \in Thread : u # t => Alive(u)' = Alive(u) /\ Serves(u)' = Serves(u)
        BY <1>1, <2>2 DEF Alive, Serves
  <2>6. Alive(t)' /\ Serves(t)' = table[connfd]
        BY <1>1, <2>2 DEF Alive, Serves
  <2>7. PairInv'
        BY <1>1, <2>1, <2>2, <2>4, <2>5, <2>6 DEF PairInv
  <2>8. OpenInv'
    <3> SUFFICES ASSUME NEW f \in Fd, table[f] # NoConn
                 PROVE  \E u \in Thread : dispatched'[u] = table[f]
        BY <1>1 DEF OpenInv
    <3>1. CASE f = connfd
          BY <2>2, <3>1
    <3>2. CASE f # connfd
      <4>1. PICK u \in Thread : dispatched[u] = table[f]
            BY <2>1, <3>2 DEF OpenInv
      <4>2. QED
            BY <2>2, <2>4, <4>1
    <3>3. QED
          BY <3>1, <3>2
  <2>9. QED
        BY <2>3, <2>7, <2>8
<1>6. QED
      BY <1>3, <1>4, <1>5

\* A thread that reads its argument in time reads the number of its connection,
\* and works on that.
LEMMA WorkMatches ==
    ASSUME MatchInv, NEW t \in Thread,
           ReadArg(t) \/ RecvBegin(t) \/ RecvData(t) \/ SendDone(t) \/ SendKills(t)
    PROVE  MatchInv'
<1> USE DEF MatchInv
<1>1. /\ UNCHANGED <<running, connfd, table, fresh, dispatched, overtaken>>
      /\ main' \in {main, "ended"}
      BY DEF ReadArg, RecvBegin, RecvData, SendDone, SendKills, locals, TGoto
<1>2. TypeOK'
  <2>1. CASE ReadArg(t)
    <3>1. connfd \in Fd
          BY <2>1 DEF ReadArg, TGoto, ConnfdInv
    <3>2. QED
          BY <1>1, <2>1, <3>1 DEF ReadArg, TGoto, TypeOK, ThreadLabel
  <2>2. CASE RecvBegin(t) \/ RecvData(t) \/ SendDone(t) \/ SendKills(t)
        BY <1>1, <2>2
        DEF RecvBegin, RecvData, SendDone, SendKills, locals, TGoto, TypeOK, MainLabel,
            ThreadLabel
  <2>3. QED
        BY <2>1, <2>2
<1>3. TableInv'
      BY <1>1 DEF TableInv
<1>4. ConnfdInv'
  <2>1. \A u \in Thread : thread'[u] = "born" => thread[u] = "born"
        BY DEF ReadArg, RecvBegin, RecvData, SendDone, SendKills, locals, TGoto, TypeOK
  <2>2. QED
        BY <1>1, <2>1 DEF ConnfdInv
<1>5. OrderlyInv'
  <2> SUFFICES ASSUME Orderly' PROVE (BornInv /\ PairInv /\ OpenInv)'
      BY DEF OrderlyInv
  <2>1. Orderly /\ main' = main
        BY <1>1 DEF Orderly, Up
  <2>2. BornInv /\ PairInv /\ OpenInv
        BY <2>1 DEF OrderlyInv
  <2>3. ~SendKills(t)
        BY DEF SendKills, Orderly, Up
  <2>4. thread[t] \in {"born", "test", "recv", "send"} /\ Alive(t)
        BY <2>3 DEF ReadArg, RecvBegin, RecvData, SendDone, TGoto, Alive
  <2>5. \A u \in Thread :
            u # t => thread'[u] = thread[u] /\ fd'[u] = fd[u] /\ bound'[u] = bound[u]
        BY <2>3 DEF ReadArg, RecvBegin, RecvData, SendDone, locals, TGoto, TypeOK
  <2>6. /\ thread'[t] \in {"test", "recv", "send"}
        /\ fd'[t] = IF thread[t] = "born" THEN connfd ELSE fd[t]
        BY <2>3 DEF ReadArg, RecvBegin, RecvData, SendDone, locals, TGoto, TypeOK
  <2>7. Alive(t)' /\ Serves(t)' = Serves(t)
        BY <1>1, <2>6 DEF Alive, Serves
  <2>8. \A u \in Thread : u # t => Alive(u)' = Alive(u) /\ Serves(u)' = Serves(u)
        BY <1>1, <2>5 DEF Alive, Serves
  <2>9. bound'[t] \in {NoConn, dispatched[t]}
    <3>1. CASE RecvBegin(t)
      <4>1. bound'[t] = Serves(t)
            BY <3>1 DEF RecvBegin, TGoto, TypeOK, Serves
      <4>2. QED
            BY <2>2, <2>4, <4>1 DEF PairInv
    <3>2. CASE ReadArg(t) \/ RecvData(t) \/ SendDone(t)
          BY <2>2, <3>2 DEF ReadArg, RecvData, SendDone, locals, PairInv, TypeOK
    <3>3. QED
          BY <2>3, <3>1, <3>2
  <2>10. BornInv'
        BY <2>1, <2>2, <2>5, <2>6 DEF BornInv
  <2>11. PairInv'
        BY <1>1, <2>2, <2>4, <2>5, <2>6, <2>7, <2>8, <2>9 DEF PairInv
  <2>12. OpenInv'
        BY <1>1, <2>1, <2>2 DEF OpenInv
  <2>13. QED
        BY <2>10, <2>11, <2>12
<1>6. QED
      BY <1>2, <1>3, <1>4, <1>5

\* A thread leaves nothing behind that is not gone with it, unless the flag
\* made it leave.
LEMMA EndMatches ==
    ASSUME MatchInv, NEW t \in Thread,
           RecvBad(t) \/ Leave(t) \/ RecvEnd(t) \/ SendFail(t)
    PROVE  MatchInv'
<1> USE DEF MatchInv
<1>1. /\ thread[t] \in {"test", "recv", "send"}
      /\ thread' = [thread EXCEPT ![t] = "none"]
      /\ fd' = [fd EXCEPT ![t] = NoFd]
      /\ bound' = [bound EXCEPT ![t] = NoConn]
      /\ dispatched' = [dispatched EXCEPT ![t] = NoConn]
      /\ UNCHANGED <<running, main, connfd, fresh, overtaken>>
      BY DEF RecvBad, Leave, RecvEnd, SendFail, CloseAndExit, Gone
<1>2. /\ table' = table \/ table' = [table EXCEPT ![fd[t]] = NoConn]
      /\ running => table' = [table EXCEPT ![fd[t]] = NoConn]
      BY DEF RecvBad, Leave, RecvEnd, SendFail, CloseAndExit
<1>3. \A u \in Thread :
          /\ thread'[u] = IF u = t THEN "none" ELSE thread[u]
          /\ fd'[u] = IF u = t THEN NoFd ELSE fd[u]
          /\ bound'[u] = IF u = t THEN NoConn ELSE bound[u]
          /\ dispatched'[u] = IF u = t THEN NoConn ELSE dispatched[u]
      BY <1>1 DEF TypeOK
<1>4. fd[t] \in Fd
      BY <1>1 DEF TypeOK
<1>5. \A f \in Fd : table'[f] \in {table[f], NoConn}
      BY <1>2, <1>4 DEF TypeOK
<1>6. TypeOK'
  <2>1. table' \in [Fd -> Conn \cup {NoConn}]
        BY <1>2, <1>4 DEF TypeOK
  <2>2. /\ thread' \in [Thread -> ThreadLabel]
        /\ fd' \in [Thread -> Fd \cup {NoFd}]
        /\ bound' \in [Thread -> Conn \cup {NoConn}]
        /\ dispatched' \in [Thread -> Conn \cup {NoConn}]
        BY <1>1 DEF TypeOK, ThreadLabel
  <2>3. QED
        BY <1>1, <1>3, <2>1, <2>2 DEF TypeOK
<1>7. TableInv'
  <2>1. fresh \subseteq Conn
        BY DEF TypeOK
  <2>2. QED
        BY <1>1, <1>5, <2>1, ServerAssumption DEF TableInv
<1>8. ConnfdInv'
      BY <1>1, <1>3 DEF ConnfdInv
<1>9. OrderlyInv'
  <2> SUFFICES ASSUME Orderly' PROVE (BornInv /\ PairInv /\ OpenInv)'
      BY DEF OrderlyInv
  <2>1. Orderly
        BY <1>1 DEF Orderly, Up
  <2>2. BornInv /\ PairInv /\ OpenInv
        BY <2>1 DEF OrderlyInv
  <2>3. \A f \in Fd : table'[f] = IF f = fd[t] THEN NoConn ELSE table[f]
        BY <1>2, <1>4, <2>1 DEF Orderly, TypeOK
  <2>4. Alive(t) /\ Serves(t) = table[fd[t]] /\ dispatched[t] = table[fd[t]]
        /\ dispatched[t] # NoConn
        BY <1>1, <2>2 DEF Alive, Serves, PairInv
  <2>5. \A u \in Thread : u # t /\ Alive(u) =>
            /\ Alive(u)'
            /\ Serves(u)' = Serves(u)
    <3> SUFFICES ASSUME NEW u \in Thread, u # t, Alive(u)
                 PROVE  Alive(u)' /\ Serves(u)' = Serves(u)
        OBVIOUS
    <3>1. /\ Serves(u) = dispatched[u]
          /\ dispatched[u] # NoConn /\ dispatched[u] # dispatched[t]
          BY <2>2 DEF PairInv
    <3>2. CASE thread[u] = "born"
      <4>1. connfd \in Fd /\ table[connfd] # table[fd[t]]
            BY <2>4, <3>1, <3>2 DEF Serves, ConnfdInv
      <4>2. QED
            BY <1>1, <1>3, <2>3, <3>2, <4>1 DEF Alive, Serves
    <3>3. CASE thread[u] # "born"
      <4>1. fd[u] \in Fd /\ table[fd[u]] # table[fd[t]]
            BY <2>4, <3>1, <3>3 DEF Serves, Alive, TypeOK, ThreadLabel
      <4>2. QED
            BY <1>3, <2>3, <3>3, <4>1 DEF Alive, Serves
    <3>4. QED
          BY <3>2, <3>3
  <2>6. \A u \in Thread : u # t => Alive(u)' = Alive(u)
        BY <1>3 DEF Alive
  <2>7. ~Alive(t)'
        BY <1>3 DEF Alive
  <2>8. BornInv'
        BY <1>1, <1>3, <2>2 DEF BornInv
  <2>9. PairInv'
        BY <1>3, <2>2, <2>5, <2>6, <2>7 DEF PairInv
  <2>10. OpenInv'
    <3>1. ASSUME main = "create"
          PROVE  table'[connfd] = table[connfd]
          BY <3>1, <2>2, <2>3, <2>4 DEF OpenInv, ConnfdInv
    <3>2. ASSUME main = "create"
          PROVE  /\ table'[connfd] # NoConn
                 /\ \A u \in Thread : dispatched'[u] # table'[connfd]
          BY <3>1, <3>2, <1>3, <2>2 DEF OpenInv
    <3>3. ASSUME NEW f \in Fd, table'[f] # NoConn
          PROVE  \/ \E u \in Thread : dispatched'[u] = table'[f]
                 \/ main = "create" /\ f = connfd
      <4>1. table'[f] = table[f] /\ table[f] # table[fd[t]]
            BY <1>4, <2>3, <3>3 DEF TableInv
      <4>2. QED
            BY <1>3, <2>2, <2>4, <3>3, <4>1 DEF OpenInv
    <3>4. QED
          BY <1>1, <3>2, <3>3 DEF OpenInv
  <2>11. QED
        BY <2>8, <2>9, <2>10
<1>10. QED
      BY <1>6, <1>7, <1>8, <1>9

\* Every step preserves the invariant.
LEMMA MatchStep == MatchInv /\ [Next]_vars => MatchInv'
<1> SUFFICES ASSUME MatchInv, [Next]_vars PROVE MatchInv'
    OBVIOUS
<1>1. CASE UNCHANGED vars
      BY <1>1
      DEF vars, MatchInv, TypeOK, TableInv, ConnfdInv, OrderlyInv, Orderly, Up, BornInv,
          PairInv, OpenInv, Alive, Serves
<1>2. CASE Next
      BY <1>2, MainMatches, AcceptMatches, CreateMatches, WorkMatches, EndMatches
      DEF Next, ThreadStep
<1>3. QED
      BY <1>1, <1>2

\* Each thread that has left its start knows the number it works on, and every
\* variable keeps its type.
THEOREM ServerTypes == Spec => []TypeOK
<1>1. MatchInv => TypeOK
      BY DEF MatchInv
<1>2. QED
      BY MatchInit, MatchStep, <1>1, PTL DEF Spec

\* The server whose threads read their argument in time gives every connection
\* one thread and every thread one connection, for any number of either.
THEOREM ConnectionsMatchThreads == Spec => []MatchedUnlessOvertaken
<1>1. MatchInv => MatchedUnlessOvertaken
  <2> SUFFICES ASSUME MatchInv, Orderly PROVE MatchedUnlessOvertaken
      BY DEF MatchedUnlessOvertaken, Orderly
  <2>1. PairInv /\ OpenInv
        BY DEF MatchInv, OrderlyInv
  <2>2. OpenConns \subseteq ({dispatched[t] : t \in Thread} \ {NoConn})
                              \cup (IF main = "create" THEN {table[connfd]} ELSE {})
        BY <2>1 DEF OpenInv, OpenConns
  <2>3. \A t \in Thread : dispatched[t] # NoConn => dispatched[t] \in OpenConns
    <3> SUFFICES ASSUME NEW t \in Thread, dispatched[t] # NoConn
                 PROVE  dispatched[t] \in OpenConns
        OBVIOUS
    <3>1. Alive(t) /\ Serves(t) = dispatched[t]
          BY <2>1 DEF PairInv
    <3>2. (thread[t] = "born" => connfd \in Fd) /\ (thread[t] # "born" => fd[t] \in Fd)
          BY <3>1 DEF MatchInv, ConnfdInv, TypeOK, Alive, ThreadLabel
    <3>3. QED
          BY <3>1, <3>2 DEF Serves, OpenConns
  <2>4. main = "create" => table[connfd] \in OpenConns
        BY <2>1 DEF OpenInv, OpenConns, MatchInv, ConnfdInv
  <2>5. QED
        BY <2>1, <2>2, <2>3, <2>4 DEF MatchedUnlessOvertaken, PairInv
<1>2. QED
      BY MatchInit, MatchStep, <1>1, PTL DEF Spec

-----------------------------------------------------------------------------
(* The epoll echo server *)

\* Bytes on their way have been typed, and only ended clients have been sent
\* something they did not want.
SentInv ==
    /\ \A c \in EpollClient : eup[c] <= etyped[c]
    /\ \A c \in ebounced : ecl[c] = "fin"

\* A connection waits once, and only as long as it has not been accepted.
QueueInv ==
    /\ \A i \in 1 .. Len(equeue) : econn[equeue[i]] = "queued"
    /\ \A i, j \in 1 .. Len(equeue) : equeue[i] = equeue[j] => i = j

\* An event of the round is about a connection that is watched still, the only
\* one about it, and what it says of an error has not changed.
PendingInv ==
    espc # "exit" =>
        /\ \A e \in eevents :
               /\ e.of # Listening => econn[e.of] = "watched"
               /\ e.bad => e.of # Listening /\ Epoll!Broken(e.of)
        /\ \A e, f \in eevents : e.of = f.of => e = f
        /\ espc \in {"test", "wait"} => eevents = {}

\* The byte in hand belongs to such a connection, whose event has been taken.
HandInv ==
    espc = "send" =>
        /\ ecurrent \in EpollClient /\ econn[ecurrent] = "watched"
        /\ \A e \in eevents : e.of # ecurrent

EpollInv ==
    Epoll!TypeOK /\ SentInv /\ QueueInv /\ PendingInv /\ HandInv /\ NoLiveClientForgotten

LEMMA EpollInit == Epoll!Init => EpollInv
<1> SUFFICES ASSUME Epoll!Init PROVE EpollInv
    OBVIOUS
<1> USE EpollAssumption DEF Epoll!Init
<1>1. Epoll!TypeOK
      BY DEF Epoll!TypeOK, Epoll!ConnState
<1>2. SentInv /\ QueueInv /\ PendingInv /\ HandInv
      BY DEF SentInv, QueueInv, PendingInv, HandInv
<1>3. NoLiveClientForgotten
      BY DEF NoLiveClientForgotten, Epoll!NoLiveClientForgotten
<1>4. QED
      BY <1>1, <1>2, <1>3 DEF EpollInv

\* A client that connects has no connection, and so no event and no place in
\* the queue.
LEMMA ConnectKeeps ==
    ASSUME EpollInv, NEW c \in EpollClient, Epoll!Connect(c)
    PROVE  EpollInv'
<1> USE EpollAssumption DEF EpollInv
<1>1. /\ ecl[c] # "on" /\ econn[c] \in {"none", "closed"} /\ espc # "exit"
      /\ ecl' = [ecl EXCEPT ![c] = "on"] /\ etyped' = [etyped EXCEPT ![c] = 0]
      /\ eup' = [eup EXCEPT ![c] = 0] /\ edown' = [edown EXCEPT ![c] = 0]
      /\ ebounced' = ebounced \ {c} /\ ereset' = ereset \ {c}
      /\ equeue' = Append(equeue, c) /\ econn' = [econn EXCEPT ![c] = "queued"]
      /\ eedge' = eedge \cup {Listening}
      /\ UNCHANGED <<eevents, ecurrent, espc, erunning>>
      BY DEF Epoll!Connect, Epoll!Arrives
<1>2. /\ econn \in [EpollClient -> Epoll!ConnState] /\ equeue \in Seq(EpollClient)
      /\ ecl \in [EpollClient -> {"off", "on", "fin", "rst"}]
      /\ ebounced \subseteq EpollClient /\ ereset \subseteq ebounced
      /\ eevents \subseteq [of : EpollClient \cup {Listening}, bad : BOOLEAN]
      BY DEF Epoll!TypeOK
<1>3. \A d \in EpollClient :
          /\ econn'[d] = IF d = c THEN "queued" ELSE econn[d]
          /\ ecl'[d] = IF d = c THEN "on" ELSE ecl[d]
      BY <1>1, <1>2
<1>4. Epoll!TypeOK'
  <2>1. etyped'[c] = 0 /\ eup'[c] = 0
        BY <1>1 DEF Epoll!TypeOK
  <2>2. QED
        BY <1>1, <2>1 DEF Epoll!TypeOK, Epoll!ConnState
<1>5. SentInv'
      BY <1>1, <1>2, <1>3 DEF SentInv, Epoll!TypeOK
<1>6. QueueInv'
  <2>1. \A i \in 1 .. Len(equeue) : equeue[i] # c /\ equeue[i] \in EpollClient
        BY <1>1, <1>2 DEF QueueInv
  <2>2. QED
        BY <1>1, <1>2, <1>3, <2>1 DEF QueueInv
<1>7. PendingInv'
  <2>1. \A e \in eevents :
            /\ e.of # Listening => econn'[e.of] = "watched"
            /\ e.bad => e.of # Listening /\ Epoll!Broken(e.of)'
        BY <1>1, <1>2, <1>3 DEF PendingInv, Epoll!Broken
  <2>2. QED
        BY <1>1, <2>1 DEF PendingInv
<1>8. HandInv'
      BY <1>1, <1>3 DEF HandInv
<1>9. NoLiveClientForgotten'
      BY <1>1, <1>3 DEF NoLiveClientForgotten, Epoll!NoLiveClientForgotten
<1>10. QED
      BY <1>4, <1>5, <1>6, <1>7, <1>8, <1>9

\* What else a client does concerns its own end of the connection only.
LEMMA EpollClientKeeps ==
    ASSUME EpollInv, NEW c \in EpollClient,
           Epoll!Send(c) \/ Epoll!Receive(c) \/ Epoll!End(c) \/ Epoll!ResetArrives(c)
    PROVE  EpollInv'
<1> USE EpollAssumption DEF EpollInv
<1>1. /\ UNCHANGED <<equeue, econn, eevents, ecurrent, espc, erunning, ebounced>>
      /\ ereset \subseteq ereset'
      BY DEF Epoll!Send, Epoll!Receive, Epoll!End, Epoll!ResetArrives, Epoll!serverVars
<1>2. \A d \in EpollClient :
          \/ ecl'[d] = ecl[d]
          \/ ecl[d] = "on" /\ ecl'[d] \in {"fin", "rst"}
      BY DEF Epoll!Send, Epoll!Receive, Epoll!End, Epoll!ResetArrives,
             Epoll!clientVars, Epoll!TypeOK
<1>3. Epoll!TypeOK' /\ \A d \in EpollClient : eup'[d] <= etyped'[d]
  <2>1. CASE Epoll!Send(c)
    <3>1. /\ etyped[c] < Typed[c] /\ etyped' = [etyped EXCEPT ![c] = @ + 1]
          /\ eup' = [eup EXCEPT ![c] = @ + 1] /\ eedge' = eedge \cup {c}
          /\ UNCHANGED <<ecl, edown, ereset>>
          BY <2>1 DEF Epoll!Send, Epoll!Arrives
    <3>2. \A d \in EpollClient :
              /\ etyped'[d] = IF d = c THEN etyped[d] + 1 ELSE etyped[d]
              /\ eup'[d] = IF d = c THEN eup[d] + 1 ELSE eup[d]
          BY <3>1 DEF Epoll!TypeOK
    <3>3. QED
          BY <1>1, <3>1, <3>2, SMTT(20) DEF Epoll!TypeOK, SentInv
  <2>2. CASE Epoll!Receive(c)
        BY <1>1, <2>2 DEF Epoll!Receive, Epoll!clientVars, Epoll!TypeOK, SentInv
  <2>3. CASE Epoll!End(c)
        BY <1>1, <2>3 DEF Epoll!End, Epoll!Arrives, Epoll!TypeOK, SentInv
  <2>4. CASE Epoll!ResetArrives(c)
        BY <1>1, <2>4 DEF Epoll!ResetArrives, Epoll!Arrives, Epoll!clientVars,
                          Epoll!TypeOK, SentInv
  <2>5. QED
        BY <2>1, <2>2, <2>3, <2>4
<1>4. SentInv'
      BY <1>1, <1>2, <1>3 DEF SentInv, Epoll!TypeOK
<1>5. QueueInv' /\ HandInv'
      BY <1>1 DEF QueueInv, HandInv
<1>6. PendingInv'
  <2>1. \A d \in EpollClient : Epoll!Broken(d) => Epoll!Broken(d)'
        BY <1>1, <1>2 DEF Epoll!Broken
  <2>2. \A e \in eevents : e.of \in EpollClient \cup {Listening}
        BY DEF Epoll!TypeOK
  <2>3. QED
        BY <1>1, <2>1, <2>2 DEF PendingInv
<1>7. NoLiveClientForgotten'
      BY <1>1, <1>2 DEF NoLiveClientForgotten, Epoll!NoLiveClientForgotten
<1>8. QED
      BY <1>3, <1>4, <1>5, <1>6, <1>7

\* The rounds of the loop, and the end of the program.
LEMMA RoundKeeps ==
    ASSUME EpollInv,
           Epoll!Test \/ Epoll!SigInt \/ Epoll!Wait \/ Epoll!RoundEnds
    PROVE  EpollInv'
<1> USE EpollAssumption DEF EpollInv, Epoll!clientVars, Epoll!wire, Epoll!SGoto
<1>1. CASE Epoll!Test
  <2>1. CASE erunning
        BY <1>1, <2>1 DEF Epoll!Test, Epoll!TypeOK, SentInv, QueueInv, PendingInv,
             HandInv, NoLiveClientForgotten, Epoll!NoLiveClientForgotten, Epoll!Broken
  <2>2. CASE ~erunning
    <3>1. /\ espc' = "exit" /\ equeue' = <<>>
          /\ econn' = [c \in EpollClient |-> "closed"]
          /\ UNCHANGED <<ecl, etyped, eup, edown, ebounced, ereset, eevents,
                         ecurrent, erunning, eedge>>
          BY <1>1, <2>2 DEF Epoll!Test
    <3>2. QED
          BY <3>1 DEF Epoll!TypeOK, Epoll!ConnState, SentInv, QueueInv, PendingInv,
             HandInv, NoLiveClientForgotten, Epoll!NoLiveClientForgotten
  <2>3. QED
        BY <2>1, <2>2
<1>2. CASE Epoll!SigInt
      BY <1>2 DEF Epoll!SigInt, Epoll!TypeOK, SentInv, QueueInv, PendingInv,
           HandInv, NoLiveClientForgotten, Epoll!NoLiveClientForgotten, Epoll!Broken
<1>3. CASE Epoll!Wait
  <2>1. /\ espc = "wait" /\ espc' = "events" /\ eevents' = Epoll!Due /\ eedge' = {}
        /\ UNCHANGED <<ecl, etyped, eup, edown, ebounced, ereset, equeue, econn,
                       ecurrent, erunning>>
        BY <1>3 DEF Epoll!Wait
  <2>2. \A e \in Epoll!Due :
            /\ e \in [of : EpollClient \cup {Listening}, bad : BOOLEAN]
            /\ \/ e.of = Listening /\ e.bad = FALSE
               \/ /\ e.of \in EpollClient /\ econn[e.of] = "watched"
                  /\ e.bad = Epoll!Broken(e.of)
    <3> TAKE e \in Epoll!Due
    <3>1. CASE e = [of |-> Listening, bad |-> FALSE]
          BY <3>1
    <3>2. CASE \E c \in {d \in EpollClient : Epoll!Ready(d)} :
                   e = [of |-> c, bad |-> Epoll!Broken(c)]
      <4>1. PICK c \in EpollClient :
                Epoll!Ready(c) /\ e = [of |-> c, bad |-> Epoll!Broken(c)]
            BY <3>2
      <4>2. Epoll!Broken(c) \in BOOLEAN /\ econn[c] = "watched"
            BY <4>1 DEF Epoll!Broken, Epoll!Ready
      <4>3. QED
            BY <4>1, <4>2
    <3>3. QED
          BY <3>1, <3>2 DEF Epoll!Due
  <2>3. Epoll!Due \subseteq [of : EpollClient \cup {Listening}, bad : BOOLEAN]
        BY <2>2
  <2>4. \A e \in Epoll!Due :
            /\ e.of # Listening => econn[e.of] = "watched"
            /\ e.bad => e.of # Listening /\ Epoll!Broken(e.of)
        BY <2>2
  <2>5. \A e, f \in Epoll!Due : e.of = f.of => e = f
    <3> SUFFICES ASSUME NEW e \in Epoll!Due, NEW f \in Epoll!Due, e.of = f.of
                 PROVE  e.bad = f.bad
        BY <2>3
    <3> QED
        BY <2>2
  <2>6. Epoll!TypeOK'
        BY <2>1, <2>3 DEF Epoll!TypeOK
  <2>7. PendingInv'
        BY <2>1, <2>4, <2>5 DEF PendingInv, Epoll!Broken
  <2>8. QED
        BY <2>1, <2>6, <2>7 DEF SentInv, QueueInv, HandInv,
             NoLiveClientForgotten, Epoll!NoLiveClientForgotten
<1>4. CASE Epoll!RoundEnds
      BY <1>4 DEF Epoll!RoundEnds, Epoll!TypeOK, SentInv, QueueInv, PendingInv,
           HandInv, NoLiveClientForgotten, Epoll!NoLiveClientForgotten, Epoll!Broken
<1>5. QED
      BY <1>1, <1>2, <1>3, <1>4

\* An event of the listening socket: the head of the queue is in no event.
LEMMA ListeningKeeps ==
    ASSUME EpollInv, Epoll!Accept \/ Epoll!AcceptFail
    PROVE  EpollInv'
<1> USE EpollAssumption DEF EpollInv
<1>1. /\ espc = "events" /\ espc' = "events" /\ eevents' \subseteq eevents
      /\ UNCHANGED <<ecl, etyped, eup, edown, ebounced, ereset, ecurrent, erunning, eedge>>
      BY DEF Epoll!Accept, Epoll!AcceptFail, Epoll!Take, Epoll!clientVars, Epoll!wire
<1>2. CASE Epoll!AcceptFail
  <2>1. UNCHANGED <<equeue, econn>>
        BY <1>2 DEF Epoll!AcceptFail, Epoll!wire
  <2>2. QED
        BY <1>1, <2>1 DEF Epoll!TypeOK, SentInv, QueueInv, PendingInv, HandInv,
             NoLiveClientForgotten, Epoll!NoLiveClientForgotten, Epoll!Broken
<1>3. CASE Epoll!Accept
  <2>1. PICK s \in {"watched", "refused"} :
            /\ equeue # <<>> /\ equeue' = Tail(equeue)
            /\ econn' = [econn EXCEPT ![Head(equeue)] = s]
        BY <1>3 DEF Epoll!Accept
  <2>2. /\ Head(equeue) = equeue[1] /\ equeue[1] \in EpollClient
        /\ equeue' \in Seq(EpollClient) /\ Len(equeue') = Len(equeue) - 1
        /\ Len(equeue) \in Nat \ {0}
        /\ \A i \in 1 .. Len(equeue') : equeue'[i] = equeue[i + 1]
        BY <2>1 DEF Epoll!TypeOK
  <2>3. \A d \in EpollClient : econn'[d] = IF d = equeue[1] THEN s ELSE econn[d]
        BY <2>1, <2>2 DEF Epoll!TypeOK
  <2>4. econn[equeue[1]] = "queued"
        BY <2>2 DEF QueueInv
  <2>5. Epoll!TypeOK'
        BY <1>1, <2>1, <2>2 DEF Epoll!TypeOK, Epoll!ConnState
  <2>6. QueueInv'
    <3>1. \A i \in 1 .. Len(equeue') :
              /\ i + 1 \in 1 .. Len(equeue) /\ i + 1 # 1
              /\ equeue[i + 1] \in EpollClient
      <4>1. \A i \in 1 .. Len(equeue') : i + 1 \in 1 .. Len(equeue) /\ i + 1 # 1
            BY <2>2
      <4>2. \A i \in 1 .. Len(equeue) : equeue[i] \in EpollClient
            BY DEF Epoll!TypeOK
      <4>3. QED
            BY <4>1, <4>2
    <3>2. \A i \in 1 .. Len(equeue') : econn'[equeue'[i]] = "queued"
      <4> TAKE i \in 1 .. Len(equeue')
      <4>1. equeue[i + 1] # equeue[1]
            BY <2>2, <3>1 DEF QueueInv
      <4>2. equeue'[i] = equeue[i + 1] /\ econn[equeue[i + 1]] = "queued"
            BY <2>2, <3>1 DEF QueueInv
      <4>3. econn'[equeue[i + 1]] = econn[equeue[i + 1]]
            BY <2>3, <3>1, <4>1
      <4>4. QED
            BY <4>2, <4>3
    <3>3. \A i, j \in 1 .. Len(equeue') : equeue'[i] = equeue'[j] => i = j
          BY <2>2, <3>1 DEF QueueInv
    <3>4. QED
          BY <3>2, <3>3 DEF QueueInv
  <2>7. PendingInv'
    <3>1. \A e \in eevents : e.of \in EpollClient \cup {Listening}
          BY DEF Epoll!TypeOK
    <3>2. \A e \in eevents : e.of # Listening => econn'[e.of] = "watched"
          BY <1>1, <2>3, <2>4, <3>1 DEF PendingInv
    <3>3. QED
          BY <1>1, <3>2 DEF PendingInv, Epoll!Broken
  <2>8. SentInv' /\ HandInv'
        BY <1>1 DEF SentInv, HandInv
  <2>9. NoLiveClientForgotten'
        BY <1>1, <2>3 DEF NoLiveClientForgotten, Epoll!NoLiveClientForgotten
  <2>10. QED
        BY <2>5, <2>6, <2>7, <2>8, <2>9
<1>4. QED
      BY <1>2, <1>3

\* The server gives up the connection of an ended client, on which there is no
\* event left.
LEMMA LeavesKeeps ==
    ASSUME EpollInv, NEW c \in EpollClient, NEW s \in {"closed", "eof"},
           espc # "exit", ecl[c] # "on", econn[c] = "watched",
           espc' = "events", econn' = [econn EXCEPT ![c] = s],
           eevents' \subseteq eevents, \A e \in eevents' : e.of # c,
           eup' \in [EpollClient -> Nat], \A d \in EpollClient : eup'[d] <= eup[d],
           ecurrent' \in EpollClient \cup {Listening},
           UNCHANGED <<ecl, etyped, edown, ebounced, ereset, equeue, erunning, eedge>>
    PROVE  EpollInv'
<1> USE EpollAssumption DEF EpollInv
<1>1. \A d \in EpollClient : econn'[d] = IF d = c THEN s ELSE econn[d]
      BY DEF Epoll!TypeOK
<1>2. Epoll!TypeOK'
  <2>1. \A d \in EpollClient :
            /\ eup'[d] \in Nat /\ eup[d] \in Nat /\ Typed[d] \in Nat
            /\ eup'[d] <= eup[d] /\ eup[d] <= Typed[d]
        BY DEF Epoll!TypeOK
  <2>2. \A d \in EpollClient : eup'[d] <= Typed[d]
        BY <2>1
  <2>3. QED
        BY <2>2 DEF Epoll!TypeOK, Epoll!ConnState
<1>3. SentInv' /\ HandInv'
  <2>1. \A d \in EpollClient :
            /\ eup'[d] \in Nat /\ eup[d] \in Nat /\ etyped[d] \in Nat
            /\ eup'[d] <= eup[d] /\ eup[d] <= etyped[d]
        BY DEF Epoll!TypeOK, SentInv
  <2>2. \A d \in EpollClient : eup'[d] <= etyped[d]
        BY <2>1
  <2>3. QED
        BY <2>2 DEF SentInv, HandInv
<1>4. QueueInv'
  <2>1. \A i \in 1 .. Len(equeue) : equeue[i] \in EpollClient
        BY DEF Epoll!TypeOK
  <2>2. QED
        BY <1>1, <2>1 DEF QueueInv
<1>5. PendingInv'
  <2>1. \A e \in eevents : e.of \in EpollClient \cup {Listening}
        BY DEF Epoll!TypeOK
  <2>2. QED
        BY <1>1, <2>1 DEF PendingInv, Epoll!Broken
<1>6. NoLiveClientForgotten'
      BY <1>1 DEF NoLiveClientForgotten, Epoll!NoLiveClientForgotten
<1>7. QED
      BY <1>2, <1>3, <1>4, <1>5, <1>6

\* Whoever the error event or a reset is about has ended.
LEMMA BrokenHasEnded ==
    ASSUME EpollInv, NEW c \in EpollClient, Epoll!Broken(c)
    PROVE  ecl[c] # "on"
BY DEF EpollInv, SentInv, Epoll!Broken, Epoll!TypeOK

\* An event of a client.
LEMMA EventKeeps ==
    ASSUME EpollInv, NEW c \in EpollClient,
           Epoll!ErrorEvent(c) \/ Epoll!RecvByte(c) \/ Epoll!RecvEof(c)
    PROVE  EpollInv'
<1> USE EpollAssumption DEF EpollInv, Epoll!clientVars, Epoll!wire
<1>1. PICK b \in BOOLEAN : Epoll!Take([of |-> c, bad |-> b]) /\ (Epoll!ErrorEvent(c) => b)
      BY DEF Epoll!ErrorEvent, Epoll!RecvByte, Epoll!RecvEof
<1>2. /\ espc = "events" /\ [of |-> c, bad |-> b] \in eevents
      /\ eevents' = eevents \ {[of |-> c, bad |-> b]}
      BY <1>1 DEF Epoll!Take
<1>3. /\ econn[c] = "watched" /\ (b => Epoll!Broken(c))
      /\ \A e \in eevents' : e.of # c
      BY <1>2 DEF PendingInv
<1>4. CASE Epoll!ErrorEvent(c)
  <2>1. ecl[c] # "on"
        BY <1>1, <1>3, <1>4, BrokenHasEnded
  <2>2. eup' \in [EpollClient -> Nat] /\ \A d \in EpollClient : eup'[d] <= eup[d]
    <3>1. eup' = [eup EXCEPT ![c] = 0] /\ eup \in [EpollClient -> Nat]
          BY <1>4 DEF Epoll!ErrorEvent, Epoll!Close, Epoll!TypeOK
    <3>2. QED
          BY <3>1
  <2>3. QED
        BY <1>2, <1>3, <1>4, <2>1, <2>2, LeavesKeeps
        DEF Epoll!ErrorEvent, Epoll!Close, Epoll!TypeOK
<1>5. CASE Epoll!RecvByte(c)
  <2>1. /\ eup[c] > 0 /\ eup' = [eup EXCEPT ![c] = @ - 1]
        /\ ecurrent' = c /\ espc' = "send"
        /\ UNCHANGED <<ecl, etyped, edown, ebounced, ereset, equeue, econn, erunning,
                       eedge>>
        BY <1>5 DEF Epoll!RecvByte
  <2>2. \A d \in EpollClient : eup'[d] = IF d = c THEN eup[d] - 1 ELSE eup[d]
        BY <2>1 DEF Epoll!TypeOK
  <2>3. Epoll!TypeOK'
        BY <1>2, <2>1, <2>2 DEF Epoll!TypeOK
  <2>4. SentInv' /\ QueueInv'
        BY <2>1, <2>2 DEF Epoll!TypeOK, SentInv, QueueInv
  <2>5. PendingInv' /\ HandInv'
        BY <1>2, <1>3, <2>1 DEF PendingInv, HandInv, Epoll!Broken
  <2>6. NoLiveClientForgotten'
        BY <1>2, <2>1 DEF NoLiveClientForgotten, Epoll!NoLiveClientForgotten
  <2>7. QED
        BY <2>3, <2>4, <2>5, <2>6
<1>6. CASE Epoll!RecvEof(c)
  <2>1. /\ ecl[c] # "on" /\ econn' = [econn EXCEPT ![c] = "eof"] /\ espc' = espc
        /\ UNCHANGED <<ecl, etyped, eup, edown, ebounced, ereset, equeue, ecurrent,
                       erunning, eedge>>
        BY <1>6 DEF Epoll!RecvEof
  <2>2. eup' \in [EpollClient -> Nat] /\ \A d \in EpollClient : eup'[d] <= eup[d]
        BY <2>1 DEF Epoll!TypeOK
  <2>3. ecurrent' \in EpollClient \cup {Listening}
        BY <2>1 DEF Epoll!TypeOK
  <2>4. QED
        BY <1>2, <1>3, <2>1, <2>2, <2>3, LeavesKeeps
<1>7. QED
      BY <1>4, <1>5, <1>6

\* The byte in hand is sent, or not.
LEMMA SendKeeps ==
    ASSUME EpollInv,
           \/ Epoll!SendByte \/ Epoll!SendWouldBlock \/ Epoll!SendToEnded
           \/ Epoll!SendFail \/ Epoll!SendSigPipe
    PROVE  EpollInv'
<1> USE EpollAssumption DEF EpollInv, Epoll!clientVars, Epoll!wire
<1>1. /\ espc = "send" /\ ecurrent' = Listening
      /\ UNCHANGED <<ecl, etyped, eevents, erunning, eedge>>
      BY DEF Epoll!SendByte, Epoll!SendWouldBlock, Epoll!SendToEnded, Epoll!SendFail,
             Epoll!SendSigPipe, Epoll!Sent, Epoll!SGoto
<1>2. /\ ecurrent \in EpollClient /\ econn[ecurrent] = "watched"
      /\ \A e \in eevents : e.of # ecurrent
      BY <1>1 DEF HandInv
<1>3. CASE Epoll!SendByte \/ Epoll!SendWouldBlock \/ Epoll!SendToEnded
  <2>1. /\ espc' = "events" /\ UNCHANGED <<eup, ereset, equeue, econn>>
        /\ edown' \in [EpollClient -> 0 .. EpollWindow]
        /\ ebounced \subseteq ebounced' /\ ebounced' \subseteq EpollClient
        /\ \A d \in ebounced' : ecl[d] = "fin"
    <3> USE DEF Epoll!Sent, Epoll!SGoto, Epoll!TypeOK, SentInv
    <3>1. CASE Epoll!SendByte
          BY <1>2, <3>1 DEF Epoll!SendByte
    <3>2. CASE Epoll!SendWouldBlock
          BY <1>2, <3>2 DEF Epoll!SendWouldBlock
    <3>3. CASE Epoll!SendToEnded
          BY <1>2, <3>3 DEF Epoll!SendToEnded
    <3>4. QED
          BY <1>3, <3>1, <3>2, <3>3
  <2>2. Epoll!TypeOK'
        BY <1>1, <2>1 DEF Epoll!TypeOK
  <2>3. SentInv' /\ QueueInv' /\ HandInv'
        BY <1>1, <2>1 DEF SentInv, QueueInv, HandInv
  <2>4. PendingInv'
        BY <1>1, <2>1 DEF PendingInv, Epoll!Broken
  <2>5. NoLiveClientForgotten'
        BY <1>1, <2>1 DEF NoLiveClientForgotten, Epoll!NoLiveClientForgotten
  <2>6. QED
        BY <2>2, <2>3, <2>4, <2>5
<1>4. CASE Epoll!SendFail
  <2>1. ecl[ecurrent] # "on" /\ espc' = "events"
        /\ econn' = [econn EXCEPT ![ecurrent] = "closed"]
        /\ UNCHANGED <<edown, ebounced, ereset, equeue>>
        BY <1>4 DEF Epoll!SendFail, Epoll!Close, Epoll!Sent, Epoll!SGoto
  <2>2. eup' \in [EpollClient -> Nat] /\ \A d \in EpollClient : eup'[d] <= eup[d]
    <3>1. eup' = [eup EXCEPT ![ecurrent] = 0] /\ eup \in [EpollClient -> Nat]
          BY <1>4 DEF Epoll!SendFail, Epoll!Close, Epoll!TypeOK
    <3>2. QED
          BY <1>2, <3>1
  <2>3. QED
        BY <1>1, <1>2, <2>1, <2>2, LeavesKeeps
<1>5. CASE Epoll!SendSigPipe
  <2>1. /\ espc' = "exit" /\ equeue' = <<>>
        /\ econn' = [c \in EpollClient |-> "closed"]
        /\ UNCHANGED <<eup, edown, ebounced, ereset>>
        BY <1>5 DEF Epoll!SendSigPipe, Epoll!Sent, Epoll!SGoto
  <2>2. QED
        BY <1>1, <2>1 DEF Epoll!TypeOK, Epoll!ConnState, SentInv, QueueInv, PendingInv,
             HandInv, NoLiveClientForgotten, Epoll!NoLiveClientForgotten
<1>6. QED
      BY <1>3, <1>4, <1>5

\* Every step of the run preserves the invariant.
LEMMA EpollStep == EpollInv /\ [EchoNext]_echo => EpollInv'
<1> SUFFICES ASSUME EpollInv, [EchoNext]_echo PROVE EpollInv'
    OBVIOUS
<1>1. CASE UNCHANGED eVars
      BY <1>1 DEF eVars, EpollInv, Epoll!TypeOK, SentInv, QueueInv, PendingInv, HandInv,
           NoLiveClientForgotten, Epoll!NoLiveClientForgotten, Epoll!Broken
<1>2. CASE Epoll!Next
  <2>1. CASE Epoll!ClientStep
        BY <2>1, ConnectKeeps, EpollClientKeeps DEF Epoll!ClientStep
  <2>2. CASE Epoll!ServerStep \/ Epoll!SigInt
        BY <2>2, RoundKeeps, ListeningKeeps, EventKeeps, SendKeeps DEF Epoll!ServerStep
  <2>3. QED
        BY <1>2, <2>1, <2>2 DEF Epoll!Next
<1>3. QED
      BY <1>1, <1>2, OtherServers

\* No client that is still there is forgotten by the epoll echo server, for any
\* number of clients and descriptors and whatever the order of its events.
THEOREM LiveClientsAreKnown == EchoSpec => []NoLiveClientForgotten
<1>1. EchoInit => EpollInv
      BY EpollInit DEF EchoInit
<1>2. EpollInv => NoLiveClientForgotten
      BY DEF EpollInv
<1>3. QED
      BY EpollStep, <1>1, <1>2, PTL DEF EchoSpec

-----------------------------------------------------------------------------
(* The select echo servers *)

\* The two ways of keeping the set agree, and the client being served is not
\* among those the scan has still to reach.
SetsInv ==
    /\ sdupli = scli
    /\ sspc \in {"recv", "send"} => scurrent \in scli \ sdue

\* What select has reported stays readable until the scan gets there, and while
\* the server is not about to stop nothing else is in its set.
ReadableInv ==
    srunning =>
        /\ sspc \in {"accept", "scan", "recv", "send"} =>
               \A c \in sdue : Sel!Readable(c)
        /\ sspc = "recv" => Sel!Readable(scurrent)

SelectInv == Sel!TypeOK /\ SetsInv /\ ReadableInv

LEMMA SelectInit == Sel!Init => SelectInv
<1> SUFFICES ASSUME Sel!Init PROVE SelectInv
    OBVIOUS
<1> USE SelectAssumption DEF Sel!Init
<1>1. Sel!TypeOK
      BY DEF Sel!TypeOK
<1>2. SetsInv /\ ReadableInv
      BY DEF SetsInv, ReadableInv
<1>3. QED
      BY <1>1, <1>2 DEF SelectInv

LEMMA LeastBound ==
    \A a, b \in Nat :
        Sel!Least(a, b) \in Nat /\ Sel!Least(a, b) <= a /\ Sel!Least(a, b) <= b
BY DEF Sel!Least

\* A client makes nothing unreadable.
LEMMA SelectClientKeeps ==
    ASSUME SelectInv, Sel!ClientNext
    PROVE  SelectInv'
<1> USE SelectAssumption DEF SelectInv
<1>1. PICK c \in SelectClient :
          \/ Sel!Connect(c) \/ Sel!ClientSelect(c) \/ Sel!ClientSend(c)
          \/ Sel!ClientRecv(c) \/ Sel!ClientEnd(c)
      BY DEF Sel!ClientNext, Sel!ClientWorks
<1>2. UNCHANGED <<sversion, shung, scli, sdupli, sdue, scurrent, sbuffer, sbroken,
                  sspc, srunning>>
      BY <1>1 DEF Sel!Connect, Sel!ClientSelect, Sel!ClientSend, Sel!ClientRecv,
           Sel!ClientEnd, Sel!serverVars
<1>3. /\ Sel!TypeOK'
      /\ \A d \in SelectClient : sup'[d] >= sup[d] /\ (Sel!Ended(d) => Sel!Ended(d)')
  <2> USE DEF Sel!TypeOK, Sel!Ended
  <2>1. CASE Sel!Connect(c)
    <3>1. squeue' = Append(squeue, c)
          BY <2>1 DEF Sel!Connect
    <3>2. squeue' \in Seq(SelectClient)
          BY <3>1
    <3>3. QED
          BY <1>2, <2>1, <3>2, SMTT(20) DEF Sel!Connect, Sel!CGoto
  <2>2. CASE Sel!ClientSelect(c)
    <3>1. 0 .. (IF c \in Typist THEN Line ELSE 0) \subseteq 0 .. Line
          OBVIOUS
    <3>2. PICK n \in 0 .. (IF c \in Typist THEN Line ELSE 0) :
              /\ Sel!CGoto(c, "select", IF n > 0 THEN "send" ELSE "recv")
              /\ sleft' = [sleft EXCEPT ![c] = n]
              /\ IF sdown[c] > 0 \/ c \in shung
                    THEN sheard' = sheard \cup {c}
                    ELSE n > 0 /\ UNCHANGED sheard
              /\ UNCHANGED <<sup, sdown, sreset, squeue>>
          BY <2>2 DEF Sel!ClientSelect, Sel!wire
    <3>3. /\ n \in 0 .. Line /\ scl[c] = "select"
          /\ \E l \in {"send", "recv"} : scl' = [scl EXCEPT ![c] = l]
          /\ sheard' \in SUBSET SelectClient
          BY <3>1, <3>2 DEF Sel!CGoto
    <3>4. \A d \in SelectClient : sup'[d] >= sup[d]
          BY <3>2
    <3>5. QED
          BY <1>2, <3>2, <3>3, <3>4
  <2>3. CASE Sel!ClientSend(c)
    <3>0. sleft[c] \in Nat /\ SelectWindow - sup[c] \in Nat
          OBVIOUS
    <3>1. PICK n \in Nat :
              /\ n = Sel!Least(sleft[c], SelectWindow - sup[c])
              /\ n <= sleft[c] /\ n <= SelectWindow - sup[c]
          BY <3>0, LeastBound
    <3>2. /\ sleft' = [sleft EXCEPT ![c] = @ - n] /\ sup' = [sup EXCEPT ![c] = @ + n]
          /\ scl[c] = "send"
          /\ \E l \in {"send", "recv", "select"} : scl' = [scl EXCEPT ![c] = l]
          /\ UNCHANGED <<sheard, sdown, sreset, squeue>>
          BY <2>3, <3>1 DEF Sel!ClientSend, Sel!CGoto
    <3>3. sleft[c] - n \in 0 .. Line /\ sup[c] + n \in 0 .. SelectWindow
          BY <3>1
    <3>4. /\ sleft' \in [SelectClient -> 0 .. Line]
          /\ sup' \in [SelectClient -> 0 .. SelectWindow]
          BY <3>2, <3>3
    <3>5. \A d \in SelectClient : sup'[d] >= sup[d]
      <4> SUFFICES ASSUME NEW d \in SelectClient PROVE sup'[d] >= sup[d]
          OBVIOUS
      <4>1. sup'[d] = IF d = c THEN sup[d] + n ELSE sup[d]
            BY <3>2
      <4>2. sup[d] \in Nat
            OBVIOUS
      <4>3. QED
            BY <3>1, <4>1, <4>2
    <3>6. Sel!TypeOK'
      <4>1. scl' \in [SelectClient -> {"off", "select", "send", "recv", "fin", "rst"}]
            BY <3>2
      <4>2. UNCHANGED <<sheard, sdown, sreset, squeue>>
            BY <3>2
      <4>3. QED
            BY <1>2, <3>4, <4>1, <4>2
    <3>7. \A d \in SelectClient : Sel!Ended(d) => Sel!Ended(d)'
          BY <3>2, SMTT(20)
    <3>8. QED
          BY <3>5, <3>6, <3>7
  <2>4. CASE Sel!ClientRecv(c)
    <3>1. PICK n \in Nat : n = Sel!Least(sdown[c], Chunk) /\ n <= sdown[c]
      <4>1. sdown[c] \in Nat /\ Chunk \in Nat
            OBVIOUS
      <4>2. QED
            BY <4>1, LeastBound
    <3>2. /\ sdown' = [sdown EXCEPT ![c] = @ - n]
          /\ scl' = [scl EXCEPT ![c] = "select"] /\ scl[c] = "recv"
          /\ sheard' = sheard \ {c} /\ UNCHANGED <<sleft, sup, sreset, squeue>>
          BY <2>4, <3>1 DEF Sel!ClientRecv, Sel!CGoto
    <3>3. sdown[c] - n \in 0 .. SelectWindow
          BY <3>1
    <3>4. \A d \in SelectClient : sup'[d] >= sup[d]
          BY <3>2
    <3>5. QED
          BY <1>2, <3>2, <3>3, <3>4
  <2>5. CASE Sel!ClientEnd(c)
        BY <1>2, <2>5 DEF Sel!ClientEnd
  <2>6. QED
        BY <1>1, <2>1, <2>2, <2>3, <2>4, <2>5
<1>4. SetsInv'
      BY <1>2 DEF SetsInv
<1>5. ReadableInv'
  <2>1. \A d \in SelectClient : Sel!Readable(d) => Sel!Readable(d)'
    <3>1. \A d \in SelectClient : sup[d] \in Nat /\ sup'[d] \in Nat
          BY <1>3 DEF Sel!TypeOK
    <3>2. QED
          BY <1>3, <3>1 DEF Sel!Readable
  <2>2. sdue \subseteq SelectClient /\ scurrent \in SelectClient
        BY DEF Sel!TypeOK
  <2>3. QED
        BY <1>2, <2>1, <2>2 DEF ReadableInv
<1>6. QED
      BY <1>3, <1>4, <1>5

\* The server's steps that move no bytes: what select has reported stays so.
LEMMA SelectLoopKeeps ==
    ASSUME SelectInv,
           \/ Sel!Test \/ Sel!Select \/ Sel!Accept \/ Sel!AcceptFail \/ Sel!ScanEnds
           \/ \E c \in SelectClient : Sel!Ignore(c) \/ Sel!Serve(c)
    PROVE  SelectInv'
<1> USE SelectAssumption DEF SelectInv, Sel!Unmoved, Sel!clientVars, Sel!wire, Sel!SGoto
<1>1. UNCHANGED <<scl, sleft, sheard, sup, sdown, sreset, sversion, sbuffer, sbroken,
                  srunning>>
      BY DEF Sel!Test, Sel!Select, Sel!Accept, Sel!AcceptFail, Sel!ScanEnds,
             Sel!Ignore, Sel!Serve
<1>2. \A d : Sel!Readable(d)' <=> Sel!Readable(d)
      BY <1>1 DEF Sel!Readable, Sel!Ended
<1>3. CASE Sel!Test
      BY <1>1, <1>3 DEF Sel!Test, Sel!TypeOK, SetsInv, ReadableInv
<1>4. CASE Sel!Select
  <2>1. Sel!Watching = scli
        BY DEF Sel!Watching, SetsInv
  <2>2. sdue' = {c \in scli : Sel!Readable(c)}
        BY <1>4, <2>1 DEF Sel!Select, Sel!Reported
  <2>3. sspc' \in {"accept", "scan"} /\ UNCHANGED <<squeue, shung, scli, sdupli, scurrent>>
        BY <1>4 DEF Sel!Select
  <2>4. Sel!TypeOK'
        BY <1>1, <2>2, <2>3 DEF Sel!TypeOK
  <2>5. SetsInv' /\ ReadableInv'
        BY <1>2, <2>2, <2>3 DEF SetsInv, ReadableInv
  <2>6. QED
        BY <2>4, <2>5
<1>5. CASE Sel!Accept
  <2>1. /\ sspc = "accept" /\ sspc' = "scan" /\ squeue # <<>> /\ squeue' = Tail(squeue)
        /\ \/ /\ scli' = scli \cup {Head(squeue)} /\ sdupli' = sdupli \cup {Head(squeue)}
              /\ UNCHANGED shung
           \/ shung' = shung \cup {Head(squeue)} /\ UNCHANGED <<scli, sdupli>>
        /\ UNCHANGED <<sdue, scurrent>>
        BY <1>5 DEF Sel!Accept
  <2>2. Head(squeue) \in SelectClient /\ squeue' \in Seq(SelectClient)
        BY <2>1 DEF Sel!TypeOK
  <2>3. Sel!TypeOK'
        BY <1>1, <2>1, <2>2 DEF Sel!TypeOK
  <2>4. SetsInv' /\ ReadableInv'
        BY <1>1, <1>2, <2>1 DEF SetsInv, ReadableInv
  <2>5. QED
        BY <2>3, <2>4
<1>6. CASE Sel!AcceptFail \/ Sel!ScanEnds
  <2>1. /\ (sspc = "accept" /\ sspc' = "scan") \/ sspc' = "test"
        /\ UNCHANGED <<squeue, shung, scli, sdupli, sdue, scurrent>>
        BY <1>6 DEF Sel!AcceptFail, Sel!ScanEnds
  <2>2. QED
        BY <1>1, <1>2, <2>1 DEF Sel!TypeOK, SetsInv, ReadableInv
<1>7. ASSUME NEW c \in SelectClient, Sel!Ignore(c)
      PROVE  SelectInv'
  <2>1. /\ sspc = "scan" /\ sspc' = "scan" /\ sdue' = sdue \ {c}
        /\ UNCHANGED <<squeue, shung, scli, sdupli, scurrent>>
        BY <1>7 DEF Sel!Ignore
  <2>2. QED
        BY <1>1, <1>2, <2>1 DEF Sel!TypeOK, SetsInv, ReadableInv
<1>8. ASSUME NEW c \in SelectClient, Sel!Serve(c)
      PROVE  SelectInv'
  <2>1. /\ sspc = "scan" /\ sspc' = "recv" /\ c \in sdue /\ sdue' = sdue \ {c}
        /\ scurrent' = c
        /\ UNCHANGED <<squeue, shung, scli, sdupli>>
        BY <1>8 DEF Sel!Serve
  <2>2. Sel!TypeOK' /\ SetsInv'
        BY <1>1, <2>1 DEF Sel!TypeOK, SetsInv
  <2>3. ReadableInv'
        BY <1>1, <1>2, <2>1 DEF ReadableInv
  <2>4. QED
        BY <2>2, <2>3
<1>9. QED
      BY <1>3, <1>4, <1>5, <1>6, <1>7, <1>8

\* Reading and sending concern the client being served, which is not in the set
\* any more.
LEMMA ServeKeeps ==
    ASSUME SelectInv,
           \/ Sel!Recv \/ Sel!Drop \/ Sel!Send \/ Sel!SendToEnded
           \/ Sel!SendFail \/ Sel!SendSigPipe
    PROVE  SelectInv'
<1> USE SelectAssumption DEF SelectInv, Sel!Unmoved, Sel!clientVars, Sel!wire, Sel!SGoto
<1>1. /\ sspc \in {"recv", "send"} /\ sspc' \in {"send", "scan", "exit"}
      /\ sspc' = "exit" => sspc = "send"
      /\ UNCHANGED <<scl, sleft, sheard, sversion, squeue, sdue, scurrent, srunning>>
      BY DEF Sel!Recv, Sel!Drop, Sel!Send, Sel!SendToEnded, Sel!SendFail, Sel!SendSigPipe
<1>2. scurrent \in scli \ sdue /\ scurrent \in SelectClient /\ sdupli = scli
      BY <1>1 DEF SetsInv, Sel!TypeOK
<1>3. Sel!TypeOK'
  <2> USE DEF Sel!TypeOK
  <2>1. CASE Sel!Recv
    <3>0. /\ sup[scurrent] \in Nat /\ sbuffer[scurrent] \in Nat
          /\ Chunk \in Nat /\ Chunk - 1 \in Nat
          BY <1>2
    <3>1. PICK n \in Nat : n = Sel!Least(sup[scurrent], Chunk) /\ n <= sup[scurrent]
          BY <3>0, LeastBound
    <3>2. PICK m \in Nat : m = Sel!Least(sbuffer[scurrent] + n, Chunk - 1) /\ m <= Chunk - 1
      <4>1. sbuffer[scurrent] + n \in Nat
            BY <3>0, <3>1
      <4>2. QED
            BY <3>0, <4>1, LeastBound
    <3>3. /\ sup' = [sup EXCEPT ![scurrent] = @ - n]
          /\ sbuffer' = [sbuffer EXCEPT ![scurrent] = m]
          /\ UNCHANGED <<sdown, sreset, shung, scli, sdupli, sbroken>>
          BY <2>1, <3>1, <3>2 DEF Sel!Recv
    <3>4. sup[scurrent] - n \in 0 .. SelectWindow /\ m \in 0 .. Chunk - 1
          BY <1>2, <3>1, <3>2
    <3>5. QED
          BY <1>1, <3>3, <3>4
  <2>2. CASE Sel!Drop
    <3>1. 0 \in 0 .. Chunk - 1
          OBVIOUS
    <3>2. QED
          BY <1>1, <1>2, <2>2, <3>1 DEF Sel!Drop
  <2>3. CASE Sel!Send
    <3>0. sbuffer[scurrent] \in Nat /\ SelectWindow - sdown[scurrent] \in Nat
          BY <1>2
    <3>1. PICK n \in Nat :
              /\ n = Sel!Least(sbuffer[scurrent], SelectWindow - sdown[scurrent])
              /\ n <= sbuffer[scurrent] /\ n <= SelectWindow - sdown[scurrent]
          BY <3>0, LeastBound
    <3>2. /\ sdown' = [sdown EXCEPT ![scurrent] = @ + n]
          /\ sbuffer' = [sbuffer EXCEPT ![scurrent] = @ - n]
          /\ UNCHANGED <<sup, sreset, shung, scli, sdupli, sbroken>>
          BY <2>3, <3>1 DEF Sel!Send
    <3>3. /\ sdown[scurrent] + n \in 0 .. SelectWindow
          /\ sbuffer[scurrent] - n \in 0 .. Chunk - 1
          BY <1>2, <3>1
    <3>4. QED
          BY <1>1, <3>2, <3>3
  <2>4. CASE Sel!SendToEnded
    <3>1. 0 \in 0 .. Chunk - 1
          OBVIOUS
    <3>2. QED
          BY <1>1, <1>2, <2>4, <3>1 DEF Sel!SendToEnded
  <2>5. CASE Sel!SendFail \/ Sel!SendSigPipe
        BY <1>1, <1>2, <2>5 DEF Sel!SendFail, Sel!SendSigPipe
  <2>6. QED
        BY <2>1, <2>2, <2>3, <2>4, <2>5
<1>4. SetsInv'
  <2>1. sdupli' = scli' /\ (sspc' = "send" => scli' = scli)
        BY <1>1, <1>2 DEF Sel!Recv, Sel!Drop, Sel!Send, Sel!SendToEnded, Sel!SendFail,
             Sel!SendSigPipe
  <2>2. QED
        BY <1>1, <1>2, <2>1 DEF SetsInv
<1>5. ReadableInv'
  <2>1. \A d \in SelectClient \ {scurrent} : sup'[d] = sup[d]
        BY <1>2 DEF Sel!Recv, Sel!Drop, Sel!Send, Sel!SendToEnded, Sel!SendFail,
             Sel!SendSigPipe, Sel!TypeOK
  <2>2. \A d \in sdue : Sel!Readable(d) => Sel!Readable(d)'
        BY <1>1, <1>2, <2>1 DEF Sel!Readable, Sel!Ended, Sel!TypeOK
  <2>3. QED
        BY <1>1, <2>2 DEF ReadableInv
<1>6. QED
      BY <1>3, <1>4, <1>5

\* After a signal nothing is asked any more of what is in the set.
LEMMA SignalKeeps ==
    ASSUME SelectInv,
           Sel!Signal \/ Sel!SignalInSelect \/ Sel!SignalInSend \/ Sel!SignalInRecv
    PROVE  SelectInv'
<1> USE SelectAssumption DEF SelectInv, Sel!Unmoved, Sel!clientVars, Sel!wire, Sel!SGoto
<1>1. ReadableInv'
      BY DEF Sel!Signal, Sel!SignalInSelect, Sel!SignalInSend, Sel!SignalInRecv, ReadableInv
<1>2. CASE Sel!Signal
      BY <1>1, <1>2 DEF Sel!Signal, Sel!TypeOK, SetsInv
<1>3. CASE Sel!SignalInSelect
      BY <1>1, <1>3 DEF Sel!SignalInSelect, Sel!TypeOK, SetsInv
<1>4. CASE Sel!SignalInSend
      BY <1>1, <1>4 DEF Sel!SignalInSend, Sel!TypeOK, SetsInv
<1>5. CASE Sel!SignalInRecv
  <2>1. scurrent \in scli \ sdue
        BY <1>5 DEF Sel!SignalInRecv, SetsInv
  <2>2. QED
        BY <1>1, <1>5, <2>1 DEF Sel!SignalInRecv, Sel!TypeOK, SetsInv
<1>6. QED
      BY <1>2, <1>3, <1>4, <1>5

\* Every step of the run preserves the invariant.
LEMMA SelectStep == SelectInv /\ [EchoNext]_echo => SelectInv'
<1> SUFFICES ASSUME SelectInv, [EchoNext]_echo PROVE SelectInv'
    OBVIOUS
<1>1. CASE UNCHANGED sVars
      BY <1>1 DEF sVars, SelectInv, Sel!TypeOK, SetsInv, ReadableInv,
           Sel!Readable, Sel!Ended
<1>2. CASE Sel!Next
      BY <1>2, SelectClientKeeps, SelectLoopKeeps, ServeKeeps, SignalKeeps
      DEF Sel!Next, Sel!ServerStep
<1>3. QED
      BY <1>1, <1>2, OtherServers

\* The select servers wait for a silent client only when they are about to stop,
\* for any number of clients, slots and bytes and all three versions.
THEOREM BlocksWhenStopping == EchoSpec => []BlocksOnlyWhenStopping
<1>1. EchoInit => SelectInv
      BY SelectInit DEF EchoInit
<1>2. SelectInv => BlocksOnlyWhenStopping
      BY DEF SelectInv, ReadableInv, BlocksOnlyWhenStopping, Sel!BlocksOnlyWhenStopping
<1>3. QED
      BY SelectStep, <1>1, <1>2, PTL DEF EchoSpec
==============================================================================
