---------------------------- MODULE AuditModule -----------------------------
(***************************************************************************)
(* netlink_demo/: a kernel module that puts hacked_open into the system    *)
(* call table and sends a record of every audited open over a netlink      *)
(* socket to the daemon that has registered last.  Nothing counts the      *)
(* calls that are inside hacked_open when the module is unloaded.          *)
(*                                                                         *)
(* THIS_MODULE makes every socket of the protocol that is opened while the *)
(* module's is there a reference to the module, which cannot be unloaded   *)
(* as long as there is one.  A daemon started earlier holds none, and      *)
(* nobody notices that its registration fails.                             *)
(*                                                                         *)
(* What hacked_open does to a call without any unloading is left out: that *)
(* it reads the user's pointer itself, and clears the memory kmalloc has   *)
(* returned without a look at it.                                          *)
(***************************************************************************)
EXTENDS Naturals

CONSTANTS
    Caller,     \* processes that call open
    Daemon,     \* audit daemons, named by their pid
    Backlog,    \* records a daemon's socket holds
    Nobody      \* the 0 of pid

VARIABLES
    module,     \* "out", "hooked", "in", "unhooked", "released"
    hooked,     \* the table leads to hacked_open
    nl_sk,      \* the module's socket: "none", "open", "released"
    pid,        \* the registered daemon, or Nobody
    pc,         \* a caller: "user", "orig", "send", "oops"
    caught,     \* callers that were inside hacked_open when it was unhooked
    freed,      \* callers whose hacked_open is no longer there
    daemon,     \* "off", "bound", "listening"
    holds,      \* daemons whose socket refers to the module
    inbox       \* records on their way to each daemon

moduleVars == <<module, hooked, nl_sk, pid>>
daemonVars == <<daemon, holds, inbox>>
callVars == <<pc, caught, freed>>
vars == <<moduleVars, callVars, daemonVars>>

Init ==
    /\ module = "out" /\ hooked = FALSE /\ nl_sk = "none" /\ pid = Nobody
    /\ pc = [c \in Caller |-> "user"] /\ caught = {} /\ freed = {}
    /\ daemon = [d \in Daemon |-> "off"] /\ holds = {}
    /\ inbox = [d \in Daemon |-> 0]

InHook == {c \in Caller : pc[c] \in {"orig", "send"}}
MGoto(from, to) == module = from /\ module' = to

-----------------------------------------------------------------------------
(* insmod and rmmod *)

\* orig_open is stored before the table is changed: no call misses it.
Hook ==
    /\ MGoto("out", "hooked")
    /\ hooked' = TRUE /\ nl_sk' = "none" /\ pid' = Nobody
    /\ UNCHANGED <<callVars, daemonVars>>

\* Without a socket the module stays, and sends nothing.
CreateSocket ==
    /\ MGoto("hooked", "in")
    /\ nl_sk' \in {"open", "none"}
    /\ UNCHANGED <<hooked, pid, callVars, daemonVars>>

\* Variant: the table entry is not put back.
UnhookForgotten ==
    /\ MGoto("in", "unhooked") /\ holds = {}
    /\ caught' = caught \cup InHook
    /\ UNCHANGED <<hooked, nl_sk, pid, pc, freed, daemonVars>>

Unhook ==
    /\ MGoto("in", "unhooked") /\ holds = {}
    /\ hooked' = FALSE /\ caught' = caught \cup InHook
    /\ UNCHANGED <<nl_sk, pid, pc, freed, daemonVars>>

\* nl_sk keeps pointing at the socket.
Release ==
    /\ MGoto("unhooked", "released")
    /\ nl_sk' = IF nl_sk = "open" THEN "released" ELSE nl_sk
    /\ UNCHANGED <<hooked, pid, callVars, daemonVars>>

\* The kernel frees the module's text, whoever may be about to return to it.
Free ==
    /\ MGoto("released", "out")
    /\ freed' = freed \cup InHook
    /\ UNCHANGED <<hooked, nl_sk, pid, pc, caught, daemonVars>>

ModuleStep == Hook \/ CreateSocket \/ Unhook \/ Release \/ Free

-----------------------------------------------------------------------------
(* Calls of open *)

CGoto(c, from, to) == pc[c] = from /\ pc' = [pc EXCEPT ![c] = to]

\* A call that finds the table unhooked concerns nobody here.
Open(c) ==
    /\ hooked /\ CGoto(c, "user", "orig")
    /\ UNCHANGED <<moduleVars, caught, freed, daemonVars>>

Returned(c) == caught' = caught \ {c} /\ UNCHANGED <<moduleVars, freed, daemonVars>>

\* orig_open returns into freed memory, or a record goes out on a freed socket.
Oops(c) ==
    /\ \/ c \in freed
       \/ pc[c] = "send" /\ nl_sk = "released"
    /\ pc[c] \in {"orig", "send"} /\ pc' = [pc EXCEPT ![c] = "oops"]
    /\ UNCHANGED <<moduleVars, caught, freed, daemonVars>>

\* The path is not audited, or there is no socket or no daemon.
NoRecord(c) ==
    /\ c \notin freed /\ CGoto(c, "orig", "user")
    /\ Returned(c)

Audit(c) ==
    /\ c \notin freed /\ nl_sk # "none" /\ pid # Nobody
    /\ CGoto(c, "orig", "send")
    /\ UNCHANGED <<moduleVars, caught, freed, daemonVars>>

\* The record is lost if the daemon has ended or its socket is full.
Send(c) ==
    /\ c \notin freed /\ nl_sk = "open"
    /\ CGoto(c, "send", "user") /\ caught' = caught \ {c}
    /\ inbox' = [inbox EXCEPT ![pid] =
                    IF daemon[pid] # "off" /\ @ < Backlog THEN @ + 1 ELSE @]
    /\ UNCHANGED <<moduleVars, freed, daemon, holds>>

-----------------------------------------------------------------------------
(* The daemons *)

Bind(d) ==
    /\ daemon[d] = "off" /\ daemon' = [daemon EXCEPT ![d] = "bound"]
    /\ holds' = IF module = "in" /\ nl_sk = "open" THEN holds \cup {d} ELSE holds
    /\ UNCHANGED <<moduleVars, callVars, inbox>>

\* The kernel calls nl_data_ready in the sender's context.  send_pid does not
\* look whether sendmsg has succeeded.
Register(d) ==
    /\ daemon[d] = "bound" /\ daemon' = [daemon EXCEPT ![d] = "listening"]
    /\ pid' = IF nl_sk = "open" THEN d ELSE pid
    /\ UNCHANGED <<module, hooked, nl_sk, callVars, holds, inbox>>

\* recvmsg returns the record's length; only 0 would be logged.
Receive(d) ==
    /\ daemon[d] = "listening" /\ inbox[d] > 0
    /\ inbox' = [inbox EXCEPT ![d] = @ - 1]
    /\ UNCHANGED <<moduleVars, callVars, daemon, holds>>

\* By SIGTERM or otherwise; its pid stays registered.
End(d) ==
    /\ daemon[d] # "off" /\ daemon' = [daemon EXCEPT ![d] = "off"]
    /\ holds' = holds \ {d} /\ inbox' = [inbox EXCEPT ![d] = 0]
    /\ UNCHANGED <<moduleVars, callVars>>

Next ==
    \/ ModuleStep
    \/ \E c \in Caller : Open(c) \/ Oops(c) \/ NoRecord(c) \/ Audit(c) \/ Send(c)
    \/ \E d \in Daemon : Bind(d) \/ Register(d) \/ Receive(d) \/ End(d)

Spec == Init /\ [][Next]_vars

-----------------------------------------------------------------------------
(* Properties *)

\* Unloading the module breaks the calls that are inside the hook when it is
\* taken out of the table, and no others: no later call finds the hook, the
\* freed socket or the freed text, also not after the module has come back.
OnlyCaughtCallsFail == \A c \in Caller : pc[c] = "oops" => c \in caught
=============================================================================
