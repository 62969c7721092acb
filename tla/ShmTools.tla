----------------------------- MODULE ShmTools -------------------------------
(***************************************************************************)
(* The tools of ipc/ that share a System V segment under one key.  There   *)
(* are two families: shm_get, shm_write, shm_read and shm_rm, which use    *)
(* shm_util.c, and shmget, shmwrite, shmread and shmrm, which do not.      *)
(* Both put a header (type, length) before the data, but the library's     *)
(* length counts the header and the other does not.  Nothing keeps two     *)
(* tools from using the segment at once.                                   *)
(*                                                                         *)
(* Byte i of every message is i, so what matters is only which cells have  *)
(* been filled.  The header is one cell.  A tool that finds nothing under  *)
(* the key ends at once, which changes nothing and is left out.            *)
(***************************************************************************)
EXTENDS Integers, FiniteSets

CONSTANTS
    LibWriter, LibReader,       \* processes that run shm_write and shm_read
    PlainWriter, PlainReader,   \* ... shmwrite and shmread
    Segments,   \* identifiers of segments (a bound on creations)
    Sizes,      \* sizes segments are created with
    Wants,      \* numbers given on the command line
    AtOnce,     \* tools at work at once (a bound)
    Nobody

Tool == LibWriter \cup LibReader \cup PlainWriter \cup PlainReader
Header == 1

VARIABLES
    key,        \* the segment the key leads to, or Nobody
    at,         \* each segment: "freed" (or not created), "live" or "removed"
    size, type, length, filled,     \* its size, header and the filled cells
    pc, id, want,   \* a tool's next step, segment and argument
    todo,       \* cells memcpy has not copied yet
    pos,        \* cells a loop has dealt with
    count,      \* cells shm_read is going to print
    bad,        \* readers that have printed something that is no message's
    solo,       \* whose stores alone the current message consists of
    sound,      \* the family of the segment's message if it is complete
    disturbed   \* readers during whose reading somebody has stored something

segVars == <<key, at, size>>
content == <<type, length, filled>>
history == <<solo, sound, disturbed>>
locals == <<id, want, todo, pos, count, bad>>
vars == <<segVars, content, pc, locals, history>>

Init ==
    /\ key = Nobody /\ at = [s \in Segments |-> "freed"]
    /\ size = [s \in Segments |-> 0] /\ length = [s \in Segments |-> 0]
    /\ type = {} /\ filled = [s \in Segments |-> {}]
    /\ pc = [p \in Tool |-> "off"]
    /\ id = [p \in Tool |-> Nobody] /\ want = [p \in Tool |-> 0]
    /\ todo = [p \in LibWriter |-> {}]
    /\ pos = [p \in Tool |-> 0] /\ count = [p \in LibReader |-> 0]
    /\ bad = {} /\ disturbed = {}
    /\ solo = [s \in Segments |-> Nobody]
    /\ sound = [s \in Segments |-> Nobody]

PGoto(p, from, to) == pc[p] = from /\ pc' = [pc EXCEPT ![p] = to]

\* Variant: a zero after the data is counted, and not copied.
LengthWithZero(w) == Header + want[w] + 1

\* The length that shm_write puts into its header.
MessageLength(w) == Header + want[w]

\* Cells for data, and tools that have the segment mapped.
Room(s) == size[s] - Header
MappedBy(s) == {p \in Tool : id[p] = s /\ pc[p] \notin {"off", "map", "crashed"}}

-----------------------------------------------------------------------------
(* Creating and removing: shm_get and shmget, shm_rm and shmrm *)

\* An identifier is not used again while somebody remembers it.
Create(s) ==
    /\ key = Nobody /\ at[s] = "freed" /\ \A p \in Tool : id[p] # s
    /\ key' = s /\ at' = [at EXCEPT ![s] = "live"]
    /\ \E n \in Sizes : size' = [size EXCEPT ![s] = n]
    /\ type' = type \ {s} /\ length' = [length EXCEPT ![s] = 0]
    /\ filled' = [filled EXCEPT ![s] = {}]
    /\ solo' = [solo EXCEPT ![s] = Nobody] /\ sound' = [sound EXCEPT ![s] = Nobody]
    /\ UNCHANGED <<pc, locals, disturbed>>

\* IPC_RMID: the memory stays while somebody has it mapped.
Remove ==
    /\ key # Nobody /\ key' = Nobody
    /\ at' = [at EXCEPT ![key] = IF MappedBy(key) = {} THEN "freed" ELSE "removed"]
    /\ UNCHANGED <<size, content, pc, locals, history>>

\* A tool ends, or is killed: its mappings go, all of them.  (shm_detach maps
\* the segment once more and undoes only that.)
Exit(p) ==
    /\ pc[p] # "off"
    /\ pc' = [pc EXCEPT ![p] = "off"]
    /\ at' = [s \in Segments |->
                  IF at[s] = "removed" /\ MappedBy(s) \subseteq {p} THEN "freed" ELSE at[s]]
    /\ id' = [id EXCEPT ![p] = Nobody] /\ want' = [want EXCEPT ![p] = 0]
    /\ pos' = [pos EXCEPT ![p] = 0]
    /\ todo' = [w \in LibWriter |-> IF w = p THEN {} ELSE todo[w]]
    /\ count' = [r \in LibReader |-> IF r = p THEN 0 ELSE count[r]]
    /\ bad' = bad \ {p} /\ disturbed' = disturbed \ {p}
    /\ UNCHANGED <<key, size, content, solo, sound>>

-----------------------------------------------------------------------------
(* Finding and mapping the segment *)

\* Variant: the segment is looked up without the length.
LookupAnySize(p) ==
    /\ key # Nobody /\ Cardinality({q \in Tool : pc[q] # "off"}) < AtOnce
    /\ PGoto(p, "off", "map")
    /\ \E n \in IF p \in LibReader THEN {0} ELSE Wants : want' = [want EXCEPT ![p] = n]
    /\ id' = [id EXCEPT ![p] = key]
    /\ UNCHANGED <<segVars, content, todo, pos, count, bad, history>>

\* shmget with a length fails if the segment is smaller.
Lookup(p) ==
    /\ key # Nobody /\ Cardinality({q \in Tool : pc[q] # "off"}) < AtOnce
    /\ PGoto(p, "off", "map")
    /\ \E n \in IF p \in LibReader THEN {0} ELSE Wants :
           /\ p \in PlainWriter \cup PlainReader => n <= size[key]
           /\ want' = [want EXCEPT ![p] = n]
    /\ id' = [id EXCEPT ![p] = key]
    /\ UNCHANGED <<segVars, content, todo, pos, count, bad, history>>

\* shm_read, with the writer's test that the message fits; shmat and shmctl.
Map(p) ==
    /\ pc[p] = "map" /\ at[id[p]] # "freed"
    /\ PGoto(p, "map",
           CASE p \in LibWriter -> IF MessageLength(p) > size[id[p]] THEN "end" ELSE "copy"
             [] p \in LibReader -> "type"
             [] p \in PlainWriter -> "length"
             [] p \in PlainReader -> IF want[p] = 0 THEN "fits" ELSE "length")
    /\ todo' = [w \in LibWriter |-> IF w = p THEN 0 .. want[p] ELSE todo[w]]
    /\ UNCHANGED <<segVars, content, id, want, pos, count, bad, history>>

\* The segment has gone since.  shm_read returns -1, which is less than the
\* message's length (an int) for the writer, but, compared with a sizeof, not
\* less than the header's for the reader, who goes on with a null pointer.
MapFail(p) ==
    /\ pc[p] = "map" /\ at[id[p]] = "freed"
    /\ PGoto(p, "map", IF p \in LibReader THEN "crashed" ELSE "end")
    /\ UNCHANGED <<segVars, content, locals, history>>

-----------------------------------------------------------------------------
(* Writing *)

\* p stores into the segment: for the first or the last time of its message?
Stores(p, first, last) ==
    LET s == id[p]
        alone == first \/ solo[s] = p
    IN /\ disturbed' = disturbed \cup {q \in Tool : id[q] = s /\ pc[q] \in {"print", "printed"}}
       /\ solo' = [solo EXCEPT ![s] = IF alone THEN p ELSE Nobody]
       /\ sound' = [sound EXCEPT ![s] =
              IF last /\ alone THEN IF p \in LibWriter THEN "lib" ELSE "plain" ELSE Nobody]

\* memcpy copies header (cell 0) and data, in an order of its own.
Copy(w, k) ==
    /\ k \in todo[w]
    /\ todo' = [todo EXCEPT ![w] = @ \ {k}]
    /\ PGoto(w, "copy", IF todo[w] = {k} THEN "end" ELSE "copy")
    /\ Stores(w, todo[w] = 0 .. want[w], todo[w] = {k})
    /\ IF k = 0
           THEN /\ type' = type \cup {id[w]}
                /\ length' = [length EXCEPT ![id[w]] = MessageLength(w)]
                /\ UNCHANGED filled
           ELSE /\ filled' = [filled EXCEPT ![id[w]] = @ \cup {k}]
                /\ UNCHANGED <<type, length>>
    /\ UNCHANGED <<segVars, id, want, pos, count, bad>>

\* shmwrite, and shmread when it is given a length, store that before they look
\* whether the segment has room for so much.
StoreLength(p) ==
    /\ PGoto(p, "length", "fits")
    /\ length' = [length EXCEPT ![id[p]] = IF want[p] = 0 THEN Room(id[p]) ELSE want[p]]
    /\ Stores(p, TRUE, FALSE)
    /\ UNCHANGED <<segVars, type, filled, locals>>

Fits(p) ==
    /\ PGoto(p, "fits", IF length[id[p]] > Room(id[p]) THEN "end" ELSE "type")
    /\ UNCHANGED <<segVars, content, locals, history>>

StoreType(p) ==
    /\ p \in PlainWriter
    /\ PGoto(p, "type", "fill")
    /\ type' = type \cup {id[p]}
    /\ Stores(p, FALSE, length[id[p]] = 0)
    /\ UNCHANGED <<segVars, length, filled, locals>>

\* The loop reads the length from the segment again each time.
Fill(p) ==
    /\ PGoto(p, "fill", IF pos[p] + 1 >= length[id[p]] THEN "end" ELSE "fill")
    /\ IF pos[p] < length[id[p]]
           THEN /\ filled' = [filled EXCEPT ![id[p]] = @ \cup {pos[p] + 1}]
                /\ Stores(p, FALSE, pos[p] + 1 >= length[id[p]])
           ELSE UNCHANGED <<filled, history>>
    /\ pos' = [pos EXCEPT ![p] = @ + 1]
    /\ UNCHANGED <<segVars, type, length, id, want, todo, count, bad>>

-----------------------------------------------------------------------------
(* Reading *)

\* The library's reader takes the length once, just after the type (it is one
\* step here, as nothing it does depends on both), the other one for every cell.
CheckType(r) ==
    /\ r \in LibReader \cup PlainReader
    /\ PGoto(r, "type", IF id[r] \in type THEN "print" ELSE "end")
    /\ count' = [q \in LibReader |-> IF q = r THEN length[id[r]] - Header ELSE count[q]]
    /\ UNCHANGED <<segVars, content, id, want, todo, pos, bad, history>>

PrintCell(r) ==
    /\ pc[r] = "print"
    /\ pos[r] < IF r \in LibReader THEN count[r] ELSE length[id[r]]
    /\ UNCHANGED pc
    /\ pos' = [pos EXCEPT ![r] = @ + 1]
    /\ bad' = IF pos[r] + 1 \in filled[id[r]] THEN bad ELSE bad \cup {r}
    /\ UNCHANGED <<segVars, content, id, want, todo, count, history>>

\* shmread detaches one of its two mappings and pauses.
Printed(r) ==
    /\ pc[r] = "print"
    /\ pos[r] >= IF r \in LibReader THEN count[r] ELSE length[id[r]]
    /\ PGoto(r, "print", "printed")
    /\ UNCHANGED <<segVars, content, locals, history>>

Next ==
    \/ \E s \in Segments : Create(s)
    \/ Remove
    \/ \E p \in Tool :
        \/ Exit(p) \/ Lookup(p) \/ Map(p) \/ MapFail(p)
        \/ StoreLength(p) \/ Fits(p) \/ StoreType(p) \/ Fill(p)
        \/ CheckType(p) \/ PrintCell(p) \/ Printed(p)
    \/ \E w \in LibWriter : \E k \in todo[w] : Copy(w, k)

-----------------------------------------------------------------------------
(* Properties *)

Family(r) == IF r \in LibReader THEN "lib" ELSE "plain"

\* With no lock there is one thing a reader can rely on: if a writer of its own
\* family has completed its message without another one interfering, and nobody
\* stores anything while the reader reads, then it prints the whole message and
\* nothing else.  A length left behind by a write that was refused, a writer
\* that was killed, or a message of the other family is never mistaken for one.
UndisturbedReadIsWhole ==
    \A r \in LibReader \cup PlainReader :
        pc[r] = "printed" /\ r \notin disturbed /\ sound[id[r]] = Family(r) =>
            r \notin bad /\ pos[r] = length[id[r]] - (IF r \in LibReader THEN Header ELSE 0)

\* The library's reader never leaves the segment, whatever length it finds
\* there: that of a message of its own family, that of the other family, which
\* it takes for one that counts the header, or that of a write or a read of the
\* other family which has been refused after it had stored its length.
ReadsStayInside == \A r \in LibReader : pos[r] > 0 => pos[r] <= Room(id[r])
=============================================================================
