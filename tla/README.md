# Specifications of UNP-exercises

TLA+ models of the concurrent programs of this repository: small servers and
clients written while reading "Unix Network Programming" and its successors.
The repository has no tests and its readmes are one-liners, so the code is the
only reference. Each module names the file it models in its header comment, and
`PROJECT.json` maps every definition to the lines it stands for.

## 1. The system

The repository is a set of separate programs that meet on sockets, signals,
threads, shared memory and, in one case, inside the kernel.

| Part | Files | State | Interaction | What is hard |
|---|---|---|---|---|
| Thread pool server | `thread/tcp_thread_pool_server.c` | ring of `QSIZE` descriptors, `front`, `rear`, mutex, condition, `running` | main pushes, workers pop and echo | lost wake-ups, double service, a ring that overflows silently, stopping |
| Thread per connection | `thread/tcp_multi_thread_server.c` | `connfd`, one thread per client | main hands a thread the *address* of `connfd` | an accept that overtakes a thread; reuse of descriptor numbers |
| Forking server | `MIO/tcp_multi_process_server.c` | `running`, `errno`, descriptors of two processes | fork, SIGCHLD, waitpid | coalesced signals, a handler that changes `errno`, descriptors shared across fork, orphans |
| Heartbeat clients | `tcp_demo/tcp_client.c`, `tcp_poll_client.c`, `MIO/tcp_poll_client.c` | `send_times`, one connection | greeting, probe, acknowledgement | two sends in a row, timeout against a late answer |
| Poll heartbeat server | `tcp_demo/tcp_poll_server.c`, `tcp_poll_server_LT.c` (the same program) | slot table, `ready_number` | one thread, one poll, blocking reads | stale `revents`, counting down, one slow client, SIGPIPE |
| Forking heartbeat server | `tcp_demo/tcp_server.c` | one child per client with an ageing timer | poll, fork, select | ageing against probes, one accept a second |
| Epoll servers | `MIO/tcp_epoll_server.c`, `tcp_epoll_server_LT.c` | epoll set, event array | level and edge triggering | partial messages, stale events, lost edges, leaked descriptors |
| Select servers | `MIO/tcp_server.c`, `tcp_server1.c`, `tcp_server_select_LT.c`, `tcp_block_server.c` | client table, send buffers, descriptor sets | select, `sendn` | blocking where it must not, buffers at their limit |
| Network header | `network_hdr.h` (three copies) | - | wrappers; `start_daemon` watchdog | no SA_RESTART, a `sendn` that spins |
| Counters | `thread/mthreads.c`, `Mthreads.c` | a shared int | threads | data race |
| Lock-step protocol | `tcp_demo/tcp_{server,client}_{4,6}.c` | - | three messages in turn | short reads, reads that wait for each other |
| Shared memory | `ipc/shm*.c` | segment, attachments | several processes | no synchronisation, life time of a segment |
| Local sockets | `ipc/local_*.c` | - | one connection | - |
| Open audit | `netlink_demo/` | hooked `open`, netlink socket, registered pid | kernel module and daemon | unloading while in use, stale pid |
| Syslog demo | `syslog_demo/` (cJSON is third-party) | - | one datagram | - |
| Other clients and exercises | `MIO/*client.c`, `dirty_code/`, `MIO/file_monitor.c`, `thread/manpage_example.c` | - | - | - |

What makes each part correct:

* thread pool: one owner per connection; nobody sleeps on work; first in first
  out; what is accepted is served or closed, with the exceptions made explicit;
  a queued connection is served eventually;
* thread per connection: the thread main names in its log serves that client;
* forking server: no zombies, no leaked descriptors, a client sees its
  connection end, and children end with their parent, as the comment wants;
* heartbeat: the byte stream stays in step, an acknowledgement answers the probe
  it is taken for, the server never waits for a client that is silent, table and
  descriptors agree, the server survives its clients; ageing cuts off nobody who
  is owed an answer, and a descriptor inherited across fork keeps no connection
  from ending;
* epoll echo server: an event that is reported once is enough for the bytes and
  for the connection it is about, and a descriptor that is leaked is not a client
  that is forgotten;
* select echo servers: two programs that both send everything before they read on
  do not end up waiting for each other, and the sockets that block by mistake
  stop the loop where it does no harm only;
* blocking select server: data is read although somebody else takes back the
  connection the server is about to accept;
* lock-step protocol: nobody waits for ever, short reads and killed clients
  included;
* shared memory: what a reader may conclude without any lock, and that the library's
  reader stays inside the segment whatever length it finds there;
* open audit: unloading the module breaks no call but those it catches inside;
* watchdog: SIGINT ends parent and child, and signals no stranger, but in windows
  that can be named;
* counters: how wrong the result of a data race can be.

## 2. What is modelled

The payload of a message is abstracted throughout; which system call a process
is in, how it can fail and who owns which descriptor is not. An action is one
access to state that somebody else can see. A label (`pc`, `spc`, `cpc`,
`parent`, `child`, `thread`) is the statement that is executed next.
Definitions whose comment begins with "Variant:" are altered forms of the code
that follows them; no specification uses them. They show, one for each property,
that the property can fail.

### Thread pool

`ThreadPool` is `tcp_thread_pool_server.c`. `push` is four actions between its
lock and its unlock, `pop` is a test, a wait or a take, and an advance.
`PopWait` releases the mutex and sleeps in one step, as `pthread_cond_wait`
does; `PushSignal` wakes one waiter, `SpuriousWakeup` any. `held` is the
connection in a thread's local variable, `open` the descriptors the process has
not closed: `Accept` returns any descriptor that is not open, so a number closed
too early is soon somebody else's. `running` is an ordinary variable in the
code; every loop that reads it calls functions the compiler cannot see into, so
each test reads memory. `SigInt` is the handler in a thread that is not
interrupted, `InterruptAccept` and `InterruptEcho` the handler in one that is:
`register_signal` passes no SA_RESTART, main takes EINTR for an error and
exits, a worker tries again. `SendSigPipe` ends the process. The initial state
is the moment all threads have been created; a thread created later is one that
has not run yet.

`ConnectionPool` is what the program promises without ring, lock and labels: a
backlog of `Capacity - 1`, served in order, which is *lost as a whole* by the
accept that exceeds it. `ThreadPoolRefinement` gives the mapping. An occupied
ring with `front = rear` cannot be told from an empty one, so the abstract
`Overflow` is not an invention of the model: it is what lines 68-71 do when the
ring is full.

### Forking server

`MultiProcess` is `tcp_multi_process_server.c`. A member of `Child` is a
connection and the process that serves it. `holders` and `listening` say which
process has which socket open; `fork` copies both, the two closes give one copy
back each. The handler runs between any two statements of the parent: `SigChld`
starts it, `Reap` is a round of its loop, `HandlerReturn` its last `waitpid`
with the effect on `errno`. A pending SIGCHLD is one bit.

### Thread per connection

`ThreadPerConnection` is `tcp_multi_thread_server.c`. Connections and descriptor
numbers are kept apart: `table` is the process's descriptor table, `bound` the
connection a `recv` has begun on. `overtaken` is a history variable.

### Heartbeat

`HeartbeatClient` is the loop of the three clients, `PollServer` the loop of the
server; `Heartbeat` composes them over `up`, `down`, `copen`, `sopen`, `queue`
and `reset`, which are the connections. A message is two units, length and text,
because the receiver reads it with two calls. A unit is in `up` when all of it has
arrived; `begun` holds the connections on which one to four of the five digits of
the next length have. Only the epoll server can tell: the others wait for the rest.
`reset` records that a
client's host has answered with a reset, because something was left unread or
arrived after the close. `HeartbeatService` is the abstract specification of a
server: it reads a connection in two parts, owes an acknowledgement for every
probe, sends it in two parts, and closes only where it owes nothing. It has no
slots, no `revents`, no counter and no program counter, and it may serve any
number of connections at once; `PollServer` implements it with `reading`,
`owing` and `answering` read off the label of its one thread. `send_times` is counted up to
`ProbeAfter` only: the code only ever compares it with that.

`EpollServer` is `MIO/tcp_epoll_server.c`, and `EpollHeartbeat` puts it in the
place of the poll server; the bytes on the wire are the same. `events` is what is
left of the array `epoll_wait` has filled in; it is handled in any order, as the
kernel's order depends on when each descriptor became ready. `table` says which
connection a descriptor number refers to, `accept` returns the lowest number
that is free, and an event keeps in `about` what its number referred to when it
was reported (a history variable, like `refused`, the descriptors `epoll_ctl`
failed for). The sockets do not block, so `RecvTextFails` takes the place of the
poll server's waiting, and `Drop`, a step later, closes the connection; a length of
which fewer than five digits are there makes `DropShort` do so at once, be it that
the client has gone or that the rest is on its way. SIGINT
either interrupts `epoll_wait` or comes just before it. After `Leave` nobody can
connect. It implements `HeartbeatService` as well.

`AgeingHeartbeat` is `tcp_demo/tcp_server.c`, once more with the clients of
`HeartbeatClient` and against the same service. `kept` says which connections the
parent has a descriptor of; a connection ends for its client when neither the
parent nor the child has one left. `ChildTimeout` and `CloseAged` are two steps,
as data may arrive between the end of `select` and the `close`. A failing `fork`
leaves the connection with the parent for ever. The server implements the
service with `reading`, `owing` and `answering` as the sets of connections whose
child is at that statement.

The comment at line 241 of `tcp_poll_client.c` says that the two sends in a row
stick together in the stream and make the interaction go wrong. With the length
in front of every message it does not: `FramesInStep` and `AckMatchesProbe` hold
for every way of cutting the stream at message parts.

### Echo servers on one thread

`EpollEcho` is `tcp_epoll_server_LT.c`. `edge` holds the sockets about which
`epoll_wait` has something to tell: the listening socket only when a connection
has arrived since it was told last, as it is edge-triggered. `Files` bounds the
descriptors, because an end of file uses one up for good (`"eof"`). The echo of a
byte can succeed, be refused for lack of room, fail or kill the server.

`SelectEcho` is `tcp_server.c`, `tcp_server1.c` and `tcp_server_select_LT.c` with
`tcp_client.c`; `version` says which. `make_noblocking` is called with the slot's
old value, so `Recv` and `Send` wait; `sendn` is `Send`, repeated until nothing
is `left` or in the `buffer`. Bytes are counted. Of the `Chunk` bytes that `recv`
can return the servers echo one less.

`BlockServer` is `tcp_block_server.c` with a client that talks and with
`tcp_linger_client.c`, which resets its connection at once. Whether a connection
that has been reset leaves the listen queue is up to the platform; `taken` records
that it has happened since `select`.

### Small programs

* `LockStep`: `tcp_server_4.c` and `tcp_client_4.c` with their IPv6 twins. A
  message is two parts; a `recv` that returns part of it, or nothing, counts as
  success in this code, and so it does in the model.
* `ShmTools`: the eight tools of `ipc/` on one segment. What counts is which cells
  are filled, and by whom: `sound` says whose complete message a segment holds,
  `disturbed` during whose reading somebody has stored something.
* `AuditModule`: the kernel module and its daemons. `caught` are the callers that
  are inside `hacked_open` when the table is restored, `freed` those whose code
  has gone; `holds` are the daemons whose sockets keep the module loaded. What the
  hook does wrong without any unloading is left out: it reads the caller's pointer
  without a check (`netlinkp.c`, line 69) and does not look whether `kmalloc` has
  failed (line 107).
* `Watchdog`: `start_daemon`, which is in the three copies of `network_hdr.h`
  though nothing calls it. `pid` is the parent's copy of `_pid_`, `own` the
  children's: what they have inherited, until they have stored the 0 that `fork`
  returns to them (`ChildAssigns`). From the second on they have the handler as well.
  `stopped` and `struck` record where SIGINT hit, and what the handlers signalled.
* `Counter`: `mthreads.c` and `Mthreads.c`. An addition is a load and a store.

Several modules stand for more than one file: the repository keeps copies and
versions of the same program (three heartbeat clients, two poll servers, three
select servers, two lock-step pairs, two counters, three network headers), and
`PROJECT.json` spreads the definitions of such a module over the files, each at
the lines of the copy that shows it best.

## 3. What the runs show

| Run | Instance | Properties | Result |
|---|---|---|---|
| `thread_pool` | 2 workers, 3 descriptors, ring of 2 (the code's) | `ExclusiveService`, `NoSleepOnWork`, `LostOnlyByOverflow`, `ImplementsPool`, `BacklogDrains`, `StopReachesAccept` | hold, 120,825 states |
| `thread_pool_ring3` | ring of 3, symmetry | `NoLostWakeup` | holds |
| `multi_process` | 2 children | `ZombiesAnnounced`, `ErrnoRaceSparesClients`, `SocketOwners`, `ZombiesReaped`, `ClientSeesEnd` | hold |
| `multi_process_orphans` | 2 children | `ChildrenExitWithParent` | violated: finding 1 |
| `heartbeat` | 3 clients, 2 slots, a probe after 2 greetings, symmetry | `SlotsAreOpenConnections`, `NoIdleRead`, `FramesInStep`, `AckMatchesProbe`, `NoBrokenPipe`, `ImplementsService` | hold, 2,820,235 states |
| `heartbeat_live` | 2 clients, 2 slots | `ProbeAnswered` | holds, 117,141 states |
| `epoll_heartbeat` | 2 clients, 2 descriptors, a probe after 1 greeting | `EventsHitTheirConnection`, `OpenMeansWatched`, `DropsOnlyHalfSent`, `ImplementsService`, `ProbeAnswered`, `SigIntStops` | hold, 230,047 states |
| `ageing_heartbeat` | 2 clients, a probe after 2 greetings | `ConnectionsHaveOwners`, `ImplementsService`, `EveryClientServed` | hold, 404,521 states |
| `echo_servers` | `EpollEcho`: 3 clients, 2 descriptors, window 1; `SelectEcho`: 2 clients, 1 slot, lines of 2 bytes, `recv` of 3, window 4; `BlockServer`: 2 clients, 1 place, window 2 | `NoLiveClientForgotten`, `EventsServed`; `BlocksOnlyWhenStopping`, `NobodyStuckSending`; `ServedUnlessTakenBack` | hold, 234,739 states |
| `small_programs` | `LockStep`: 3 clients, 2 connections each; `ShmTools`: a tool of each kind, 2 at work at once; `AuditModule`: 2 callers, 2 daemons; `Watchdog`: 3 children; `Counter`: 3 threads, 2 additions each | `EveryConnectionCloses`; `UndisturbedReadIsWhole`, `ReadsStayInside`; `OnlyCaughtCallsFail`; `SigIntEndsBoth`; `FinalCount` | hold, 607,755 states |
| `thread_per_connection` | 4 connections, 3 threads, 3 descriptors, symmetry | `MatchedUnlessOvertaken` | holds |
| `thread_per_connection_log` | the same | `DispatchedAsLogged` | violated: finding 2 |

Run one with `tlc -config <run>.cfg <MC module>`. `EchoServers` (instantiated by
`MCEchoServers`) and `MCSmallPrograms` hold programs that have nothing to do with
each other: an initial state chooses one (`server`, `program`), and the others
stand still, so that the run is a run of each of them. Both leave the sizes to
constants, so that the theorems about them are about any sizes. The type invariants, `TypeOK` where a module has one, are
not in the runs; section 5 says which are proved.

Why the bounds are enough:

* `thread_pool`: a ring of two overflows with its second queued connection,
  which three descriptors allow while a worker still serves the third; with two
  workers each can be anywhere while the other pops. A ring of two holds *one*
  connection at most, so a signal saved on a ring that is already occupied goes
  unnoticed; hence the ring of three. The proofs below hold for any numbers.
* `multi_process`: two children are what coalescing needs (the second ends while
  the first is being reaped), and a third would differ from them in nothing.
* `heartbeat`: two slots make the order of scanning matter, a third client is
  refused, or takes the slot of one that has left in the same round. The code's
  threshold is 3; 2 gives the same three cases (below, at, reset).
* `epoll_heartbeat`: with two clients a number freed in a round is taken by the
  other client in the same round; for longer rounds there are the proofs. The
  server keeps no count of greetings, so a probe after each is enough; one without a
  probe is that of a client killed before it sends it.
* `thread_per_connection`: three descriptors for four connections force a number
  to be used again, by a fourth client, while two threads still act on it.
* `ageing_heartbeat`: every connection has a child of its own, so that what two
  clients do to each other goes through the parent, which serves one at a time;
  a third would wait where the second does.
* `echo_servers`: three clients make a burst of which one is accepted, one is
  accepted because another connects, and one finds no descriptor; with window 1
  the second byte of an echo finds no room. The select servers' window holds a
  line and what one `recv` keeps, which is little for a socket's buffers. It is
  also the least that will do: with a smaller one `NobodyStuckSending` fails, as
  server and client then can wait for each other to read. The block server needs
  a client that is taken back and another that waits for the server meanwhile.
* `small_programs`: two tools at once are a writer against a reader, a writer or
  a remover; three at once give 3.4 million states and the same result. A segment
  of three cells has a header and two cells of data, so that a message can be
  full, partial, empty or too long, and a length can fit with the header, as the
  size of a segment only, or not at all. One record fills a daemon's backlog; two
  daemons register one after the other. The watchdog's first child differs from
  the second (the handler is registered in between), and the third is the first to
  inherit the number of a child that has had the handler too. With three threads that add twice, a thread can undo two others, and
  be undone itself.

The other bounds are in the models. A client that ends may connect again for ever in
the heartbeat models, `EpollEcho` and `BlockServer`; a member of `Child`, and a
descriptor of the pool, are free again once nobody uses them. A client of `SelectEcho`
connects once, one of `LockStep` as often as `Connections` says, and
`ThreadPerConnection` has as many connections as `Connection` has members.

Deadlock is not looked for where the system stops by design: the forking server
after its parent and the last child have exited, the epoll server after SIGINT
or once it has forgotten the connection of every client name, the thread-per-connection
server after `main` has returned or all connections have been used, the forking
heartbeat server when it has kept the connection of every client name after a
failing `fork`, and the echo servers and small programs when they have run to
their end. `ThreadPool` stutters in `Terminated` after the end, so that TLC would
report any other stop.

### Findings

1. `multi_process_orphans`: the comment in line 10 of
   `tcp_multi_process_server.c` announces that children exit with their parent,
   the call that would do it is compiled out. A child serves on after SIGINT has
   ended its parent.
2. `thread_per_connection_log`: when accept returns before the thread created last
   has read `*(int *)arg`, that thread receives on the new connection, although the
   log has named it for the one before. The trace ends there, with one thread; when
   main creates the next, both have the same connection and the other has none.

Some things are worth knowing although nothing in the repository contradicts
them: the pool's ring loses all queued connections on overflow
(`LostOnlyByOverflow` allows exactly this and stopping), and `errno` is not
saved by `child_handler`, which can end the forking server in the middle of its
EINTR test, but only when it has no children and so serves nobody; clients in the listen queue
lose their connection (`ErrnoRaceSparesClients`).
A third: the epoll server drops a healthy client when it looks in the middle of a
message, at a few digits of a length or at a length without its text, since
MSG_WAITALL does not wait on a non-blocking socket and the test of EAGAIN in line 317
has no effect behind `recv_len < 0 ||`; `DropsOnlyHalfSent` says that these are the
only cases. And a child of the watchdog that is interrupted before it has stored what
`fork` returned signals the number of the child before it, or, after a failed `fork`,
every process it may (`SigIntEndsBoth` names the windows).

More of this kind, met while modelling, and in the models where it changes a
state:

* the select servers drop the last byte when a `recv` fills its buffer
  (`MIO/tcp_server.c`, lines 147-153), so that an echo can be one byte short:
  `Chunk - 1` in `SelectEcho`;
* the same servers pass an uninitialised `clen` to `accept`;
* `tcp_block_server.c` sends `strlen(buff)` bytes of a buffer that has no zero
  byte at its end when 4096 bytes have come;
* `tcp_client_4.c` closes its last socket a second time, harmlessly as it is the
  only thread;
* `tcp_demo/tcp_server.c` calls `strerr` where `strerror` is meant (line 342);
* the audit daemon compares the result of `recvmsg` with 0 (`audit_daemon.c`,
  line 161) and therefore logs nothing, a daemon started before the module never
  hears from it, and a registered pid is never cleared;
* `MIO/file_monitor.c` gives a regular file to `epoll_ctl`, which refuses it;
* `ipc/shm_read.c`, line 47, compares the -1 of a failing `shm_read` as an
  unsigned number and goes on with a buffer nobody has filled (`MapFail` in
  `ShmTools`);
* `shmwrite.c` and `shmread.c` compare the length in the segment with its size and
  read it from the segment again for every byte; another tool may have stored a
  larger one meanwhile.

## 4. Fairness

* Thread pool: threads that can run do; a thread that keeps asking for the mutex
  gets it (strong fairness of `PushLock`; a worker's `Pop` needs weak fairness
  only, since two workers cannot keep each other out for ever without running
  out of work). Strong fairness of `RecvEnd` is the one assumption on peers:
  each ends its connection at some time. It is needed, as the workers serve one
  connection at a time.
* Forking server: parent, handler and children run when they can; a pending
  signal is delivered. Nothing is assumed of clients, SIGINT and failures.
* Heartbeat: the server runs; a connection it tries to accept again and again is
  accepted some time; a client finishes the message it has begun. Not assumed:
  that a client ever sleeps less, times out, or ends.
* Epoll server: the server runs, and `accept` succeeds some time. Nothing is
  assumed of the clients, as no client can make a non-blocking server wait.
* Forking heartbeat server: parent and children run, and `accept` succeeds some
  time. Nothing is assumed of the clients, and no child's ageing ever has to run
  out; a client that is gone is noticed by the end of its stream.
* Echo servers: each server runs. A client of the select servers reads what has
  come and finishes the line it sends; a client of the block server reads what has
  come. Nobody has to type, to connect or to end.
* Lock-step protocol: the server runs, and so does a client until it is killed.
* Watchdog, shared memory, audit module and counter: safety only.

## 5. What is proved

`tlapm` checks these for every value of the constants that satisfies the named
assumptions. None says more than that the constants are what their comments call
them:

* `PoolAssumption`, `WorkersAssumption`: the ring has a slot, there is a worker,
  the workers are finitely many, and the model values differ;
* `ProcessAssumption`: parent and "no child" are not children;
* `ClientAssumption`: a probe is due after one greeting at least;
* `ServerAssumption` (of `Heartbeat`, `EpollHeartbeat`, `AgeingHeartbeat` and
  `ThreadPerConnection`): there is a slot or a descriptor number, where the server has
  such, and "no client", "no connection" and "no descriptor" are none;
* `ShmAssumption`: a process runs one tool, sizes are positive; `DogAssumption`,
  `CounterAssumption`: the bounds are numbers, the threads finitely many, and each
  adds at least once;
* `EpollAssumption`, `SelectAssumption`: the listening socket is no client, the
  bounds are numbers, and `recv` asks for a byte at least.

Every safety property that a passing run checks is the property of a theorem, and
so is every refinement; what TLC alone shows is liveness.

`ThreadPool_proof`:
* `TypeCorrect`: `Spec => []TypeOK`;
* `ServiceIsExclusive`: `Spec => []ExclusiveService`;
* `NobodySleepsOnWork`: `Spec => []NoSleepOnWork`;
* `NoWakeupIsLost`: `Spec => []NoLostWakeup`;
* `LossNeedsOverflow`: `Spec => LostOnlyByOverflow`, an action property;
* `RingImplementsPool`: `Spec => ImplementsPool`, the refinement.

`ExclusiveService` is not inductive. The invariant that is, `IInv`, adds
`LockInv` (whoever is inside push or pop owns the mutex, so there is one of
them), `MainHolds` and `WorkerHolds` (what a thread has in its hands follows
from where it is; a pop past its test finds `front # rear`; main has written its
slot before it advances `rear`). The three lemmas about the ring carry the
arithmetic: `SuccSlot`, `PushOccupies` (after a push the occupied slots are the
old ones and the one written, or none) and `PopVacates` (a pop removes the front
slot and no other). Each part of the invariant has a lemma that it survives
every step, with one case per action.

`NoLostWakeup` is a part of `IInv` and inductive with the others: a push makes
`Pending` one larger and is followed by a signal that main still owes or that wakes
a worker, a pop makes `Pending` one smaller with the step that takes its worker out of `Coming`,
and a worker goes to sleep only on an empty ring. `PendingCounts`, `PushCounts` and
lemmas about the sizes of sets of workers carry it; a push that fills the ring makes
`Pending` zero.

The refinement reads the occupied slots in order as a sequence (`Backlog`, with
`NthOccupied` and `BacklogSequence`); a push appends to it or empties it, a pop
takes its head. Most steps are `Calm`: they move no connection and map to a stutter,
or to the abstract request to stop; of each other kind a lemma says what it does to
the backlog and to what is abandoned (`AcceptGives`, `PushGives`, `PopGives`,
`EndGives`), and `PoolStep` names the abstract step. `LossNeedsOverflow` rests on the
same lemmas, as what is abandoned is what neither the ring nor a thread holds.

`MultiProcess_proof`:
* `NoZombieForgotten`: `Spec => []ZombiesAnnounced`;
* `NoClientLostToErrno`: `Spec => []ErrnoRaceSparesClients`;
* `DescriptorsHaveOwners`: `Spec => []SocketOwners`.

Here `IInv` adds `ConnfdInv` (`connfd` is a connection exactly between accept
and close, and unserved before the fork) and `OrphanInv` (no zombies and no
handler without a parent).

`EpollHeartbeat_proof` (with lemmas about the clients in `HeartbeatClient_proof`,
under `ServerAssumption`: there is a descriptor number, and "no client" is none):
* `TypeCorrect`: `Spec => [](TypeOK /\ BegunInv)`: there are digits of a length only
  while its client sends it, here and in the other two heartbeat programs;
* `NoEventGoesAstray`: `Spec => []EventsHitTheirConnection`;
* `NoConnectionForgotten`: `Spec => []OpenMeansWatched`;
* `ServerImplementsService`: `Spec => ImplementsService`, step by step;
* `ClientsGetTheSame`: `Spec => [](FramesInStep /\ AckMatchesProbe /\ NoBrokenPipe)`
  of the service, which the run does not check for this server;
* `OnlyHalfSentIsDropped`: `Spec => DropsOnlyHalfSent`, an action property.

`IInv` adds `RoundInv` (the events of a round have different descriptors, all of
them watched and open; the event in hand is one of them; there is none between
rounds), from which it follows that closing one event's descriptor, and accepting
a connection under its number, leaves the others' alone; and `QueueInv` (a
connection waits once, and is not open yet), without which an accepted connection
might have a descriptor already. The action property needs two more facts: an event
that has not been handled is still true (`EventInv`: its connection is readable, and
broken only if it has been reset; digits that have arrived stay), so that no healthy connection is closed at an end
of file that was never there; and `HalfSent` of the service (below), so that a text
which is missing is one the client is about to send.

`HeartbeatService_proof` proves what the clients are promised of the abstract
service, for any number of clients and any threshold:
* `ServiceKeepsFrames`: `Spec => []FramesInStep`;
* `ServiceAnswersOnce`: `Spec => []AckMatchesProbe`;
* `ServiceSparesServer`: `Spec => []NoBrokenPipe`;
* `ServiceWaitsForText`: `Spec => []HalfSent`: a client that is still there has
  caused no reset, and if its length has been read and its text is not there, it is
  between the two.

A server that implements the service has these too, with the sets the mapping
gives for `reading`, `owing` and `answering`. `IInv` says for each client where
the two sides are: `StageOK` (who has the connection open; the server reads, owes
or answers, one at a time), `StreamOK` (lengths and texts take turns; the stream
goes on where the server stopped reading, and the client where the stream ends)
and `ProbeOK` (the one probe that may be under way is in the stream or in the
server, or its answer is on the way back, by statement of the client). Lemmas
about streams (`AlternateMore`, `SilentLess` and the like) carry appending and
taking, there is one for each kind of action, and `Frame` is about the clients an
action does not concern.

`AgeingHeartbeat_proof`:
* `TypeCorrect`: `Spec => [](TypeOK /\ BegunInv)`;
* `ConnectionsAreOwned`: `Spec => []ConnectionsHaveOwners`;
* `ServerImplementsService`: `Spec => ImplementsService`, the refinement: every
  step of the parent, of a child or of a client is a step of the service or none.
  With the theorems above, ageing, a parent that keeps a copy, and any number of
  children leave all three promises as they are.

`IInv` adds `WaitsOnce` (as `QueueInv` above) and `ConnfdInv` (from accept to close
`connfd` is a connection the parent has, without a child before the fork) to
`TypeOK` and `ConnectionsHaveOwners`.

`Heartbeat_proof`:
* `TypeCorrect`: `Spec => [](TypeOK /\ BegunInv)`;
* `SlotsMatchConnections`: `Spec => []SlotsAreOpenConnections`;
* `NoReadBlocksAtOnce`: `Spec => []NoIdleRead`;
* `ServerImplementsService`: `Spec => ImplementsService`;
* `FramesStayInStep`, `AcksMatchProbes`, `PipesHold`: `FramesInStep`,
  `AckMatchesProbe` and `NoBrokenPipe`, which follow from the refinement and the
  theorems about the service.

`IInv` adds to `TypeOK` and `SlotsAreOpenConnections` that a connection waits once
(`WaitsOnce`), that `ready_number` is the number of reported slots the scan has not
finished with, one more while the new connection is due (`CountInv`), and that each of
these slots is what `poll` found (`RoundInv`). `CountInv` is why counting down never
stops before the last slot nor leads past it: while `ready` is positive there is one
left. `RoundInv` holds because a slot is freed only when its own event is handled,
and an accepted connection takes a free slot, which cannot be a reported one.

`Programs_proof` is about the programs that share a run and about the
thread-per-connection server. Each has an invariant of its own; that the others stand
still is one lemma for each run (`Others`, `OtherServers`).
* `OnlyCaughtCallsBreak`: `AllSpec => []OnlyCaughtCallsFail`, from `HookInv` (the
  table leads to the hook as long as the module is whole, and then its socket has not
  been released), `CaughtInv` (whoever is inside a hook that is no longer in the table
  was caught there) and `FreedInv` (whoever has lost the code under his feet was
  caught, and does not come back).
* `InterruptEndsBoth`: `AllSpec => []SigIntEndsBoth`, from `ParentInv` (at each
  statement of the parent, which child may run and what `_pid_` says of it),
  `HandlerInv` (the handler is missing only up to its registration after the first
  fork), `CopyInv` (a child's copy of `_pid_` is 0, or -1, or the number of the child
  before, which has been reaped) and `HitInv` (only a parent that has ended has signalled anybody).
* `AdditionsAreBounded`: `AllSpec => []FinalCount`. The upper bound is `UpperInv`:
  neither the count nor a loaded value exceeds the number of additions made, which is
  the size of a set (`Made`), so that no sum over the threads is needed. The lower one
  is `LowerInv`: whoever has added once never adds to a zero again.
* `UndisturbedReads`: `AllSpec => []UndisturbedReadIsWhole`, from `MessageInv` (a segment whose message is complete is filled up to its
  length), `WriteInv` (what a writer has dealt with is in the segment, and so is the
  length it wrote if it has written alone), `ReadInv` (an undisturbed reader is
  somewhere in such a message, or at its end when it has printed) and `LabelInv`
  (which tool is where, and with what in hand). `LibraryReadsStayInside`:
  `AllSpec => []ReadsStayInside`, adds `FitInv`: no length in a segment is larger than
  the segment, whoever stored it, and what a reader has counted leaves the header out.
* `ServerTypes`: `Spec => []TypeOK`, and `ConnectionsMatchThreads`:
  `Spec => []MatchedUnlessOvertaken`, of `ThreadPerConnection`. As long as no accept
  has overtaken a thread, at most one thread has not read its argument (`BornInv`), a
  thread and the connection it was started for exist together (`PairInv`), and the
  only connection without a thread is the one main has just accepted (`OpenInv`).
* `LiveClientsAreKnown`: `EchoSpec => []NoLiveClientForgotten`, of the epoll echo
  server. `PendingInv`: an event of the round is the only one about its connection,
  which is watched still, and what it says of an error is still so; `HandInv`: the
  byte in hand belongs to such a connection, whose event has been taken; `QueueInv`:
  a connection waits once; `SentInv`: only ended clients have caused a reset.
* `BlocksWhenStopping`: `EchoSpec => []BlocksOnlyWhenStopping`, of the three select
  echo servers. `SetsInv`: the second set of `tcp_server1.c` is the table, and the
  client being served is not in the set any more; `ReadableInv`: what `select` has
  reported stays readable until the scan gets there, and nothing else is in the set
  while the server goes on.

Only model-checked: the liveness properties (`BacklogDrains`, `StopReachesAccept`,
`ZombiesReaped`, `ClientSeesEnd`, `ProbeAnswered`, `SigIntStops`, `EveryClientServed`,
`EventsServed`, `NobodyStuckSending`, `ServedUnlessTakenBack`,
`EveryConnectionCloses`), which the proof system does not handle under fairness, and
the two violations.

## 6. Not modelled

* `syslog_demo/`: cJSON is third-party code; what is left reads a file, builds one
  message and sends it in one datagram. No state survives a message.
* `ipc/local_*.c`: one connection, one process on either side, one message each
  way; nothing can come between.
* `shm_write()` of `shm_util.c`, which nothing calls; the tools copy by themselves.
* `syscalltable.c`: searching the kernel's memory for a table, and write
  protection; it runs once before the module is hooked.
* The record files of the heartbeat servers: written and never read.
* `dirty_code/`, `file_monitor.c`, `manpage_example.c` and the interactive
  clients: no state that a step of another actor could find, beyond the sending,
  reading and ending that the servers' models have.
* Payloads, formats and log lines, throughout.

## 7. Plan

Done: all components whose state somebody else can see, and the proofs of
section 5.

Every safety property and refinement of the runs is proved. What could still be
stated and proved, in this order: the types of the lock-step programs and of the block
server, which have liveness properties only; that the epoll echo server's leaked
descriptors are those of ended clients, or refused by `epoll_ctl`; that a full table
of the select servers refuses new connections and drops none.
