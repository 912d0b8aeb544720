# Verification of the castleos kernel of Gramado

Gramado is a hobby operating system for x86_64 PCs.  Its kernel, *castleos*
(`src/core/castleos`), is one C program: a boot processor that runs ring-3
programs, switched by the timer interrupt, and a window system built on
messages and local sockets between a display server and its clients.  This
directory holds TLA+ models of the parts of the system whose behaviour is hard
to test, TLC configurations that check them on small instances, and proofs that
TLAPS checks for every size.

Contents: [1 Inventory](#1-inventory), [2 Modules](#2-modules-and-their-correspondence-to-the-code),
[3 Runs](#3-runs), [4 Fairness](#4-fairness), [5 Proofs](#5-proofs),
[6 Disagreements](#6-disagreements-between-code-and-comments),
[7 Limits](#7-what-is-not-modelled), [8 Plan](#8-plan).

Paths below are relative to `src/core/castleos`; `ke/` is `halls/dev/exec/ke/`.
The display server is `src/winsys/de/comp00/src/comp/comploop.c`, its client
library `src/winsys/de/shell/api/gthouse/libgws/gws.c`.

## 1 Inventory

### How the parts interact

    timer irq --> __thread_switch --> psScheduler --> dispatcher --> ring 3
      (pit.c)         (ts.c)           (sched.c)      (dispatch.c)      |
                        |  spawn (spawn.c)                              |
                        |                                               v
    kbd, mouse irq --> ipc_post_message_to_tid --> MsgQueue[] <-- system calls
                            (ipc.c)                               (sci.c)
         |  end of the tick                                       faults
         v                                                       (x64excep.c)
    ring-3 callback --> int 198 (sw2.asm)

    client (gws.c) --> socket file + action word <-- display server (comploop.c)
                       (socket.c, fslib.c, fs.c)
    remote server <--> segments <--> tcp.c <--> socket file <-- client program

Handlers run with interrupts disabled and only the boot processor schedules,
so a handler is atomic with respect to the others.  What makes the kernel hard
is that almost everything is *deferred*: a system call records an intention in
the thread structure (sleep, exit, join, block) and a later timer tick or the
next round of the scheduler serves it, when the thread is in some other state;
and that decisions are cached (the list of a round, the current process, the
miss count, the foreground thread) and used many ticks later.  Programs, in
contrast, are interleaved between any two system calls: the dialogue of the
display server with its clients is a concurrent algorithm over shared words,
and the network loses, repeats and reorders what TCP sends.

### Components

| Component | State | Operations | What is hard | What makes it correct |
|---|---|---|---|---|
| Message queue (`ke/intake/ipc/ipc.c`, `gthouse/wink/user/user.c`) | ring `MsgQueue[]`, head, tail, input flags, `msgctl` | two posts, two receives, `sys_msgctl` | no full test, a head that moves on misses, blocking decided from a count of misses | no duplicate delivery, loss only by lapping, bounded waiting for the head |
| Task switcher (`ke/intake/disp/ts.c`) | current thread and process, list of the round, lock | `__thread_switch` at each tick | the list is consumed while threads exit, fault and sleep | list heads are READY; its panics are not reached |
| Scheduler (`ke/intake/sched/sched.c`) | thread table, deferred flags, jiffies | `__scheduler_rr`, `__on_zombie` | order of the tests, one flag hiding another | exits and wake-ups are served; dead threads stay dead |
| Dispatcher, spawner (`dispatch.c`, `spawn.c`) | thread states, `saved` | READY to RUNNING, STANDBY to RUNNING | first start against resume | exactly one RUNNING thread |
| Thread services (`schedi.c`, `thread.c`, `sci.c`) | deferred flags | yield, sleep, exit, join, create, start, notify, locks | called in any order, by any thread | the intention is served for the thread that asked |
| Faults (`x64excep.c`) | thread and process structures | kill the current process, dispatch init | siblings, sleeping init | only known panics |
| Processes (`ke/process/clone.c`, `te.c`) | process table | clone, late failure, teardown | partial failure | a thread has a live process |
| Display-server registration (`gthouse/wink/gdi/dispsrv.c`) | one tid | register, notify, removal at exit | stale registration | events reach the waiting thread |
| Ring-3 callbacks (`disp/callback.c`, `ts.c`, `hw1.asm`, `hw2.asm`, `sw2.asm`) | handler, alertable and in-progress flags of a thread, global context variables, the unacknowledged tick | register, make alertable, detour at the end of a tick, restore | globals shared by every tick, faults in a handler, locked ticks | the thread goes on where it was; the callback comes |
| Priorities (`sched.c`, `ke.c`) | unsigned priority and quantum | boost, drop, nice | unsigned underflow | priority stays between base and maximum |
| Memory (`halls/dev/req/mm`) | frame and page pools, heap, slab | allocate, free | exhaustion, double free | disjoint allocations |
| Files, pipes, FAT16 (`gthouse/fs`) | file tables, cluster chains | open, read, write, close | full and empty buffers | bytes arrive once, in order |
| Local sockets and display protocol (`gthouse/net/socket.c`, `gthouse/fs/fslib.c`, `fs.c`, display server, client library) | pending list, slot 31 of the server's files, permission flags, full flag, action word | listen, connect, accept, write, read, set action | one descriptor for all clients, one buffer for both directions, several words set by several calls | a request is handled once and its answer goes to its call; every call returns |
| TCP clients (`gthouse/net/ipv4/tcp.c`, `sockint.c`) | connection table, sequence numbers, file of the socket | connect, send, receive, close, the handler of segments | loss, duplication, reordering, a full file, an ACK that fails | the file holds the bytes of the server in order; handshake and FIN come to an end |
| TCP servers, UDP, ARP, DHCP (`gthouse/net`) | listening sockets, tables | accept, datagrams, leases | timeouts, stale entries | addresses and ports reach their owner |
| Terminals (`halls/chardev/tty`) | raw and canonical buffers | read, write, edit | buffer limits | bounded buffers |
| Devices, buses, SMP start, boot, libraries, user programs | device registers | - | hardware | out of scope, see section 7 |

`PROJECT.json` lists every component with its status, and every hazard at its
line with the properties that cover it.

## 2 Modules and their correspondence to the code

### `MsgQueue`, and the abstract `Mailbox` - the queue of one thread

State: `queue`, `head`, `tail`, `flags` (input flags), `blockOnEmpty`,
`missCount`, `blockReq`, and `blocked` (the thread is BLOCKED for
`WAIT_REASON_LOOP`).  Three history variables, `posted`, `epoch`, `delivered`,
number the ring posts and remember what was handed out; the `polls` field of a
slot counts how often service 111 passed its message over.  No action reads
them except for the bound `MaxPosts`.

| Action | Code |
|---|---|
| `PostFlag` | mouse moves and paints become flags in `ipc_post_message_to_tid` |
| `Post` | the same function: a repeated key is merged into the last slot, everything else is written at the tail |
| `Post2` | `ipc_post_message_to_tid2`: no merging, code 0 accepted |
| `GetFlag`, `GetHit`, `GetMiss` | `ipc_get_message`: flags first, then the slot at the head, which moves on in both cases |
| `GetAt`, `GetBadIndex` | `sys_get_message2`; with an index out of range it jumps to a test of an uninitialised pointer, hence a choice of outcomes |
| `MsgCtl` | `sys_msgctl` |
| `SchedBlock`, `DsEvent` | what `__scheduler_rr` does with the requests |

Abstractions: a message is a model value (its code and the part of the payload
that is compared); window pointers, time stamps and senders are dropped.

`Mailbox` says what posters and reader may rely on without slots and indexes:
letters are numbered as they are posted, a letter stays unchanged until it is
taken, once, or dropped by the post that is `MSG_QUEUE_MAX` later, and no step
loses two.  Letters from before a restart are not protected, and the order of
taking is not promised, because the code promises neither.  The box of the
refinement is the set of unread messages (`Letters`); a merged key, a flag and
every step of the block control leave it alone.

### `Sched`, and the abstract `Tasks` - threads, switcher, scheduler, dispatcher, services, faults

State: per thread its `state` (with FREE for an empty slot and REUSE/DESTROYED
for the two ways its magic number becomes invalid), `owner` (the process, named
by its first thread), `saved`, the deferred requests (`sleepPhase`,
`sleepLeft`, `exitReq`, `joinTgt`, `joinPend`, `blockReq`, `dsEvent`,
`waitLoop`); per process `pvalid`; of the processor `current`, `curPid`,
`round` (the rest of the list behind `currentq`), `left` (ticks left in the
quantum), the two locks, `ds`, and the handler's position `pc`, `scan`.  A
panic or die is `pc = "halt"` with its `cause`.

| Action | Code |
|---|---|
| `TickInvalid`, `TickLocked`, `TickStay`, `TickLeave` | the branches of `__thread_switch`: validation, lock, still in quantum, end of quantum or start of a sleep |
| `TickSpawn` | a STANDBY thread is started for the first time (`spawn.c`) |
| `SwitchNext`, `SwitchEndOfRound` | ZeroGravity: the next of the list, or a new round |
| `VisitEvent`, `VisitBlock`, `VisitExit`, `VisitThread`, `VisitEnd` | one iteration of the loop of `__scheduler_rr`, by which test ends it; `Reaped` is `__on_zombie` |
| `Dispatch`, `DispatchSleepingInit` | `dispatch_current`, `dispatcher` and the choice of the current process |
| `Yield`, `Sleep`, `Exit`, `Join`, `RequestBlock`, `RegisterDs`, `NotifyEvent`, `Lock`, `CreateThread`, `StartThread`, `Clone`, `CloneFails`, `CloneMismatch`, `ServiceInvalid` | the services of `sci.c` |
| `Fault`, `FaultPanics` | `x64excep.c` |

The timer handler is cut into several steps to keep each readable; no other
action is enabled while `pc # "user"`, so the cuts add no interleaving.
Abstractions: jiffies and wake-up times become the number of ticks left;
quantum and running count become `left`; the value of a quantum, which the
scheduler computes from credits and priorities, is any member of `Quanta`;
names, stacks, contexts and statistics are dropped; init's tid is 0 and the
other threads take the first empty slot, as in the code.

`Tasks` says what a program may rely on, without lists, rounds and deferred
requests: a thread lives from its creation until its process has asked to exit
and is reaped, or until it faults itself; a reaped process loses all of its
threads and no other process loses any; a fault closes the process of the
thread that faulted; the dead stay dead and only the living run.  In the
refinement a thread is alive while its magic number is valid (`Life`), a
process is open while its structure is, and a process has asked to exit from
the call until its first thread has been a ZOMBIE.  The kernel may forget a
request (`Enter`): a zombie that its sleep timer revives is no longer one.

### `Callback` - callbacks into ring 3

State: the current thread `cur`, what the processor runs (`mode`, `run`,
`fpu`), the global context variables `ctx` of the timer entry, the context in
each thread structure `saved`, the switcher's lock, the unacknowledged tick
`inService`, the threads not spawned yet (`fresh`), those destroyed (`dead`) and
those the scheduler passes over (`waiting`: asleep, blocked, joining or exited),
and per thread `handler`, `alertable` and `inProgress`; `address` is
`ring3_callback_address`.
`done` is a history variable: the point of its program a thread has reached.

| Action | Code |
|---|---|
| `Step`, `HandlerStep` | ring-3 programs (external) |
| `SetHandler`, `Alert` | services 44000 and 44001 (`sci.c`) |
| `Lock` | services 640 and 641 |
| `TickLocked`, `TickStay`, `TickSwitch`, `TickSpawn` | one tick from `irq0` to `iretq` (`hw1.asm`, `ts.c`, `hw2.asm`, `spawn.c`); `Release` is the end of `tsThreadSwitch` with the detour to the handler |
| `Restorer` | `int 198` (`sw2.asm`) and `callback_finalize` |
| `Fault` | a fault in a thread or in its handler (`x64excep.c`) |

A context is reduced to the point of the program and to whose FPU registers it
holds.  Which thread a tick selects is any that lives and is not waiting, and
every tick may find other threads waiting (`Rescheduled`); `Sched` says which.
init never waits here: a round or a fault that finds init asleep is a panic,
which `Sched` models.

### `Sockets`, and the abstract `Rpc` - local sockets and the display protocol

State of the kernel: the server socket's state and pending list (`pending`,
`tail`, `head`), `fd31` (slot 31 of the server's open files, through which it
reaches every client), and per client its socket state, the permission flags
(`flags`), the full flag, the message in the buffer and the action word.
State of the programs: where a client is in a call (`pc`, `kind`, `result`) and
where the server is in its loop (`spc`, `msg`, `noReply`).

| Action | Code |
|---|---|
| `Listen`, `Connect`, `Accept` | `socket.c`; `connect` also writes slot 31 |
| `Written`, `ReadFrom` (in the calls below) | `__write_imp`, `__read_imp` on a socket (`fslib.c`) |
| `CallWrite`, `CallAnnounce`, `CallPoll`, `CallRead`, `CallReturn` | one call of the client library, one system call each (`gws.c`) |
| `ServerCheck`, `ServerRead`, `ServerHandle`, `ServerWrite`, `ServerAnnounce`, `ServerClear` | `dispacher`, `dsProcedure`, `dsSendResponse` of the server (`comploop.c`) |

`Rpc` says what the clients rely on: a call is asked, served once, and returns
after that, with the answer to that call or none.  `Sockets` is shown to
implement it with `call` computed from where client and server are.  A message
is its kind and whose request it is; what requests draw is dropped.

### `TcpClient`, and the abstract `Stream` - TCP connections to remote servers

State: the connection table up to `used`, per connection its remote server,
status, socket state, `sndUna`, `sndNxt`, `rcvNxt`, the bytes in the socket's
file (`buf`, by their number in the stream, 0 for a NUL), read offset,
permissions and action word.  Of the remote peer: its view of the connection,
how much it has sent and got; of the network: the SYN and the highest
acknowledgement that were sent.

| Action | Code |
|---|---|
| `Connect`, `Write`, `Read` | `tcp_client_connect`, `tcp_socket_send`, `tcp_socket_recv` |
| `Close` | `socket_close` |
| `Receive` | `network_handle_tcp`: `Found` is the lookup of the connection, `RecvClosed`, `RecvRst`, `RecvSynAck`, `RecvData` the branches of `__handle_tcp_for_non_local_servers` by status |
| `SrvSyn`, `SrvAck`, `SrvGet`, `SrvSend`, `SrvReset` | a conforming remote server (external) |

Segments are not stored.  The network may lose, repeat, delay and reorder, so
what may arrive is everything that the peer was ever entitled to send, which is
a function of its state (`Segments`).  `ok` is whether a segment could be sent.
Sequence numbers count from the initial one of their sender; the code only
compares them for equality, so wrap-around changes nothing.

The handler first copies a segment to `__tcp_payload`, as a string.  `DataLen`
is how many bytes it copies and counts: all of a segment that is smaller than
the buffer (`Payload`, 1400 in the code), and two fewer than the buffer holds of
any other.  `strncpy` is the function of `gthouse/libk/kstring.c`: it stops at
the first NUL and fills up with NULs.  Which bytes of a stream are NUL is the
constant `Nul`.

`Stream` says what a reader may rely on: the bytes kept are those of the peer
in order and none twice; it is a stream of text, so what follows a NUL that
arrived in the same piece is blanked; a piece that had no room is passed over
whole; the stream is read only after it ended, from its first byte.  It may end
early, and a FIN is counted as one number also when the segment that carried it
was cut: if its acknowledgement fails, one byte is passed over.  `tcp.c`
promises no more, see section 6; `AcknowledgedIsKept` says when no
acknowledged byte is passed over.

The theorems of a module `M` are in `MProofs`, those about `Sched` and `Tasks`
in `TasksProofs`, which builds on `SchedProofs`; `MCM` is the module TLC runs.

## 3 Runs

| Run | Checks | Bounds |
|---|---|---|
| `msgqueue_ring` | `TypeOK`, `AtMostOnce`, `BoundedDelay`, `LostOnlyByLapping`, `ImplementsMailbox` | 3 slots, 4 posts: one lap and one more, so that the tail overwrites |
| `sched_safety` | `TypeOK`, `RoundReady`, `OneRunning`, `HaltExplained`, `ActsAsOwner`, `DeadStayDead`, `ImplementsTasks` | 3 threads in up to 3 processes; sleep, exit, join, clone, threads, faults; sleeps of 2 ticks |
| `sched_live` | `SleeperWakes`, `ExitServed` | 3 threads; sleep, exit, threads (started also twice), clone, locks; with fairness |
| `sched_events` | `ReadyRuns` | 3 threads; clone, yield, block, display-server events; quanta 1 and 2; with fairness |
| `callback_run` | `TypeOK`, `ResumesWhereItWas`, `NeverSavedInHandler`, `SilentOnlyAfterFault`, `AlertServed` | init and one thread, one handler and the address 0, programs of 2 points, the thread waiting at any tick; with fairness |
| `sockets_rpc` | `TypeOK`, `ReadableIsFull`, `OnePlaceEach`, `ImplementsRpc`, `Served` | 2 clients, backlog 2, clients connect while the server is in accept; with fairness |
| `tcp_stream` | `TypeOK`, `AckedWasSent`, `AcknowledgedIsKept`, `ImplementsStream`, `HandshakeEnds`, `FinTaken` | 1 connection, streams of up to 4 bytes, the second a NUL, segments of up to 3, a payload buffer of 3, a file of 3; with fairness |
| `sched_zombie`, `callback_eoi`, `callback_fpu`, `sockets_connect`, `tcp_peer` | one claim of a comment each, refuted | see section 6 |

What the properties say of the system:

- `ImplementsMailbox`, with `AtMostOnce`, `BoundedDelay`, `LostOnlyByLapping`:
  a ring whose head and tail pass each other freely still is a mailbox.
- `RoundReady`, `OneRunning`, `HaltExplained`, `DeadStayDead`: the cached list
  of a round survives everything that happens while it is consumed.
- `ImplementsTasks`: exit, join, reaping, spawning, cloning and faults together
  treat threads and processes as a program expects; reaping the wrong thread,
  or one thread too few, breaks it.
- `ActsAsOwner`: system calls act in the name of the current thread's process,
  also after a switch, a spawn, a clone or a fault; the one exception is a
  thread that is dispatched while its sleep is in progress, for which
  `ts.c:884` makes init the current process.
- `ResumesWhereItWas`, `NeverSavedInHandler`: although a callback lives in
  global variables that every tick writes, nothing comes between the tick that
  sets them and the restorer that reads them.
- `SilentOnlyAfterFault`: the tick that called a handler is acknowledged on
  every path but the one of `callback_eoi`.
- `ImplementsRpc`, `ReadableIsFull`, `Served`: the display protocol is a remote
  procedure call, and never meets the panic of `read`.
- `OnePlaceEach`: `connect` takes a place of the pending list without looking
  who is there; up to the backlog, tail and wrap never give it a taken one.
- `AlertServed`: a thread that is alertable gets its callback, or waits, is
  destroyed, or meets the lock of the switcher before that.
- `ImplementsStream`, `HandshakeEnds`, `FinTaken`: TCP delivers in order over a
  bad network, and until the server stops the two retries that the client
  leaves to it work.
- `AcknowledgedIsKept`: what the server was told has arrived is in the file of
  the socket, every byte at its place, if the stream is short enough for the
  file and its last segment was not cut.  A byte may be blanked, but only by a
  NUL before it at a distance that one copy spans (`CopyOf`); a stream without
  NULs is kept byte for byte.  Without these conditions it fails (section 6).

Why these bounds.  The ring: all positions of head against tail occur with
three slots, and with four posts every slot is written and one is lapped;
`MISS_LIMIT` is 2 so that blocking meets every other operation.  Threads: two
besides init suffice for one thread to act while another is in the list, is
joined, or is reaped, and for a process of two threads beside init's; tids are
never reused, so the table bounds the number of threads created.  A quantum of
1 ends at every tick and one of 2 leaves a tick in the middle.  Services are
split over the runs because they multiply; each run takes those its properties
are about.  Callbacks: one thread besides init gives every order of switch,
spawn, fault and handler, in init and in a thread that can be destroyed; two
points tell a thread that moved on from one that went back.  Sockets: two
clients are enough for one to act between any two steps of the server for the
other; with a backlog of 2 the second takes place 0, after the tail has
wrapped, and the list is full.  With fewer places than clients a connect
overwrites another's place, `Served` fails, and `OnePlaceEach` says nothing.
TCP: with a payload buffer of 3 a segment of 3 is cut to 1 byte and one of 2 is
copied whole; a stream of 4 into a file of 3 then has cuts, a piece that does
not fit and one after it that does.  The second byte is a NUL: the third is
blanked when both come in one piece, and kept when the server cuts between
them.

Liveness properties of `Sched` have the escape `Stopped`: after a panic, and
while init holds the task-switch lock (service 641 is the only way out, and
nothing makes init call it).  `AlertServed` has the same escapes, the one of
section 6 after which the timer is silent, and a thread that waits.

## 4 Fairness

- `Sched`: `WF_vars(Kernel)`.  The timer handler is entered again whenever it
  can be, and once entered its steps are taken: the PIT interrupts
  periodically, ring-3 code runs with interrupts enabled, and the handler
  itself is not interrupted.  Nothing is assumed of programs.
- `Callback`: weak fairness of ticks; strong fairness of the switch to a thread
  that from some time on neither waits nor meets a locked switcher, which is
  what `ReadyRuns` of `Sched` gives (a thread that the display server keeps
  notifying is passed over, so it counts as waiting), so that one that waits
  again and again may never be switched to; and that a handler ends.  The kernel
  cannot force the last: a handler runs with interrupts disabled.
- `Sockets`: weak fairness of the server and of every client that is in a
  call, because the scheduler comes round to both.  No client has to connect or
  to start a call.
- `TcpClient`: what a server sends again and again (its SYN|ACK, its FIN)
  arrives at last and its FIN is at last acknowledged, until the server stops
  (`srvRst`).  Nothing is assumed of what the client sends, since the client
  never sends anything twice.

## 5 Proofs

TLAPS proves for every size of ring, table, backlog, segment and file, and for
every number of threads, handlers, clients and connections, what the runs check
for small ones.

`MsgQueueProofs`.  The inductive invariant `QInv` is `TypeOK` with four facts.
`Numbered`: post numbers are at most `posted`.  `AtMostOnce` itself.
`Placed`: the number of a message posted since the last restart is determined
by its distance from the tail, which is what shows that only the lapping post
can overwrite it.  `Approaching`: the polls that a message has waited and those
it still has to wait for the head fit in one lap.  `BoundedDelay` follows from
the last, `LostOnlyByLapping` from the third.  The refinement
`QueueImplementsMailbox` takes one lemma for what a step does to the set of
unread messages: a post drops the one in the slot at the tail (`TailDropped`,
from `Placed`), a delivery removes exactly one (`OneLess`, because by
`AtMostOnce` no letter is in two slots), everything else leaves it as it is.
Assumption: the ring has at least one slot (`RingAssumption`).

`SchedProofs`.  Type correctness (`SchedTypeOK`) is inductive by itself and
holds for every set of services.  What the switcher relies on is not inductive;
it follows from `SInv`, `TypeOK` with these parts:

| Part of `SInv` | Why it is needed |
|---|---|
| `Rounds` | listed threads are READY, distinct, already visited by a scan that is going on, and not on their way to the processor; without "distinct", dispatching one entry would spoil another |
| `Running` | which thread runs at each position of the handler: a thread that exits, sleeps or faults is RUNNING, hence not in the list |
| `InitThere` | init is valid, and READY unless it runs or sleeps: a new round and a fault hand the processor to it |
| `Owners`, `Dense` | slots are filled from the bottom and a process's first thread is its oldest, so init shares a process with no other flower thread |
| `FlowerOnly` | only flower threads exit, join or become ZOMBIE, so a scan reaps siblings it has not listed yet: they come later in the table than the zombie |
| `FreshUnsaved` | a thread that was not started has no saved context, which is what the spawner's panic tests |
| `LiveProcess` | until the first fault every thread has a valid process, which explains three of the panics |
| `HaltExplained`, `NoCause` | the property, and that no panic has happened while the system runs |

`SInit` and one lemma per action (`SNext` puts them together) show that `SInv`
is inductive; `SchedRoundReady`, `SchedOneRunning` and `SchedHaltExplained`
follow from it.  Assumptions: `SchedAssumption` (a table with at least one
slot, positive quanta), and that no program starts a thread twice (`"restart"
\notin Services`), see section 6.

`TasksProofs`.  Starting a thread twice spoils the list of the round, but not
the life of threads and processes.  The invariant `LInv` therefore keeps the
list out: it is `TypeOK` with `BootThere` (init and its process are never
reaped), `Families` (the thread that names a process belongs to it),
`OnlyFlowers` (only first threads exit, join or become ZOMBIE: what is reaped
is a process), `NothingYet` (nothing was asked by, and nobody is named after, a
slot that is empty, and a cloned process that has not run consists of its first
thread), `UserMode` (whoever runs is valid), `ScanPast` (the loop
of the scheduler never visits init) and `ActsAsOwner`, which says that an exit
or a fault hits the process of the thread that called.  It is inductive for
*every* set of services, and so `SchedImplementsTasks`, `SchedActsAsOwner` and
the action property `SchedDeadStayDead` need no assumption but
`SchedAssumption`.  Each lemma `L...` shows for one action both that `LInv` is
kept and which step of `Tasks` is taken.

`CallbackProofs`.  `IInv` adds to the types, while the system runs:
`SavedIsDone` (the structure of every thread that may be dispatched holds the
point it has reached), `GlobalsHold` (while a handler runs the globals hold the
context of its thread), `ProgressIsHandler` (a callback is in progress for the
current thread in its handler and for no other that lives) and
`FreshNotStarted`.  `ResumesWhereItWas` needs the first two, and the last is
what keeps the switcher's panic away.  `CallbackSilentOnlyAfterFault` rests on
`ProgressIsHandler`: the tick is unacknowledged while a handler runs, the
restorer acknowledges it, and only a fault leaves the handler otherwise, with
the flag of the callback still set in the dead thread.

`SocketsProofs`.  `Base` (types, `ReadableIsFull`, `HasFile`) is inductive
whenever clients connect.  Under `AnyTime = FALSE`, `RInv` adds what is in the
buffer and in the action word at each point of a call (`ClientInv`) and that
the server holds the request of the client in slot 31, who waits for it
(`ServerInv`).  From it follow `AnswersTheAsker` and, one action at a time, the
refinement `SocketsImplementRpc`: a step of server or client is a step of one
call, or none.  `SocketsOnePlaceEach` has an invariant of its own, `PlacesInv`:
as long as the list is not over-full, the places taken are those the tail has
passed, one for each connected client, and the number of connected clients says
how far the tail has come.  It counts clients, hence the assumption
that they are finitely many (`ClientAssumption`).

`TcpClientProofs`.  `TInv` (types, the file within its size, the offset within
the file) is inductive for every use of the connections.  If a server is
connected to once (`Reconnect = FALSE`), `CInv` adds that connections have
distinct servers and, for each, how its numbers relate to its status and to
what was sent (`ConnInv`).  `AckedWasSent` and the refinement
`TcpImplementsStream` follow: every segment taken in order is a `Consume` or
`ConsumeLast` of the bytes that `Stream` expects, everything else stutters,
ends or kills the stream.  `TcpAcknowledgedIsKept` adds `KeptInv`: no
acknowledgement is ahead of `rcvNxt`, and the file of a short stream holds
exactly the bytes before `rcvNxt`, each of them a copy as `CopyOf` says
(`Whole`), which for one segment is the lemma `PayloadCopy`; so that a piece in
order always fits (`InOrderKept`) and a FIN is counted only after the last byte
(`LastUncut`).  `TcpEndedByItsServer` shows that the claim `tcp_peer` refutes
holds for connections to different servers.

Every invariant, action property and refinement of the passing runs is proved.
What stays with TLC is liveness: `SleeperWakes`, `ExitServed`, `ReadyRuns`,
`AlertServed`, `Served`, `HandshakeEnds` and `FinTaken` rest on fairness and
ENABLED, which the provers do not handle.

## 6 Disagreements between code and comments

Each of these is a run whose only property states what a comment says; TLC
finds a behaviour of the code that breaks it.

- `sched_zombie`: a zombie is no longer selected (`sched.c:1011`).  The sleep
  timer of a thread that has exited makes it READY (`sched.c:1092`).
- `callback_eoi`: "the assembly epilogue will send the EOI automatically"
  (`pit.c:241`).  A fault inside a ring-3 handler resumes init through the
  epilogue of the faults, which sends none; no tick comes any more.
- `callback_fpu`: the restorer returns "with the last saved context"
  (`sw2.asm:161`).  It jumps behind the `fxrstor` of the timer epilogue, so the
  thread goes on with the FPU registers of the handler.
- `sockets_connect`: `connect` only enters the queue and `accept` makes the
  connection (`socket.c:1875`).  `connect` also replaces the file in slot 31 of
  the server, which may be between its read and its write for another client:
  the answer goes to the wrong client.  The proofs therefore assume that
  clients connect while the server is in accept.
- `tcp_peer`: the lookup finds "the connection object that
  tcp_client_connect() created for the matching SYN" (`sockint.c:459`).  It
  finds the first to the same address and port, so the FIN of a second
  connection ends the first.  The proofs therefore assume one connection for
  each server.

The models contain further behaviours that differ from a comment; no run is
devoted to them.

- Service 111 "consumes messages in order" (`user.c:93`): polling an empty ring
  moves the head past the tail (`ipc.c:1005`), and a later message may come
  first.  `BoundedDelay` says how late a message can be.
- "Block on empty queue" (`ipc.c:856`): misses are counted across deliveries,
  so a thread is blocked with unread messages (`MissAgain`).
- The current process is "the owner of the current thread" (`ts.c:392`): not
  for a thread dispatched in its sleep; `ActsAsOwner` states what holds.
- A fault in ring 3 ends the process (`x64excep.c:438`): its other threads
  stay, and the switcher dies on them.  `HaltExplained` allows these panics
  after a fault only.
- An event of the display server wakes the thread if possible
  (`sched.c:960`): the event is consumed while a block is pending.
- A list head that is not READY is "not reached" (`ts.c:838`): starting a
  listed thread again reaches it, hence the assumption of the proofs.
- A segment that does not fit is refused and "rcv_nxt stays put"
  (`tcp.c:4323`): it has been advanced at line 4269, and the bytes are
  acknowledged and lost.  `Stream` passes over such a piece, and
  `AcknowledgedIsKept` is limited to streams that fit.
- "Saving payload into the file" (`tcp.c:4333`, with the number of bytes): the
  payload was copied by `strncpy` (`tcp.c:3752`), which stops at the first NUL
  (`gthouse/libk/kstring.c:226`), so the bytes of a segment that follow a NUL
  are saved as NULs, while line 4269 counts them and the ACK covers them.
  `Stream` is a stream of text for this reason, and `AcknowledgedIsKept` says
  which bytes a NUL can cost.
- A segment that is out of order is dropped (`tcp.c:4419`): its FIN is not, and
  ends the stream before its last byte.  `Stream` may end early.

## 7 What is not modelled

- The second policy, `__scheduler_pi`, and the arithmetic of credits,
  priorities and quanta; `__scheduler_rr` sets priorities back to their base in
  every round and never reads them.
- Of TCP: the handler of segments to local servers
  (`__handle_tcp_for_local_servers`), the kernel's debugging port, options and
  windows.  Each socket of the model connects once.  Slots of the connection
  table are never given back, as in the code.
- Of sockets: UDP, the other domains, names and `shutdown`.  Requests whose
  handler leaves `NoReply` alone (refresh, disconnect, drain) are not sent by
  the client library and not modelled.  Of `sys_set_file_sync` only the request
  that sets the action word is: `SYNC_REQUEST_RESET_WR` and
  `SYNC_REQUEST_RESET_RD` (216 and 217, `fs.c:378-407`) overwrite the permission
  flags from ring 3.  No program of the repository sends them; one that did
  could make a file readable whose buffer is empty, and `ReadableIsFull` would
  not hold.
- Memory contents, page tables, ELF images: data without influence on the
  control that is modelled.
- Device drivers, buses, APIC and boot code: programming of hardware.
- Drawing, formatting, HTTP text and string helpers other than `strncpy`.
- User programs (`core/sysd`, the rest of `winsys`), `core/boot`,
  `core/modules`.
- Messages and threads together: `MsgQueue` models one queue with the
  scheduler's two steps on it, `Sched` the request to block without the queue.

The repository holds some 600 000 lines, most of them programs, copies of the
C library and drivers; the models take the part of the kernel and of the
display protocol where several actors share state.

## 8 Plan

1. `MsgQueue` with `Mailbox`, `Sched` with `Tasks`, their proofs and
   refinements (done).
2. `Callback`, `Sockets` with `Rpc`, `TcpClient` with `Stream`, and their
   proofs and refinements (done).
3. `TcpServer`: listening sockets, the backlog, duplicate SYNs and data with
   the last ACK of the handshake.
4. `Ipc`: `MsgQueue` and `Sched` composed - threads that block on their own
   queue, a foreground thread that dies, the display server's events.
5. `Pipe` and `Tty` buffers with their full and empty cases.
6. `Arp`, `Dhcp`: table entries and leases over a network that loses,
   duplicates and reorders.
7. `Mem`: frame and page pools and the heap, against an abstract allocator;
   FAT16 cluster chains.
