# TLA+ models of ipc-bench

ipc-bench measures mechanisms of inter-process communication.  Each benchmark is
a client and a server program (or a parent and its forked child) that exchange
`count` messages of `size` bytes, at most `rate` of them outstanding.  The models
here are about the exchanges: whether the two sides agree on what is outstanding,
whether buffers can overflow, whether the reported times belong to requests,
whether the programs end, and what a signal, an early close or a file left behind
by a killed run does to them.

## Inventory

| Component | State | Operations | Hard because |
|---|---|---|---|
| fifo (`source/fifo`) | two named pipes, window counters, `times[]`, `quit` | open and resize the pipes, poll, chunked blocking reads and writes, evaluate, close | open order, resizing while writing, partial reads and writes, SIGINT anywhere |
| tcp (`source/tcp`) | one connection, the same counters | listen/connect handshake over a FIFO, poll, non-blocking recv/send, close | EAGAIN, segmentation, resets, stamping ahead of sending |
| domain (`source/domain`) | one UNIX socket, the same counters | like tcp with blocking calls | blocking calls against each other, EINTR |
| eventfd-bi, eventfd-uni (`source/eventfd`) | one 64-bit counter | notify, wait with write-back; unanswered writes | tokens and writes that add up |
| shm, mmap (`source/shm`, `source/mmap`) | a guard byte and data in shared memory | wait, copy, fill, notify | memory that outlives a killed run, set-up races |
| shm-sync (`source/shm-sync`) | mutex and condition variable in shared memory | sync_wait, sync_notify | lost wake-ups, a mutex never unlocked |
| mq (`source/mq`) | a typed System V queue | handshake by signal, msgsnd, msgrcv, IPC_RMID | lost signals, stale queues |
| pipe, signal (`source/pipe`, `source/signal`) | pending SIGUSR1/SIGUSR2 | notify, sigwait | signals before they are blocked |
| zeromq (`source/zeromq`) | inside libzmq | REQ/REP | external |
| common (`source/common`) | arguments, statistics | start children, signals, evaluate | numeric edges, process groups |
| harness (`*.sh`, `*.py`) | none of interest | start, SIGINT, collect, plot | not modelled |

Client and server interact only through the mechanism they measure, through the
readiness FIFO of tcp and domain, and through signals.  The launcher forks both
into its own process group, which is the group `kill(0, ...)` of mq, pipe and
signal reaches, and waits.  `PROJECT.json` lists every component with its status, the hazards at
their lines, and which property covers each.

## Modules

| Module | Models | Uses |
|---|---|---|
| `FlowControl` | abstract: a client with a window, a server that echoes; bytes sent, accepted, echoed, received | |
| `Fifo`, `MCFifo`, `FifoProofs` | `source/fifo` | refines `FlowControl` |
| `Tcp`, `MCTcp`, `TcpProofs` | `source/tcp` | refines `FlowControl` |
| `Domain`, `MCDomain`, `DomainProofs` | `source/domain` | refines `FlowControl` |
| `PingPong` | abstract: two processes take turns for a number of rounds | |
| `EventfdBi`, `EventfdBiProofs` | `source/eventfd/eventfd-bi.c` | refines `PingPong` |
| `EventfdUni` | `source/eventfd/eventfd-uni.c` | |
| `Shm`, `ShmProofs` | `source/shm` | |
| `Mmap`, `MmapProofs` | `source/mmap` | |
| `Signals` | `common/signals.c`, `parent.c`, `process.c`: handlers, masks, pending signals, fork, execv, waitpid | |
| `Mq`, `MqProofs` | `source/mq` | extends `Signals` |
| `SignalTurns`, `SignalTurnsProofs` | `source/signal` and `source/pipe` | extends `Signals`, refines `PingPong` |
| `ShmSync` | `source/shm-sync` | |
| `Stats` | `analyze_array` and `compareULLongs` of `common/benchmarks.c` | proved in `TcpProofs` |

Variables carry the names of the C variables; `pc` is where a process is.  An
operator whose name ends in what went wrong and which follows a comment "Mutant"
is a deliberately wrong version of the next definition, kept to show that the
properties notice it; no specification uses it.

### The window benchmarks: Fifo, Tcp, Domain

The payload is never looked at, so a pipe or a socket buffer is a number of
bytes.  One pass of `communicate` is the actions `Poll` (loop test, `checkPoll`,
quit test), `TryRead`, one action per `read`/`recv` or piece of a `write`/`send`
(`read_from_...`, `write_to_...`), `Account` (everything between the two helper
calls: the counters, `updateReadWriteTimes`, `updateWriteTimes`) and `Wrote`.
The helper calls are cut into single system calls because the other process, a
signal or a close may come between any two of them.  `times[]` holds what kind of
value an entry is: unset, a write time, a round-trip time, or a difference
computed from no write time.

*Fifo* starts with the two blocking `open` calls and `F_SETPIPE_SZ`, which fails
when the pipe holds more than the new size.  `pfds` comes from `malloc`, so the
server's `canWrite` is arbitrary until it polls its second descriptor.  *Tcp*
starts with listen, the byte in the readiness FIFO, connect and accept; the
connection has a send and a receive buffer per side, `Deliver` moves any part of
a send buffer, and a close with unread bytes or data arriving at a closed socket
resets the connection and drops what is in the send buffers (`lost`).
`outstandingReqs` keeps its wrap-around (`SizeMax` stands for 2^64).  *Domain*
has the same start and blocking calls on a socket without a network in between.

Signals: before the handler is installed SIGINT ends the process (`Killed`),
afterwards it sets `quit`; `sa_flags` of the `struct sigaction` on the stack is
never set, so a sleeping call may be restarted or return EINTR
(`SleepInterrupted`).  A write without a reader raises SIGPIPE, whose handler
sets `quit`.  Two calls may fail without the signal: tcp's first `send` after a
reset, and a `send` of domain that was already waiting for room when its peer
closed.

### The turn-taking benchmarks: EventfdBi, Shm, Mmap

*EventfdBi* separates the read of a token from its write-back.  *Shm* and *Mmap*
separate wait, memcpy, memset and notify; messages are numbered so that a message
read twice or never shows.  In *Mmap* the memset runs over the guard itself, and
the file has no length until the server's `make_space`.  `KillAndRestart` kills
both processes and starts a new run on the memory left behind; shm's segment goes
when a server reaches `cleanup`, mmap's file when a client reaches `remove`.
*EventfdUni* counts how many clock values are merged in the counter.

On a stale segment or file the server's first wait may find the value it waits
for although the client of this run has not started; the two then get out of step
and hang.  `OnlyEarlyStartHangs` says that nothing else does.  In *Mmap* the
client may also open the file before `make_space` and die of SIGBUS.

### Signals and their users: Signals, Mq, SignalTurns

`Signals` keeps, for launcher, server and client, the signals with the empty
handler (`handled`), the mask (`blocked`) and what has arrived while blocked
(`pending`, a set: signals do not queue).  `notify` is `kill(0, ...)`: at the same
moment it adds the signal to the pending ones of every process that blocks it,
does nothing to those that handle it, and ends the others, the sender included.
`fork` copies handlers and mask, `execv` drops the handlers.  The launcher is taken
to lead its process group, as a job started by a shell does; otherwise `setpgid`
fails and both children throw.

*Mq* composes this with the queue: `create_mq` of both sides with its one SIGUSR2,
the server's `msgsnd` with IPC_NOWAIT, the client's blocking one, `msgrcv` by type
and size (E2BIG, a short message), and IPC_RMID.  `KillAndRestart` ends a run
anywhere and starts one with another message size on the queue left behind, whose
messages get the number 0.  A stale message of the right size is taken for an
answer; one of another size makes its reader throw and leaves the other one
waiting; `Room` killed runs fill the queue, after which the server throws.

*SignalTurns* has both benchmarks that take turns by signals; `bench` says which
of them runs.  `pipe` forks its client itself and writes a message into a pipe
before each signal, piece by piece as it fits.  Its client reads only after the
signal, so a message larger than the pipe stops both.  The client of `signal`
tests `count` and counts down `size`: it never ends, and neither does the
launcher.

### ShmSync and Stats

*ShmSync* has one mutex and one condition variable.  Either process initialises
them at any time, which frees a mutex somebody holds and may make the condition
variable forget its waiters; a signal without a waiter is lost, and a wake-up may
be spurious.  `SyncInSegment` is where the pointer arithmetic of `create_sync` puts
them (it counts in `struct Sync`s, not bytes): beyond the segment unless messages
are small.  The server's clean-up destroys them after detaching the memory.

*Stats* scans, sorts and takes the median of every array of a bounded length.
`ULLONG_MAX` and `INT_MAX` give the widths of the C types, and subtraction, sum and
the cut to an int wrap at them.  `qsort` gives any permutation when its comparison
is no order, because it then promises nothing.

## Runs

Passing runs:

| Run | Shows |
|---|---|
| `fifo` | window, buffers, exact times and refinement with SIGINT anywhere; undisturbed, every `open` and resize succeeds, no two blocking calls wait for each other, every request is answered and the client's assertion on the count holds; a process told to quit ends whatever the other one does |
| `tcp` | the books and refinement with partial sends, segmentation, resets and SIGINT anywhere; undisturbed, `connect` meets a listening server, the server ends, and the client ends unless answers were dropped; times are real differences as long as no call of the client ends inside a request; a process told to quit ends |
| `domain` | as for fifo, and the lock-step in whole windows |
| `eventfd_bi` | one token, never lost or added to another; both loops end, unless one process reads the other one's token and puts it back forever |
| `shm` | messages on a new segment; exclusion on stale ones, where only an early start of the server can hang |
| `mmap` | the same with the guard inside the data, or the client dies of SIGBUS |
| `mq` | on a new queue no message is mistaken for another and no call fails; each killed run leaves at most one message; a run hangs only if its one signal came before the client blocked it or a process threw |
| `signal_turns` | no signal of the loops is lost, merged or fatal; the processes take turns although each counts its own rounds; both benchmarks get through unless the client's first signal came too early or a message exceeds the pipe |
| `stats` | minimum and maximum are right for every array, and the median when the times are less than 2^31 ns apart and do not wrap when added |

`MCFifo`, `MCTcp` and `MCDomain` add one variable to the component, `signalled`,
which remembers whether any SIGINT was delivered; what is promised only to an
undisturbed run is stated there with it.  `MCTcp` adds `cut` too, which remembers
whether a helper call of the client moved part of a request: from then on the
request counts of the tcp client are too low (`NeverOvercounts`) and times may be
computed from unset entries.

Runs that show a disagreement between a comment or assertion and the code
(details under `findings` in `PROJECT.json`):

| Run | Shows |
|---|---|
| `tcp_assert` | answers that arrive in pieces are counted as no request, and the assertion fails after a complete run |
| `eventfd_uni_merge` | what the server reads is not a timestamp when two writes met |
| `shm_sync` | results are not printed: `sync_wait` returns with the mutex, and the same process then locks it again; only a spurious wake-up with the other process's initialisation of the mutex in between lets it go on |

The models show more disagreements, for which the conditions of the properties
above leave room and which have no run of their own:

* "before closing connection, wait for client to finish" (`tcp/server.c:246`): the
  server closes at once (249), and when a request is unread then, the reset drops
  the last answers (the exception `lost > 0` of `RunEnds`).
* "Ensure that the file will hold enough space" (`mmap/server.c:29`): the client may
  create and map the file first, and its `mmap_notify` then ends in SIGBUS (the
  exception `~SpaceEnsured` of `OnlyEarlyStartHangs`).
* "Sort the array to find the median" (`common/benchmarks.c:75`): `compareULLongs`
  returns a 64-bit difference as an int, and times more than INT_MAX apart may
  be sorted wrongly (`Ordinary` in `ReportRight`).  With an INT_MAX of 3, the times 0,
  1, 6 come out as 6, 0, 1.
* `assert(args->count > 0)` (`common/benchmarks.c:113`): a SIGINT before the first
  whole answer makes the fifo, tcp and domain clients abort instead of reporting.
  `Complete` says that in fifo and domain only an interrupted run can; in tcp an
  undisturbed one can too (`tcp_assert`).
* The closes of the fifo and tcp servers do not stop a client with a full window,
  which polls on until it is told to quit.

### Bounds

Requests are two bytes, so a request can be cut, and a window is larger than what
a pipe or a socket buffer holds, so it never fits at once and every partial
transfer happens.  In `fifo` and `domain` the window is two requests and `Count`
is not a multiple of it; `Count` is large enough that the window slides.  In
`tcp` signals, segmentation and resets together allow a window of one request over
buffers of one byte; the third request, sent to refill the window, is what meets
the server's close.  Two kills leave
every value of the guard behind, and three rounds are one more than an error of
the turn-taking needs to show: those loops have no state that grows with the
rounds.  `mq` has as many kills as the queue has room, so that the queue gets full,
and two sizes, so that a stale message is longer, shorter or equal.
`signal_turns` has messages below, at and above the pipe's capacity.  `stats` has
times that differ by more than an int holds and sums that wrap; four elements give
both parities of the median and orders that are not transitive.  `shm_sync` uses
the real sizes of a page and of `struct Sync` with one round, which is already not
finished.  `numReqsSent` of Tcp stops at `Count`, beyond which it stamps nothing.

### Fairness

Weak fairness of each process: the window benchmarks pin client and server to
CPUs of their own, and nothing else makes them stop.  `Tcp` adds weak fairness of
delivery over the loopback device.  Nothing more is assumed of the race for the
counter of `EventfdBi`: an eventfd wakes every reader, and the process that does
not want the token may take it and write it back again and again.  The starvation
of the other one is a behaviour of the model, and `OnlyLostRacesHang` says that
nothing else keeps the loops from ending.  SIGINT is never forced, nor is a
spurious wake-up.  For mq,
signal, pipe and shm-sync it is weak fairness of launcher, server and client:
nothing stops them but the calls they wait in.
Deadlock checking is off because all these programs end; that they do is stated
as liveness.

## Proofs

TLAPS proves the following for every value of the constants.  The assumptions are
the named ones of the models: request size, rate, count, message sizes, pipe and
buffer capacities are positive, fifo's server asks for the larger pipe, and an
unsigned long long has room for a whole number of ints.  Each
theorem whose name is followed by another one in parentheses proves that property
of the run of the component.

**The window benchmarks** share the argument about bytes.

* `FifoProofs`: `TypeCorrect` (`TypeOK`; no size_t subtraction of `communicate`
  wraps), `WindowIsConserved` (`WindowConserved`), `BuffersAlwaysFit`
  (`BuffersFit`), `FifoImplementsFlowControl` (`FlowSpec`).  The window equation
  alone is not inductive: the subtractions keep their type only because a call
  never moves more than it was asked for (`CallsBounded`), and `outstandingReqs`
  stays natural only because the outstanding bytes never exceed the bytes of that
  many requests (`ReqsCover`).  A write cut short breaks this cover, but then the
  client has been told to quit and reads no more; the invariant says so for each
  place in the loop.  There is one lemma per action; the effect of a helper call (k
  bytes from here to there) is a lemma of its own.  For the refinement every action
  is a step of `FlowControl` or leaves its four counters alone.
* `DomainProofs`: `WindowIsConserved`, `DomainImplementsFlowControl`.
  `WindowConserved` adds up two queues; the inductive form (`QueuesAgree`) is one
  equation for each.
* `TcpProofs`: `WindowIsConserved`, `TcpImplementsFlowControl`.  A reset drops
  requests and answers together into `lost`, so `BuffersAgree` has an inequality
  for each direction and an equation for the sum.

What the client reports:

* `RequestsAreTracked` (`RequestsTracked`, fifo).  The client stamps the requests
  that would fill the window before it knows whether it may write them, so what
  has a write time depends on what `poll` saw some steps before.  The invariant
  (`TurnInv`) says that an answer in RESPONSE means that the server has taken all
  of REQUEST, so REQUEST has room for as long as the client needs it, for each
  place of both loops, and who holds which end of which FIFO (`Held`).
* `StampsAreExact` (`StampsExact`, fifo and domain).  The invariant says what each
  entry of `times[]` holds in terms of the two request counters (`Stamping`), and,
  for domain, in which ways the counters of bytes and of requests may part after a
  broken call (`Regime`): the client then only leaves, or the server has left, no
  call sends anything any more, and the bytes still to be read are less than a
  request more than the requests counted as outstanding.
* `NeverOvercountsAlways` (`NeverOvercounts`, tcp) for every segmentation, and
  `TimesAreAlwaysDifferences` (`TimesAreDifferences`, tcp) as long as no call of
  the client has cut a request: then bytes and requests agree and the stamps are a
  window ahead whenever the client writes, up to `Count`.
* `ReportIsRight` (`ReportRight`, statistics), at the end of `TcpProofs`.  The
  invariant (`ReportInv`) bounds the elements seen so far by `min` and `max`
  (`Bounds`), which a permutation keeps, and says that after the sort ordinary times
  are in order (`InOrder`).  For that, the difference of two ordinary times passes
  through both cuts unchanged (`CompareIsDifference`), so the comparison is an order
  and `qsort` keeps its promise.  That the element at index k - 1 of a sorted array
  is the k-th smallest (`KthInOrder`) is shown by counting: the elements below it
  are among the first k - 1, and those not above it include the first k.

What an undisturbed run does, proved of the specifications with the history
variables of `MCFifo`, `MCTcp` and `MCDomain`:

* `ConnectAlwaysSucceeds` (`ConnectSucceeds`, tcp): the byte in the readiness FIFO
  means that the server listens and the client has not connected (`Handshake`).
* `WindowsAreWhole` (`WholeWindows`, domain) and `RunIsComplete` (`Complete`, fifo
  and domain).  The invariant `Undisturbed` has one part for each reason: only the
  client is ever told to quit, by SIGPIPE and with all its answers (`Ending`); both
  loops end past the same number of bytes (`Passes`); calls move whole windows until
  the server has left (`ClientWindows`, `ServerWindows`); the server is at most one
  window of answers ahead (`Exchange`); and all that is read is counted
  (`Answered`).  A client that evaluates has then counted `Count` requests, so the
  assertion of `evaluateClient` holds (`NoAbort`).  For fifo `Openings` adds in
  which order the opens and resizes can come.

**The other benchmarks**

* `EventfdBiProofs`: `TokenIsUnique` (`OneToken`) and `EventfdTakesTurns` from
  an invariant (`Phase`) that lists where the one token can be and which round the
  two loops are in.
* `ShmProofs`: `AccessIsExclusive`: a process inside its turn owns the guard, for
  any number of killed runs, because the client's `atomic_init` writes the very
  value the server's turn needs.  `MessagesRoundTrip` adds, for the run on a new
  segment, the round both loops are in at each pair of places.
  `NewRunWaitsForClient` follows from the same invariant: as long as no run was
  killed, the server does not start early, which is the condition of the liveness
  property `OnlyEarlyStartHangs`.
* `MmapProofs`: `AccessIsExclusive`, where in addition the memset over the guard
  writes a value nobody waits for until the guard is set, and `MessagesRoundTrip`
  on a new file, where a client too early for `make_space` ends the run before its
  first round.  `NewRunWaitsForClient` as for shm.
* `MqProofs`: `BacklogIsBounded`.  The bound alone is not inductive, because the
  client adds a message when it answers; the invariant counts the message the
  client has in hand with the queue, against the killed runs and the one round of
  the server that is open.  `MessagesRoundTrip` and `FirstRunNeverFails`
  (`NeverFails`) are about the run on a new queue: the invariant lists, for each
  phase of the round, where the one message is and of which type, size and round.
* `SignalTurnsProofs`: `SignalsAlwaysCount` (`EverySignalCounts`).  The invariant
  says what a process blocks and handles at each place (`Masks`) and puts every
  state into one of eight phases by whose signal is pending; a first signal that
  comes too early is a phase of its own, which is never left.  `SignalsTakeTurns`
  (`TakeTurns`) is the refinement of `PingPong`: in each phase every action is a
  ping, a pong or leaves both counts alone.  pipe's client counts its answers down;
  signal's counts nothing that ends, so an answer there is the signal in the
  server's pending set, which is one answer only because no two merge.

Only model-checked:

* liveness, which is out of the prover's reach: `Termination`, `RunEnds`,
  `QuitEnds`, `OnlyLostRacesHang`, `OnlyEarlyStartHangs`, `OnlyEarlySignalHangs`
  and `OnlyEarlyHelloHangs`;
* the three runs that end in a violation (`tcp_assert`, `eventfd_uni_merge` and
  `shm_sync`).

## Not modelled

zeromq's protocol is inside libzmq; `src/` has two loops of REQ and REP calls
around it.  Option parsing, address resolution, socket options and printing keep
no state that the exchanges depend on.  A failing call there ends a program before
anything is exchanged, except for tcp's `bind`, `listen` and `get_address`, whose
results are compared with 1 instead of -1: a failed `bind` or `listen` goes on and
is not modelled, a failed `connect` is (`ClientConnect`).  The harness scripts only start, interrupt and plot.
`rateGuard.c`, `shmSetup.c`, `source/other`, `source/tcp/other` and
`mq/flexible-array-test` are used by nothing that is built.

Of the statistics, mean, standard deviation and rates are computed in doubles,
which TLA+ does not have.  Calls that fail for want of memory, descriptors or
permissions are left out everywhere: they end the program.

## Plan

What is left is the lock-step of zeromq's REQ and REP, if a use for it turns up.
