# A TLA+ model of bash-os: sessions, services and membership

bash-os is GNU bash with some 280 loadable builtins written in C
(`src/loadables/`), statically linked into one shell that also serves as init,
service supervisor, login, editor, network client and so on. Most builtins are
sequential filters. The ones with concurrent, long-lived behaviour are the
subject of this project: `ptybroker`, which keeps a PTY and its processes alive
while shells attach to it, detach and die; `sv`, which starts, supervises and
stops services; and `cluster`, which keeps a roster of nodes over datagrams.

## 1. Inventory

| Component | State | Operations | What is hard |
|---|---|---|---|
| `ptybroker` service, `loadables/_ptybroker/server.c` | peer table with queues, history ring, input ring, child and stop flags, socket and directory | `pb_serve` loop, `handle_request` (8 request types), `flush_peer`, `accept_peers`, `forward_input`, `forward_output`, stop and cleanup | stale poll results, full queues, output against exit, orphaned descendants, failing system calls |
| `ptybroker` client library, `loadables/_ptybroker/client.c` | one connection per call; a capture keeps a snapshot and an offset | `pb_start`, `pb_status`, `pb_attach`, `pb_receive`, `pb_capture`, `pb_send`, `pb_resize`, `pb_terminate` | start handshake with timeouts on both sides, chunked copy of a moving ring |
| `ptybroker` builtin, `loadables/ptybroker.c` | handle table with owner and generation, one pending event per handle | `attach`, `fd`, `receive`, `detach`, `unload`; forks inherit the table | stale tokens, subshells, interrupted `receive` |
| `sv` supervisor, `loadables/sv.c` | `down`, `want`, `super-pid`, `pid`, `status` files per service; supervisor process | `up`, `start`, `down`, `restart`, signals, restart policy and backoff, readiness, notify, oneshot, `boot`, `shutdown`, bundles | commands and supervisors meet only in files and signals; barriers over status files; killed supervisors; cycles and edited scripts |
| `cluster`, `loadables/cluster.c` | per directory a listener with its roster, and state files under a lock | `init`, `join`, `leave`, heartbeats, expiry, disconnection, `bc_handle` | lost and late datagrams, listeners killed and ports taken over, `leave` against a listener that is going |
| `screen` | windows and panes over ptybroker sessions | run, split, attach, kill | several sessions in one operation |
| `cron`, `at`, `batch` | spool files, last-run times | due-job selection, run, remove | crash between run and remove |
| `flock`, `timeout`, `xargs` | lock descriptor; children | one loop of system calls each | a timeout against a child that just exited |
| text tools, editors, crypto, image, games, network clients, block devices | none that outlives a call | filters and one-shot commands | arithmetic and parsing, not interleaving |
| `_libssh`, `_mbedtls`, `_sqlite`, `_tree_sitter`, ... | – | – | vendored, not part of this program's own logic |

How they interact: `screen` and the `ptybroker` builtin call the client
library; the client library talks to one service process per session over
`SOCK_SEQPACKET` sockets and starts that process with `posix_spawn` and a
socket pair; the service talks to the kernel's PTY, to its children and to the
file system. An `sv` command forks a supervisor and from then on reaches it
through the files of `RUNDIR/NAME` and through signals; `boot` and `shutdown`
run the same commands over all services. `cluster` listeners exchange datagrams
with the seed; `leave` finds its listener through the state files.

What makes each of them correct:

* service: a subscriber sees the output without a hole, in order, and the exit
  after the last byte; one controller; accepted input reaches the PTY once and
  in order; `terminate` is acknowledged only when nothing is left; every
  request is answered or refused; a slot is never held for ever;
* client library: a capture is a snapshot or an error, as long as the session it
  began with keeps its ID; a start ends with a
  session both sides know of, or with nothing left;
* builtin: a token names the connection it was made for, and no other process
  reads from it; every output byte is delivered once;
* supervisor: at most one per service; `down` is not lost and `restart` waits;
  a barrier is not decided by what an earlier instance left; boot starts a
  service behind the barriers of what it depends on, shutdown stops everything;
* cluster: the seed's roster names nodes and endpoints once; who keeps sending
  is listed in the end, who stopped expires, who lost its seed says so; `leave`
  touches its own listener and files only;
* schedulers: a due job runs, and not twice.

## 2. Plan

1. `PtyRing`, `PtyBroker` (the service), `SnapshotCopy` and `PtyCapture` (the
   copy of a moving ring and what it promises), `PtyStart` (the start
   handshake). Done.
2. `PtyHandle`: the handle table, forks and the resumable `receive`. Done.
3. `SvLife`, `Sv`, `SvBoot`: what a service promises, one supervisor with its
   files and commands, and the ordered commands on top. Done.
4. `Cluster`: join, heartbeats and leave over a lossy network. Done.
5. Proofs for the rings, the service (seats, input, the stream of a client, the
   end of a session), the capture, the start, the handles, the supervisor, the
   ordered commands and the cluster. Done.
6. `Spool`: at-most-once execution of queued jobs; `sv once` and the activation
   by socket, path and timer.

## 3. Modules

`PtyRing` – the two rings of `server.c`, the window `[oldest, next)` that
`status_of` reports and the answer to CAPTURE. A byte is named by its position
in its stream, so a wrong byte, a repeated byte and a hole are all visible as
numbers. The data in a packet matters only through these numbers.

`PtyBroker` – the service from the first turn of its loop to its exit. The
program is one sequential process; `pc` is the point between two groups of
system calls:

| `pc` | code in `pb_serve` | actions |
|---|---|---|
| `top` | reap, stop, announce the exit, expire | `LoopEnds`, `SignalFails`, `LoopTurn` |
| `poll` | `poll` | `Poll`, `PollInterrupted`, `PollFails` |
| `scan` | loop over the peers | `Scan` |
| `serve` | `handle_request` | `ServeRefuse`, `ServeStatus`, `ServeOpenRefused`, `ServeOpenGranted`, `ServeResizeRefused`, `ServeResize`, `ServeInputRefused`, `ServeInput`, `ServeCapture`, `ServeTerminate`, `ServeUnknown` |
| `flush` | `flush_peer` | `FlushNothing`, `FlushBroken`, `Flush` |
| `accept` | `accept_peers` | `AcceptPeer`, `AcceptDone` |
| `input` | `forward_input` | `ForwardInput` |
| `output` | `forward_output` | `ReadOutput`, `OutputDone`, `OutputEof` |
| `clean`, `remove`, `ack` | `done:` | `CleanDone`, `CleanSignals`, `CleanCannotSignal`, `RemoveName`, `Acknowledge` |

`rev` holds the poll results, which the code goes on using after peers were
closed and new bytes arrived. Clients (`Connect`, `Send`, `HangUp`), processes
(`Fork`, `ProcExit`, `ProcWait`, `CloseTty`, `WritePty`), the clocks (`Age` is
the 500 ms limit of an idle connection, `StopClock` the 1500 ms before SIGKILL)
and `Signal` are the environment; they move between any two steps. `accepted`,
`written` and `lost` are history variables for the input.

`SnapshotCopy` and `PtyCapture` – the promise of `ptybroker capture` and its
implementation by `pb_capture`: one status request and then one request per
chunk on connections of their own, while the ring moves on. `request` connects
by name each time, so the answer comes from whoever has the ID: after
`ServiceEnds` the ID may go to a new session (`Recreate`) with a ring and
offsets of its own, and `snap[c].gen` and the history variable `met` say which
session a capture began with and which ones answered it. A byte is named by its
offset in the stream of its session.

`PtyStart` – `pb_start` in the creator and the startup and cleanup of
`pb_serve`, for any number of creators of one name. `owned` is a non-zero
`directory_identity`; `msg` and `ack` are the two directions of the socket
pair. The loop itself is one state, `serving`.

`PtyHandle` – the handle table of the builtin in every shell process. A command
runs to its end before the next one of the same process, as builtins do, so an
action is a command: `Attach`, `AttachUnbound`, `Detach`, `Receive`, and
`OtherCommand` for all that leave the table alone, refused ones included. Each
begins with `bw_initialize` (`Initialized`, `Generations`). `Fork` copies table,
generation and descriptors; `Reload` is `enable -d` followed by `enable -f`.
`issued` records every token with its process and connection; `out` and
`reported` record what `receive` wrote and announced. A receive writes any part
of what is left of its event, and its last step, the binding of the variable,
may fail. The packets of a connection come in the order in which the service
sent them, as `SOCK_SEQPACKET` keeps it; `PtyBroker` says which they are.

`SvLife` – what one service promises to those who start and stop it: it is off,
new (forked, not yet in `super-pid`) or on, and told to go or not. Two modules
meet here: `Sv` implements it, `SvBoot` relies on it.

`Sv` – one service. The operator's commands are steps of `bsv_up`, `bsv_down`,
`bsv_restart_target` and `bsv_signal_service`, one file operation, signal or
fork at a time (`UpCheck` ... `UpFork`, the start barrier, `DownMark`,
`DownWant`, `DownTerm`, `RestartWait`). A supervisor walks through
`bsv_supervise`: `Enter` and `Publish` (it removes the marker, writes
`super-pid`), `LoopStops`, `Launch`, `LaunchFails`, `Fork`, `WritePid`, `Reap`,
`Started`, `Probe`, `Notify`, `StopChild`, `KillChild`, `Reaped`, `Finish` (with
`bsv_restart_prepare`), `LogFailed`, `Wake`, `Exit`, `Leave`. The service exits
by itself, a supervisor is signalled or killed. Exit status and restart count
are reduced to what the policy tells apart. `writer` and `late` are history.

`SvBoot` – `sv boot`, `shutdown` and the commands on bundles: collecting the
scripts, `bsv_resolve_before_edges`, the depth-first `bsv_visit_ordered_service`
as a search with an explicit stack (`Order`), then one service after the other
(`UpClears`, `UpForks`, `BarrierPasses`, `BarrierFails`, `Down`, `WaitStopped`).
Between commands the operator edits the scripts (`Edit`). Every service moves
as in `SvLife`. `OrderCorrect` compares the search with a reference definition
by reachability.

`Cluster` – all directories of one machine. `proc[d]` is the listener of a
directory (`bc_state`; its lock is held unless it is off), `files[d]` what it
persisted, `inbox[q]` the buffer of a port. A datagram carries its sender, the
node whose nonce it answers and whether that nonce is still the latest
(`fresh`). `StartSeed` and `Join` are `bc_start`, `JoinDrops`, `JoinAnswered`
and `JoinTimeout` the RPC of a join, `Expire` and `Beat` the timer of
`bc_service`, `Snapshot`, `Ignore`, `Register`, `Refused`, `Unregister`, `Stop`
and `Error` what is done with a datagram, `Quit` the end of the loop, and
`LeaveBegins` ... `LeaveTimeout` the `leave` command. Node ids are drawn from a
counter; the code draws 128 random bits and relies on their being different.
The clock is left out: `RowAges` and `MemberAges` say that three deadlines have
passed for one side, `Outage` that they have for both.

`MCPtyBroker`, `MCPtyCapture`, `MCPtyStart`, `MCPtyHandle`, `MCSv`, `MCSvBoot`
and `MCCluster` give the constants for TLC. Operators introduced by a comment
that begins with "Mutant" are deliberately wrong versions of the definition
that follows them; no specification uses them. PROJECT.json pairs each with the
property that must notice it.

## 4. Runs

| Run | Question | Bounds that make it interesting |
|---|---|---|
| `stream` | Is a subscriber's stream contiguous with EXIT last, does a capture get the bytes it asked for, is input written once and in order? | queue of 7 bytes, so that subscribers are also thrown out; output of 3 bytes against a history of 2, so that late subscribers get a gap and captures ask for bytes that are gone, at both ends of the window; reads and input of 1 and 2 bytes, short and failing writes |
| `seats` | Seats, slots and queue accounting | 3 clients for 2 slots; a queue of 6 bytes that RESIZE broadcasts overflow |
| `stop` | Is TERMINATE acknowledged only when all is gone, and each request answered once? | 3 processes, one ignores SIGTERM, all may fork, be orphaned and close the terminal; listing the children and `poll` may fail; two packets on a connection, malformed ones included |
| `live` | Do requests settle, does the stop end, do slots and exits come through? | a stubborn second process, hangups, signals, failing `/proc` reads |
| `copy` | Is a capture exact, does it implement the snapshot and end? | 6 bytes through a ring of 3, so that all of a window can be overwritten; chunks of 2, two readers; the service may end and a second session get the ID, with fewer, as many or more bytes than the snapshot |
| `start` | Name, cleanup and acknowledgement; does every start settle, does a lost creator cancel its session? | 2 creators, every failure, timeout and kill, a user who removes what a killed service left |
| `handles` | Whom and what does a token name? Do descriptors and table agree? Is every event delivered once and in order? | 2 shells, 2 slots, 2 connections; generations up to 2 with seeds 0 and 1, so that slots are reused, the counter reaches its end and parent and child issue equal generations; an output of 2 bytes, a status and an output of 1 byte with every short write and failed binding |
| `sv` | One supervisor? Does `restart` wait, is the status file true, does `down` come through, does `Sv` implement `SvLife`? | five run scripts that between them use every restart mode, limit, readiness, oneshot and an invalid directive; any sequence of commands; one fault, which may be SIGKILL of the supervisor; 5 pids, which is enough for two supervisors, two instances and a killed one's orphan |
| `boot` | Is the order right, does everything start behind its barriers and stop before what it needs, does shutdown stop all, are services used as `SvLife` allows? | 3 services with every pair of requires, after and before, every cycle of three, missing and disabled names, an after list at its limit, a script that does not parse; bundles, one of which contains itself |
| `cluster` | Is the roster sound, of one cluster, with files and `leave` in their own directory; are answers fresh; do rows of the dead go, the left behind notice and the living converge? | a seed and two members, 3 listeners in all, so that one may come back; one member that may take any port, also the one of a killed member or seed; buffers of 2; one fault (a kill, a lost datagram, a late answer, or an outage after which both sides of a link forget the other); the roster gets full, with everybody on it |
| `start_success` | Does success mean a started session? | one creator and the timeouts; violated |
| `sv_restart` | Does `restart` wait when it follows an `up` at once? | without `Settling`; violated |

Headers and status records count 1 byte each, so that a queue limit of 6 or 7
bytes is three packets; quotas of 2 replace 4 and 8. `Events` switches the
optional events of the environment on per run, so that each run spends its
states on its own question. Each connection is used by one client once, as in
`client.c`; clients are interchangeable, hence the symmetry in the safety runs.
No run that checks liveness uses symmetry. `boot` and `cluster` may stop: all
commands have been given, and the starts are used up.

Several properties are conjunctions of named parts, each of which is a claim of
its own: `Consistent` (types and queue accounting), `CaptureCorrect` (exact
bytes, of one session unless the ID was reused; no protocol error, and EINVAL
only from a session that took over the ID; honest EOVERFLOW), `SessionSafe` (name held, nothing
left, served only when acknowledged), `TableConsistent`, `StatusHonest` (the
barrier of a command is decided by its own supervisor; a final status means
that the instance is gone).

`start_success` records a disagreement between the code and its comment. The
service gives up the wait for the creator's acknowledgement after 3 s, but
keeps its end of the socket pair open while it kills the children and removes
the name; a creator that was held up until then still sends its "G"
successfully and reports success for a session that is being removed.

`sv_restart` records another. `bsv_up` returns before the supervisor it forked
has written `super-pid`. A `restart` in that gap makes its down marker, which
the young supervisor removes, finds no supervisor to wait for and forks a
second one. `sv.c` and `docs/sol-sv.md` say that restart waits for the previous
supervisor and its finish hook. The other `sv` run and the proofs assume
`Settling`: a command begins only when forked supervisors are visible.

That a handle's owner is known by its pid alone is an assumption of `handles`
(`Reuse` is false): if the owner exits and a later subshell, which inherited
the table, gets its pid, the subshell accepts the owner's token.

Fairness. In `PtyBroker` the service's steps are weakly fair: it is one process
that the kernel schedules, and none of its calls blocks for ever (all sockets
are non-blocking, `poll` has a limit of 50 ms). The two clocks advance. A killed
process ends (`ProcExit` of a dying process). A client that stays connected
reads now and then (strong fairness of `Flush`; a client that does not read is
the case of a full socket, `k = 0`). Listing `/proc/self/task/*/children` does
not fail for ever (strong fairness of `CleanSignals`). Nothing is assumed of
what clients send, of processes that were not signalled, or of signals. In
`PtyStart` both processes run; in `PtyCapture` a capture that has begun goes on,
because each of its calls has a deadline. In `Sv` commands and supervisors run,
an instance that is stopped is killed after its grace time, probes and sleeps
end, since they have a limit in the code, and finish hooks end, for which the
code waits without one; nothing is assumed of the service's own exits and
messages, of faults or of the operator. In `SvBoot` the
command runs, and services do what `SvLife` promises, which `Sv` is shown to
keep. In `Cluster` listeners run and handle what is in their buffers, the seed
looks at its clock and members send heartbeats. A heartbeat that overtakes the
answer to the one before, and a deadline that passes although both sides run,
take one of the bounded faults: fairness never asks for them.

## 5. Proofs

All theorems hold for every value of the constants that satisfies the named
assumptions of the modules (`RingAssumption`: a packet is not larger than the
ring; `BrokerAssumption`: limits and quotas are positive, clients and processes
finite sets; `MaxOutputAssumption`, `StartAssumption`, `HandleAssumption`,
`SvAssumption`, `BootAssumption`, `ClusterAssumption`).

* `PtyRingProofs`: arithmetic of a ring. `Window` says that position `k % H`
  tells the last `H` positions apart; `WindowMoves` that a write of `n` bytes
  moves the window; `WindowRead` and `AnswerExact` that a CAPTURE inside the
  window returns exactly the bytes asked for.
* `PtyBrokerProofs`: `BaseHolds` establishes `Base`: types; `p->queued` is the
  sum of the packets on the list (`QueuedBytes`); the history window; the input
  ring holds exactly what was accepted and not yet written; and every packet
  that is queued or was sent carries as many bytes as it says, from the offset
  it says. `Consistent` needs the loop's position as well: a slot that the loop
  is working on was not closed in this turn. From `Base` follow
  `ConsistentAlways` and `InputFifoAlways`. `AckMeansGoneAlways` needs `Family`,
  every process that was not reaped has a parent that runs and the parents lead
  up to the broker, so that a sweep which finds no child of the broker leaves
  nobody; and `AckInv`, which ties that and the freed name to the last steps of
  the service. `SeatsHold`
  adds `ConnInv`, a connection in a slot was accepted and the backlog lists no
  connection twice: without it `accept_peers` could seat a connection again.
* `PtyBrokerProofs`, second half: what one client sees. Its stream is what it was
  sent and what is queued for it; a step that flushes moves packets from one to the other
  and leaves the stream alone. `Stage` says how far a connection is: one that
  was not answered has an empty stream, one that is closing has no role.
  `ExitFlags`: in a turn of the loop the exit is announced if and only if the
  shell is reaped and the PTY drained. `LineInv` puts together what a stream
  looks like: the answer, then events; contiguous from ATTACHED on; for a
  subscriber up to `next`; EXIT last and, once announced, there. `StreamContiguous`
  is not inductive by itself, since a packet appended at `next` continues the
  stream only if that ended there, and `ExitLast` needs that nothing is read
  after the announcement. The steps are first sorted by what they do to the
  streams (`StepKinds`), so that each property is shown for four kinds of steps.
  From it follow `OneReplyAlways`, `StreamContiguousAlways`, `ExitLastAlways`
  and, with `Base`, `BytesExactAlways`.
* `PtyCaptureProofs`: `Invariance` establishes `IInv`, the type invariant, the
  history window and `ReaderInv`: what a reader wrote is the slice of its
  snapshot up to its offset, and the answer under way is a slice that starts
  there. What a session has said of its ring binds only while it has the ID: that
  the snapshot's end is not ahead of `next`, and that what was called overwritten
  is, hold for the current session; a new one has answered nobody yet
  (`RecreateInv`). `CaptureExact` alone is not inductive because it says nothing of the
  answer under way nor of the ring it is read from. From `IInv` follow
  `TypeCorrect`, `CaptureIsCorrect` with its three parts and, step by step,
  `Refinement`: every step of `PtyCapture` is one of `SnapshotCopy` or leaves
  its state alone.
* `PtyStartProofs`: `AttemptInv` relates each attempt's progress to the
  directory, the socket, the processes and the acknowledgement. `NameHeld` is
  not inductive by itself: that a loser never removes the winner's directory
  needs `dir = a => owned[a]` and that a socket lies only in an owned
  directory. `SessionIsSafe` collects the three parts.
* `PtyHandleProofs`: `TokensNameTheirConnection`. `HandleBelongs` needs more
  than itself: `TokensBehind`, no token is ahead of the generation of its
  process; `HandlesOwned`, a handle carries the pid of a process that was born,
  so that a new subshell finds nothing of its own in the table it inherits; and
  `HandlesNamed`, which is the claim for the handles themselves. The theorem
  assumes `~Reuse`, and the model assumes that two random seeds of one process
  are out of reach of each other. `TableIsConsistent` needs no assumption on
  pids: `TableInv` adds that no descriptor is in two slots and none is beyond
  those granted, otherwise a `close` would leave another handle without its
  descriptor. `EventsDeliveredOnce`, again for `~Reuse`: `EventInv` says that a
  connection has one handle that reads from it (`OneReader`), that a new
  connection has delivered nothing (`NothingYet`, `SlotsClean`) and that the
  handle's event and `written` tell how much has left it (`HandlesAt`).
* `SvProofs`, under `Settling`: the invariant says where there is a supervisor
  and who can see it. `One`, `Visible` and `Unseen`: at most one, in `super-pid`
  once past its first steps, and no marker is there before. `Calm`, `Clear`,
  `Marked` and `Unmarked`: what a command may rely on at each of its steps, of
  which `Clear` is the heart, since `UpCheck` looks once and the fork comes six
  steps later. `Late`: an instance forked under the marker is the last. `Child`
  and `Working`: where a supervisor has a child, and that no final status stands
  meanwhile. `Published` and `Polled`: whose status a barrier reads. From it
  follow `OneSupervisorHolds`, `RestartWaitsHolds`, `DownIsNotLost`,
  `StatusIsHonest`, `LateStartsHolds` and `RefinesSvLife`, the safety half of
  `Implements`, for any number of pids, policies and faults. Without `Settling`
  the invariant does not hold, as `sv_restart` shows. `TypeCorrect` needs no
  assumption.
* `SvBootProofs`: the search keeps an explicit stack, and `Search` says what it
  means. `Placed`: the order so far lists what is marked 2, after everything it
  depends on. `Open`: what is marked 1 is on the stack, to be left once. `Due`:
  before a service is left, all it depends on is placed or lies before it on the
  stack. `Roots`: nothing that was asked for is lost. `Reached`: everything on
  the stack is in reach, and a dependency of all that is left after it, so that
  meeting an open service means a cycle. `OrderCorrect` says nothing of the
  search and is not inductive; `BootInv` adds `Search` while it runs, `Starting`
  and `Stopping`, how far a command has come and what became of the services
  before or behind, and `Quiet`, no command begins while a supervisor is not yet
  visible. From it follow `OrderIsCorrect`, the action properties
  `StartsAreBehindBarriers` and `DependentsGoFirst`, and `ServicesAreUsed`: every
  step is one that `SvLife` allows. The reference, `Reaches`, is the least closed
  set, which needs no recursion. `BootAssumption`: directives name services or
  the missing name, bundles hold services, bundles or the missing name.
* `ClusterProofs`: `SeedRosterHolds`, `FilesAreOwned` and `StopsOnlyOwn`, for
  any number of directories, ports, restarts and faults. `SeedRoster` needs that
  the seed's own row never ages and is never unregistered, and that roster and
  count are finite. `StopsOwn` needs `NodeInv`, a node id names one directory in
  its listener, its files and its `leave`, and `Stopping`, every STOP on its way
  names a node of no listener or one whose `leave` is under way. The proof
  treats the buffers once for all actions (`BoxStep`) and shows that every
  action is an instance of `Changes`, what a step may do to one directory.
  `OneClusterHolds` rests on `ClusterInv`: there is a function `K` that gives
  every node the one cluster it belongs to, such that listeners, the seed's rows
  and every JOIN, BEAT and ROSTER on its way agree with it. `OneCluster` speaks
  of the present seed only; with `K` a datagram of an earlier one is recognised
  when it arrives, and a seed that starts again is a new node which nothing
  agrees with yet. `RosterIsFresh` is an action property; it rests on
  `FreshInv`: under its latest nonce a node has one request or answer on its way
  (`OneAlive`), and as long as that is a request all rows of the seed have been
  noted in `asked`, later the rows of the answer (`Knows`). Both treat the steps
  that neither ask for a roster nor tell one at once (`PlainStep`).

The inductive invariants of `PtyBroker`, `PtyHandle`, `Sv`, `SvBoot` and `Cluster`
were checked by TLC as invariants of the runs above before they were proved.

`QueuedBytes` and `Offset` are recursive functions. What the proofs need of them
for every argument, and that `Ascending` lists any set of services, is shown by
the induction principle for sets of naturals (`SetInduction`, `NumberInduction`),
which is itself proved from the well-foundedness of strict inclusion.

Only model-checked: all liveness, which is beyond this prover's reach, and with it
the liveness half of `Implements`. Nothing is proved of what `Members` computes:
the theorems hold whatever services a bundle marks.

## 6. Left out

* `PtyBroker`: `malloc` failures in `queue` (they close the peer, as a full
  queue does), connections from another user (closed by `accept_peers`), the
  limit of the listen backlog, `request_redraw` (a signal without an effect on
  this state), exit statuses, message texts. A process that reopens a terminal
  it had closed; a signal to the service while it is stopping already.
* `PtyStart`: `lstat` of the directory and `fstatat` of the socket, each right
  after its creation, are assumed to succeed; a user who replaces the directory
  of a live service is not modelled.
* `PtyHandle`: packets that the service never sends (an unknown type, a status
  of the wrong size), and the SIGPIPE guard around the write.
* `Sv`: `once` and the activation by socket, path and timer, which run a service
  without a supervisor; the `transition` file, which is only reported; a
  supervisor whose `waitpid` fails; `MAINPID=` in a notification, with which a
  service names another process as its main one and the pid file is rewritten;
  the reuse of a pid that a file still names,
  against which the code takes no precaution. Several operators at a time.
* `SvBoot`: what the services do beyond `SvLife`; commands on single services
  while a boot or a shutdown is under way. A oneshot that is off and was not told
  to go may have completed, also in an earlier boot: `UpClears` lets it pass as
  "already up" or run again, since its status file is not in this model. A
  supervisor that ends before it has written `super-pid` writes it first here
  (`Publish`, then `End`), with the same outcome.
* `Cluster`: `ping`, `members` and `status` change nothing; keys and MACs are
  taken as given, so every datagram comes from a listener or a `leave`; failing
  writes of state files.
* `screen` is terminal layout and rendering over sessions that are modelled;
  the schedulers and the wrappers around locks and children are not modelled
  yet; text tools, editors, clients and vendored libraries keep no state that
  outlives a call.

Known behaviour that no property covers, because the property would not hold or
the model leaves the case out:

* a launch that fails again and again looks for SIGTERM and never for the down
  marker, so such a service cannot be taken down by the marker alone
  (`DownStops` is checked with one failed launch);
* `sv shutdown` stops nothing when one run script cannot be parsed
  (`ShutdownStops` excludes it);
* a capture whose session ends between two chunks, and whose ID is given to a
  new session within the 3 s of the capture, goes on with the new one: it may
  end with EINVAL or EOVERFLOW, or succeed with bytes of both, and nothing in
  the packets tells them apart. `server.c:370` calls immediate reuse of an ID
  safe, which is so for the names on disk. The model has the case, and a capture
  of two sessions that succeeds is reached by `copy`; `CaptureCorrect` and
  `Snapshot` say that it takes a reuse of the ID, and what holds all the same;
* an expired member that meets a full roster and the seed answer each other's
  errors for ever. The exchange is in the model, and `Converges` does not claim
  convergence then: its premise `RoomForAll` is that the roster always had room
  for its rows and every member that runs. In the run (`BcMax = 3`, three starts)
  nobody is turned away. With `BcMax = 2`, which takes longer than a run should,
  `Converges` still holds; without the premise it fails there even for a single
  member next to the seed, because the circulating errors fill the buffers and
  the heartbeats are lost;
* `leave` during a join finds the lock held and no state files, reports success
  and the listener goes on to join;
* `lstat` and `rmdir` in the cleanup of `pb_serve` are two calls on a path that
  its owner may replace in between.
