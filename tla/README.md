# TLA+ models of the TCF agent

The TCF agent is a daemon that gives debuggers and other tools access to a target: over
message channels it serves run control, breakpoints, memory, processes, files and streams.
It is written in C as an event-driven program. One *dispatch thread* runs every handler, and
threads of a worker pool make the blocking system calls.

The models follow a message through that program: the event queue, the worker pool with the
shutdown manager and the data cache, on which everything rests; the channel that receives
bytes and the protocol that turns them into commands and answers; and three services whose
behaviour depends on what happens at the same time: streams, run control with breakpoints,
and the discovery of peers.

## 1. Inventory

| Part | State | Operations | Works with | What is hard, and what makes it correct |
|---|---|---|---|---|
| Event queue (`events.c`) | `event_queue`, `timer_queue`, free lists, `cancel_handler`, `process_events` | post, post with delay, cancel, cancel and wait, cancel loop, exit loop, the loop | every other part; worker and signal threads post into it | Two queues, one of them lock-free; a clock read outside the lock; cancel racing a post. Nodes have one owner, no event is early, lost or starved, posts of a thread keep their order, exit drains. |
| Shutdown manager (`shutdown.c`) | list of active objects, their states, `notify_pending` | start, set normal, set stopped, the walk of `notify_all()` | event queue (posts `notify_all`), every subsystem (callbacks) | Callbacks change the list during the walk; notifications coalesce. The walk stays on the list, nothing is forgotten, the loop ends when and only when everything has stopped. |
| Worker pool (`asyncreq.c`) | idle list, thread count, the request of each worker | post a request, defer a thread, complete, idle, leave, shut down | event queue (done events), shutdown manager | Workers and dispatch thread share the idle list and read the shutdown state without one lock. Requests are answered once, counts are exact, no idle worker misses the shutdown. |
| Data cache (`cache.c`) | the running client, wait lists, a static buffer, ids | enter, exit, wait, notify, notify later | channels (locks), event queue, nearly every service | Clients are aborted and run again; notification nests. Locks and argument copies match the waiting clients, no client is dropped. |
| Protocol (`protocol.c`) | token counter, reply handlers, channel state | send command, replies and events, Hello, redirect, close | channels, proxy, services | A close with commands outstanding; Hello in either order and again after a redirect. Every command gets exactly one final answer, `connect_done()` runs once per connection. |
| Channels (`channel.c`, `channel_tcp.c`, `channel_pipe.c`) | lock counts, broadcast groups, pending reads and writes | create, start, close, lock, unlock, broadcast | event queue, worker pool, shutdown manager | Close while a read, a write and a queued message are outstanding. A channel is freed once, after the last of them. |
| Buffers (`inputbuf.c`, `outputbuf.c`, `streams.c`) | ring of received bytes, message count | read, escape, count messages | channels | Escape sequences split over reads; a full ring. Messages are counted once, bytes are not reordered. |
| Proxy (`proxy.c`) | two channel ends | redirect, forward, close | protocol | Two state machines that close each other. |
| Peers and discovery (`peer.c`, `discovery*.c`) | peers with expiration times | add, refresh, remove, UDP messages | event queue | Lost and late messages against a timer. |
| Streams service (`streamsservice.c`) | ring buffer, readers' positions, pending reads and writes | connect, read, write, end of stream, delete | protocol, cache of events | Several readers of one ring; deletion by a later event. |
| Run control (`runctrl.c`) | lock count, safe events, stop groups | suspend, resume, safe events, stop timer | contexts, breakpoints, cache | A timeout races the last context that stops; counted self-posted events. |
| Breakpoints (`breakpoints.c`) | instances planted, evaluations | plant, unplant, replant | run control | Replanting while contexts run. |
| Contexts (`context.c`, `waitpid.c`, `context-linux.c`) | reference counts, exit flags | create, exit, lock, unlock | waitpid thread | Exit notifications out of order. |
| Services over system calls (`processes.c`, `terminals.c`, `filesystem.c`, ...) | request queues per handle | commands | worker pool | Mostly translation. |
| Symbols, ELF, DWARF, expressions, disassembly, JSON, base64 | caches of files | parsing, evaluation, encoding | cache | Sequential data transformation. |
| Front ends (`main*.c`, `gdb-rsp.c`, `cmdline.c`), server (`context-proxy.c`), ports | - | - | - | Not part of the core. |

The hazards of each part, at the line where they bite, are the list `hazards` of
`PROJECT.json`, with the properties that would notice it going wrong, or a
note where there is none.

## 2. Plan

Modelled and checked, in the order in which the modules were written: `EventQueue` (with its
proofs), `Shutdown`, `AsyncReq` (which extends `Shutdown` and is shown to implement it),
`Cache`, `Commands` and `Protocol` (which implements it), `InputBuf` and `ChannelTCP` (which
extends it), `Streams`, `RunCtrl`, `Breakpoints` and `Debugger` (each extends the one before),
`Discovery`.

Every safety property that a run checks is also proved, in the eight modules whose names end in
`Proofs` (section 6). What the provers cannot state, liveness above all, is left to TLC.

Components that could follow: the request queues of `filesystem.c`, and the cached contexts
of `context-proxy.c` in the debug server.

## 3. The modules and the code

The modules keep the names of the source; the map in `PROJECT.json` gives the lines of each
definition. An operator whose comment begins with "Variant:" is a faulty form of the
definition below it: it is not part of the specification, and shows that a property notices
the fault.

### EventQueue (`events.c`)

A critical section of `event_lock` is one action, and so is a stretch of dispatch-thread
code that touches only what that thread owns. `pc` says where the dispatch thread is: before
the loop (`ini`), at the head of the loop, in or back from the wait on `event_cond`, in a
handler, in a waiting `cancel_event()`, or stopped.

- A post from a background thread is two actions. `BgReadClock` reads the clock without the
  lock; `BgPost` inserts the node, or `BgPostCancelled` meets a `cancel_event()` that waits.
- A handler may do anything the interface allows: post, post with a delay, cancel, wait,
  cancel the loop.
- `LoopScan` and `Rescan` are the `for (;;)` loop under the lock, `LoopPop` the lock-free
  path. The tick counter that ends a batch after 100 ms is a choice: a batch may end after
  any untimed event, and must end after `BatchLimit`.
- `WaitSpurious` lets the condition variable wake for no reason, as POSIX allows.
- The order within a free list is left out: its nodes are interchangeable.
- `before` and `drain` are history variables. No guard reads them.

### Shutdown (`shutdown.c`)

One action per call; `notify_all()` is a walk of several actions, between which its
callbacks run and may stop their own object or register others. `list_remove()` links a
removed object to itself, so the walk must never stand on one: that is the last conjunct of
`ActiveList`. `shutdown_start()` is there for programs built on the framework; nothing in the
repository calls it, and the model lets it take effect once. The objects that call
`shutdown_set_normal()` while PENDING are the constant `Renewable`. The channels do: a channel
created during a shutdown sets their object NORMAL again.

### AsyncReq (`asyncreq.c`, composed with Shutdown)

A worker goes through `run`, `parking` (the done event is posted, `wtlock` is held), `idle`
or `leaving`, and `exited` (its `worker_thread_exit` event is in the queue). The dispatch
thread posts requests, dispatches done events, joins threads, cancels requests, and runs the
callback of the shutdown manager. The system call a request stands for takes any time. The
module uses two facts about the event queue: the events of one worker are dispatched in the
order it posted them (`PerThreadOrder`), and every event is dispatched in the end
(`EveryEventRuns`). The AIO path is not modelled.

### Cache (`cache.c`)

`stack` holds one frame per active `run_cache_client()`, because calls nest: a client that
has called `cache_exit()` may cause a `cache_notify()`. The clients that do are the constant
`Nests`. What else a client does is open: it may miss, catch the miss and go on, exit, or
fail, at any time. The static `wait_list_buf` keeps what is beyond the copied entries, as
the `memcpy()` does. `heap` is the set of clients whose arguments are held in a copy, and
`locks` counts the channel locks the cache holds.

### Commands, Protocol (`protocol.c`, `proxy.c`, the redirect of `discovery.c`)

`Commands` is what a sender may rely on: the handler of a command is called once, with the
answer or with an error, and in the end it is. `Protocol` has four channel ends: a client
and a server (`host`), and, once the server has carried out a redirect and is a proxy, the
`target` end it opens and the `agent` behind it. Each end has a dispatch thread, so that
the handling of a message is one action; links deliver in order, and may be lost with what
is on them. A token is a number modulo `TokenMod`, so that it wraps around. A command to a
closed channel fails through the event `send_command_failed`. Three constants say how
commands are used: some are sent before the peer's Hello (`Eager`), some from inside
`channel_closed()` by a handler that it calls (`Resent`), and of some the service reports
progress before it answers (`Progressive`). A handler may do so when the channel closes
(`CloseEnd`; the command then fails) and when a redirect ends the old services
(`ClientRedirectDone`; the command then goes to the new peer).

### InputBuf, ChannelTCP (`inputbuf.c`, `channel_tcp.c`, `outputbuf.c`)

`InputBuf` gives the functions of `inputbuf.c` as operators on a record. The ring holds
positions in the byte stream instead of bytes: that bytes are neither lost nor exchanged is
then a statement about numbers. The two parsers (one that counts messages when bytes come
in, one that takes messages out) are separate, as in the code, and must agree about escapes
that are cut by the end of a read. The local variable `out` of `ibuf_get_more()` has no state of
its own: inside the loop, and while it waits for data, `cur` and `end` of the model both stand for
`out`. The code assigns `inp->end` before the loop returns a byte, so what it leaves there meanwhile
decides nothing (growing the buffer only moves it along). `ChannelTCP` puts the dispatch thread and a worker thread
around it: a read completes while a message is handled, a handler blocks in
`tcp_wait_read()`, messages are written and flushed, and services hold locks. The output
buffers are counted, not filled.

### Streams (`streamsservice.c`, the pipes of `processes.c`)

One stream and the process it belongs to. The ring holds the identity of bytes, the clients
their positions and pending requests, and `events` what the stream has posted. The
connection, the reads, the writes and the disconnection of each channel are actions, and so
are the completions of reads and writes of the pipe and the exit of the process.

### RunCtrl, Breakpoints, Debugger (`runctrl.c`, `breakpoints.c`, `context-linux.c`)

`RunCtrl` and `Breakpoints` give the functions of the two services as operators on one state
record; `Debugger` has the actions: what `ptrace` and `waitpid` report about a thread, the
events of the dispatch thread, the stop timer and the commands of the clients. A handler
with a loop (`run_safe_events()`, the replanting, `sync_run_state()`) takes one action per
iteration, because an iteration may lock run control or post events that the next one sees.
A `ptrace` call may fail for any live thread. There is one breakpoint, and one break
instruction for it in each process; its condition is any set of threads for which it is
true. `os` is what the kernel knows of a thread and the agent may not know yet, so that a
thread can be dead while the agent still believes it stopped.

### Discovery (`discovery_udp.c`, `peer.c`)

The state of an agent is the static variables of the two files; the datagrams in a socket's
receive buffer are `inbox`. Time advances by one refresh period, which all the timers of
`discovery_udp.c` are multiples of, and times are kept as ages, so that the clock needs no
bound. Datagrams are lost and reordered, agents crash without a word, leave, and come back
with other properties. `silent` is not in the code: it says how long ago an address really
sent, which the ages that agents pass around are compared with.

## 4. The runs

| Run | Instance | Distinct states | Shows |
|---|---|---|---|
| `event_queue` | two posting threads, one callback, one pool node, batch 2, clock 2, two events pending | 175,696 | `QueuesIntact` (types, ownership of nodes, the tail pointer, sorted timers), `CancelHandshake`, `NeverEarly`, `PerThreadOrder`, `ExitDrains`; `EveryEventRuns`, `CancelReturns` |
| `async_req` | three workers, two requests of the dispatch thread, one of a background thread, one idle worker allowed, the other object renews; symmetric | 637,515 | `ReqConservation`, `PoolExact`, `ShutdownDrains`, `NotificationsExact`, and that the pool implements the specification of `Shutdown` (`UsesShutdown`) |
| `async_req_live` | two workers, one request, no renewal | 6,853 | `RequestsComplete`, `PoolShutdownCompletes` |
| `cache` | two caches, two clients (one with arguments), one channel, ids modulo 3, two misses in a run | 237,698 | `WaitersExact`, `NoLostClient`, `ClientRunsAgain` |
| `cache_nested` | one client nests; expected to fail | | the assertion after a client returns does not hold |
| `protocol` | two commands and two redirects of the client, tokens modulo 3, the client may close, the link behind the proxy may be lost | 114,338 | `NoSurprise`, `ProxyPair`, and that it implements `Commands` (`AnsweredOnce`) |
| `channel` | buffer of 4 bytes that grows to 8, text and binary streams, whole and cut short, one lock of a service, one message written | 352,254 | `StreamIntact`, `MessagesCounted`, `LocksBalance`, `EofDeletes` |
| `channel_cut` | a buffer of 6, a long message with an end of stream in it; expected to fail | | an assertion of `ibuf_read_done()` does not hold |
| `streams` | two channels, a ring of 2, requests of 1 or 2 bytes, two pending requests | 70,221 | `ReadersInOrder`, `WritersInOrder`, `NothingLeft`, `RequestsAnswered` |
| `debugger` | two threads of a process, one of which may ignore SIGSTOP, a conditional breakpoint, two surprises | 100,404 | `LocksCounted`, `SafeEventsSafe`, `NoMissedBreakpoint`, `PlantedWhenUnlocked`, `NoResumeWhileLocked`, `InterceptReported`, `LocksReleased`, `StoppedThreadsContinue` |
| `debugger_condition` | the same; expected to fail | | the assertion of `evaluate_condition()` does not hold |
| `discovery` | two agents on one host, one on another, two of them with servers, one fault | 136,763 | `NoRejuvenation`, `MasterElected`, `Discovered`, `Forgotten` |

The type invariants of the first three components are conjuncts of `QueuesIntact`,
`PoolExact`, `NotificationsExact` and `WaitersExact`.

**Bounds.**

- *Event queue.* A pool of one node exhausts at once, so the heap is used and the hand-over
  between the free lists runs dry. A clock of two values lets two threads read it in the
  opposite order of their insertions. `BatchLimit` stands for 100. The safety properties were
  also checked with three pending events.
- *Worker pool and shutdown.* With `MAX_WORKER_THREADS = 1` the idle list fills; three workers
  are the timer thread and two others. A `WorkerThread` object is reused after its thread has
  ended. With two objects the walk of `notify_all()` stands on one while the other is
  stopped, renewed or appended.
- *Cache.* Ids modulo 3 wrap around while a client waits. Two clients on one cache make the
  loops of `cache_notify()` run twice. The second miss of a run is the one that must not
  queue the client again.
- *Protocol.* With four commands and three tokens a token is used again. The second redirect
  goes through the proxy.
- *Channel.* The messages wrap around the ring at every place, one is longer than the buffer
  after it has grown, and an escape is cut by the end of a read.
- *Streams.* The ring holds less than a channel writes, so that writes wait, and a slow reader
  holds a fast one back.
- *Debugger.* A surprise is a signal, a breakpoint hit, a death, a failing system call or a
  command of a client: any two of them meet. `StopAllMax = 2` and `MaxSkips = 2` stand for 20
  and 100. Safety was also checked with larger instances: two events and two commands
  (2,860,000 states), and two processes with an unconditional breakpoint.
- *Discovery.* `Rank` restricts interleavings: agents with distinct ranks act in turn, and
  start or fail in calm moments; equal ranks give every interleaving. Also checked: two agents
  on one host, both with servers, and two faults (713,374 states, all four properties), and
  `NoRejuvenation` for two agents and two faults with every interleaving (4,570,000 states,
  with a simpler model of ports).

`CHECK_DEADLOCK FALSE` stands in every configuration but that of `discovery`: a loop may
stop, a channel is deleted, a process exits, and then nothing is left to do.

**Fairness.**

- *Event queue.* The dispatch thread and a thread inside `post_event()` are scheduled, and
  time passes (weak). Handlers return: they are finite code, but between their calls other
  actions are enabled, hence the strong form.
- *Worker pool.* `notify_all()` is dispatched, an object that has been notified stops; threads
  run and system calls return; the mutex is not kept from a thread for ever (strong, as the
  mutex is contended); events are dispatched, which is `EveryEventRuns`.
  `PoolShutdownCompletes` needs that clients stop posting: ones that post for ever keep the
  pool alive.
- *Cache.* Clients end, events are dispatched, and a cache that is waited for is filled in
  the end. The last is an assumption about the services that fill it.
- *Protocol.* Every dispatch thread runs, a service answers, a connection attempt ends in
  success or failure. Nothing is assumed of closing or of lost links.
- *Channel.* Events are dispatched, reads and writes complete, handlers read on, services
  release their locks.
- *Streams.* Events are dispatched, the reads and writes of the pipe complete, and a client
  that is connected reads: without it a full ring holds the process for ever, as it should.
- *Debugger.* The dispatch loop goes on, the stop timer fires, the kernel reports exits and
  delivers signals, except to the threads in `Blocked`. The first conjunct of `Fairness` is
  the weak fairness of `Dispatch` with its enabling condition written out. Threads need not
  hit breakpoints and clients need not send commands.
- *Discovery.* Time passes, timers fire and what is not lost arrives: weak fairness of `Work`
  as a whole, less than fairness for each agent, with its enabling condition written out.
  Losses and crashes end because `MaxFaults` bounds them; `Discovered` and `Forgotten` speak
  of what is then up for ever.

## 5. What the runs found

Three assertions of the code do not hold. Each has a run that is expected to fail.

1. `cache.c:102` asserts `client_exited` after a client returns. A client that causes a
   `cache_notify()` after its `cache_exit()` returns with the flag cleared by the nested run
   (`cache_nested`). The run is about the flag only. The same nesting overwrites the static
   buffer of the outer loop (`cache.c:190`), so that line 194 may unlock the channel of another
   client. The module models that (`Overwrite`, `LoopEntry`), and `WaitersExact` is false when
   `Nests` is not empty; the source says nothing of it that a run could refer to. `sync_run_state_cache_client()` with the listener
   `context_intercepted()` of the expressions service is such a client.
2. `inputbuf.c:261` asserts that a message longer than the buffer is the only one when its
   end is read. When the peer fails while it writes such a message, it sends an end of
   stream, which is counted as a second message, and an end of message behind it
   (`channel_cut`).
3. `breakpoints.c:1802` asserts that a thread whose condition is evaluated is stopped. A
   thread that hit the breakpoint may have been killed, and reported as started and exited,
   before the evaluation (`debugger_condition`).

The following was seen while modelling. No run is made of it; each explains a condition in a
property or an assumption of a model.

- `events.h:39` says that events are dispatched in the order in which they were queued. The
  code keeps this for each thread and not between threads, and no longer once
  `exit_event_loop()` has been called. `PerThreadOrder` says exactly that.
- `shutdown.h:28` invites an object to ask for further notifications by calling
  `shutdown_set_normal()` again. Nothing is posted for it, so it is notified only if another
  object stops later. The channels meet this: a connection that completes after
  `trigger_channel_shutdown()` makes their object NORMAL again. Hence `NotForgotten` (a part of
  `NotificationsExact`) excepts a renewed object, and `async_req_live` is without renewal.
- A request that a background thread posts while no worker is idle travels in an event, and
  is not answered when the loop stops before that event (`ShutdownDrains`).
- `protocol.c:449`: a command sent before the peer's service list is known is written without
  its header, although its sender is told that it failed. The peer then reads a body that
  belongs to nothing: the `"junk"` that `NoSurprise` allows.
- `inputbuf.c:89`: when `ibuf_get_more()` finds no data it sets `inp->cur` and leaves `inp->end`
  behind. That is repaired by the next byte, but not at the end of a stream. A handler that has
  only looked at the end of a stream that was cut after an escape, and reads on, calls
  `ibuf_get_more()` again with `out` and `inp->end` apart (the assertion at line 84), or takes a
  byte below a stale `inp->end` when `cur` has gone back to the start of the buffer. The
  handlers of the model stop at the end of a cut stream.
- `inputbuf.c:45`: a handler that swallows the end of stream inside a long message leaves the
  buffer busy, and the channel stays open. Hence `~ib.long_msg` in `EofDeletes`.
- `streamsservice.c:252`: `notify_space_available()` returns early once the process has ended its
  output, so when a reader was behind then, `process_output_streams_callback()` is not called
  again to delete the stream; writes that wait when the process exits are answered only when
  their channel disconnects. `RequestsAnswered` therefore speaks of requests and of data, and
  excepts writes after the exit.
- A break instruction may stay planted without a breakpoint when the breakpoint is disabled
  while a thread steps over it and then exits, or when a thread was given up. Only the
  opposite, an enabled breakpoint that is not planted, is stated (`PlantedWhenUnlocked`).
- `runctrl.c:881`: a Resume of a thread that is not suspended fails, but first cancels a
  pending Terminate of it.
- A slave that has heard no master for half the retention period and cannot bind the
  discovery port gets a new port at every refresh. Were it handed a port that the master still
  remembers, the master would not take it for a new slave. The model hands out a port that no
  agent remembers, if there is one (`NewPort`).
- `discovery_udp.c` counts on a receive that is pending on a closed socket to end
  (`recvreq_generation`). On Linux `close()` alone does not wake it. The model assumes that it
  ends.

## 6. What is proved

The theorems hold for every value of the constants that satisfies the assumptions of the
modules, where TLC checks one instance. Those marked "run" state a property that a run checks.

| Module | Theorem | States |
|---|---|---|
| `EventQueueProofs` | `TypeCorrect`, `OwnershipCorrect`, `TimersSortedCorrect`, `TailPointerCorrect` | the parts of `QueuesIntact` |
| | `QueuesIntactCorrect` (run) | `Spec => []QueuesIntact` |
| | `CancelHandshakeCorrect` (run) | `Spec => []CancelHandshake` |
| | `NeverEarlyCorrect` (run) | `Spec => NeverEarly` |
| | `ExitDrainsCorrect` (run) | `Spec => ExitDrains` |
| | `PerThreadOrderCorrect` (run) | `Spec => PerThreadOrder` |
| `AsyncReqProofs` | `NotificationsCorrect` (run) | `SdSpec => []NotificationsExact` |
| | `StopsCleanCorrect` | the loop is cancelled only when every object has stopped |
| | `PoolExactCorrect`, `ReqConservationCorrect`, `ShutdownDrainsCorrect` (run) | the invariants of the pool |
| | `UsesShutdownCorrect` (run) | the pool implements `Shutdown` |
| | `PoolNotificationsCorrect` (run) | `NotificationsExact` with the pool's threads, by the refinement |
| `CacheProofs` | `WaitersExactCorrect`, `NoLostClientCorrect` (run) | if `Nests = {}` |
| `ChannelTCPProofs` | `StreamIntactCorrect`, `LocksBalanceCorrect` (run) | the ring and the locks of a channel |
| | `MsgInvCorrect` | the two parsers of `inputbuf.c` agree |
| | `MessagesCountedCorrect` (run) | `message_count`, handlers and queued events match |
| `ProtocolProofs` | `PrInvCorrect` | one place for each token, one owner for each handler |
| | `NoSurpriseCorrect`, `ProxyPairCorrect` (run) | the invariants of the protocol |
| | `AnsweredAtMostOnce` | `Protocol` implements the safety part of `Commands` |
| `StreamsProofs` | `StInvCorrect` | every byte, client, reference and event is accounted for |
| | `ReadersInOrderCorrect`, `WritersInOrderCorrect` (run) | bytes arrive once and in order |
| | `NothingLeftCorrect` (run) | references are exact; a stream is freed by its last event |
| `DebuggerProofs` | `LocksCountedCorrect`, `SafeEventsSafeCorrect` (run) | the lock count is exact; safe events find their group stopped |
| | `NoMissedBreakpointCorrect`, `PlantedWhenUnlockedCorrect` (run) | no thread passes a breakpoint that is not planted |
| | `NoResumeWhileLockedCorrect` (run) | no step resumes a thread under the lock |
| | `ReplantFindsRequests` | the assertion of `event_replant_breakpoints()` holds |
| `DiscoveryProofs` | `DiInvCorrect` | ages in tables and datagrams are no less than the true ones |
| | `NoRejuvenationCorrect` (run) | `Spec => []NoRejuvenation` |

Each module has an inductive invariant, one step lemma for each action, and the theorems as
consequences. None of the properties is inductive alone; what each invariant adds is this.

**Event queue: `QueueInv`.** `NodeOwnership` is inductive only with the types and
with `PcRunning` (when a node can be running at all): a handler's return frees `running`,
and that node must exist. `TimersSorted` and `CancelHandshake` need ownership, because an
action that writes the contents of a fresh node must not write those of a queued one (lemmas
`NodeKept` and `NewNode`). `NeverEarly` needs `QueueDue`: what is in `event_queue` is due.
`ExitDrains` needs three more parts. `ExitOnce` says that the exit event is queued once, and
that its handler runs only in a running loop. `UntimedDue` says that an event without delay
carries a time that has passed. `DrainInv` says that the events found by
`exit_event_loop()` are all due, so that the scan that takes the exit event out of
`timer_queue` takes them too, and the exit event then waits until `event_queue` is empty.
`PerThreadOrder` needs `OrderInv`. A thread's posts are in order within `timer_queue` and within
`event_queue`, and an event in `event_queue` runs before one in `timer_queue` unless timers are
moved in front of it. That the move overtakes nobody rests on `Batches`: timers that were moved
stand in front of the dispatch thread's own events, and an event of the latter kind is counted
only when all of them are gone, so the loop looks at the timers again only when `event_queue` holds
none of another thread. `Reads` says that the clock value a thread has read is no less than those of
its earlier posts, so the walk over `timer_queue` stops behind them.
The proofs first give each queue operation its effect on positions and on the set of nodes
(`InsertAfterIsSeq`, `DropAtElems`, `MoveElems` and others).

**Shutdown: `SdInv`.** `NotificationsExact` with `Walk`, which says what `notify_all()` has in
hand at each point of its walk: without it the walk could stand on an object that has been
unlinked.

**Worker pool: `ArInv`.** The invariant of `Shutdown`, and `WorkersOK`: what a worker holds at
each point of its thread (the lock exactly while it parks, a request exactly while it runs).
`PoolExact` rests on it because `worker_thread_exit` counts a thread down that a worker has
left long before. The refinement is proved step by step: each action of the pool is a step of
`Shutdown` or leaves its variables alone.

**Cache: `CaInv`.** The hypothesis `Nests = {}` says that no client causes a `cache_notify()` from
inside its own run. It cannot be dropped: `cache_nested` shows what happens then. With it at
most one frame is active (`OneFrame`), and the buffer of its loop still holds the entries that
were copied (`Copied`). `Once` and `LocksHeld` are about the set of places where clients wait
(wait lists, deferred notifications, the rest of a running loop); each operation moves places,
and the lock counts follow from the cardinality of that set.

**Channel: `ChInv`.** `RingOK` (the indices are in the ring, the stretch the reader uses does not
wrap around) and `Content`: the k-th unread slot of the ring holds the k-th byte after the
consumed ones. Lemmas for the scan of `ibuf_read_done()`, which is a loop over the new bytes,
use an induction over a set of numbers (`LeastElement`, from the well-foundedness of `<`;
see "Loops" below). `Closing` relates
the state of the channel to its outstanding requests.

**Messages: `MsgInv`.** Both parsers are compared with one reference parser (`ParseStep`).
`Agree` says that a trace of the reference parser leads from the state of the reader over
the unread bytes to the state of the scanner, and that it meets as many ends of messages as
`message_count` says. A read extends the trace at its end, reading shortens it at its front.

**Protocol: `PrInv`.** A token is in one place at most: one message on a link, a service, a
redirect that connects, or one that is relayed; and its sender keeps the handler for it.
That is `TokenInv`, and it also says that progress stays ahead of the answer and that tokens
which a proxy prefixes go back to where they came from. `NoSurprise` speaks only of what is at
the head of a link, so all of this must hold for the whole link. The other parts are the
states of an end that waits for a redirect (`RedirectStates`), at most one Hello on each link
and only where one is expected, and `ProxyInv` for the two ends of a proxy. That a new token is
not in use (`NewTokenFree`) is a pigeonhole argument: `TokenLeft` says that there are fewer
reply structures than values of the `unsigned long` counter, so the loop of
`protocol_send_command()` meets a free number at last. The assumption
`Redirects \cap Resent = {}` says that no redirect is sent by a handler that `channel_closed()`
calls: `send_redirect_command_by_id()` asserts that the channel is connected
(`protocol.c:516`).

**Streams: `StInv`.** Three parts. `Sound` is about the stream: `RefsOK` (one reference for each
client and one for an owner that has not deleted it), `ReadsWait` (requests wait only at the
end of the data), and the account of the bytes. In the output of a process (`ReadOK`) the ring
holds the last bytes before `pos`, a client is behind `pos` by no more than the ring holds, and
what it got ends at its position. In an input (`WriteOK`) the bytes of a channel that are in the
ring, counted from those the process has taken, are followed without a gap by those in its
requests (`WriterOK`). `ReadersInOrder` is not inductive alone, because `send_read_reply()`
tolerates a client that has been overtaken by the ring: that none is ever overtaken is the
minimum in `advance_stream_buffer()`, and it is what `ReadOK` keeps. `EventsOK` says that the event
that deletes the stream is posted with the last reference and stays the last one, and
`OwnerOK` that what the process wrote and the ring did not take is in the buffer of its owner.
`virtual_stream_get_data()` resumes the requests of all clients while it drains the ring; the
proof follows that loop (`ResumeAll`), whose every pass keeps the unread bytes in front
(`Keeps`), so that what was copied before the loop is still what is dropped after it.

**Run control and breakpoints: `DbInv`.** `RecInv` is about the state of the two services.
`Locked`: the lock count is the number of queued safe events, and one more while breakpoints are
replanted. `Counted`: `safe_event_pid_count` is the number of threads with a pending safe event.
`Requests`, `Wanted`: which evaluations are posted or wait, and that an instruction that differs
from what the breakpoint asks for is about to be evaluated. `Steps`: the count `stepping` of an
instruction is the number of safe events for a step over it. `Plants`: an instruction that is wanted is
planted, or stepped over, or about to be flushed by the replanting that holds the lock. `ThreadsOK`
compares the agent with the kernel: a thread that runs is one that the agent does not take for
stopped, and none runs over a missing instruction unless it may. `WorkOK` is the handler in
progress: safe events run only in groups that were asked to stop, and the threads that
`sync_run_state()` is about to resume are none that anybody waits for. No property is
inductive alone: `SafeEventsSafe` needs the count, the count the pending flags, and
`NoMissedBreakpoint` needs that the lock is held whenever an instruction is missing. Inside a handler
the lock may be held once more: `RecInv(t, d)` has that as a parameter, so that the lemmas about
the functions of `runctrl.c` and `breakpoints.c` can be composed.

**Discovery: `DiInv`.** The ages in datagrams are no less than the true ones, like those in
tables; a datagram from a slave address means that this address was heard of in this period;
and nothing is on its way to an agent that is down, whose table is empty, so that time
passes for everything that is known.

**Only model-checked.**

- Every liveness property (`EveryEventRuns`, `CancelReturns`, `RequestsComplete`,
  `PoolShutdownCompletes`, `ClientRunsAgain`, `EofDeletes`, `RequestsAnswered`,
  `InterceptReported`, `LocksReleased`, `StoppedThreadsContinue`, `MasterElected`, `Discovered`,
  `Forgotten`, and that a command is answered at last in `AnsweredOnce`): the prover has no rule
  for fairness.
- Clients of the cache that nest (`cache_nested`): the theorems and the passing run of `Cache` are
  without them.

**Loops.** A loop of the code is a recursive function of the model
(`f[i \in 0..n] == IF i = 0 THEN ... ELSE ... f[i - 1] ...`). Such a definition is a `CHOOSE` of a
function that satisfies its own equation; that there is one, and what holds at each `i`, is shown
by an induction over a set of numbers (`SetInduction`, `Iterates`, `SumExists`). The set names the
property, so no rule with a predicate parameter is needed. An induction over sequences
or trees cannot be written this way, and none is used.

## 7. What is not modelled

In the components that are modelled in part:

- *Worker pool*: the AIO path; what a request does.
- *Cache*: transaction listeners, the default channel, `cache_dispose()`, the debug timer.
- *Protocol and channels*: event handlers, congestion, broadcast groups, service lists as
  data, connection set-up, SSL, `splice()`, and `channel_pipe.c`, which repeats the structure
  of `channel_tcp.c`. Commands sent from inside `channel_closed()` are those of the client: the
  host and the target send none while `proxy_create()` and `proxy_update()` call it. A handler
  does not read on after the end of a stream that is cut.
- *Streams*: subscriptions to stream types, and `virtual_stream_drop_data()`, which nothing
  calls.
- *Run control*: step modes above the instruction step, detach, reverse execution, context
  locks, the check for zombies after repeated stop requests, cache misses inside
  `sync_run_state()`. Two orders of reports about threads: the first stop of a new thread
  before the clone event that announces it, and `PTRACE_EVENT_EXIT` of a thread that was
  killed by SIGKILL.
- *Breakpoints*: hardware and virtual breakpoints, address expressions, temporary breakpoints,
  ignore and hit counts, stop groups of a breakpoint, prologue skipping, errors while an
  instruction is planted or removed.
- *Discovery*: several interfaces and the loopback exchange, packets that are split or
  malformed, private peers, repeated receive errors, the refresh of peers of other services.

Not modelled at all: most of the repository by size. The ELF, DWARF and symbol readers, the
expression evaluator, the disassemblers, stack crawlers and register tables, JSON and base64,
the ports to other systems, and the front ends are sequential code over large formats or
thin layers over system calls. They have no interleavings for a model checker to explore, and
their inputs are out of its reach. For this reason the map covers a small share of all lines.
The reason for each part is under `components` in `PROJECT.json`.
