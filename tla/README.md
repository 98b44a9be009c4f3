# TLA+ models of the iosplitter and of the multipath plugin

The repository holds two programs that talk to each other. `src/iosplitter` is
a user-level server that executes block reads and writes for remote clients:
an RPC layer and a lock on byte ranges, written on top of `libtask`, a
coroutine library. `src/vmware_kernel/mpp` is a VMware multipath plugin that
sends reads and writes to such a server over a kernel port of the RPC layer,
and everything else down ordinary SCSI paths, with retry and failover.

This directory models the parts of both that keep state shared by several
actors, checks them with TLC on small instances, and proves most of their
invariants with TLAPS for every value of the constants. `PROJECT.json` maps each
definition to the lines it models.

## 1. Inventory

### iosplitter

A process runs `libtask` tasks. They are coroutines: a task runs until it
sleeps, blocks on a lock or on a socket, or yields. Code between two such points
is atomic with respect to the tasks of the same thread; what was read before
such a point may be stale after it.

| component | state | operations | what is hard | what makes it correct |
|---|---|---|---|---|
| range lock (`common/range_lock.c`) | tree of locked ranges; per node a reference count and a rendez | `range_lock`, `range_unlock` | a waiter sleeps on a node that leaves the tree and is freed while it sleeps; the search is stale on waking | no common address is held twice; a node is freed once, by its last user; no sleeper is left behind |
| red-black tree (same file) | nodes, colours, parent links, count | `rb_search`, `rb_insert`, `rb_delete`, fix-ups | rare rotation cases reached only by long histories | a red-black tree that holds exactly the locked ranges; the search is exact |
| buffer pool (`common/bufpool.c`) | freelist, `owned`, `issued`, rendez, state | `bufpool_init`, `get`, `put`, `deinit` | limits `nbufs` and `nmax`, failing allocation, wake-ups of one waiter, teardown with buffers out, tasks that hold one buffer and wait for another | exact counters, no deadlock, no lost wake-up, asserts |
| rpc channel (`rpc/rpc.c`) | sequence number, hash table of requests, `fdlock`, two pools, `enabled`, receiver task | `rpc_request`, `rpc_response`, `rpc_recv_task`, `rpc_chan_close`, `rpc_chan_deinit` | writers that sleep between header and payload, responses out of order, the connection breaking at any byte, teardown under running handlers | framing, matching, accounting, safe teardown, requests end |
| client, server (`iosplitter/client.c`, `iosplitter.c`) | sessions, threads | request tasks, `rpc_msg_handler`, session set-up | handlers that outlive the connection | as above |
| hash table, queue (`common/hash.c`, `queue.c`) | buckets, lists | add, look up, remove | - | used as a set by their callers |
| libtask (`libtask/`) | run queue, task cache, `taskcount`, rendez, `QLock`, `RWLock`, channels, timers, `taskio` (epoll and libaio) | create, yield, sleep, wake, lock, send, receive, read, write | hand-over of locks, a task queued on several channels, a timer re-armed in its callback, events for descriptors that nobody reads | each task is in one place; nobody waits for what is to be had; the asserts |
| session threads (`iosplitter/iosplitter.c`) | descriptor, channel, the poller of the thread | hello, set-up, receive, respond, close, end | all threads share one table of descriptors | a connection that ends is wound up |
| statistics, disk size | counters | - | - | not modelled |

### Multipath plugin

Kernel worlds, interrupt-level completions and timers run in parallel; the
device, the path and the plugin each have a spin lock.

| component | state | operations | what is hard | what makes it correct |
|---|---|---|---|---|
| commands, retry, failover (`mp_plugin_example.c`) | per command a path; per path `refCount`, `activeCmdCount`, state; per device `blocked`, `busyCount`, `activeCmdCount`, `startTimer`, `activePathIndex`; the plugin's retry queue | start, issue, complete, retry, fail over, task management | a command's completion, the retry world, the start timer and task management change the same counts in separate critical sections | counts equal their users, no command forgotten, every command completes |
| reservations (same file) | `RESERVED`, `RESERVING`, `resPath`, `pendingReserves`, two queues of reservation sensitive commands, `resvUpdateInProgress` | reserve, release, abort all, reset on failover | the lock is dropped for every abort | a command is on exactly one queue; the reset meets no sensitive command |
| claiming (same file) | path table, open count, device flags, created devices | claim, unclaim, open, close, probe, destroy | destruction waits for counts; pointers used after an unlock | nothing is used after it is destroyed |
| kernel rpc, pool, thread pool, network (`rpc.c`, `bufpool.c`, `threadpool.c`, `network.c`) | as in the iosplitter, with locks and condition variables | asynchronous requests; works | real parallelism, unchecked failures | as in the iosplitter |
| management interface, test programs | - | - | - | not modelled |

## 2. Modules

| module | what it is |
|---|---|
| `RangeMutex` | abstract specification: tasks that own disjoint sets of addresses |
| `RangeLock`, `MCRangeLock` | `range_lock` and `range_unlock` with nodes, reference counts and sleeping; refines `RangeMutex` |
| `RangeLockProofs` | TLAPS proofs about `RangeLock` |
| `RBTree`, `MCRBTree` | the tree algorithms of the range lock, as operators on a record of node fields |
| `BufPool`, `MCBufPool`, `BufPoolProofs` | the buffer pool and its proofs |
| `Rpc`, `MCRpc`, `RpcProofs` | one connection: channel, client and server in two processes, and its proofs |
| `Task` | the scheduler of a libtask thread: run queue, cache, `taskcount` |
| `TaskLocks` | `QLock`, `RWLock` and rendez on `Task` |
| `TaskIo` | `aiotask`, `sockio_done` and `task_fd_deregister` on `TaskLocks` |
| `Channel` | the channels of libtask on `Task` |
| `Timer` | a timer of libtask on `TaskIo` |
| `Session` | a session thread of the server on `TaskIo` |
| `Libtask`, `MCLibtask` | a thread that runs one of the four programs: session, locks, channels, timer |
| `LibtaskProofs` | proofs about the scheduler, locks, channels and timer, for every behaviour of `Libtask` |
| `SessionProofs` | proofs about the session on `LibtaskProofs`, and the invariants of the whole thread |
| `MppIo`, `MCMppIo`, `MppIoProofs` | the life of a SCSI command in the multipath plugin, and its proofs |
| `MppModule` | load and unload of the plugin and the start and stop of its retry world |
| `MppPaths`, `MCMppPaths` | claiming, probing, opening and unclaiming of paths and devices, composed with `MppModule` |
| `MppPathsProofs` | proofs about load and unload, and about paths and devices up to the first use of freed memory, for every behaviour of `MppPaths` |
| `KBufPool`, `ThreadPool` | the kernel buffer pool and thread pool |
| `KRpc`, `MCKRpc` | the plugin's channel to the server, composed of `KBufPool`, `ThreadPool` and the commands that use it |
| `KRpcProofs` | proofs about `KRpc` with its pools |
| `Counting` | operators about counts and queues in which the proofs state their invariants |

How they fit together. `RangeLock` takes `rb_search` to be "some node of the
tree that overlaps"; `RBTree`'s `SearchFindsOverlap` shows that the algorithm
does that after any history of locks and unlocks. `Rpc` uses a pool as a counter
with a maximum, which is what `BufPool`'s `Accounting` says of it; in return
`BufPool` assumes that `bufpool_deinit` is called with no task in `bufpool_get`,
which is what `TeardownIsSafe` says of the server's channel. `Session` is the
server's half of `Rpc` once more, seen from below: `Rpc` has the fragments of a
message and both processes, `Session` the descriptor, the poller and the
scheduler. `MppPaths` relies on counts that `CountsHeld` of `MppIo` shows
exact, and asks what happens to paths and devices when they drop to zero. `KRpc`
is what `MppIo` has as the outcome of a read or write; the sizes of its pools
are those the server's pools must match (`PoolsSuffice`).

Operators named `<definition>_<word>` and introduced by "fault:" are variants
of a definition with a plausible mistake in it. No specification uses them; they
show that each property notices the mistake.

### RangeLock

State: for each task where it is (`pc`), the range it asks for (`want`) and the
node it sleeps on or holds (`at`); the heap (`alloc`), the nodes in the tree
(`tree`), and each node's range and `refcount`. Actions: `range_lock` runs the
loop of the code once, either to a sleep (`WaitFor`) or to an insertion
(`Insert`); `range_lock_wakeup` is the rest of the loop after `tasksleep`: drop
the reference, free the node if it was the last, search again; `range_unlock`
deletes the node, and wakes all sleepers unless nobody else refers to it.
`check_overlap`, with its swap of the ends, is an operator; the lemma
`OverlapIsIntersection` shows it exact.

### RBTree

State: the tree, as a record of functions on nodes (a node is named by the start
of its range), and `held`, the ranges locked. The algorithms are recursive
operators, so the module is only model-checked. Assumed: allocation succeeds, and
the ends of a range come in order; `RangeLock` has the swap of the ends.

### BufPool

State: `freelist` (a set: the order of buffers does not matter), `owned`,
`issued`, who holds which buffer, the rendez as a sequence of tasks, the state,
and where `bufpool_deinit` is. `calloc` may fail at every call above `nbufs`.
`bufpool_get` is one action with the non-blocking variant in it;
`bufpool_get_wakeup` is the loop after the sleep.

### Rpc

State: of each task its place and message; the client's `seqid` and hash
table; the wire in each direction as a sequence of fragments (header or
payload) with a capacity; per side the descriptor, `enabled`, `fdlock` (owner
and queue), the two pools' `issued`, the receiver, the handler of the
CONNCLOSED message, and whether the process still runs. Requests are "open",
"read" and "write"; data, offsets and lengths are abstracted to whether there
is a payload. A failed assert or an `abort()` ends the process and with it the
connection. The server's device may fail a read, which `rpc_msg_handler`
asserts against, or a write, which is answered with the status -1 (`failed`);
`task_do_io` in the client asserts that its reads and writes succeed.

`rpc_chan_init` makes the message pool for 3 * (`nway` + 1) messages. Both
programs call it with `nway` = 128 and the client has 10 tasks, so
`SizeAssumption` asks only for room for two messages per task and one for the
receiver in the client, and one per task and one for the receiver in the server.

Each task's step ends where the code may suspend. The lock is `qlock`/`qunlock`
of libtask with hand-over to the first waiter. `LinkDown` breaks the connection
at any moment.

### MppIo

State: see the comments at the VARIABLES. One open device, its paths claimed for
the whole behaviour. A step is a critical section of a lock or one atomic
operation, with these exceptions, which merge neighbouring steps of one thread:
`Example_CompletePathCommand` sets the path's state, updates the reservation and
blocks the device in one step; `Pick` takes and gives back its reference on the
active path in one step; task management unblocks once for all commands it takes
out, and sends its requests down all paths in one step (`TmPaths`).

| code | actions |
|---|---|
| `ExampleDeviceStartCommand` | `StartCheck`, `StartGet`, `StartEmpty`, `StartNoMem`, run by PSA, a completing thread, the timer or task management |
| `ExampleDeviceStartFromTimer` | `ExampleDeviceStartFromTimer`, the loop, `TimerEnd` |
| `ExampleIssueCommand` | `ExampleIssueCommand`, or `IssueLost` and `CompleteLost` during a reservation update |
| `Example_CompletePathCommand` | `Example_CompletePathCommand`, then `CompleteDone` or `ExampleQueueCmdToRetry`, then `DerefCount` |
| `Example_RetryWorld` | `Dequeue`, `Pick`, failover, `ExampleRetryCmd`, `ExampleDevice_Unblock`, `Sched`, `ExampleDeviceDecBusyCount` |
| `ExampleDevice_AttemptFailover`, `ExampleUpdateResvOnFailover` | the actions of those names, `Reset`, `FailoverEnd` |
| `ExampleAbortAllRSIOs` | `AbortOne`, `AbortWait`, `AbortAgain`, `AbortEnd` |
| `ExampleDeviceTaskManagement` | `TakeAborts`, `CompleteAborted`, `TmPaths` |
| `ExampleProbePath` | `ExampleProbePath` |

Abstractions: a path is on or dead (standby, off and PDL are left out); a
command is a read or write, a reserve, a release or a reservation sensitive one;
an abort or a path's task management has no effect of its own, because any
command may end with an error at any time; `vmk_ListSplitAfter`, which is not in
the repository, is taken to move all commands back, as its comment says.
The external parts are PSA, which queues commands, and the links.

### MppPaths and MppModule

PSA serialises claiming, unclaiming, probing and setting the state of paths
(the comments of the source say so); they are one actor `mg` that goes through
`ExamplePathClaimBegin`, `ExampleClaimPath`, `ExamplePathClaimEnd`,
`ExampleUnclaimPath`, `ProbePath` and `ExamplePathSetState` critical section by
critical section. Beside it run a probe of the device (`pr`), a user who has the
device open and sends inquiries and task management (`user`), the commands, the
thread that completes them (`comp`), a direct path command (`direct`), the retry
world with failover and aborts (`rw`) and the start timer (`tm`). A freed device
or path is never reused: a step that touches one leaves a mark in `stale`, and
the instance does not follow a behaviour beyond it. `StaleUses` says which
places can do that; they are real uses after free, and the property shows there
are no others.

`MppModule` has `init_module`, its error path and `cleanup_module` as three
orders over the resources, and the handshake between the loader and the retry
world. A loader that is killed while it waits for the world to start undoes
what the world still uses; `ResourcesOutliveUsers` excludes just that case.

### KRpc, KBufPool, ThreadPool

A command goes from the work list of `send_tp` through `rpc_msg_get`,
`rpc_payload_get` and `rpc_async_request` (test of `enabled`, lock and
`hash_add`, one step per fragment written, unlock) to `Pending`; the receiving
thread reads fragments and schedules works; a worker of the channel's pool runs
`_rpc_response` and `cb_mpp_resp_handler`. `init_cachebox` can fail at each of
its steps and then runs the deinit of the code; `Unload` runs
`deinit_cachebox` at any time when no command is out, as PSA guarantees.
`vmk_SgCopyTo` may fail in the handler of a read's response, which asserts that
it does not. A behaviour has up to `MaxFault` of three kinds of fault: part of
the initialisation fails, the connection is lost, a copy fails. `crash` says
which assert failed or which memory was misused.

The plugin's sizes: `nway` = 128 and a reserve of 32 give `nmsg` = 160,
`nmsg_max` = 384, `ndata` = 288, `ndata_max` = 864, a work pool of 128 to 512
for 8 worlds; the server's message pool holds 387. `ChannelAssumption` states
the inequalities between them that `PoolsSuffice` needs. `malloc` never fails in
the pools, as each has a heap made for `nmax` buffers. Bound: one world at a
time queues commands.

### Task, TaskLocks, TaskIo, Channel, Timer, Session

The functions of `task.c` are operators from one state of the scheduler to the
next; a step of a task is its code up to the next system call or `taskswitch`,
and contains the scheduler's choice of the next task. `Libtask` picks one of
four programs in `Init`:

- *locks*: tasks that in any order take, try and release a `QLock` and an
  `RWLock`, sleep on a rendez with the lock, wake others, yield, create tasks of
  either stack size and exit;
- *channels*: tasks that send and receive on an unbuffered and a buffered
  channel, alone or in `chanalt` on both;
- *timer*: tasks that share a timer. The callback is quick, or sleeps;
- *session*: `task_new_session`, `aiotask`, `rpc_recv_task`, the handlers and
  the handler of CONNCLOSED. The client may hang up at any time, and the device
  fail a read, which ends the process. Another thread may be given a number that
  was just closed, and may itself be about to close the number we were given
  (`window`). When the thread is about to read or write a connection that is not
  its own, the model stops.

## 3. Runs

| run | instance | checks |
|---|---|---|
| `range_lock` | 3 tasks, 3 nodes, addresses 0..2, 4 ranges: all addresses, two single ones, and one of two addresses with its ends swapped | exclusion, node lifetime, sleepers have a holder and are woken, refinement of `RangeMutex` |
| `rb_tree` | addresses 1..8, ranges of up to 3 | tree shape, content, exact search |
| `bufpool` | 3 tasks, 5 buffers, `nbufs` 4, `nmax` 5, 2 buffers per task | counters, no hold-and-wait deadlock, asserts, wake-ups, end of `bufpool_deinit` |
| `rpc` | 2 client tasks, 3 reads and writes in all, sockets of one fragment, one break, one failure of the device | framing, matching, hash table, buffers, teardown, why a process aborts, answers, server teardown |
| `rpc_pending` (violation) | as `rpc`, 2 writes, the device does not fail | `RequestReturns` fails |
| `rpc_unlock` (violation) | as `rpc`, 2 writes, the device does not fail | `ServerSurvives` fails |
| `mpp_io` | 2 paths, 3 commands (reserve, sensitive), 1 completing thread, 2 disturbances | block, path and device counts, no forgotten command, reservation bookkeeping |
| `mpp_progress` | 2 paths, 2 commands, one a reserve or a read or write, the other sensitive or a release, 1 completing thread, 2 disturbances | every command completes |
| `mpp_reset` (violation) | 2 paths, 2 commands, 2 threads, 2 disturbances | `ResetFindsNoSensitive` fails |
| `mpp_paths` | 2 paths, 1 device, 2 commands, 3 calls of PSA and users, 1 failure | an open device has an active path, uses after free, resources of the module |
| `krpc` | 3 commands, 2 sending worlds, 1 response world, sockets of one fragment, 2 kinds of fault, pools just large enough | buffers, ownership of messages, sizes, no circular wait, each crash has its cause |
| `libtask` | 4 tasks (3 with channels, 8 in a session), 1 cached task, 3 values, 4 requests, a socket for one answer | tasks in one place, waiters are blocked, causes of aborts |

Why the bounds are enough to be interesting:

- `range_lock`: three tasks give a holder, a sleeper and a third one that
  takes the range between the sleeper's wake-up and its resumption. A task
  needs at most one node, so three nodes mean that allocation never fails.
- `rb_tree`: up to eight nodes, which reaches all cases of both fix-ups with
  their mirror images, and the two-children case of `rb_delete` with the
  successor at any distance.
- `bufpool`: one more buffer than tasks is the smallest pool for which freedom
  from deadlock is claimed; 5 > 4 gives a buffer that is allocated and freed
  again.
- `rpc`: with sockets of one fragment, a writer blocks after each header, and
  with one data buffer in the server the receiver and the handlers wait for
  each other. The third request reuses the resources of an earlier one. One
  failed write is enough for the client to abort while the server goes on, one
  failed read for the reverse.
- `mpp_io`: a disturbance is a link that fails or comes back, a failed
  allocation or a call of task management. Two of them allow task management or
  the start timer to meet a failover. Three commands are the fewest for
  `IssueLost`: one that is retried, a sensitive one that is being aborted, and a
  sensitive one that is issued meanwhile. Besides the completing thread, PSA,
  the timer, task management and the retry world run in parallel. Commands are
  symmetric; paths are not, as the search for a new one goes by index.
- `mpp_progress`: one disturbance is enough for a retry with failover and the
  aborts, or for a start from the timer. Task management needs two: a command
  comes into the retry queue by a link that fails, and leaves it by the call. To
  keep the graph small for liveness, `Mixed` lets PSA queue only the kinds named
  for either command.
- `mpp_paths`: two paths are the fewest for an unclaim that leaves a device
  alive, and for a failover. A call is a claim, an unclaim, a probe, an open, a
  task management request and so on: three of them let an unclaim and a probe
  meet an open device with commands. The failure is that of an allocation, a
  registration or a killed world. Paths and commands are symmetric: slots of a
  device are searched by index, not by path.
- `krpc`: with sockets of one fragment a sender blocks with the lock held after
  each header. The message pool has one message per command and one for the
  receiver, so a sender waits for a buffer while others are answered. Two kinds
  of fault let a copy fail after the connection was lost, or the connection be
  lost of a channel that could not start its receiver. Commands and worlds of a
  pool are symmetric.
- `libtask`: a cache of one makes a task end both into the cache and past it.
  With four tasks a writer waits behind a reader with another reader behind it;
  with three talkers a task in `chanalt` on two channels has a partner on each.
  Four requests and room for one answer give a handler that writes, one that
  waits for the lock and requests in the socket; after the channel was disabled
  they also give a handler that was just handed the lock beside one that unlocks
  what it never locked. Eight tasks are what four requests need (`MaxReq` + 4),
  so that `taskcreate` never meets the bound in a session.

Deadlock is not checked where the system may stop: in `rpc` the client ends, in
the `mpp_*` runs and `krpc` PSA may stop queueing commands or has unloaded the
module, in `libtask` the thread ends. It is checked in the others. `NoStall` of
`krpc` is the check for deadlock with commands queued; `WaitersBlocked` says it
for libtask.

### Fairness

- Range lock, pool: a ready task runs, because libtask's run queue is FIFO; a
  request handler that is not waiting ends, and unlocks its range and puts its
  buffers. Nothing forces a task to lock or to get.
- Rpc: the same, and the poller readies a task whose socket is ready. Nothing
  forces the client to start a request, the link to break or the device to fail.
- MppIo: worlds, threads and the timer run, and an adapter completes every
  command it was given, in an error if need be. The RPC channel is not assumed
  to do so: requests pending when its connection closes are never completed, so
  `Completed` excludes reads and writes. Paths need not be probed. One link
  always works, otherwise a command may be retried for ever.

### What the violation runs show

- `rpc_pending`: `rpc/rpc.txt` says that `rpc_request` returns "when a response
  is received (or on errors such as connection closed)". Nothing wakes the
  requests that are waiting when the connection closes.
- `rpc_unlock`: on a disabled channel `rpc_response` unlocks `fdlock` without
  having locked it, and `qunlock` aborts when the lock is free.
- `mpp_reset`: `ExampleAbortAllRSIOs` lets reservation sensitive commands in
  again before the unit is reset; one that was already in the send thread pool
  is issued in between.

### What the passing runs show beside

The properties that hold name the exceptions they hold with; these are what the
code does, each found as a counterexample of the property without it.

- `StaleUses`: four places use a device or path that may be freed: the thread
  that starts the device again after `cmd->done`, the completion of a failed
  direct command, the abort of a reservation sensitive command, and task
  management when it reads its slot again.
- `AbortsExplained`: the server aborts when a client hangs up before its hello
  or, without a handler for SIGPIPE, while it is answered, and when a handler
  answers after the channel was disabled: it unlocks the lock without having
  locked it, which fails at once when the lock is free, and otherwise takes it
  from the task it was just handed to, whose own assert in `qlock` or `qunlock`
  fails then. It aborts when its device fails a read. A task with a large stack
  created after a small one has ended aborts; so do `timer_unset` followed by
  `timer_set`, a timer closed while its task is not in its read, and a periodic
  timer whose callback sleeps.
- `WaitersBlocked`: a session whose descriptor number was given to another
  session between close and deregistration never ends, because
  `task_fd_deregister` refuses an open number; a callback that sleeps makes
  `_timer_func` disarm a timer that was armed again meanwhile.
- `AbortExplained`: one read that the device fails ends the server, and one write
  the client, whatever the other tasks are doing.
- `CrashExplained`: after a lost connection or a failed initialisation asserts
  do fail: a request that fails and the unload close the socket both, `_rpc_recv`
  puts a payload to a NULL pool, the message of a failed request is put back
  while it is in the table, whose links then lead anywhere, a failed
  `thread_pool_init` frees what started worlds use, and a failed `rpc_chan_init`
  tears down pools never made. So does the assert on `vmk_SgCopyTo`.

Three more were met and are not run. The plugin completes a write as good that
the server's device has failed: `resp_read_cmd` looks at the status of the request
(`mp_plugin_example.c:1256`), `resp_write_cmd` at none. `rpc/rpc.txt` (70-71) says
that incoming requests block until a message is available; the receiver asserts
that one is (`rpc.c:61-62`), and with fewer messages than requests in flight the
server aborts. `init_cachebox` closes a socket that `client_setup` has already
closed when the connection fails.

## 4. Proofs

All proofs hold for any values of the constants that satisfy the ASSUMEs of the
module.

**RangeLockProofs.** Assumptions: a finite set of tasks, addresses that are
natural numbers, requests that are ranges of them in either order, and values
for "no node" and "no range" that are none. The invariants of the runs are not
inductive: that an insertion creates no overlap needs to know that the ranges
stored in the tree are normalized and that every holder's node is in the tree;
that a wake-up finds a node needs its exact reference count. `IInv` joins

- the types and `NodeLifetime`;
- what the place of a task says about its node (a holder's node is in the tree
  and has no other holder, a sleeper's node is in the tree);
- the ranges in the tree: normalized and pairwise disjoint.

`Invariance` shows it inductive, one lemma per action, with `UsersAfterMove` for
the change of a node's users when one task moves. From it follow `TypeCorrect`,
`Exclusion`, `Lifetime`, `NoForgottenSleeper` and `Refinement`: an insertion is
an `Acquire` of the addresses of the range, an unlock a `Release`, every other
step a stutter.

**BufPoolProofs.** Assumptions: finite sets of tasks and buffers,
0 < `nbufs` <= `nmax`. `IInv` joins the types, `Accounting`, that a sleeping
task holds at most one buffer and is on the rendez (once), the relation between
the state, `open` and the place of `bufpool_deinit`, and `NoHoldAndWait` itself,
which is not a consequence of the others: when a task goes to sleep no buffer
is free, so at least `nbufs` are out, which with fewer than `nbufs` tasks means
that one task has two (the pigeonhole principle, `SomeHoldsTwo`) and is not
asleep. The theorems are `TypeCorrect`, `CountersExact`, `DeadlockFree` and
`NoAssertFails`.

**RpcProofs.** Assumptions: finitely many client tasks, names that are distinct,
and message pools as large as `SizeAssumption` says. None of the invariants of
the run is inductive. That a receiver finds a header where it reads one depends
on who writes at the other end; that a response has a task that waits for it
depends on every station the request went through; that no assert on an empty
pool fails depends on the exact counts of the pool. `IInv` joins

- the types, and what a task works on at each place (`Clients`, `Handlers`);
- `SeqsApart`: two tasks never have the same sequence number;
- `Link`: what the connection, the descriptors, `enabled` and the receivers say
  of each other;
- `Locks`: the owner of `fdlock` is the task that writes, and the tasks at the
  lock are its owner or queued once. On the server this holds only while the
  channel is enabled, as afterwards handlers unlock what they have not locked;
  what is left is that there are no more holders and waiters than senders;
- `Frames` and `Ends`, on the stream of a side, which is the header its receiver
  has read followed by the wire: headers and payloads alternate as they should,
  each sequence number is there once, and a message is incomplete at the end of
  the stream exactly while its sender is between header and payload;
- `Requests`, `Responses` and `Stations`: a fragment on its way belongs to a task
  that sends it or waits, a handler to a request that is waited for, so that a
  request is at one station at a time;
- `ResponseMatches`, `HashIsOutstanding` and the counts of both pools;
- `Teardown`, and `NoLoss`: a connection that the network has not broken, between
  processes that have not aborted (`Unbroken`), is up, or was closed by a client
  that had nothing left to do.

`Invariance` shows it inductive; for each action one lemma per part that it can
disturb. From it follow `TypeCorrect`, `FramesIntactHolds`,
`ResponseMatchesHolds`, `HashIsOutstandingHolds`, `BuffersAccountedHolds`,
`TeardownIsSafeHolds` and `AbortExplainedHolds`, which is about a step: a process
whose peer and connection are whole aborts in one of two actions only, each
with its request in `failed`. That the lock of the server is
an invariant only until the channel is disabled is the fault that `rpc_unlock`
shows, met again in the proof.

**MppIoProofs.** Assumptions: finitely many commands and threads, at least one
path, and distinct names. `IInv` joins the types, what the state of a command
says of its path (`CmdShape`), what the retry world and the starting threads have
in hand (`WorldShape`, `LoopShape`), that the retry queue holds each command to
retry once, and the five invariants of the run. `BlockedByRetries` counts the
entries of a queue, and task management takes any set of them out; the proof
counts the commands in the state "retry" instead (`BlockedCount`), and
`QueueShape` says that these are the same. `NobodyForgotten` needs the exact
counts: a thread that finds a device blocked or busy leaves its commands to the
one that will bring the count to zero. The theorems are `Invariance`,
`TypeCorrect`, `BlockedByRetriesHolds`, `CountsHeldHolds`,
`NobodyForgottenHolds`, `SensitiveTrackedHolds` and `ReservesCountedHolds`.

**KRpcProofs.** Assumptions: finitely many commands and worlds, distinct names,
and `ChannelAssumption`. `IInv` joins the types, what a worker has in hand at
each place, the holder of the channel's lock, the table of requests, that a
command is at one station (the work list, a sender, pending, the wire, the
server, the receiver, a handler) and there once, the parts of a message in their
order, the places of `init_cachebox`, `rpc_chan_close` and `deinit_cachebox`
against what exists, the connection against the faults there were, the state of
both thread pools, and the sums of both buffer pools. The sizes follow from the
counts: a message is issued for every command at a station behind `rpc_msg_get`,
so `nmsg_max` bounds all of them. The theorems are `Invariance`, `TypeCorrect`,
`SenderOwnsMessageHolds`, `BuffersAccountedHolds`, `PoolsSufficeHolds` and
`CrashExplainedHolds`. The last is by its own induction: each step that sets
`crash` is one where `IInv` leaves no cause but the one named.

**MppPathsProofs.** Assumption: `PathsAssumption` (finite sets, distinct names).
`init_module`, its error path and `cleanup_module` walk three orders over the
same resources. The lemmas about the orders say that a resource is made after
what it needs (`MadeAfterNeeds`) and destroyed before it. `ModuleInv` says for
each phase that the resources that exist are a prefix or a suffix of its order,
and where the retry world is. `StepIsModuleStep` shows that no step of the
devices, paths and commands touches what the loader keeps, so the results hold
in every behaviour of the composed specification: `ModuleInvariance`,
`ModuleTypeCorrect` and `ResourcesOutliveUsersHolds`.

The second half is about paths and devices. A step that touches a freed device
or path decrements counts that nobody has any more, and nothing is known of them
afterwards; so the theorems speak of what holds as long as `stale` is empty, and
of the step that makes it non-empty. `PathsInv` joins

- the types, and the slots (`Slots`): a path that is claimed is in one slot of
  its device and in no other, `n` is their number, and a device with paths has
  one in its active slot;
- what exists (`Devices`, `Drained`, `Created`): a device without paths is the one
  being made or being drained by the path operation, and is not open; the table
  of devices names no freed one;
- what the path operation, the probes, the user, the commands and the retry world
  have in hand at each place (`Management`, `Probes`, `Users`, `Commands`,
  `World`);
- the counts: `openCount`, `busyCount`, `activeCmdCount` and `refCount` are sums
  of those holders (`Opens`, `Busy`, `Counts`), and a referenced path exists
  (`Refs`).

The counts are what the safety of destruction rests on: an unclaim waits for the
counts of a path, and a path that a thread uses under its reference exists
because that thread is one of the summands. `ActivePathExists` needs the slots
of all devices, as `remove` searches the next active path among them.
The theorems are `PathsInvariance`, `ActivePathExistsHolds` and `FirstStaleUse`:
the first use of freed memory happens at one of the four places `StaleUses`
names.

**LibtaskProofs.** Assumptions: those of the modules, of which four are about
the bound `MaxTask`: there are no more `Workers` or `Talkers` than tasks, a
thread with a timer has room for two, and a session with `MaxReq` requests has
room for `MaxReq` + 4. The proof begins with
the scheduler. `Acc(s, r, W)` says that the tasks of `s` are `r`, which runs,
those in the run queue, and those in `W`, each in one of the three places, that
the cache holds the cached ones, and that `taskcount` counts what is not a
system task. For each function of `task.c` there is a lemma that says how it
changes `r` and `W`; `taskscheduler` runs the head of the queue, and a thread
that ends or aborts needs nothing any more. The programs then say who `W` is.

- Locks (`LocksInv`): `W` are the tasks in the four queues. Where a task is says
  what it holds (`Agrees`); in particular the new owner of a lock that was
  handed on is ready at the place behind its `taskswitch`, and the readers'
  count is the number of readers that run and of those to whom the lock was
  handed on. `HandedOn` is part of the invariant: a queue is not empty only
  while somebody holds the lock against it.
- Channels (`ChansInv`): `W` are the tasks with queued Alts. The ring of a channel
  is a window of `nbuf` places from `off`, modulo its size. A value that was sent
  has been received once, or lies in one slot of one ring and has not
  been received (`Data`); a queued sender offers a value that was not sent yet.
  A queued Alt cannot be executed (`Queued`): a channel where tasks wait to
  receive is empty, one where they wait to send is full, and no channel has both.
- Timers (`TimersInv`): `W` are the reader of the timer's descriptor, the tasks
  in its rendez and those asleep in the callback. `Timers` says what each
  place of a task means; that a timer that is set has a task until it is closed,
  and one that was never unset has at most one; and that a timer with a quick
  callback that somebody waits for is armed or has expired until it is unset
  or closed. `AioOk` is about `aiotask`: it goes on to poll when it is back
  from its `taskyield` after at most one switch, and then no other task is
  ready.

The theorems are `LocksInvariance`, `ChansInvariance`, `TimersInvariance`, and
for each of the three programs that tasks are accounted for, that who waits is
blocked, and that the thread aborts only from the causes named
(`LockTasksAccounted`, `LockWaitersBlocked`, `LockAbortsExplained`, and so on).

**SessionProofs.** The session is on the same scheduler, with `W` the tasks that
wait for the descriptor, in the lock, in the pool's rendez and in `t->cond`. Before
`task_new_session` has started the others there is one task and nothing of the
channel exists (`Early`). From then on `SessInv` joins

- `Conn`: what the descriptor, `enabled` and the poller say of each other. A number
  that is not ours any more was closed by us, or by another session by mistake;
- `Edge`, for a poller that reports changes only: who waits for the descriptor
  although there is something for him has an event that is not yet reported;
- `AllAt`: what each place of a task means. While the channel is enabled the
  tasks that write or close own the lock, and those at the lock own it or are
  queued; afterwards a handler unlocks without it, so nothing of the kind holds;
- `Held`: the lock's owner is nevertheless a task that will unlock it, and not
  the handler of CONNCLOSED that waits for the pool to be drained. So nobody
  is queued at a lock that nobody will unlock;
- `Led`: one task at a time is the receiver or, after it, the handler of
  CONNCLOSED, and there is one for as long as the poller runs;
- `Messages`: `issued` of the message pool is the number of tasks that have one,
  and with the requests still in the socket they are at most those that were
  sent, and one that the receiver fills. That is what bounds the tasks of a session.

The theorems are `SessionInvariance`, `SessionTasksAccounted`,
`SessionWaitersBlocked` and `SessionAbortsExplained`. With those of the other
three programs they give `AllTasksAccounted`, `AllWaitersBlocked` and
`AllAbortsExplained`: the three invariants of the run, for every behaviour of
`Libtask`.

**Counts and queues.** At the head of five of the proof modules stand the lemmas
each needs about the operators of `Counting`: the size of a set defined by a
condition when one element enters or leaves it, and what a queue holds after an
append or a removal.

**Only model-checked.** Liveness under fairness is out of the prover's reach,
and so is `NoStall`, which says ENABLED. `RBTree` uses recursive operators, so
`RedBlack`, `TreeHoldsHeld` and `SearchFindsOverlap` have no proofs.

## 5. Not modelled, and why

- libtask's context switch, printing, and the poll-based `fd.c` and `net.c`,
  which `taskio` replaces: machine-level code, formatting, unused.
- In `taskio`: `task_aiorw` and libaio, event descriptors, and the functions that
  announce, accept and connect sockets and fifos. The server reads its disk with
  plain `pread` and `pwrite` and uses none of the asynchronous ones; the others
  run before a session starts. `chanfree` and `taskexitall` have no caller.
- The server's main thread: its accept loop never yields, so its other tasks do
  not run, and it starts a thread per connection; `tcount` indexes an array of 32
  without a test. `accept` of a client that has gone ends in its assert.
- Failing allocations in `rb_insert` and in `rpc_chan_init` of the iosplitter; the
  server asserts that the latter succeeds. `rpc_chan_deinit` of a channel whose
  first pool failed would use the others uninitialised.
- `task_delay` is `timer_init`, `timer_wait` and `timer_deinit` in a row, but
  `timer_init` asserts on `init` of an uninitialised stack variable
  (`timer.c:95`).
- A failed `rpc_request` leaves its message in the hash table (`rpc.c:481`); the
  client aborts in the same step.
- Malformed headers in `rpc_recv_task`: both ends run the same code.
- In the plugin: configuration strings, the user's choice of a path, INQUIRY data,
  the state of the device that `ExampleDeviceProbe` applies after it has
  dropped the lock (`mp_plugin_example.c:3612`), and the logging of device names.
  `rpc_response` of the kernel channel and requests from the server: unused.
- Statistics, disk size, management interface, vendor headers, test programs: no
  state that a property depends on, or not part of the program.

## 6. Plan

Every safety invariant of the passing runs has a proof, but for those named under
"Only model-checked"; those of `MppPaths` are proved up to the first use of
freed memory. What could be added to the models: the server's
main thread and its table of sessions, the asynchronous disk operations of
`taskio` once the server uses them, and standby paths in `MppIo`.
