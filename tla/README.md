# Verification of the Transom checkpoint engine

TLA+ models of the checkpoint server (`src/transom_snapshot_server`) and of the
part of its Python client that saves and loads (`src/transomSnapshot`), checked with TLC
on small instances and, for the central results, proved with TLAPS for every
value of the constants.

## The system

A training job runs on a ring of nodes. Each node has one server process; the
training processes ("ranks") of a node talk to it over HTTP and share memory
with it. All servers share one MySQL table with a row per checkpoint file:
name, rank of the node that owns it, iteration, state, size.

A save goes through `createMetadata` (admit the iteration, evict the oldest one
if the window is full, allocate a memfd, write a PENDING row), a copy by the
training process into the memfd, and `updateMetadata` (state CACHED, key to the
work queue). Reconciliation workers then take one step per visit: CACHED files
are copied to the next node of the ring (BACKED_UP), then written to disk
(PERSISTENT); OBSOLESCENT files are deleted on both nodes. A server that
restarts fetches its files from the next node or from disk and asks the
previous node to send its backups again.

### Inventory

| Component | State | Operations | Interacts with |
|---|---|---|---|
| Python client (`engine.py`, `util.py`, `transom_memcpy`) | local copy of pid and memfd | save, load | HTTP service; writes the memfd directly |
| HTTP service (`http_service_impl.h`) | `rw_mutex_`, `ready_` | createMetadata, updateMetadata, getMetadata, deleteOldestIteration | table, Storage, Operator, IterationManager, loader |
| Iteration window (`iteration_manager.h`, `dequeue.h`) | `q_` | push, pop oldest, membership | HTTP service, bootstrap |
| Reconciler (`coordinator.cpp` 120-357) | none: reads the row, the entry | Reconcile(key) | table, Storage, Persistence, backup client |
| Operator (`operator.cpp`) | `work_queue_`, threads | AddRateLimited, run | channel, rate limiter, Reconcile |
| Storage (`storage.cpp`) | `dict_`, `backup_dict_` | Save, Load, Delete | memory monitor |
| Persistence (`persistence.cpp`) | files | WriteToDisk | |
| Metadata client (`metadata.cpp`) | the table | Save, Load, UpdateState, BatchLoad | MySQL |
| Inter-node client and server (`client.cpp`, `server.cpp`) | a connection each | Backup, Load, BatchLoad, NotifyBackup | RDMA communicator, Storage, table, Operator |
| Bootstrap (`coordinator.cpp` 32-118) | retries | retrieve, load from disk, trigger | inter-node client |
| Remote file loader (`remote_file_loader.h`) | `req_ch_`, `ongoing_files_` | AddKey, WaitUntilFileReady, worker | channel, LoadRemote |
| Channel (`channel.h`) | queue, size, closed flag, mutex, condition variable | `>>`, `<<`, iteration, close | Operator, loader, bootstrap |
| RDMA communicator (`rdma_communicator.cpp`) | socket, queue pair, registered memory | Read, Write, handshake, rdma_write, rdma_read | peer |
| Memory monitor (`monitor.cpp`) | `stat_` | TryMemfdMalloc, memfdFree, TryLoadFromFile | Storage, handlers |
| Rate limiter (`rate_limiter.cpp`) | `next_free_`, `interval_` | aquire, set_rate | Operator |
| Network cards (`nic_helper.h`) | `busy_` per card | choose the least busy one, release | RDMA communicator |
| Messages and buffer (`api.cpp`, `buffer.h`) | bytes and offset | Marshal, Unmarshal, Add, Get | inter-node client and server |

What is hard here: a worker acts on a row it read minutes ago; the same key can
be in the hands of several workers; training processes write memory that an
eviction frees; an HTTP handler holds a lock while it waits for workers; keys
travel only through queues, so one forgotten re-queue loses a checkpoint; one
condition variable serves readers and writers; a restart finds rows, memory on
another node and disk in any combination; two nodes talk over a stream whose
errors look like large sizes; memory is counted without a lock and unmapped by
detached threads; permits are computed with a clock that can be set.
`PROJECT.json` lists these hazards with the lines where they bite and the properties that cover them.

## Modules

| Module | Role |
|---|---|
| `Lifecycle` | save, reconciliation, backup, persistence and eviction on a ring of nodes |
| `MCLifecycle` | instances: all files on node 0 with two workers, one worker on node 1 |
| `LifecycleProofs` | types of `Lifecycle`, the window of iterations, no key is lost; of files saved once the truth of the row, recoverability, live memory, order of states |
| `Fifo` | abstract bounded FIFO |
| `Channel` | `util::channel` with its mutex, condition variable and threads |
| `MCChannel` | instances of `Channel` |
| `ChannelProofs` | order of elements, refinement of `Fifo`, who holds the mutex and who sleeps |
| `Recovery` | crash and restart of nodes, `bootstrap()` with both of its threads, re-backup |
| `RecoveryProofs` | types, durability and integrity across crashes, backups of a ready node, the rebuilt window, retrieval from disk |
| `MCRecovery` | instances: two nodes, three files on node 0 and one on node 1 |
| `Memcpy` | the copying threads of `transom_memcpy` |
| `MemcpyProofs` | every cell in its place, a copy that returns true is complete |
| `MCMemcpy` | instances: tensor sizes around the boundaries of blocks and threads |
| `Messages` | buffers, marshalling of the messages of backup and load |
| `Transfer` | abstract backup or load: what its caller may rely on |
| `Wire` | one backup or load per connection: stream, handshake, chunks, network cards |
| `WireProofs` | refinement of `Transfer`, both ends in step, counts of cards, no dead end without a failure |
| `MCWire` | instance: one connection with any operation, one with metadata only |
| `Loader` | loading on one node: `engine.load`, `getMetadata`, `remoteFileLoader` |
| `LoaderProofs` | a remote file is read once, no descriptor is lost, loads are intact |
| `MCLoader` | instance: a file kept on this node and a remote one |
| `Monitor` | memory accounting, memfds and their mappings |
| `MonitorProofs` | types, what the storage lists is mapped, the count of memory, the user's limit |
| `MCMonitor` | instance: two files, two threads |
| `WorkQueue` | the operator's bounded queue and its rate limiter in time |
| `WorkQueueProofs` | the spacing of permits |
| `MCWorkQueue` | instance: two workers, one producer |

`Lifecycle` abstracts the work queue to a bag, `Channel` shows it to be a FIFO;
`Recovery` takes the life cycle of a file from `Lifecycle` in coarser steps;
`Memcpy` is the action pair `WriteBegin`, `WriteEnd` of `Lifecycle` cell by cell.
`Channel` implements `Fifo`, and `WorkQueue` and `Loader` take their channels as
the bounded queue that it is. `Wire` extends `Messages` and implements `Transfer`,
the promise on which `BackupBegin` and `RdmaWrite` of `Lifecycle` rest: a backup
counts only when all bytes have arrived. `Loader` has the life cycle of a file in
coarse steps as its environment. `Monitor` is what lies behind an allocation or a
deletion of the other modules.

### Lifecycle

State and code: `state`, `iteration` are the row; `dict`, `backup_dict` the
entries of `Storage` at the owner and at the next node, as addresses (a new
number per allocation, so that a stale address is recognisable); `cache`,
`backup`, `disk` what the memory or file holds: nothing, a mixture, or the
complete k-th save. `cpc` is the place of a file's client and its HTTP handler,
`wpc` the place of a worker in `Reconcile`, with `wsnap` the state it loaded and
`waddr`, `wraddr` the addresses it holds. `rw_mutex`, `q_`, `vec`, `evictee` are
the admission lock, the window and the locals of `deleteOldestIteration`.

Every access to shared state is an action of its own. Calls that the code makes
one after another without looking at shared state in between are one action.
Abstractions:

- The work queue is a bag: reordering of keys is allowed, which covers the
  channel's order and the rate limiter. The bound of 10000 keys is in `WorkQueue`.
- A backup is two actions, `BackupBegin` (request, response, allocation at the
  next node, first byte) and `RdmaWrite` (the end of the transfer). A failure at
  any message is a failure of one of the two; a failed transfer may have
  delivered all bytes. It either returns, and the key is queued again, or it is a dead
  end of the handshake, as `Wire` finds it message by message: the next node lost its
  memory after its positive response, or the peer is lost, and the worker stays in
  `sock_sync_data` with its key (`GetsStuck`). The next node may then take the
  handshake for the size of a routine and exit (`NextNodeExits`, `exited`), upon
  which the worker may see a reset and go on (`ConnectionReset`) or not. An exited
  node takes no step; its memory stays as it was in the model, where nobody can
  reach it. Backups to it fail.
- A transfer delivers the source's content if it did not change meanwhile, else
  a mixture; concurrent transfers of different content into one target spoil
  each other; reading freed memory gives a mixture.
- Sizes are positive (`engine.save` refuses empty ones), so the size-zero branch
  of `checkDataCompletion` does not occur. A re-save of another size may tear the
  content at `Alloc`.
- `LockStep`: a rank starts a save of an iteration only when all saves of other
  iterations of the instance have returned, as ranks of a training job do.
- `wait_ready` has passed; servers do not restart (the subject of `Recovery`), nor
  does one that exited.
- Bounds: `MaxSaves` per file, `MaxFaults` failures per behaviour.

### Channel

A critical section is one action; only a reader that goes to sleep takes two
(`HasNext` or `Read`, then `Block`), because `close()` changes the flag without
the mutex. Spurious wake-ups are left out: one is the same as a notification
that finds the predicate false, which the model has. `put` and `taken` record
what went in and out. `size_` always equals the length of the queue under the
mutex and is not a variable of its own.

### Recovery

What survives a crash is the table (`state`) and the files (`disk`); `mem`,
`q_`, `work_queue` and the threads of the node are lost. `t1`, `tries`, `resp`,
`ok` are the first thread of `bootstrap()` (retrieval), `t2` the second
(re-backup), `serv`, `hvec`, `hmove`, `hbad` the handler that serves it on the
previous node. `ready` is `MarkReady`, which opens the HTTP handlers; it stands
for the service being reachable for training processes. Abstractions:

- Every file is saved once, a node has one worker, and a memory entry or a file
  is absent, torn or whole: what recovery can tell apart. The order of a save, a
  backup, a write and a deletion is that of `Lifecycle`, so a crash can fall
  between any two of their steps.
- A crash takes the node's training processes with it, and its peers see their
  connections to it end at once. The previous node's worker, if it was sending, goes
  on, or stays in the handshake for good (`wpc` "stuck"). What a handler for a
  crashed requester still had to send is dropped; a restarted node that overlaps with
  such a leftover handler is not modelled.
- A step of a worker that needs a node that is down is disabled; the code fails,
  sleeps and repeats, which changes nothing else. Failing database calls are left
  out here, they are the subject of `Lifecycle`.
- `handleBatchLoad` answers in one step, `backupEach` and the loads of one
  attempt in any order, one step per row (the code runs eight threads). The
  database returns rows in any order.
- A transfer of a re-backup ends, fails, or never returns (`hstuck`); its handler then
  waits for a result that does not come. A file is read from disk if there is memory for
  it; `nomem` records that a node had none, where `TryLoadFromFile` returns STATUS_OOM
  or `memfdCalloc` fails and the loop over the files ends.
- The sleep between attempts is not modelled, their number is: intervals of 1, 2,
  4 and 8 seconds give four attempts in the code, `RetryTimes` in the model.
- `SkipFirst`: a ring starts for the first time with bootstrap switched off
  (`CKPT_ENGINE_SKIP_BOOTSTRAP`), because otherwise it never gets ready (see
  Known limits).
- Bounds: `MaxCrashes`, `MaxFaults` (failed transfers and allocations, as far as
  `Faults` lists them) per behaviour.

### Memcpy

Memory is a function from addresses to cells: a cell names the byte of metadata,
the size field or the byte of a tensor it came from, so that a byte in the wrong
place is visible. A size field takes one cell instead of eight, a pinned buffer
has `BUFFER_SIZE` cells instead of 524288. A thread on host memory is one
`memcpy`; a thread on device memory loops over fetch and store of one block, and
the buffer it uses is a variable, since another thread could use it too. All
tensors of a call are in one kind of memory (the code asks for the last one).
Opening, mapping and its failures return before anything is copied.

### Messages, Transfer and Wire

`Messages` has a buffer as a sequence of typed items. `Get` past the end exits
the process (LOG_FATAL), under another type it yields bytes of something else.

In `Wire` a connection carries one operation: a backup, a backup of metadata only,
or a load. A stream is a sequence of cells: size of a message, body, address and
keys of the handshake, and the byte "Q" that ends it. `pc` has the place of client
and server thread, `sock` what each side has not read and whether the peer closed
or reset; `posted`, `landed`, `polled` count chunks of 1 GB. What the code does
with an error is modelled as it is:

- `Read` and `Write` return a negative number as an unsigned one, so the comparison
  with the expected size does not see it and the caller goes on: with an empty
  routine, or with a body of zeros, which decodes as success (`Zeroed`). A size that
  was never received asks for a huge allocation, and the process exits.
- `sock_sync_data` reads until all bytes are there. At the end of the stream it
  reads zero bytes for ever; when data comes in two parts, the second overwrites
  the front of the buffer (fault `split`).
- The send queue holds `RDMA_CQ_SIZE` requests, further ones fail to be posted.
- A card is taken when a communicator is made and given back when it is destroyed.

A message is written in one step: a reset may still cut the stream between size
and body. Writing to a closed connection is an error and not a signal, since the
HTTP library ignores SIGPIPE. Cards, queue pairs and the network are external.
`rdma_send`, `rdma_recv` and `post_receive` have no caller. The messages of batch
load and notify are modelled as requests in `Recovery`, not message by message.

### Loader

A rank asks for a file, `getMetadata` waits for bootstrap, reads the row, and
answers from `Storage`; a file of another node is put into `ongoing_files_` and
`req_ch_`, and the handler polls until the loader's one thread has read it. A read
that fails is given up, or leaves the thread in the handshake (`wpc` "stuck"). Then
the rank opens `/proc/pid/fd/n`, later, when the descriptor may have been closed or
used for another file: `fd` has the descriptors by number, and the environment
evicts and saves meanwhile. `evicted`, `failed`, `loads` are history. A failing
database call in `getMetadata` is an answer with an error; a failing load takes the
file out of `ongoing_files_`, but the ranks that poll do not ask again, and the next
load replaces the entry it left, whose descriptor stays open.

### Monitor

Reading `self_total_usage` and writing it back are two steps, the check in `enough`
is a third. `maps` has the mappings with their length, the size of the memfd and how
much is still mapped; `dying` are the detached threads of `memfdFree`. They use
references to the caller's metadata and to a map node: once it is erased, `Unmap`
chooses among what such a read can give (the old address, that of another entry,
any size, or an address that `munmap` rejects, which ends the process).
Sizes are words modulo `Word`. `seen` records which
irregular things have happened, so that each property says which of them it
tolerates. `Start` is the collecting thread that `main.cpp` starts.

### WorkQueue

`next_free_` and the due times of sleepers are kept relative to the present, so time
needs no bound. `claim_next` uses the system clock, `SetClock` sets it; a sleep
passes in real time. `max_permits_` is never set, so no permits are saved up, and
the claim is for one permit. `try_aquire` and `get_rate` have no caller. A handler
may ask for another round or not, freely.


## Runs

| Run | Instance | Shows |
|---|---|---|
| `life` | 2 nodes, 3 workers, 2 files, one of iteration 1 and one of 1 or 2, window 1, any one failure (a handshake without end and an exit of the next node included), fairness | all safety, action and liveness properties of files saved once |
| `single` | 1 node, 2 workers, one name saved 3 times with either iteration, disk failure | the branch without backup, re-saves over live entries: no key is lost |
| `channel` | 2 writers, 2 readers, capacity 2, closing, 4 elements, fairness | bounded FIFO; an open channel drains |
| `recovery` | 2 nodes, 3 files of node 0 in 2 iterations, window 1, 2 crashes anywhere, 1 failed allocation while files are read | what rows, memory and disk say of each other survives crashes; a retrieval from disk that finds every file, and memory for each, is complete |
| `bootstrap` | 2 nodes with a file each, 1 crash, 1 transfer that fails or never returns or 1 failed allocation, 2 attempts, fairness | a bootstrap that can be served ends, unless a transfer hangs |
| `memcpy` | tensors of 0 to 13 cells, blocks of 3, host and device memory | every cell ends in its place |
| `wire` | 2 connections on 2 cards, files of 1 and 2 chunks, send queue of 1, one failure of 8 kinds, fairness | success only for complete data; both ends stay in step; every operation ends but for two dead ends |
| `loader` | 2 ranks, a file kept here (own or backup) and a remote one, request channel of 1, one failing call (which may leave the loader in the handshake), fairness | remote files are read once, what is loaded is what was saved, ranks get answers |
| `monitor` | 2 threads, 2 files of sizes 1 and 2, capacity 3, words of 16, 4 operations | exact accounting, limit, mappings, outside the races the properties name |
| `workqueue` | 2 workers, 1 producer, 2 keys, channel of 2, a permit every 2 ticks, clock set once by 3, fairness | spacing of permits; queued keys are handled unless the operator jams |
| `stale_backup` | 2 nodes, one file saved twice | a statement of the API that the code does not keep |
| `not_fetched` | 2 nodes, one crash | the same of `bootstrap` |

Why the bounds are enough: a window of one with two iterations makes every save
of the second iteration evict the first; two workers at the owner can hold the
same key; a third at the next node receives evictions; one failure at any
operation reaches every error branch, and one of the owner's two workers that is
caught in a handshake leaves the other to go on. The file of iteration 1 only is the
victim, the other one saves beside it or opens the next iteration. Three saves of one
name reach a re-save during each state of the previous one. Two writers and two readers
with capacity two reach every combination of sleepers of both kinds. Two crashes reach a crash of
the node that just recovered, and of both neighbours of a backup (on a ring of
two the previous and the next node are the same node, which makes every pair of
roles meet); three files in two iterations reach an eviction with two victims cut
by a crash; f1 and f2, of the same owner and iteration, are interchangeable, and
`recovery` checks no liveness, so its symmetry is sound. Failed transfers are left to
`bootstrap`, in which both nodes own a file. Tensors of 0 to 13 cells
with blocks of 3 and 4 threads have every remainder of both divisions, and an even
and an odd number of full blocks.

In `wire` one connection carries any operation and the other a backup of metadata,
enough to compete for cards and for the server process, whose exit ends both; a
send queue of one instead of 100 makes a file of two chunks one too long. In
`loader` a channel of one instead of four is full as soon as two ranks ask; one
save per file is all that `LoadsIntact` speaks of. In `monitor` two threads reach
every lost update, four operations an allocation, a deletion, and a new
allocation beside a late unmapping; a word of 16 is more than all memory and small
enough to see a difference wrap around; files and threads are interchangeable, and
only invariants are checked. In `workqueue` three threads hold three permits, the
clock is set by more than an interval, and a channel of two with two workers can
jam.

`CHECK_DEADLOCK FALSE` everywhere but in `monitor`: saves, pushes and operations are
bounded, so a behaviour ends when the bound is reached; a dead end of a handshake
and a jam are stops of their own. The node of `monitor` comes to rest explicitly,
and its collecting thread never stops while the process runs.

Fairness: weak fairness of every server thread, since HTTP handlers, workers and
threads inside a channel operation run on threads of their own that nothing
stops (the waits of the code are polls). Training processes are not fair: a save
may stop anywhere, and nobody has to ask for a file. In `Recovery` workers,
bootstrap threads and handlers of a running server are fair; restarts, saves and
evictions are not. In `Wire` one weak fairness over all steps of threads and cards
is enough, because no operation goes round in circles; faults and new operations
are not owed. In `Loader` the loading thread and each handler are fair, in
`WorkQueue` each worker and producer, and time passes.

### Properties

- `NoLostWork`: a CACHED row always has its key queued or in a worker's hands (a worker
  that stays in a handshake keeps it).
- `OnceDurable`: the row of a file saved once tells the truth about memory,
  backup and disk (a node that exited has no memory).
- `AckedRecoverable`: an acknowledged save is complete in memory or on disk as long
  as its owner runs, also after its eviction.
- `IterationWindow`: limit, no duplicates, one evictor per node.
- `NoUseAfterFree`: a copy of a file saved once reads the entry it was started from
  (several nodes: a single one does not wait for CACHED files).
- `ForwardOnly`: rows of files saved once only move along the life cycle, except that
  a worker may call an evicted row BROKEN and a repeated eviction marks it again.
- `EvictionEnds`, `EventuallyPersistent`, `BackupReleased`: evictions release the
  lock, cached files reach the disk, evicted files leave both memories.
- `InOrder`, `Refinement`, `Drained` for the channel.
- `PersistentOnDisk`: a PERSISTENT row has a complete file, wherever nodes crash.
- `RecoveredIntact`: nothing torn comes back as a checkpoint after a restart.
- `ReadyHoldsBackups`: a node that is ready holds a complete backup of every file
  of its previous node that the rows call backed up.
- `WindowRebuilt`: the window lists every iteration the node holds, once, also while
  a restart rebuilds it; one restart keeps it within the limit (a second one may not,
  see Known limits).
- `RestoredFromDisk`: if every live row has its file and there is memory for each,
  recovery from disk restores all of them.
- `BootstrapServed`: the re-backup, and with it the bootstrap, ends as long as the
  previous node holds exactly the backed-up files of its rows.
- `WritesInPlace`, `CopyComplete` for the copying threads.
- `Refinement` of `Wire`: the caller is told of success, and the server queues the
  key, only for a request the server agreed to and data that has moved completely,
  whatever is cut, lost or refused.
- `InStep`: the server acts on the routine and the request that were sent, and a
  client that moves data of a load on the response that was meant for it.
- `DeadEndNeedsFault`, `Settles`: every operation returns and the server frees its
  thread, except in two dead ends of the handshake, which need a failure first.
- `NicBalanced`: the busy counts of the cards are those of the communicators.
- `LoadedOnce`: a remote file is read from its owner once, however many ranks ask.
- `LoadsIntact`: a file saved once and not evicted is loaded as it was saved.
- `NoDescriptorLost`: open descriptors belong to entries.
- `Answered`: every rank that asks gets an answer.
- `UsageExact`, `WithinLimit`, `StoredIsMapped`: the count of memory is right, the
  user's limit is kept, what the storage lists is mapped.
- `Paced`: permits are an interval apart.
- `Served`: a queued key is handled.

What the properties exclude, because the code does not give it:

- `EvictionEnds` and `EventuallyPersistent`: files abandoned after a failed write to
  disk of a BACKED_UP file, since `Reconcile` drops their key (coordinator.cpp 303)
  although the comment in coordinator.h 38 promises that it is queued again. Files in
  the hands of a worker that stays in a handshake, and files of two nodes one of which
  exited or has no worker left (`Stuck`, `Halted`); `BackupReleased` excepts the latter.
- `OnceDurable`, `AckedRecoverable`: the memory of a node that exited.
- `BootstrapServed`: a previous node that holds anything else than its backed-up files
  (`Serviceable`; so nothing is promised beside an OBSOLESCENT row, which makes the
  counts of `handleNotifyBackup` differ or every re-backup fail), and a transfer that
  never returns (`BackupStuck`).
- `RestoredFromDisk`: a retrieval in which an allocation failed.
- `CopyComplete`: device tensors with an odd number of full blocks.
- `LoadsIntact`: a backup read while its row still says CACHED, files saved more
  than once or evicted meanwhile.
- `NoDescriptorLost`, `Answered`: files of which a remote load has failed: exactly the
  descriptors that such a load leaves open, and the ranks that nobody answers.
  `Answered` also excepts ranks that wait for a remote file when the loader's only
  thread stays in a handshake.
- `UsageExact`, `WithinLimit`, `StoredIsMapped`: behaviours in which two threads
  updated the usage at once, an unmapping thread came late, or a file name changed
  its size; each property names those it cannot tolerate, and only those. These are
  the races and failures of the code that `PROJECT.json` lists: the properties do not
  catch them, they state that nothing else goes wrong.
- `Paced`: behaviours in which the clock was set forward. `Served`: a jam.

## Findings

Two statements of comments do not hold; `PROJECT.json` quotes them.

- A re-save during a backup leaves a row that claims a backup the next node does
  not have (`stale_backup`).
- A restarted node asks itself, not the next node, for its backed-up files, and
  recovers only what is on disk (`not_fetched`).

### Known limits

Seen while modelling, without a statement in the repository that says otherwise:

- On a single node an eviction can wait for ever: it does not wait for a CACHED file
  (http_service_impl.h 349), and a worker that is writing the file to disk then
  overwrites OBSOLESCENT, so that nobody deletes the entry the handler waits for.
- `notify_one` with one condition variable for readers and writers can wake a
  writer when a reader is meant (channel.h 199). With more writers than capacity
  all threads can end asleep; the loader's channel has 4 places for 8 ranks.
- A ring that starts for the first time with bootstrap on never becomes ready:
  `handleNotifyBackup` does not answer when its node holds less than its rows say
  (server.cpp 349).
- `transom_memcpy` leaves out a block of a device tensor with an odd number of full
  blocks and reports success (transom_memcpy.cpp 163).
- With one file name for several iterations the window may keep an oldest iteration
  without rows, and every later iteration is refused.
- `BatchLoadFromFileSystem` lists the iteration of every live row. After a first
  rebuild that ended at a failing load, saves take the places of the iterations that
  are not listed; a second restart then lists them all, more than the limit.
- A handshake that loses its peer spins at the end of the stream or waits for ever
  (rdma_communicator.cpp 610). It is entered after a positive response only, so a
  server that then fails to allocate (server.cpp 132) leaves its client there, or takes
  the handshake for the size of a routine and exits. Nothing repeats such a transfer:
  the worker keeps its key, the eviction that waits for the file keeps the
  admission lock, a re-backup has no answer, and the loader takes no request any more.
- After a failed remote load the waiting ranks are answered only if another rank asks
  for the file, and the memfd of the attempt stays open.
- A descriptor number that a rank was told may belong to another file by the time it
  is opened, if the file is evicted in between.
- Setting the clock forward bunches permits; when the queue is full and every worker
  wants to queue a key again, the operator stops.
- The count of memory drifts when updates overlap or an allocation fails, and wraps
  around below zero, after which everything is admitted.


## Proofs

What is proved holds for every value of the constants: any ring, any number of files,
threads, connections and failures. Every invariant that a passing run checks is also a
theorem, and so are both refinements and every action property; what is left to TLC
alone is liveness.

| Property | Theorem | Inductive invariant |
|---|---|---|
| `Lifecycle` `TypeOK` | `LifecycleProofs` `TypeCorrect` | `TypeInv` |
| `IterationWindow` | `LifecycleProofs` `WindowCorrect` | `WindowInv` |
| `NoLostWork` | `LifecycleProofs` `NoLostWorkCorrect` | with `TypeInv` |
| `OnceDurable` | `LifecycleProofs` `OnceDurableCorrect` | `OnceInv` |
| `AckedRecoverable`, `NoUseAfterFree`, `ForwardOnly` | `LifecycleProofs`, under `LockStep` | `OnceInv`, `LockStepInv` |
| `Channel` `InOrder`, `TypeOK`, `Refinement` | `ChannelProofs` | `ChannelInv`, `Waits` |
| `Recovery` `TypeOK`, `PersistentOnDisk`, `RecoveredIntact` | `RecoveryProofs` | `TypeInv`, `SafeInv` |
| `ReadyHoldsBackups` | `RecoveryProofs` `ReadyCorrect` | `BootInv`, `BackInv` |
| `WindowRebuilt`, `RestoredFromDisk` | `RecoveryProofs` | `BootInv`, `WindowInv` |
| `Wire` `InStep`, `TypeOK`, `Refinement` | `WireProofs` | `WireInv` |
| `NicBalanced` | `WireProofs` `NicBalancedCorrect` | `NicInv` |
| `DeadEndNeedsFault` | `WireProofs` `DeadEndCorrect` | `WireInv`, `CleanInv` |
| `LoadedOnce` | `LoaderProofs` `LoadedOnceCorrect` | `OnceInv` |
| `NoDescriptorLost`, `LoadsIntact` | `LoaderProofs` | `FdInv`, `IntactInv` |
| `Monitor` `TypeOK`, `StoredIsMapped` | `MonitorProofs` | `ShapeInv`, `StoredInv` |
| `UsageExact`, `WithinLimit` | `MonitorProofs` `UsageCorrect`, `LimitCorrect` | `AccountInv` |
| `Memcpy` `WritesInPlace`, `CopyComplete` | `MemcpyProofs` `PlaceCorrect`, `CompleteCorrect` | `CopyInv` |
| `Paced` | `WorkQueueProofs` `PacedCorrect` | with `Slots` |

### Lifecycle

`TypeOK` alone is not inductive because an action copies `vec[n][evictee[n]]` or
uses `wkey[w]`, so `HandlerShape` (who evicts has chosen rows of its node, a
victim once it waits) and `WorkerShape` (a busy worker has a key, a worker past
its load has a row) are part of `TypeInv`. `IterationWindow` needs the fact that a
handler between admission and the end of its eviction holds the lock of its node and
that the new iteration is not in the window, since `EvictDone` pushes without
looking again. `NoLostWork` is inductive together with the type invariant: the
proof follows the key through queue, load and re-queue, and shows that whoever
drops a key has seen, or written, a state other than CACHED.

`OnceDurable` rests on one fact that the code nowhere states: while a file saved once
is not evicted, its node has at most one key for it (`OneToken`), queued or in the
hands of one worker. So a worker past its load acts on the state that the row still
has (`WorkerTrue`), and what it writes is true of what it copied; `ClientKnows` says
how far the save has come, `RowTrue` what the row claims, `MarkedFirst` that only a
marked file is queued for deletion.

An eviction breaks the token: the handler queues the key a second time, and the next
node gets one. The three properties that look past the eviction hold when ranks save in
lock step, and the theorems assume `LockStep`, as run `life` does. `LockStepInv` says
that saves under way are of one iteration (`OneIteration`), so an eviction never
chooses a file that is being saved (`EvictsOthers`, `RowIteration`), that the rows the
handler loaded have at most moved towards the disk (`VecTrue`), which is why the handler
waits for the workers that still copy, and that after an eviction nobody copies the
file any more and its data are on disk if it was acknowledged (`EvictedInv`).

A worker that is caught in a handshake keeps its key and the state it loaded, so it is
one of the workers of `OneToken` and `WorkerTrue`. An exited node takes no step and the
memory variables keep its last contents; the invariants hold of them without
exception, and the properties, which except exited nodes, follow. A step is one of
handler, client or worker, or changes only `exited`, or releases a stuck worker
(`Steps`).

### Channel

History and queue agree (`InOrder`), and each step simulates `Fifo`: the strengthening
is that a writer at its lock holds an element and that the queue is within capacity.
The type invariant says who holds the mutex and who waits on the condition variable;
`Waits` says that the condition variable holds exactly the readers that sleep, and that
the mutex is held exactly by the reader between its predicate and its sleep.

### Memcpy

The address of a tensor is a sum over the tensors before it, in the model a recursive
function. That it grows by one size field and one tensor per step (`StartNext`), and so
that places do not overlap and the last one ends the memory (`StartOrder`, `ShmEnd`,
`OneOwner`), is proved by induction over the tensors: there is no least number for which it
fails. `CopyInv` then says that the caller's offset is the
place of the next tensor (`Walk`), that what each thread still has to write fits where it
will write it, and that a full pinned buffer holds the next block of the one thread that
uses it (`Shaped`, `Pins`); `WritesInPlace` follows from every store. `Covered` is what
`CopyComplete` needs: every address is written, in the hands of a thread, or belongs to a
tensor not reached yet. It is the only part that depends on an even number of blocks:
each of the two threads of a tensor takes half of them, rounded down, and the caller's
rest begins behind all of them. `RoundKeeps` states what a round of the loop has to do
for both kinds of memory, `DeviceNew` and `HostNew` that each does it.

### Recovery

`TypeInv` is strengthened by `WorkerHasKey` (a busy worker has a key, which its steps
use as an index). `PersistentOnDisk` and `RecoveredIntact` are not inductive: that
UpdateState may write PERSISTENT follows from what the worker did two steps earlier.
`SafeInv` adds the missing links. `OwnIntact`: a node's own file is torn in its memory
only while training writes it. `WorkerKnows`: between its load and its update a worker's
row still has the state it loaded, the file it is about to write is whole in memory, and
the one it is about to record is whole on disk; a crash of the node resets the worker,
and no other step changes a row while a worker acts on it. `HandlerKnows`: a re-backup
handler touches only entries of the previous node, so it never tears an owner's copy.

`BootInv` is the order of a boot: a node is quiet until its retrieval has ended, and
ready only when both threads have. For `ReadyHoldsBackups`, `BackInv` says of every
file whose owner counts it as backed up (or is about to say so) that the next node has
been started, and has the whole file as soon as it has nothing left to ask for
(`Settled`): its re-backup ended, or the handler that serves it is past this row and
has seen no error. The ring has to be turned around for this, `PrevNode(NextNode(n)) = n`.
`WindowInv` says that until a retrieval has ended the window lists only iterations of
live rows, and that after at most one crash these are no more than the limit (`Window`);
that a live row not yet read is still in hand, unless some file is torn or there was no
memory for one (`Reading`);
and that what an owner holds in memory has a row and, unless it is being evicted, is
listed (`Entry`). `RestoredFromDisk`, an action property, follows
from `Reading`: the last file is read when none is in hand.

### Wire

`WireInv` is a conjunction over connections. `Places`: which places of the two threads
go together and what each has decoded. `Ends`: a connection ends for both sides at
once. `Arrives`: what the server has not read of the request is a suffix of it, cut
anywhere. `Follows`: behind it come the three cells of the client's handshake, less
what the server has read, and a message only when the client has finished; as the
server never takes one of them for a routine, it stays in step even after a handshake
that failed halfway. `Answers`: the response, cut anywhere. `Data`: chunks are polled,
moved, posted in this order, and move only when both queue pairs know each other. That
decoding inverts encoding (`DecodeRequest`, `DecodeResponse`), and what a body of zeros
decodes to (`DecodeZeros`), are lemmas about `Messages`.

The simulation of `Transfer` maps `Begin` to `Request`, a positive `Respond` to
`Accept`, `Land` to `Move`, `AddKey` to `Queue`, `Finish` and the positive answer to a
backup of metadata to `Confirm`, a `Return` with an error to `Fail`; everything else
stutters. `NicInv` counts the connections that hold a card; the proof needs that they
are finitely many, which follows because each change concerns one connection.

`DeadEndNeedsFault` needs an invariant on behaviours without a failure. `CleanInv`:
the server runs and no stream ends before its client returned (`CleanEnds`); the number
of cells on the client's stream is the number that the server's handshake has written
less the number that the client's has read (`CleanClient`); a client that returned has
left the server everything its handshake still waits for (`CleanServer`). So both
parts of the connection data are there when `sock_sync_data` finds anything
(`SyncFinds`), and a side that waits for "Q" gets it.

### Loader

For `LoadedOnce` the loader's thread works only on a file listed as loading
(`Working`), and the count of loads is one exactly for files listed as ready
(`Counted`): no handler lists a file that is already listed, and nothing leaves
"ready". `FdInv` adds which descriptor belongs to which entry (`MemInv`) and which
entries of remote files there are (`RemoteInv`). `IntactInv` follows a file saved once:
its row only moves on (`RowTrue`), so what a rank or the loader saw complete is
complete (`Requests`), and the descriptor a rank was told is still that of its file
when it is opened (`RankInv`). The environment takes the lowest free descriptor of
`FdNumbers`; there is always one, because every save and every failed load takes at
most one.

### Monitor

`ShapeInv` has the types and who is inside the lock of `Storage` (`Locked`), which
addresses the storage and its callers hold (`Stored`, `Brought`). `StoredInv` adds the
links to what is mapped, as long as none of the two irregular things has happened that the
property excludes: a name has one size (`OneSize`), a detached thread whose map node
still stands was started by the thread in the lock, for the file it deletes (`Undertaken`), an address in the storage or in a caller's hands is mapped
in full (`Whole`). An address is never given out twice; `MaxOps` of them suffice.

`UsageExact` and `WithinLimit` are about sums, which are folds over finite sets: what a
sum does when one summand changes (`SumChange`) is proved by induction on subsets, with
the set of the subsets that have the property in place of a predicate, and from the fact
that strict inclusion of subsets of a finite set is well founded. `AccountInv` is
inductive. `ReadIsUsage`: unless updates overlapped, who has read the count and not
yet written it back is alone, and what it read is still the count; so a write adds or
takes one mapping. `Held`: who deletes an entry in the lock finds it there, so nothing
is taken off twice. `UsageExact` holds modulo the word, because a subtraction of more
than the count wraps around; taking off and adding the same amount agree there whatever
was in between. `Opens`: the memfd of a mapping in use has its size. `LimitInv`: the
memory in use and what is about to be allocated is at most the count (`Covered`), and
who has passed the check of `enough` still fits (`Admission`).

### WorkQueue

`Paced` speaks of permits that are still due; a claim at this moment also has to
keep its distance from those that are late by less than an interval, so `Slots`
says of every sleeper that its permit lies an interval before the next free one.
Ticks and setting the clock back preserve it.

### Assumptions

Only the named `ASSUME`s on constants (`ConstantsAssumption`, `ChannelAssumption`,
`RecoveryAssumption`, `WireAssumption`, `LoaderAssumption`, `MonitorAssumption`,
`MemcpyAssumption`, `WorkQueueAssumption`), which TLC evaluates on every run, and `LockStep` in the three
theorems of `LifecycleProofs` that say so. `Monitor` assumes finitely many files and
threads, since its properties sum over them.

### Only model-checked

- Liveness (`EvictionEnds`, `EventuallyPersistent`, `BackupReleased`, `Drained`,
  `BootstrapServed`, `Settles`, `Answered`, `Served`): out of the prover's reach under
  fairness.

## Plan

1. A specification of the life cycle of one file that `Lifecycle` and `Recovery` both
   implement, stated as `PROPERTY` of `life` and `recovery` first.
2. `LockStep` weakened to what the proofs use of it, `OneIteration`.

## Not modelled

- Logging, the command line tool, SQL text, parsing of the environment, host name
  look-up: input and output without state of their own.
- Verbs calls beyond success or failure; serialisation of tensors.
- Code without a caller in the server: `rdma_send`, `rdma_recv`, `post_receive`, base64,
  `try_aquire`, `get_rate`, `DeleteByFileName`.
- `getAllMetadata` and `getAllStorage`, which only read.
- The messages of batch load and notify, byte by byte; handlers that outlive the
  connection of a restarted node; the lifetime of the local channels of a re-backup.
