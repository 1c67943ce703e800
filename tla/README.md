# A TLA+ verification of tinySTM with early aborts

The repository holds a fork of tinySTM, a word-based software transactional
memory in C (`src/tinySTM`), extended with *early aborts*: a kernel module
(`src/timestretch`) shortens the timer period and sends extra ticks to threads
that run transactions, so that a transaction whose reads have been overwritten
is found out and rolled back before it calls the library again. A TPC-C server
and its client (`src/TPCC`) are the main benchmark.

This directory contains TLA+ modules of the whole system, TLC configurations
for small instances and proofs checked by TLAPS. `PROJECT.json` maps
definitions to source lines and lists runs, mutants, findings, hazards and
theorems.

## Inventory

| component | state | operations | what makes it hard | correct if | modelled |
|---|---|---|---|---|---|
| STM core, write-back with commit-time locking (`stm.c`, the default `DESIGN`) | global clock, lock array, memory; per thread a descriptor (status, nesting, attributes, snapshot `start..end`, read set, write set) | start, load, store, commit, abort, extend, validate, set_extension, unit load/store | every shared access interleaves with those of the other threads; commits fail halfway; several words share a lock; the clock rolls over | opacity, serializable commits, no leaked or stolen lock, versions cover writes | `StmCTL` |
| Encounter-time locking, write-through (`DESIGN`) | as above, with locks held during execution, dirty memory, incarnation numbers | as above, growth of the write set | writers meet readers; undo; write sets move while locks point into them | as above | `StmETL` |
| Contention managers, visible reads | priorities, killed status | kill, wait, steal a lock | one transaction aborts another | a killed transaction neither commits nor keeps locks | `StmETL` |
| Early abort (`stm.c`, `stm_ea.h`, `stm_et_callback.S`) | control buffer `tx_on`, `standing`, `recently_validated`, `opt_clock` | tick delivered in application code, tick left standing in library code, revalidation, the moment of the next one | the snapshot moves at points the program did not choose | the same opacity; a doomed transaction does not run for ever | `StmCTL` (`EarlyAbort = TRUE`), `Pacing` |
| Quiescence (`stm_quiesce*`) | `quiesce`, `threads`, `threads_count`, mutex, condition variable | register, exit, barrier, serial quiesce, check, release | condition variable, spurious wake-ups, exits during a barrier, two users of one flag | clock reset only when everybody is blocked; nobody sleeps for ever; a serial transaction is alone | `Quiesce`; as one step in `StmCTL` |
| Irrevocable transactions (`IRREVOCABLE_ENABLED`) | global flag, `tx->irrevocable` | request, acquire after restart, give up | the flag survives a rollback | at most one holder | serial mode in `Quiesce` |
| Epoch collector (`gc.c`) | slots, regions of blocks | register, set epoch, free, clean up, reset, exit | the minimum is read slot by slot while threads come and go | no block freed while a transaction can still reach it, none lost or freed twice | `Gc` |
| Memory, callbacks, undo log (`mod_mem.c`, `mod_cb.c`, `mod_log.c`) | lists hooked to the descriptor | allocate, free, log, commit and abort callbacks | order, restarts, what an attempt leaves to the next | aborted allocations are freed once, committed frees are done once, private data restored | `TxServices` |
| Typed wrappers (`wrappers.c`) | none | split an access into masked words | boundaries | equals the byte-wise definition | `Wrappers` |
| Statistics (`mod_stats.c`, `stm_stats.h`) | counters per thread and global, list of latencies | count, sample, merge at exit | merge without a lock | totals are those of the threads | `Statistics` |
| Model-based revalidation (`mb-hash-table.c`, `sliding-window.h`, `stm_ea.h`) | lock-free table of plans, pools of entries, windows, packed time stamps | look up, allocate, link, sample | compare-and-swap on shared lists | no entry lost, each answer belongs to its question | `MbTable`, `Pacing`, `MbSnapshot` |
| timestretch kernel module | patched kernel code, slots of threads, buffers and callbacks, per-CPU flags and countdowns | load, unload, ioctl, timer interrupt, scheduler hook | interrupts against ioctls, other CPUs, unloading | a tick only reaches application code of a transaction; the kernel keeps its time; unloading restores everything | `TimeStretch` |
| Thread pools and barriers (`TPCC/lib/thread.c`, `barrier.h`) | counters, mutexes, conditions | barrier, start, shutdown | reuse of a barrier by fast threads | rounds do not mix, the pool ends | `Barriers` |
| Data structures (`TPCC/lib`) | red-black and AVL tree, hash table, list, queue, vector, heap, bitmap, pool | insert, remove, look up, iterate, grow | rebalancing, boundaries | each is the map, sequence or set it stands for | `RbTree`, `AvlTree`, `HashTable`, `Buffers`, `Containers` |
| TPC-C server | task pool, priority lists with locks or lock-free (NBB), bitmap, I/O threads, workers | receive, enqueue, dequeue, execute, recycle, shut down | counters and bits updated after the lists, delayed recycling | every task has one owner, lists are FIFO, the run ends | `TaskServer` |
| TPC-C client | parent, forked processes, shared connections | handshake, connect, fork, send | partial sends on a shared connection | the server gets the frames announced, whole | `Client` |
| TPC-C tables and transactions (`manager.c`) | warehouse, districts, customers, orders, stock | five profiles, population | deliveries interleave | money, orders and stock agree | `Tpcc` |
| Adaptive tuning (`mod_adaptive.c`), libfann, atomic_ops | - | - | floating point and measurement; third party | - | no |

Interaction: application code calls the STM, which shares the clock, the lock
array and memory between threads; the kernel module reads the control buffer
and diverts a thread to `stm_revalidate`, which calls `stm_extend`; the STM
calls the quiescence functions when the clock is exhausted or for a serial
transaction; modules, statistics and the collector are called from start,
commit and abort; a roll-over resets the collector. The TPC-C workers run
transactions on tables made of the data structures.

## Modules

| module | contents |
|---|---|
| `StmCTL` | the default transactional core, about one action per access to a shared word |
| `StmETL` | the two encounter-time designs with their contention managers |
| `OpaqueTM` | abstract specification: a history of committed writes and transactions that observe it at one timestamp |
| `StmRefinesOpaque` | the refinement mapping from `StmCTL` to `OpaqueTM` (that of `StmETL` is in `StmETL`) |
| `Quiesce` | barrier, registration, serial irrevocable mode |
| `Gc` | the epoch collector and those who hand it blocks |
| `TxServices`, `Wrappers` | what the modules add to a transaction; typed accesses |
| `Statistics`, `MbTable`, `Pacing`, `MbSnapshot` | counters; table, pacing and time stamps of the model-based build |
| `TimeStretch` | kernel module, its library and its users |
| `Barriers` | thread pools |
| `RbTree`, `AvlTree`, `HashTable`, `Buffers`, `Containers` | data structures as pure operators, and the machine that calls them |
| `TaskServer`, `Client`, `Tpcc` | the benchmark |
| `MCStmCTL`, `MCClients`, `MCStmETL`, `MCWaiting`, `MCServices`, `MCServer` | instances for TLC |
| `StmCTLProofs`, `StmCTLOpacity` | the default core, for all constants: locks, versions and memory; opacity and refinement |
| `StmETLProofs`, `StmETLReads`, `StmETLSerial` | the encounter-time designs and their contention managers, for all constants: locks and memory; what transactions read; serializability |
| `PlatformProofs` | quiescence, kernel module, spinning barrier and client, for all constants |
| `GcProofs`, `PacingProofs` | the collector; the pacing of revalidations, for all constants |

`MCWaiting`, `MCServices` and `MCServer` put components that share no state
into one run: a variable `part`, fixed in the initial state, says which of them
moves. `MCClients` does the same for several applications of the core.

### StmCTL

*State.* `clock`, `locks` and `mem` are the shared words. A lock word is a
version or an owner with the index of the write-set entry it points to
(`LOCK_SET_ADDR_WRITE`), or `LOCK_UNIT`. The descriptor fields keep their names
(`status`, `nesting`, `attr`, `ro`, `can_extend`, `start`, `end`, `r_set`,
`w_set`, `nb_acquired`). `pc` and `arg`, `l`, `value`, `i`, `todo`, `now`, `ts`,
`cont` are the position and the locals of the library call under way.
`hist`, `obs` and `snap` are history variables, never read by a guard: the
committed writes with their timestamps, what the running transaction has
loaded, and the timestamp it observes.

*Actions.* One per access to a lock, a memory word or the clock together with
the thread-local code up to the next one. Load: `stm_load`, `ReadLock`,
`ReadValue`, `ReadLockSame`/`ReadLockChanged`, and when the version is too new
`ReadTooNew`, `stm_extend`, `stm_validate`, `ExtendOk`, `ReadRecheck`. Store:
`stm_store`, `stm_write`. Commit: `stm_commit`, `CommitAcquire` (from the last
entry to the first), `CommitClock`, `stm_validate`, `CommitValid`, `CommitStore` and
`CommitRelease` per entry, `CommitEnd`. Abort: `RollbackRelease`, `RollbackEnd`,
`stm_prepare`. Unit operations: `stm_unit_load` ..., `UnitLock`, `UnitStore`,
`UnitClock`, `UnitRelease`. Ticks: `TickRecentlyValidated`, `TickDeliver`,
`TickStanding`.

*Abstractions.* A word is a function from a few parts to values; masks are sets
of parts. Read and write sets never run out of room (the code reallocates them;
for the design in which that matters it is in `StmETL`). The read set is a set:
the code may hold one lock twice, which validation treats alike. Memory is
sequentially consistent: the code uses acquire/release operations or full
barriers at the accesses that are separate actions, and the target (x86-64)
reorders only stores with later loads. Debug output and the `EA_SIMULATE_*`
instrumentation are left out. Early-abort runs start only transactions that
retry; the path of `stm_rollback` that returns through the callback's stack
without a retry is not modelled.

### StmETL

The same granularity. `build` fixes the compile-time options and the
application: design, contention manager and policy, threshold of visible reads,
lock assignment, room of the write set, bounds. In `WRITE_BACK_ETL` an owned
lock points to the first write-set entry of a list of those it covers; in
`WRITE_THROUGH` stores go to memory and the write set is the undo log, and an
undone write leaves a new incarnation number. `CM_MODULAR` may kill the owner
and steal its locks, also from a reader that made itself visible. Nesting,
`no_retry`, unit operations and ticks do not depend on the design and are in
`StmCTL` only.

### Quiesce

A section under `quiesce_mutex` is one step; `stm_quiesce` keeps the mutex
until the serial transaction ends. A transaction is reduced to its status and
its clock increments. A sleeping thread is in `waiting`; signal, broadcast and
spurious wake-ups remove it, after which `BarrierWake` runs the loop again. A
thread registers once and may exit whenever it is idle. Irrevocability is
always requested in serial mode.

### Gc

`slots` and `nb_active` are `gc_threads`; `th` has each thread's place in
`gc_init_thread`, `gc_free`, `gc_compute_min` (`ScanUsed`, `ScanTs`: one word
of one slot per step), `gc_cleanup_thread` (`CleanBlocks`, `UnlinkRegion`),
`gc_exit_thread`, and its registers. The users are a shared structure with one
block (`root`) that update transactions replace (`Unlink`, with the commit
callback of `mod_mem`), the growth of a write set (`Grow`), the buffers of an
exiting thread, and `CM_MODULAR`'s pointers into another transaction's write
set (`Peek`). `use` says which of them a program combines.

### TxServices and Wrappers

One thread runs attempts that call `stm_malloc`, `stm_free`, the callbacks, the
log and the typed stores a few times and then commit, abort and retry, or give
up; between two transactions the program may write the data it logs. `ghost` is
what the attempt should amount to; blocks are counted so that a double free
shows. The log keeps its entries after an abort, and an entry keeps as many
bits as the code's union does, so stale entries are applied and wide values
truncated in the model too. What the code promises all the same is `UndoExact`
(data whose value was not truncated and that no stale entry names are restored,
however often they were logged) and `HeapBalanced`; what it does not
(`UndoRestores`, `CopiesAccounted`) is among the observations. The wrappers are operators from memory (bytes) and word size
to memory, the code's first bytes, full words and last bytes as `Pieces`.

### Statistics, MbTable, Pacing, MbSnapshot

`Statistics`: each thread counts alone; the merge into `mod_stats_global` is
one step per word read or written without a lock. `MbTable`: one step per
compare-and-swap or shared load of `hashT_get`, the pool allocation and the
try-lock included; keys are rounded and indexed as in the code. `Pacing`: one
thread, its control buffer, windows and bitmap, with a time stamp counter that
advances arbitrarily. `MbSnapshot`: the packed time stamps of the MB build with
loads and commits as single steps.

### TimeStretch

Per CPU: `timer`, `stretch_flag`, `overticks`, the running thread `cur` and the
state of the scheduler hook; per thread its stage in `stm_init_thread`,
transactions and `stm_exit_thread`; the module: device, registration slots,
the kernel code `text` with `scheduler_patch`'s overwriting of bytes, and the
job (release, cleanup) under way. Sections with interrupts off and the timer
handler are one step; interrupts fall between any two others.

### Barriers, containers, server, client, tables

`Barriers`: one step per section under a mutex, explicit mutexes where two are
held. `Containers`: one step per call, since a call runs inside a transaction;
the structures themselves are pure operators with explicit heaps, so that a
leaked or dangling node shows. `TaskServer`: one step per shared word or lock
of insertion, removal, recycling, statistics and shutdown, for both builds of
the lists. `Client`: processes, connections, frames sent in one or two parts,
calls that may fail. `Tpcc`: one transaction per step; a delivery is one
transaction per district. Sums of money are floats in the code. `Float` rounds
every addition to the nearest number with a significand of `FloatBits` bits, 24
in the code; the client's payments are whole (`Client.c:104-105` divides a `long`
by 100, so they are 1 to 4999), hence units below 1 do not occur in the year-to-date
sums. `RowWarehouses` are the numbers in the initial
new-order rows: 0 is what `neworder.c:59` writes; 1, the warehouse's own number,
is included because with 0 no delivery ever does anything (see the
observations).

## Runs

| run | instance | checks |
|---|---|---|
| `ctl_updates` | write skew in transactions nested twice; loads, stores, unit operations and `stm_set_extension` on one word | `TypeOK`, `CommitSerializable`, `LockOwnership`, `VersionsCoverWrites`, `UnitLoadAtomic`, `Refinement` |
| `ctl_readers` | a reader of two words, read-only or not, with and without ticks, against a writer of both; masked stores of two words under one lock without retry | `Opacity`, `MemoryCommitted` |
| `ea_live` | one word, ticks, fairness | `ClockOvershoot`, `DoomedAborted`, `LocksReleased` |
| `etl_designs` | eleven builds: both designs with readers, stripes and growth; five policies that kill; visible reads | `LocksCover`, `EtlSerializable`, `RepeatableReads`, `EtlRefinement` |
| `waiting` | quiescence barrier and serial mode with three threads; kernel module with two CPUs; pools of up to four threads; fairness | `CountsThreads`, `RolloverAlone`, `IrrevocableExclusive`, `BarrierOpens`; `KernelKeepsTime`, `UnloadRestores`, `CallbackInApp`, `StretchingEnds`; `RoundsApart`, `PoolsEnd` |
| `services` | collector, services of a transaction, containers, tables, MB table, pacing, statistics | `CollectorSafe`, `AttemptExact`, `StructuresBehave`, `StructuresSound`, `TablesConsistent`, `TableSound`, `PacingExact`, `PeriodsWithinAttempt`, `StatisticsExact` |
| `server` | seven server set-ups with either kind of list, six client loads; fairness | `OneOwner`, `BitmapTruthful`, `CleanRun`, `ListsAreFifo`, `StreamsWhole`, `ProgramsEnd` |
| `ea_read_only` (violation) | read-only reader with ticks | `Opacity` |
| `barrier_lost_wakeup` (violation) | two threads, serial mode, fairness | `BarrierReleased` |
| `etl_growth` (violation) | write set that grows with two words under one lock | `RepeatableReads` |
| `mb_snapshot` (violation) | MB build, two threads | `LoadsConsistent` |
| `server_workers` (violation) | two workers on a list with locks | `TaskFindable` |

*Bounds.* Two threads are enough for every conflict of the core protocols,
which is between a reader or writer and one committer at a time; the barrier
needs three so that somebody waits, somebody leaves and somebody still runs.
`VERSION_MAX` is 1 or 2 (3 in `mb_snapshot`), so that several commits and several roll-overs happen in
every behaviour; roll-over also makes the core's state spaces finite without
any other bound on time. Stored values identify their writer. `StmETL` bounds
the calls of a transaction (`MaxCalls`). The collector has two threads, two
slots, five blocks and clock values up to 3; this is enough for regions of
different epochs, a slot inherited from a thread that left, and a roll-over.
The red-black tree draws from ten keys, the fewest that lead to a black tree of
seven nodes, whose deletion carries the repair past a black parent that is not
the root; after a call with any value it goes on with those of `RbVals`. The
AVL tree has seven keys, which reaches every rotation; the others hold up to
five items; pools and windows have two entries; server and client have two of
each kind of thread and up to three requests. Lists with locks have one worker in `server`, as two fail (`server_workers`).
`SCALE` is 2. `MaxReloads` = 1 lets a countdown of the CPU that is `Watched` start
anew once before its handler runs, so that the interrupts it misses reach twice
`SCALE`; the CPUs are interchangeable and one stands for all. Of the tables two
districts of two customers, an item and two delivering workers are left.
`FloatBits` is 7: sums are exact up to 127, and of `MaxPayments` = 3 payments of 25
the first two keep `W_YTD` (60 at first) below that, the third takes it beyond
while the sums of the districts stay exact. The programs of the services make
up to four calls in up to two attempts.

*Views.* `LiveView`, `ClientsView` and `SnapView` leave out descriptor fields
that are overwritten before anything reads them, `PartView` the parts that do
not run, such registers of the collector's threads, and the names of the
collector's blocks, of the delivering workers, of the counting threads and of
the profiles. Runs with liveness properties use neither view nor
symmetry.

*Fairness.* In `StmCTL`, threads inside the library keep running and the timer
keeps ticking (`EA_STUBBORN` rearms it unconditionally); nothing is assumed of
the application. In `Quiesce` the application is assumed to go on as well: the
barrier waits for every registered thread, also for an idle one, until it
starts a transaction or exits, so without that it need never open. In
`TimeStretch` timers fire, the delay of the unloading ends, calls to other CPUs
are carried out and a hook that has begun ends. Pools, server and client: the
scheduler runs every thread and process. Weak fairness is assumed throughout;
in particular not that a thread obtains a lock that is only free now and then,
so the server's liveness is claimed for the lock-free lists only. The client's
part of `ProgramsEnd` leaves out the clients that lost a send under
`SYNCH_SENDER` (`LockKept`): those spin for ever, as the observations say, and
TLC refutes the property without the exclusion.

*Deadlock* is not checked in `services` and `server`, where programs end and
bounds stop others. Everywhere else the system must always have a step.

### What the violations show

- `ea_read_only`. A tick makes `stm_load`, `stm_write` or the callback call
  `stm_extend` on a read-only transaction. Read-only transactions keep no read
  set, so validation succeeds trivially and `end` moves beyond a commit that
  changed an earlier read; the next load returns a value of the new state.
  `stm_read_invisible` itself refuses to extend them.
- `barrier_lost_wakeup`. A serial transaction overwrites `quiesce` (1 while a
  barrier is under way) and ends by setting it to 0 without a broadcast. A
  sleeper in the barrier stays asleep, and an exiting thread no longer signals.
- `etl_growth`. When the write set of `WRITE_BACK_ETL` grows, each entry's lock is
  pointed at its copy, so a lock that covers several ends at the last one, and
  the pointer `stm_write` keeps leads into the old array; a later load misses
  the transaction's own store.
- `mb_snapshot`. `stm_prepare` packs the old `end` again instead of reading the
  clock; the low bits become ones and every version lies in the snapshot.
- `server_workers`. Between the decrement of a list's counter and the clearing
  of its bit an insertion sets the bit; the clear then hides the new task.

### Further observations

They follow from the code; those of modelled code are in the models. Some are
stated as properties without a run of their own (named in brackets).

Core

- A read-only transaction that writes restarts still read-only: `tx->ro` is
  computed in `stm_start` only (`stm.c:2152`, `stm.h:145`) [`RestartedReadWrite`].
- `stm_check_quiesce` becomes active after the release of one serial
  transaction without looking for the next (`stm.c:659-665`, `stm.h:1073`)
  [`SerialAlone`].
- `stm_rollback` runs `stm_prepare` before it looks at `no_retry`: a thread that
  gives up keeps status `TX_ACTIVE` (`stm.c:1567`, `1574`).
- Tick-driven extensions ignore `can_extend` (`stm.c:3440`), unlike the load
  path (`stm.c:1860`).
- `stm_unit_write` stores the whole word whatever its mask (`stm.c:2518`), where
  `stm.h:1008` describes a masked update.
- With unit stores the clock can exceed `VERSION_MAX` by more than one per
  thread (`stm.c:2519`); `ClockOvershoot` is about clients without them.
- A restarting transaction spins for the irrevocable flag (`stm.c:3993`).
- `stm_read_visible` does not look for a kill after it has acquired a lock;
  under `CM_MODULAR` the plain stores of a growing write set
  (`stm_allocate_ws_entries`, `stm.c:807`) may overwrite a lock that was stolen
  meanwhile from a transaction that has not noticed yet that it was killed. This
  is one of the two cases `GrowthSafe` excludes from the proofs.
- `CM_MODULAR` with a threshold of visible reads larger than 0 (the default is 3,
  `stm.c:2599`) is not serializable. An invisible read of a word that is locked
  for reading compares the lock word before and after the value and takes the
  version from the entry it points to (`stm_read_invisible`, `stm.c:1828-1845`).
  If the visible reader aborts, a third thread commits a new value, and the
  visible reader retries, its lock word is the same, a pointer to its first entry,
  but the entry has the new version: the old value goes into the read set with the
  new version and passes validation. TLC finds it with three threads in a build
  with threshold 1 (one loads `x` and stores `y`, one loads `x` and has failed a
  validation before, one stores `x`). The runs use thresholds below 1, where
  it cannot happen; the proofs assume `OneKindOfRead`.

Collector and services

- A thread leaves the quiescence list before it hands its buffers to the
  collector (`stm.c:3048`): with a roll-over in between regions are lost or freed
  twice. TLC finds it in `Gc` with `{"unlink", "exit", "rollover"}`.
- A grown write set is handed over with the start of its owner as epoch
  (`stm.c:807`), which may be older than a transaction that sees it; TLC finds
  the use after free with `{"unlink", "grow", "peek"}` and six blocks.
- `mod_log_on_abort` never resets `nb_entries` (`mod_log.c:350-424`), so every
  abort applies the entries of all attempts since the last commit. Within one
  transaction that retries this does no harm to words: the oldest entry has the
  value from before the first attempt. It does when the program gives up and
  writes the data before the next transaction [`UndoRestores`, the claim of
  `mod_log.h:25`], and for byte blocks, whose copies are freed once per abort
  [`CopiesAccounted`, the assertion at `mod_log.c:423`]. The entries for 16, 32 and
  64 bits have a `char` for the value (`mod_log.c:64-66`) [`UndoRestores`]. TLC
  refutes both properties for the programs of `services`; `AttemptExact` states
  under which conditions an abort restores everything.
- A callback registered by a commit callback is lost. `gc_cleanup_all` is never
  called. x86 may delay `gc_set_epoch`'s store past a reset.
- `update_statistics` and the thread initialisation leave fields uninitialised;
  aborts of transactions that never commit are not counted;
  `stm_stats_entry_combine` subtracts a product of mean and samples.

Model-based revalidation

- `tx->start` and `tx->end` are not initialised by `stm_init_thread`; the overflow
  test of `stm_prepare` never fires; the kernel compares a packed `end` with a
  plain clock; `hashT_get` leaves its result unset for an infinite or undefined
  rate; the mean of an empty window is converted to an integer; a second
  `stm_init` after `stm_exit` finds dangling lists; `get_mb_data` spins while
  `malloc` fails.

Kernel module

- The callback is registered before the buffer (`stm.c:2923`, `2930`) and
  deregistration leaves the buffer in the slot; `stm_exit_thread` frees the
  descriptor before it deregisters; the 4-byte patch writes four of five bytes
  with a displacement off by one; the not-found test of
  `check_patch_compatibility` is never true; the file operations have no owner;
  the return address is written at `sp - 8`, inside the red zone; threads are
  registered by `getpid()` and compared with `current->pid`.

Benchmark

- `jsw_avlerase` on an empty tree decrements the size; `queue_alloc` leaves
  `lastDelivery` unset; freeing the hash table's buckets leaks the iterator's
  chain; `bitmap_toggleAll` sets bits past the last; `TMlist` reads data without
  the STM.
- `THREAD_COND_WAIT`'s loop does not guard against spurious wake-ups; the tree
  barrier works for powers of two only and the assertion is commented out.
- A request that is malformed or lost is never counted, so main waits for ever;
  `StatsPrint` unlocks a row it did not lock; trylock back-off may livelock.
- With `SYNCH_SENDER` a failed send keeps the connection's lock
  (`Client.c:179-182`), for which the processes then spin for ever; the start gate
  tests a pointer instead of the value (`Client.c:162`).
- `W_YTD` and the `D_YTD` are 32-bit floats (`warehouse.h:15`, `district.h:15`).
  `W_YTD` is the first to round, from 16777216 on, which it reaches from 300000
  after some 6,600 payments of 2,500 on average, and then differs from the sum of
  the districts (`manager.c:165`) [`YtdEqual`, which TLC refutes with the tables of
  `services`]. `TablesConsistent` bounds the difference by the rounding.
- `fill_neworder` writes warehouse 0 (`neworder.c:59`) where the only warehouse
  is 1, so the delivery's test (`manager.c:884`) never holds and no order is
  delivered ("one order x district", `manager.c:744`) [`DeliveryDelivers`, which TLC
  refutes as well].
- `checkConsistency1` asserts an inequality, and starts with warehouse 0, which
  does not exist; a payment with an unknown customer restarts for ever.

## Proofs

Constants are arbitrary: any sets of threads (finite where they are counted),
addresses, locks and blocks, any assignment of addresses to locks, any words,
masks, attributes and kernel code. The assumptions are `ConstantsAssumption`
(`StmCTL`), `EtlAssumption` (`StmETL`), `QuiesceAssumption`,
`TimeStretchAssumption`, `GcAssumption` and those of `Barriers`, `Client` and
`Pacing`; TLC evaluates each in a run.

### The default core

Four steps, each extending the invariant of the one before; 1 and 2 are in
`StmCTLProofs`, 3 and 4 in `StmCTLOpacity`.

1. `Inv`: `TypeCorrect`, `LocksAccounted`. `LockOwnership`
   speaks of states in the middle of a commit or a rollback only, so it is not
   inductive. `Inv` adds, for each thread, `WriteSetInv` (what `no_drop`,
   `nb_acquired` and the loop index say about the write set at every point),
   `Owns` (every lock with the thread as owner points to an entry that still has
   to release it), `Drops` (the converse) and `UnitOwns` (a lock held by
   `LOCK_UNIT` has exactly one unit store in progress).
2. `VInv`: `VersionsCover`, `MemoryIsCommitted`,
   `OneValueAtATime`. Added are `HistoryInv`, `VersionInv` (the version a lock
   would go back to covers all committed writes below it, the timestamp of a
   commit is larger than every version of a lock it owns) and `MemoryInv` (memory is the last
   committed value but for words a commit is about to write). `ClockBounded`
   has an invariant of its own, `ClockInv`, which counts the threads past their
   overflow test; it assumes a finite set of threads and no unit stores.
3. `OInv`: `UnitLoadsAtomic`, `CommitsSerializable`,
   `SnapshotsOpaque`, `UpdatesOpaque`. Added for each thread: what a load under
   way knows of its lock and value (`ReaderInv`), that each observed value is the
   committed one at `snap` and an entry of the read set vouches for it (`SnapInv`),
   and what a validation under way has already established (`ExtendInv`,
   `CommitInv`).
   `SnapshotsOpaque` and the refinement assume that there are no early aborts or
   no read-only transactions: `ea_read_only` shows that this is necessary.
   `UpdatesOpaque` needs no such assumption.
4. `RInv`: `StmImplementsOpaque`. Every step is mapped to a
   step of `OpaqueTM` or to a stutter: the read of a value to a load, the read of
   the clock by a commit to a reserved ticket, the end of its validation to the
   commit, an extension to a move of the snapshot.

### Encounter-time locking and write-through

`EtlLocksCover`, from `EtlInvariant`, for both designs, all contention managers
and policies, visible reads and roll-over. `LocksCover` is not inductive: it says
nothing of a lock between its acquisition and the link of the new entry, of an
abort under way, or of a victim that has been killed and has not noticed. `Inv`
adds

- `LocalInv`: the values of the locals and of the status at each label;
- `LockInv`: an owner holds an entry for each of its locks (`OwnerHolds`,
  `WriteLocked`) and a lock leads back to its owner (`HolderOwns`); only the first
  entry of a lock releases it (`FirstDrops`); the links of the entries go forward,
  stay within one lock and skip none (`LinksForward`, and `Linking` for a store
  between its search and its link); a thief and its victim agree on what is left
  to the victim (`StealSafe`);
- `MemoryInv`, `HistoryInv`: memory is the last committed value, but for words
  whose owner writes back or, with write-through, has an entry with the old value
  to undo; every value and version has one place in the history.

`Chain` is a recursive function. What it computes is not proved by an induction
scheme but from a least counterexample (`LeastNat`, from `WFMin` and
`NatLessThanWellFounded`): among the entries of a lock that the list misses, take
the last; the link that skips it contradicts `LinksForward`. `ChainOfClass` is
the result.

`GrowthSafe` is the hypothesis of all three theorems: the design is write-through, or no
transaction writes more words than fit into its write set, or a lock
covers one word and the contention manager does not steal. Each other combination
is refuted: `etl_growth` shows a list that is lost when the set grows, and the
stores that re-point the locks overwrite one that was stolen.

`EtlSerial` is proved from `EtlInvariant`, in `StmETLReads` (the invariant and the
steps that leave locks, memory and history alone) and `StmETLSerial` (the other
steps and the theorem). `EtlSerializable` speaks of transactions that commit;
the invariant `SInv` says for every state how far the reads of a transaction
are good, and why:

- `VersionInv`: a lock is at a version, or its owner would give it back at one
  (`Backs`): that version is not beyond the clock, no commit under the lock is
  newer (`Covers`) but for that of an owner that has published, and the timestamp
  an owner holds is larger. `HistoryUnique`: one value per address and timestamp;
- `ReaderInv`: a lock word that a load has read is never newer than what the lock
  goes back to, versions and incarnation numbers counted together, and as long as
  the lock would come back to that word the value read is the one in memory. It
  is here that write-through needs its incarnation numbers;
- `SnapInv`: nothing is committed, or will be by a commit that has its timestamp,
  under the lock of an entry of the read set between the version of that entry
  and the end of the snapshot (`Still`), and every observed value is vouched for
  by such an entry or, under a lock of the transaction itself, is the last
  committed value (`Vouched`); in a validation the entries already checked have
  this up to its new end, or up to the timestamp of the commit;
- `SerialInv`: from its publication on a transaction has observed the state just
  before its timestamp, and no commit with a smaller timestamp is still to publish
  a word under a lock it has read;
- `KindOf`, `LockKinds`: what builds with and without visible reads can reach.

What a step of one thread means to the others is proved once (`OthersKept`, from
`SharedStep`), so each action is left with its own thread and with the versions of
the locks it touches. Roll-over and the initial state are one case (`Outset`).
`OneKindOfRead`, the second hypothesis, excludes `CM_MODULAR` with a threshold
larger than 0, at which a transaction reads invisibly first and visibly after
some aborts. It cannot be dropped: see the observations.

### Quiescence

- `TypeCorrect` and `Counting`: `TypeOK /\ CountsThreads` is inductive; the
  cardinality lemmas `LeaveNotBlocked` and `JoinNotBlocked` account for a thread
  that falls asleep, exits, registers or comes back.
- `RolloverSafe`: `Spec => RolloverAlone`, an action property, from the count: if
  it is zero when a thread is about to reset the clock, every other registered
  thread is blocked.
- `IrrevocableAlone`: `Spec => []IrrevocableExclusive`, from `SerialInv`, which
  adds the value of `tx->irrevocable` at each point of a transaction and the
  points at which a thread holds the mutex.

### Kernel module

`TsInv` (`TsInvariant`) has three parts. `TimerInv`: the flag of a CPU tells the
period of its timer, and the interrupts its kernel has missed since its handler
last ran, together with those the countdown still allows, are at most
`Allowed(reloads)`, that is `SCALE` and once more `SCALE` for each registered thread
that was switched in since. This gives `KernelTimeKept`; `missed` is reset by
the handler alone, so the bound reaches across any number of switches
(`AllowedGrows`: a restarted countdown adds no more than its `SCALE`). A bound
without them does not exist: a CPU that switches between registered threads
faster than their countdown keeps its handler waiting.
`ModuleInv`: in each stage of the module's life what is patched, which job
runs and that no hook is under way once the delay of the unloading is over;
with `PatchInCode` and `UnpatchRestores` (the bytes saved by the patch are the
bytes it overwrites, wherever the matching pops lie) it gives `UnloadComplete`.
`UserInv`: application code inside a transaction has `tx_on` set; it gives
`CallbacksInApp`, an action property.

### Collector

`CollectorIsSafe`, from `GcInvariant`. The argument: a transaction publishes its
start before it picks up a pointer, and a block is handed over with the clock
read after it was unlinked, so the epoch of a region is never smaller than the
start of a transaction that holds one of its blocks (`HoldInv`). A thread that
frees computes a minimum that is no larger than the start of any holder whose
slot it has passed (`ScanInv`), and a region is freed only if the minimum is
larger than its epoch. That needs one owner per busy slot and that slots never
used come last, where the scan may stop (`SlotInv`), that a block is in one place
only (`PlaceInv`), and the registers at each point (`StageInv`). The theorem
assumes `SafeUses`: no program combines the exit of threads with roll-over, or
the growth of write sets with pointers into other write sets. Both combinations
are refuted by TLC (see the observations), so neither hypothesis can be dropped.
The first is met by a program whose threads live until the end; the second by
all builds but `CM_MODULAR`.

### Spinning barrier

`SpinRoundsApart`, for any finite number of threads and rounds: `RoundsApart` of
the pools with the spinning barrier of `barrier.h`. It says nothing of the moment
between the arrival of the last thread and the reset, so the invariant counts: the
number in the cell is the number of threads that have arrived in this phase, one
thread at most is elected to reset it, and while the phase is being left nobody
is in the next. The cardinality lemmas `StepCount` and `StepsEmptyFull` carry the
count from step to step. The tree and group barriers are model-checked only.

### Client

`StreamsAreWhole`, from `ClientInv`, for any number of connections, processes and
requests. Two things are needed beside it: who holds the lock of a
connection while half a frame is on it (only that process may go on, and without
`SYNCH_SENDER` a connection has one process), and that the frames on the connections and
those the processes have still to send add up to what the handshake announced as
long as nothing failed.

### Pacing

`PeriodsInAttempt`: `PaceSpec => PeriodsWithinAttempt`, an action property. The
invariant says that a bit set in the bitmap belongs to a profile whose last
validation is not older than the attempt.

### Only model-checked

- Liveness (`DoomedAborted`, `LocksReleased`, `BarrierOpens`, `StretchingEnds`,
  `PoolsEnd`, `ProgramsEnd`): fairness and `ENABLED` are out of the prover's reach.
- The data structures, the wrappers and the server's lists: they are recursive
  definitions or walk linked lists, and induction over data is out of reach.
- `LocksCover` for write sets that grow in the one case left: outside of
  `GrowthSafe` it does not hold.
- `RepeatableReads` and `EtlRefinement` of the encounter-time designs, tree and
  group barriers, statistics, MB table, services and tables: nothing in principle
  stands against a proof; they are next in the plan.

## Plan

Modelling is done but for non-serial irrevocability, the parameters and
transaction-specific data of the STM, and the parts listed as not modelled.
Proofs that remain, in order of what they say about the system:

1. `EtlRefinement` of `StmETL`, from the invariant of `StmETLSerial`, and
   `RepeatableReads`;
2. `RoundsApart` of `Barriers` for the tree and group barriers;
3. `TableSound` of `MbTable` and `StatisticsExact` of `Statistics`.

## How to run

    tlc -config CtlUpdates.cfg MCClients
    tlc -config Waiting.cfg MCWaiting
    tlc -config Services.cfg MCServices
    tlapm StmCTLOpacity.tla
    tlapm StmETLSerial.tla
    tlapm GcProofs.tla
    tlapm PlatformProofs.tla
