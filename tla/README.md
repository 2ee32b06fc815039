# A TLA+ verification of AstraLib

AstraLib is a header-only C++ library of concurrency primitives for x86-64
Linux (`src/include/AstraLib`). This directory holds TLA+ models of its parts,
TLC configurations that check them on small instances, and TLAPS proofs for
instances of any size.

    tlc -workers 2 -config RingMpmc.cfg MCAtomicRingBuffer
    tlapm RingProofs.tla

`PROJECT.json` lists components, runs, the source lines of every definition,
hazards, findings and theorems.

## 1. Inventory

| Part | State | Operations | Interacts with |
|---|---|---|---|
| `AtomicRingBuffer` | `writeTicket`, `readTicket`; per slot `seq` and `data`; `batchDequeueArray` | `enqueue` (2), `emplaceEnqueue`, `dequeue`, `batchDequeue`, `isEmpty`, `clearBuffer`, `claimPtrNoSync` | used by `ThreadPool`, `ThreadSafeIndexPool` |
| `ThreadPool` | `taskFlag`, `taskQueue`, `running`, `lastIdDispatched`; the dispatcher's local `task` | `assignTask`, `taskDispatcher`, `~ThreadPool` | ring, gates, workers |
| `Worker` | `flag`, `poolFlag`, `task`, `running` | `thread_loop`, `activateWorker`, `~Worker` | gate, pool |
| `ThreadGate` | a reference to a flag | `waiter`, `signaler`, `reset` | futex system call (external) |
| `spscRingBuffer` | two plain cursors; per slot a full/empty `ticket` and `data` | `enqueue`, `emplaceEnqueue`, `dequeue` | - |
| `ThreadSafeIndexPool` | a ring of indexes | `getIndex`, `returnIndex`, `reInitializePool` | ring |
| `Spinlock`, `SpinlockGuard` | one atomic flag, `waitTime` | `lock`, `unlock` | - |
| `AtomicFutex` | one atomic int | `wait`, `wake` | futex system call |
| `debugMessage` | global `writing` | the function | `std::cout`, clock |
| `Timer`, `timeNow` | `startTime`, `ghz` | `start`, `getTimeCycles`, `getTimeNs`, `write` | TSC, `std::cout`, system clock |
| bench harness (`bench/benchCommon.hpp`) | knobs, `g_physCpus`, deadline and name for the watchdog, `g_failures` | `detectTopology`, `runPinned`, `interleaved`, `Deadline`, `watchdogLoop`, `finish` | all benchmarks |
| four comparison benchmarks | measured bodies; `TTAS`, `MutexVecPool`, `MutexDeque`, `CondvarPool` | `runLock`, `run`, `throughput`, `pingPong`, `burst`, `wakeLatency` | harness, library |
| `PaddedAtomic` | layout only | - | ring, spinlock |

What is hard about them, and what makes each correct:

* **Ring.** Any mix of readers and writers on different laps competes for a
  slot whose payload is not atomic. Correct: slots are never shared, the k-th
  dequeue gets the k-th item, calls with a counterpart return. Hard:
  claimed-but-unpublished tickets, payload operations that throw after the
  claim, reuse after `clearBuffer`, the answer of `isEmpty` being old when used.
* **Pool.** A task passes through three hands (queue, dispatcher, worker), and
  two kinds of threads sleep on futexes. Correct: each task runs exactly once
  while the pool lives, nobody sleeps through work, the destructor returns.
  Hard: check-then-reset of a gate, the order of `gate.reset()` and
  `poolFlag.store(0)`, store buffering, tasks that submit tasks, destruction at
  any moment.
* **SPSC ring.** Unsynchronised cursors, so the ticket alone orders accesses;
  cursors advance before the call can fail.
* **Index pool.** No index is held twice; `reInitializePool` while indexes are
  out breaks this.
* **Spinlock.** Mutual exclusion; no fairness among waiters.
* **AtomicFutex.** A waiter returns only after a `wake`, a `wake` after its load
  is not missed, the value wraps.
* **debugMessage.** Lines are not interleaved; the flag moves on among the
  callers, with no order kept, and is released unless an argument throws.
* **Timer.** Differences of a wrapping counter; calibration by sleeping; started and read
  again and again; output to a stream that `debugMessage` believes to own.
* **Benchmarks.** Their only assertion is that the work happened. Correct: it
  holds whenever the measured class is right, the measured interval holds all of
  the work and nothing else, and a hang ends the program with the right name.

## 2. Plan

Most important first. Each step is a module with runs and, where noted, proofs.

| # | Modules | Status |
|---|---|---|
| 1 | `AtomicRingBuffer`; abstract `HandoffQueue`; refinement in `RingRefinement`; `RingProofs` | done |
| 2 | `ThreadPool` on the abstract queue, with sequential consistency and x86-TSO; `ThreadPoolProofs` | done |
| 3 | `SpscRingBuffer` implementing `HandoffQueue`, under the clients of `QueueBench`; `QueueBenchProofs` | done |
| 4 | `ThreadSafeIndexPool` composed with the ring; `IndexPoolProofs` | done |
| 5 | `Spinlock` and the locks it is compared with, `ComparisonBench` around it; `ComparisonBenchProofs` | done |
| 6 | `AtomicFutex` with an external futex and a small counter width; `FutexProofs` | done |
| 7 | `ConsoleOutput`: `debugMessage` and `Timer`; `ConsoleProofs` | done |
| 8 | `PoolBench`: `CondvarPool`, `interleaved`, deadlines and watchdog; `PoolBenchProofs` | done |

## 3. Modules

### `AtomicRingBuffer`

`seq`, `data`, `writeTicket`, `readTicket` and `batchDequeueArray` are the
members. `pc`, `call`, `ticket`, `val` and `batch` are the locals of the call a
thread is in. `put`, `pub`, `got` and `sawItem` are history that no action
reads.

One action is one access to shared memory:

| Code | Actions |
|---|---|
| `enqueue`, `emplaceEnqueue` | `EnqueueClaim`, `EnqueueEnterSlot`, then `EnqueueAssign`, or `EmplaceDestroy` and `EmplaceConstruct`, then `EnqueuePublish` |
| `dequeue` | `DequeueClaim`, `DequeueEnterSlot`, `DequeueMove`, `DequeueRelease` |
| `batchDequeue` | `BatchStart`, then per item `BatchClaim` and the three steps above, `BatchDone`, `BatchReturn` |
| `isEmpty` | `IsEmptyStart`, `IsEmptyCompare`, `IsEmptyReturn`; C++ does not fix which of its two loads comes first, so either may |
| an exception from the payload | `Throw` |
| `clearBuffer`, `claimPtrNoSync` | `ClearBuffer`, `ClaimPtrNoSync`; their contract excludes other threads |

A failed iteration of a spin loop changes nothing, so a spinning thread is one
whose next action is not enabled yet. Payloads are names; `Junk` is a live
object without a meaningful value, `Dead` is storage without an object. A moved
from slot either keeps its value or becomes `Junk`, since both kinds of types
exist. Memory is sequentially consistent here: all communication goes through
acquire loads, release stores and read-modify-writes of `seq` and the tickets.

`HandoffQueue` is what a caller relies on: a FIFO queue whose operations take
effect at one instant. The mapping in `RingRefinement` puts that instant at the
`fetch_add`: tickets between the two counters are the items nobody asked for, or
the dequeues that wait, and an enqueue or dequeue in progress is a caller that
has not returned. A call that ends in an exception counts as returned; a dequeue
owed the value of an enqueue that threw never returns.

### `ThreadPool`

One program counter per client, worker, dispatcher (`D`) and destroying thread
(`Owner`). `D` also names `taskGate` and the pool's `running`, and a worker's
number names its gate. The queue is the abstract one with a separate step for
publication; the dispatcher is its only consumer, and `RingSoleConsumer` shows
that `isEmpty` is exact for that thread.

| Code | Actions |
|---|---|
| `ThreadGate::waiter` and the loop heads | `WaiterStep`, `SpuriousWake` |
| `ThreadGate::signaler` | `SignalStore`, then a step built on `SignalWake` |
| `assignTask` | `AssignClaim`, `AssignPublish`, `SignalStore`, `AssignWake` |
| `taskDispatcher` | `DispatcherBranch`, `DispatcherDequeue`, `DispatcherScan`, `ActivateTask`, `SignalStore`, `ActivateWake`, `DispatcherReset`, `DispatcherSignalWake` |
| `thread_loop` | `WorkerBranch`, `WorkerRun`, `WorkerClear`, `WorkerReset`, `WorkerFree` |
| `~ThreadPool`, `~Worker` | `Stop`, `SignalStore`, `StopWake`, `Join`, for the dispatcher and then the workers from last to first |

Both scan loops of the dispatcher try workers round robin until a
compare-exchange succeeds, so they are one action. With `TSO`, the dispatcher's
stores to `taskFlag` go through a store buffer (`sb`), drained by
`DrainBuffer`, by locked instructions and by system calls. No other store in
the file is followed by a load of the same thread before such an instruction.
The plain `bool running` is a data race; compiled code reloads it in each
iteration, because the loops contain system calls and acquire operations, and
the model does the same.

### `SpscRingBuffer` and `QueueBench`

Several rings at once, each with one producer and one consumer (`Producer`,
`Consumer`). `ticket`, `data`, `lastWritten` and `lastRead` are the members. A
call is `EnqueueBegin` (the cursor moves), `EnqueueEnterSlot`, `EnqueueWrite` or
`EmplaceDestroy` and `EmplaceConstruct`, `EnqueuePublish`; or `DequeueBegin`,
`DequeueEnterSlot`, `DequeueMove`, `DequeueRelease`; `Throw` ends a call whose
payload operation throws. `QueueBench` adds the clients: `Throughput` and
`PingPong` are the two measurements of `QueueComparisonBench.cpp`, `AnyCall` is
a client that calls what it likes. The ring `Req` is mapped to `HandoffQueue`,
the specification the MPMC ring implements too: a call takes effect when it
moves its cursor.

### `ThreadSafeIndexPool`

Extends `AtomicRingBuffer`: `getIndex` is a `DequeueClaim` and the ring's steps
after it, `returnIndex` an `EnqueueClaim` and its steps (`RingStep`), so the
pool is checked on the ring itself. The threads are the workload of
`IndexPoolComparisonBench.cpp`. `ReInitializePool` may come at any moment at
which no call is in progress; `stale` remembers that an index was out then.

### `AtomicFutex`

`futex_val` has `FutexBits` bits. `sleepers` is the kernel's queue, served first
come, first served, which is what FUTEX_WAKE does for threads of equal
priority. `wait` is `WaitLoad`, `FutexWait` (compare and sleep, or EAGAIN),
`WaitCheck` and `WaitReturn`, with `Interrupt` (EINTR or a spurious return) and
`WaitError`; `wake` is `WakeAdd` and `FutexWake`. `adds`, `at` and `whole` count
the calls of `wake` since a waiter's load; no action reads them.

### `Spinlock` and `ComparisonBench`

`Spinlock` has the lock of `spinlock.hpp` (`Exchange`, `Pause`, `Unlock`), the
test-and-test-and-set lock of the benchmark (`TtasSpin`), a mutex, and the loop
of `runLock` with its plain `counter`, `owner` and `handoffs`. The backoff
counts with an `int` to an `int64_t`; past `IntMax` the increment is undefined
and may wrap or go on. `ComparisonBench` puts these threads, those of
`MutexVecPool` and those of `MutexDeque` under `runPinned`: the loop of
`detectTopology` over `thread_siblings_list` (`probed` is its index; a file may
be missing or without a number), pinning that
may be denied, `ready` and `go`, joins and the final `BENCH_CHECK`.

### `ConsoleOutput`

`debugMessage` as the insertions it makes into `std::cout` between taking and
releasing `writing`, and `Timer` with `setGHz` and then `start`, readings and
`write` in any order and number (`left` bounds the calls); `write` inserts into
the same stream without the flag. A formatted insertion (`Insert`) is padded if
the stream's `width` is set, and resets it; `std::endl` (`InsertEndl`) does
neither. `tsc` counts cycles without bound; the code sees `Word(tsc)`.

Comments in `src/tests/DebugFuncTest.cpp` (lines 24-38 and 138-150) call the race
of concurrent callers on the width and fill of the stream "STILL OPEN". They are
older than the flag: `src/docs/tests.md:251` lists the race as fixed, and
`MessagesWhole` and `MicrosecondsPadded` confirm that for callers of
`debugMessage`. A `Timer` that writes meanwhile still takes the width.

### `PoolBench`

Main thread, workers of `CondvarPool` and watchdog of
`ThreadPoolComparisonBench.cpp`. A scope under the mutex is one action (`Take`,
`Submit`, `Stop`); notifications are separate steps because they follow the
unlock. The other pools are one competitor that returns or hangs.
`DeadlineName`, `DeadlineSet` and `DeadlineEnd` are the three stores of
`Deadline`; `WatchdogLoad`, `WatchdogTest` and `WatchdogExit` are the loop that
reads them, and `Expire` is the clock passing a deadline. `Sample` is the loop
of `interleaved`, and `Summarize` what follows it for each burst table: without
samples it reads an empty vector and the program crashes. The measurement and
the warm-up of `wakeLatency` have the same number of samples in the model.

### Deliberately wrong variants

A definition named `X_Mutant` is a plausible mistake in `X` (a dropped
recheck, a swapped order). It occurs in no specification. With it in place of
`X`, TLC must find the property listed with it in `PROJECT.json` violated.

## 4. Runs

| Run | Instance | Shows |
|---|---|---|
| `RingMpmc` | 2 producers, 2 consumers, 2 slots, 6 tickets, payload operations may throw | `Contents` (the inductive invariant), `SlotExclusive`, `Delivery`, `ThrowWedgesSlot` |
| `RingSoleConsumer` | 2 producers, 1 consumer that also probes, counts 0..3 around a batch size of 2, no exceptions | `NoDeadAccess`, `BatchResult`, `IsEmptyIsHonest` |
| `RingRefines` | 2 and 2, 4 tickets, trivially destructible payload, fairness | `ImplementsHandoffQueue`, which includes that a call with room, or with a counterpart, returns |
| `PoolSafety` | 2 clients, 2 workers, 3 tasks, TSO | `TypeOK`, `TasksInOnePlace`, `TaskCellExclusive`, `ResetClobbersNothing` |
| `PoolLive` | 1 client, 2 workers, queue of 1, a task that submits a task (a second caller of `assignTask`), two empty tasks, fairness, sequentially consistent | `NoLostWakeup`, `OnlyLostWorkersWedge`, `DestructorReturns`, `IdleDispatcherSleeps` |
| `Spsc` | rings of 1, 2 and 3 slots, 5 items, one ring with payloads that throw, fairness | `SlotExclusive`, `PendingIntact`, `InOrder`, `BenchFinishes`, and for the ring of 3 slots `ImplementsHandoffQueue` |
| `IndexPool` | 3 threads, 2 indexes, 4 get/return pairs, fairness | `IndexInOnePlace`, `ReturnNeverWaitsForRoom`, `WorkloadFinishes` |
| `Futex` | 2 waiters, 2 wakers, counter of 2 bits, 5 wakes, fairness | `ReturnMeansWake`, `NoWakeLost`, `OwedWaiterReturns` |
| `Bench` | up to 4 measured threads and the coordinator; machines with 0 to 6 CPUs, with and without SMT; all programs and locks, fairness | `MutualExclusion`, `TimedWindow`, `OwnCore`, `ReportHonest`, `RunFinishes` |
| `Console` | 2 loggers that make 3 calls beside a Timer that makes 1, or a Timer that makes 4; words of 3 bits, fairness | `MessagesWhole`, `MicrosecondsPadded`, `TimerHonest`, `FlagMovesOn` |
| `PoolBench` | 2 workers, 3 tasks, up to 3 tables, `int` of 3 bits | `LocalsAlive`, `WatchdogNamesCulprit`, `HangIsKilled`, `BenchFinishes` |

One run ends in a counterexample, which contradicts a sentence of the
repository (quoted in `PROJECT.json` under `findings`). `PoolTsoTask`: the store
of `taskGate.reset()` and the loads of the second `isEmpty()` may be reordered
by the processor. A task and its signal that fall in between are missed and the
dispatcher sleeps on a non-empty queue. A `seq_cst` fence between the two would
exclude it: it would drain the buffer, and `PoolLive`, where stores are not
buffered, shows the rest sound.

Several properties carry a condition because without it they fail, and the
counterexample says something about the code:

* In `ImplementsHandoffQueue` a dequeue returns if the matching enqueue goes on:
  one suspended producer blocks the consumer while later items are published.
* `IsEmptyIsHonest` is for the sole consumer (`Probers = Consumers`).
  Another thread can be told "empty" although an item was there all the time.
* `BatchResult` says that a negative count becomes `BATCH_SIZE`.
* `NoDeadAccess` is for `MayThrow = FALSE`. After a constructor threw in
  `emplaceEnqueue`, `clearBuffer` makes a slot usable that holds no object.
* `DestructorReturns` is for `TSO = FALSE`. The delayed reset that
  `PoolTsoTask` shows can also overwrite the signal of the destructor.
* `OnlyLostWorkersWedge` and `DestructorReturns` except a dispatcher that
  searches for a free worker while all are lost to empty tasks or wait inside
  `assignTask` on a full queue (`Wedged`). The search does not read `running`,
  so the destructor then waits in `join` for good. In `PoolLive` the two empty
  tasks lead there; to get there by `assignTask` takes one worker, or five tasks
  and an empty one in the second worker.
* The pool of indexes promises nothing after `reInitializePool` with an index
  out (`stale`). After an argument threw, `writing` stays set: `FlagMovesOn`
  excepts that, and `MessagesWhole` says that no message follows. That a given
  caller of `debugMessage` gets its turn is not promised either: others may win
  the compare-exchange each time.
* `OwnCore` needs readable `thread_siblings_list` files: without one of them
  every CPU counts as a core.
* `ReportHonest` excepts totals for which `N * (N + 1)` overflows, and
  `RunFinishes` a `waitTime` beyond `INT_MAX`.
* `BenchFinishes` of `PoolBench` needs `g_reps > 0`. `ASTRA_BENCH_REPS` from
  2^31 on may become an `int` that is not positive, and `summarize` then reads
  from an empty vector.

**Bounds.** Two slots are the smallest ring the code admits, and the one with
the tightest wrap-around. Six tickets are three laps, so a thread can be a
whole lap late. Two producers and two consumers give every pair of roles that
can meet in a slot; the proofs remove these bounds. In the pool, two workers
are the least for which the round robin and the order of joins matter, and a
queue of one or two makes it full. `SizeTBits` is 4: the clamp only depends on
negative numbers becoming large. An SPSC ring of one slot has both cursors
always on the same slot, one of three lets the cursors be apart in every way
that two threads can produce. Three threads for two indexes make `getIndex`
wait. Five wakes on a counter of two bits pass its wrap-around, two waiters
compete for one wake; the proofs remove these bounds too. Words of three and
five bits wrap within a run. The machines of `Bench` have enough cores, as many
CPUs but only half as many cores in both usual numberings of SMT siblings, too
few, or an unknown number.

**Deadlock.** Runs say `CHECK_DEADLOCK FALSE`. The bounded ring stops when its
tickets are used up, or with all threads waiting for a call nobody makes, and
the pool stops once it is destroyed; a benchmark ends, and so do the bounded
callers of `debugMessage`. Progress is stated by the liveness properties
instead. `Futex` does check for deadlock.

**Fairness.** `FairSpec` assumes that each thread inside a call, each thread of
the pool and the destructor keep being scheduled (weak fairness per thread),
and that a buffered store reaches memory. Nobody has to call anything, and
spurious wake-ups may never come. The scheduler of the operating system gives
this; the code itself has no other source of progress. In `AtomicFutex` a
waiter inside `wait` keeps running and so does a waker inside `wake`; in
`QueueBench`, `ThreadSafeIndexPool`, `ComparisonBench` and `PoolBench` each
thread of the measurement does, in `PoolBench` the clock too; in
`ConsoleOutput` a caller of `debugMessage`. A lock gives no fairness of its own:
`RunFinishes` rests on each thread taking it a bounded number of times.

## 5. Proofs

**Ring.** All hold for any number of threads, any power of two `SIZE >= 2`, any
number of tickets and any payloads (`SizeAssumption`, `ParameterAssumption`,
`PayloadAssumption`, which TLC evaluates in the runs). `RingProofs` goes from
slot arithmetic to types and exclusive slots, and from there to the inductive
invariant `Contents` and what follows from it.

* `TypeCorrect`: `TypeOK`, with the claimed tickets below the counters.
* `SlotsAreExclusive`: `SlotExclusive` is not inductive. `Ownership` adds that
  no two calls on one side hold the same ticket (`TicketsDistinct`) and that
  what a call saw when it left its spin loop stays true while it owns the slot
  (`HeldSlots`). Then a slot's `seq` names a single owner. A writer `k` and
  reader `k - 1` would see the same number, but are never in the same slot,
  because `SIZE >= 2` (`IndexNextDiffers`).
* `ContentsInvariant`: `Contents` adds to `Ownership` how history follows the
  calls, what writers carry, and that `seq` admits reader `k` exactly from the
  publication of `k` until it is taken.
* `DeliveryHolds`, `PublishedStaysIntact` (a published item stays as it was until
  it is taken), `ThrowAlwaysWedgesSlot` follow from `Contents`, with payload
  operations that may throw.
* `NoDeadObjectIsTouched`: without exceptions, a destroyed object is one that
  an `emplaceEnqueue` is about to replace (`DeadIsBeingReplaced`).
* `BatchIsWhole`, `EmptyAnswersHonestly`: `BatchResult` and `IsEmptyIsHonest`
  under `SoleConsumer` (one thread on the reading side, any number of
  producers). `SoleInv` adds to `Contents` that this thread is ahead of the
  producers only while it spins and what the first load of `isEmpty` still says
  when the second is made (`EmptyInv`), and that a `batchDequeue` under way has
  moved the payloads of the last tickets, one after the other, into the array
  (`BatchInv`). `BatchAssumption` says that the counts are those of a type
  narrower than `std::size_t`, so that a negative one becomes a number above
  `BATCH_SIZE` (`ClampIsWanted`).
* `RingIsHandoffQueue`: every step of the ring is a step of `HandoffQueue` or a
  stutter, the safety part of `ImplementsHandoffQueue`, with any number of threads
  on both sides and payload operations that may throw. `RefInv` adds to `Contents`
  that producers enqueue and consumers dequeue, that a read ticket not yet written
  for is in the hands of a dequeue that waits (`WaitersPresent`), and that a number
  that admits a writer is less than `SIZE` ahead of `readTicket` (`LapBound`), from
  which an enqueue returns only with its item among the first `SIZE`. `StepKinds`
  sorts the actions into the six things a caller can see, and one lemma for each
  maps it to an action of the queue. `NobodyAssumption` says that the name for
  "no caller" and "no value" is neither.

**ThreadSafeIndexPool** (`IndexPoolProofs`, on top of `RingProofs`), for any
number of threads and indexes, from the assumptions of the ring and
`IndexAssumption` (the payloads of the ring include the indexes, and one lap of
tickets is there to fill it):

* `IndexesStayInOnePlace`: `IndexInOnePlace`. `Contents` holds of the ring of
  indexes although its first state is the filled ring (`LoadedContents`), and
  its steps, as the pool sees them, are of six kinds (`RingMoves`). `IndexInv`
  adds that what was put in are indexes (`Filled`), that a claimed read ticket
  is served or still being read (`Taken`), how far the number of a slot is when
  a reader of it is done (`Laps`), and that an index is the payload of one
  ticket or in the hands of one thread (`OnePlace`). With distinct holders a
  counter has one writer (`UsesStep`).
* `ReturnsFindRoom`: `ReturnNeverWaitsForRoom`. If ticket `n` were a whole lap
  ahead of the readers, `SIZE + 1` tickets would each hold an index of its own
  (`RoomForAll`, by the pigeonhole theorem of the library), so the read ticket
  `n - SIZE` is claimed; if its reader is done, `Laps` gives that the slot
  admits the writer.

**Spinlock and benchmark harness** (`ComparisonBenchProofs`), for any set of
threads, any `waitTime` and any machine, from `SpinlockAssumption` and
`ConfigAssumption` (a run has threads, all of them in `Threads`; a machine is a
list of CPUs with their cores):

* `LockSafe`, `LockCounts`: `MutualExclusion` and `NoLostUpdate` for the three
  locks. They are inductive together with the types (`LockInv`): the flag is set
  exactly while one thread is in its section, so an exchange that finds it clear
  enters an empty section; the value a thread has read is current because nobody
  else can store. `BenchLockSafe` is the first of the two for the runs of the
  harness, whose other steps leave the lock alone.
* `WindowHoldsBodies`: `TimedWindow`. `RunInv` says that the threads born are
  those below `spawned`, that `ready` is the number of threads that have counted
  themselves (a cardinality: `ready` equal to the number of threads then means
  that all have), and that nobody works before `go`.
* `HandoffsAreCounted`: `HandoffsCounted`, the part of `ReportHonest` that is not
  about a sum. `HandoffInv` says that the threads that have been `owner` are at
  most as many as the handoffs, and that a thread that has stored the counter and
  not yet looked at `owner` leaves room for one more, which takes mutual exclusion
  and that no increment is lost.
* `PinnedThreadsOwnCores`: `OwnCore`. `TopologyInv` is the loop invariant of
  `detectTopology`: what it has found are the first CPUs of the cores looked at,
  each once. `PinInv` says that a pinned thread has the CPU of its slot and the
  coordinator the last one, and that a run which is not skipped has a slot more
  than threads.

**AtomicFutex** (`FutexProofs`), for any finite set of waiters, any wakers and
any width of the counter:

* `FutexTypes`: `TypeOK`, with each waiter at most once in the queue.
* `FutexReturns`: `futex_val` is the number of increments modulo `2^FutexBits`
  (`Counts`), so a value that differs from the loaded one means an increment.
* `FutexLosesNoWake`: `FutexInv` adds that a complete `wake()` implies an
  increment (`WholeNeedsAdd`) and bounds, for a sleeper that has not seen the
  counter come round, the complete calls by the number of those that were ahead
  of it in the queue (`Owed`). The bound by the number of waiters is a
  pigeonhole argument over the queue (`RoomToSleep`).

**Console** (`ConsoleProofs`), for any number of callers of `debugMessage` and of
Timers and any width of the counter, from `ConsoleAssumption` (a thread logs or
has a Timer; the counter only goes forward):

* `MessagesStayWhole`, `PaddingIsLostToTimers`: `MessageInv` says that `writing`
  is set while one caller is between its compare-exchange and its release, and
  for good after an exception (`Alone`); that the last line of a caller is
  complete or its message under way (`Ends`); and that a width that was set is
  still there or a Timer has used it up (`WidthKept`).
* `TimersAreHonest`: what a Timer has stored is the counter at its last start
  modulo the word (`Clocked`), and a difference modulo the word is the difference if that
  is less than a word.

**Pool benchmark** (`PoolBenchProofs`), for any workers, tables, repetitions and
number of tasks:

* `WatchdogBlamesRightly`: `WatchInv` says that a deadline is set only after the
  name of its table, and cleared before the next name, so that a copy of the
  current deadline means the current name.
* `LocalsOutliveTasks`: `PoolInv` says that a task is in the queue once or with
  one worker (`Once`), and that `done` and the tasks pending add up to those
  submitted (`Accounted`). So when `done` has reached the number submitted there
  is no task left that refers to the local.

**ThreadPool** (`ThreadPoolProofs`), for any number of workers, clients and
tasks and both memory models, from `PoolAssumption`:

* `PoolTypes`: `TypeOK`.
* `PoolCellExclusive`, `PoolResetSafe`: `TaskCellExclusive` and
  `ResetClobbersNothing` follow from `PoolInv`. It says, per worker, at which
  steps its `task` and its gate belong to it and at which to the dispatcher
  (`Cell`), which worker the dispatcher is giving a task to (`Given`), and that
  no worker is stopped before the dispatcher is joined (`JoinedFirst`). The
  worker resets its gate before it clears `poolFlag`, so the dispatcher's
  compare-exchange separates the two owners. The store buffer plays no part:
  only the dispatcher's stores to its own gate are delayed.
* `PoolKeepsTasks`: `TasksInOnePlace`. `TaskInv` says that
  no task is twice in the queue or also with a thread (`Queued`), no task is with
  two threads and a worker's position tells whether it has started (`Held`),
  every submitted task is accounted for (`Accounted`), the dispatcher's local is
  empty before it dequeues (`AtWork`), and a task that another one submits is
  submitted once (`Spawned`, from `SpawnAssumption`: a task of the model names one
  call of `assignTask`). `PoolInv` gives that the member `task` is empty when
  `activateWorker` writes it.
* `PoolLosesNoWakeup`: `NoLostWakeup` without store buffering, `~TSO`. `WakeInv` adds for each kind of sleeper what keeps its gate
  open: a non-empty queue has an open gate, a recheck to come or a caller that
  will open it (`WorkSeen`); a task in a worker has an open gate or a dispatcher
  about to open it (`TaskSeen`); a stopped thread has an open gate or the
  destructor about to open it (`StopSeen`). `PoolTsoTask` shows that the condition
  is needed.

**spscRingBuffer** (`QueueBenchProofs`), for any set of rings and threads in which a ring has one producer and one consumer, any
number of slots, and payload operations that may throw; from the assumptions of
`SpscRingBuffer` and `PingPongAssumption` (the two rings of `pingPong` connect the
same two threads, in opposite directions).

A step of a thread changes one ring in one of ten ways (`RingStep`: an enqueue
begins, enters its slot, writes, publishes or throws, and the same for a dequeue)
and leaves every other ring as it was (`Untouched`), so `QueueInv` is kept ring by
ring:

* `SpscSlotsAreExclusive`: `Held` says that the full or empty mark a call saw
  when it left its spin loop is there as long as it is in the slot. The cursors
  alone would not do: after an exception they may point to the same slot.
* `SpscPendingIsIntact`: `Numbered` says that every enqueue carries its number up
  to the slot, `Intact` that the full slots, but for one a dequeue has emptied and
  not yet marked, hold what was sent and not yet received, each item once.
* `SpscIsInOrder`: as long as no call has thrown, the cursors are the counts of
  calls modulo `BUFFER_SIZE` and the counts are at most `BUFFER_SIZE` apart
  (`Counted`), what was received is the numbers from 1 on (`Sequenced`), and a
  full slot holds the number its position says (`Placed`). `RoundTrip` follows the
  two threads of `pingPong` through the four stages of a round trip.
* `SpscIsHandoffQueue`: `Req \notin Throwing` gives that the variables of
  `HandoffQueue` are determined by the counts (`BarsAre`, from `FifoInv`), so that
  each of the ten changes is a step of the abstract queue or a stutter. It is the
  safety part of `ImplementsHandoffQueue`.

Only model-checked: that the accounting checks of the benchmarks do not fail (the
other part of `ReportHonest`) and that the counters of the index pool add up to
the number of pairs (part of `WorkloadFinishes`), both sums over a function,
which take an induction, and all liveness, the fairness in `ImplementsHandoffQueue` included,
which like `ENABLED` is beyond TLAPS's backends.

## 6. Not modelled

* `timeNow`: formats the wall clock; it has no state.
* `PaddedAtomic`, `AstraLib.hpp`: layout and includes.
* `tests`, `demo`: programs that use the library. The tests are read for what
  they claim.
* Adapters of third-party libraries in the benchmarks: the libraries are not in
  the repository. `calibrateTsc`, percentiles, medians and tables: arithmetic on
  doubles and printing.
* Overflow of the 64-bit tickets: out of reach in the life of a process.
* `clearBuffer` racing with other calls, two consumers in `batchDequeue`, a
  second producer or consumer of an SPSC ring, and `assignTask` during
  `~ThreadPool`: excluded by contract.
* The order of the time stamps of `debugMessage`: they are read before the flag
  is taken, so lines may be out of order; there is nothing to state.
