------------------------------ MODULE ThreadPool ------------------------------
(***************************************************************************)
(* Threading/ThreadPool.hpp: callers of assignTask(), the dispatcher       *)
(* thread, the workers, and the destructors that join them, at the         *)
(* granularity of their accesses to shared memory.  The dispatcher and     *)
(* each worker block on a ThreadGate of their own: a flag and a futex.     *)
(*                                                                         *)
(* taskQueue is the queue HandoffQueue.tla specifies, with a step of its   *)
(* own for the publication of an item.  The dispatcher is its sole         *)
(* consumer, so its isEmpty() is one look at the queue.                    *)
(*                                                                         *)
(* Memory is x86-TSO when TSO holds and sequentially consistent otherwise. *)
(* Of all the plain stores only the dispatcher's stores to taskFlag can be *)
(* followed by a load of its own before an instruction that drains the     *)
(* store buffer (a locked instruction, a seq_cst fence, the futex call),   *)
(* so only these are buffered.                                             *)
(***************************************************************************)
EXTENDS Integers, Sequences

CONSTANTS
  THREAD_COUNT,     \* template parameter
  QUEUE_SIZE,       \* capacity of taskQueue (1024 in the code)
  Clients,          \* threads outside the pool that call assignTask
  D,                \* the dispatcher thread; also names taskGate and running
  Owner,            \* the thread that destroys the pool
  Tasks,            \* tasks, each submitted once
  NoTask,           \* an empty std::function
  EmptyTasks,       \* those of Tasks submitted as an empty std::function
  Spawn,            \* Spawn[k]: the task that task k submits, or NoTask
  TSO               \* the memory model

WorkerIds == 0 .. THREAD_COUNT - 1
Callers   == Clients \cup WorkerIds
Gated     == WorkerIds \cup {D}

ASSUME PoolAssumption ==
  /\ THREAD_COUNT \in Nat \ {0}      \* the static_assert
  /\ QUEUE_SIZE \in Nat \ {0}
  /\ Clients \cap (Gated \cup {Owner}) = {} /\ D \notin WorkerIds /\ Owner \notin Gated
  /\ NoTask \notin Tasks
  /\ EmptyTasks \subseteq Tasks
  /\ Spawn \in [Tasks -> Tasks \cup {NoTask}]
  /\ TSO \in BOOLEAN

\* A task names one call of assignTask.
ASSUME SpawnAssumption ==
  \A j, k \in Tasks : Spawn[j] = Spawn[k] /\ Spawn[j] # NoTask => j = k

VARIABLES
  flag,       \* flag[D] is taskFlag, flag[w] the flag of worker w
  sb,         \* the dispatcher's buffered stores to taskFlag
  running,    \* running[D] is the pool's, running[w] the worker's
  poolFlag,   \* poolFlag of each worker
  queue,      \* taskQueue: tasks, and whether each is published
  task,       \* task[w]: the worker's member; task[D]: the dispatcher's local
  arg,        \* argument of an assignTask call in progress
  id,         \* lastIdDispatched
  victim,     \* the thread the destructors have come to
  pc,
  submitted, started, dropped     \* history

mem  == <<flag, sb, running, poolFlag>>
hist == <<submitted, started, dropped>>
vars == <<mem, queue, task, arg, id, victim, pc, hist>>

Init ==
  /\ flag = [g \in Gated |-> 0] /\ sb = <<>>
  /\ running = [p \in Gated |-> TRUE]
  /\ poolFlag = [w \in WorkerIds |-> 0]
  /\ queue = <<>>
  /\ task = [p \in Gated |-> NoTask]
  /\ arg = [x \in Callers |-> NoTask]
  /\ id = 0 /\ victim = D
  /\ pc = [p \in Gated \cup Clients \cup {Owner} |->
             IF p \in Gated THEN "loop" ELSE IF p = Owner THEN "alive" ELSE "idle"]
  /\ submitted = {} /\ started = [k \in Tasks |-> 0] /\ dropped = {}

Step(p, from, to) == pc[p] = from /\ pc' = [pc EXCEPT ![p] = to]

-----------------------------------------------------------------------------
(* ThreadGate, on the store buffer and the futex.                          *)

Fenced(p) == p = D => sb = <<>>

\* A thread sees its own buffered stores.
LoadFlag(p) == IF Fenced(p) THEN flag[p] ELSE sb[Len(sb)]

StoreFlag(p, g, v) ==
  IF TSO /\ p = D /\ g = D
    THEN sb' = Append(sb, v) /\ UNCHANGED flag
    ELSE flag' = [flag EXCEPT ![g] = v] /\ UNCHANGED sb

DrainBuffer ==
  /\ sb # <<>>
  /\ flag' = [flag EXCEPT ![D] = Head(sb)]
  /\ sb' = Tail(sb)
  /\ UNCHANGED <<running, poolFlag, queue, task, arg, id, victim, pc, hist>>

\* The head of both thread loops, and waiter().
WaiterStep(p) ==
  /\ \/ running[p] /\ Step(p, "loop", "wait")
     \/ ~running[p] /\ Step(p, "loop", "done")
     \/ LoadFlag(p) = 1 /\ Step(p, "wait", "woken")
     \/ LoadFlag(p) # 1 /\ Step(p, "wait", "futex")
     \/ Fenced(p) /\ flag[p] = 0 /\ Step(p, "futex", "asleep")   \* FUTEX_WAIT
     \/ Fenced(p) /\ flag[p] # 0 /\ Step(p, "futex", "wait")     \* EAGAIN
  /\ UNCHANGED <<mem, queue, task, arg, id, victim, hist>>

\* FUTEX_WAIT returns without a FUTEX_WAKE (a signal, or spuriously).
SpuriousWake(p) ==
  /\ Step(p, "asleep", "wait")
  /\ UNCHANGED <<mem, queue, task, arg, id, victim, hist>>

\* signaler() of gate g by thread p: the store, then FUTEX_WAKE.
SignalStore(p, from, to, g) ==
  /\ Step(p, from, to) /\ StoreFlag(p, g, 1)
  /\ UNCHANGED <<running, poolFlag, queue, task, arg, id, victim, hist>>

SignalWake(p, from, to, g) ==
  /\ pc[p] = from /\ Fenced(p)
  /\ pc' = [pc EXCEPT ![p] = to, ![g] = IF @ = "asleep" THEN "wait" ELSE @]

-----------------------------------------------------------------------------
(* assignTask(task), called by a client or by a task that a worker runs.   *)

AssignClaim(x, k) ==
  /\ \/ x \in Clients /\ pc[Owner] = "alive" /\ Step(x, "idle", "publish")
        /\ k \notin submitted /\ \A j \in Tasks : Spawn[j] # k
     \/ x \in WorkerIds /\ Step(x, "spawn", "publish") /\ k = Spawn[task[x]]
  /\ queue' = Append(queue, [task |-> k, ready |-> FALSE])
  /\ submitted' = submitted \cup {k}
  /\ arg' = [arg EXCEPT ![x] = k]
  /\ UNCHANGED <<mem, task, id, victim, started, dropped>>

AssignPublish(x) ==
  /\ Step(x, "publish", "setFlag")
  /\ \E i \in 1 .. Len(queue) :
       /\ i <= QUEUE_SIZE /\ queue[i].task = arg[x]
       /\ queue' = [queue EXCEPT ![i] = [task |-> arg[x], ready |-> TRUE]]
  /\ UNCHANGED <<mem, task, arg, id, victim, hist>>

AssignWake(x) ==
  /\ SignalWake(x, "wake", IF x \in WorkerIds THEN "clear" ELSE "idle", D)
  /\ arg' = [arg EXCEPT ![x] = NoTask]
  /\ UNCHANGED <<mem, queue, task, id, victim, hist>>

Assign(x) == AssignPublish(x) \/ SignalStore(x, "setFlag", "wake", D) \/ AssignWake(x)

-----------------------------------------------------------------------------
(* taskDispatcher.                                                         *)

IsEmpty == queue = <<>>

DispatcherBranch ==
  /\ \/ running[D] /\ Step(D, "woken", "isEmpty")
     \/ ~running[D] /\ Step(D, "woken", "drained")
     \/ ~IsEmpty /\ Step(D, "isEmpty", "dequeue")
     \/ IsEmpty /\ Step(D, "isEmpty", "drained")
     \/ ~IsEmpty /\ Step(D, "drained", "loop")
     \/ IsEmpty /\ Step(D, "drained", "reset")
     \/ ~IsEmpty /\ Step(D, "recheck", "signal")
     \/ IsEmpty /\ Step(D, "recheck", "loop")
  /\ UNCHANGED <<mem, queue, task, arg, id, victim, hist>>

\* No second look at the queue after the reset.
DispatcherReset_Mutant ==
  /\ Step(D, "reset", "loop") /\ StoreFlag(D, D, 0)
  /\ UNCHANGED <<running, poolFlag, queue, task, arg, id, victim, hist>>

\* The gate is never reset.
DispatcherReset_Mutant2 ==
  /\ Step(D, "reset", "recheck")
  /\ UNCHANGED <<mem, queue, task, arg, id, victim, hist>>

DispatcherReset ==
  /\ Step(D, "reset", "recheck") /\ StoreFlag(D, D, 0)
  /\ UNCHANGED <<running, poolFlag, queue, task, arg, id, victim, hist>>

DispatcherSignalWake ==
  /\ SignalWake(D, "signalWake", "loop", D)
  /\ UNCHANGED <<mem, queue, task, arg, id, victim, hist>>

DispatcherDequeue ==
  /\ Step(D, "dequeue", "scan") /\ Fenced(D)
  /\ ~IsEmpty /\ Head(queue).ready
  /\ task' = [task EXCEPT ![D] = Head(queue).task]
  /\ queue' = Tail(queue)
  /\ UNCHANGED <<mem, arg, id, victim, hist>>

NextId_Mutant == id + 1

NextId == (id + 1) % THREAD_COUNT

\* Both round-robin loops: compare_exchange on poolFlag until one succeeds.
DispatcherScan ==
  /\ pc[D] = "scan"
  /\ \/ /\ poolFlag[id] = 0 /\ Step(D, "scan", "giveTask")
        /\ poolFlag' = [poolFlag EXCEPT ![id] = 1]
        /\ UNCHANGED id
     \/ /\ poolFlag[id] # 0 /\ id' = NextId
        /\ UNCHANGED <<pc, poolFlag>>
  /\ UNCHANGED <<flag, sb, running, queue, task, arg, victim, hist>>

\* activateWorker: the task, the worker's flag, FUTEX_WAKE; then id moves on.
ActivateTask ==
  /\ Step(D, "giveTask", "giveFlag")
  /\ task' = [task EXCEPT ![id] = task[D], ![D] = NoTask]
  /\ UNCHANGED <<mem, queue, arg, id, victim, hist>>

ActivateWake ==
  /\ SignalWake(D, "giveWake", "woken", id)
  /\ id' = NextId
  /\ UNCHANGED <<mem, queue, task, arg, victim, hist>>

Dispatcher ==
  \/ WaiterStep(D) \/ DispatcherBranch
  \/ DispatcherReset \/ SignalStore(D, "signal", "signalWake", D) \/ DispatcherSignalWake
  \/ DispatcherDequeue \/ DispatcherScan
  \/ ActivateTask \/ SignalStore(D, "giveFlag", "giveWake", id) \/ ActivateWake

-----------------------------------------------------------------------------
(* Worker::thread_loop, after waiter().                                    *)

HasTask(w) == task[w] \notin EmptyTasks \cup {NoTask}

WorkerBranch(w) ==
  /\ \/ HasTask(w) /\ Step(w, "woken", "run")
     \/ ~HasTask(w) /\ Step(w, "woken", "loop")
  /\ UNCHANGED <<mem, queue, task, arg, id, victim, hist>>

WorkerRun(w) ==
  /\ pc[w] = "run"
  /\ Step(w, "run", IF Spawn[task[w]] = NoTask THEN "clear" ELSE "spawn")
  /\ started' = [started EXCEPT ![task[w]] = @ + 1]
  /\ UNCHANGED <<mem, queue, task, arg, id, victim, submitted, dropped>>

\* The worker keeps the task it has run.
WorkerClear_Mutant(w) ==
  /\ Step(w, "clear", "reset")
  /\ UNCHANGED <<mem, queue, task, arg, id, victim, hist>>

\* The worker marks itself free before it resets its gate.
WorkerClear_Mutant2(w) ==
  /\ Step(w, "clear", "reset")
  /\ task' = [task EXCEPT ![w] = NoTask]
  /\ poolFlag' = [poolFlag EXCEPT ![w] = 0]
  /\ UNCHANGED <<flag, sb, running, queue, arg, id, victim, hist>>

WorkerClear(w) ==
  /\ Step(w, "clear", "reset")
  /\ task' = [task EXCEPT ![w] = NoTask]
  /\ UNCHANGED <<mem, queue, arg, id, victim, hist>>

WorkerReset(w) ==
  /\ Step(w, "reset", "free") /\ StoreFlag(w, w, 0)
  /\ UNCHANGED <<running, poolFlag, queue, task, arg, id, victim, hist>>

WorkerFree(w) ==
  /\ Step(w, "free", "loop")
  /\ poolFlag' = [poolFlag EXCEPT ![w] = 0]
  /\ UNCHANGED <<flag, sb, running, queue, task, arg, id, victim, hist>>

Worker(w) ==
  \/ WaiterStep(w) \/ WorkerBranch(w)
  \/ WorkerRun(w) \/ (\E k \in Tasks : AssignClaim(w, k)) \/ Assign(w)
  \/ WorkerClear(w) \/ WorkerReset(w) \/ WorkerFree(w)

-----------------------------------------------------------------------------
(* ~ThreadPool stops, signals and joins the dispatcher; then the members   *)
(* go in reverse order: taskQueue with what is left in it, and the workers *)
(* from the last to the first, each stopped, signalled and joined.         *)

\* Nobody may use the pool any more, the tasks still to run included.
DestroyStart ==
  /\ Step(Owner, "alive", "stop")
  /\ \A x \in Callers : arg[x] = NoTask
  /\ \A k \in submitted : Spawn[k] \in submitted \cup {NoTask}
  /\ UNCHANGED <<mem, queue, task, arg, id, victim, hist>>

Stop ==
  /\ Step(Owner, "stop", "setFlag")
  /\ running' = [running EXCEPT ![victim] = FALSE]
  /\ UNCHANGED <<flag, sb, poolFlag, queue, task, arg, id, victim, hist>>

\* The flag is set and nobody is woken.
StopWake_Mutant ==
  /\ Step(Owner, "wake", "join")
  /\ UNCHANGED <<mem, queue, task, arg, id, victim, hist>>

StopWake ==
  /\ SignalWake(Owner, "wake", "join", victim)
  /\ UNCHANGED <<mem, queue, task, arg, id, victim, hist>>

Join ==
  /\ pc[victim] = "done"
  /\ Step(Owner, "join", IF victim = 0 THEN "gone" ELSE "stop")
  /\ victim' = IF victim = D THEN THREAD_COUNT - 1 ELSE IF victim = 0 THEN 0 ELSE victim - 1
  /\ queue' = <<>>
  /\ task' = [task EXCEPT ![victim] = NoTask]
  /\ dropped' = dropped \cup {queue[i].task : i \in 1 .. Len(queue)} \cup ({task[victim]} \ {NoTask})
  /\ UNCHANGED <<mem, arg, id, submitted, started>>

Destructor == Stop \/ SignalStore(Owner, "setFlag", "wake", victim) \/ StopWake \/ Join

-----------------------------------------------------------------------------
Next ==
  \/ \E x \in Clients : Assign(x) \/ \E k \in Tasks : AssignClaim(x, k)
  \/ Dispatcher \/ DrainBuffer
  \/ \E w \in WorkerIds : Worker(w)
  \/ \E p \in Gated : SpuriousWake(p)
  \/ DestroyStart \/ Destructor

Spec == Init /\ [][Next]_vars

\* Every thread of the pool, every call in progress and the destructor keep
\* being scheduled, and a buffered store reaches memory.  No client need call.
FairSpec ==
  /\ Spec
  /\ WF_vars(Dispatcher) /\ WF_vars(DrainBuffer) /\ WF_vars(Destructor)
  /\ \A x \in Clients : WF_vars(Assign(x))
  /\ \A w \in WorkerIds : WF_vars(Worker(w))

-----------------------------------------------------------------------------
(* Properties.                                                             *)

Labels == {"idle", "publish", "setFlag", "wake", "loop", "wait", "futex", "asleep", "woken",
           "done", "isEmpty", "dequeue", "scan", "giveTask", "giveFlag", "giveWake", "drained",
           "reset", "recheck", "signal", "signalWake", "run", "spawn", "clear", "free",
           "alive", "stop", "join", "gone"}

\* Every variable has the type its declaration gives it.
TypeOK ==
  /\ flag \in [Gated -> {0, 1}]
  /\ sb \in Seq({0, 1})
  /\ running \in [Gated -> BOOLEAN]
  /\ poolFlag \in [WorkerIds -> {0, 1}]
  /\ queue \in Seq([task : Tasks, ready : BOOLEAN])
  /\ task \in [Gated -> Tasks \cup {NoTask}]
  /\ arg \in [Callers -> Tasks \cup {NoTask}]
  /\ id \in WorkerIds
  /\ victim \in Gated
  /\ pc \in [Gated \cup Clients \cup {Owner} -> Labels]
  /\ submitted \in SUBSET Tasks
  /\ started \in [Tasks -> Nat]
  /\ dropped \in SUBSET Tasks

\* Where a submitted task is that has not finished: positions of taskQueue, and
\* threads that hold it.
Positions(k) == {i \in 1 .. Len(queue) : queue[i].task = k}
Holders(k) == {p \in Gated : task[p] = k}

\* A task given to assignTask is never lost and never duplicated: it is in one
\* place, or was dropped by the destructor, or has run; and it runs at most once.
TasksInOnePlace ==
  \A k \in submitted :
    /\ started[k] <= 1
    /\ \/ \E i \in Positions(k) : Positions(k) = {i} /\ Holders(k) = {} /\ started[k] = 0
       \/ \E p \in Gated : Holders(k) = {p} /\ Positions(k) = {}
       \/ Positions(k) = {} /\ Holders(k) = {} /\ (started[k] = 1 \/ k \in dropped)

\* Worker::task is a plain member: when the dispatcher moves a task into it the
\* worker is not between waking up and freeing itself.
TaskCellExclusive ==
  pc[D] \in {"giveTask", "giveFlag"} =>
    /\ pc[id] \in {"loop", "wait", "futex", "asleep"}
    /\ pc[D] = "giveTask" => task[id] = NoTask

\* A worker that resets its gate clobbers no wake-up: no new task is on its way
\* until it marks itself free (the order of gate.reset() and poolFlag.store(0)).
ResetClobbersNothing ==
  \A w \in WorkerIds : pc[w] \in {"reset", "free"} => poolFlag[w] = 1 /\ task[w] = NoTask

Signalling(p) == pc[p] \in {"setFlag", "wake"}

\* Nobody sleeps through work: whoever is blocked in FUTEX_WAIT while there is
\* something for it to do has a signaler() still on its way.
NoLostWakeup ==
  /\ pc[D] = "asleep" /\ ~IsEmpty =>
       \E x \in Callers : pc[x] = "publish" \/ Signalling(x)
  /\ \A w \in WorkerIds : pc[w] = "asleep" /\ task[w] # NoTask =>
       id = w /\ pc[D] \in {"giveFlag", "giveWake"}
  /\ \A p \in Gated : pc[p] = "asleep" /\ ~running[p] => victim = p /\ Signalling(Owner)

\* Every task runs, unless the pool is destroyed first.
EveryTaskRuns ==
  \A k \in Tasks \ EmptyTasks :
    k \in submitted ~> (started[k] = 1 \/ pc[Owner] # "alive")

\* A worker that is never free again: it was given an empty std::function, or its
\* task waits in assignTask() for a cell that only the dispatcher can empty.
Lost(w) ==
  \/ task[w] \in EmptyTasks
  \/ pc[w] = "publish" /\ \A i \in Positions(arg[w]) : i > QUEUE_SIZE

\* The dispatcher looks for a free worker, and all of them are lost.
Wedged == pc[D] = "scan" /\ \A w \in WorkerIds : Lost(w)

\* Tasks that call assignTask() and empty tasks are the only ways to wedge the
\* pool, and only once they hold every worker for good: otherwise all that was
\* submitted has run at some later moment, until the pool is destroyed.
OnlyLostWorkersWedge ==
  []<>((\A k \in submitted \ EmptyTasks : started[k] = 1) \/ Wedged \/ pc[Owner] # "alive")

\* ~ThreadPool returns, unless it finds the pool wedged: the dispatcher's search
\* for a free worker does not read running.
DestructorReturns == pc[Owner] = "stop" ~> pc[Owner] = "gone" \/ Wedged

\* A dispatcher without a task to hand out sleeps instead of spinning on its gate.
IdleDispatcherSleeps ==
  []<>(pc[D] = "asleep" \/ ~IsEmpty \/ task[D] # NoTask \/ pc[Owner] # "alive")

=============================================================================
