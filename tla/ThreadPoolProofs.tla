--------------------------- MODULE ThreadPoolProofs ---------------------------
(***************************************************************************)
(* For any number of workers, clients and tasks, any queue capacity and    *)
(* both memory models: the handshake of poolFlag, the gate and the member  *)
(* task of each worker, and that no task is lost, duplicated or run twice. *)
(* Without a store buffer no thread of the pool sleeps through a wake-up.  *)
(***************************************************************************)
EXTENDS ThreadPool, TLAPS

Threads == Gated \cup Clients \cup {Owner}

\* Where a worker is that holds no task, and where one is that was woken for one.
Idle == {"loop", "wait", "futex", "asleep"}
Busy == {"run", "spawn", "publish", "setFlag", "wake", "clear", "reset", "free"}

\* While the dispatcher lives, a worker whose poolFlag is 0 is idle behind a closed gate.
Cell(w) ==
  /\ poolFlag[w] = 0 =>
       task[w] = NoTask /\ (pc[D] = "done" \/ (flag[w] = 0 /\ pc[w] \in Idle))
  /\ pc[w] \in Busy => poolFlag[w] = 1
  /\ pc[w] \in {"reset", "free"} => task[w] = NoTask
  /\ pc[w] = "free" => flag[w] = 0 \/ pc[D] = "done"
  /\ ~running[w] => pc[D] = "done"

Given ==
  pc[D] \in {"giveTask", "giveFlag"} =>
    /\ poolFlag[id] = 1 /\ flag[id] = 0 /\ pc[id] \in Idle
    /\ pc[D] = "giveTask" => task[id] = NoTask

\* The workers are stopped only after the dispatcher was joined.
JoinedFirst == victim \in WorkerIds => pc[D] = "done"

PoolInv == TypeOK /\ (\A w \in WorkerIds : Cell(w)) /\ Given /\ JoinedFirst

-----------------------------------------------------------------------------
(* Steps, and types.                                                       *)

\* What the queue operations keep.
LEMMA SeqTypes ==
  ASSUME NEW S
  PROVE  /\ <<>> \in Seq(S)
         /\ \A s \in Seq(S), e \in S : Append(s, e) \in Seq(S)
         /\ \A s \in Seq(S) : s # <<>> => Head(s) \in S /\ Tail(s) \in Seq(S)
         /\ \A s \in Seq(S) : \A i \in 1 .. Len(s) : s[i] \in S
         /\ \A s \in Seq(S), e \in S : \A i \in 1 .. Len(s) : [s EXCEPT ![i] = e] \in Seq(S)
OBVIOUS

LEMMA Names ==
  /\ D \in Gated /\ D \in Threads /\ D \notin WorkerIds /\ D # Owner
  /\ Owner \in Threads /\ Owner \notin Gated /\ Owner \notin Callers
  /\ WorkerIds \subseteq Gated /\ Gated \subseteq Threads /\ Clients \subseteq Threads
  /\ Callers \subseteq Threads /\ D \notin Callers /\ Clients \cap WorkerIds = {}
BY Zenon, PoolAssumption DEF Gated, Threads, Callers

LEMMA Moves ==
  ASSUME TypeOK, NEW p \in Threads, NEW from, NEW to \in Labels, Step(p, from, to)
  PROVE  /\ pc' \in [Threads -> Labels] /\ pc[p] = from /\ pc'[p] = to
         /\ \A q \in Threads : q # p => pc'[q] = pc[q]
BY Zenon DEF TypeOK, Step, Threads

\* The head of a loop and waiter() move between these labels.
LEMMA WaiterMoves ==
  ASSUME TypeOK, NEW p \in Gated, WaiterStep(p)
  PROVE  /\ \A q \in Threads : q # p => pc'[q] = pc[q]
         /\ pc[p] \in {"loop", "wait", "futex"}
         /\ pc'[p] \in {"wait", "done", "woken", "futex", "asleep"}
         /\ (pc'[p] = "done" => ~running[p]) /\ (pc'[p] = "woken" => LoadFlag(p) = 1)
<1>1. PICK from \in {"loop", "wait", "futex"}, to \in {"wait", "done", "woken", "futex", "asleep"} :
        Step(p, from, to) /\ (to = "done" => ~running[p]) /\ (to = "woken" => LoadFlag(p) = 1)
  BY Zenon DEF WaiterStep
<1>2. to \in Labels /\ p \in Threads
  BY Zenon DEF Labels, Threads
<1>3. /\ pc[p] = from /\ pc'[p] = to
      /\ \A q \in Threads : q # p => pc'[q] = pc[q]
  BY Zenon, <1>1, <1>2, Moves
<1> QED
  BY Zenon, <1>1, <1>3

\* FUTEX_WAKE moves its caller and, if it is asleep, the thread behind gate g.
LEMMA Wakes ==
  ASSUME TypeOK, NEW p \in Threads, NEW g \in Gated, NEW from, NEW to \in Labels,
         from # "asleep", to # "asleep", SignalWake(p, from, to, g)
  PROVE  /\ pc' \in [Threads -> Labels] /\ pc[p] = from /\ pc'[p] = to
         /\ \A q \in Threads : q # p => pc'[q] = pc[q] \/ (pc[q] = "asleep" /\ pc'[q] = "wait")
<1>1. pc \in [Threads -> Labels] /\ g \in Threads /\ "wait" \in Labels
  BY Zenon DEF TypeOK, Threads, Labels
<1>2. CASE g = p
  BY <1>1, <1>2 DEF SignalWake
<1>3. CASE g # p
  BY Zenon, <1>1, <1>3 DEF SignalWake
<1> QED
  BY Zenon, <1>2, <1>3

\* No thread but t moves, except that one may be woken.
Mover(t) == \A q \in Threads : q # t => pc'[q] = pc[q] \/ (pc[q] = "asleep" /\ pc'[q] = "wait")

LEMMA StepMoves ==
  ASSUME TypeOK, NEW p \in Threads, NEW from, NEW to \in Labels, Step(p, from, to)
  PROVE  Mover(p) /\ pc[p] = from /\ pc'[p] = to
BY Zenon, Moves DEF Mover

LEMMA WakeMoves ==
  ASSUME TypeOK, NEW p \in Threads, NEW g \in Gated, NEW from, NEW to \in Labels,
         from # "asleep", to # "asleep", SignalWake(p, from, to, g)
  PROVE  Mover(p) /\ pc[p] = from /\ pc'[p] = to
BY Zenon, Wakes DEF Mover

LEMMA StoreType ==
  ASSUME TypeOK, NEW p, NEW g \in Gated, NEW v \in {0, 1}, StoreFlag(p, g, v)
  PROVE  /\ flag' \in [Gated -> {0, 1}] /\ sb' \in Seq({0, 1})
         /\ \A w \in Gated : w # g => flag'[w] = flag[w]
<1>1. CASE TSO /\ p = D /\ g = D
  <2>1. sb \in Seq({0, 1}) /\ sb' = Append(sb, v) /\ flag' = flag
    BY Zenon, <1>1 DEF TypeOK, StoreFlag
  <2>2. sb' \in Seq({0, 1})
    BY Zenon, <2>1, SeqTypes
  <2> QED
    BY Zenon, <2>1, <2>2 DEF TypeOK
<1>2. CASE ~(TSO /\ p = D /\ g = D)
  <2>1. flag' = [flag EXCEPT ![g] = v] /\ sb' = sb
    BY Zenon, <1>2 DEF StoreFlag
  <2> QED
    BY Zenon, <2>1 DEF TypeOK
<1> QED
  BY Zenon, <1>1, <1>2

LEMMA NextIdType == TypeOK => NextId \in WorkerIds
<1> SUFFICES ASSUME TypeOK PROVE (id + 1) % THREAD_COUNT \in 0 .. THREAD_COUNT - 1
  BY Zenon DEF NextId, WorkerIds
<1>1. id \in Nat /\ THREAD_COUNT \in Nat \ {0}
  BY PoolAssumption DEF TypeOK, WorkerIds
<1> QED
  BY <1>1

LEMMA PoolInit == Init => PoolInv
<1> SUFFICES ASSUME Init PROVE PoolInv
  BY Zenon
<1>1. 0 \in WorkerIds
  BY PoolAssumption DEF WorkerIds
<1>2. \A w \in Gated : pc[w] = "loop"
  BY Zenon DEF Init
<1>3. pc \in [Gated \cup Clients \cup {Owner} -> Labels]
  BY Zenon DEF Init, Labels
<1>4. TypeOK
  BY <1>1, <1>3, Names DEF Init, TypeOK
<1> QED
  BY Zenon, <1>2, <1>4, Names DEF Init, PoolInv, Cell, Given, JoinedFirst, Idle, Busy

LEMMA PcOnly ==
  ASSUME TypeOK, pc' \in [Threads -> Labels], UNCHANGED <<mem, queue, task, arg, id, victim, hist>>
  PROVE  TypeOK'
BY Zenon DEF TypeOK, Threads, mem, hist

\* The steps that change nothing but pc.
LEMMA QuietType ==
  ASSUME TypeOK,
         \/ \E p \in Gated : WaiterStep(p) \/ SpuriousWake(p)
         \/ DispatcherBranch \/ DispatcherSignalWake \/ DestroyStart \/ StopWake
         \/ \E w \in WorkerIds : WorkerBranch(w)
  PROVE  TypeOK'
<1>1. ASSUME NEW p \in Gated, WaiterStep(p) PROVE TypeOK'
  <2>1. pc' \in [Threads -> Labels]
    BY Zenon, <1>1, Moves, Names DEF WaiterStep, Labels
  <2> QED
    BY Zenon, <1>1, <2>1, PcOnly DEF WaiterStep
<1>2. ASSUME NEW p \in Gated, SpuriousWake(p) PROVE TypeOK'
  <2>1. pc' \in [Threads -> Labels]
    BY Zenon, <1>2, Moves, Names DEF SpuriousWake, Labels
  <2> QED
    BY Zenon, <1>2, <2>1, PcOnly DEF SpuriousWake
<1>3. CASE DispatcherBranch
  <2>1. pc' \in [Threads -> Labels]
    BY Zenon, <1>3, Moves, Names DEF DispatcherBranch, Labels
  <2> QED
    BY Zenon, <1>3, <2>1, PcOnly DEF DispatcherBranch
<1>4. CASE DispatcherSignalWake
  <2>1. pc' \in [Threads -> Labels]
    BY Zenon, <1>4, Wakes, Names DEF DispatcherSignalWake, Labels
  <2> QED
    BY Zenon, <1>4, <2>1, PcOnly DEF DispatcherSignalWake
<1>5. CASE DestroyStart
  <2>1. pc' \in [Threads -> Labels]
    BY Zenon, <1>5, Moves, Names DEF DestroyStart, Labels
  <2> QED
    BY Zenon, <1>5, <2>1, PcOnly DEF DestroyStart
<1>6. CASE StopWake
  <2>1. victim \in Gated
    BY Zenon DEF TypeOK
  <2>2. pc' \in [Threads -> Labels]
    BY Zenon, <1>6, <2>1, Wakes, Names DEF StopWake, Labels
  <2> QED
    BY Zenon, <1>6, <2>2, PcOnly DEF StopWake
<1>7. ASSUME NEW w \in WorkerIds, WorkerBranch(w) PROVE TypeOK'
  <2>1. pc' \in [Threads -> Labels]
    BY Zenon, <1>7, Moves, Names DEF WorkerBranch, Labels
  <2> QED
    BY Zenon, <1>7, <2>1, PcOnly DEF WorkerBranch
<1> QED
  BY Zenon, <1>1, <1>2, <1>3, <1>4, <1>5, <1>6, <1>7

LEMMA QueueItems ==
  ASSUME TypeOK
  PROVE  \A i \in 1 .. Len(queue) : queue[i] \in [task : Tasks, ready : BOOLEAN]
<1> DEFINE Items == [task : Tasks, ready : BOOLEAN]
<1>1. queue \in Seq(Items)
  BY Zenon DEF TypeOK
<1> HIDE DEF Items
<1>2. \A i \in 1 .. Len(queue) : queue[i] \in Items
  BY Zenon, <1>1, SeqTypes
<1> QED
  BY Zenon, <1>2 DEF Items

\* assignTask().
LEMMA AssignType ==
  ASSUME TypeOK, NEW x \in Callers, Assign(x) \/ \E k \in Tasks : AssignClaim(x, k)
  PROVE  TypeOK'
<1> USE Names DEF mem, hist
<1>1. ASSUME NEW k \in Tasks, AssignClaim(x, k) PROVE TypeOK'
  <2>1. pc' \in [Threads -> Labels]
    BY Zenon, <1>1, Moves DEF AssignClaim, Labels
  <2>2. queue' \in Seq([task : Tasks, ready : BOOLEAN])
    <3>1. [task |-> k, ready |-> FALSE] \in [task : Tasks, ready : BOOLEAN]
      BY Zenon
    <3>2. queue' = Append(queue, [task |-> k, ready |-> FALSE])
      BY Zenon, <1>1 DEF AssignClaim
    <3> QED
      BY Zenon, <3>1, <3>2, SeqTypes DEF TypeOK
  <2> QED
    BY Zenon, <1>1, <2>1, <2>2 DEF AssignClaim, TypeOK, Threads
<1>2. CASE AssignPublish(x)
  <2>1. pc' \in [Threads -> Labels]
    BY Zenon, <1>2, Moves DEF AssignPublish, Labels
  <2>2. PICK i \in 1 .. Len(queue) :
          queue[i].task = arg[x] /\ queue' = [queue EXCEPT ![i] = [task |-> arg[x], ready |-> TRUE]]
    BY Zenon, <1>2 DEF AssignPublish
  <2>3. queue[i] \in [task : Tasks, ready : BOOLEAN]
    BY Zenon, QueueItems
  <2>4. [task |-> arg[x], ready |-> TRUE] \in [task : Tasks, ready : BOOLEAN]
    BY Zenon, <2>2, <2>3
  <2>5. queue' \in Seq([task : Tasks, ready : BOOLEAN])
    BY Zenon, <2>2, <2>4, SeqTypes DEF TypeOK
  <2> QED
    BY Zenon, <1>2, <2>1, <2>5 DEF AssignPublish, TypeOK, Threads
<1>3. CASE SignalStore(x, "setFlag", "wake", D)
  <2>1. pc' \in [Threads -> Labels]
    BY Zenon, <1>3, Moves DEF SignalStore, Labels
  <2>2. flag' \in [Gated -> {0, 1}] /\ sb' \in Seq({0, 1})
    BY Zenon, <1>3, StoreType DEF SignalStore
  <2> QED
    BY Zenon, <1>3, <2>1, <2>2 DEF SignalStore, TypeOK, Threads
<1>4. CASE AssignWake(x)
  <2>1. pc' \in [Threads -> Labels]
    BY Zenon, <1>4, Wakes DEF AssignWake, Labels
  <2> QED
    BY Zenon, <1>4, <2>1 DEF AssignWake, TypeOK, Threads
<1> QED
  BY Zenon, <1>1, <1>2, <1>3, <1>4 DEF Assign

\* The steps of the dispatcher that change more than pc.
LEMMA DispatcherType == ASSUME TypeOK, Dispatcher \/ DrainBuffer PROVE TypeOK'
<1> USE Names DEF mem, hist
<1>1. CASE WaiterStep(D) \/ DispatcherBranch \/ DispatcherSignalWake
  BY Zenon, <1>1, QuietType
<1>2. CASE DispatcherReset
  <2>1. pc' \in [Threads -> Labels] /\ flag' \in [Gated -> {0, 1}] /\ sb' \in Seq({0, 1})
    BY Zenon, <1>2, Moves, StoreType DEF DispatcherReset, Labels
  <2> QED
    BY Zenon, <1>2, <2>1 DEF DispatcherReset, TypeOK, Threads
<1>3. ASSUME NEW g \in Gated, NEW from, NEW to \in Labels, SignalStore(D, from, to, g) PROVE TypeOK'
  <2>1. pc' \in [Threads -> Labels] /\ flag' \in [Gated -> {0, 1}] /\ sb' \in Seq({0, 1})
    BY Zenon, <1>3, Moves, StoreType DEF SignalStore
  <2> QED
    BY Zenon, <1>3, <2>1 DEF SignalStore, TypeOK, Threads
<1>4. CASE DispatcherDequeue
  <2>1. pc' \in [Threads -> Labels]
    BY Zenon, <1>4, Moves DEF DispatcherDequeue, Labels
  <2>2. queue # <<>> /\ queue' = Tail(queue) /\ task' = [task EXCEPT ![D] = Head(queue).task]
    BY Zenon, <1>4 DEF DispatcherDequeue, IsEmpty
  <2>3. Head(queue) \in [task : Tasks, ready : BOOLEAN] /\ queue' \in Seq([task : Tasks, ready : BOOLEAN])
    <3> DEFINE Items == [task : Tasks, ready : BOOLEAN]
    <3>1. queue \in Seq(Items)
      BY Zenon DEF TypeOK
    <3> HIDE DEF Items
    <3>2. Head(queue) \in Items /\ Tail(queue) \in Seq(Items)
      BY Zenon, <2>2, <3>1, SeqTypes
    <3> QED BY Zenon, <2>2, <3>2 DEF Items
  <2>4. task' \in [Gated -> Tasks \cup {NoTask}]
    BY Zenon, <2>2, <2>3 DEF TypeOK
  <2> QED
    BY Zenon, <1>4, <2>1, <2>3, <2>4 DEF DispatcherDequeue, TypeOK, Threads
<1>5. CASE DispatcherScan
  <2>1. pc' \in [Threads -> Labels]
    BY Zenon, <1>5, Moves DEF DispatcherScan, Labels, TypeOK, Threads
  <2> QED
    BY Zenon, <1>5, <2>1, NextIdType DEF DispatcherScan, TypeOK, Threads
<1>6. CASE ActivateTask
  <2>1. pc' \in [Threads -> Labels]
    BY Zenon, <1>6, Moves DEF ActivateTask, Labels
  <2> QED
    BY Zenon, <1>6, <2>1 DEF ActivateTask, TypeOK, Threads
<1>7. CASE ActivateWake
  <2>1. id \in Gated
    BY Zenon DEF TypeOK
  <2>2. pc' \in [Threads -> Labels]
    BY Zenon, <1>7, <2>1, Wakes DEF ActivateWake, Labels
  <2> QED
    BY Zenon, <1>7, <2>2, NextIdType DEF ActivateWake, TypeOK, Threads
<1>8. CASE DrainBuffer
  <2>1. sb \in Seq({0, 1}) /\ sb # <<>>
    BY Zenon, <1>8 DEF DrainBuffer, TypeOK
  <2>2. Head(sb) \in {0, 1} /\ Tail(sb) \in Seq({0, 1})
    BY Zenon, <2>1, SeqTypes
  <2> QED
    BY Zenon, <1>8, <2>2 DEF DrainBuffer, TypeOK
<1>9. id \in Gated /\ "signalWake" \in Labels /\ "giveWake" \in Labels
  BY Zenon DEF TypeOK, Labels
<1> QED
  BY Zenon, <1>1, <1>2, <1>3, <1>4, <1>5, <1>6, <1>7, <1>8, <1>9 DEF Dispatcher

LEMMA WorkerType == ASSUME TypeOK, NEW w \in WorkerIds, Worker(w) PROVE TypeOK'
<1> USE Names DEF mem, hist
<1>1. CASE WaiterStep(w) \/ WorkerBranch(w)
  BY Zenon, <1>1, QuietType
<1>2. CASE Assign(w) \/ \E k \in Tasks : AssignClaim(w, k)
  BY Zenon, <1>2, AssignType DEF Callers
<1>3. CASE WorkerRun(w)
  <2>1. pc' \in [Threads -> Labels]
    BY Zenon, <1>3, Moves DEF WorkerRun, Labels
  <2>2. started' \in [Tasks -> Nat]
    <3>1. started \in [Tasks -> Nat] /\ started' = [started EXCEPT ![task[w]] = started[task[w]] + 1]
      BY Zenon, <1>3 DEF WorkerRun, TypeOK
    <3>2. CASE task[w] \in Tasks
      BY <3>1, <3>2
    <3>3. CASE task[w] \notin Tasks
      BY Zenon, <3>1, <3>3
    <3> QED
      BY Zenon, <3>2, <3>3
  <2> QED
    BY Zenon, <1>3, <2>1, <2>2 DEF WorkerRun, TypeOK, Threads
<1>4. CASE WorkerClear(w)
  <2>1. pc' \in [Threads -> Labels]
    BY Zenon, <1>4, Moves DEF WorkerClear, Labels
  <2> QED
    BY Zenon, <1>4, <2>1 DEF WorkerClear, TypeOK, Threads
<1>5. CASE WorkerReset(w)
  <2>1. pc' \in [Threads -> Labels] /\ flag' \in [Gated -> {0, 1}] /\ sb' \in Seq({0, 1})
    BY Zenon, <1>5, Moves, StoreType DEF WorkerReset, Labels
  <2> QED
    BY Zenon, <1>5, <2>1 DEF WorkerReset, TypeOK, Threads
<1>6. CASE WorkerFree(w)
  <2>1. pc' \in [Threads -> Labels]
    BY Zenon, <1>6, Moves DEF WorkerFree, Labels
  <2> QED
    BY Zenon, <1>6, <2>1 DEF WorkerFree, TypeOK, Threads
<1> QED
  BY Zenon, <1>1, <1>2, <1>3, <1>4, <1>5, <1>6 DEF Worker

LEMMA DestructorType == ASSUME TypeOK, DestroyStart \/ Destructor PROVE TypeOK'
<1> USE Names DEF mem, hist
<1>1. CASE DestroyStart \/ StopWake
  BY Zenon, <1>1, QuietType
<1>2. CASE Stop
  <2>1. pc' \in [Threads -> Labels]
    BY Zenon, <1>2, Moves DEF Stop, Labels
  <2> QED
    BY Zenon, <1>2, <2>1 DEF Stop, TypeOK, Threads
<1>3. CASE SignalStore(Owner, "setFlag", "wake", victim)
  <2>1. victim \in Gated
    BY Zenon DEF TypeOK
  <2>2. pc' \in [Threads -> Labels] /\ flag' \in [Gated -> {0, 1}] /\ sb' \in Seq({0, 1})
    BY Zenon, <1>3, <2>1, Moves, StoreType DEF SignalStore, Labels
  <2> QED
    BY Zenon, <1>3, <2>2 DEF SignalStore, TypeOK, Threads
<1>4. CASE Join
  <2>1. pc' \in [Threads -> Labels]
    BY Zenon, <1>4, Moves DEF Join, Labels
  <2>2. victim' \in Gated
    BY <1>4, PoolAssumption DEF Join, TypeOK, Gated, WorkerIds
  <2>3. task' \in [Gated -> Tasks \cup {NoTask}] /\ task[victim] \in Tasks \cup {NoTask}
    BY Zenon, <1>4 DEF Join, TypeOK
  <2>4. dropped' \in SUBSET Tasks
    <3>1. \A i \in 1 .. Len(queue) : queue[i].task \in Tasks
      BY Zenon, QueueItems
    <3> QED
      BY <1>4, <2>3, <3>1 DEF Join, TypeOK
  <2>5. queue' \in Seq([task : Tasks, ready : BOOLEAN])
    BY Zenon, <1>4, SeqTypes DEF Join
  <2> QED
    BY Zenon, <1>4, <2>1, <2>2, <2>3, <2>4, <2>5 DEF Join, TypeOK, Threads
<1> QED
  BY Zenon, <1>1, <1>2, <1>3, <1>4 DEF Destructor

LEMMA TypeNext == TypeOK /\ [Next]_vars => TypeOK'
<1> SUFFICES ASSUME TypeOK, [Next]_vars PROVE TypeOK'
  BY Zenon
<1>1. CASE UNCHANGED vars
  BY Zenon, <1>1, PcOnly DEF vars, TypeOK, Threads
<1>2. ASSUME NEW x \in Clients, Assign(x) \/ \E k \in Tasks : AssignClaim(x, k) PROVE TypeOK'
  BY Zenon, <1>2, AssignType DEF Callers
<1> QED
  BY Zenon, <1>1, <1>2, QuietType, DispatcherType, WorkerType, DestructorType DEF Next

-----------------------------------------------------------------------------
(* The handshake.                                                          *)

\* What leaves the cell of worker q alone.
Untouched(q) ==
  /\ poolFlag'[q] = poolFlag[q] /\ task'[q] = task[q] /\ flag'[q] = flag[q]
  /\ running'[q] = running[q]
  /\ pc'[q] = pc[q] \/ (pc[q] = "asleep" /\ pc'[q] = "wait")

LEMMA CellKept ==
  ASSUME NEW w, Cell(w), Untouched(w), pc[D] = "done" => pc'[D] = "done"
  PROVE  Cell(w)'
BY Zenon DEF Cell, Untouched, Idle, Busy

LEMMA GivenKept ==
  ASSUME Given, Untouched(id), pc'[D] = pc[D], id' = id
  PROVE  Given'
BY Zenon DEF Given, Untouched, Idle

\* A step that touches no cell and neither id nor victim, and leaves the
\* dispatcher where it is, asleep, or on its way to neither giveTask nor giveFlag.
LEMMA Elsewhere ==
  ASSUME PoolInv, TypeOK', \A w \in WorkerIds : Untouched(w),
         pc[D] = "done" => pc'[D] = "done",
         pc'[D] \in {"giveTask", "giveFlag"} => pc'[D] = pc[D] /\ id' = id,
         victim' = victim
  PROVE  PoolInv'
<1>1. \A w \in WorkerIds : Cell(w)'
  BY Zenon, CellKept DEF PoolInv
<1>2. Given'
  <2> SUFFICES ASSUME pc'[D] \in {"giveTask", "giveFlag"} PROVE Given'
    BY Zenon DEF Given
  <2> QED
    BY Zenon, GivenKept DEF PoolInv, TypeOK
<1>3. JoinedFirst'
  BY Zenon DEF PoolInv, JoinedFirst
<1> QED
  BY Zenon, <1>1, <1>2, <1>3 DEF PoolInv

\* A step of worker w that touches no cell but its own.
LEMMA Own ==
  ASSUME PoolInv, TypeOK', NEW w \in WorkerIds, \A q \in WorkerIds : q # w => Untouched(q),
         Cell(w)', pc'[D] = pc[D] \/ (pc[D] = "asleep" /\ pc'[D] = "wait"), id' = id, victim' = victim,
         pc[D] \in {"giveTask", "giveFlag"} /\ id = w =>
           poolFlag'[w] = 1 /\ flag'[w] = 0 /\ pc'[w] \in Idle /\ task'[w] = task[w]
  PROVE  PoolInv'
<1>1. \A q \in WorkerIds : Cell(q)'
  BY Zenon, CellKept DEF PoolInv
<1>2. Given'
  <2>1. CASE id = w
    BY Zenon, <2>1 DEF PoolInv, Given
  <2>2. CASE id # w /\ pc'[D] = pc[D]
    BY Zenon, <2>2, GivenKept DEF PoolInv, TypeOK
  <2>3. CASE pc'[D] = "wait"
    BY Zenon, <2>3 DEF Given
  <2> QED
    BY Zenon, <2>1, <2>2, <2>3
<1>3. JoinedFirst'
  BY Zenon DEF PoolInv, JoinedFirst
<1> QED
  BY Zenon, <1>1, <1>2, <1>3 DEF PoolInv

LEMMA WaiterKeeps ==
  ASSUME PoolInv, TypeOK', NEW w \in WorkerIds, WaiterStep(w) \/ SpuriousWake(w)
  PROVE  PoolInv'
<1> USE Names
<1>1. UNCHANGED <<poolFlag, task, flag, running, id, victim>>
  BY Zenon DEF WaiterStep, SpuriousWake, mem
<1>2. TypeOK /\ Cell(w) /\ Given
  BY Zenon DEF PoolInv
<1>3. /\ \A q \in Threads : q # w => pc'[q] = pc[q]
      /\ \/ pc[w] \in Idle /\ pc'[w] \in Idle
         \/ ~running[w] /\ pc[w] \in Idle /\ pc'[w] = "done"
         \/ flag[w] = 1 /\ pc[w] \in Idle /\ pc'[w] = "woken"
  <2>1. CASE SpuriousWake(w)
    <3>1. "wait" \in Labels /\ w \in Threads
      BY Zenon DEF Labels
    <3> QED BY Zenon, <1>2, <2>1, <3>1, Moves DEF SpuriousWake, Idle
  <2>2. CASE WaiterStep(w)
    <3>1. LoadFlag(w) = flag[w]
      BY Zenon DEF LoadFlag, Fenced
    <3>2. w \in Gated
      BY Zenon
    <3>3. /\ \A q \in Threads : q # w => pc'[q] = pc[q]
          /\ pc[w] \in {"loop", "wait", "futex"}
          /\ pc'[w] \in {"wait", "done", "woken", "futex", "asleep"}
          /\ (pc'[w] = "done" => ~running[w]) /\ (pc'[w] = "woken" => LoadFlag(w) = 1)
      BY Zenon, <1>2, <2>2, <3>2, WaiterMoves
    <3> QED BY Zenon, <3>1, <3>3 DEF Idle
  <2> QED
    BY Zenon, <2>1, <2>2
<1>4. \A q \in WorkerIds : q # w => Untouched(q)
  BY Zenon, <1>1, <1>3 DEF Untouched
<1>5. pc'[D] = pc[D]
  BY Zenon, <1>3
<1>6. Cell(w)'
  BY <1>1, <1>2, <1>3, <1>5 DEF Cell, Idle, Busy
<1>7. pc[D] \in {"giveTask", "giveFlag"} /\ id = w => pc'[w] \in Idle /\ poolFlag[w] = 1 /\ flag[w] = 0
  BY <1>2, <1>3 DEF Given, Cell
<1> QED
  BY Zenon, <1>1, <1>4, <1>5, <1>6, <1>7, Own

LEMMA AssignKeeps ==
  ASSUME PoolInv, TypeOK', NEW x \in Callers, Assign(x) \/ \E k \in Tasks : AssignClaim(x, k)
  PROVE  PoolInv'
<1> USE Names
<1>0. TypeOK
  BY Zenon DEF PoolInv
<1>1. UNCHANGED <<poolFlag, task, running, id, victim>> /\ \A q \in WorkerIds : flag'[q] = flag[q]
  BY Zenon, <1>0, StoreType DEF Assign, AssignClaim, AssignPublish, AssignWake, SignalStore, mem
<1>2. /\ \A q \in Threads : q # x => pc'[q] = pc[q] \/ (pc[q] = "asleep" /\ pc'[q] = "wait")
      /\ x \in WorkerIds => pc[x] \in Busy /\ pc'[x] \in Busy \ {"reset", "free"}
  <2>1. ASSUME NEW k \in Tasks, AssignClaim(x, k) PROVE <1>2!:
    <3>1. PICK from \in {"idle", "spawn"} : Step(x, from, "publish") /\ (x \in WorkerIds => from = "spawn")
      BY Zenon, <2>1 DEF AssignClaim
    <3> QED
      BY <1>0, <3>1, Moves DEF Busy, Labels
  <2>2. CASE AssignPublish(x)
    <3>1. Step(x, "publish", "setFlag")
      BY Zenon, <2>2 DEF AssignPublish
    <3> QED
      BY <1>0, <3>1, Moves DEF Busy, Labels
  <2>3. CASE SignalStore(x, "setFlag", "wake", D)
    BY <1>0, <2>3, Moves DEF SignalStore, Busy, Labels
  <2>4. CASE AssignWake(x)
    BY <1>0, <2>4, Wakes DEF AssignWake, Busy, Labels
  <2> QED
    BY Zenon, <2>1, <2>2, <2>3, <2>4 DEF Assign
<1>3. pc'[D] = pc[D] \/ (pc[D] = "asleep" /\ pc'[D] = "wait")
  BY Zenon, <1>2
<1>4. \A q \in WorkerIds : q # x => Untouched(q)
  BY Zenon, <1>1, <1>2 DEF Untouched
<1>5. CASE x \in WorkerIds
  <2>1. Cell(x) /\ Given
    BY Zenon, <1>5 DEF PoolInv
  <2>2. Cell(x)'
    <3>1. poolFlag[x] = 1
      BY Zenon, <1>2, <1>5, <2>1 DEF Cell
    <3>2. pc'[x] \notin {"reset", "free"} /\ (pc[D] = "done" => pc'[D] = "done")
      BY Zenon, <1>2, <1>3, <1>5
    <3>3. poolFlag'[x] # 0 /\ poolFlag'[x] = 1
      BY <1>1, <3>1
    <3>4. ~running'[x] => pc'[D] = "done"
      BY Zenon, <1>1, <2>1, <3>2 DEF Cell
    <3>5. pc'[x] # "free" /\ ~(pc'[x] \in {"reset", "free"})
      BY Zenon, <3>2
    <3> QED
      BY <3>3, <3>4, <3>5, Zenon DEF Cell
  <2>3. ~(pc[D] \in {"giveTask", "giveFlag"} /\ id = x)
    BY Zenon, <1>2, <1>5, <2>1 DEF Given, Idle, Busy
  <2> QED
    BY Zenon, <1>1, <1>3, <1>4, <1>5, <2>2, <2>3, Own
<1>6. CASE x \notin WorkerIds
  BY Zenon, <1>1, <1>3, <1>4, <1>6, Elsewhere
<1> QED
  BY Zenon, <1>5, <1>6

LEMMA WorkerKeeps == ASSUME PoolInv, TypeOK', NEW w \in WorkerIds, Worker(w) PROVE PoolInv'
<1> USE Names DEF mem
<1>0. TypeOK /\ Cell(w) /\ Given
  BY Zenon DEF PoolInv
<1>1. CASE WaiterStep(w)
  BY Zenon, <1>1, WaiterKeeps
<1>2. CASE Assign(w) \/ \E k \in Tasks : AssignClaim(w, k)
  BY Zenon, <1>2, AssignKeeps DEF Callers
<1>3. ASSUME \A q \in Threads : q # w => pc'[q] = pc[q],
             UNCHANGED <<running, id, victim>>, pc[w] \notin Idle, Cell(w)',
             \A q \in WorkerIds : q # w =>
               poolFlag'[q] = poolFlag[q] /\ task'[q] = task[q] /\ flag'[q] = flag[q]
      PROVE  PoolInv'
  <2>1. \A q \in WorkerIds : q # w => Untouched(q)
    BY Zenon, <1>3 DEF Untouched
  <2>2. ~(pc[D] \in {"giveTask", "giveFlag"} /\ id = w)
    BY Zenon, <1>0, <1>3 DEF Given
  <2> QED
    BY Zenon, <1>3, <2>1, <2>2, Own
<1>4. CASE WorkerBranch(w)
  <2>1. /\ \A q \in Threads : q # w => pc'[q] = pc[q]
        /\ pc[w] = "woken" /\ ((HasTask(w) /\ pc'[w] = "run") \/ (~HasTask(w) /\ pc'[w] = "loop"))
    BY <1>0, <1>4, Moves DEF WorkerBranch, Labels
  <2>2. UNCHANGED <<running, id, victim, poolFlag, task, flag>>
    BY Zenon, <1>4 DEF WorkerBranch
  <2>3. Cell(w)'
    <3>1. HasTask(w) => poolFlag[w] = 1
      BY Zenon, <1>0 DEF Cell, HasTask, TypeOK
    <3> QED
      BY Zenon, <1>0, <2>1, <2>2, <3>1 DEF Cell, Idle, Busy
  <2> QED
    BY Zenon, <1>3, <2>1, <2>2, <2>3 DEF Idle
<1>5. CASE WorkerRun(w)
  <2>1. /\ \A q \in Threads : q # w => pc'[q] = pc[q]
        /\ pc[w] = "run" /\ pc'[w] \in {"clear", "spawn"}
    BY <1>0, <1>5, Moves DEF WorkerRun, Labels
  <2>2. UNCHANGED <<running, id, victim, poolFlag, task, flag>>
    BY Zenon, <1>5 DEF WorkerRun
  <2>3. Cell(w)'
    BY Zenon, <1>0, <2>1, <2>2 DEF Cell, Idle, Busy
  <2> QED
    BY Zenon, <1>3, <2>1, <2>2, <2>3 DEF Idle
<1>6. CASE WorkerClear(w)
  <2>1. (\A q \in Threads : q # w => pc'[q] = pc[q]) /\ pc[w] = "clear" /\ pc'[w] = "reset"
    BY Zenon, <1>0, <1>6, Moves DEF WorkerClear, Labels
  <2>2. UNCHANGED <<running, id, victim, poolFlag, flag>> /\ task'[w] = NoTask
        /\ \A q \in WorkerIds : q # w => task'[q] = task[q]
    BY Zenon, <1>0, <1>6 DEF WorkerClear, TypeOK
  <2>3. Cell(w)'
    BY Zenon, <1>0, <2>1, <2>2 DEF Cell, Idle, Busy
  <2> QED
    BY Zenon, <1>3, <2>1, <2>2, <2>3 DEF Idle
<1>7. CASE WorkerReset(w)
  <2>1. (\A q \in Threads : q # w => pc'[q] = pc[q]) /\ pc[w] = "reset" /\ pc'[w] = "free"
    BY <1>0, <1>7, Moves DEF WorkerReset, Labels
  <2>2. UNCHANGED <<running, id, victim, poolFlag, task>> /\ flag'[w] = 0
        /\ \A q \in WorkerIds : q # w => flag'[q] = flag[q]
    BY Zenon, <1>0, <1>7 DEF WorkerReset, StoreFlag, TypeOK
  <2>3. Cell(w)'
    BY Zenon, <1>0, <2>1, <2>2 DEF Cell, Idle, Busy
  <2> QED
    BY Zenon, <1>3, <2>1, <2>2, <2>3 DEF Idle
<1>8. CASE WorkerFree(w)
  <2>1. (\A q \in Threads : q # w => pc'[q] = pc[q]) /\ pc[w] = "free" /\ pc'[w] = "loop"
    BY Zenon, <1>0, <1>8, Moves DEF WorkerFree, Labels
  <2>2. UNCHANGED <<running, id, victim, task, flag>>
        /\ \A q \in WorkerIds : q # w => poolFlag'[q] = poolFlag[q]
    BY Zenon, <1>0, <1>8 DEF WorkerFree, TypeOK
  <2>3. Cell(w)'
    BY Zenon, <1>0, <2>1, <2>2 DEF Cell, Idle, Busy
  <2> QED
    BY Zenon, <1>3, <2>1, <2>2, <2>3 DEF Idle
<1> QED
  BY Zenon, <1>1, <1>2, <1>4, <1>5, <1>6, <1>7, <1>8 DEF Worker

LEMMA DispatcherKeeps == ASSUME PoolInv, TypeOK', Dispatcher \/ DrainBuffer PROVE PoolInv'
<1> USE Names DEF mem
<1>0. TypeOK /\ (\A w \in WorkerIds : Cell(w)) /\ Given /\ JoinedFirst /\ id \in WorkerIds
  BY Zenon DEF PoolInv, TypeOK
<1>1. ASSUME UNCHANGED <<poolFlag, running, victim>>, \A q \in WorkerIds : task'[q] = task[q] /\ flag'[q] = flag[q],
             \A q \in Threads : q # D => pc'[q] = pc[q] \/ (pc[q] = "asleep" /\ pc'[q] = "wait"),
             pc[D] # "done", pc'[D] \notin {"giveTask", "giveFlag"}
      PROVE  PoolInv'
  <2>1. \A q \in WorkerIds : Untouched(q)
    BY Zenon, <1>1 DEF Untouched
  <2> QED
    BY Zenon, <1>1, <2>1, Elsewhere
<1>2. CASE WaiterStep(D)
  <2>1. (\A q \in Threads : q # D => pc'[q] = pc[q])
        /\ pc[D] # "done" /\ pc'[D] \notin {"giveTask", "giveFlag"}
    BY Zenon, <1>0, <1>2, WaiterMoves
  <2> QED
    BY Zenon, <1>1, <1>2, <2>1 DEF WaiterStep
<1>3. CASE DispatcherBranch
  <2>1. (\A q \in Threads : q # D => pc'[q] = pc[q])
        /\ pc[D] # "done" /\ pc'[D] \notin {"giveTask", "giveFlag"}
    <3>1. PICK from \in {"woken", "isEmpty", "drained", "recheck"},
               to \in {"isEmpty", "drained", "dequeue", "loop", "reset", "signal"} : Step(D, from, to)
      BY Zenon, <1>3 DEF DispatcherBranch
    <3>2. to \in Labels
      BY Zenon DEF Labels
    <3> QED
      BY Zenon, <1>0, <3>1, <3>2, Moves
  <2> QED
    BY Zenon, <1>1, <1>3, <2>1 DEF DispatcherBranch
<1>4. CASE DispatcherReset
  <2>1. (\A q \in Threads : q # D => pc'[q] = pc[q])
        /\ pc[D] # "done" /\ pc'[D] \notin {"giveTask", "giveFlag"}
    BY <1>0, <1>4, Moves DEF DispatcherReset, Labels
  <2>2. \A q \in WorkerIds : flag'[q] = flag[q]
    BY Zenon, <1>0, <1>4, StoreType DEF DispatcherReset
  <2> QED
    BY Zenon, <1>1, <1>4, <2>1, <2>2 DEF DispatcherReset
<1>5. CASE SignalStore(D, "signal", "signalWake", D)
  <2>1. (\A q \in Threads : q # D => pc'[q] = pc[q])
        /\ pc[D] # "done" /\ pc'[D] \notin {"giveTask", "giveFlag"}
    BY <1>0, <1>5, Moves DEF SignalStore, Labels
  <2>2. \A q \in WorkerIds : flag'[q] = flag[q]
    BY Zenon, <1>0, <1>5, StoreType DEF SignalStore
  <2> QED
    BY Zenon, <1>1, <1>5, <2>1, <2>2 DEF SignalStore
<1>6. CASE DispatcherSignalWake
  <2>1. (\A q \in Threads : q # D => pc'[q] = pc[q] \/ (pc[q] = "asleep" /\ pc'[q] = "wait"))
        /\ pc[D] # "done" /\ pc'[D] \notin {"giveTask", "giveFlag"}
    BY <1>0, <1>6, Wakes DEF DispatcherSignalWake, Labels
  <2> QED
    BY Zenon, <1>1, <1>6, <2>1 DEF DispatcherSignalWake
<1>7. CASE DispatcherDequeue
  <2>1. (\A q \in Threads : q # D => pc'[q] = pc[q])
        /\ pc[D] # "done" /\ pc'[D] \notin {"giveTask", "giveFlag"}
    BY <1>0, <1>7, Moves DEF DispatcherDequeue, Labels
  <2>2. \A q \in WorkerIds : task'[q] = task[q]
    BY Zenon, <1>0, <1>7 DEF DispatcherDequeue, TypeOK
  <2> QED
    BY Zenon, <1>1, <1>7, <2>1, <2>2 DEF DispatcherDequeue
<1>8. CASE DispatcherScan
  <2>1. CASE poolFlag[id] = 0 /\ Step(D, "scan", "giveTask")
    <3>1. (\A q \in Threads : q # D => pc'[q] = pc[q]) /\ pc[D] = "scan" /\ pc'[D] = "giveTask"
      BY Zenon, <1>0, <2>1, Moves DEF Labels
    <3>2. UNCHANGED <<task, flag, running, id, victim>> /\ poolFlag'[id] = 1
          /\ \A q \in WorkerIds : q # id => poolFlag'[q] = poolFlag[q]
      BY Zenon, <1>0, <1>8, <2>1 DEF DispatcherScan, TypeOK
    <3>3. task[id] = NoTask /\ flag[id] = 0 /\ pc[id] \in Idle /\ running[id]
      BY Zenon, <1>0, <2>1, <3>1 DEF Cell
    <3>4. \A q \in WorkerIds : Cell(q)'
      <4>1. ASSUME NEW q \in WorkerIds, q = id PROVE Cell(q)'
        BY Zenon, <3>1, <3>2, <3>3, <1>0, <4>1 DEF Cell, Idle, Busy
      <4>2. ASSUME NEW q \in WorkerIds, q # id PROVE Cell(q)'
        BY Zenon, <1>0, <3>1, <3>2, <4>2, CellKept DEF Untouched
      <4> QED
        BY Zenon, <4>1, <4>2
    <3>5. Given' /\ JoinedFirst'
      BY Zenon, <1>0, <3>1, <3>2, <3>3 DEF Given, JoinedFirst
    <3> QED
      BY Zenon, <3>4, <3>5 DEF PoolInv
  <2>2. CASE UNCHANGED <<pc, poolFlag>>
    BY Zenon, <1>1, <1>8, <2>2 DEF DispatcherScan
  <2> QED
    BY Zenon, <1>8, <2>1, <2>2 DEF DispatcherScan
<1>9. CASE ActivateTask
  <2>1. (\A q \in Threads : q # D => pc'[q] = pc[q]) /\ pc[D] = "giveTask" /\ pc'[D] = "giveFlag"
    BY <1>0, <1>9, Moves DEF ActivateTask, Labels
  <2>2. UNCHANGED <<poolFlag, flag, running, id, victim>>
        /\ \A q \in WorkerIds : q # id => task'[q] = task[q]
    BY Zenon, <1>0, <1>9 DEF ActivateTask, TypeOK
  <2>3. poolFlag[id] = 1 /\ flag[id] = 0 /\ pc[id] \in Idle
    BY Zenon, <1>0, <2>1 DEF Given
  <2>4. \A q \in WorkerIds : Cell(q)'
    <3>1. ASSUME NEW q \in WorkerIds, q = id PROVE Cell(q)'
      BY <1>0, <2>1, <2>2, <2>3, <3>1 DEF Cell, Idle, Busy
    <3>2. ASSUME NEW q \in WorkerIds, q # id PROVE Cell(q)'
      BY Zenon, <1>0, <2>1, <2>2, <3>2, CellKept DEF Untouched
    <3> QED
      BY Zenon, <3>1, <3>2
  <2>5. Given' /\ JoinedFirst'
    BY Zenon, <1>0, <2>1, <2>2, <2>3 DEF Given, JoinedFirst
  <2> QED
    BY Zenon, <2>4, <2>5 DEF PoolInv
<1>10. CASE SignalStore(D, "giveFlag", "giveWake", id)
  <2>1. (\A q \in Threads : q # D => pc'[q] = pc[q]) /\ pc[D] = "giveFlag" /\ pc'[D] = "giveWake"
    BY <1>0, <1>10, Moves DEF SignalStore, Labels
  <2>2. UNCHANGED <<poolFlag, task, running, id, victim>>
        /\ \A q \in WorkerIds : q # id => flag'[q] = flag[q]
    BY Zenon, <1>0, <1>10, StoreType DEF SignalStore
  <2>3. poolFlag[id] = 1 /\ pc[id] \in Idle
    BY Zenon, <1>0, <2>1 DEF Given
  <2>4. \A q \in WorkerIds : Cell(q)'
    <3>1. ASSUME NEW q \in WorkerIds, q = id PROVE Cell(q)'
      <4>1. pc'[q] \in Idle /\ poolFlag'[q] = 1 /\ running'[q]
        BY Zenon, <1>0, <2>1, <2>2, <2>3, <3>1 DEF Cell
      <4> QED
        BY <4>1 DEF Cell, Idle, Busy
    <3>2. ASSUME NEW q \in WorkerIds, q # id PROVE Cell(q)'
      BY Zenon, <1>0, <2>1, <2>2, <3>2, CellKept DEF Untouched
    <3> QED
      BY Zenon, <3>1, <3>2
  <2>5. Given' /\ JoinedFirst'
    BY Zenon, <1>0, <2>1, <2>2 DEF Given, JoinedFirst
  <2> QED
    BY Zenon, <2>4, <2>5 DEF PoolInv
<1>11. CASE ActivateWake
  <2>1. (\A q \in Threads : q # D => pc'[q] = pc[q] \/ (pc[q] = "asleep" /\ pc'[q] = "wait"))
        /\ pc[D] # "done" /\ pc'[D] \notin {"giveTask", "giveFlag"}
    <3>1. SignalWake(D, "giveWake", "woken", id) /\ id \in Gated
      BY Zenon, <1>0, <1>11 DEF ActivateWake
    <3>2. "woken" \in Labels /\ "woken" # "asleep" /\ "giveWake" # "asleep"
      BY Zenon DEF Labels
    <3> QED
      BY <1>0, <3>1, <3>2, Wakes
  <2> QED
    BY Zenon, <1>1, <1>11, <2>1 DEF ActivateWake
<1>12. CASE DrainBuffer
  <2>1. UNCHANGED <<poolFlag, task, running, id, victim, pc>> /\ \A q \in WorkerIds : flag'[q] = flag[q]
    BY Zenon, <1>0, <1>12 DEF DrainBuffer, TypeOK
  <2>2. \A q \in WorkerIds : Untouched(q)
    BY Zenon, <2>1 DEF Untouched
  <2> QED
    BY Zenon, <2>1, <2>2, Elsewhere
<1> QED
  BY Zenon, <1>2, <1>3, <1>4, <1>5, <1>6, <1>7, <1>8, <1>9, <1>10, <1>11, <1>12 DEF Dispatcher

LEMMA DestructorKeeps == ASSUME PoolInv, TypeOK', DestroyStart \/ Destructor PROVE PoolInv'
<1> USE Names DEF mem
<1>0. TypeOK /\ (\A w \in WorkerIds : Cell(w)) /\ Given /\ JoinedFirst /\ victim \in Gated
  BY Zenon DEF PoolInv, TypeOK
<1>1. \A q \in Threads : q # Owner => pc'[q] = pc[q] \/ (pc[q] = "asleep" /\ pc'[q] = "wait")
  <2>1. CASE DestroyStart
    BY Zenon, <1>0, <2>1, Moves DEF DestroyStart, Labels
  <2>2. CASE Stop
    BY Zenon, <1>0, <2>2, Moves DEF Stop, Labels
  <2>3. CASE SignalStore(Owner, "setFlag", "wake", victim)
    BY Zenon, <1>0, <2>3, Moves DEF SignalStore, Labels
  <2>4. CASE StopWake
    BY Zenon, <1>0, <2>4, Wakes DEF StopWake, Labels
  <2>5. CASE Join
    BY <1>0, <2>5, Moves DEF Join, Labels
  <2> QED
    BY Zenon, <2>1, <2>2, <2>3, <2>4, <2>5 DEF Destructor
<1>2. pc'[D] = pc[D] \/ (pc[D] = "asleep" /\ pc'[D] = "wait")
  BY Zenon, <1>1
<1>3. poolFlag' = poolFlag /\ id' = id
      /\ \A q \in WorkerIds : q # victim => task'[q] = task[q] /\ flag'[q] = flag[q] /\ running'[q] = running[q]
  BY Zenon, <1>0, StoreType DEF DestroyStart, Destructor, Stop, SignalStore, StopWake, Join, TypeOK
<1>4. \A q \in WorkerIds : q # victim => Untouched(q)
  BY Zenon, <1>1, <1>3 DEF Untouched
<1>5. JoinedFirst'
  <2>1. victim' = victim \/ pc[victim] = "done"
    BY Zenon DEF DestroyStart, Destructor, Stop, SignalStore, StopWake, Join
  <2>2. pc[D] = "done" => pc'[D] = "done"
    BY Zenon, <1>2
  <2>3. victim = D \/ victim \in WorkerIds
    BY Zenon, <1>0 DEF Gated
  <2> QED
    <3>1. CASE victim = D
      BY Zenon, <2>1, <2>2, <3>1 DEF JoinedFirst
    <3>2. CASE victim \in WorkerIds
      <4>1. pc[D] = "done"
        BY Zenon, <1>0, <3>2 DEF JoinedFirst
      <4> QED
        BY Zenon, <2>2, <4>1 DEF JoinedFirst
    <3> QED
      BY Zenon, <2>3, <3>1, <3>2
<1>6. CASE victim = D
  <2>1. \A q \in WorkerIds : Untouched(q)
    BY Zenon, <1>4, <1>6
  <2>2. \A q \in WorkerIds : Cell(q)'
    BY Zenon, <1>0, <1>2, <2>1, CellKept
  <2>3. Given'
    <3>1. CASE pc'[D] = pc[D]
      BY Zenon, <1>0, <1>3, <2>1, <3>1, GivenKept DEF TypeOK
    <3>2. CASE pc'[D] = "wait"
      BY Zenon, <3>2 DEF Given
    <3> QED
      BY Zenon, <1>2, <3>1, <3>2
  <2> QED
    BY Zenon, <1>5, <2>2, <2>3 DEF PoolInv
<1>7. CASE victim \in WorkerIds
  <2>1. pc[D] = "done" /\ pc'[D] = "done"
    BY Zenon, <1>0, <1>2, <1>7 DEF JoinedFirst
  <2>2. task'[victim] = task[victim] \/ (pc[victim] = "done" /\ task'[victim] = NoTask)
    BY Zenon, <1>0, <1>7 DEF DestroyStart, Destructor, Stop, SignalStore, StopWake, Join, TypeOK
  <2>3. ASSUME NEW q \in WorkerIds, q = victim PROVE Cell(q)'
    BY Zenon, <1>0, <1>1, <1>3, <2>1, <2>2, <2>3 DEF Cell, Busy, Idle
  <2>4. ASSUME NEW q \in WorkerIds, q # victim PROVE Cell(q)'
    BY Zenon, <1>0, <1>4, <2>1, <2>4, CellKept
  <2> QED
    BY Zenon, <1>5, <2>1, <2>3, <2>4 DEF PoolInv, Given
<1> QED
  BY Zenon, <1>0, <1>6, <1>7 DEF Gated

LEMMA PoolNext == PoolInv /\ [Next]_vars => PoolInv'
<1> SUFFICES ASSUME PoolInv, [Next]_vars PROVE PoolInv'
  BY Zenon
<1>1. TypeOK'
  BY Zenon, TypeNext DEF PoolInv
<1>2. CASE UNCHANGED vars
  BY Zenon, <1>2 DEF vars, mem, hist, PoolInv, TypeOK, Cell, Given, JoinedFirst
<1>3. ASSUME NEW x \in Clients, Assign(x) \/ \E k \in Tasks : AssignClaim(x, k) PROVE PoolInv'
  BY Zenon, <1>1, <1>3, AssignKeeps DEF Callers
<1>4. CASE SpuriousWake(D)
  <2>1. TypeOK /\ UNCHANGED <<poolFlag, task, flag, running, id, victim>>
    BY Zenon, <1>4 DEF PoolInv, SpuriousWake, mem
  <2>2. (\A q \in Threads : q # D => pc'[q] = pc[q]) /\ pc[D] = "asleep" /\ pc'[D] = "wait"
    BY Zenon, <1>4, <2>1, Moves, Names DEF SpuriousWake, Labels
  <2>3. \A q \in WorkerIds : Untouched(q)
    BY Zenon, <2>1, <2>2, Names DEF Untouched
  <2> QED
    BY Zenon, <1>1, <2>1, <2>2, <2>3, Elsewhere
<1> QED
  BY Zenon, <1>1, <1>2, <1>3, <1>4, DispatcherKeeps, WorkerKeeps, WaiterKeeps, DestructorKeeps DEF Next, Gated

\* Every variable keeps its type; in particular lastIdDispatched stays an index
\* into the array of workers (ThreadPool.hpp, the two round-robin loops).
THEOREM PoolTypes == Spec => []TypeOK
<1>1. PoolInv => TypeOK
  BY Zenon DEF PoolInv
<1> QED
  BY <1>1, PoolInit, PoolNext, PTL DEF Spec

\* activateWorker() moves a task into a worker's plain member only while the
\* worker is not looking at it: poolFlag is a lock of the cell, on x86-TSO too.
THEOREM PoolCellExclusive == Spec => []TaskCellExclusive
<1>1. PoolInv => TaskCellExclusive
  BY Zenon DEF PoolInv, Given, TaskCellExclusive, Idle
<1> QED
  BY <1>1, PoolInit, PoolNext, PTL DEF Spec

\* The gate.reset() of a worker never wipes out the wake-up for a new task.
THEOREM PoolResetSafe == Spec => []ResetClobbersNothing
<1>1. PoolInv => ResetClobbersNothing
  BY Zenon DEF PoolInv, Cell, ResetClobbersNothing, Busy
<1> QED
  BY <1>1, PoolInit, PoolNext, PTL DEF Spec

-----------------------------------------------------------------------------
(* The tasks.                                                              *)

\* Where a worker is that has started the task it holds.
AfterStart == {"spawn", "publish", "setFlag", "wake", "clear"}

\* The queue holds each task once, and none that a thread holds or that has started.
Queued ==
  \A i \in 1 .. Len(queue) :
    /\ queue[i].task \in submitted /\ started[queue[i].task] = 0
    /\ \A p \in Gated : task[p] # queue[i].task
    /\ \A j \in 1 .. Len(queue) : queue[j].task = queue[i].task => j = i

\* No two threads hold a task; one that is held has started once its worker got there.
Held ==
  /\ \A p, q \in Gated : task[p] # NoTask /\ task[q] = task[p] => q = p
  /\ \A p \in Gated : task[p] # NoTask =>
       task[p] \in submitted /\ started[task[p]] = IF p # D /\ pc[p] \in AfterStart THEN 1 ELSE 0

\* A task that has started was submitted, and starts once; one that was submitted
\* is somewhere.
Accounted ==
  \A k \in Tasks :
    /\ started[k] \in {0, 1}
    /\ started[k] = 1 => k \in submitted
    /\ k \in submitted => \/ \E i \in 1 .. Len(queue) : queue[i].task = k
                          \/ \E p \in Gated : task[p] = k
                          \/ started[k] = 1 \/ k \in dropped

\* A task that another one submits is submitted when that one has started.
Spawned ==
  \A j \in Tasks : Spawn[j] \in submitted =>
    started[j] = 1 /\ \A w \in WorkerIds : task[w] = j => pc[w] # "spawn"

\* A worker that runs has a task, and the dispatcher has one only to give it away.
AtWork ==
  /\ \A w \in WorkerIds : pc[w] \in {"run", "spawn"} => task[w] # NoTask
  /\ pc[D] \notin {"scan", "giveTask"} => task[D] = NoTask

TaskInv == Queued /\ Held /\ Accounted /\ Spawned /\ AtWork

\* A step that moves no task from one place to another.
LEMMA TasksStay ==
  ASSUME TaskInv, UNCHANGED <<task, submitted, started, dropped>>,
         Len(queue') = Len(queue), \A i \in 1 .. Len(queue) : queue'[i].task = queue[i].task,
         \A w \in WorkerIds :
           /\ task[w] # NoTask => (pc'[w] \in AfterStart <=> pc[w] \in AfterStart)
           /\ pc'[w] = "spawn" => pc[w] = "spawn"
           /\ pc'[w] \in {"run", "spawn"} => pc[w] \in {"run", "spawn"} \/ task[w] # NoTask,
         pc'[D] \notin {"scan", "giveTask"} => pc[D] \notin {"scan", "giveTask"}
  PROVE  TaskInv'
<1> USE Names
<1>1. Queued'
  BY DEF TaskInv, Queued
<1>2. Held'
  BY Zenon DEF TaskInv, Held, Gated
<1>3. Accounted'
  BY Zenon DEF TaskInv, Accounted
<1>4. Spawned'
  BY Zenon DEF TaskInv, Spawned
<1>5. AtWork'
  BY Zenon DEF TaskInv, AtWork
<1> QED
  BY Zenon, <1>1, <1>2, <1>3, <1>4, <1>5 DEF TaskInv

\* Threads that start no task and end none.
LEMMA TasksStayPut ==
  ASSUME TaskInv, UNCHANGED <<task, submitted, started, dropped, queue>>, NEW t \in Threads, Mover(t),
         t \in WorkerIds =>
           /\ pc'[t] \in AfterStart <=> pc[t] \in AfterStart
           /\ pc'[t] = "spawn" => pc[t] = "spawn"
           /\ pc'[t] = "run" => pc[t] = "run" \/ task[t] # NoTask,
         t = D => (pc'[D] \notin {"scan", "giveTask"} => pc[D] \notin {"scan", "giveTask"})
  PROVE  TaskInv'
<1> USE Names
<1>1. \A w \in WorkerIds :
        /\ pc'[w] \in AfterStart <=> pc[w] \in AfterStart
        /\ pc'[w] = "spawn" => pc[w] = "spawn"
        /\ pc'[w] = "run" => pc[w] = "run" \/ task[w] # NoTask
  BY Zenon DEF Mover, AfterStart
<1>2. pc'[D] \notin {"scan", "giveTask"} => pc[D] \notin {"scan", "giveTask"}
  BY Zenon DEF Mover
<1> QED
  BY Zenon, <1>1, <1>2, TasksStay

\* Publication and the signal of assignTask() move no task.
LEMMA AssignTasks ==
  ASSUME TypeOK, TaskInv, NEW x \in Callers, Assign(x)
  PROVE  TaskInv'
<1> USE Names DEF mem, hist
<1>1. CASE AssignPublish(x)
  <2>1. Mover(x) /\ pc[x] = "publish" /\ pc'[x] = "setFlag"
    BY <1>1, Moves DEF AssignPublish, Labels, Mover
  <2>2. PICK i \in 1 .. Len(queue) :
          queue[i].task = arg[x] /\ queue' = [queue EXCEPT ![i] = [task |-> arg[x], ready |-> TRUE]]
    BY Zenon, <1>1 DEF AssignPublish
  <2>3. queue \in Seq([task : Tasks, ready : BOOLEAN])
    BY Zenon DEF TypeOK
  <2>4. Len(queue') = Len(queue)
    BY <2>2, <2>3
  <2>5. \A j \in 1 .. Len(queue) : queue'[j].task = queue[j].task
    BY <2>2, <2>3
  <2>6. \A w \in WorkerIds :
          /\ pc'[w] \in AfterStart <=> pc[w] \in AfterStart
          /\ pc'[w] = "spawn" => pc[w] = "spawn"
          /\ pc'[w] = "run" => pc[w] = "run"
    BY Zenon, <2>1 DEF Mover, AfterStart
  <2>7. pc'[D] \notin {"scan", "giveTask"} => pc[D] \notin {"scan", "giveTask"}
    BY Zenon, <2>1 DEF Mover
  <2> QED
    BY Zenon, <1>1, <2>4, <2>5, <2>6, <2>7, TasksStay DEF AssignPublish
<1>2. CASE SignalStore(x, "setFlag", "wake", D)
  <2>1. Mover(x) /\ pc[x] = "setFlag" /\ pc'[x] = "wake"
    BY <1>2, Moves DEF SignalStore, Labels, Mover
  <2> QED
    BY Zenon, <1>2, <2>1, TasksStayPut DEF SignalStore, AfterStart
<1>3. CASE AssignWake(x)
  <2>1. Mover(x) /\ pc[x] = "wake" /\ (x \in WorkerIds => pc'[x] = "clear")
    BY <1>3, Wakes DEF AssignWake, Labels, Mover
  <2> QED
    BY Zenon, <1>3, <2>1, TasksStayPut DEF AssignWake, AfterStart
<1> QED
  BY Zenon, <1>1, <1>2, <1>3 DEF Assign

\* The fetch_add of an enqueue puts a task into the queue that is nowhere else.
LEMMA ClaimTasks ==
  ASSUME TypeOK, TaskInv, NEW x \in Callers, NEW k \in Tasks, AssignClaim(x, k)
  PROVE  TaskInv'
<1> USE Names DEF mem, hist
<1>0. Queued /\ Held /\ Accounted /\ Spawned /\ AtWork
  BY Zenon DEF TaskInv
<1>1. /\ \A q \in Threads : q # x => pc'[q] = pc[q]
      /\ pc'[x] = "publish" /\ (x \in WorkerIds => pc[x] = "spawn")
  BY Moves DEF AssignClaim, Labels
<1>2. k \notin submitted /\ \A j \in Tasks : Spawn[j] = k =>
        \E w \in WorkerIds : w = x /\ task[w] = j
  <2>1. CASE x \in Clients
    BY Zenon, <2>1 DEF AssignClaim
  <2>2. CASE x \in WorkerIds
    <3>1. k = Spawn[task[x]] /\ pc[x] = "spawn"
      BY Zenon, <1>1, <2>2 DEF AssignClaim
    <3>2. task[x] \in Tasks
      BY Zenon, <1>0, <2>2, <3>1 DEF AtWork, TypeOK
    <3>3. k \notin submitted
      BY Zenon, <1>0, <2>2, <3>1, <3>2 DEF Spawned
    <3>4. k # NoTask
      BY Zenon, PoolAssumption
    <3> QED
      BY Zenon, <2>2, <3>1, <3>2, <3>3, <3>4, SpawnAssumption
  <2> QED
    BY Zenon, <2>1, <2>2 DEF Callers
<1>3. /\ Len(queue') = Len(queue) + 1 /\ queue'[Len(queue) + 1].task = k /\ Len(queue) \in Nat
      /\ \A i \in 1 .. Len(queue) : queue'[i] = queue[i]
  <2>1. queue \in Seq([task : Tasks, ready : BOOLEAN]) /\ queue' = Append(queue, [task |-> k, ready |-> FALSE])
    BY Zenon DEF TypeOK, AssignClaim
  <2> QED
    BY <2>1
<1>4. submitted' = submitted \cup {k} /\ UNCHANGED <<task, started, dropped>>
  BY Zenon DEF AssignClaim
<1>5. started[k] = 0 /\ \A p \in Gated : task[p] # k
  BY <1>0, <1>2, PoolAssumption DEF Accounted, Held
<1>6. \A i \in 1 .. Len(queue) : queue[i].task # k
  BY <1>0, <1>2 DEF Queued
<1>7. Queued'
  <2> SUFFICES ASSUME NEW i \in 1 .. Len(queue')
               PROVE  /\ queue'[i].task \in submitted' /\ started'[queue'[i].task] = 0
                      /\ \A p \in Gated : task'[p] # queue'[i].task
                      /\ \A j \in 1 .. Len(queue') : queue'[j].task = queue'[i].task => j = i
    BY Zenon DEF Queued
  <2>1. \A j \in 1 .. Len(queue') : j \in 1 .. Len(queue) \/ j = Len(queue) + 1
    BY <1>3
  <2>2. CASE i = Len(queue) + 1
    BY Zenon, <1>3, <1>4, <1>5, <1>6, <2>1, <2>2
  <2>3. CASE i \in 1 .. Len(queue)
    BY Zenon, <1>0, <1>3, <1>4, <1>6, <2>1, <2>3 DEF Queued
  <2> QED
    BY Zenon, <2>1, <2>2, <2>3
<1>8. Held'
  BY Zenon, <1>0, <1>1, <1>4 DEF Held, Gated, AfterStart
<1>9. Accounted'
  <2>1. \A i \in 1 .. Len(queue) : i \in 1 .. Len(queue')
    BY <1>3
  <2>2. Len(queue) + 1 \in 1 .. Len(queue')
    BY <1>3
  <2> SUFFICES ASSUME NEW j \in Tasks
               PROVE  /\ started'[j] \in {0, 1} /\ (started'[j] = 1 => j \in submitted')
                      /\ (j \in submitted' => \/ \E i \in 1 .. Len(queue') : queue'[i].task = j
                                              \/ \E p \in Gated : task'[p] = j
                                              \/ started'[j] = 1 \/ j \in dropped')
    BY Zenon DEF Accounted
  <2>3. CASE j = k
    BY Zenon, <1>0, <1>3, <1>4, <2>2, <2>3 DEF Accounted
  <2>4. CASE j # k
    BY Zenon, <1>0, <1>3, <1>4, <2>1, <2>4 DEF Accounted
  <2> QED
    BY Zenon, <2>3, <2>4
<1>10. Spawned'
  <2> SUFFICES ASSUME NEW j \in Tasks, Spawn[j] \in submitted'
               PROVE  started'[j] = 1 /\ \A w \in WorkerIds : task'[w] = j => pc'[w] # "spawn"
    BY Zenon DEF Spawned
  <2>1. CASE Spawn[j] = k
    <3>1. x \in WorkerIds /\ task[x] = j /\ pc[x] = "spawn"
      BY Zenon, <1>1, <1>2, <2>1
    <3>2. j # NoTask
      BY Zenon, PoolAssumption
    <3>3. started[j] = 1 /\ \A w \in WorkerIds : task[w] = j => w = x
      BY Zenon, <1>0, <3>1, <3>2 DEF Held, AfterStart
    <3> QED
      BY Zenon, <1>1, <1>4, <3>1, <3>3
  <2>2. CASE Spawn[j] \in submitted
    BY Zenon, <1>0, <1>1, <1>4, <2>2 DEF Spawned
  <2> QED
    BY Zenon, <1>4, <2>1, <2>2
<1>11. AtWork'
  BY Zenon, <1>0, <1>1, <1>4 DEF AtWork
<1> QED
  BY Zenon, <1>7, <1>8, <1>9, <1>10, <1>11 DEF TaskInv

\* dequeue() moves the first task to the dispatcher, whose local is empty.
LEMMA DequeueTasks == ASSUME TypeOK, TaskInv, DispatcherDequeue PROVE TaskInv'
<1> USE Names DEF mem, hist
<1>0. Queued /\ Held /\ Accounted /\ Spawned /\ AtWork
  BY Zenon DEF TaskInv
<1>1. (\A q \in Threads : q # D => pc'[q] = pc[q]) /\ pc[D] = "dequeue" /\ pc'[D] = "scan"
  BY Moves DEF DispatcherDequeue, Labels
<1>2. /\ Len(queue) \in Nat \ {0} /\ Len(queue') = Len(queue) - 1
      /\ \A i \in 1 .. Len(queue') : queue'[i] = queue[i + 1] /\ i + 1 \in 1 .. Len(queue)
  <2>1. queue \in Seq([task : Tasks, ready : BOOLEAN]) /\ queue # <<>> /\ queue' = Tail(queue)
    BY Zenon DEF TypeOK, DispatcherDequeue, IsEmpty
  <2> QED
    BY <2>1
<1>3. /\ task'[D] = queue[1].task /\ (\A w \in WorkerIds : task'[w] = task[w])
      /\ UNCHANGED <<submitted, started, dropped>> /\ task[D] = NoTask /\ 1 \in 1 .. Len(queue)
  BY <1>0, <1>1, <1>2 DEF DispatcherDequeue, TypeOK, AtWork
<1>4. queue[1].task \in Tasks
  BY Zenon, <1>3, QueueItems
<1>5. \A p \in Gated : p = D \/ p \in WorkerIds
  BY Zenon DEF Gated
<1>6. Queued'
  <2> SUFFICES ASSUME NEW i \in 1 .. Len(queue')
               PROVE  /\ queue'[i].task \in submitted' /\ started'[queue'[i].task] = 0
                      /\ \A p \in Gated : task'[p] # queue'[i].task
                      /\ \A j \in 1 .. Len(queue') : queue'[j].task = queue'[i].task => j = i
    BY Zenon DEF Queued
  <2>1. queue'[i].task \in submitted' /\ started'[queue'[i].task] = 0
    <3>1. queue'[i] = queue[i + 1] /\ i + 1 \in 1 .. Len(queue)
      BY Zenon, <1>2
    <3> QED
      BY <1>0, <1>3, <3>1 DEF Queued
  <2>2. queue[1].task # queue[i + 1].task
    <3>1. i + 1 # 1 /\ i + 1 \in 1 .. Len(queue)
      BY <1>2
    <3> QED
      BY Zenon, <1>0, <1>3, <3>1 DEF Queued
  <2>3. \A p \in Gated : task'[p] # queue'[i].task
    BY <1>0, <1>2, <1>3, <1>5, <2>2 DEF Queued
  <2>4. ASSUME NEW j \in 1 .. Len(queue'), queue'[j].task = queue'[i].task PROVE j = i
    <3>1. /\ queue[j + 1].task = queue[i + 1].task
          /\ i + 1 \in 1 .. Len(queue) /\ j + 1 \in 1 .. Len(queue)
      BY Zenon, <1>2, <2>4
    <3>2. j + 1 = i + 1
      BY Zenon, <1>0, <3>1 DEF Queued
    <3> QED
      BY <3>2
  <2> QED
    BY Zenon, <2>1, <2>3, <2>4
<1>7. Held'
  <2>1. queue[1].task \in submitted /\ started[queue[1].task] = 0
        /\ \A p \in Gated : task[p] # queue[1].task
    BY Zenon, <1>0, <1>3 DEF Queued
  <2>2. \A p, q \in Gated : task'[p] # NoTask /\ task'[q] = task'[p] => q = p
    BY <1>0, <1>3, <1>5, <2>1 DEF Held
  <2>3. \A p \in Gated : task'[p] # NoTask => task'[p] \in submitted' /\
          started'[task'[p]] = IF p # D /\ pc'[p] \in AfterStart THEN 1 ELSE 0
    BY Zenon, <1>0, <1>1, <1>3, <1>5, <2>1 DEF Held
  <2> QED
    BY Zenon, <2>2, <2>3 DEF Held
<1>8. Accounted'
  <2> SUFFICES ASSUME NEW k \in Tasks, k \in submitted
               PROVE  \/ \E i \in 1 .. Len(queue') : queue'[i].task = k
                      \/ \E p \in Gated : task'[p] = k
                      \/ started[k] = 1 \/ k \in dropped
    BY Zenon, <1>0, <1>3 DEF Accounted
  <2>1. ASSUME NEW i \in 1 .. Len(queue), queue[i].task = k
        PROVE  (\E j \in 1 .. Len(queue') : queue'[j].task = k) \/ task'[D] = k
    <3>1. CASE i = 1
      BY Zenon, <1>3, <2>1, <3>1
    <3>2. CASE i # 1
      <4>1. i - 1 \in 1 .. Len(queue') /\ (i - 1) + 1 = i
        BY <1>2, <3>2
      <4> QED
        BY Zenon, <1>2, <2>1, <4>1
    <3> QED
      BY Zenon, <3>1, <3>2
  <2>2. ASSUME NEW p \in Gated, task[p] = k PROVE task'[p] = k
    BY Zenon, <1>3, <1>5, <2>2, PoolAssumption
  <2> QED
    BY Zenon, <1>0, <2>1, <2>2 DEF Accounted
<1>9. Spawned'
  BY Zenon, <1>0, <1>1, <1>3 DEF Spawned
<1>10. AtWork'
  BY Zenon, <1>0, <1>1, <1>3 DEF AtWork
<1> QED
  BY Zenon, <1>6, <1>7, <1>8, <1>9, <1>10 DEF TaskInv

\* activateWorker() moves the task on to a worker that holds none.
LEMMA ActivateTasks == ASSUME PoolInv, TaskInv, ActivateTask PROVE TaskInv'
<1> USE Names DEF mem, hist
<1>0. TypeOK /\ Given /\ id \in WorkerIds /\ Queued /\ Held /\ Accounted /\ Spawned /\ AtWork
  BY Zenon DEF TaskInv, PoolInv, TypeOK
<1>1. (\A q \in Threads : q # D => pc'[q] = pc[q]) /\ pc[D] = "giveTask" /\ pc'[D] = "giveFlag"
  BY Zenon, <1>0, Moves DEF ActivateTask, Labels
<1>2. task[id] = NoTask /\ pc[id] \in Idle
  BY Zenon, <1>0, <1>1 DEF Given
<1>3. /\ task'[id] = task[D] /\ task'[D] = NoTask
      /\ \A w \in WorkerIds : w # id => task'[w] = task[w]
      /\ UNCHANGED <<queue, submitted, started, dropped>>
  BY Zenon, <1>0 DEF ActivateTask, TypeOK
<1>4. \A p \in Gated : p = D \/ p \in WorkerIds
  BY Zenon DEF Gated
<1>5. Queued'
  <2>1. \A i \in 1 .. Len(queue) : queue[i].task # NoTask
    BY Zenon, <1>0, QueueItems, PoolAssumption
  <2> QED
    BY <1>0, <1>3, <1>4, <2>1 DEF Queued
<1>6. Held'
  BY <1>0, <1>1, <1>2, <1>3, <1>4 DEF Held, Idle, AfterStart
<1>7. Accounted'
  <2>1. ASSUME NEW k \in Tasks, NEW p \in Gated, task[p] = k PROVE \E q \in Gated : task'[q] = k
    BY Zenon, <1>0, <1>2, <1>3, <1>4, <2>1, PoolAssumption
  <2> QED
    BY Zenon, <1>0, <1>3, <2>1 DEF Accounted
<1>8. Spawned'
  BY Zenon, <1>0, <1>1, <1>2, <1>3 DEF Spawned, Idle
<1>9. AtWork'
  BY Zenon, <1>0, <1>1, <1>2, <1>3 DEF AtWork, Idle
<1> QED
  BY Zenon, <1>5, <1>6, <1>7, <1>8, <1>9 DEF TaskInv

\* taskDispatcher() keeps TaskInv.
LEMMA DispatcherTasks ==
  ASSUME PoolInv, TaskInv, Dispatcher \/ DrainBuffer
  PROVE  TaskInv'
<1> USE Names DEF mem, hist
<1>0. TypeOK /\ id \in Gated
  BY Zenon DEF PoolInv, TypeOK
<1>1. ASSUME UNCHANGED <<task, submitted, started, dropped, queue>>, Mover(D),
             pc'[D] \notin {"scan", "giveTask"} => pc[D] \notin {"scan", "giveTask"}
      PROVE  TaskInv'
  BY Zenon, <1>1, TasksStayPut
<1>2. CASE WaiterStep(D) \/ DispatcherBranch \/ DispatcherReset
  <2>1. Mover(D) /\ pc[D] \notin {"scan", "giveTask"}
    <3>1. CASE WaiterStep(D)
      BY Zenon, <1>0, <3>1, WaiterMoves DEF Mover
    <3>2. CASE DispatcherBranch
      BY <1>0, <3>2, Moves DEF DispatcherBranch, Labels, Mover
    <3>3. CASE DispatcherReset
      BY <1>0, <3>3, Moves DEF DispatcherReset, Labels, Mover
    <3> QED
      BY Zenon, <1>2, <3>1, <3>2, <3>3
  <2> QED
    BY Zenon, <1>1, <1>2, <2>1 DEF WaiterStep, DispatcherBranch, DispatcherReset
<1>3. CASE SignalStore(D, "signal", "signalWake", D) \/ SignalStore(D, "giveFlag", "giveWake", id)
  <2>1. Mover(D) /\ pc[D] \notin {"scan", "giveTask"}
    BY <1>0, <1>3, Moves DEF SignalStore, Labels, Mover
  <2> QED
    BY Zenon, <1>1, <1>3, <2>1 DEF SignalStore
<1>4. CASE DispatcherSignalWake \/ ActivateWake
  <2>1. Mover(D) /\ pc[D] \notin {"scan", "giveTask"}
    BY <1>0, <1>4, Wakes DEF DispatcherSignalWake, ActivateWake, Labels, Mover
  <2> QED
    BY Zenon, <1>1, <1>4, <2>1 DEF DispatcherSignalWake, ActivateWake
<1>5. CASE DispatcherScan
  <2>1. Mover(D) /\ pc'[D] \in {"scan", "giveTask"}
    BY <1>0, <1>5, Moves DEF DispatcherScan, Labels, Mover
  <2> QED
    BY Zenon, <1>1, <1>5, <2>1 DEF DispatcherScan
<1>6. CASE DrainBuffer
  BY Zenon, <1>1, <1>6 DEF DrainBuffer, Mover
<1> QED
  BY Zenon, <1>0, <1>2, <1>3, <1>4, <1>5, <1>6, DequeueTasks, ActivateTasks DEF Dispatcher

\* The steps of a worker keep TaskInv.
LEMMA WorkerTasks ==
  ASSUME PoolInv, TaskInv, NEW w \in WorkerIds, Worker(w)
  PROVE  TaskInv'
<1> USE Names DEF mem, hist
<1>0. TypeOK /\ Cell(w) /\ Queued /\ Held /\ Accounted /\ Spawned /\ AtWork
  BY Zenon DEF TaskInv, PoolInv
<1>1. CASE WaiterStep(w) \/ WorkerBranch(w) \/ WorkerReset(w) \/ WorkerFree(w)
  <2>1. Mover(w) /\ pc[w] \notin AfterStart /\ pc'[w] \notin AfterStart
        /\ (pc'[w] = "run" => task[w] # NoTask)
    <3>1. CASE WaiterStep(w)
      BY Zenon, <1>0, <3>1, WaiterMoves DEF Mover, AfterStart
    <3>2. CASE WorkerBranch(w)
      <4>1. PICK to \in {"run", "loop"} : Step(w, "woken", to) /\ (to = "run" => HasTask(w))
        BY Zenon, <3>2 DEF WorkerBranch
      <4> QED
        BY <1>0, <4>1, Moves DEF HasTask, Labels, Mover, AfterStart
    <3>3. CASE WorkerReset(w)
      BY <1>0, <3>3, Moves DEF WorkerReset, Labels, Mover, AfterStart
    <3>4. CASE WorkerFree(w)
      BY <1>0, <3>4, Moves DEF WorkerFree, Labels, Mover, AfterStart
    <3> QED
      BY Zenon, <1>1, <3>1, <3>2, <3>3, <3>4
  <2>2. UNCHANGED <<task, submitted, started, dropped, queue>>
    BY Zenon, <1>1 DEF WaiterStep, WorkerBranch, WorkerReset, WorkerFree
  <2>3. pc'[w] # "spawn"
    BY Zenon, <2>1 DEF AfterStart
  <2> QED
    BY Zenon, <2>1, <2>2, <2>3, TasksStayPut
<1>2. CASE Assign(w) \/ \E k \in Tasks : AssignClaim(w, k)
  BY Zenon, <1>0, <1>2, AssignTasks, ClaimTasks DEF Callers
<1>3. CASE WorkerRun(w)
  <2> DEFINE k == task[w]
  <2>1. (\A q \in Threads : q # w => pc'[q] = pc[q]) /\ pc[w] = "run" /\ pc'[w] \in {"spawn", "clear"}
    BY <1>0, <1>3, Moves DEF WorkerRun, Labels
  <2>2. k \in Tasks /\ k \in submitted /\ started[k] = 0
    BY Zenon, <1>0, <2>1 DEF AtWork, Held, AfterStart, TypeOK
  <2>3. /\ started'[k] = 1 /\ (\A j \in Tasks : j # k => started'[j] = started[j])
        /\ UNCHANGED <<task, submitted, dropped, queue>>
    <3>1. started \in [Tasks -> Nat] /\ started' = [started EXCEPT ![k] = started[k] + 1]
      BY Zenon, <1>0, <1>3 DEF WorkerRun, TypeOK
    <3>2. started'[k] = started[k] + 1 /\ \A j \in Tasks : j # k => started'[j] = started[j]
      BY Zenon, <2>2, <3>1
    <3>3. started'[k] = 1
      BY <2>2, <3>2
    <3> QED BY Zenon, <1>3, <3>2, <3>3 DEF WorkerRun
  <2>4. Queued'
    <3>1. \A i \in 1 .. Len(queue) : queue[i].task # k /\ queue[i].task \in Tasks
      BY Zenon, <1>0, QueueItems DEF Queued
    <3> QED
      BY Zenon, <1>0, <2>3, <3>1 DEF Queued
  <2>5. Held'
    <3>1. \A p \in Gated : p # w /\ task[p] # NoTask => task[p] # k /\ task[p] \in Tasks /\ pc'[p] = pc[p]
      BY Zenon, <1>0, <2>1 DEF Held, TypeOK
    <3>2. \A p, q \in Gated : task'[p] # NoTask /\ task'[q] = task'[p] => q = p
      BY Zenon, <1>0, <2>3 DEF Held
    <3>3. ASSUME NEW p \in Gated, p # w, task'[p] # NoTask
          PROVE  task'[p] \in submitted' /\
                 started'[task'[p]] = IF p # D /\ pc'[p] \in AfterStart THEN 1 ELSE 0
      BY Zenon, <1>0, <2>3, <3>1, <3>3 DEF Held
    <3>4. task'[w] \in submitted' /\ started'[task'[w]] = 1 /\ pc'[w] \in AfterStart /\ w # D
      BY Zenon, <2>1, <2>2, <2>3 DEF AfterStart
    <3> QED
      BY Zenon, <3>2, <3>3, <3>4 DEF Held
  <2>6. Accounted'
    BY Zenon, <1>0, <2>2, <2>3 DEF Accounted
  <2>7. Spawned'
    <3>1. Spawn[k] \notin submitted
      BY <1>0, <2>2 DEF Spawned
    <3>2. \A j \in Tasks : Spawn[j] \in submitted => j # k
      BY Zenon, <3>1
    <3>3. \A j \in Tasks : Spawn[j] \in submitted => started[j] = 1 /\ \A q \in WorkerIds : task[q] = j => pc[q] # "spawn"
      BY Zenon, <1>0 DEF Spawned
    <3>4. \A j \in Tasks, q \in WorkerIds : j # k /\ task[q] = j => pc'[q] = pc[q]
      BY Zenon, <2>1
    <3> QED
      BY Zenon, <2>3, <3>2, <3>3, <3>4 DEF Spawned
  <2>8. AtWork'
    BY Zenon, <1>0, <2>1, <2>2, <2>3, PoolAssumption DEF AtWork
  <2> QED
    BY Zenon, <2>4, <2>5, <2>6, <2>7, <2>8 DEF TaskInv
<1>4. CASE WorkerClear(w)
  <2>1. (\A q \in Threads : q # w => pc'[q] = pc[q]) /\ pc[w] = "clear" /\ pc'[w] = "reset"
    BY Zenon, <1>0, <1>4, Moves DEF WorkerClear, Labels
  <2>2. /\ task'[w] = NoTask /\ (\A q \in Gated : q # w => task'[q] = task[q])
        /\ UNCHANGED <<queue, submitted, started, dropped>>
    BY Zenon, <1>0, <1>4 DEF WorkerClear, TypeOK
  <2>3. task[w] # NoTask => started[task[w]] = 1
    BY Zenon, <1>0, <2>1 DEF Held, AfterStart
  <2>4. Queued'
    <3>1. \A i \in 1 .. Len(queue) : queue[i].task # NoTask
      BY Zenon, <1>0, QueueItems, PoolAssumption
    <3> QED
      BY <1>0, <2>2, <3>1 DEF Queued
  <2>5. Held'
    BY <1>0, <2>1, <2>2 DEF Held
  <2>6. Accounted'
    <3>1. ASSUME NEW k \in Tasks, NEW p \in Gated, task[p] = k
          PROVE  started[k] = 1 \/ \E q \in Gated : task'[q] = k
      BY Zenon, <2>2, <2>3, <3>1, PoolAssumption
    <3> QED
      BY Zenon, <1>0, <2>2, <3>1 DEF Accounted
  <2>7. Spawned'
    BY Zenon, <1>0, <2>1, <2>2 DEF Spawned
  <2>8. AtWork'
    BY Zenon, <1>0, <2>1, <2>2 DEF AtWork
  <2> QED
    BY Zenon, <2>4, <2>5, <2>6, <2>7, <2>8 DEF TaskInv
<1> QED
  BY Zenon, <1>1, <1>2, <1>3, <1>4 DEF Worker

\* The destructors keep TaskInv: what they find is dropped.
LEMMA DestructorTasks == ASSUME TypeOK, TaskInv, DestroyStart \/ Destructor PROVE TaskInv'
<1> USE Names DEF mem, hist
<1>0. victim \in Gated /\ Queued /\ Held /\ Accounted /\ Spawned /\ AtWork
  BY Zenon DEF TaskInv, TypeOK
<1>1. CASE DestroyStart \/ Stop \/ SignalStore(Owner, "setFlag", "wake", victim)
  <2>1. Mover(Owner)
    BY Zenon, <1>1, Moves DEF DestroyStart, Stop, SignalStore, Labels, Mover
  <2> QED
    BY Zenon, <1>1, <2>1, TasksStayPut DEF DestroyStart, Stop, SignalStore
<1>2. CASE StopWake
  <2>1. Mover(Owner)
    BY Zenon, <1>0, <1>2, Wakes DEF StopWake, Labels, Mover
  <2> QED
    BY Zenon, <1>2, <2>1, TasksStayPut DEF StopWake
<1>3. CASE Join
  <2>1. (\A q \in Threads : q # Owner => pc'[q] = pc[q]) /\ pc[victim] = "done"
    BY Zenon, <1>3, Moves DEF Join, Labels
  <2>2. /\ task'[victim] = NoTask /\ (\A q \in Gated : q # victim => task'[q] = task[q])
        /\ queue' = <<>> /\ UNCHANGED <<submitted, started>>
        /\ dropped \subseteq dropped' /\ (task[victim] # NoTask => task[victim] \in dropped')
        /\ \A i \in 1 .. Len(queue) : queue[i].task \in dropped'
    <3>1. task \in [Gated -> Tasks \cup {NoTask}]
      BY Zenon DEF TypeOK
    <3> QED
      BY Zenon, <1>0, <1>3, <3>1 DEF Join
  <2>3. Queued'
    BY <2>2 DEF Queued
  <2>4. Held'
    BY <1>0, <2>1, <2>2 DEF Held
  <2>5. Accounted'
    <3>1. ASSUME NEW k \in Tasks, NEW p \in Gated, task[p] = k
          PROVE  k \in dropped' \/ \E q \in Gated : task'[q] = k
      BY Zenon, <2>2, <3>1, PoolAssumption
    <3> QED
      BY Zenon, <1>0, <2>2, <3>1 DEF Accounted
  <2>6. Spawned'
    BY <1>0, <2>1, <2>2, PoolAssumption DEF Spawned
  <2>7. AtWork'
    <3>1. pc'[D] = pc[D] /\ \A w \in WorkerIds : pc'[w] = pc[w]
      BY Zenon, <2>1
    <3> QED
      BY Zenon, <1>0, <2>1, <2>2, <3>1 DEF AtWork
  <2> QED
    BY Zenon, <2>3, <2>4, <2>5, <2>6, <2>7 DEF TaskInv
<1> QED
  BY Zenon, <1>1, <1>2, <1>3 DEF Destructor

\* Every step of the pool keeps TaskInv.
LEMMA TaskNext == PoolInv /\ TaskInv /\ [Next]_vars => TaskInv'
<1> SUFFICES ASSUME PoolInv, TaskInv, [Next]_vars PROVE TaskInv'
  BY Zenon
<1> USE Names
<1>0. TypeOK
  BY Zenon DEF PoolInv
<1>1. CASE UNCHANGED vars
  BY Zenon, <1>1, TasksStayPut DEF vars, hist, Mover
<1>2. ASSUME NEW x \in Clients, Assign(x) \/ \E k \in Tasks : AssignClaim(x, k) PROVE TaskInv'
  BY Zenon, <1>0, <1>2, AssignTasks, ClaimTasks DEF Callers
<1>3. ASSUME NEW p \in Gated, SpuriousWake(p) PROVE TaskInv'
  <2>1. Mover(p) /\ pc[p] = "asleep" /\ pc'[p] = "wait"
    BY <1>0, <1>3, Moves DEF SpuriousWake, Labels, Mover
  <2> QED
    BY Zenon, <1>3, <2>1, TasksStayPut DEF SpuriousWake, hist, AfterStart
<1> QED
  BY Zenon, <1>0, <1>1, <1>2, <1>3, DispatcherTasks, WorkerTasks, DestructorTasks DEF Next

\* A task given to assignTask is always in exactly one place, runs at most once and
\* is lost only to the destructor, on x86-TSO too.
THEOREM PoolKeepsTasks == Spec => []TasksInOnePlace
<1>1. Init => TaskInv
  <2> SUFFICES ASSUME Init PROVE TaskInv
    BY Zenon
  <2>1. /\ queue = <<>> /\ submitted = {} /\ (\A k \in Tasks : started[k] = 0)
        /\ (\A p \in Gated : task[p] = NoTask /\ pc[p] = "loop")
    BY Zenon DEF Init
  <2> QED
    BY <2>1, Names, PoolAssumption DEF TaskInv, Queued, Held, Accounted, Spawned, AtWork
<1>2. TypeOK /\ TaskInv => TasksInOnePlace
  <2> SUFFICES ASSUME TypeOK, TaskInv, NEW k \in submitted
               PROVE  /\ started[k] <= 1
                      /\ \/ \E i \in Positions(k) : Positions(k) = {i} /\ Holders(k) = {} /\ started[k] = 0
                         \/ \E p \in Gated : Holders(k) = {p} /\ Positions(k) = {}
                         \/ Positions(k) = {} /\ Holders(k) = {} /\ (started[k] = 1 \/ k \in dropped)
    BY Zenon DEF TasksInOnePlace
  <2>1. k \in Tasks /\ k # NoTask /\ Queued /\ Held /\ Accounted
    BY Zenon, PoolAssumption DEF TypeOK, TaskInv
  <2>2. started[k] <= 1
    BY <2>1 DEF Accounted
  <2>3. ASSUME NEW i \in 1 .. Len(queue), queue[i].task = k
        PROVE  i \in Positions(k) /\ Positions(k) = {i} /\ Holders(k) = {} /\ started[k] = 0
    BY Zenon, <2>1, <2>3 DEF Queued, Positions, Holders
  <2>4. ASSUME NEW p \in Gated, task[p] = k PROVE Holders(k) = {p} /\ Positions(k) = {}
    <3>1. \A q \in Gated : task[q] = k => q = p
      BY Zenon, <2>1, <2>4 DEF Held
    <3>2. \A i \in 1 .. Len(queue) : queue[i].task # k
      BY Zenon, <2>1, <2>4 DEF Queued
    <3>3. p \in Holders(k) /\ Holders(k) \subseteq {p} /\ Positions(k) \subseteq {}
      BY Zenon, <2>4, <3>1, <3>2 DEF Holders, Positions
    <3> QED BY Zenon, <3>3
  <2>5. CASE (\A i \in 1 .. Len(queue) : queue[i].task # k) /\ (\A p \in Gated : task[p] # k)
    BY <2>1, <2>5 DEF Accounted, Positions, Holders
  <2> QED
    BY Zenon, <2>2, <2>3, <2>4, <2>5
<1>3. PoolInv => TypeOK
  BY Zenon DEF PoolInv
<1> QED
  BY <1>1, <1>2, <1>3, TaskNext, PoolInit, PoolNext, PTL DEF Spec

-----------------------------------------------------------------------------
(* No thread sleeps through a wake-up.                                     *)

\* Where a thread may be blocked on its gate, and where a caller of assignTask has
\* something still to do for the dispatcher.
Blocked == {"wait", "futex", "asleep"}
Promised == {"publish", "setFlag"}

\* A non-empty queue has an open gate, or the dispatcher about to look once more,
\* or a caller about to open it.
WorkSeen ==
  /\ queue # <<>> =>
       \/ flag[D] = 1 \/ pc[D] \in {"recheck", "signal"}
       \/ \E x \in Callers : pc[x] \in Promised
  /\ pc[D] = "asleep" /\ queue # <<>> => \E x \in Callers : pc[x] \in Promised \cup {"wake"}

\* A worker with a task has an open gate, or the dispatcher about to open it.
TaskSeen ==
  \A w \in WorkerIds : task[w] # NoTask =>
    /\ flag[w] = 0 => id = w /\ pc[D] = "giveFlag"
    /\ pc[w] = "asleep" => id = w /\ pc[D] \in {"giveFlag", "giveWake"}

\* A stopped thread in waiter() has an open gate, or the destructor about to open it.
StopSeen ==
  \A p \in Gated : ~running[p] /\ pc[p] \in Blocked =>
    /\ flag[p] = 0 => victim = p /\ pc[Owner] = "setFlag"
    /\ pc[p] = "asleep" => victim = p /\ pc[Owner] \in {"setFlag", "wake"}

WakeInv == sb = <<>> /\ WorkSeen /\ TaskSeen /\ StopSeen

\* A thread that falls asleep found its gate closed.
FallsAsleep(t) == pc'[t] = "asleep" => t \in Gated /\ pc[t] = "futex" /\ flag[t] = 0

\* A step that neither fills the queue nor completes a promise to the dispatcher keeps WorkSeen.
LEMMA WorkCalm ==
  ASSUME WorkSeen, NEW t \in Threads, Mover(t), FallsAsleep(t),
         queue' # <<>> => queue # <<>>,
         t \in Callers => pc[t] \notin Promised \cup {"wake"},
         t = D => pc[D] \notin {"recheck", "signal"},
         flag[D] = 1 => flag'[D] = 1
  PROVE  WorkSeen'
<1> USE Names DEF Promised
<1>1. ASSUME NEW x \in Callers, pc[x] \in Promised \cup {"wake"} PROVE pc'[x] = pc[x]
  BY Zenon, <1>1 DEF Mover
<1>2. pc[D] \in {"recheck", "signal"} => pc'[D] = pc[D]
  BY Zenon DEF Mover
<1>3. pc'[D] = "asleep" => pc[D] = "asleep" \/ (flag[D] = 0 /\ pc[D] = "futex")
  BY Zenon DEF Mover, FallsAsleep
<1> QED
  BY <1>1, <1>2, <1>3 DEF WorkSeen

\* A step that gives no worker a task keeps TaskSeen.
LEMMA TaskCalm ==
  ASSUME TypeOK, TypeOK', TaskSeen, NEW t \in Threads, Mover(t), FallsAsleep(t),
         t = D => pc[D] \notin {"giveFlag", "giveWake"},
         id' = id \/ t = D,
         \A w \in WorkerIds : /\ task'[w] = task[w] \/ task'[w] = NoTask
                              /\ flag[w] = 1 => flag'[w] = 1 \/ task'[w] = NoTask
  PROVE  TaskSeen'
<1> USE Names
<1> SUFFICES ASSUME NEW w \in WorkerIds, task'[w] # NoTask
             PROVE  /\ flag'[w] = 0 => id' = w /\ pc'[D] = "giveFlag"
                    /\ pc'[w] = "asleep" => id' = w /\ pc'[D] \in {"giveFlag", "giveWake"}
  BY Zenon DEF TaskSeen
<1>1. task[w] # NoTask /\ flag[w] \in {0, 1} /\ (flag'[w] = 0 => flag[w] = 0)
  BY Zenon DEF TypeOK
<1>2. pc[D] \in {"giveFlag", "giveWake"} => pc'[D] = pc[D] /\ id' = id
  BY Zenon DEF Mover
<1>3. pc'[w] = "asleep" => pc[w] = "asleep" \/ flag[w] = 0
  BY Zenon DEF Mover, FallsAsleep
<1> QED
  BY Zenon, <1>1, <1>2, <1>3 DEF TaskSeen

\* A step that stops no thread and signals none on behalf of the destructor keeps StopSeen.
LEMMA StopCalm ==
  ASSUME TypeOK, StopSeen, NEW t \in Threads, Mover(t), FallsAsleep(t),
         t = Owner => pc[Owner] \notin {"setFlag", "wake"},
         victim' = victim \/ t = Owner, running' = running,
         pc'[t] \in Blocked => t \in Gated /\ (pc[t] \in Blocked \/ running[t]),
         \A p \in Gated : flag[p] = 1 => flag'[p] = 1 \/ (p = t /\ pc'[t] \notin Blocked)
  PROVE  StopSeen'
<1> USE Names
<1> SUFFICES ASSUME NEW p \in Gated, ~running'[p], pc'[p] \in Blocked
             PROVE  /\ flag'[p] = 0 => victim' = p /\ pc'[Owner] = "setFlag"
                    /\ pc'[p] = "asleep" => victim' = p /\ pc'[Owner] \in {"setFlag", "wake"}
  BY Zenon DEF StopSeen
<1>1. pc[p] \in Blocked /\ ~running[p]
  BY Zenon DEF Mover, Blocked
<1>2. flag[p] \in {0, 1} /\ (flag'[p] = 0 => flag[p] = 0)
  BY Zenon DEF TypeOK
<1>3. pc[Owner] \in {"setFlag", "wake"} => pc'[Owner] = pc[Owner] /\ victim' = victim
  BY Zenon DEF Mover
<1>4. pc'[p] = "asleep" => pc[p] = "asleep" \/ flag[p] = 0
  BY Zenon DEF Mover, FallsAsleep
<1> QED
  BY Zenon, <1>1, <1>2, <1>3, <1>4 DEF StopSeen

\* FUTEX_WAKE leaves nobody asleep behind gate g.
LEMMA WakesBehind ==
  ASSUME TypeOK, NEW p \in Threads, NEW g \in Gated, NEW from, NEW to \in Labels,
         to # "asleep", SignalWake(p, from, to, g)
  PROVE  pc'[g] # "asleep"
<1>1. pc \in [Threads -> Labels] /\ g \in Threads
  BY Zenon DEF TypeOK, Threads
<1>2. CASE g = p
  BY Zenon, <1>1, <1>2 DEF SignalWake
<1>3. CASE g # p
  BY Zenon, <1>1, <1>3 DEF SignalWake
<1> QED
  BY Zenon, <1>2, <1>3

\* Without a store buffer a store takes effect at once.
LEMMA StoreNow ==
  ASSUME ~TSO, TypeOK, NEW p, NEW g \in Gated, NEW v, StoreFlag(p, g, v)
  PROVE  sb' = sb /\ flag'[g] = v /\ \A q \in Gated : q # g => flag'[q] = flag[q]
BY Zenon DEF StoreFlag, TypeOK

\* assignTask() keeps WakeInv.
LEMMA AssignWakes ==
  ASSUME ~TSO, TypeOK, TypeOK', WakeInv, NEW x \in Callers,
         Assign(x) \/ \E k \in Tasks : AssignClaim(x, k)
  PROVE  WakeInv'
<1> USE Names DEF mem
<1>1. /\ Mover(x) /\ pc'[x] \notin Blocked
      /\ \/ pc'[x] = "publish" /\ UNCHANGED <<flag, sb>>
         \/ pc[x] = "publish" /\ pc'[x] = "setFlag" /\ UNCHANGED <<flag, sb>>
         \/ /\ pc[x] = "setFlag" /\ pc'[x] = "wake"
            /\ sb' = sb /\ flag'[D] = 1 /\ \A q \in Gated : q # D => flag'[q] = flag[q]
         \/ pc[x] = "wake" /\ pc'[D] # "asleep" /\ UNCHANGED <<flag, sb, queue>>
  <2>1. ASSUME NEW k \in Tasks, AssignClaim(x, k) PROVE <1>1!:
    <3>1. PICK from \in {"idle", "spawn"} : Step(x, from, "publish")
      BY Zenon, <2>1 DEF AssignClaim
    <3>2. "publish" \in Labels /\ x \in Threads
      BY Zenon DEF Labels
    <3>3. Mover(x) /\ pc'[x] = "publish"
      BY Zenon, <3>1, <3>2, StepMoves
    <3> QED BY Zenon, <2>1, <3>3 DEF AssignClaim, Blocked
  <2>2. CASE AssignPublish(x)
    <3>1. "setFlag" \in Labels /\ x \in Threads
      BY Zenon DEF Labels
    <3>2. Mover(x) /\ pc[x] = "publish" /\ pc'[x] = "setFlag"
      BY Zenon, <2>2, <3>1, StepMoves DEF AssignPublish
    <3> QED BY Zenon, <2>2, <3>2 DEF AssignPublish, Blocked
  <2>3. CASE SignalStore(x, "setFlag", "wake", D)
    <3>1. Mover(x) /\ pc[x] = "setFlag" /\ pc'[x] = "wake"
      <4>1. "wake" \in Labels /\ x \in Threads
        BY Zenon DEF Labels
      <4> QED BY Zenon, <2>3, <4>1, StepMoves DEF SignalStore
    <3>2. sb' = sb /\ flag'[D] = 1 /\ \A q \in Gated : q # D => flag'[q] = flag[q]
      BY Zenon, <2>3, StoreNow DEF SignalStore
    <3> QED
      BY Zenon, <3>1, <3>2 DEF Blocked
  <2>4. CASE AssignWake(x)
    <3>1. Mover(x) /\ pc[x] = "wake" /\ pc'[x] \in {"clear", "idle"}
      <4>1. PICK to \in {"clear", "idle"} : SignalWake(x, "wake", to, D)
        BY Zenon, <2>4 DEF AssignWake
      <4>2. to \in Labels /\ x \in Threads /\ D \in Gated /\ "wake" # "asleep" /\ to # "asleep"
        BY Zenon DEF Labels
      <4> QED BY Zenon, <4>1, <4>2, WakeMoves
    <3>2. pc'[D] # "asleep"
      BY Zenon, <2>4, WakesBehind DEF AssignWake, Labels
    <3> QED
      BY Zenon, <2>4, <3>1, <3>2 DEF AssignWake, Blocked
  <2> QED
    BY Zenon, <2>1, <2>2, <2>3, <2>4 DEF Assign
<1>2. UNCHANGED <<task, running, id, victim>>
  BY Zenon DEF Assign, AssignClaim, AssignPublish, AssignWake, SignalStore
<1>3. FallsAsleep(x) /\ \A q \in Gated : flag[q] = 1 => flag'[q] = 1
  BY Zenon, <1>1 DEF FallsAsleep, Blocked
<1>4. TaskSeen'
  BY Zenon, <1>1, <1>2, <1>3, TaskCalm DEF WakeInv
<1>5. StopSeen'
  BY Zenon, <1>1, <1>2, <1>3, StopCalm DEF WakeInv
<1>6. WorkSeen'
  <2>1. CASE pc'[x] \in Promised
    BY Zenon, <2>1 DEF WorkSeen
  <2>2. CASE pc'[x] = "wake" /\ flag'[D] = 1
    BY Zenon, <2>2 DEF WorkSeen
  <2>3. CASE pc[x] = "wake" /\ pc'[D] # "asleep" /\ UNCHANGED <<flag, sb, queue>>
    <3>1. \A y \in Callers : pc[y] \in Promised => pc'[y] = pc[y]
      BY Zenon, <1>1, <2>3 DEF Mover, Promised
    <3>2. pc[D] \in {"recheck", "signal"} => pc'[D] = pc[D]
      BY Zenon, <1>1 DEF Mover
    <3> QED
      BY Zenon, <2>3, <3>1, <3>2 DEF WakeInv, WorkSeen
  <2> QED
    BY Zenon, <1>1, <2>1, <2>2, <2>3 DEF Promised
<1> QED
  BY Zenon, <1>1, <1>4, <1>5, <1>6 DEF WakeInv

\* waiter(), for the dispatcher and the workers.
LEMMA WaiterWakes ==
  ASSUME TypeOK, TypeOK', WakeInv, NEW p \in Gated, WaiterStep(p) \/ SpuriousWake(p)
  PROVE  WakeInv'
<1> USE Names DEF mem
<1>1. UNCHANGED <<flag, sb, queue, task, running, id, victim>>
  BY Zenon DEF WaiterStep, SpuriousWake
<1>2. LoadFlag(p) = flag[p]
  BY Zenon DEF LoadFlag, Fenced, WakeInv
<1>3. /\ Mover(p) /\ FallsAsleep(p)
      /\ pc[p] \in {"loop"} \cup Blocked
      /\ pc'[p] \in Blocked => pc[p] \in Blocked \/ running[p]
  <2>1. CASE SpuriousWake(p)
    <3>1. Mover(p) /\ pc[p] = "asleep" /\ pc'[p] = "wait"
      <4>1. "wait" \in Labels /\ p \in Threads
        BY Zenon DEF Labels
      <4> QED BY Zenon, <2>1, <4>1, StepMoves DEF SpuriousWake
    <3> QED BY Zenon, <3>1 DEF Blocked, FallsAsleep
  <2>2. CASE WaiterStep(p)
    <3>1. PICK from \in {"loop", "wait", "futex"}, to \in {"wait", "done", "woken", "futex", "asleep"} :
            /\ Step(p, from, to)
            /\ to = "asleep" => from = "futex" /\ flag[p] = 0
            /\ from = "loop" => running[p] \/ to = "done"
      BY Zenon, <2>2 DEF WaiterStep
    <3>2. to \in Labels /\ p \in Threads
      BY Zenon DEF Labels
    <3>3. Mover(p) /\ pc[p] = from /\ pc'[p] = to
      BY Zenon, <3>1, <3>2, StepMoves
    <3> QED BY Zenon, <3>1, <3>3 DEF Blocked, FallsAsleep
  <2> QED
    BY Zenon, <2>1, <2>2
<1>4. WorkSeen'
  BY Zenon, <1>1, <1>3, WorkCalm DEF WakeInv, Blocked, Promised
<1>5. TaskSeen'
  BY Zenon, <1>1, <1>3, TaskCalm DEF WakeInv, Blocked
<1>6. StopSeen'
  BY Zenon, <1>1, <1>3, StopCalm DEF WakeInv
<1> QED
  BY Zenon, <1>1, <1>4, <1>5, <1>6 DEF WakeInv

\* The steps of a worker keep WakeInv.
LEMMA WorkerWakes ==
  ASSUME ~TSO, PoolInv, TypeOK', WakeInv, NEW w \in WorkerIds, Worker(w)
  PROVE  WakeInv'
<1> USE Names DEF mem
<1>0. TypeOK /\ Cell(w)
  BY Zenon DEF PoolInv
<1>1. CASE WaiterStep(w)
  BY Zenon, <1>0, <1>1, WaiterWakes
<1>2. CASE Assign(w) \/ \E k \in Tasks : AssignClaim(w, k)
  BY Zenon, <1>0, <1>2, AssignWakes DEF Callers
<1>3. CASE WorkerBranch(w) \/ WorkerRun(w) \/ WorkerClear(w) \/ WorkerReset(w) \/ WorkerFree(w)
  <2>1. Mover(w) /\ pc[w] \in {"woken", "run", "clear", "reset", "free"} /\ pc'[w] \notin Blocked
    <3>1. PICK from \in {"woken", "run", "clear", "reset", "free"},
               to \in {"run", "loop", "clear", "spawn", "reset", "free"} : Step(w, from, to)
      BY Zenon, <1>3 DEF WorkerBranch, WorkerRun, WorkerClear, WorkerReset, WorkerFree
    <3>2. to \in Labels
      BY Zenon DEF Labels
    <3> QED
      BY Zenon, <1>0, <3>1, <3>2, Moves DEF Blocked, Mover
  <2>2. UNCHANGED <<queue, running, id, victim>>
    BY Zenon, <1>3 DEF WorkerBranch, WorkerRun, WorkerClear, WorkerReset, WorkerFree
  <2>3. \A q \in WorkerIds : task'[q] = task[q] \/ task'[q] = NoTask
    BY Zenon, <1>0, <1>3 DEF WorkerBranch, WorkerRun, WorkerClear, WorkerReset, WorkerFree, TypeOK
  <2>4. sb' = sb /\ \A q \in Gated : flag'[q] = flag[q] \/ (q = w /\ task'[q] = NoTask)
    <3>1. CASE WorkerReset(w)
      <4>1. task[w] = NoTask /\ task' = task
        BY Zenon, <1>0, <3>1 DEF Cell, WorkerReset, Step
      <4>2. sb' = sb /\ \A q \in Gated : q # w => flag'[q] = flag[q]
        BY Zenon, <1>0, <3>1, StoreNow DEF WorkerReset
      <4> QED
        BY Zenon, <4>1, <4>2
    <3>2. CASE ~WorkerReset(w)
      BY Zenon, <1>3, <3>2 DEF WorkerBranch, WorkerRun, WorkerClear, WorkerFree
    <3> QED
      BY Zenon, <3>1, <3>2
  <2>5. FallsAsleep(w)
    BY Zenon, <2>1 DEF FallsAsleep, Blocked
  <2>6. WorkSeen'
    BY Zenon, <2>1, <2>2, <2>4, <2>5, WorkCalm DEF WakeInv, Promised
  <2>7. TaskSeen'
    BY Zenon, <1>0, <2>1, <2>2, <2>3, <2>4, <2>5, TaskCalm DEF WakeInv
  <2>8. StopSeen'
    BY Zenon, <1>0, <2>1, <2>2, <2>4, <2>5, StopCalm DEF WakeInv
  <2> QED
    BY Zenon, <2>4, <2>6, <2>7, <2>8 DEF WakeInv
<1> QED
  BY Zenon, <1>1, <1>2, <1>3 DEF Worker

\* taskDispatcher() keeps WakeInv; the recheck after the reset is what saves WorkSeen.
LEMMA DispatcherWakes ==
  ASSUME ~TSO, PoolInv, TypeOK', WakeInv, Dispatcher \/ DrainBuffer
  PROVE  WakeInv'
<1> USE Names DEF mem
<1>0. TypeOK /\ Given /\ id \in WorkerIds /\ WorkSeen /\ TaskSeen /\ StopSeen /\ sb = <<>>
  BY Zenon DEF PoolInv, WakeInv, TypeOK
<1>1. CASE WaiterStep(D)
  BY Zenon, <1>0, <1>1, WaiterWakes
<1>2. CASE DispatcherBranch
  <2>1. Mover(D) /\ pc'[D] \notin Blocked
        /\ pc[D] \in {"woken", "isEmpty", "drained", "recheck"}
        /\ (pc[D] = "recheck" => queue = <<>> \/ pc'[D] = "signal")
    <3>1. PICK from \in {"woken", "isEmpty", "drained", "recheck"},
               to \in {"isEmpty", "drained", "dequeue", "loop", "reset", "signal"} :
            Step(D, from, to) /\ (from = "recheck" => queue = <<>> \/ to = "signal")
      BY Zenon, <1>2 DEF DispatcherBranch, IsEmpty
    <3>2. to \in Labels
      BY Zenon DEF Labels
    <3>3. Mover(D) /\ pc[D] = from /\ pc'[D] = to
      BY Zenon, <1>0, <3>1, <3>2, StepMoves
    <3> QED BY Zenon, <3>1, <3>3 DEF Blocked
  <2>2. UNCHANGED <<flag, sb, queue, running, id, victim, task>>
    BY Zenon, <1>2 DEF DispatcherBranch
  <2>3. FallsAsleep(D)
    BY Zenon, <2>1 DEF FallsAsleep, Blocked
  <2>4. WorkSeen'
    <3>1. CASE pc[D] = "recheck"
      BY Zenon, <2>1, <2>2, <3>1 DEF WorkSeen, Blocked
    <3>2. CASE pc[D] # "recheck"
      BY Zenon, <1>0, <2>1, <2>2, <2>3, <3>2, WorkCalm
    <3> QED
      BY Zenon, <3>1, <3>2
  <2>5. TaskSeen'
    BY Zenon, <1>0, <2>1, <2>2, <2>3, TaskCalm
  <2>6. StopSeen'
    BY Zenon, <1>0, <2>1, <2>2, <2>3, StopCalm
  <2> QED
    BY Zenon, <1>0, <2>2, <2>4, <2>5, <2>6 DEF WakeInv
<1>3. CASE DispatcherReset \/ SignalStore(D, "signal", "signalWake", D)
  <2>1. Mover(D) /\ pc'[D] \notin Blocked /\ pc[D] \in {"reset", "signal"}
        /\ (pc'[D] = "recheck" \/ pc[D] = "signal")
    BY <1>0, <1>3, Moves DEF DispatcherReset, SignalStore, Labels, Blocked, Mover
  <2>2. UNCHANGED <<queue, running, id, victim, task>>
    BY Zenon, <1>3 DEF DispatcherReset, SignalStore
  <2>3. sb' = sb /\ (\A q \in Gated : q # D => flag'[q] = flag[q])
        /\ (pc[D] = "signal" => flag'[D] = 1)
    <3>1. CASE DispatcherReset
      <4>1. StoreFlag(D, D, 0) /\ pc[D] = "reset"
        BY Zenon, <3>1 DEF DispatcherReset, Step
      <4> QED
        BY Zenon, <1>0, <4>1, StoreNow
    <3>2. CASE SignalStore(D, "signal", "signalWake", D)
      <4>1. StoreFlag(D, D, 1)
        BY Zenon, <3>2 DEF SignalStore
      <4> QED
        BY <1>0, <4>1, StoreNow
    <3> QED
      BY Zenon, <1>3, <3>1, <3>2
  <2>4. FallsAsleep(D)
    BY Zenon, <2>1 DEF FallsAsleep, Blocked
  <2>5. WorkSeen'
    BY Zenon, <2>1, <2>3 DEF WorkSeen, Blocked
  <2>6. TaskSeen'
    BY Zenon, <1>0, <2>1, <2>2, <2>3, <2>4, TaskCalm
  <2>7. StopSeen'
    BY Zenon, <1>0, <2>1, <2>2, <2>3, <2>4, StopCalm
  <2> QED
    BY Zenon, <1>0, <2>3, <2>5, <2>6, <2>7 DEF WakeInv
<1>4. CASE DispatcherSignalWake \/ DispatcherDequeue \/ DispatcherScan
  <2>1. Mover(D) /\ pc'[D] \notin Blocked /\ pc[D] \in {"signalWake", "dequeue", "scan"}
    <3>1. CASE DispatcherSignalWake
      BY Zenon, <1>0, <3>1, Wakes DEF DispatcherSignalWake, Labels, Blocked, Mover
    <3>2. CASE DispatcherDequeue
      BY <1>0, <3>2, Moves DEF DispatcherDequeue, Labels, Blocked, Mover
    <3>3. CASE DispatcherScan
      BY <1>0, <3>3, Moves DEF DispatcherScan, Labels, Blocked, Mover
    <3> QED
      BY Zenon, <1>4, <3>1, <3>2, <3>3
  <2>2. UNCHANGED <<flag, sb, running, victim>> /\ (\A q \in WorkerIds : task'[q] = task[q])
        /\ (queue' # <<>> => queue # <<>>)
    BY Zenon, <1>0, <1>4 DEF DispatcherSignalWake, DispatcherDequeue, DispatcherScan, IsEmpty, TypeOK
  <2>3. FallsAsleep(D)
    BY Zenon, <2>1 DEF FallsAsleep, Blocked
  <2>4. WorkSeen'
    BY Zenon, <1>0, <2>1, <2>2, <2>3, WorkCalm
  <2>5. TaskSeen'
    BY Zenon, <1>0, <2>1, <2>2, <2>3, TaskCalm
  <2>6. StopSeen'
    BY Zenon, <1>0, <2>1, <2>2, <2>3, StopCalm
  <2> QED
    BY Zenon, <1>0, <2>2, <2>4, <2>5, <2>6 DEF WakeInv
<1>5. CASE ActivateTask \/ SignalStore(D, "giveFlag", "giveWake", id) \/ ActivateWake
  <2>1. /\ Mover(D) /\ pc'[D] \notin Blocked
        /\ \/ pc[D] = "giveTask" /\ pc'[D] = "giveFlag" /\ UNCHANGED <<id, flag, sb>>
              /\ \A q \in WorkerIds : q # id => task'[q] = task[q]
           \/ pc[D] = "giveFlag" /\ pc'[D] = "giveWake" /\ UNCHANGED <<id, task, sb>>
              /\ flag'[id] = 1 /\ \A q \in Gated : q # id => flag'[q] = flag[q]
           \/ pc[D] = "giveWake" /\ pc'[D] = "woken" /\ UNCHANGED <<task, flag, sb>> /\ pc'[id] # "asleep"
    <3>0. id \in Gated
      BY Zenon, <1>0
    <3>1. CASE ActivateTask
      <4>1. Mover(D) /\ pc[D] = "giveTask" /\ pc'[D] = "giveFlag"
        BY <1>0, <3>1, Moves DEF ActivateTask, Labels, Mover
      <4>2. task \in [Gated -> Tasks \cup {NoTask}]
        BY Zenon, <1>0 DEF TypeOK
      <4>3. UNCHANGED <<id, flag, sb>> /\ \A q \in WorkerIds : q # id => task'[q] = task[q]
        BY Zenon, <3>1, <4>2 DEF ActivateTask
      <4> QED
        BY Zenon, <4>1, <4>3 DEF Blocked
    <3>2. CASE SignalStore(D, "giveFlag", "giveWake", id)
      <4>1. Mover(D) /\ pc[D] = "giveFlag" /\ pc'[D] = "giveWake"
        BY <1>0, <3>2, Moves DEF SignalStore, Labels, Mover
      <4>2. sb' = sb /\ flag'[id] = 1 /\ \A q \in Gated : q # id => flag'[q] = flag[q]
        BY Zenon, <1>0, <3>0, <3>2, StoreNow DEF SignalStore
      <4> QED
        BY Zenon, <3>2, <4>1, <4>2 DEF SignalStore, Blocked
    <3>3. CASE ActivateWake
      <4>1. Mover(D) /\ pc[D] = "giveWake" /\ pc'[D] = "woken"
        BY <1>0, <3>0, <3>3, Wakes DEF ActivateWake, Labels, Mover
      <4>2. pc'[id] # "asleep"
        BY Zenon, <1>0, <3>0, <3>3, WakesBehind DEF ActivateWake, Labels
      <4> QED
        BY Zenon, <3>3, <4>1, <4>2 DEF ActivateWake, Blocked
    <3> QED
      BY Zenon, <1>5, <3>1, <3>2, <3>3
  <2>2. UNCHANGED <<queue, running, victim>>
    BY Zenon, <1>5 DEF ActivateTask, SignalStore, ActivateWake
  <2>3. FallsAsleep(D) /\ (\A q \in Gated : flag[q] = 1 => flag'[q] = 1)
    BY Zenon, <1>0, <2>1 DEF FallsAsleep, Blocked
  <2>4. WorkSeen'
    BY Zenon, <1>0, <2>1, <2>2, <2>3, WorkCalm
  <2>5. StopSeen'
    BY Zenon, <1>0, <2>1, <2>2, <2>3, StopCalm
  <2>6. TaskSeen'
    BY <1>0, <2>1 DEF TaskSeen, Mover
  <2> QED
    BY Zenon, <1>0, <2>1, <2>4, <2>5, <2>6 DEF WakeInv
<1>6. CASE DrainBuffer
  BY Zenon, <1>0, <1>6 DEF DrainBuffer
<1> QED
  BY Zenon, <1>1, <1>2, <1>3, <1>4, <1>5, <1>6 DEF Dispatcher

\* The destructors keep WakeInv.
LEMMA DestructorWakes ==
  ASSUME ~TSO, TypeOK, TypeOK', WakeInv, DestroyStart \/ Destructor
  PROVE  WakeInv'
<1> USE Names DEF mem
<1>0. victim \in Gated /\ WorkSeen /\ TaskSeen /\ StopSeen /\ sb = <<>>
  BY Zenon DEF WakeInv, TypeOK
<1>1. /\ Mover(Owner) /\ pc'[Owner] \notin Blocked
      /\ \/ pc[Owner] \in {"alive", "join"} /\ UNCHANGED <<flag, running>>
         \/ /\ pc[Owner] = "stop" /\ pc'[Owner] = "setFlag" /\ UNCHANGED <<flag, victim>>
            /\ \A q \in Gated : q # victim => running'[q] = running[q]
         \/ /\ pc[Owner] = "setFlag" /\ pc'[Owner] = "wake" /\ UNCHANGED <<victim, running>>
            /\ flag'[victim] = 1 /\ \A q \in Gated : q # victim => flag'[q] = flag[q]
         \/ pc[Owner] = "wake" /\ pc'[victim] # "asleep" /\ UNCHANGED <<flag, victim, running>>
  <2>1. CASE DestroyStart
    BY Zenon, <2>1, Moves DEF DestroyStart, Labels, Blocked, Mover
  <2>2. CASE Stop
    <3>1. Mover(Owner) /\ pc[Owner] = "stop" /\ pc'[Owner] = "setFlag"
      <4>1. "setFlag" \in Labels
        BY Zenon DEF Labels
      <4> QED BY Zenon, <2>2, <4>1, StepMoves DEF Stop
    <3>2. \A q \in Gated : q # victim => running'[q] = running[q]
      BY Zenon, <2>2 DEF Stop, TypeOK
    <3> QED
      BY Zenon, <2>2, <3>1, <3>2 DEF Stop, Blocked
  <2>3. CASE SignalStore(Owner, "setFlag", "wake", victim)
    <3>1. Mover(Owner) /\ pc[Owner] = "setFlag" /\ pc'[Owner] = "wake"
      <4>1. "wake" \in Labels
        BY Zenon DEF Labels
      <4> QED BY Zenon, <2>3, <4>1, StepMoves DEF SignalStore
    <3>2. flag'[victim] = 1 /\ \A q \in Gated : q # victim => flag'[q] = flag[q]
      <4>1. StoreFlag(Owner, victim, 1) /\ victim \in Gated
        BY Zenon, <1>0, <2>3 DEF SignalStore
      <4> QED
        BY Zenon, <4>1, StoreNow
    <3> QED
      BY Zenon, <2>3, <3>1, <3>2 DEF SignalStore, Blocked
  <2>4. CASE StopWake
    <3>1. Mover(Owner) /\ pc[Owner] = "wake" /\ pc'[Owner] = "join"
      <4>1. "join" \in Labels /\ Owner \in Threads /\ "wake" # "asleep" /\ "join" # "asleep"
        BY Zenon DEF Labels
      <4>2. SignalWake(Owner, "wake", "join", victim)
        BY Zenon, <2>4 DEF StopWake
      <4> QED BY Zenon, <1>0, <4>1, <4>2, WakeMoves
    <3>2. pc'[victim] # "asleep"
      BY Zenon, <1>0, <2>4, WakesBehind DEF StopWake, Labels
    <3> QED
      BY Zenon, <2>4, <3>1, <3>2 DEF StopWake, Blocked
  <2>5. CASE Join
    <3>1. PICK to \in {"gone", "stop"} : Step(Owner, "join", to)
      BY Zenon, <2>5 DEF Join
    <3>2. to \in Labels
      BY Zenon DEF Labels
    <3>3. Mover(Owner) /\ pc[Owner] = "join" /\ pc'[Owner] = to
      BY Zenon, <3>1, <3>2, StepMoves
    <3> QED BY Zenon, <2>5, <3>3 DEF Join, Blocked
  <2> QED
    BY Zenon, <2>1, <2>2, <2>3, <2>4, <2>5 DEF Destructor
<1>2. /\ sb' = sb /\ id' = id /\ (queue' # <<>> => queue # <<>>)
      /\ \A w \in WorkerIds : task'[w] = task[w] \/ task'[w] = NoTask
  <2>1. sb' = sb
    BY Zenon, <1>0, StoreNow DEF DestroyStart, Destructor, Stop, SignalStore, StopWake, Join
  <2> QED
    BY Zenon, <2>1 DEF DestroyStart, Destructor, Stop, SignalStore, StopWake, Join, TypeOK
<1>3. FallsAsleep(Owner) /\ (\A q \in Gated : flag[q] = 1 => flag'[q] = 1)
  BY Zenon, <1>1 DEF FallsAsleep, Blocked
<1>4. WorkSeen'
  BY Zenon, <1>0, <1>2, <1>3, <1>1, WorkCalm
<1>5. TaskSeen'
  BY Zenon, <1>0, <1>2, <1>3, <1>1, TaskCalm
<1>6. StopSeen'
  <2>1. CASE pc[Owner] \in {"alive", "join"} /\ UNCHANGED <<flag, running>>
    BY Zenon, <1>0, <1>1, <1>3, <2>1, StopCalm
  <2>2. CASE pc[Owner] \notin {"alive", "join"}
    <3>1. \A p \in Gated : p # victim => running'[p] = running[p] /\ flag'[p] = flag[p]
      BY Zenon, <1>1, <2>2
    <3>2. \A p \in Gated : /\ pc'[p] \in Blocked => pc[p] \in Blocked
                           /\ pc'[p] = "asleep" => pc[p] = "asleep"
      BY Zenon, <1>1 DEF Mover, Blocked
    <3>3. victim' = victim
      BY Zenon, <1>1, <2>2
    <3>4. \A p \in Gated : p # victim /\ ~running'[p] /\ pc'[p] \in Blocked =>
                             flag'[p] # 0 /\ pc'[p] # "asleep"
      BY Zenon, <1>0, <3>1, <3>2 DEF StopSeen
    <3>5. ~running'[victim] /\ pc'[victim] \in Blocked =>
            /\ flag'[victim] = 0 => pc'[Owner] = "setFlag"
            /\ pc'[victim] = "asleep" => pc'[Owner] \in {"setFlag", "wake"}
      BY <1>0, <1>1, <2>2, <3>2 DEF StopSeen
    <3> QED
      BY <3>3, <3>4, <3>5 DEF StopSeen
  <2> QED
    BY Zenon, <1>1, <2>1, <2>2
<1> QED
  BY Zenon, <1>0, <1>2, <1>4, <1>5, <1>6 DEF WakeInv

\* Where loads and stores are not reordered, no thread of the pool sleeps through
\* work: a blocked dispatcher with a queue, a blocked worker with a task, and a
\* blocked thread that was stopped have a signaler() on its way.
THEOREM PoolLosesNoWakeup == ~TSO => (Spec => []NoLostWakeup)
<1> SUFFICES ASSUME ~TSO PROVE Spec => []NoLostWakeup
  BY Zenon
<1>1. Init => WakeInv
  <2> SUFFICES ASSUME Init PROVE WakeInv
    BY Zenon
  <2>1. sb = <<>> /\ queue = <<>> /\ \A p \in Gated : running[p] /\ task[p] = NoTask
    BY Zenon DEF Init
  <2> QED
    BY Zenon, <2>1, Names DEF WakeInv, WorkSeen, TaskSeen, StopSeen
<1>2. PoolInv /\ WakeInv /\ [Next]_vars => WakeInv'
  <2> SUFFICES ASSUME PoolInv, WakeInv, [Next]_vars PROVE WakeInv'
    BY Zenon
  <2>1. TypeOK /\ TypeOK'
    BY Zenon, TypeNext DEF PoolInv
  <2>2. CASE UNCHANGED vars
    BY Zenon, <2>2 DEF vars, mem, hist, WakeInv, WorkSeen, TaskSeen, StopSeen
  <2>3. ASSUME NEW x \in Clients, Assign(x) \/ \E k \in Tasks : AssignClaim(x, k) PROVE WakeInv'
    BY Zenon, <2>1, <2>3, AssignWakes DEF Callers
  <2> QED
    BY Zenon, <2>1, <2>2, <2>3, DispatcherWakes, WorkerWakes, WaiterWakes, DestructorWakes DEF Next
<1>3. WakeInv => NoLostWakeup
  BY Zenon DEF WakeInv, WorkSeen, TaskSeen, StopSeen, NoLostWakeup, Signalling, IsEmpty, Promised, Blocked
<1> QED
  BY <1>1, <1>2, <1>3, PoolInit, PoolNext, PTL DEF Spec

===============================================================================
