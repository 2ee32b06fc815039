--------------------------- MODULE ComparisonBench ---------------------------
(***************************************************************************)
(* bench/benchCommon.hpp's topology, knobs and runPinned, around the       *)
(* measured bodies of three benchmarks: runLock (module Spinlock), run of  *)
(* IndexPoolComparisonBench with its MutexVecPool, and throughput of       *)
(* QueueComparisonBench with its MutexDeque.  A locked scope of std::mutex *)
(* that guards all accesses to a container is one step.                    *)
(***************************************************************************)
EXTENDS Spinlock, FiniteSetsExt, Sequences

CONSTANTS
  Configs,      \* the values of <<machine, bench, g_mult, kind, waitTime>> to look at
  g_scale, Minimum,   \* divisor and lower bound of scaled()
  WordBits,     \* width of uint64_t
  SIZE, CAP     \* capacity of the free list and of the deque

\* A run has threads, all of them in Threads.
ASSUME ConfigAssumption ==
  \A c \in Configs :
    /\ c[1].core \in Seq(Nat)
    /\ c[2].P \in Nat \ {0} /\ c[2].C \in Nat /\ 0 .. (c[2].P + c[2].C) - 1 \subseteq Threads

VARIABLES
  machine,      \* core[c + 1] of logical CPU c; CPUs that cannot be pinned to, or
                \* whose thread_siblings_list is not readable or has no number in it
  bench,        \* program; P, C (0 but for throughput) its threads; base its item count
  g_mult,
  probed, g_physCpus,   \* the CPUs that detectTopology has looked at, and the leaders it found
  co, spawned,  \* the coordinator: its step, and how many threads it has created
  ready, go,    \* of runPinned
  cpu,          \* affinity of a thread: a CPU, or Unpinned
  free, uses, idx,           \* MutexVecPool, data[].uses, and the index a thread has
  d, acc, sum,               \* MutexDeque, s of a consumer, and the total
  g_failures

Unpinned == -1
Coordinator == Nobody
hvars == <<machine, bench, g_mult, kind, waitTime>>
rvars == <<probed, g_physCpus, co, spawned, ready, go, cpu, g_failures>>
wvars == <<free, uses, idx, d, acc, sum>>
vars == <<hvars, pc, lvars, rvars, wvars>>

-----------------------------------------------------------------------------
(* Knobs and topology.                                                     *)

\* base * g_mult / g_scale in uint64_t, at least minimum.
scaled(base, minimum) == Max({minimum, ((base * g_mult) % 2^WordBits) \div g_scale})

\* The first CPU that a readable thread_siblings_list names.
Leader(m, c) ==
  IF c \in m.garbled THEN c ELSE Min({b \in 0 .. c : m.core[b + 1] = m.core[c + 1]})

coreCount == Len(g_physCpus)

Shares == bench.P + bench.C           \* threads of the run
Bodies == 0 .. Shares - 1

\* N of throughput, rounded so that both sides get equal shares; total of run.
Total_Mutant == scaled(bench.base, Minimum)
Total ==
  LET N == scaled(bench.base, Minimum)
  IN  IF bench.program = "throughput" THEN N - (N % (bench.P * bench.C)) ELSE N

Init ==
  /\ LockInit
  /\ \E c \in Configs :
       machine = c[1] /\ bench = c[2] /\ g_mult = c[3] /\ kind = c[4] /\ waitTime = c[5]
  /\ pc = [t \in Threads |-> "unborn"]
  /\ co = "init" /\ probed = 0 /\ g_physCpus = <<>> /\ spawned = 0 /\ ready = 0 /\ go = FALSE /\ g_failures = 0
  /\ cpu = [t \in Threads \cup {Coordinator} |-> Unpinned]
  /\ free = [j \in 1 .. SIZE |-> j - 1] /\ uses = [j \in 0 .. SIZE - 1 |-> 0]
  /\ idx = [t \in Threads |-> 0] /\ d = <<>> /\ acc = [t \in Threads |-> 0] /\ sum = 0

-----------------------------------------------------------------------------
(* runPinned.                                                              *)

\* Each leader once, in the order found.
NoteLeader_Mutant(leader) == g_physCpus' = Append(g_physCpus, leader)
NoteLeader(leader) ==
  g_physCpus' = IF leader \in Range(g_physCpus) THEN g_physCpus ELSE Append(g_physCpus, leader)

\* A turn of the loop, or its end: every CPU is a leader if a file cannot be opened.
detectTopology ==
  /\ co = "init"
  /\ \/ /\ probed < Len(machine.core) /\ probed \notin machine.unreadable
        /\ NoteLeader(Leader(machine, probed)) /\ probed' = probed + 1 /\ co' = co
     \/ /\ probed = Len(machine.core) \/ probed \in machine.unreadable
        /\ g_physCpus' = IF probed \in machine.unreadable \/ g_physCpus = <<>>
                         THEN [k \in 1 .. Max({1, Len(machine.core)}) |-> k - 1] ELSE g_physCpus
        /\ co' = "skipTest" /\ UNCHANGED probed
  /\ UNCHANGED <<pc, lvars, wvars, spawned, ready, go, cpu, g_failures>>

\* if (t + 1 > coreCount()) the configuration is skipped.
SkipTest ==
  /\ co = "skipTest" /\ co' = IF Shares + 1 > coreCount THEN "skipped" ELSE "spawn"
  /\ UNCHANGED <<pc, lvars, wvars, probed, g_physCpus, spawned, ready, go, cpu, g_failures>>

Spawn ==
  /\ co = "spawn" /\ Step(spawned, "unborn", "pin") /\ spawned' = spawned + 1
  /\ co' = IF spawned + 1 = Shares THEN "pinAway" ELSE "spawn"
  /\ UNCHANGED <<lvars, wvars, probed, g_physCpus, ready, go, cpu, g_failures>>

\* pthread_setaffinity_np, best effort.
pinToCore(t, slot) ==
  LET c == g_physCpus[(slot % coreCount) + 1]
  IN  cpu' = [cpu EXCEPT ![t] = IF c \in machine.denied THEN cpu[t] ELSE c]

PinAway ==
  /\ co = "pinAway" /\ co' = "waitReady"
  /\ IF coreCount > Shares THEN pinToCore(Coordinator, coreCount - 1) ELSE UNCHANGED cpu
  /\ UNCHANGED <<pc, lvars, wvars, probed, g_physCpus, spawned, ready, go, g_failures>>

Pin(t) ==
  /\ Step(t, "pin", "ready") /\ pinToCore(t, t)
  /\ UNCHANGED <<lvars, wvars, probed, g_physCpus, co, spawned, ready, go, g_failures>>

Ready(t) ==
  /\ Step(t, "ready", "spin") /\ ready' = ready + 1
  /\ UNCHANGED <<lvars, wvars, probed, g_physCpus, co, spawned, go, cpu, g_failures>>

\* while (ready.load() < n), then t0.
WaitReady_Mutant ==
  /\ co = "waitReady" /\ ready > 0 /\ co' = "go"
  /\ UNCHANGED <<pc, lvars, wvars, probed, g_physCpus, spawned, ready, go, cpu, g_failures>>
WaitReady ==
  /\ co = "waitReady" /\ ready >= Shares /\ co' = "go"
  /\ UNCHANGED <<pc, lvars, wvars, probed, g_physCpus, spawned, ready, go, cpu, g_failures>>

Go ==
  /\ co = "go" /\ co' = "join" /\ go' = TRUE
  /\ UNCHANGED <<pc, lvars, wvars, probed, g_physCpus, spawned, ready, cpu, g_failures>>

Begin(t) ==
  /\ go /\ Step(t, "spin", "loop")
  /\ UNCHANGED <<lvars, wvars, rvars>>

\* To all CPUs.
unpin == cpu' = [cpu EXCEPT ![Coordinator] = Unpinned]

\* The joins, and t1.
Join ==
  /\ co = "join" /\ \A t \in Bodies : pc[t] = "finished"
  /\ co' = "check" /\ unpin
  /\ UNCHANGED <<pc, lvars, wvars, probed, g_physCpus, spawned, ready, go, g_failures>>

\* BENCH_CHECK after the run.
SumOver(f, S) == MapThenSumSet(LAMBDA x : f[x], S)
PerThread == Total \div Shares
LockCheck == counter = SumOver(n, Bodies)
IndexCheck == SumOver(uses, DOMAIN uses) = PerThread * Shares
ThroughputCheck == sum = ((Total * (Total + 1)) % 2^WordBits) \div 2
Check ==
  /\ co = "check" /\ co' = "done"
  /\ \/ bench.program = "lock" /\ g_failures' = g_failures + (IF LockCheck THEN 0 ELSE 1)
     \/ bench.program = "index" /\ g_failures' = g_failures + (IF IndexCheck THEN 0 ELSE 1)
     \/ bench.program = "throughput" /\ g_failures' = g_failures + (IF ThroughputCheck THEN 0 ELSE 1)
  /\ UNCHANGED <<pc, lvars, wvars, probed, g_physCpus, spawned, ready, go, cpu>>

-----------------------------------------------------------------------------
(* The body of run, with MutexVecPool: get() retries while free is empty.  *)

IndexGet(t) ==
  /\ n[t] < PerThread /\ free # <<>> /\ Step(t, "loop", "useLoad")
  /\ idx' = [idx EXCEPT ![t] = free[Len(free)]] /\ free' = SubSeq(free, 1, Len(free) - 1)
  /\ UNCHANGED <<lvars, rvars, uses, d, acc, sum>>

\* ++data[idx].uses
UseLoad(t) ==
  /\ Step(t, "useLoad", "useStore") /\ reg' = [reg EXCEPT ![t] = uses[idx[t]]]
  /\ UNCHANGED <<locked, i, counter, owner, handoffs, n, sections, rvars, wvars>>
UseStore(t) ==
  /\ Step(t, "useStore", "put") /\ uses' = [uses EXCEPT ![idx[t]] = reg[t] + 1]
  /\ UNCHANGED <<lvars, rvars, free, idx, d, acc, sum>>

IndexPut(t) ==
  /\ Step(t, "put", "loop") /\ free' = Append(free, idx[t]) /\ n' = [n EXCEPT ![t] = n[t] + 1]
  /\ UNCHANGED <<locked, i, counter, owner, handoffs, reg, sections, rvars, uses, idx, d, acc, sum>>

IndexEnd(t) ==
  /\ n[t] = PerThread /\ Step(t, "loop", "finished")
  /\ UNCHANGED <<lvars, rvars, wvars>>

-----------------------------------------------------------------------------
(* The bodies of throughput, with MutexDeque: push() retries while d is    *)
(* full, pop() while it is empty.                                          *)

Share(t) == Total \div (IF t < bench.P THEN bench.P ELSE bench.C)

Push(t) ==
  /\ t < bench.P /\ n[t] < Share(t) /\ Len(d) < CAP /\ Step(t, "loop", "loop")
  /\ d' = Append(d, t + 1 + n[t] * bench.P) /\ n' = [n EXCEPT ![t] = n[t] + 1]
  /\ UNCHANGED <<locked, i, counter, owner, handoffs, reg, sections, rvars, free, uses, idx, acc, sum>>

Pop(t) ==
  /\ t >= bench.P /\ n[t] < Share(t) /\ d # <<>> /\ Step(t, "loop", "loop")
  /\ d' = Tail(d) /\ n' = [n EXCEPT ![t] = n[t] + 1]
  /\ acc' = [acc EXCEPT ![t] = (acc[t] + Head(d)) % 2^WordBits]
  /\ UNCHANGED <<locked, i, counter, owner, handoffs, reg, sections, rvars, free, uses, idx, sum>>

ThroughputEnd(t) ==
  /\ n[t] = Share(t) /\ Step(t, "loop", "finished") /\ sum' = (sum + acc[t]) % 2^WordBits
  /\ UNCHANGED <<lvars, rvars, free, uses, idx, d, acc>>

-----------------------------------------------------------------------------
Coordinate == detectTopology \/ SkipTest \/ Spawn \/ PinAway \/ WaitReady \/ Go \/ Join \/ Check

Body(t) ==
  \/ bench.program = "lock" /\ LockStep(t) /\ UNCHANGED <<rvars, wvars>>
  \/ bench.program = "index" /\ (IndexGet(t) \/ UseLoad(t) \/ UseStore(t) \/ IndexPut(t) \/ IndexEnd(t))
  \/ bench.program = "throughput" /\ (Push(t) \/ Pop(t) \/ ThroughputEnd(t))

ThreadStep(t) == Pin(t) \/ Ready(t) \/ Begin(t) \/ Body(t)

Next == (Coordinate \/ \E t \in Threads : ThreadStep(t)) /\ UNCHANGED hvars

\* Every thread has a core of its own and keeps running.
Spec ==
  /\ Init /\ [][Next]_vars
  /\ WF_vars(Coordinate /\ UNCHANGED hvars)
  /\ \A t \in Threads : WF_vars(ThreadStep(t) /\ UNCHANGED hvars)

-----------------------------------------------------------------------------
(* Properties.                                                             *)

Running(t) == pc[t] \notin {"unborn", "pin", "ready", "spin", "finished"}

(* The measured interval, from t0 to t1, holds every body from its first   *)
(* step to its last: runPinned releases the threads together, after all of *)
(* them have pinned themselves.                                            *)
TimedWindow ==
  /\ \A t \in Threads : Running(t) \/ pc[t] = "finished" =>
       co \in {"join", "check", "done"} /\ \A u \in Bodies : pc[u] \notin {"unborn", "pin", "ready"}
  /\ co \in {"check", "done"} => \A t \in Bodies : pc[t] = "finished"

(* Threads that are pinned during the measurement, the coordinator         *)
(* included, never share a physical core, if every thread_siblings_list    *)
(* could be read: a configuration without enough cores is skipped.         *)
OwnCore ==
  co = "join" /\ machine.unreadable = {} /\ machine.garbled = {} =>
    \A t, u \in Bodies \cup {Coordinator} :
      t # u /\ cpu[t] # Unpinned /\ cpu[u] # Unpinned => machine.core[cpu[t] + 1] # machine.core[cpu[u] + 1]

(* The handoffs that runLock reports are at least one for every thread     *)
(* that got the lock and at most one for each acquisition.                 *)
HandoffsCounted ==
  co = "done" /\ bench.program = "lock" =>
    Cardinality({t \in Bodies : n[t] > 0}) <= handoffs /\ handoffs <= counter

(* The accounting check never fails by itself: the increments under a lock *)
(* add up, an index is used by one thread at a time, and every item pushed *)
(* is popped once, unless N * (N + 1) does not fit in a word.  Nor does    *)
(* the count of handoffs mislead.                                          *)
ReportHonest ==
  /\ g_failures = 0 \/ (bench.program = "throughput" /\ Total * (Total + 1) >= 2^WordBits)
  /\ HandoffsCounted

(* Every run ends: each lock is handed on, the free list is refilled, the  *)
(* deque is drained by as many pops as pushes, unless the int of the       *)
(* backoff loop cannot reach waitTime.                                     *)
RunFinishes == waitTime <= IntMax ~> co \in {"done", "skipped"}

=============================================================================
