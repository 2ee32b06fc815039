---------------------------- MODULE PoolBenchProofs ----------------------------
(***************************************************************************)
(* For any number of workers, tasks, tables and repetitions: what the      *)
(* watchdog prints, and the locals that the tasks of CondvarPool refer to. *)
(***************************************************************************)
EXTENDS PoolBench, FiniteSetTheorems, TLAPS

\* Main names a table before it sets its deadline, and clears the deadline
\* before it goes on: a copy of the current deadline means the current name.
WatchInv ==
  /\ table \in Nat /\ g_deadlineNs \in Int /\ dl \in Int
  /\ exit \in {Running, Crashed, 0, 1, 3}
  /\ co # "name" => g_benchName = table
  /\ g_deadlineNs <= table
  /\ co = "name" => g_deadlineNs < table
  /\ dl <= table
  /\ co = "name" => dl < table
  /\ wd = "report" => dl \in late
  /\ WatchdogNamesCulprit

\* The tasks submitted to CondvarPool that have not ended.
Queued == {q[j] : j \in DOMAIN q}
Pending == Queued \cup {task[w] : w \in {v \in Workers : pc[v] = "run"}}

WorkerLabels == {"lock", "waiting", "run", "exited"}
PoolTypes ==
  /\ q \in Seq(Nat) /\ pc \in [Workers -> WorkerLabels] /\ task \in [Workers -> Nat]
  /\ submitted \in Nat /\ done \in Nat

\* A task is queued once or run by one worker.
Once ==
  /\ \A i, j \in DOMAIN q : q[i] = q[j] => i = j
  /\ \A w \in Workers : pc[w] = "run" => task[w] \notin Queued
  /\ \A w, v \in Workers : pc[w] = "run" /\ pc[v] = "run" /\ task[w] = task[v] => w = v

\* Tasks are pending only in the call that submitted them.
Accounted ==
  /\ Pending \subseteq 1 .. submitted
  /\ InCall => done + Cardinality(Pending) = submitted
  /\ (~InCall \/ co \in {"stop", "notifyAll", "join"}) => Pending = {}
  /\ tables[table].kind = "wake" =>
       /\ co = "submit" => Pending = {}
       /\ co \in {"notify", "await"} => Pending \subseteq {submitted}

PoolInv == PoolTypes /\ Once /\ Accounted

-----------------------------------------------------------------------------
(* The watchdog.                                                           *)

LEMMA InitWatchInv == Init => WatchInv
<1> SUFFICES ASSUME Init PROVE WatchInv
  BY Zenon
<1>1. /\ table = 1 /\ g_deadlineNs = 0 /\ dl = 0 /\ exit = Running /\ co = "name" /\ wd = "sleep"
  BY Zenon DEF Init, Never
<1>2. table \in Nat /\ g_deadlineNs \in Int /\ dl \in Int /\ g_deadlineNs < table /\ dl < table
      /\ g_deadlineNs <= table /\ dl <= table
  BY <1>1
<1>3. exit # 3
  BY <1>1 DEF Running
<1> QED BY Zenon, <1>1, <1>2, <1>3 DEF WatchInv, WatchdogNamesCulprit

\* Main leaves the watchdog alone.
LEMMA MainWatchInv == WatchInv /\ MainStep => WatchInv'
<1> SUFFICES ASSUME WatchInv, MainStep PROVE WatchInv'
  BY Zenon
<1>0. /\ table \in Nat /\ g_deadlineNs \in Int /\ dl \in Int /\ g_deadlineNs <= table /\ dl <= table
      /\ UNCHANGED <<wd, dl, late, named>> /\ exit = Running
  BY Zenon DEF WatchInv, MainStep, Alive, wvars
<1>1. ASSUME UNCHANGED <<table, g_benchName, g_deadlineNs, exit>>, co # "name", co' # "name"
      PROVE  WatchInv'
  BY Zenon, <1>0, <1>1 DEF WatchInv, WatchdogNamesCulprit
<1>2. CASE DeadlineName
  <2>1. co' = "deadline" /\ g_benchName' = table /\ UNCHANGED <<table, g_deadlineNs, exit>>
    BY Zenon, <1>2 DEF DeadlineName, Main, mvars
  <2> QED BY Zenon, <1>0, <2>1 DEF WatchInv, WatchdogNamesCulprit
<1>3. CASE DeadlineSet
  <2>1. co # "name" /\ co' = "call" /\ g_deadlineNs' = table /\ UNCHANGED <<table, g_benchName, exit>>
    BY Zenon, <1>3 DEF DeadlineSet, Main, mvars
  <2>2. table \in Int /\ table <= table
    BY <1>0
  <2> QED BY Zenon, <1>0, <2>1, <2>2 DEF WatchInv, WatchdogNamesCulprit
<1>4. CASE DeadlineEnd
  <2>1. /\ g_deadlineNs' = 0 /\ g_benchName' = g_benchName /\ co # "name"
        /\ \/ co' = "name" /\ table' = table + 1 /\ exit' = exit
           \/ co' = "finished" /\ table' = table /\ exit' \in {0, 1}
    BY Zenon, <1>4 DEF DeadlineEnd, Never, finish
  <2>2. g_benchName = table
    BY Zenon, <2>1 DEF WatchInv
  <2>3. exit' # 3 /\ exit' \in {Running, Crashed, 0, 1, 3}
    BY <1>0, <2>1 DEF Running
  <2>4. CASE co' = "name" /\ table' = table + 1
    <3>1. table' \in Nat /\ g_deadlineNs' \in Int /\ g_deadlineNs' < table' /\ dl' < table'
          /\ g_deadlineNs' <= table' /\ dl' <= table' /\ dl' \in Int
      BY <1>0, <2>1, <2>4
    <3> QED BY Zenon, <1>0, <2>3, <2>4, <3>1 DEF WatchInv, WatchdogNamesCulprit
  <2>5. CASE co' = "finished" /\ table' = table
    <3>1. g_deadlineNs' \in Int /\ g_deadlineNs' <= table'
      BY <1>0, <2>1, <2>5
    <3> QED BY Zenon, <1>0, <2>1, <2>2, <2>3, <2>5, <3>1 DEF WatchInv, WatchdogNamesCulprit
  <2> QED BY Zenon, <2>1, <2>4, <2>5
<1>5. CASE Call
  BY Zenon, <1>1, <1>5 DEF Call, mvars, dvars
<1>6. CASE Sample
  BY Zenon, <1>1, <1>6 DEF Sample, dvars
<1>7. CASE Submit \/ Stop \/ NotifyAll \/ Join
  BY Zenon, <1>1, <1>7 DEF Submit, Stop, NotifyAll, Join, Main, mvars, dvars
<1>8. CASE Notify
  BY Zenon, <1>1, <1>8 DEF Notify, AfterNotify, Main, mvars, dvars
<1>9. CASE Await
  BY Zenon, <1>1, <1>9 DEF Await, dvars
<1>10. CASE Summarize
  <2>1. /\ co # "name" /\ co' # "name" /\ UNCHANGED <<table, g_benchName, g_deadlineNs>>
        /\ exit' = exit \/ exit' = Crashed
    BY Zenon, <1>10 DEF Summarize, mvars, dvars
  <2>2. exit' # 3
    BY <1>0, <2>1 DEF Running, Crashed
  <2> QED BY Zenon, <1>0, <2>1, <2>2 DEF WatchInv, WatchdogNamesCulprit
<1> QED BY Zenon, <1>2, <1>3, <1>4, <1>5, <1>6, <1>7, <1>8, <1>9, <1>10 DEF MainStep

LEMMA NextWatchInv == WatchInv /\ [Next]_vars => WatchInv'
<1> SUFFICES ASSUME WatchInv, [Next]_vars PROVE WatchInv'
  BY Zenon
<1>0. /\ table \in Nat /\ g_deadlineNs \in Int /\ dl \in Int /\ g_deadlineNs <= table /\ dl <= table
  BY Zenon DEF WatchInv
<1>1. ASSUME UNCHANGED <<co, table, g_benchName, g_deadlineNs, wd, dl, named, exit>>, late \subseteq late'
      PROVE  WatchInv'
  BY Zenon, <1>1 DEF WatchInv, WatchdogNamesCulprit
<1>2. CASE MainStep
  BY Zenon, <1>2, MainWatchInv
<1>3. CASE Watchdog
  <2>1. exit = Running /\ UNCHANGED <<co, table, g_benchName, g_deadlineNs, late>>
    BY Zenon, <1>3 DEF Watchdog, WatchdogLoad, WatchdogTest, WatchdogExit, Alive, mvars, dvars
  <2>2. exit # 3
    BY <2>1 DEF Running
  <2>3. CASE WatchdogLoad
    BY Zenon, <2>1, <2>2, <2>3 DEF WatchdogLoad, WatchInv, WatchdogNamesCulprit
  <2>4. CASE WatchdogTest
    BY Zenon, <2>1, <2>2, <2>4 DEF WatchdogTest, WatchInv, WatchdogNamesCulprit
  <2>5. CASE WatchdogExit
    <3>1. wd' = "gone" /\ dl \in late /\ named' = g_benchName /\ exit' = 3 /\ dl' = dl
      BY Zenon, <2>5 DEF WatchdogExit, WatchInv
    <3>2. g_benchName = dl \/ table > dl
      <4>1. CASE co = "name"
        <5>1. dl < table
          BY Zenon, <4>1 DEF WatchInv
        <5> QED BY Zenon, <1>0, <5>1
      <4>2. CASE co # "name"
        <5>1. g_benchName = table
          BY Zenon, <4>2 DEF WatchInv
        <5> QED BY <1>0, <5>1
      <4> QED BY Zenon, <4>1, <4>2
    <3> QED BY Zenon, <2>1, <3>1, <3>2 DEF WatchInv, WatchdogNamesCulprit
  <2> QED BY Zenon, <1>3, <2>3, <2>4, <2>5 DEF Watchdog
<1>4. CASE Time
  BY Zenon, <1>1, <1>4 DEF Time, Expire, mvars, dvars
<1>5. CASE SpuriousWake \/ \E w \in Workers : Worker(w)
  BY Zenon, <1>1, <1>5 DEF SpuriousWake, Worker, mvars, dvars, wvars
<1>6. CASE UNCHANGED vars
  BY Zenon, <1>1, <1>6 DEF vars, mvars, dvars, wvars
<1> QED BY Zenon, <1>2, <1>3, <1>4, <1>5, <1>6 DEF Next

\* The watchdog ends the program only when a deadline has passed, and it names the
\* table that missed it, unless that one has ended since its deadline was read.
THEOREM WatchdogBlamesRightly == Spec => []WatchdogNamesCulprit
<1>1. WatchInv => WatchdogNamesCulprit
  BY Zenon DEF WatchInv
<1> QED BY <1>1, InitWatchInv, NextWatchInv, PTL DEF Spec

-----------------------------------------------------------------------------
(* The queue and the workers of CondvarPool.                               *)

LEMMA Shifted ==
  ASSUME NEW s, NEW u, NEW n \in Nat \ {0}, DOMAIN s = 1 .. n, DOMAIN u = 1 .. n - 1,
         \A i \in 1 .. n - 1 : u[i] = s[i + 1], \A i, j \in DOMAIN s : s[i] = s[j] => i = j
  PROVE  /\ s[1] \in {s[i] : i \in DOMAIN s}
         /\ {u[i] : i \in DOMAIN u} = {s[i] : i \in DOMAIN s} \ {s[1]}
         /\ \A i, j \in DOMAIN u : u[i] = u[j] => i = j
<1>1. /\ 1 \in 1 .. n /\ \A i \in 1 .. n - 1 : i + 1 \in 1 .. n /\ i + 1 # 1
      /\ \A i \in 1 .. n : i = 1 \/ (i - 1 \in 1 .. n - 1 /\ (i - 1) + 1 = i)
      /\ \A i, j \in 1 .. n - 1 : i + 1 = j + 1 => i = j
  OBVIOUS
<1>2. {u[i] : i \in DOMAIN u} \subseteq {s[i] : i \in DOMAIN s} \ {s[1]}
  <2> SUFFICES ASSUME NEW i \in 1 .. n - 1 PROVE u[i] \in {s[j] : j \in DOMAIN s} /\ u[i] # s[1]
    OBVIOUS
  <2>1. u[i] = s[i + 1] /\ i + 1 \in DOMAIN s /\ 1 \in DOMAIN s /\ i + 1 # 1
    BY Zenon, <1>1
  <2> QED BY Zenon, <2>1
<1>3. {s[i] : i \in DOMAIN s} \ {s[1]} \subseteq {u[i] : i \in DOMAIN u}
  <2> SUFFICES ASSUME NEW i \in 1 .. n, i # 1 PROVE s[i] \in {u[j] : j \in DOMAIN u}
    OBVIOUS
  <2>1. i - 1 \in 1 .. n - 1 /\ (i - 1) + 1 = i
    BY Zenon, <1>1
  <2>2. u[i - 1] = s[i]
    BY Zenon, <2>1
  <2> QED BY Zenon, <2>1, <2>2
<1>4. \A i, j \in DOMAIN u : u[i] = u[j] => i = j
  <2> SUFFICES ASSUME NEW i \in 1 .. n - 1, NEW j \in 1 .. n - 1, u[i] = u[j] PROVE i = j
    BY Zenon
  <2>1. s[i + 1] = s[j + 1] /\ i + 1 \in DOMAIN s /\ j + 1 \in DOMAIN s
    BY Zenon, <1>1
  <2> QED BY Zenon, <1>1, <2>1
<1> QED BY Zenon, <1>1, <1>2, <1>3, <1>4

LEMMA Dequeued ==
  ASSUME q \in Seq(Nat), q # <<>>, q' = Tail(q), \A i, j \in DOMAIN q : q[i] = q[j] => i = j
  PROVE  /\ q' \in Seq(Nat) /\ Head(q) \in Nat /\ Head(q) \in Queued /\ Queued' = Queued \ {Head(q)}
         /\ \A i, j \in DOMAIN q' : q'[i] = q'[j] => i = j
<1> DEFINE n == Len(q)
           u == Tail(q)
<1>1. /\ n \in Nat \ {0} /\ DOMAIN q = 1 .. n /\ u \in Seq(Nat) /\ DOMAIN u = 1 .. n - 1
      /\ Head(q) = q[1] /\ \A i \in 1 .. n - 1 : u[i] = q[i + 1]
  OBVIOUS
<1>2. q[1] \in Nat
  BY <1>1
<1>3. q' = u
  BY Zenon
<1> HIDE DEF n, u
<1>4. /\ q[1] \in {q[i] : i \in DOMAIN q}
      /\ {u[i] : i \in DOMAIN u} = {q[i] : i \in DOMAIN q} \ {q[1]}
      /\ \A i, j \in DOMAIN u : u[i] = u[j] => i = j
  BY Zenon, <1>1, Shifted
<1>5. Queued = {q[i] : i \in DOMAIN q} /\ Queued' = {u[i] : i \in DOMAIN u}
  BY Zenon, <1>3 DEF Queued
<1>6. Head(q) \in Nat /\ Head(q) \in Queued /\ Queued' = Queued \ {Head(q)}
  BY Zenon, <1>1, <1>2, <1>4, <1>5
<1>7. q' \in Seq(Nat) /\ \A i, j \in DOMAIN q' : q'[i] = q'[j] => i = j
  BY Zenon, <1>1, <1>3, <1>4
<1> QED BY Zenon, <1>6, <1>7

LEMMA Longer ==
  ASSUME NEW s, NEW u, NEW n \in Nat, NEW x, DOMAIN s = 1 .. n, DOMAIN u = 1 .. n + 1, u[n + 1] = x,
         \A i \in 1 .. n : u[i] = s[i], \A i, j \in DOMAIN s : s[i] = s[j] => i = j,
         x \notin {s[i] : i \in DOMAIN s}
  PROVE  /\ {u[i] : i \in DOMAIN u} = {s[i] : i \in DOMAIN s} \cup {x}
         /\ \A i, j \in DOMAIN u : u[i] = u[j] => i = j
<1>1. /\ n + 1 \in 1 .. n + 1 /\ \A i \in 1 .. n : i \in 1 .. n + 1
      /\ \A i \in 1 .. n + 1 : i \in 1 .. n \/ i = n + 1
  OBVIOUS
<1>2. {u[i] : i \in DOMAIN u} \subseteq {s[i] : i \in DOMAIN s} \cup {x}
  BY Zenon, <1>1
<1>3. {s[i] : i \in DOMAIN s} \cup {x} \subseteq {u[i] : i \in DOMAIN u}
  <2>1. \A i \in 1 .. n : s[i] = u[i] /\ i \in DOMAIN u
    BY Zenon, <1>1
  <2>2. x = u[n + 1] /\ n + 1 \in DOMAIN u
    BY Zenon, <1>1
  <2>3. \A i \in DOMAIN s : s[i] \in {u[j] : j \in DOMAIN u}
    BY Zenon, <2>1
  <2>4. x \in {u[j] : j \in DOMAIN u}
    BY Zenon, <2>2
  <2> SUFFICES ASSUME NEW y \in {s[i] : i \in DOMAIN s} \cup {x} PROVE y \in {u[i] : i \in DOMAIN u}
    BY Zenon
  <2>5. CASE y = x
    BY Zenon, <2>4, <2>5
  <2>6. CASE y \in {s[i] : i \in DOMAIN s}
    <3>1. PICK i \in DOMAIN s : y = s[i]
      BY Zenon, <2>6
    <3>2. s[i] \in {u[j] : j \in DOMAIN u}
      BY Zenon, <2>3, <3>1
    <3> QED BY Zenon, <3>1, <3>2
  <2> QED BY Zenon, <2>5, <2>6
<1>4. \A i, j \in DOMAIN u : u[i] = u[j] => i = j
  BY Zenon, <1>1
<1> QED BY Zenon, <1>2, <1>3, <1>4

LEMMA Enqueued ==
  ASSUME q \in Seq(Nat), NEW x \in Nat, x \notin Queued, q' = Append(q, x),
         \A i, j \in DOMAIN q : q[i] = q[j] => i = j
  PROVE  q' \in Seq(Nat) /\ Queued' = Queued \cup {x} /\ \A i, j \in DOMAIN q' : q'[i] = q'[j] => i = j
<1> DEFINE n == Len(q)
<1>1. /\ n \in Nat /\ DOMAIN q = 1 .. n /\ q' \in Seq(Nat) /\ DOMAIN q' = 1 .. n + 1
      /\ q'[n + 1] = x /\ \A i \in 1 .. n : q'[i] = q[i]
  OBVIOUS
<1> HIDE DEF n
<1>2. x \notin {q[i] : i \in DOMAIN q}
  BY Zenon DEF Queued
<1>3. /\ {q'[i] : i \in DOMAIN q'} = {q[i] : i \in DOMAIN q} \cup {x}
      /\ \A i, j \in DOMAIN q' : q'[i] = q'[j] => i = j
  BY <1>1, <1>2, Longer
<1> QED BY Zenon, <1>1, <1>3 DEF Queued

LEMMA Counted ==
  ASSUME submitted \in Nat, Pending \subseteq 1 .. submitted
  PROVE  IsFiniteSet(Pending) /\ Cardinality(Pending) \in Nat
<1>1. IsFiniteSet(1 .. submitted)
  BY FS_Interval
<1> QED BY Zenon, <1>1, FS_Subset, FS_CardinalityType

LEMMA InitPoolInv == Init => PoolInv
<1> SUFFICES ASSUME Init PROVE PoolInv
  BY Zenon
<1>1. /\ q = <<>> /\ submitted = 0 /\ done = 0 /\ co = "name"
      /\ pc = [w \in Workers |-> "exited"] /\ task = [w \in Workers |-> 0]
  BY Zenon DEF Init
<1>2. q \in Seq(Nat) /\ DOMAIN q = {} /\ 0 \in Nat
  BY <1>1
<1>3. Pending = {}
  BY Zenon, <1>1, <1>2 DEF Pending, Queued
<1> QED BY Zenon, <1>1, <1>2, <1>3 DEF PoolInv, PoolTypes, Once, Accounted, WorkerLabels, InCall

\* Steps that change neither the queue nor the running workers.
LEMMA SamePending ==
  ASSUME PoolTypes, Once, UNCHANGED <<q, task, submitted, done>>,
         pc' \in [Workers -> WorkerLabels], \A w \in Workers : pc'[w] = "run" <=> pc[w] = "run"
  PROVE  PoolTypes' /\ Once' /\ Pending' = Pending
<1>1. PoolTypes'
  BY Zenon DEF PoolTypes
<1>2. Queued' = Queued
  BY Zenon DEF Queued
<1>3. Once'
  BY Zenon, <1>2 DEF Once
<1>4. Pending' \subseteq Pending
  BY Zenon, <1>2 DEF Pending
<1>5. Pending \subseteq Pending'
  BY Zenon, <1>2 DEF Pending
<1> QED BY Zenon, <1>1, <1>3, <1>4, <1>5

\* Everything stays accounted for while main stays where it is.
LEMMA StillAccounted ==
  ASSUME Accounted, Pending' = Pending, UNCHANGED <<submitted, done, co, tables, table>>
  PROVE  Accounted'
<1>1. Cardinality(Pending)' = Cardinality(Pending)
  BY Zenon
<1> QED BY Zenon, <1>1 DEF Accounted, InCall

LEMMA TakePoolInv ==
  ASSUME PoolInv, NEW w \in Workers, q # <<>>, Step(w, "lock", "run"),
         task' = [task EXCEPT ![w] = Head(q)], q' = Tail(q), UNCHANGED <<submitted, done>>
  PROVE  PoolTypes' /\ Once' /\ Pending' = Pending
<1>0. PoolTypes /\ Once
  BY Zenon DEF PoolInv
<1>1. /\ q' \in Seq(Nat) /\ Head(q) \in Nat /\ Head(q) \in Queued /\ Queued' = Queued \ {Head(q)}
      /\ \A i, j \in DOMAIN q' : q'[i] = q'[j] => i = j
  <2>1. q \in Seq(Nat) /\ \A i, j \in DOMAIN q : q[i] = q[j] => i = j
    BY Zenon, <1>0 DEF PoolTypes, Once
  <2> QED BY Zenon, <2>1, Dequeued
<1> DEFINE x == Head(q)
<1> HIDE DEF x
<1>2. /\ pc[w] = "lock" /\ pc'[w] = "run" /\ task'[w] = x
      /\ \A v \in Workers \ {w} : pc'[v] = pc[v] /\ task'[v] = task[v]
  BY Zenon, <1>0 DEF PoolTypes, Step, x
<1>3. PoolTypes'
  BY Zenon, <1>0, <1>1 DEF PoolTypes, Step, WorkerLabels
<1>4. x \in Queued /\ \A y : y \in Queued' <=> y \in Queued /\ y # x
  BY Zenon, <1>1 DEF x
<1>5. \A v \in Workers \ {w} : pc[v] = "run" => task[v] \notin Queued
  BY Zenon, <1>0 DEF Once
<1>6. Once'
  <2>1. \A v \in Workers : pc'[v] = "run" => task'[v] \notin Queued'
    <3>1. task'[w] \notin Queued'
      BY Zenon, <1>2, <1>4
    <3>2. \A v \in Workers \ {w} : pc'[v] = "run" => task'[v] \notin Queued'
      BY Zenon, <1>2, <1>4, <1>5
    <3> QED BY Zenon, <3>1, <3>2
  <2>2. \A u, v \in Workers : pc'[u] = "run" /\ pc'[v] = "run" /\ task'[u] = task'[v] => u = v
    <3>1. \A u, v \in Workers \ {w} : pc'[u] = "run" /\ pc'[v] = "run" /\ task'[u] = task'[v] => u = v
      <4>1. \A u, v \in Workers : pc[u] = "run" /\ pc[v] = "run" /\ task[u] = task[v] => u = v
        BY Zenon, <1>0 DEF Once
      <4> QED BY Zenon, <1>2, <4>1
    <3>2. \A v \in Workers \ {w} : pc'[v] = "run" => task'[v] # task'[w]
      BY Zenon, <1>2, <1>4, <1>5
    <3> QED BY Zenon, <3>1, <3>2
  <2> QED BY Zenon, <1>1, <2>1, <2>2 DEF Once
<1>7. Pending' \subseteq Pending
  BY Zenon, <1>2, <1>4 DEF Pending
<1>8. Pending \subseteq Pending'
  BY Zenon, <1>2, <1>4 DEF Pending
<1> QED BY Zenon, <1>3, <1>6, <1>7, <1>8

LEMMA RunPoolInv ==
  ASSUME PoolInv, NEW w \in Workers, Run(w), UNCHANGED <<co, tables, table>>
  PROVE  PoolInv'
<1>0. PoolTypes /\ Once /\ Accounted
  BY Zenon DEF PoolInv
<1> DEFINE x == task[w]
<1>1. /\ pc[w] = "run" /\ pc'[w] = "lock" /\ done' = done + 1 /\ UNCHANGED <<q, submitted>>
      /\ \A v \in Workers \ {w} : pc'[v] = pc[v] /\ task'[v] = task[v]
  BY Zenon, <1>0 DEF PoolTypes, Run, Step
<1>2. PoolTypes'
  <2>1. done' \in Nat /\ 0 \in Nat
    BY <1>0, <1>1 DEF PoolTypes
  <2> QED BY Zenon, <1>0, <2>1 DEF PoolTypes, Run, Step, WorkerLabels
<1>3. Queued' = Queued
  BY Zenon, <1>1 DEF Queued
<1>4. Once'
  BY Zenon, <1>0, <1>1, <1>3 DEF Once
<1>5. x \in Pending /\ Pending' = Pending \ {x}
  <2>1. x \in Pending /\ Pending' \subseteq Pending
    BY Zenon, <1>1, <1>3 DEF Pending
  <2>2. x \notin Pending'
    BY Zenon, <1>0, <1>1, <1>3 DEF Pending, Once
  <2>3. Pending \ {x} \subseteq Pending'
    BY Zenon, <1>1, <1>3 DEF Pending
  <2> QED BY Zenon, <2>1, <2>2, <2>3
<1> HIDE DEF x
<1>6. done \in Nat /\ submitted \in Nat /\ Pending \subseteq 1 .. submitted
      /\ InCall /\ co \notin {"stop", "notifyAll", "join"} /\ done + Cardinality(Pending) = submitted
  BY Zenon, <1>0, <1>5 DEF PoolTypes, Accounted
<1>7. done' + Cardinality(Pending') = submitted'
  <2>1. IsFiniteSet(Pending) /\ Cardinality(Pending) \in Nat
    BY Zenon, <1>6, Counted
  <2>2. Cardinality(Pending \ {x}) = Cardinality(Pending) - 1
    BY Zenon, <1>5, <2>1, FS_RemoveElement
  <2>3. Cardinality(Pending') = Cardinality(Pending) - 1
    BY Zenon, <1>5, <2>2
  <2> QED BY <1>1, <1>6, <2>1, <2>3
<1>8. Accounted'
  <2>1. /\ Pending' \subseteq 1 .. submitted' /\ co' \notin {"stop", "notifyAll", "join"} /\ InCall'
    BY Zenon, <1>1, <1>5, <1>6 DEF InCall
  <2>2. tables'[table'].kind = "wake" =>
          /\ co' = "submit" => Pending' = {}
          /\ co' \in {"notify", "await"} => Pending' \subseteq {submitted'}
    BY Zenon, <1>0, <1>1, <1>5 DEF Accounted
  <2> QED BY Zenon, <1>7, <2>1, <2>2 DEF Accounted
<1> QED BY Zenon, <1>2, <1>4, <1>8 DEF PoolInv

LEMMA SubmitPoolInv ==
  ASSUME PoolInv, Submit, UNCHANGED tables
  PROVE  PoolInv'
<1>0. PoolTypes /\ Once /\ Accounted
  BY Zenon DEF PoolInv
<1> DEFINE x == submitted + 1
<1>1. /\ co = "submit" /\ co' = "notify" /\ submitted' = x /\ q' = Append(q, x)
      /\ UNCHANGED <<done, pc, task, table>>
  BY Zenon DEF Submit, Main, mvars
<1>2. submitted \in Nat /\ Pending \subseteq 1 .. submitted /\ InCall
  BY Zenon, <1>0, <1>1 DEF PoolTypes, Accounted, InCall
<1>3. x \in Nat /\ x \notin 1 .. submitted /\ 1 .. submitted \subseteq 1 .. x /\ x \in 1 .. x
  BY <1>2
<1> HIDE DEF x
<1>4. x \notin Pending /\ x \notin Queued
  BY Zenon, <1>2, <1>3 DEF Pending
<1>5. q' \in Seq(Nat) /\ Queued' = Queued \cup {x} /\ \A i, j \in DOMAIN q' : q'[i] = q'[j] => i = j
  <2>1. q \in Seq(Nat) /\ \A i, j \in DOMAIN q : q[i] = q[j] => i = j
    BY Zenon, <1>0 DEF PoolTypes, Once
  <2> QED BY Zenon, <1>1, <1>3, <1>4, <2>1, Enqueued
<1>6. PoolTypes'
  BY Zenon, <1>0, <1>1, <1>3, <1>5 DEF PoolTypes
<1>7. Once'
  <2>1. \A w \in Workers : pc[w] = "run" => task[w] \notin Queued /\ task[w] # x
    BY Zenon, <1>0, <1>4 DEF Once, Pending
  <2>2. \A w \in Workers : pc'[w] = "run" => task'[w] \notin Queued'
    BY Zenon, <1>1, <1>5, <2>1
  <2>3. \A w, v \in Workers : pc'[w] = "run" /\ pc'[v] = "run" /\ task'[w] = task'[v] => w = v
    BY Zenon, <1>0, <1>1 DEF Once
  <2> QED BY Zenon, <1>5, <2>2, <2>3 DEF Once
<1>8. Pending' = Pending \cup {x}
  <2>1. UNCHANGED <<pc, task>>
    BY Zenon, <1>1
  <2>2. Pending' \subseteq Pending \cup {x}
    BY Zenon, <1>5, <2>1 DEF Pending
  <2>3. Pending \cup {x} \subseteq Pending'
    BY Zenon, <1>5, <2>1 DEF Pending
  <2> QED BY Zenon, <2>2, <2>3
<1>9. done' + Cardinality(Pending') = submitted'
  <2>1. IsFiniteSet(Pending) /\ Cardinality(Pending) \in Nat
    BY Zenon, <1>2, Counted
  <2>2. Cardinality(Pending \cup {x}) = Cardinality(Pending) + 1
    BY Zenon, <1>4, <2>1, FS_AddElement
  <2>3. Cardinality(Pending') = Cardinality(Pending) + 1
    BY Zenon, <1>8, <2>2
  <2>4. done + Cardinality(Pending) = submitted /\ done \in Nat
    BY Zenon, <1>0, <1>2 DEF Accounted, PoolTypes
  <2>5. submitted' = submitted + 1 /\ done' = done
    BY Zenon, <1>1 DEF x
  <2> QED BY <1>2, <2>1, <2>3, <2>4, <2>5
<1>10. Accounted'
  <2>1. Pending' \subseteq 1 .. submitted'
    BY Zenon, <1>1, <1>2, <1>3, <1>8
  <2>2. tables'[table'].kind = "wake" => Pending' \subseteq {submitted'}
    BY Zenon, <1>0, <1>1, <1>8 DEF Accounted
  <2>3. co' = "notify" /\ InCall'
    BY Zenon, <1>1 DEF InCall
  <2> QED BY Zenon, <1>9, <2>1, <2>2, <2>3 DEF Accounted
<1> QED BY Zenon, <1>6, <1>7, <1>10 DEF PoolInv

\* Main waits until nothing is pending before it leaves the locals.
LEMMA AwaitPoolInv ==
  ASSUME PoolInv, Await, UNCHANGED tables
  PROVE  PoolInv'
<1>0. PoolTypes /\ Once /\ Accounted
  BY Zenon DEF PoolInv
<1>1. /\ co = "await" /\ done >= submitted /\ co' \in {"submit", "stop"}
      /\ UNCHANGED <<q, pc, task, submitted, done, table>>
  BY Zenon DEF Await, pvars
<1>2. PoolTypes' /\ Once' /\ Pending' = Pending
  BY Zenon, <1>0, <1>1, SamePending DEF PoolTypes
<1>3. Pending = {}
  <2>1. done \in Nat /\ submitted \in Nat /\ done + Cardinality(Pending) = submitted
        /\ Pending \subseteq 1 .. submitted
    BY Zenon, <1>0, <1>1 DEF PoolTypes, Accounted, InCall
  <2>2. IsFiniteSet(Pending) /\ Cardinality(Pending) \in Nat
    BY Zenon, <2>1, Counted
  <2>3. Cardinality(Pending) = 0
    BY <1>1, <2>1, <2>2
  <2> QED BY Zenon, <2>2, <2>3, FS_EmptySet
<1>4. Cardinality(Pending') = Cardinality(Pending) /\ InCall /\ InCall'
  BY Zenon, <1>1, <1>2 DEF InCall
<1>5. Accounted'
  BY Zenon, <1>0, <1>1, <1>2, <1>3, <1>4 DEF Accounted
<1> QED BY Zenon, <1>2, <1>5 DEF PoolInv

LEMMA CallPoolInv ==
  ASSUME PoolInv, Call
  PROVE  PoolInv'
<1>0. PoolTypes /\ Pending = {}
  BY Zenon DEF PoolInv, Accounted, Call, InCall
<1>1. /\ q' = <<>> /\ submitted' = 0 /\ done' = 0 /\ task' = task /\ co' \in {"submit", "hung", "sample"}
      /\ pc' = [w \in Workers |-> "lock"] \/ pc' = pc
  BY Zenon DEF Call
<1>2. q' \in Seq(Nat) /\ DOMAIN q' = {} /\ 0 \in Nat
  BY <1>1
<1>3. \A w \in Workers : pc[w] # "run"
  BY Zenon, <1>0 DEF Pending
<1>4. pc' \in [Workers -> WorkerLabels] /\ \A w \in Workers : pc'[w] # "run"
  BY Zenon, <1>0, <1>1, <1>3 DEF PoolTypes, WorkerLabels
<1>5. PoolTypes' /\ Once'
  BY Zenon, <1>0, <1>1, <1>2, <1>4 DEF PoolTypes, Once
<1>6. Pending' = {}
  BY Zenon, <1>2, <1>4 DEF Pending, Queued
<1>7. done' + Cardinality(Pending') = submitted'
  <2>1. Cardinality(Pending') = 0
    BY Zenon, <1>6, FS_EmptySet
  <2> QED BY <1>1, <2>1
<1>8. Accounted'
  BY Zenon, <1>1, <1>6, <1>7 DEF Accounted
<1> QED BY Zenon, <1>5, <1>8 DEF PoolInv

LEMMA NextPoolInv == PoolInv /\ [Next]_vars => PoolInv'
<1> SUFFICES ASSUME PoolInv, [Next]_vars PROVE PoolInv'
  BY Zenon
<1>0. PoolTypes /\ Once /\ Accounted /\ pc \in [Workers -> WorkerLabels]
  BY Zenon DEF PoolInv, PoolTypes
<1>1. ASSUME UNCHANGED <<q, task, submitted, done, co, tables, table>>,
             pc' \in [Workers -> WorkerLabels], \A w \in Workers : pc'[w] = "run" <=> pc[w] = "run"
      PROVE  PoolInv'
  BY Zenon, <1>0, <1>1, SamePending, StillAccounted DEF PoolInv
<1>2. ASSUME UNCHANGED <<q, task, submitted, done, pc>>, ~InCall, ~InCall' PROVE PoolInv'
  <2>1. PoolTypes' /\ Once' /\ Pending' = Pending
    BY Zenon, <1>0, <1>2, SamePending
  <2>2. Pending = {}
    BY Zenon, <1>0, <1>2 DEF Accounted
  <2>3. Accounted'
    BY Zenon, <1>2, <2>1, <2>2 DEF Accounted
  <2> QED BY Zenon, <2>1, <2>3 DEF PoolInv
<1>3. ASSUME UNCHANGED <<q, task, submitted, done, tables, table>>, InCall,
             pc' \in [Workers -> WorkerLabels], \A w \in Workers : pc'[w] = "run" <=> pc[w] = "run",
             \/ co = "notify" /\ co' = "await"
             \/ co = "notify" /\ co' = "submit" /\ tables[table].kind # "wake"
             \/ co \in {"stop", "notifyAll", "join"} /\ co' \in {"notifyAll", "join", "sample"}
      PROVE  PoolInv'
  <2>1. PoolTypes' /\ Once' /\ Pending' = Pending
    BY Zenon, <1>0, <1>3, SamePending
  <2>2. Cardinality(Pending') = Cardinality(Pending) /\ UNCHANGED <<submitted, done, tables, table>>
    BY Zenon, <1>3, <2>1
  <2>3. done + Cardinality(Pending) = submitted /\ Pending \subseteq 1 .. submitted
    BY Zenon, <1>0, <1>3 DEF Accounted
  <2>4. Accounted'
    BY Zenon, <1>0, <1>3, <2>1, <2>2, <2>3 DEF Accounted, InCall
  <2> QED BY Zenon, <2>1, <2>4 DEF PoolInv
<1>4. ASSUME NEW S, S \subseteq Waiting, WakeUp(S)
      PROVE  pc' \in [Workers -> WorkerLabels] /\ \A w \in Workers : pc'[w] = "run" <=> pc[w] = "run"
  <2>1. \A w \in Workers : w \in S => pc[w] = "waiting"
    BY Zenon, <1>4 DEF Waiting
  <2> QED BY Zenon, <1>0, <1>4, <2>1 DEF WakeUp, WorkerLabels
<1>5. CASE MainStep
  <2>0. UNCHANGED tables
    BY Zenon, <1>5 DEF MainStep, Alive, kvars
  <2>1. CASE DeadlineName \/ DeadlineSet
    BY Zenon, <1>2, <2>1 DEF DeadlineName, DeadlineSet, Main, pvars, InCall
  <2>2. CASE DeadlineEnd
    BY Zenon, <1>2, <2>2 DEF DeadlineEnd, pvars, InCall
  <2>3. CASE Call
    BY Zenon, <2>3, CallPoolInv
  <2>4. CASE Sample \/ Summarize
    BY Zenon, <1>2, <2>4 DEF Sample, Summarize, pvars, InCall
  <2>5. CASE Submit
    BY Zenon, <2>0, <2>5, SubmitPoolInv
  <2>6. CASE Notify
    <3>1. /\ co = "notify" /\ co' = AfterNotify /\ UNCHANGED <<q, submitted, done, task, table>>
          /\ \/ pc' = pc
             \/ \E w \in Waiting : WakeUp({w})
      BY Zenon, <2>6 DEF Notify, Main, mvars
    <3>2. pc' \in [Workers -> WorkerLabels] /\ \A w \in Workers : pc'[w] = "run" <=> pc[w] = "run"
      BY Zenon, <1>0, <1>4, <3>1
    <3>3. co' = "await" \/ (co' = "submit" /\ tables[table].kind # "wake")
      BY Zenon, <3>1 DEF AfterNotify
    <3>4. InCall
      BY Zenon, <3>1 DEF InCall
    <3> QED BY Zenon, <1>3, <2>0, <3>1, <3>2, <3>3, <3>4
  <2>7. CASE Await
    BY Zenon, <2>0, <2>7, AwaitPoolInv
  <2>8. CASE Stop \/ Join
    <3>1. /\ UNCHANGED <<q, submitted, done, task, table, pc>>
          /\ co \in {"stop", "join"} /\ co' \in {"notifyAll", "sample"}
      BY Zenon, <2>8 DEF Stop, Join, Main, mvars, pvars
    <3> QED BY Zenon, <1>0, <1>3, <2>0, <3>1 DEF InCall
  <2>9. CASE NotifyAll
    <3>1. /\ UNCHANGED <<q, submitted, done, task, table>> /\ WakeUp(Waiting)
          /\ co = "notifyAll" /\ co' = "join"
      BY Zenon, <2>9 DEF NotifyAll, Main, mvars
    <3>2. pc' \in [Workers -> WorkerLabels] /\ \A w \in Workers : pc'[w] = "run" <=> pc[w] = "run"
      BY Zenon, <1>4, <3>1
    <3> QED BY Zenon, <1>3, <2>0, <3>1, <3>2 DEF InCall
  <2> QED BY Zenon, <1>5, <2>1, <2>2, <2>3, <2>4, <2>5, <2>6, <2>7, <2>8, <2>9 DEF MainStep
<1>6. CASE Watchdog \/ Time
  BY Zenon, <1>0, <1>1, <1>6 DEF Watchdog, Time, Alive, kvars, mvars, pvars
<1>7. ASSUME NEW w \in Workers, Spurious(w), UNCHANGED <<co, tables, table>> PROVE PoolInv'
  <2>1. pc' \in [Workers -> WorkerLabels] /\ \A v \in Workers : pc'[v] = "run" <=> pc[v] = "run"
    BY Zenon, <1>0, <1>7 DEF Spurious, Step, WorkerLabels
  <2> QED BY Zenon, <1>1, <1>7, <2>1 DEF Spurious
<1>8. ASSUME NEW w \in Workers, Worker(w) PROVE PoolInv'
  <2>0. UNCHANGED <<co, tables, table>>
    BY Zenon, <1>8 DEF Worker, Alive, kvars, mvars
  <2>1. CASE Run(w)
    BY Zenon, <2>0, <2>1, RunPoolInv
  <2>2. CASE Take(w) /\ q = <<>>
    <3>1. UNCHANGED <<q, task, submitted, done>> /\ (Step(w, "lock", "waiting") \/ Step(w, "lock", "exited"))
      BY Zenon, <2>2 DEF Take
    <3>2. pc' \in [Workers -> WorkerLabels] /\ \A v \in Workers : pc'[v] = "run" <=> pc[v] = "run"
      BY Zenon, <1>0, <3>1 DEF Step, WorkerLabels
    <3> QED BY Zenon, <1>1, <2>0, <3>1, <3>2
  <2>3. CASE Take(w) /\ q # <<>>
    <3>1. PoolTypes' /\ Once' /\ Pending' = Pending /\ UNCHANGED <<submitted, done>>
      BY Zenon, <2>3, TakePoolInv DEF Take
    <3> QED BY Zenon, <1>0, <2>0, <3>1, StillAccounted DEF PoolInv
  <2> QED BY Zenon, <1>8, <2>1, <2>2, <2>3 DEF Worker
<1>9. CASE UNCHANGED vars
  BY Zenon, <1>0, <1>1, <1>9 DEF vars, kvars, mvars, pvars
<1>10. SpuriousWake => \E w \in Workers : Spurious(w) /\ UNCHANGED <<co, tables, table>>
  BY Zenon DEF SpuriousWake, Alive, kvars, mvars
<1> QED BY Zenon, <1>5, <1>6, <1>7, <1>8, <1>9, <1>10 DEF Next

\* burst and wakeLatency do not return, and wakeLatency does not go on to its next
\* sample, while a task may still write to the local it refers to; and every task
\* runs once.
THEOREM LocalsOutliveTasks == Spec => []LocalsAlive
<1>1. PoolInv => LocalsAlive
  <2> SUFFICES ASSUME PoolInv PROVE LocalsAlive
    BY Zenon
  <2>1. Accounted
    BY Zenon DEF PoolInv
  <2>2. Pending # {} => InCall /\ co \notin {"stop", "notifyAll", "join"}
    BY Zenon, <2>1 DEF Accounted
  <2>3. Pending # {} /\ tables[table].kind = "wake" => Pending = {submitted} /\ co \in {"notify", "await"}
    <3>1. Pending # {} /\ tables[table].kind = "wake" => co \in {"notify", "await"}
      BY Zenon, <2>1, <2>2 DEF Accounted, InCall
    <3>2. Pending # {} /\ tables[table].kind = "wake" => Pending \subseteq {submitted}
      BY Zenon, <2>1, <3>1 DEF Accounted
    <3> QED BY Zenon, <3>1, <3>2
  <2>4. InCall => done + Cardinality(Pending) = submitted
    BY Zenon, <2>1 DEF Accounted
  <2> QED BY Zenon, <2>2, <2>3, <2>4 DEF LocalsAlive, Pending, Queued
<1> QED BY <1>1, InitPoolInv, NextPoolInv, PTL DEF Spec

================================================================================
