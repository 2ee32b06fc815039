------------------------------ MODULE PoolBench ------------------------------
(***************************************************************************)
(* The main thread of bench/ThreadPoolComparisonBench.cpp: interleaved     *)
(* bursts and wake-latency samples on its CondvarPool, next to another     *)
(* pool, under the Deadline and the watchdog of bench/benchCommon.hpp.     *)
(* Every scope that holds the pool's mutex is one step.                    *)
(***************************************************************************)
EXTENDS Integers, Sequences, FiniteSets

CONSTANTS
  Workers,
  Tables,      \* sequences of [kind : "burst" or "wake", pools : its competitors, hangs,
               \* late : whether the other pool hangs, and whether the table may take
               \* longer than its deadline]
  Knobs,       \* values of ASTRA_BENCH_REPS; 0 when it is not set
  DefaultReps,
  IntBits,     \* width of int
  N            \* tasks of a burst, samples of wakeLatency

Condvar == 1             \* a competitor: CondvarPool; any other stands for another pool
Never == 0               \* INT64_MAX
Running == -1
Crashed == 139           \* SIGSEGV

VARIABLES
  tables, g_reps,
  co, table, r, f,       \* main: its step, its table, rep and competitor
  q, stop, submitted, done,    \* CondvarPool; tasks are numbered as they are submitted
  pc, task,              \* its workers
  g_benchName, g_deadlineNs,   \* both are the number of the table
  wd, dl, late,          \* the watchdog, its copy of the deadline, the deadlines passed
  named, exit,           \* what the watchdog printed; the exit status
  g_failures

kvars == <<tables, g_reps>>
mvars == <<table, r, f, g_failures>>
pvars == <<q, stop, submitted, done, pc, task>>
dvars == <<g_benchName, g_deadlineNs>>
wvars == <<wd, dl, late, named>>
vars == <<kvars, co, mvars, pvars, dvars, wvars, exit>>

-----------------------------------------------------------------------------
\* readKnobs: zero or nothing means the default; int(v) keeps the low bits.
ToInt(v) == LET w == v % 2^IntBits IN IF w < 2^(IntBits - 1) THEN w ELSE w - 2^IntBits
Reps(knob) == ToInt(IF knob = 0 THEN DefaultReps ELSE knob)

Init ==
  /\ tables \in Tables /\ \E k \in Knobs : g_reps = Reps(k)
  /\ co = "name" /\ table = 1 /\ r = 0 /\ f = 1 /\ g_failures = 0
  /\ q = <<>> /\ stop = FALSE /\ submitted = 0 /\ done = 0
  /\ pc = [w \in Workers |-> "exited"] /\ task = [w \in Workers |-> 0]
  /\ g_benchName = 0 /\ g_deadlineNs = Never
  /\ wd = "sleep" /\ dl = Never /\ late = {} /\ named = 0 /\ exit = Running

Step(t, from, to) == pc[t] = from /\ pc' = [pc EXCEPT ![t] = to]
Main(from, to) == co = from /\ co' = to
Waiting == {w \in Workers : pc[w] = "waiting"}
WakeUp(S) == pc' = [w \in Workers |-> IF w \in S THEN "lock" ELSE pc[w]]

-----------------------------------------------------------------------------
(* Workers of CondvarPool.                                                 *)

\* cv.wait with its predicate, then the end of the thread or the next task.
Take(w) ==
  /\ \/ ~stop /\ q = <<>> /\ Step(w, "lock", "waiting") /\ UNCHANGED <<q, task>>
     \/ stop /\ q = <<>> /\ Step(w, "lock", "exited") /\ UNCHANGED <<q, task>>
     \/ q # <<>> /\ Step(w, "lock", "run") /\ task' = [task EXCEPT ![w] = Head(q)] /\ q' = Tail(q)
  /\ UNCHANGED <<stop, submitted, done>>

Spurious(w) ==
  /\ Step(w, "waiting", "lock")
  /\ UNCHANGED <<q, stop, submitted, done, task>>

\* The task: done.fetch_add(1), or started.store(__rdtsc()).
Run(w) ==
  /\ Step(w, "run", "lock") /\ done' = done + 1 /\ task' = [task EXCEPT ![w] = 0]
  /\ UNCHANGED <<q, stop, submitted>>

-----------------------------------------------------------------------------
(* Deadline and interleaved.                                               *)

DeadlineName_Mutant ==
  /\ Main("name", "deadline") /\ g_deadlineNs' = table
  /\ UNCHANGED <<mvars, pvars, g_benchName, exit>>
DeadlineName ==
  /\ Main("name", "deadline") /\ g_benchName' = table
  /\ UNCHANGED <<mvars, pvars, g_deadlineNs, exit>>
DeadlineSet_Mutant ==
  /\ Main("deadline", "call") /\ g_deadlineNs' = Never
  /\ UNCHANGED <<mvars, pvars, g_benchName, exit>>
DeadlineSet ==
  /\ Main("deadline", "call") /\ g_deadlineNs' = table
  /\ UNCHANGED <<mvars, pvars, g_benchName, exit>>
\* What main returns.
finish == IF g_failures > 0 THEN 1 ELSE 0

DeadlineEnd ==
  /\ co = "end" /\ g_deadlineNs' = Never
  /\ IF table < Len(tables) THEN co' = "name" /\ table' = table + 1 /\ UNCHANGED exit
     ELSE co' = "finished" /\ exit' = finish /\ UNCHANGED table
  /\ UNCHANGED <<r, f, g_failures, pvars, g_benchName>>

\* A table of bursts has all competitors and g_reps rounds after the warm-up; each
\* competitor has a table of its own for wakeLatency, with one round.
Competitors == tables[table].pools
Rounds == IF tables[table].kind = "burst" THEN g_reps ELSE 1

\* fns[i](): a new CondvarPool, or the other pool, which returns or hangs.
Call ==
  /\ co = "call"
  /\ IF Competitors[f] = Condvar THEN co' = "submit" /\ pc' = [w \in Workers |-> "lock"]
     ELSE co' = (IF tables[table].hangs THEN "hung" ELSE "sample") /\ UNCHANGED pc
  /\ q' = <<>> /\ stop' = FALSE /\ submitted' = 0 /\ done' = 0 /\ UNCHANGED task
  /\ UNCHANGED <<mvars, dvars, exit>>

\* A sample of the warm-up is dropped.  The inner loop is over the competitors.
Sample ==
  /\ co = "sample"
  /\ IF f < Len(Competitors) THEN f' = f + 1 /\ r' = r /\ co' = "call"
     ELSE IF r < Rounds THEN f' = 1 /\ r' = r + 1 /\ co' = "call"
     ELSE f' = 1 /\ r' = 0 /\ co' = IF tables[table].kind = "burst" THEN "summarize" ELSE "end"
  /\ UNCHANGED <<table, g_failures, pvars, dvars, exit>>

\* summarize takes the median, the first and the last of the samples.  If there are
\* none the vector has no storage, and reading them is an access through a null
\* pointer.  (wakeLatency's percentile tests for that.)
Summarize ==
  /\ co = "summarize"
  /\ IF g_reps > 0 THEN co' = "end" /\ UNCHANGED exit ELSE co' = "crashed" /\ exit' = Crashed
  /\ UNCHANGED <<mvars, pvars, dvars>>

-----------------------------------------------------------------------------
(* burst and wakeLatency.                                                  *)

\* wakeLatency submits a task when the one before has started.
Submit ==
  /\ submitted < N /\ Main("submit", "notify")
  /\ submitted' = submitted + 1 /\ q' = Append(q, submitted + 1)
  /\ UNCHANGED <<stop, done, pc, task, mvars, dvars, exit>>

AfterNotify == IF tables[table].kind = "wake" \/ submitted = N THEN "await" ELSE "submit"

\* notify_one
Notify ==
  /\ Main("notify", AfterNotify)
  /\ \/ Waiting = {} /\ UNCHANGED pc
     \/ \E w \in Waiting : WakeUp({w})
  /\ UNCHANGED <<q, stop, submitted, done, task, mvars, dvars, exit>>

\* while (done < N), and BENCH_CHECK(done == N); or while (started == 0)
Await_Mutant ==
  /\ co = "await" /\ done + 1 >= submitted
  /\ co' = IF submitted < N THEN "submit" ELSE "stop"
  /\ UNCHANGED <<mvars, pvars, dvars, exit>>
Await ==
  /\ co = "await" /\ done >= submitted
  /\ co' = IF submitted < N THEN "submit" ELSE "stop"
  /\ g_failures' = IF tables[table].kind = "burst" /\ done # N THEN g_failures + 1 ELSE g_failures
  /\ UNCHANGED <<table, r, f, pvars, dvars, exit>>

\* ~CondvarPool
Stop ==
  /\ Main("stop", "notifyAll") /\ stop' = TRUE
  /\ UNCHANGED <<q, submitted, done, pc, task, mvars, dvars, exit>>
NotifyAll_Mutant ==
  /\ Main("notifyAll", "join")
  /\ \/ Waiting = {} /\ UNCHANGED pc
     \/ \E w \in Waiting : WakeUp({w})
  /\ UNCHANGED <<q, stop, submitted, done, task, mvars, dvars, exit>>
NotifyAll ==
  /\ Main("notifyAll", "join") /\ WakeUp(Waiting)
  /\ UNCHANGED <<q, stop, submitted, done, task, mvars, dvars, exit>>
Join ==
  /\ Main("join", "sample") /\ \A w \in Workers : pc[w] = "exited"
  /\ UNCHANGED <<mvars, pvars, dvars, exit>>

-----------------------------------------------------------------------------
(* The watchdog.                                                           *)

\* The deadline of a table passes.
Expire ==
  /\ \E k \in {g_deadlineNs, dl} \ (late \cup {Never}) : tables[k].late /\ late' = late \cup {k}
  /\ UNCHANGED <<wd, dl, named, exit>>

WatchdogLoad ==
  /\ wd = "sleep" /\ wd' = "test" /\ dl' = g_deadlineNs
  /\ UNCHANGED <<late, named, exit>>
WatchdogTest ==
  /\ wd = "test" /\ wd' = IF dl # Never /\ dl \in late THEN "report" ELSE "sleep"
  /\ UNCHANGED <<dl, late, named, exit>>
WatchdogExit ==
  /\ wd = "report" /\ wd' = "gone" /\ named' = g_benchName /\ exit' = 3
  /\ UNCHANGED <<dl, late>>

-----------------------------------------------------------------------------
Alive == exit = Running /\ UNCHANGED kvars

MainStep ==
  /\ \/ DeadlineName \/ DeadlineSet \/ DeadlineEnd \/ Call \/ Sample \/ Summarize
     \/ Submit \/ Notify \/ Await \/ Stop \/ NotifyAll \/ Join
  /\ Alive /\ UNCHANGED wvars
Worker(w) == (Take(w) \/ Run(w)) /\ Alive /\ UNCHANGED <<co, mvars, dvars, wvars, exit>>
SpuriousWake == (\E w \in Workers : Spurious(w)) /\ Alive /\ UNCHANGED <<co, mvars, dvars, wvars, exit>>
Watchdog ==
  /\ WatchdogLoad \/ WatchdogTest \/ WatchdogExit
  /\ Alive /\ UNCHANGED <<co, mvars, pvars, dvars>>
Time == Expire /\ Alive /\ UNCHANGED <<co, mvars, pvars, dvars>>

Next == MainStep \/ Watchdog \/ Time \/ SpuriousWake \/ \E w \in Workers : Worker(w)

\* Threads keep being scheduled and time goes on; a spurious wake-up may never come.
Spec ==
  /\ Init /\ [][Next]_vars
  /\ WF_vars(MainStep) /\ WF_vars(Watchdog) /\ WF_vars(Time)
  /\ \A w \in Workers : WF_vars(Worker(w))

-----------------------------------------------------------------------------
(* Properties.                                                             *)

InCall == co \in {"submit", "notify", "await", "stop", "notifyAll", "join"}

(* A task that has yet to write to the local of its submitter finds it     *)
(* alive: burst still has done, and wakeLatency is still in the iteration  *)
(* whose started the task refers to.  Every task runs at most once.        *)
LocalsAlive ==
  LET pending == {q[j] : j \in DOMAIN q} \cup {task[w] : w \in {v \in Workers : pc[v] = "run"}}
  IN  /\ pending # {} => InCall /\ co \notin {"stop", "notifyAll", "join"}
      /\ pending # {} /\ tables[table].kind = "wake" =>
           pending = {submitted} /\ co \in {"notify", "await"}
      /\ InCall => done + Cardinality(pending) = submitted

(* The watchdog ends the program only after a deadline has passed, and the *)
(* name it prints is that of the table which missed it, unless that table  *)
(* ended between its two loads.                                            *)
WatchdogNamesCulprit == exit = 3 => dl \in late /\ (named = dl \/ table > dl)

(* A competitor that hangs does not hang the program.                      *)
HangIsKilled == co = "hung" /\ tables[table].late ~> exit = 3

(* Without a hang or a missed deadline the program ends with status 0: no  *)
(* notification of CondvarPool is lost, and its destructor returns.  The   *)
(* number of repetitions has to be positive as an int.                     *)
BenchFinishes ==
  g_reps > 0 /\ (\A k \in DOMAIN tables : ~tables[k].hangs /\ ~tables[k].late) ~> exit = 0

=============================================================================
