------------------------- MODULE ComparisonBenchProofs -------------------------
(***************************************************************************)
(* For any number of threads, any waitTime and machine, and each of the    *)
(* locks: mutual exclusion, with no increment lost, in runLock by itself   *)
(* and in the harness; the measured interval; the handoffs counted; and the*)
(* cores of the threads.                                                   *)
(***************************************************************************)
EXTENDS ComparisonBench, FiniteSetTheorems, TLAPS

\* Where a thread is in the body of one of the programs, and where it can be at all.
Work == {"loop", "lock", "backoff", "load", "store", "owner", "unlock", "useLoad", "useStore", "put"}
Labels == Work \cup {"unborn", "pin", "ready", "spin", "finished"}
Sections == {"load", "store", "owner", "unlock"}

LockType == pc \in [Threads -> Labels] /\ locked \in BOOLEAN /\ DOMAIN reg = Threads

LockInv == LockType /\ MutualExclusion /\ NoLostUpdate

-----------------------------------------------------------------------------
(* The locks.                                                              *)

LEMMA StepPc ==
  ASSUME NEW t \in Threads, NEW from, NEW to \in Labels, pc \in [Threads -> Labels], Step(t, from, to)
  PROVE  /\ pc[t] = from /\ pc'[t] = to /\ pc' \in [Threads -> Labels]
         /\ \A u \in Threads \ {t} : pc'[u] = pc[u]
BY Zenon DEF Step

\* The invariant holds before a thread has come to its loop.
LEMMA LockInitInv ==
  ASSUME LockInit, NEW from \in {"loop", "unborn"}, pc = [t \in Threads |-> from]
  PROVE  LockInv
<1>1. ~locked /\ locked \in BOOLEAN /\ counter = sections /\ DOMAIN reg = Threads
  BY Zenon DEF LockInit
<1>2. pc \in [Threads -> Labels] /\ \A t \in Threads : pc[t] = from
  BY Zenon DEF Labels, Work
<1>3. \A t \in Threads : ~InSection(t) /\ pc[t] # "store"
  BY Zenon, <1>2 DEF InSection
<1> QED BY Zenon, <1>1, <1>2, <1>3 DEF LockInv, LockType, MutualExclusion, NoLostUpdate

\* A step that takes the free lock.
LEMMA Enter ==
  ASSUME LockInv, NEW t \in Threads, Step(t, "lock", "load"), ~locked, locked' = TRUE,
         UNCHANGED <<counter, reg, sections>>
  PROVE  LockInv'
<1>1. /\ pc[t] = "lock" /\ pc'[t] = "load" /\ pc' \in [Threads -> Labels]
      /\ \A u \in Threads \ {t} : pc'[u] = pc[u]
  BY Zenon, StepPc DEF LockInv, LockType, Labels, Work
<1>2. LockType'
  BY Zenon, <1>1 DEF LockInv, LockType
<1>3. NoLostUpdate'
  BY Zenon, <1>1 DEF LockInv, NoLostUpdate
<1>4. \A u \in Threads : ~InSection(u)
  BY Zenon DEF LockInv, MutualExclusion
<1>5. InSection(t)' /\ \A u \in Threads \ {t} : ~InSection(u)'
  BY Zenon, <1>1, <1>4 DEF InSection
<1>6. MutualExclusion'
  BY Zenon, <1>5 DEF MutualExclusion
<1> QED BY Zenon, <1>2, <1>3, <1>6 DEF LockInv

\* A step of a thread that is and stays outside its critical section.
LEMMA Outside ==
  ASSUME LockInv, NEW t \in Threads, NEW from, NEW to \in Labels \ Sections, Step(t, from, to),
         from \notin Sections, UNCHANGED <<locked, counter, sections>>,
         DOMAIN reg' = DOMAIN reg, \A u \in Threads \ {t} : reg'[u] = reg[u]
  PROVE  LockInv'
<1>1. /\ pc[t] = from /\ pc'[t] = to /\ pc' \in [Threads -> Labels]
      /\ \A u \in Threads \ {t} : pc'[u] = pc[u]
  BY Zenon, StepPc DEF LockInv, LockType
<1>2. LockType'
  BY Zenon, <1>1 DEF LockInv, LockType
<1>3. to # "store"
  BY Zenon DEF Sections
<1>4. NoLostUpdate'
  BY Zenon, <1>1, <1>3 DEF LockInv, NoLostUpdate
<1>5. \A u \in Threads : InSection(u)' <=> InSection(u)
  BY Zenon, <1>1 DEF InSection, Sections
<1>6. locked' <=> locked
  OBVIOUS
<1>7. MutualExclusion'
  BY Zenon, <1>5, <1>6 DEF LockInv, MutualExclusion
<1> QED BY Zenon, <1>2, <1>4, <1>7 DEF LockInv

\* The critical section itself: the one thread in it reads, stores and goes on.
LEMMA Section ==
  ASSUME LockInv, NEW t \in Threads, LoadCounter(t) \/ StoreCounter(t) \/ NoteOwner(t)
  PROVE  LockInv'
<1>0. pc \in [Threads -> Labels] /\ DOMAIN reg = Threads
  BY Zenon DEF LockInv, LockType
<1>1. /\ pc[t] \in {"load", "store", "owner"} /\ pc'[t] \in {"store", "owner", "unlock"}
      /\ pc' \in [Threads -> Labels] /\ \A u \in Threads \ {t} : pc'[u] = pc[u]
      /\ UNCHANGED locked
  <2>1. {"load", "store", "owner", "unlock"} \subseteq Labels
    BY Zenon DEF Labels, Work
  <2>2. CASE LoadCounter(t)
    BY Zenon, <1>0, <2>1, <2>2, StepPc DEF LoadCounter
  <2>3. CASE StoreCounter(t)
    BY Zenon, <1>0, <2>1, <2>3, StepPc DEF StoreCounter
  <2>4. CASE NoteOwner(t)
    BY Zenon, <1>0, <2>1, <2>4, StepPc DEF NoteOwner
  <2> QED BY Zenon, <2>2, <2>3, <2>4
<1>2. \A u \in Threads : InSection(u)' <=> InSection(u)
  BY Zenon, <1>1 DEF InSection
<1>3. MutualExclusion'
  <2>1. locked' <=> locked
    BY <1>1
  <2> QED BY Zenon, <1>2, <2>1 DEF LockInv, MutualExclusion
<1>4. \A u \in Threads \ {t} : pc'[u] # "store"
  BY Zenon, <1>1 DEF LockInv, MutualExclusion, InSection
<1>5. LockType' /\ NoLostUpdate'
  <2>1. CASE LoadCounter(t)
    <3>1. reg'[t] = counter /\ DOMAIN reg' = Threads /\ UNCHANGED <<counter, sections>>
      BY Zenon, <1>0, <2>1 DEF LoadCounter
    <3> QED BY Zenon, <1>1, <1>4, <3>1 DEF LockInv, LockType, NoLostUpdate
  <2>2. CASE StoreCounter(t)
    <3>1. /\ pc[t] = "store" /\ pc'[t] = "owner" /\ counter' = reg[t] + 1 /\ sections' = sections + 1
          /\ UNCHANGED reg
      BY Zenon, <1>0, <2>2 DEF StoreCounter, Step
    <3>2. counter' = sections'
      BY Zenon, <3>1 DEF LockInv, NoLostUpdate
    <3> QED BY Zenon, <1>1, <1>4, <3>1, <3>2 DEF LockInv, LockType, NoLostUpdate
  <2>3. CASE NoteOwner(t)
    <3>1. pc'[t] = "unlock" /\ UNCHANGED <<reg, counter, sections>>
      BY Zenon, <1>0, <2>3 DEF NoteOwner, Step
    <3> QED BY Zenon, <1>1, <1>4, <3>1 DEF LockInv, LockType, NoLostUpdate
  <2> QED BY Zenon, <2>1, <2>2, <2>3
<1> QED BY Zenon, <1>3, <1>5 DEF LockInv

\* unlock() by the thread in its critical section.
LEMMA Leave ==
  ASSUME LockInv, NEW t \in Threads, Unlock(t)
  PROVE  LockInv'
<1>0. pc \in [Threads -> Labels]
  BY Zenon DEF LockInv, LockType
<1>1. /\ pc[t] = "unlock" /\ pc'[t] = "loop" /\ pc' \in [Threads -> Labels]
      /\ \A u \in Threads \ {t} : pc'[u] = pc[u]
      /\ locked' = FALSE /\ UNCHANGED <<counter, reg, sections>>
  BY Zenon, <1>0, StepPc DEF Unlock, Labels, Work
<1>2. LockType'
  BY Zenon, <1>1 DEF LockInv, LockType
<1>3. NoLostUpdate'
  BY Zenon, <1>1 DEF LockInv, NoLostUpdate
<1>4. \A u \in Threads : ~InSection(u)'
  BY Zenon, <1>1 DEF LockInv, MutualExclusion, InSection
<1>5. MutualExclusion'
  BY Zenon, <1>1, <1>4 DEF MutualExclusion
<1> QED BY Zenon, <1>2, <1>3, <1>5 DEF LockInv

\* Every step of lock(), of unlock() and of the loop around them keeps the invariant.
LEMMA LockStepInv ==
  ASSUME LockInv, NEW t \in Threads, LockStep(t)
  PROVE  LockInv'
<1>0. \A a \in {"loop", "lock", "backoff", "finished"} : a \in Labels \ Sections /\ a \notin Sections
  BY Zenon DEF Labels, Work, Sections
<1>1. ASSUME NEW from \in {"loop", "lock", "backoff"}, NEW to \in {"lock", "backoff", "finished"},
             Step(t, from, to), UNCHANGED <<locked, counter, reg, sections>>
      PROVE  LockInv'
  <2>1. from \in {"loop", "lock", "backoff", "finished"} /\ to \in {"loop", "lock", "backoff", "finished"}
    BY Zenon
  <2> QED BY Zenon, <1>0, <1>1, <2>1, Outside
<1>2. CASE LoopTest(t)
  BY Zenon, <1>1, <1>2 DEF LoopTest, lvars
<1>3. CASE Exchange(t)
  <2>1. CASE ~locked /\ Step(t, "lock", "load")
    BY Zenon, <1>3, <2>1, Enter DEF Exchange
  <2>2. CASE locked /\ Step(t, "lock", "backoff")
    <3>1. UNCHANGED locked
      BY <1>3, <2>2 DEF Exchange, LockInv, LockType
    <3> QED BY Zenon, <1>1, <1>3, <2>2, <3>1 DEF Exchange
  <2> QED BY Zenon, <1>3, <2>1, <2>2 DEF Exchange
<1>4. CASE Pause(t)
  BY Zenon, <1>1, <1>4 DEF Pause
<1>5. CASE TtasSpin(t)
  BY Zenon, <1>1, <1>5 DEF TtasSpin, lvars
<1>6. CASE MutexLock(t)
  BY Zenon, <1>6, Enter DEF MutexLock
<1>7. CASE Unlock(t)
  BY Zenon, <1>7, Leave
<1>8. CASE LoadCounter(t) \/ StoreCounter(t) \/ NoteOwner(t)
  BY Zenon, <1>8, Section
<1> QED BY Zenon, <1>2, <1>3, <1>4, <1>5, <1>6, <1>7, <1>8 DEF LockStep

LEMMA LockIdle == LockInv /\ UNCHANGED <<pc, locked, counter, reg, sections>> => LockInv'
<1> SUFFICES ASSUME LockInv, UNCHANGED <<pc, locked, counter, reg, sections>> PROVE LockInv'
  OBVIOUS
<1>1. LockType' /\ NoLostUpdate'
  BY Zenon DEF LockInv, LockType, NoLostUpdate
<1>2. (locked' <=> locked) /\ \A t \in Threads : InSection(t)' <=> InSection(t)
  BY DEF InSection
<1>3. MutualExclusion'
  BY Zenon, <1>2 DEF LockInv, MutualExclusion
<1> QED BY Zenon, <1>1, <1>3 DEF LockInv

LEMMA LockInvariant == LockSpec => []LockInv
<1> DEFINE LockNext == \E t \in Threads : LockStep(t) /\ UNCHANGED <<kind, waitTime>>
           LockVars == <<pc, lvars, kind, waitTime>>
<1>1. LockInit /\ pc = [t \in Threads |-> "loop"] => LockInv
  BY Zenon, LockInitInv
<1>2. LockInv /\ [LockNext]_LockVars => LockInv'
  <2>1. LockInv /\ UNCHANGED LockVars => LockInv'
    BY Zenon, LockIdle DEF lvars
  <2> QED BY Zenon, <2>1, LockStepInv
<1> QED BY <1>1, <1>2, PTL DEF LockSpec

\* Mutual exclusion of Spinlock, TTAS and the mutex for every number of threads.
THEOREM LockSafe == LockSpec => []MutualExclusion
<1>1. LockInv => MutualExclusion
  BY Zenon DEF LockInv
<1> QED BY <1>1, LockInvariant, PTL

\* No increment of the plain counter under one of these locks is lost.
THEOREM LockCounts == LockSpec => []NoLostUpdate
<1>1. LockInv => NoLostUpdate
  BY Zenon DEF LockInv
<1> QED BY <1>1, LockInvariant, PTL

-----------------------------------------------------------------------------
(* runPinned.                                                              *)

\* A thread that has counted itself as ready.
Past == {t \in Threads : pc[t] \notin {"unborn", "pin", "ready"}}

\* The coordinator creates the threads in order and lets them go when all are ready.
RunInv ==
  /\ pc \in [Threads -> Labels] /\ spawned \in Nat /\ ready \in Nat /\ go \in BOOLEAN
  /\ bench.P \in Nat \ {0} /\ bench.C \in Nat /\ Bodies \subseteq Threads
  /\ spawned <= Shares
  /\ \A t \in Threads : pc[t] # "unborn" => t \in 0 .. spawned - 1
  /\ \A t \in 0 .. spawned - 1 : pc[t] # "unborn"
  /\ co \in {"init", "skipTest", "skipped"} => spawned = 0
  /\ co = "spawn" => spawned < Shares
  /\ ready = Cardinality(Past)
  /\ co \in {"go", "join", "check", "done"} => Bodies \subseteq Past
  /\ go => co \in {"join", "check", "done"}
  /\ \A t \in Threads : pc[t] \in Work \cup {"finished"} => go
  /\ co \in {"check", "done"} => \A t \in Bodies : pc[t] = "finished"


LEMMA SharesType ==
  ASSUME RunInv
  PROVE  /\ Shares \in Nat \ {0} /\ spawned \in Nat /\ spawned <= Shares
         /\ 0 .. spawned - 1 \subseteq Bodies /\ Past \subseteq 0 .. spawned - 1
         /\ IsFiniteSet(Past) /\ Cardinality(Past) \in Nat
<1>1. /\ bench.P \in Nat \ {0} /\ bench.C \in Nat /\ spawned \in Nat /\ spawned <= Shares
      /\ \A t \in Threads : pc[t] # "unborn" => t \in 0 .. spawned - 1
  BY Zenon DEF RunInv
<1>2. Shares \in Nat \ {0}
  BY <1>1 DEF Shares
<1>3. 0 .. spawned - 1 \subseteq Bodies
  <2>1. PICK m \in Nat : m = Shares
    BY <1>2
  <2> QED BY <1>1, <2>1 DEF Bodies
<1>4. Past \subseteq 0 .. spawned - 1
  BY Zenon, <1>1 DEF Past
<1>5. IsFiniteSet(0 .. spawned - 1)
  <2>1. spawned - 1 \in Int
    BY <1>1
  <2> QED BY <2>1, FS_Interval
<1>6. IsFiniteSet(Past) /\ Cardinality(Past) \in Nat
  BY Zenon, <1>4, <1>5, FS_Subset, FS_CardinalityType
<1> QED BY Zenon, <1>1, <1>2, <1>3, <1>4, <1>6

LEMMA InitRunInv == Init => RunInv
<1> SUFFICES ASSUME Init PROVE RunInv
  OBVIOUS
<1>1. /\ pc = [t \in Threads |-> "unborn"] /\ spawned = 0 /\ ready = 0 /\ go = FALSE /\ co = "init"
      /\ \E c \in Configs : bench = c[2]
  BY Zenon DEF Init
<1>2. bench.P \in Nat \ {0} /\ bench.C \in Nat /\ Bodies \subseteq Threads
  <2>1. PICK c \in Configs : bench = c[2]
    BY Zenon, <1>1
  <2>2. bench.P \in Nat \ {0} /\ bench.C \in Nat /\ 0 .. (bench.P + bench.C) - 1 \subseteq Threads
    BY <2>1, ConfigAssumption
  <2> QED BY Zenon, <2>2 DEF Bodies, Shares
<1>3. spawned \in Nat /\ ready \in Nat /\ spawned <= Shares /\ 0 .. spawned - 1 = {}
  BY <1>1, <1>2 DEF Shares
<1>4. pc \in [Threads -> Labels] /\ \A t \in Threads : pc[t] = "unborn"
  BY Zenon, <1>1 DEF Labels
<1>5. Past = {} /\ Cardinality(Past) = 0
  <2>1. Past = {}
    BY Zenon, <1>4 DEF Past
  <2> QED BY Zenon, <2>1, FS_EmptySet
<1>6. go \in BOOLEAN /\ ~go
  BY Zenon, <1>1
<1> QED BY Zenon, <1>1, <1>2, <1>3, <1>4, <1>5, <1>6 DEF RunInv, Work

\* Steps of a thread after its birth.
LEMMA MoveRunInv ==
  ASSUME RunInv, NEW t \in Threads, NEW from \in Labels, NEW to \in Labels, Step(t, from, to),
         from \notin {"unborn", "finished"}, to # "unborn", UNCHANGED <<bench, spawned, go, co>>,
         to \in Work \cup {"finished"} => go,
         \/ from = "ready" /\ to = "spin" /\ ready' = ready + 1
         \/ (from \in {"pin", "ready"} <=> to \in {"pin", "ready"}) /\ ready' = ready
  PROVE  RunInv'
<1>0. /\ pc \in [Threads -> Labels] /\ ready \in Nat /\ ready = Cardinality(Past)
      /\ bench.P \in Nat \ {0} /\ bench.C \in Nat /\ Bodies \subseteq Threads
  BY Zenon DEF RunInv
<1>1. /\ pc[t] = from /\ pc'[t] = to /\ pc' \in [Threads -> Labels]
      /\ \A u \in Threads \ {t} : pc'[u] = pc[u]
  BY Zenon, <1>0, StepPc
<1>2. t \in 0 .. spawned - 1 /\ t \in Bodies
  <2>1. t \in 0 .. spawned - 1
    BY Zenon, <1>1 DEF RunInv
  <2> QED BY Zenon, <2>1, SharesType
<1>3. co \notin {"check", "done"}
  BY Zenon, <1>1, <1>2 DEF RunInv
<1>4. /\ Shares' = Shares /\ Bodies' = Bodies
  BY Zenon DEF Shares, Bodies
<1>5. ready' \in Nat /\ ready' = Cardinality(Past)' /\ Past \subseteq Past'
  <2>1. CASE from = "ready" /\ to = "spin" /\ ready' = ready + 1
    <3>1. t \notin Past /\ Past \subseteq Past' /\ t \in Past'
      BY Zenon, <1>1, <2>1 DEF Past
    <3>2. Past' \subseteq Past \cup {t}
      BY Zenon, <1>1 DEF Past
    <3>3. Past' = Past \cup {t}
      BY Zenon, <3>1, <3>2
    <3>4. Cardinality(Past \cup {t}) = Cardinality(Past) + 1
      BY Zenon, <3>1, SharesType, FS_AddElement
    <3>5. ready' \in Nat
      BY <1>0, <2>1
    <3> QED BY Zenon, <1>0, <2>1, <3>1, <3>3, <3>4, <3>5
  <2>2. CASE (from \in {"pin", "ready"} <=> to \in {"pin", "ready"}) /\ ready' = ready
    <3>1. t \in Past' <=> t \in Past
      BY Zenon, <1>1, <2>2 DEF Past
    <3>2. Past' = Past
      <4>1. \A u \in Threads : u \in Past' <=> u \in Past
        BY Zenon, <1>1, <3>1 DEF Past
      <4>2. Past \subseteq Threads /\ Past' \subseteq Threads
        BY Zenon DEF Past
      <4> QED BY Zenon, <4>1, <4>2
    <3> QED BY Zenon, <1>0, <2>2, <3>2
  <2> QED BY Zenon, <2>1, <2>2
<1>6. /\ \A u \in Threads : pc'[u] # "unborn" => u \in 0 .. spawned' - 1
      /\ \A u \in 0 .. spawned' - 1 : pc'[u] # "unborn"
  <2>1. 0 .. spawned - 1 \subseteq Threads
    BY Zenon, <1>0, SharesType
  <2>2. \A u \in Threads : pc[u] # "unborn" <=> pc'[u] # "unborn"
    BY Zenon, <1>1
  <2> QED BY Zenon, <2>1, <2>2 DEF RunInv
<1>7. \A u \in Threads : pc'[u] \in Work \cup {"finished"} => go
  BY Zenon, <1>1 DEF RunInv
<1>8. go' \in BOOLEAN /\ (go' <=> go)
  BY DEF RunInv
<1>9. /\ spawned' \in Nat /\ bench'.P \in Nat \ {0} /\ bench'.C \in Nat /\ Bodies' \subseteq Threads
      /\ spawned' <= Shares'
  BY Zenon, <1>0, <1>4 DEF RunInv
<1>10. /\ co' \in {"init", "skipTest", "skipped"} => spawned' = 0
       /\ co' = "spawn" => spawned' < Shares'
       /\ co' \in {"go", "join", "check", "done"} => Bodies' \subseteq Past'
       /\ go' => co' \in {"join", "check", "done"}
  BY Zenon, <1>4, <1>5, <1>8 DEF RunInv
<1> QED BY Zenon, <1>1, <1>3, <1>5, <1>6, <1>7, <1>8, <1>9, <1>10 DEF RunInv

\* What a step of a body does to the run: it moves its thread on.
LEMMA BodyMoves ==
  ASSUME NEW t \in Threads, Body(t)
  PROVE  /\ \E from \in Work, to \in Work \cup {"finished"} : Step(t, from, to)
         /\ UNCHANGED rvars
<1>1. CASE LockStep(t) /\ UNCHANGED rvars
  BY Zenon, <1>1 DEF LockStep, LoopTest, Exchange, Pause, TtasSpin, MutexLock, LoadCounter, StoreCounter,
                     NoteOwner, Unlock, Work
<1>2. CASE IndexGet(t) \/ UseLoad(t) \/ UseStore(t) \/ IndexPut(t) \/ IndexEnd(t)
  BY Zenon, <1>2 DEF IndexGet, UseLoad, UseStore, IndexPut, IndexEnd, Work
<1>3. CASE Push(t) \/ Pop(t) \/ ThroughputEnd(t)
  BY Zenon, <1>3 DEF Push, Pop, ThroughputEnd, Work
<1> QED BY Zenon, <1>1, <1>2, <1>3 DEF Body

LEMMA ThreadRunInv ==
  ASSUME RunInv, NEW t \in Threads, ThreadStep(t), UNCHANGED bench
  PROVE  RunInv'
<1>0. /\ Work \subseteq Labels /\ {"pin", "ready", "spin", "finished"} \subseteq Labels
      /\ \A a \in Work \cup {"finished"} : a \notin {"pin", "ready", "unborn"}
      /\ \A a \in Work : a # "finished"
      /\ {"pin", "ready", "spin"} \cap (Work \cup {"finished"}) = {}
  BY Zenon DEF Labels, Work
<1>1. CASE Pin(t)
  <2>1. Step(t, "pin", "ready") /\ UNCHANGED <<spawned, go, co, ready>>
    BY Zenon, <1>1 DEF Pin
  <2> QED BY Zenon, <1>0, <2>1, MoveRunInv
<1>2. CASE Ready(t)
  <2>1. Step(t, "ready", "spin") /\ ready' = ready + 1 /\ UNCHANGED <<spawned, go, co>>
    BY Zenon, <1>2 DEF Ready
  <2> QED BY Zenon, <1>0, <2>1, MoveRunInv
<1>3. CASE Begin(t)
  <2>1. go /\ Step(t, "spin", "loop") /\ UNCHANGED <<spawned, go, co, ready>>
    BY Zenon, <1>3 DEF Begin, rvars
  <2>2. "loop" \in Labels /\ "spin" \in Labels
    BY Zenon DEF Labels, Work
  <2> QED BY Zenon, <2>1, <2>2, MoveRunInv
<1>4. CASE Body(t)
  <2>1. PICK from \in Work, to \in Work \cup {"finished"} : Step(t, from, to)
    BY Zenon, <1>4, BodyMoves
  <2>2. UNCHANGED <<spawned, go, co, ready>>
    BY Zenon, <1>4, BodyMoves DEF rvars
  <2>3. go
    <3>1. pc[t] = from
      BY Zenon, <2>1 DEF Step
    <3> QED BY Zenon, <3>1 DEF RunInv
  <2>4. from \in Labels /\ to \in Labels /\ from \notin {"unborn", "finished", "pin", "ready"}
        /\ to \notin {"unborn", "pin", "ready"}
    BY Zenon, <1>0
  <2> QED BY Zenon, <2>1, <2>2, <2>3, <2>4, MoveRunInv
<1> QED BY Zenon, <1>1, <1>2, <1>3, <1>4 DEF ThreadStep

\* Steps of the coordinator that create no thread.
LEMMA CoordinatorMoves ==
  ASSUME RunInv, UNCHANGED <<pc, bench, spawned, ready>>,
         \/ co \in {"init", "skipTest"} /\ co' \in {"init", "skipTest", "skipped"} /\ UNCHANGED go
         \/ co = "skipTest" /\ co' = "spawn" /\ UNCHANGED go
         \/ co = "pinAway" /\ co' = "waitReady" /\ UNCHANGED go
         \/ co = "waitReady" /\ ready >= Shares /\ co' = "go" /\ UNCHANGED go
         \/ co = "go" /\ co' = "join" /\ go' = TRUE
         \/ co = "join" /\ (\A t \in Bodies : pc[t] = "finished") /\ co' = "check" /\ UNCHANGED go
         \/ co = "check" /\ co' = "done" /\ UNCHANGED go
  PROVE  RunInv'
<1>0. /\ Shares \in Nat \ {0} /\ spawned \in Nat /\ Bodies \subseteq Threads
      /\ 0 .. spawned - 1 \subseteq Bodies /\ Past \subseteq 0 .. spawned - 1
      /\ Cardinality(Past) \in Nat /\ ready = Cardinality(Past) /\ ready \in Nat
  BY Zenon, SharesType DEF RunInv
<1>1. Past' = Past /\ Shares' = Shares /\ Bodies' = Bodies
  BY Zenon DEF Past, Shares, Bodies
<1>2. ready' = Cardinality(Past)' /\ ready' \in Nat
  BY Zenon, <1>0, <1>1
<1>3. /\ pc' \in [Threads -> Labels] /\ spawned' \in Nat
      /\ bench'.P \in Nat \ {0} /\ bench'.C \in Nat /\ Bodies' \subseteq Threads /\ spawned' <= Shares'
      /\ \A t \in Threads : pc'[t] # "unborn" => t \in 0 .. spawned' - 1
      /\ \A t \in 0 .. spawned' - 1 : pc'[t] # "unborn"
  BY Zenon, <1>1 DEF RunInv
<1>4. co = "waitReady" /\ ready >= Shares => Bodies \subseteq Past
  <2> SUFFICES ASSUME ready >= Shares PROVE Bodies \subseteq Past
    BY Zenon
  <2>1. PICK m \in Nat \ {0} : m = Shares
    BY Zenon, <1>0
  <2>2. m - 1 \in Int /\ ~(0 > m - 1) /\ (m - 1) - 0 + 1 = m
    BY <2>1
  <2>3. IsFiniteSet(0 .. m - 1) /\ Cardinality(0 .. m - 1) = m
    BY <2>2, FS_Interval
  <2>4. IsFiniteSet(Bodies) /\ Cardinality(Bodies) = m
    BY Zenon, <2>1, <2>3 DEF Bodies
  <2>5. Cardinality(Past) <= m
    BY Zenon, <1>0, <2>4, FS_Subset
  <2>6. Cardinality(Past) = m
    BY <1>0, <2>1, <2>5
  <2> QED BY Zenon, <1>0, <2>4, <2>6, FS_Subset
<1>5. CASE go' = TRUE /\ co = "go" /\ co' = "join"
  BY Zenon, <1>1, <1>2, <1>3, <1>5 DEF RunInv
<1>6. CASE UNCHANGED go
  <2>1. (go' <=> go) /\ go' \in BOOLEAN
    BY <1>6 DEF RunInv
  <2>2. /\ co' \in {"init", "skipTest", "skipped"} => spawned' = 0
        /\ go' => co' \in {"join", "check", "done"}
        /\ \A t \in Threads : pc'[t] \in Work \cup {"finished"} => go'
    BY Zenon, <2>1 DEF RunInv
  <2>3. co' = "spawn" => spawned' < Shares'
    <3>1. co' = "spawn" => spawned = 0
      BY Zenon DEF RunInv
    <3> QED BY <1>0, <1>1, <3>1
  <2>4. co' \in {"go", "join", "check", "done"} => Bodies' \subseteq Past'
    BY Zenon, <1>1, <1>4 DEF RunInv
  <2>5. co' \in {"check", "done"} => \A t \in Bodies' : pc'[t] = "finished"
    BY Zenon, <1>1 DEF RunInv
  <2> QED BY Zenon, <1>2, <1>3, <2>1, <2>2, <2>3, <2>4, <2>5 DEF RunInv
<1> QED BY Zenon, <1>5, <1>6

LEMMA SpawnRunInv ==
  ASSUME RunInv, Spawn, UNCHANGED bench
  PROVE  RunInv' /\ spawned \in Threads
<1> DEFINE k == spawned
<1>0. /\ Shares \in Nat \ {0} /\ k \in Nat /\ k < Shares /\ Bodies \subseteq Threads
      /\ Past \subseteq 0 .. k - 1 /\ pc \in [Threads -> Labels] /\ ready = Cardinality(Past) /\ ready \in Nat
  BY Zenon, SharesType DEF RunInv, Spawn
<1>1. /\ co = "spawn" /\ Step(k, "unborn", "pin") /\ spawned' = k + 1 /\ UNCHANGED <<ready, go>>
      /\ co' = IF k + 1 = Shares THEN "pinAway" ELSE "spawn"
  BY Zenon DEF Spawn
<1>2. Shares' = Shares /\ Bodies' = Bodies
  BY Zenon DEF Shares, Bodies
<1>3. k \in Bodies /\ k \in Threads
  <2>1. PICK m \in Nat : m = Shares
    BY <1>0
  <2>2. k \in 0 .. m - 1
    BY <1>0, <2>1
  <2> QED BY Zenon, <1>0, <2>1, <2>2 DEF Bodies
<1>4. /\ spawned' \in Nat /\ spawned' <= Shares' /\ (k + 1 # Shares => spawned' < Shares')
      /\ \A t \in 0 .. k - 1 : t \in 0 .. (k + 1) - 1
      /\ \A t \in 0 .. (k + 1) - 1 : t \in 0 .. k - 1 \/ t = k
      /\ k \in 0 .. (k + 1) - 1
  <2>1. PICK m \in Nat : m = Shares
    BY <1>0
  <2> QED BY <1>0, <1>1, <1>2, <2>1
<1> HIDE DEF k
<1>5. /\ pc[k] = "unborn" /\ pc'[k] = "pin" /\ pc' \in [Threads -> Labels]
      /\ \A u \in Threads \ {k} : pc'[u] = pc[u]
  <2>1. "pin" \in Labels
    BY Zenon DEF Labels
  <2> QED BY Zenon, <1>0, <1>1, <1>3, <2>1, StepPc
<1>6. Past' = Past
  <2>1. \A u \in Threads : u \in Past' <=> u \in Past
    BY Zenon, <1>5 DEF Past
  <2>2. Past \subseteq Threads /\ Past' \subseteq Threads
    BY Zenon DEF Past
  <2> QED BY Zenon, <2>1, <2>2
<1>7. ready' \in Nat /\ ready' = Cardinality(Past)'
  BY Zenon, <1>0, <1>1, <1>6
<1>8. \A t \in Threads : pc'[t] # "unborn" => t \in 0 .. spawned' - 1
  <2>1. \A t \in Threads \ {k} : pc'[t] # "unborn" => t \in 0 .. k - 1
    BY Zenon, <1>5 DEF RunInv, k
  <2> QED BY Zenon, <1>1, <1>4, <2>1
<1>9. \A t \in 0 .. spawned' - 1 : pc'[t] # "unborn"
  <2>1. \A t \in 0 .. k - 1 : t \in Threads /\ pc[t] # "unborn"
    BY Zenon, <1>0, SharesType DEF RunInv, k
  <2> QED BY Zenon, <1>1, <1>4, <1>5, <2>1
<1>10. go' \in BOOLEAN /\ ~go'
  <2>1. ~go /\ go \in BOOLEAN
    BY Zenon, <1>1 DEF RunInv
  <2> QED BY <1>1, <2>1
<1>11. \A t \in Threads : pc'[t] \notin Work \cup {"finished"}
  <2>1. \A t \in Threads : pc[t] \notin Work \cup {"finished"}
    BY Zenon, <1>1 DEF RunInv
  <2>2. "pin" \notin Work \cup {"finished"}
    BY Zenon DEF Work
  <2> QED BY Zenon, <1>5, <2>1, <2>2
<1>12. bench'.P \in Nat \ {0} /\ bench'.C \in Nat /\ Bodies' \subseteq Threads
  BY Zenon, <1>2 DEF RunInv
<1>13. co' \in {"pinAway", "spawn"} /\ (co' = "spawn" => spawned' < Shares')
  BY Zenon, <1>1, <1>4
<1>14. RunInv'
  BY Zenon, <1>4, <1>5, <1>7, <1>8, <1>9, <1>10, <1>11, <1>12, <1>13 DEF RunInv
<1> QED BY Zenon, <1>3, <1>14 DEF k

LEMMA NextRunInv == RunInv /\ [Next]_vars => RunInv'
<1> SUFFICES ASSUME RunInv, [Next]_vars PROVE RunInv'
  OBVIOUS
<1>1. ASSUME NEW t \in Threads, ThreadStep(t), UNCHANGED hvars PROVE RunInv'
  BY Zenon, <1>1, ThreadRunInv DEF hvars
<1>2. CASE Coordinate /\ UNCHANGED hvars
  <2>0. UNCHANGED bench
    BY Zenon, <1>2 DEF hvars
  <2>1. CASE Spawn
    BY Zenon, <2>0, <2>1, SpawnRunInv
  <2>2. CASE detectTopology
    BY Zenon, <2>0, <2>2, CoordinatorMoves DEF detectTopology
  <2>3. CASE SkipTest
    BY Zenon, <2>0, <2>3, CoordinatorMoves DEF SkipTest
  <2>4. CASE PinAway
    BY Zenon, <2>0, <2>4, CoordinatorMoves DEF PinAway
  <2>5. CASE WaitReady
    BY Zenon, <2>0, <2>5, CoordinatorMoves DEF WaitReady
  <2>6. CASE Go
    BY Zenon, <2>0, <2>6, CoordinatorMoves DEF Go
  <2>7. CASE Join
    BY Zenon, <2>0, <2>7, CoordinatorMoves DEF Join
  <2>8. CASE Check
    BY Zenon, <2>0, <2>8, CoordinatorMoves DEF Check
  <2> QED BY Zenon, <1>2, <2>1, <2>2, <2>3, <2>4, <2>5, <2>6, <2>7, <2>8 DEF Coordinate
<1>3. CASE UNCHANGED vars
  <2>1. UNCHANGED <<pc, bench, spawned, ready, go, co>>
    BY Zenon, <1>3 DEF vars, hvars, rvars
  <2>2. Past' = Past /\ Shares' = Shares /\ Bodies' = Bodies
    BY Zenon, <2>1 DEF Past, Shares, Bodies
  <2>3. ready' = Cardinality(Past)' /\ (go' <=> go) /\ go' \in BOOLEAN
    <3>1. ready' = Cardinality(Past)'
      BY Zenon, <2>1, <2>2 DEF RunInv
    <3>2. (go' <=> go) /\ go' \in BOOLEAN
      BY <2>1 DEF RunInv
    <3> QED BY Zenon, <3>1, <3>2
  <2> QED BY Zenon, <2>1, <2>2, <2>3 DEF RunInv
<1> QED BY Zenon, <1>1, <1>2, <1>3 DEF Next

LEMMA RunInvariant == Spec => []RunInv
BY InitRunInv, NextRunInv, PTL DEF Spec

\* No body runs before the clock is read and all threads are pinned, and all have
\* ended when it is read again.
THEOREM WindowHoldsBodies == Spec => []TimedWindow
<1>1. RunInv => TimedWindow
  <2> SUFFICES ASSUME RunInv PROVE TimedWindow
    OBVIOUS
  <2>1. ASSUME NEW t \in Threads, Running(t) \/ pc[t] = "finished"
        PROVE  co \in {"join", "check", "done"} /\ \A u \in Bodies : pc[u] \notin {"unborn", "pin", "ready"}
    <3>1. pc[t] \in Work \cup {"finished"}
      BY Zenon, <2>1 DEF RunInv, Running, Labels
    <3>2. co \in {"join", "check", "done"}
      BY Zenon, <3>1 DEF RunInv
    <3>3. Bodies \subseteq Past
      BY Zenon, <3>2 DEF RunInv
    <3> QED BY Zenon, <3>2, <3>3 DEF Past
  <2> QED BY Zenon, <2>1 DEF TimedWindow, RunInv
<1> QED BY <1>1, RunInvariant, PTL

LEMMA BenchLockInv == RunInv /\ LockInv /\ [Next]_vars => LockInv'
<1> SUFFICES ASSUME RunInv, LockInv, [Next]_vars PROVE LockInv'
  OBVIOUS
<1>0. /\ {"unborn", "pin", "ready", "spin", "loop", "useLoad", "useStore", "put", "finished"} \subseteq Labels \ Sections
      /\ \A a \in Labels \ Sections : a \notin Sections
  BY Zenon DEF Labels, Work, Sections
<1>1. ASSUME NEW t \in Threads, NEW from \in Labels \ Sections, NEW to \in Labels \ Sections, Step(t, from, to),
             UNCHANGED <<locked, counter, sections, reg>>
      PROVE  LockInv'
  BY Zenon, <1>1, Outside
<1>2. ASSUME UNCHANGED <<pc, locked, counter, reg, sections>> PROVE LockInv'
  BY Zenon, <1>2, LockIdle
<1>3. ASSUME NEW t \in Threads, ThreadStep(t) PROVE LockInv'
  <2>1. CASE LockStep(t)
    BY Zenon, <2>1, LockStepInv
  <2>2. CASE Pin(t) \/ Ready(t) \/ Begin(t)
    BY Zenon, <1>0, <1>1, <2>2 DEF Pin, Ready, Begin, lvars
  <2>3. CASE IndexGet(t) \/ UseStore(t) \/ IndexEnd(t) \/ IndexPut(t)
    BY Zenon, <1>0, <1>1, <2>3 DEF IndexGet, UseStore, IndexEnd, IndexPut, lvars
  <2>4. CASE Push(t) \/ Pop(t) \/ ThroughputEnd(t)
    BY Zenon, <1>0, <1>1, <2>4 DEF Push, Pop, ThroughputEnd, lvars
  <2>5. CASE UseLoad(t)
    <3>1. Step(t, "useLoad", "useStore") /\ UNCHANGED <<locked, counter, sections>>
      BY Zenon, <2>5 DEF UseLoad
    <3>2. DOMAIN reg' = DOMAIN reg /\ \A u \in Threads \ {t} : reg'[u] = reg[u]
      BY Zenon, <2>5 DEF UseLoad, LockInv, LockType
    <3> QED BY Zenon, <1>0, <3>1, <3>2, Outside
  <2> QED BY Zenon, <1>3, <2>1, <2>2, <2>3, <2>4, <2>5 DEF ThreadStep, Body
<1>4. CASE Coordinate /\ UNCHANGED hvars
  <2>1. CASE Spawn
    <3>1. spawned \in Threads
      BY Zenon, <1>4, <2>1, SpawnRunInv DEF hvars
    <3> QED BY Zenon, <1>0, <1>1, <2>1, <3>1 DEF Spawn, lvars
  <2>2. CASE detectTopology \/ SkipTest \/ PinAway \/ WaitReady
    BY Zenon, <1>2, <2>2 DEF detectTopology, SkipTest, PinAway, WaitReady, lvars
  <2>3. CASE Go \/ Join \/ Check
    BY Zenon, <1>2, <2>3 DEF Go, Join, Check, lvars
  <2> QED BY Zenon, <1>4, <2>1, <2>2, <2>3 DEF Coordinate
<1>5. CASE UNCHANGED vars
  BY Zenon, <1>2, <1>5 DEF vars, lvars
<1> QED BY Zenon, <1>3, <1>4, <1>5 DEF Next

LEMMA BenchLockInvariant == Spec => []LockInv
<1>1. Init => LockInv
  BY Zenon, LockInitInv DEF Init
<1> QED BY <1>1, RunInvariant, BenchLockInv, PTL DEF Spec

\* The locks exclude in the harness too, whatever program runs.
THEOREM BenchLockSafe == Spec => []MutualExclusion
<1>1. LockInv => MutualExclusion
  BY Zenon DEF LockInv
<1> QED BY <1>1, BenchLockInvariant, PTL

-----------------------------------------------------------------------------
(* The handoffs of runLock.                                                *)

\* The threads that have been the owner: each accounts for a handoff.
Owners == {t \in Bodies : n[t] > 0 \/ pc[t] = "unlock"}

\* An acquisition is counted before its handoff is.
HandoffInv ==
  /\ counter \in Nat /\ handoffs \in Nat /\ n \in [Threads -> Nat]
  /\ bench.program = "lock" =>
       /\ handoffs <= counter /\ \A t \in Threads : pc[t] = "owner" => handoffs < counter
       /\ \A t \in Threads : owner = t => t \in Owners
       /\ Cardinality(Owners) <= handoffs

LEMMA InitHandoffInv ==
  ASSUME Init
  PROVE  HandoffInv
<1>1. /\ counter = 0 /\ handoffs = 0 /\ n = [t \in Threads |-> 0] /\ owner = Nobody
      /\ pc = [t \in Threads |-> "unborn"]
  BY Zenon DEF Init, LockInit
<1>2. Bodies \subseteq Threads
  BY Zenon, InitRunInv DEF RunInv
<1>3. 0 \in Nat /\ ~(0 > 0) /\ 0 <= 0
  OBVIOUS
<1>4. \A t \in Threads : n[t] = 0 /\ pc[t] = "unborn" /\ owner # t
  BY Zenon, <1>1, SpinlockAssumption
<1>5. Owners = {}
  BY Zenon, <1>2, <1>3, <1>4 DEF Owners
<1>6. Cardinality(Owners) = 0
  BY Zenon, <1>5, FS_EmptySet
<1>7. n \in [Threads -> Nat]
  BY Zenon, <1>1, <1>3
<1> QED BY Zenon, <1>1, <1>3, <1>4, <1>6, <1>7 DEF HandoffInv

LEMMA HandoffIdle ==
  ASSUME HandoffInv, UNCHANGED <<pc, bench, counter, owner, handoffs, n>>
  PROVE  HandoffInv'
<1>1. Owners' = Owners
  BY Zenon DEF Owners, Bodies, Shares
<1> QED BY Zenon, <1>1 DEF HandoffInv

\* A step that neither comes to nor leaves the code that notes the owner.
LEMMA HandoffKeep ==
  ASSUME RunInv, HandoffInv, NEW t \in Threads, NEW from, NEW to \in Labels, Step(t, from, to),
         from \notin {"owner", "unlock"}, to \notin {"owner", "unlock"},
         UNCHANGED <<bench, counter, owner, handoffs, n>>
  PROVE  HandoffInv'
<1>0. pc \in [Threads -> Labels] /\ Bodies \subseteq Threads
  BY Zenon DEF RunInv
<1>1. pc[t] = from /\ pc'[t] = to /\ \A u \in Threads \ {t} : pc'[u] = pc[u]
  BY Zenon, <1>0, StepPc
<1>2. \A u \in Threads : (pc'[u] = "owner" <=> pc[u] = "owner") /\ (pc'[u] = "unlock" <=> pc[u] = "unlock")
  BY Zenon, <1>1
<1>3. Owners' = Owners
  <2>1. Bodies' = Bodies
    BY Zenon DEF Bodies, Shares
  <2>2. \A u \in Bodies : u \in Owners' <=> u \in Owners
    BY Zenon, <1>0, <1>2, <2>1 DEF Owners
  <2>3. Owners \subseteq Bodies /\ Owners' \subseteq Bodies
    BY Zenon, <2>1 DEF Owners
  <2> QED BY Zenon, <2>2, <2>3
<1> QED BY Zenon, <1>2, <1>3 DEF HandoffInv

LEMMA OwnersFinite ==
  ASSUME RunInv
  PROVE  IsFiniteSet(Owners) /\ Cardinality(Owners) \in Nat
<1>1. Shares - 1 \in Int
  <2>1. PICK m \in Nat : m = Shares
    BY Zenon, SharesType
  <2> QED BY <2>1
<1>2. IsFiniteSet(Bodies)
  BY <1>1, FS_Interval DEF Bodies
<1>3. Owners \subseteq Bodies
  BY Zenon DEF Owners
<1> QED BY Zenon, <1>2, <1>3, FS_Subset, FS_CardinalityType

LEMMA HandoffSection ==
  ASSUME RunInv, LockInv, HandoffInv, NEW t \in Threads, StoreCounter(t) \/ NoteOwner(t) \/ Unlock(t),
         UNCHANGED bench
  PROVE  HandoffInv'
<1>0. /\ pc \in [Threads -> Labels] /\ Bodies \subseteq Threads /\ Bodies' = Bodies
      /\ counter \in Nat /\ handoffs \in Nat /\ n \in [Threads -> Nat] /\ n[t] \in Nat
  BY Zenon DEF RunInv, HandoffInv, Bodies, Shares
<1>1. t \in Bodies
  <2>1. pc[t] # "unborn"
    BY Zenon DEF StoreCounter, NoteOwner, Unlock, Step
  <2>2. t \in 0 .. spawned - 1
    BY Zenon, <2>1 DEF RunInv
  <2> QED BY Zenon, <2>2, SharesType
<1>2. \A u \in Threads : InSection(t) /\ u # t => ~InSection(u)
  BY Zenon DEF LockInv, MutualExclusion
<1>3. CASE StoreCounter(t)
  <2>1. pc[t] = "store" /\ pc'[t] = "owner" /\ \A u \in Threads \ {t} : pc'[u] = pc[u]
    BY Zenon, <1>0, <1>3, StepPc DEF StoreCounter, Labels, Work
  <2>2. counter' = counter + 1 /\ UNCHANGED <<owner, handoffs, n>>
    BY Zenon, <1>3, <2>1 DEF StoreCounter, LockInv, NoLostUpdate
  <2>3. counter + 1 \in Nat /\ (handoffs <= counter => handoffs < counter + 1 /\ handoffs <= counter + 1)
    BY <1>0
  <2>4. \A u \in Bodies : u \in Owners' <=> u \in Owners
    BY Zenon, <1>0, <2>1, <2>2 DEF Owners
  <2>5. Owners' = Owners
    BY Zenon, <1>0, <2>4 DEF Owners
  <2> QED BY Zenon, <2>2, <2>3, <2>5 DEF HandoffInv
<1>4. CASE NoteOwner(t)
  <2>1. pc[t] = "owner" /\ pc'[t] = "unlock" /\ \A u \in Threads \ {t} : pc'[u] = pc[u]
    BY Zenon, <1>0, <1>4, StepPc DEF NoteOwner, Labels, Work
  <2>2. owner' = t /\ UNCHANGED <<counter, n>> /\ handoffs' = IF owner # t THEN handoffs + 1 ELSE handoffs
    BY Zenon, <1>4 DEF NoteOwner
  <2>3. \A u \in Threads : pc'[u] # "owner"
    BY Zenon, <1>2, <2>1 DEF InSection
  <2>4. t \in Owners'
    BY Zenon, <1>0, <1>1, <2>1 DEF Owners
  <2>5. \A u \in Bodies \ {t} : u \in Owners' <=> u \in Owners
    BY Zenon, <1>0, <2>1, <2>2 DEF Owners
  <2>6. Owners' = Owners \cup {t}
    <3>1. Owners \subseteq Bodies /\ Owners' \subseteq Bodies
      BY Zenon, <1>0 DEF Owners
    <3> QED BY Zenon, <1>1, <2>4, <2>5, <3>1
  <2>7. CASE owner = t
    <3>1. handoffs' = handoffs
      BY Zenon, <2>2, <2>7
    <3>2. bench.program = "lock" => Owners' = Owners
      BY Zenon, <2>6, <2>7 DEF HandoffInv
    <3> QED BY Zenon, <2>2, <2>3, <2>4, <3>1, <3>2 DEF HandoffInv
  <2>8. CASE owner # t
    <3>1. handoffs' = handoffs + 1 /\ handoffs + 1 \in Nat /\ (handoffs < counter => handoffs + 1 <= counter)
      <4>1. handoffs + 1 \in Nat /\ (handoffs < counter => handoffs + 1 <= counter)
        BY <1>0
      <4> QED BY Zenon, <2>2, <2>8, <4>1
    <3>2. Cardinality(Owners \cup {t}) \in Nat /\ (Cardinality(Owners) <= handoffs => Cardinality(Owners \cup {t}) <= handoffs + 1)
      <4>1. PICK c \in Nat : c = Cardinality(Owners)
        BY Zenon, OwnersFinite
      <4>2. Cardinality(Owners \cup {t}) = c \/ Cardinality(Owners \cup {t}) = c + 1
        <5>1. CASE t \in Owners
          <6>1. Owners \cup {t} = Owners
            BY Zenon, <5>1
          <6> QED BY Zenon, <4>1, <6>1
        <5>2. CASE t \notin Owners
          BY Zenon, <4>1, <5>2, OwnersFinite, FS_AddElement
        <5> QED BY Zenon, <5>1, <5>2
      <4>3. \A x : x = c \/ x = c + 1 => x \in Nat /\ (c <= handoffs => x <= handoffs + 1)
        BY <1>0
      <4> QED BY Zenon, <4>1, <4>2, <4>3
    <3> QED BY Zenon, <2>1, <2>2, <2>3, <2>4, <2>6, <3>1, <3>2 DEF HandoffInv
  <2> QED BY Zenon, <2>7, <2>8
<1>5. CASE Unlock(t)
  <2>1. pc[t] = "unlock" /\ pc'[t] = "loop" /\ \A u \in Threads \ {t} : pc'[u] = pc[u]
    BY Zenon, <1>0, <1>5, StepPc DEF Unlock, Labels, Work
  <2>2. n' = [n EXCEPT ![t] = n[t] + 1] /\ UNCHANGED <<counter, owner, handoffs>>
    BY Zenon, <1>5 DEF Unlock
  <2>3. n[t] + 1 \in Nat /\ n[t] + 1 > 0
    BY <1>0
  <2>4. n' \in [Threads -> Nat] /\ n'[t] > 0 /\ \A u \in Threads \ {t} : n'[u] = n[u]
    BY Zenon, <1>0, <2>2, <2>3
  <2>5. \A u \in Bodies : u \in Owners' <=> u \in Owners
    <3>1. t \in Owners /\ t \in Owners'
      BY Zenon, <1>0, <1>1, <2>1, <2>4 DEF Owners
    <3> QED BY Zenon, <1>0, <2>1, <2>4, <3>1 DEF Owners
  <2>6. Owners' = Owners
    BY Zenon, <1>0, <2>5 DEF Owners
  <2>7. \A u \in Threads : pc'[u] = "owner" => pc[u] = "owner"
    BY Zenon, <2>1
  <2> QED BY Zenon, <2>2, <2>4, <2>6, <2>7 DEF HandoffInv
<1> QED BY Zenon, <1>3, <1>4, <1>5

LEMMA NextHandoffInv == RunInv /\ LockInv /\ HandoffInv /\ [Next]_vars => HandoffInv'
<1> SUFFICES ASSUME RunInv, LockInv, HandoffInv, [Next]_vars PROVE HandoffInv'
  OBVIOUS
<1>0. Labels \ Sections \subseteq Labels \ {"owner", "unlock"} /\ {"load", "store"} \subseteq Labels
  BY Zenon DEF Labels, Work, Sections
<1>1. ASSUME NEW t \in Threads, ThreadStep(t), UNCHANGED hvars PROVE HandoffInv'
  <2>0. UNCHANGED bench
    BY Zenon, <1>1 DEF hvars
  <2>1. CASE StoreCounter(t) \/ NoteOwner(t) \/ Unlock(t)
    BY Zenon, <2>0, <2>1, HandoffSection
  <2>2. CASE Pin(t) \/ Ready(t) \/ Begin(t)
    BY Zenon, <2>0, <2>2, HandoffKeep DEF Pin, Ready, Begin, lvars, Labels, Work
  <2>3. CASE LoopTest(t) \/ Exchange(t) \/ Pause(t) \/ TtasSpin(t) \/ MutexLock(t) \/ LoadCounter(t)
    BY Zenon, <2>0, <2>3, HandoffKeep DEF LoopTest, Exchange, Pause, TtasSpin, MutexLock, LoadCounter, lvars, Labels, Work
  <2>4. CASE IndexGet(t) \/ UseLoad(t) \/ UseStore(t) \/ IndexEnd(t) \/ ThroughputEnd(t)
    BY Zenon, <2>0, <2>4, HandoffKeep DEF IndexGet, UseLoad, UseStore, IndexEnd, ThroughputEnd, lvars, Labels, Work
  <2>5. CASE bench.program # "lock" /\ (IndexPut(t) \/ Push(t) \/ Pop(t))
    <3>1. n' = [n EXCEPT ![t] = n[t] + 1] /\ UNCHANGED <<counter, handoffs>>
      BY Zenon, <2>5 DEF IndexPut, Push, Pop
    <3>2. n \in [Threads -> Nat] /\ n[t] \in Nat
      BY Zenon DEF HandoffInv
    <3>3. n[t] + 1 \in Nat
      BY <3>2
    <3>4. n' \in [Threads -> Nat]
      BY Zenon, <3>1, <3>2, <3>3
    <3> QED BY Zenon, <2>0, <2>5, <3>1, <3>4 DEF HandoffInv
  <2> QED BY Zenon, <1>1, <2>1, <2>2, <2>3, <2>4, <2>5 DEF ThreadStep, Body, LockStep
<1>2. CASE Coordinate /\ UNCHANGED hvars
  <2>0. UNCHANGED bench
    BY Zenon, <1>2 DEF hvars
  <2>1. CASE Spawn
    <3>1. spawned \in Threads
      BY Zenon, <1>2, <2>1, SpawnRunInv DEF hvars
    <3> QED BY Zenon, <2>0, <2>1, <3>1, HandoffKeep DEF Spawn, lvars, Labels, Work
  <2>2. CASE detectTopology \/ SkipTest \/ PinAway \/ WaitReady
    BY Zenon, <2>0, <2>2, HandoffIdle DEF detectTopology, SkipTest, PinAway, WaitReady, lvars
  <2>3. CASE Go \/ Join \/ Check
    BY Zenon, <2>0, <2>3, HandoffIdle DEF Go, Join, Check, lvars
  <2> QED BY Zenon, <1>2, <2>1, <2>2, <2>3 DEF Coordinate
<1>3. CASE UNCHANGED vars
  BY Zenon, <1>3, HandoffIdle DEF vars, lvars, hvars
<1> QED BY Zenon, <1>1, <1>2, <1>3 DEF Next

\* The handoffs that runLock reports are at least one for every thread that got
\* the lock and at most one for each acquisition: the part of ReportHonest that
\* is not about a sum.
THEOREM HandoffsAreCounted == Spec => []HandoffsCounted
<1>1. RunInv /\ HandoffInv => HandoffsCounted
  <2> SUFFICES ASSUME RunInv, HandoffInv, co = "done", bench.program = "lock"
               PROVE  Cardinality({t \in Bodies : n[t] > 0}) <= handoffs /\ handoffs <= counter
    BY Zenon DEF HandoffsCounted
  <2>1. \A t \in Bodies : pc[t] # "unlock"
    BY Zenon DEF RunInv
  <2>2. {t \in Bodies : n[t] > 0} = Owners
    BY Zenon, <2>1 DEF Owners
  <2> QED BY Zenon, <2>2 DEF HandoffInv
<1>2. Init => HandoffInv
  BY Zenon, InitHandoffInv
<1>3. Spec => []HandoffInv
  BY <1>2, NextHandoffInv, RunInvariant, BenchLockInvariant, PTL DEF Spec
<1> QED BY <1>1, <1>3, RunInvariant, PTL

-----------------------------------------------------------------------------
(* The cores.                                                              *)

\* The leaders found so far: each is the first CPU of its core, and every CPU
\* looked at has the core of one.
FirstOfCore(b) == \A a \in 0 .. b - 1 : machine.core[a + 1] # machine.core[b + 1]
Found ==
  /\ g_physCpus \in Seq(Nat) /\ \A j, k \in DOMAIN g_physCpus : g_physCpus[j] = g_physCpus[k] => j = k
  /\ \A k \in DOMAIN g_physCpus : g_physCpus[k] \in 0 .. probed - 1 /\ FirstOfCore(g_physCpus[k])
Readable == machine.unreadable = {} /\ machine.garbled = {}
TopologyInv ==
  /\ machine.core \in Seq(Nat) /\ probed \in Nat
  /\ co = "init" /\ Readable =>
       Found /\ \A c \in 0 .. probed - 1 : \E k \in DOMAIN g_physCpus : machine.core[g_physCpus[k] + 1] = machine.core[c + 1]
  /\ co # "init" /\ Readable => Found \/ g_physCpus = <<0>>

\* A thread that is pinned has the leader of its slot, the coordinator the last one.
Early == co \in {"init", "skipTest", "skipped"}
PinInv ==
  /\ DOMAIN cpu = Threads \cup {Coordinator}
  /\ Early => \A t \in Threads \cup {Coordinator} : cpu[t] = Unpinned
  /\ Readable /\ ~Early =>
       /\ Shares < Len(g_physCpus)
       /\ \A t \in Bodies : cpu[t] \in {Unpinned, g_physCpus[t + 1]}
       /\ cpu[Coordinator] \in {Unpinned, g_physCpus[Len(g_physCpus)]}

LEMMA MinIs ==
  ASSUME NEW S \in SUBSET Int, NEW x \in S, \A y \in S : x <= y
  PROVE  Min(S) = x
<1>1. \A z \in S : (\A y \in S : z <= y) => z = x
  <2> SUFFICES ASSUME NEW z \in S, z <= x PROVE z = x
    BY Zenon
  <2>1. x \in Int /\ z \in Int /\ x <= z
    BY Zenon
  <2> QED BY <2>1
<1> QED BY Zenon, <1>1 DEF Min

\* The leader of the CPU under the loop is one that is known, or the CPU itself.
LEMMA LeaderIs ==
  ASSUME TopologyInv, co = "init", Readable, probed < Len(machine.core)
  PROVE  \/ /\ Leader(machine, probed) \in Range(g_physCpus)
            /\ machine.core[Leader(machine, probed) + 1] = machine.core[probed + 1]
         \/ Leader(machine, probed) = probed /\ FirstOfCore(probed) /\ probed \notin Range(g_physCpus)
<1> DEFINE c == probed
           S == {b \in 0 .. c : machine.core[b + 1] = machine.core[c + 1]}
<1>0. /\ c \in Nat /\ Found /\ g_physCpus \in Seq(Nat)
      /\ \A b \in 0 .. c - 1 : \E k \in DOMAIN g_physCpus : machine.core[g_physCpus[k] + 1] = machine.core[b + 1]
  BY Zenon DEF TopologyInv, Found
<1>1. Leader(machine, c) = Min(S)
  BY Zenon DEF Leader, Readable
<1>2. /\ c \in 0 .. c /\ S \subseteq Int /\ \A b \in 0 .. c : b = c \/ b \in 0 .. c - 1
      /\ \A b \in 0 .. c - 1 : b \in 0 .. c
  BY <1>0
<1>3. CASE \E b \in 0 .. c - 1 : machine.core[b + 1] = machine.core[c + 1]
  <2>1. PICK k \in DOMAIN g_physCpus : machine.core[g_physCpus[k] + 1] = machine.core[c + 1]
    BY Zenon, <1>0, <1>3
  <2> DEFINE x == g_physCpus[k]
  <2>2. x \in 0 .. c - 1 /\ FirstOfCore(x) /\ machine.core[x + 1] = machine.core[c + 1]
    BY Zenon, <1>0, <2>1 DEF Found
  <2>3. x \in Range(g_physCpus)
    BY Zenon DEF Range
  <2> HIDE DEF x
  <2>4. x \in S
    BY Zenon, <1>2, <2>2
  <2>5. ASSUME NEW y \in S PROVE x <= y
    <3>1. y \in 0 .. c /\ machine.core[y + 1] = machine.core[x + 1]
      BY Zenon, <2>2
    <3>2. y \notin 0 .. x - 1
      BY Zenon, <2>2, <3>1 DEF FirstOfCore
    <3> QED BY <1>0, <2>2, <3>1, <3>2
  <2>6. Min(S) = x
    <3> HIDE DEF S
    <3> QED BY Zenon, <1>2, <2>4, <2>5, MinIs
  <2> QED BY Zenon, <1>1, <2>2, <2>3, <2>6
<1>4. CASE ~ \E b \in 0 .. c - 1 : machine.core[b + 1] = machine.core[c + 1]
  <2>1. FirstOfCore(c)
    BY Zenon, <1>4 DEF FirstOfCore
  <2>2. c \in S /\ \A y \in S : y = c
    BY Zenon, <1>2, <1>4
  <2>3. c <= c
    BY <1>0
  <2>4. Min(S) = c
    <3> HIDE DEF S
    <3> QED BY Zenon, <1>2, <2>2, <2>3, MinIs
  <2>5. c \notin Range(g_physCpus)
    <3>1. c \notin 0 .. c - 1
      BY <1>0
    <3> QED BY Zenon, <1>0, <3>1 DEF Found, Range
  <2> QED BY Zenon, <1>1, <2>1, <2>4, <2>5
<1> QED BY Zenon, <1>3, <1>4

LEMMA InitTopologyInv == Init => TopologyInv
<1> SUFFICES ASSUME Init PROVE TopologyInv
  OBVIOUS
<1>1. co = "init" /\ probed = 0 /\ g_physCpus = <<>> /\ \E c \in Configs : machine = c[1]
  BY Zenon DEF Init
<1>2. machine.core \in Seq(Nat)
  <2>1. PICK c \in Configs : machine = c[1]
    BY Zenon, <1>1
  <2> QED BY Zenon, <2>1, ConfigAssumption
<1>3. probed \in Nat /\ 0 .. probed - 1 = {} /\ g_physCpus \in Seq(Nat) /\ DOMAIN g_physCpus = {}
  BY <1>1
<1> QED BY Zenon, <1>1, <1>2, <1>3 DEF TopologyInv, Found

\* A leader is noted.
LEMMA NotedInv ==
  ASSUME TopologyInv, co = "init", Readable, probed < Len(machine.core), UNCHANGED machine,
         NoteLeader(Leader(machine, probed)), probed' = probed + 1
  PROVE  /\ Found'
         /\ \A c \in 0 .. probed' - 1 : \E k \in DOMAIN g_physCpus' :
               machine.core[g_physCpus'[k] + 1] = machine.core[c + 1]
<1> DEFINE g == g_physCpus
           p == probed
           x == Leader(machine, probed)
<1>0. /\ p \in Nat /\ Found /\ g \in Seq(Nat)
      /\ \A c \in 0 .. p - 1 : \E k \in DOMAIN g : machine.core[g[k] + 1] = machine.core[c + 1]
  BY Zenon DEF TopologyInv, Found
<1>1. /\ \A c \in 0 .. p - 1 : c \in 0 .. (p + 1) - 1
      /\ \A c \in 0 .. (p + 1) - 1 : c \in 0 .. p - 1 \/ c = p
      /\ p \in 0 .. (p + 1) - 1
  BY <1>0
<1>2. \A b : FirstOfCore(b)' <=> FirstOfCore(b)
  BY Zenon DEF FirstOfCore
<1>3. CASE x \in Range(g) /\ machine.core[x + 1] = machine.core[p + 1]
  <2>1. g_physCpus' = g
    BY Zenon, <1>3 DEF NoteLeader
  <2>2. Found'
    BY Zenon, <1>0, <1>1, <1>2, <2>1 DEF Found
  <2>3. \E k \in DOMAIN g : machine.core[g[k] + 1] = machine.core[p + 1]
    BY Zenon, <1>3 DEF Range
  <2> QED BY Zenon, <1>0, <1>1, <2>1, <2>2, <2>3
<1>4. CASE x = p /\ FirstOfCore(p) /\ p \notin Range(g)
  <2> DEFINE len == Len(g)
             h == Append(g, p)
  <2>1. g_physCpus' = h
    BY Zenon, <1>4 DEF NoteLeader
  <2>2. /\ len \in Nat /\ DOMAIN g = 1 .. len /\ h \in Seq(Nat) /\ DOMAIN h = 1 .. len + 1
        /\ h[len + 1] = p /\ \A k \in 1 .. len : h[k] = g[k]
    BY <1>0
  <2> HIDE DEF len, h
  <2>3. /\ len + 1 \in 1 .. len + 1 /\ \A k \in 1 .. len : k \in 1 .. len + 1
        /\ \A k \in 1 .. len + 1 : k \in 1 .. len \/ k = len + 1
    BY <2>2
  <2>4. \A k \in 1 .. len : g[k] # p
    BY Zenon, <1>4, <2>2 DEF Range
  <2>5. \A j, k \in DOMAIN h : h[j] = h[k] => j = k
    <3>1. \A j, k \in 1 .. len : h[j] = h[k] => j = k
      BY Zenon, <1>0, <2>2 DEF Found
    <3>2. \A k \in 1 .. len : h[k] # h[len + 1]
      BY Zenon, <2>2, <2>4
    <3> QED BY Zenon, <2>2, <2>3, <3>1, <3>2
  <2>6. \A k \in DOMAIN h : h[k] \in 0 .. (p + 1) - 1 /\ FirstOfCore(h[k])
    <3>1. \A k \in 1 .. len : h[k] \in 0 .. (p + 1) - 1 /\ FirstOfCore(h[k])
      BY Zenon, <1>0, <1>1, <2>2 DEF Found
    <3> QED BY Zenon, <1>1, <1>4, <2>2, <2>3, <3>1
  <2>7. Found'
    BY Zenon, <1>2, <2>1, <2>2, <2>5, <2>6 DEF Found
  <2>8. \A c \in 0 .. (p + 1) - 1 : \E k \in DOMAIN h : machine.core[h[k] + 1] = machine.core[c + 1]
    <3>1. \A c \in 0 .. p - 1 : \E k \in DOMAIN h : machine.core[h[k] + 1] = machine.core[c + 1]
      BY Zenon, <1>0, <2>2, <2>3
    <3>2. \E k \in DOMAIN h : machine.core[h[k] + 1] = machine.core[p + 1]
      BY Zenon, <2>2, <2>3
    <3> QED BY Zenon, <1>1, <3>1, <3>2
  <2> QED BY Zenon, <2>1, <2>7, <2>8
<1> QED BY Zenon, <1>3, <1>4, LeaderIs

LEMMA TopologyEnds ==
  ASSUME TopologyInv, co = "init", Readable, probed = Len(machine.core), UNCHANGED <<machine, probed>>,
         g_physCpus' = IF probed \in machine.unreadable \/ g_physCpus = <<>>
                       THEN [k \in 1 .. Max({1, Len(machine.core)}) |-> k - 1] ELSE g_physCpus
  PROVE  Found' \/ g_physCpus' = <<0>>
<1>0. /\ probed \in Nat /\ Found
      /\ \A c \in 0 .. probed - 1 : \E k \in DOMAIN g_physCpus : machine.core[g_physCpus[k] + 1] = machine.core[c + 1]
  BY Zenon DEF TopologyInv
<1>1. CASE g_physCpus # <<>>
  <2>1. g_physCpus' = g_physCpus
    BY Zenon, <1>1 DEF Readable
  <2> QED BY Zenon, <1>0, <2>1 DEF Found, FirstOfCore
<1>2. CASE g_physCpus = <<>>
  <2>1. probed = 0
    <3> SUFFICES ASSUME probed # 0 PROVE FALSE
      OBVIOUS
    <3>1. 0 \in 0 .. probed - 1
      BY <1>0
    <3>2. \E k \in DOMAIN g_physCpus : TRUE
      BY Zenon, <1>0, <3>1
    <3> QED BY <1>2, <3>2
  <2>2. Max({1, 0}) = 1
    <3>1. \A x \in {1, 0} : (\A y \in {1, 0} : x >= y) <=> x = 1
      OBVIOUS
    <3> QED BY Zenon, <3>1 DEF Max
  <2>3. g_physCpus' = [k \in 1 .. 1 |-> k - 1]
    <3>1. Len(machine.core) = 0
      BY Zenon, <2>1
    <3>2. g_physCpus' = [k \in 1 .. Max({1, Len(machine.core)}) |-> k - 1]
      BY Zenon, <1>2
    <3> QED BY Zenon, <2>2, <3>1, <3>2
  <2>4. [k \in 1 .. 1 |-> k - 1] = <<0>>
    OBVIOUS
  <2> QED BY Zenon, <2>3, <2>4
<1> QED BY Zenon, <1>1, <1>2

\* No other step touches the leaders.
LEMMA Later ==
  ASSUME [Next]_vars, ~detectTopology
  PROVE  /\ UNCHANGED <<machine, bench, probed, g_physCpus>>
         /\ co' = co \/ (co # "init" /\ co' # "init")
<1>1. ASSUME NEW t \in Threads, ThreadStep(t) PROVE UNCHANGED <<probed, g_physCpus, co>>
  <2>1. CASE Pin(t) \/ Ready(t) \/ Begin(t)
    BY Zenon, <2>1 DEF Pin, Ready, Begin, rvars
  <2>2. CASE Body(t)
    BY Zenon, <2>2 DEF Body, IndexGet, UseLoad, UseStore, IndexPut, IndexEnd, Push, Pop, ThroughputEnd, rvars
  <2> QED BY Zenon, <1>1, <2>1, <2>2 DEF ThreadStep
<1>2. ASSUME Coordinate PROVE UNCHANGED <<probed, g_physCpus>> /\ co # "init" /\ co' # "init"
  <2>1. CASE SkipTest \/ Spawn
    BY Zenon, <2>1 DEF SkipTest, Spawn
  <2>2. CASE PinAway \/ WaitReady \/ Go \/ Join \/ Check
    BY Zenon, <2>2 DEF PinAway, WaitReady, Go, Join, Check
  <2> QED BY Zenon, <1>2, <2>1, <2>2 DEF Coordinate
<1> QED BY Zenon, <1>1, <1>2 DEF Next, vars, hvars, rvars

LEMMA NextTopologyInv == TopologyInv /\ [Next]_vars => TopologyInv'
<1> SUFFICES ASSUME TopologyInv, [Next]_vars PROVE TopologyInv'
  OBVIOUS
<1>1. CASE ~detectTopology
  <2>1. /\ UNCHANGED <<machine, probed, g_physCpus>>
        /\ co' = co \/ (co # "init" /\ co' # "init")
    BY Zenon, <1>1, Later
  <2>2. (Readable' <=> Readable) /\ (Found' <=> Found)
    BY Zenon, <2>1 DEF Readable, Found, FirstOfCore
  <2> QED BY Zenon, <2>1, <2>2 DEF TopologyInv
<1>2. CASE detectTopology
  <2>0. UNCHANGED machine /\ co = "init"
    BY Zenon, <1>2 DEF detectTopology, Next, Coordinate, ThreadStep, vars, hvars
  <2>1. (Readable' <=> Readable) /\ machine'.core \in Seq(Nat)
    BY Zenon, <2>0 DEF Readable, TopologyInv
  <2>2. CASE /\ probed < Len(machine.core) /\ NoteLeader(Leader(machine, probed))
             /\ probed' = probed + 1 /\ co' = co
    <3>1. probed' \in Nat
      BY <2>2 DEF TopologyInv
    <3>2. Readable => /\ Found'
                      /\ \A c \in 0 .. probed' - 1 : \E k \in DOMAIN g_physCpus' :
                            machine.core[g_physCpus'[k] + 1] = machine.core[c + 1]
      BY Zenon, <2>0, <2>2, NotedInv
    <3> QED BY Zenon, <2>0, <2>1, <2>2, <3>1, <3>2 DEF TopologyInv
  <2>3. CASE /\ probed = Len(machine.core) \/ probed \in machine.unreadable
             /\ g_physCpus' = IF probed \in machine.unreadable \/ g_physCpus = <<>>
                              THEN [k \in 1 .. Max({1, Len(machine.core)}) |-> k - 1] ELSE g_physCpus
             /\ co' = "skipTest" /\ UNCHANGED probed
    <3>1. probed' \in Nat /\ co' # "init"
      BY Zenon, <2>3 DEF TopologyInv
    <3>2. Readable => Found' \/ g_physCpus' = <<0>>
      <4> SUFFICES ASSUME Readable PROVE Found' \/ g_physCpus' = <<0>>
        OBVIOUS
      <4>1. probed = Len(machine.core)
        BY Zenon, <2>3 DEF Readable
      <4>2. UNCHANGED <<machine, probed>>
        BY Zenon, <2>0, <2>3
      <4> QED BY Zenon, <2>0, <2>3, <4>1, <4>2, TopologyEnds
    <3> QED BY Zenon, <2>1, <3>1, <3>2 DEF TopologyInv
  <2> QED BY Zenon, <1>2, <2>2, <2>3 DEF detectTopology
<1> QED BY Zenon, <1>1, <1>2

LEMMA TopologyInvariant == Spec => []TopologyInv
BY InitTopologyInv, NextTopologyInv, PTL DEF Spec

LEMMA InitPinInv == Init => PinInv
BY Zenon DEF Init, PinInv, Early

LEMMA OutsideThreads == Coordinator \notin Threads
BY Zenon, SpinlockAssumption DEF Coordinator

\* A thread takes the leader of its slot, or stays as it was.
LEMMA PinnedIs ==
  ASSUME NEW m \in Nat, coreCount = m, NEW slot \in Nat, slot < m, NEW t, t \in DOMAIN cpu, pinToCore(t, slot)
  PROVE  /\ DOMAIN cpu' = DOMAIN cpu
         /\ cpu'[t] \in {cpu[t], g_physCpus[slot + 1]}
         /\ \A u \in DOMAIN cpu \ {t} : cpu'[u] = cpu[u]
<1>1. slot % m = slot
  OBVIOUS
<1>2. cpu' = [cpu EXCEPT ![t] = IF g_physCpus[slot + 1] \in machine.denied THEN cpu[t] ELSE g_physCpus[slot + 1]]
  BY Zenon, <1>1 DEF pinToCore
<1> QED BY Zenon, <1>2

LEMMA LeadersTyped ==
  ASSUME TopologyInv, Readable
  PROVE  g_physCpus \in Seq(Nat) /\ coreCount \in Nat
<1>1. Found \/ g_physCpus = <<0>>
  BY Zenon DEF TopologyInv
<1>2. g_physCpus \in Seq(Nat)
  <2>1. <<0>> \in Seq(Nat)
    OBVIOUS
  <2> QED BY Zenon, <1>1, <2>1 DEF Found
<1> QED BY <1>2 DEF coreCount

LEMMA NextPinInv == RunInv /\ TopologyInv /\ PinInv /\ [Next]_vars => PinInv'
<1> SUFFICES ASSUME RunInv, TopologyInv, PinInv, [Next]_vars PROVE PinInv'
  OBVIOUS
<1>1. CASE detectTopology
  BY Zenon, <1>1 DEF detectTopology, PinInv, Early
<1>2. CASE ~detectTopology
  <2>0. UNCHANGED <<machine, bench, g_physCpus>>
    BY Zenon, <1>2, Later
  <2>1. /\ (Readable' <=> Readable) /\ Shares' = Shares /\ Bodies' = Bodies
        /\ Shares \in Nat \ {0} /\ Bodies \subseteq Threads
    BY Zenon, <2>0, SharesType DEF Readable, Shares, Bodies, RunInv
  <2>2. ASSUME UNCHANGED cpu, Early' <=> Early PROVE PinInv'
    BY Zenon, <2>0, <2>1, <2>2 DEF PinInv
  <2>3. CASE SkipTest
    <3>1. /\ co = "skipTest" /\ co' = IF Shares + 1 > coreCount THEN "skipped" ELSE "spawn"
          /\ UNCHANGED cpu
      BY Zenon, <2>3 DEF SkipTest
    <3>2. \A t \in Threads \cup {Coordinator} : cpu[t] = Unpinned
      BY Zenon, <3>1 DEF PinInv, Early
    <3>3. Readable /\ co' # "skipped" => Shares < coreCount
      <4> SUFFICES ASSUME Readable, co' # "skipped" PROVE Shares < coreCount
        BY Zenon
      <4>1. coreCount \in Nat /\ ~(Shares + 1 > coreCount)
        BY Zenon, <3>1, LeadersTyped
      <4> QED BY <2>1, <4>1
    <3> QED BY Zenon, <2>0, <2>1, <3>1, <3>2, <3>3 DEF PinInv, Early, coreCount
  <2>4. CASE Spawn
    BY Zenon, <2>2, <2>4 DEF Spawn, Early
  <2>5. CASE WaitReady \/ Go \/ Check
    BY Zenon, <2>2, <2>5 DEF WaitReady, Go, Check, Early
  <2>6. CASE Join
    <3>1. ~Early /\ ~Early' /\ cpu' = [cpu EXCEPT ![Coordinator] = Unpinned]
      BY Zenon, <2>6 DEF Join, unpin, Early
    <3>2. /\ DOMAIN cpu' = DOMAIN cpu /\ cpu'[Coordinator] = Unpinned
          /\ \A t \in Bodies : cpu'[t] = cpu[t]
      BY Zenon, <2>1, <3>1, OutsideThreads DEF PinInv
    <3> QED BY Zenon, <2>0, <2>1, <3>1, <3>2 DEF PinInv
  <2>7. CASE PinAway
    <3>1. /\ ~Early /\ ~Early'
          /\ IF coreCount > Shares THEN pinToCore(Coordinator, coreCount - 1) ELSE UNCHANGED cpu
      BY Zenon, <2>7 DEF PinAway, Early
    <3>2. DOMAIN cpu' = DOMAIN cpu
      BY Zenon, <3>1 DEF pinToCore
    <3>3. ASSUME Readable
          PROVE  /\ \A t \in Bodies : cpu'[t] = cpu[t]
                 /\ cpu'[Coordinator] \in {cpu[Coordinator], g_physCpus[coreCount]}
      <4>1. PICK m \in Nat : m = coreCount
        BY Zenon, <3>3, LeadersTyped
      <4>2. Shares < m
        BY Zenon, <3>1, <3>3, <4>1 DEF PinInv, coreCount
      <4>3. m > Shares /\ m - 1 \in Nat /\ m - 1 < m /\ (m - 1) + 1 = m
        BY <2>1, <4>2
      <4>4. pinToCore(Coordinator, m - 1)
        BY Zenon, <3>1, <4>1, <4>3
      <4>5. Coordinator \in DOMAIN cpu
        BY Zenon DEF PinInv
      <4>6. /\ cpu'[Coordinator] \in {cpu[Coordinator], g_physCpus[(m - 1) + 1]}
            /\ \A u \in DOMAIN cpu \ {Coordinator} : cpu'[u] = cpu[u]
        BY Zenon, <4>1, <4>3, <4>4, <4>5, PinnedIs
      <4>7. \A t \in Bodies : t \in DOMAIN cpu \ {Coordinator}
        BY Zenon, <2>1, OutsideThreads DEF PinInv
      <4> QED BY Zenon, <4>1, <4>3, <4>6, <4>7
    <3> QED BY Zenon, <2>0, <2>1, <3>1, <3>2, <3>3 DEF PinInv, coreCount
  <2>8. ASSUME NEW t \in Threads, Pin(t) PROVE PinInv'
    <3>1. pinToCore(t, t) /\ pc[t] = "pin" /\ co' = co
      BY Zenon, <2>8 DEF Pin, Step
    <3>2. t \in 0 .. spawned - 1 /\ spawned \in Nat /\ spawned <= Shares
      BY Zenon, <3>1 DEF RunInv
    <3>3. t \in Nat /\ t < Shares /\ spawned # 0
      BY <2>1, <3>2
    <3>4. ~Early /\ ~Early'
      BY Zenon, <3>1, <3>3 DEF RunInv, Early
    <3>5. DOMAIN cpu' = DOMAIN cpu
      BY Zenon, <3>1 DEF pinToCore
    <3>6. ASSUME Readable
          PROVE  /\ cpu'[t] \in {cpu[t], g_physCpus[t + 1]}
                 /\ \A u \in DOMAIN cpu \ {t} : cpu'[u] = cpu[u]
      <4>1. PICK m \in Nat : m = coreCount
        BY Zenon, <3>6, LeadersTyped
      <4>2. Shares < m
        BY Zenon, <3>4, <3>6, <4>1 DEF PinInv, coreCount
      <4>3. t < m
        BY <2>1, <3>3, <4>2
      <4>4. t \in DOMAIN cpu
        BY Zenon DEF PinInv
      <4> QED BY Zenon, <3>1, <3>3, <4>1, <4>3, <4>4, PinnedIs
    <3>7. ASSUME Readable, NEW u \in Bodies PROVE cpu'[u] \in {Unpinned, g_physCpus[u + 1]}
      <4>1. cpu[u] \in {Unpinned, g_physCpus[u + 1]} /\ u \in DOMAIN cpu
        BY Zenon, <2>1, <3>4, <3>7 DEF PinInv
      <4> QED BY Zenon, <3>6, <3>7, <4>1
    <3>8. Readable => cpu'[Coordinator] = cpu[Coordinator]
      BY Zenon, <3>6, OutsideThreads DEF PinInv
    <3> QED BY Zenon, <2>0, <2>1, <3>4, <3>5, <3>7, <3>8 DEF PinInv
  <2>9. ASSUME NEW t \in Threads, ThreadStep(t), ~Pin(t) PROVE PinInv'
    <3>1. UNCHANGED <<cpu, co>>
      <4>1. CASE Ready(t) \/ Begin(t)
        BY Zenon, <4>1 DEF Ready, Begin, rvars
      <4>2. CASE Body(t)
        BY Zenon, <4>2 DEF Body, IndexGet, UseLoad, UseStore, IndexPut, IndexEnd, Push, Pop, ThroughputEnd, rvars
      <4> QED BY Zenon, <2>9, <4>1, <4>2 DEF ThreadStep
    <3> QED BY Zenon, <2>2, <3>1 DEF Early
  <2>10. CASE UNCHANGED vars
    BY Zenon, <2>2, <2>10 DEF vars, rvars, Early
  <2> QED BY Zenon, <1>2, <2>3, <2>4, <2>5, <2>6, <2>7, <2>8, <2>9, <2>10 DEF Next, Coordinate
<1> QED BY Zenon, <1>1, <1>2

LEMMA PinInvariant == Spec => []PinInv
BY RunInvariant, TopologyInvariant, InitPinInv, NextPinInv, PTL DEF Spec

\* Two leaders are CPUs of two cores.
LEMMA DistinctCores ==
  ASSUME Found, probed \in Nat, NEW j \in DOMAIN g_physCpus, NEW k \in DOMAIN g_physCpus, j # k
  PROVE  machine.core[g_physCpus[j] + 1] # machine.core[g_physCpus[k] + 1]
<1> DEFINE a == g_physCpus[j]
           b == g_physCpus[k]
<1>1. a \in 0 .. probed - 1 /\ b \in 0 .. probed - 1 /\ a # b /\ FirstOfCore(a) /\ FirstOfCore(b)
  BY Zenon DEF Found
<1> HIDE DEF a, b
<1>2. a \in 0 .. b - 1 \/ b \in 0 .. a - 1
  BY <1>1
<1>3. machine.core[a + 1] # machine.core[b + 1]
  BY Zenon, <1>1, <1>2 DEF FirstOfCore
<1> QED BY Zenon, <1>3 DEF a, b

\* Pinned threads never share a physical core while the clock runs, if the topology
\* could be read: detectTopology keeps one CPU of each core, and a configuration with
\* more threads than cores is skipped.
THEOREM PinnedThreadsOwnCores == Spec => []OwnCore
<1>1. RunInv /\ TopologyInv /\ PinInv => OwnCore
  <2> SUFFICES ASSUME RunInv, TopologyInv, PinInv, co = "join", Readable,
                      NEW t \in Bodies \cup {Coordinator}, NEW u \in Bodies \cup {Coordinator},
                      t # u, cpu[t] # Unpinned, cpu[u] # Unpinned
               PROVE  machine.core[cpu[t] + 1] # machine.core[cpu[u] + 1]
    BY Zenon DEF OwnCore, Readable
  <2>1. PICK m \in Nat : m = coreCount
    BY Zenon, LeadersTyped
  <2>2. PICK h \in Nat \ {0} : h = Shares
    BY Zenon, SharesType
  <2>3. h < m
    BY Zenon, <2>1, <2>2 DEF PinInv, Early, coreCount
  <2>4. Found /\ probed \in Nat
    <3>1. Len(<<0>>) = 1 /\ m # 1
      BY <2>2, <2>3
    <3>2. g_physCpus # <<0>>
      BY Zenon, <2>1, <3>1 DEF coreCount
    <3> QED BY Zenon, <3>2 DEF TopologyInv
  <2>5. DOMAIN g_physCpus = 1 .. m
    <3>1. g_physCpus \in Seq(Nat)
      BY Zenon, <2>4 DEF Found
    <3>2. Len(g_physCpus) = m
      BY Zenon, <2>1 DEF coreCount
    <3> QED BY <3>1, <3>2
  <2> DEFINE slot(v) == IF v = Coordinator THEN m ELSE v + 1
  <2>6. ASSUME NEW v \in Bodies \cup {Coordinator}, cpu[v] # Unpinned
        PROVE  cpu[v] = g_physCpus[slot(v)]
    BY Zenon, <2>1, <2>6 DEF PinInv, Early, coreCount
  <2>7. \A v \in Bodies : v \in 0 .. h - 1 /\ v # Coordinator
    BY Zenon, <2>2, OutsideThreads DEF Bodies, RunInv
  <2>8. \A v \in 0 .. h - 1 : v + 1 \in 1 .. m /\ v + 1 # m
    BY <2>2, <2>3
  <2>9. m \in 1 .. m
    BY <2>2, <2>3
  <2>10. \A v \in Bodies \cup {Coordinator} : slot(v) \in 1 .. m
    BY Zenon, <2>7, <2>8, <2>9
  <2>11. slot(t) # slot(u)
    <3>1. CASE t = Coordinator \/ u = Coordinator
      BY Zenon, <2>7, <2>8, <3>1
    <3>2. CASE t # Coordinator /\ u # Coordinator
      <4>1. t \in 0 .. h - 1 /\ u \in 0 .. h - 1
        BY Zenon, <2>7, <3>2
      <4>2. t + 1 # u + 1
        BY <4>1
      <4> QED BY Zenon, <3>2, <4>2
    <3> QED BY Zenon, <3>1, <3>2
  <2> HIDE DEF slot
  <2>12. machine.core[g_physCpus[slot(t)] + 1] # machine.core[g_physCpus[slot(u)] + 1]
    BY Zenon, <2>4, <2>5, <2>10, <2>11, DistinctCores
  <2>13. cpu[t] = g_physCpus[slot(t)] /\ cpu[u] = g_physCpus[slot(u)]
    BY Zenon, <2>6
  <2> QED BY Zenon, <2>12, <2>13
<1> QED BY <1>1, RunInvariant, TopologyInvariant, PinInvariant, PTL

================================================================================
