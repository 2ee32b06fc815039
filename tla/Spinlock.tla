------------------------------- MODULE Spinlock -------------------------------
(***************************************************************************)
(* Atomic/spinlock.hpp, the locks that bench/SpinlockComparisonBench.cpp   *)
(* compares it with, and the loop of that benchmark's runLock, which locks *)
(* and counts with plain increments until its time is over.                *)
(***************************************************************************)
EXTENDS Integers

CONSTANTS
  Threads,
  Nobody,            \* the initial owner, ~0u
  IntMax,            \* the largest int: the backoff counts with an int to an int64_t
  MaxAcquisitions    \* bound on the turns of a thread's loop

ASSUME SpinlockAssumption ==
  Nobody \notin Threads /\ IntMax \in Nat /\ MaxAcquisitions \in Nat

VARIABLES
  kind,              \* "astra", "ttas" or "mutex" (std::mutex and pthread_spin_lock)
  waitTime,
  locked,            \* the atomic flag, or the state of the mutex
  i,                 \* the backoff counter
  pc,
  counter, owner, handoffs,   \* Shared
  reg,               \* the value ++counter has read
  n,                 \* acquisitions of a thread: n, and per[i].count
  sections           \* history: critical sections whose increment is stored

lvars == <<locked, i, counter, owner, handoffs, reg, n, sections>>

LockInit ==
  /\ locked = FALSE /\ i = [t \in Threads |-> 0]
  /\ counter = 0 /\ owner = Nobody /\ handoffs = 0 /\ sections = 0
  /\ reg = [t \in Threads |-> 0] /\ n = [t \in Threads |-> 0]

Step(t, from, to) == pc[t] = from /\ pc' = [pc EXCEPT ![t] = to]

-----------------------------------------------------------------------------
(* lock() and unlock().                                                    *)

\* exchange(true) of Spinlock and of TTAS.
Exchange_Mutant(t) ==
  /\ kind # "mutex" /\ locked' = TRUE
  /\ Step(t, "lock", "load") \/ (locked /\ Step(t, "lock", "backoff"))
  /\ i' = [i EXCEPT ![t] = 0]
  /\ UNCHANGED <<counter, owner, handoffs, reg, n, sections>>
Exchange(t) ==
  /\ kind # "mutex" /\ locked' = TRUE
  /\ (~locked /\ Step(t, "lock", "load")) \/ (locked /\ Step(t, "lock", "backoff"))
  /\ i' = [i EXCEPT ![t] = 0]
  /\ UNCHANGED <<counter, owner, handoffs, reg, n, sections>>

\* ++i overflows at IntMax: the build wraps it around, or keeps it in 64 bits.
Increment(x) == IF x = IntMax THEN {x + 1, -x - 1} ELSE {x + 1}

\* for (int i = 0; i < waitTime; ++i) _mm_pause();
Pause(t) ==
  /\ kind = "astra"
  /\ \/ i[t] >= waitTime /\ Step(t, "backoff", "lock") /\ UNCHANGED i
     \/ i[t] < waitTime /\ Step(t, "backoff", "backoff")
        /\ \E x \in Increment(i[t]) : i' = [i EXCEPT ![t] = x]
  /\ UNCHANGED <<locked, counter, owner, handoffs, reg, n, sections>>

\* while (f.load()) _mm_pause();
TtasSpin(t) ==
  /\ kind = "ttas" /\ ~locked /\ Step(t, "backoff", "lock")
  /\ UNCHANGED lvars

MutexLock(t) ==
  /\ kind = "mutex" /\ ~locked /\ locked' = TRUE /\ Step(t, "lock", "load")
  /\ UNCHANGED <<i, counter, owner, handoffs, reg, n, sections>>

Unlock_Mutant(t) ==
  /\ Step(t, "unlock", "loop") /\ n' = [n EXCEPT ![t] = n[t] + 1]
  /\ UNCHANGED <<locked, i, counter, owner, handoffs, reg, sections>>
Unlock(t) ==
  /\ Step(t, "unlock", "loop") /\ locked' = FALSE
  /\ n' = [n EXCEPT ![t] = n[t] + 1]
  /\ UNCHANGED <<i, counter, owner, handoffs, reg, sections>>

-----------------------------------------------------------------------------
(* The loop of runLock.                                                    *)

\* while (__rdtsc() < end)
LoopTest(t) ==
  /\ (n[t] < MaxAcquisitions /\ Step(t, "loop", "lock")) \/ Step(t, "loop", "finished")
  /\ UNCHANGED lvars

\* ++shared->counter, a load and a store.
LoadCounter(t) ==
  /\ Step(t, "load", "store") /\ reg' = [reg EXCEPT ![t] = counter]
  /\ UNCHANGED <<locked, i, counter, owner, handoffs, n, sections>>
StoreCounter(t) ==
  /\ Step(t, "store", "owner") /\ counter' = reg[t] + 1 /\ sections' = sections + 1
  /\ UNCHANGED <<locked, i, owner, handoffs, reg, n>>

\* if (shared->owner != i) { shared->owner = i; ++shared->handoffs; }
NoteOwner(t) ==
  /\ Step(t, "owner", "unlock") /\ owner' = t
  /\ handoffs' = IF owner # t THEN handoffs + 1 ELSE handoffs
  /\ UNCHANGED <<locked, i, counter, reg, n, sections>>

LockStep(t) ==
  \/ LoopTest(t) \/ Exchange(t) \/ Pause(t) \/ TtasSpin(t) \/ MutexLock(t)
  \/ LoadCounter(t) \/ StoreCounter(t) \/ NoteOwner(t) \/ Unlock(t)

\* Threads that run the loop from the start, without the harness.
LockSpec ==
  /\ LockInit /\ pc = [t \in Threads |-> "loop"]
  /\ kind \in {"astra", "ttas", "mutex"} /\ waitTime \in Int
  /\ [][\E t \in Threads : LockStep(t) /\ UNCHANGED <<kind, waitTime>>]_<<pc, lvars, kind, waitTime>>

-----------------------------------------------------------------------------
(* Properties.                                                             *)

InSection(t) == pc[t] \in {"load", "store", "owner", "unlock"}

(* Between lock() and unlock() a thread is alone: the flag is set exactly  *)
(* while one thread is there, whichever lock and whatever waitTime it has. *)
MutualExclusion ==
  /\ \A t, u \in Threads : InSection(t) /\ InSection(u) => t = u
  /\ locked <=> \E t \in Threads : InSection(t)

(* No increment of the plain counter is lost: it counts the critical       *)
(* sections, and the value a thread has read is still the current one when *)
(* it stores its successor.                                                *)
NoLostUpdate ==
  /\ counter = sections
  /\ \A t \in Threads : pc[t] = "store" => reg[t] = counter

=============================================================================
