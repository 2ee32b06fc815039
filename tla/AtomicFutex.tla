----------------------------- MODULE AtomicFutex -----------------------------
(***************************************************************************)
(* Atomic/atomicFutex.hpp: wait() sleeps until futex_val differs from what *)
(* it was when wait() was called; wake() changes futex_val and wakes one   *)
(* sleeper.  The kernel keeps the sleepers of a futex in the order they    *)
(* came (threads of equal priority) and may end a sleep without a          *)
(* FUTEX_WAKE.  futex_val is an int that wraps around.                     *)
(***************************************************************************)
EXTENDS Integers, Sequences, FiniteSets

CONSTANTS
  Waiters, Wakers,  \* threads that call wait() and wake()
  FutexBits,        \* width of futex_val
  MaxWakes          \* bound on the calls of wake()

Modulus == 2^FutexBits

ASSUME FutexAssumption ==
  IsFiniteSet(Waiters) /\ Waiters \cap Wakers = {} /\ Modulus \in Nat \ {0} /\ MaxWakes \in Nat

VARIABLES
  futex_val,
  sleepers,         \* kernel: threads blocked in FUTEX_WAIT, in order of arrival
  pc,
  expected,         \* local of wait()
  adds,             \* history: fetch_adds done so far
  at,               \* history: adds when t's wait() loaded, or just after w's fetch_add
  whole             \* history: calls of wake() that lie wholly after t's load

hist == <<adds, at, whole>>
vars == <<futex_val, sleepers, pc, expected, hist>>

Init ==
  /\ futex_val = 0 /\ sleepers = <<>>
  /\ pc = [t \in Waiters \cup Wakers |-> "idle"]
  /\ expected = [t \in Waiters |-> 0]
  /\ adds = 0 /\ at = [t \in Waiters \cup Wakers |-> 0] /\ whole = [t \in Waiters |-> 0]

Step(t, from, to) == pc[t] = from /\ pc' = [pc EXCEPT ![t] = to]

Remove(s, k) == [j \in 1 .. Len(s) - 1 |-> IF j < k THEN s[j] ELSE s[j + 1]]

-----------------------------------------------------------------------------
(* wait().                                                                 *)

WaitLoad(t) ==
  /\ Step(t, "idle", "wait")
  /\ expected' = [expected EXCEPT ![t] = futex_val]
  /\ at' = [at EXCEPT ![t] = adds] /\ whole' = [whole EXCEPT ![t] = 0]
  /\ UNCHANGED <<futex_val, sleepers, adds>>

\* FUTEX_WAIT compares and sleeps in one step, or fails with EAGAIN.
FutexWait_Mutant(t) ==
  /\ Step(t, "wait", "asleep") /\ sleepers' = Append(sleepers, t)
  /\ UNCHANGED <<futex_val, expected, hist>>
FutexWait(t) ==
  /\ \/ futex_val = expected[t] /\ Step(t, "wait", "asleep") /\ sleepers' = Append(sleepers, t)
     \/ futex_val # expected[t] /\ Step(t, "wait", "check") /\ UNCHANGED sleepers
  /\ UNCHANGED <<futex_val, expected, hist>>

\* The sleep ends without a FUTEX_WAKE: EINTR, or spuriously.
Interrupt(t) ==
  /\ Step(t, "asleep", "check")
  /\ \E k \in 1 .. Len(sleepers) : sleepers[k] = t /\ sleepers' = Remove(sleepers, k)
  /\ UNCHANGED <<futex_val, expected, hist>>

\* Any other error: wait() returns.
WaitError(t) ==
  /\ Step(t, "wait", "error")
  /\ UNCHANGED <<futex_val, sleepers, expected, hist>>

\* if (current != expected) break;
WaitCheck_Mutant(t) ==
  /\ Step(t, "check", "returned")
  /\ UNCHANGED <<futex_val, sleepers, expected, hist>>
WaitCheck_Mutant2(t) ==
  /\ \/ futex_val > expected[t] /\ Step(t, "check", "returned")
     \/ futex_val <= expected[t] /\ Step(t, "check", "wait")
  /\ UNCHANGED <<futex_val, sleepers, expected, hist>>
WaitCheck(t) ==
  /\ \/ futex_val # expected[t] /\ Step(t, "check", "returned")
     \/ futex_val = expected[t] /\ Step(t, "check", "wait")
  /\ UNCHANGED <<futex_val, sleepers, expected, hist>>

WaitReturn(t) ==
  /\ Step(t, "returned", "idle") \/ Step(t, "error", "idle")
  /\ UNCHANGED <<futex_val, sleepers, expected, hist>>

-----------------------------------------------------------------------------
(* wake().                                                                 *)

WakeAdd(w) ==
  /\ adds < MaxWakes /\ Step(w, "idle", "wake")
  /\ futex_val' = (futex_val + 1) % Modulus
  /\ adds' = adds + 1 /\ at' = [at EXCEPT ![w] = adds + 1]
  /\ UNCHANGED <<sleepers, expected, whole>>

\* FUTEX_WAKE with a count of one.
Woken == IF sleepers = <<>> THEN {} ELSE {Head(sleepers)}

FutexWake(w) ==
  /\ pc[w] = "wake"
  /\ sleepers' = IF sleepers = <<>> THEN <<>> ELSE Tail(sleepers)
  /\ pc' = [t \in DOMAIN pc |-> IF t = w THEN "idle" ELSE IF t \in Woken THEN "check" ELSE pc[t]]
  /\ whole' = [t \in Waiters |-> IF at[t] < at[w] THEN whole[t] + 1 ELSE whole[t]]
  /\ UNCHANGED <<futex_val, expected, adds, at>>

-----------------------------------------------------------------------------
WaiterStep(t) == FutexWait(t) \/ WaitCheck(t) \/ WaitReturn(t)

Next ==
  \/ \E t \in Waiters : WaitLoad(t) \/ WaiterStep(t) \/ Interrupt(t) \/ WaitError(t)
  \/ \E w \in Wakers : WakeAdd(w) \/ FutexWake(w)

\* A thread inside wait() and not asleep, or inside wake(), keeps being scheduled.
Spec ==
  /\ Init /\ [][Next]_vars
  /\ \A t \in Waiters : WF_vars(WaiterStep(t))
  /\ \A w \in Wakers : WF_vars(FutexWake(w))

-----------------------------------------------------------------------------
(* Properties.                                                             *)

PcValues == {"idle", "wait", "asleep", "check", "returned", "error", "wake"}

Queued(t) == \E k \in 1 .. Len(sleepers) : sleepers[k] = t
EachOnce == \A k, l \in 1 .. Len(sleepers) : sleepers[k] = sleepers[l] => k = l

\* Every variable has the type its declaration gives it, and the kernel's queue
\* holds the sleeping threads, each once.
TypeOK ==
  /\ futex_val \in 0 .. Modulus - 1 /\ expected \in [Waiters -> 0 .. Modulus - 1]
  /\ pc \in [Waiters \cup Wakers -> PcValues]
  /\ sleepers \in Seq(Waiters)
  /\ (\A t \in Waiters : pc[t] = "asleep" <=> Queued(t)) /\ EachOnce
  /\ adds \in Nat /\ at \in [Waiters \cup Wakers -> 0 .. adds] /\ whole \in [Waiters -> Nat]

InWait(t) == pc[t] \in {"wait", "asleep", "check"}
Since(t) == adds - at[t]

(* wait() returns without an error only if wake() changed futex_val after  *)
(* wait() loaded it: an interrupted or spurious sleep, and a FUTEX_WAKE    *)
(* meant for an earlier sleeper, send it back to sleep.                    *)
ReturnMeansWake == \A t \in Waiters : pc[t] = "returned" => Since(t) > 0

(* No wake-up is lost between the load and the sleep: a waiter is asleep   *)
(* while fewer calls of wake() lie wholly after its load than there are    *)
(* waiters, as every other waiter may have taken one, unless so many calls *)
(* came before it fell asleep that futex_val wrapped around to the value   *)
(* it had loaded.                                                          *)
NoWakeLost ==
  \A t \in Waiters : pc[t] = "asleep" /\ Since(t) < Modulus => whole[t] < Cardinality(Waiters)

(* A waiter that has been owed a release (as many whole calls of wake() as *)
(* there are waiters, fewer than it takes futex_val to wrap around)        *)
(* returns, whoever else waits.                                            *)
OwedWaiterReturns ==
  \A t \in Waiters :
    InWait(t) /\ whole[t] >= Cardinality(Waiters)
      ~> ~InWait(t) \/ Since(t) >= Modulus

=============================================================================
