------------------------------ MODULE FutexProofs ------------------------------
(***************************************************************************)
(* For any number of waiters and wakers and any width of futex_val: wait() *)
(* returns only after a wake(), and no wake-up is lost.                    *)
(***************************************************************************)
EXTENDS AtomicFutex, SequenceTheorems, FiniteSetTheorems, TLAPS

\* The value of futex_val counts the fetch_adds, modulo its range.
Counts ==
  /\ futex_val = adds % Modulus
  /\ \A t \in Waiters : expected[t] = at[t] % Modulus

\* A wake() that lies wholly after a load implies a fetch_add after it.
WholeNeedsAdd == \A t \in Waiters : at[t] = adds => whole[t] = 0

\* Each whole wake() has moved a sleeper at least one place forward.
Owed ==
  \A k \in 1 .. Len(sleepers) :
    Since(sleepers[k]) < Modulus => whole[sleepers[k]] + k <= Cardinality(Waiters)

FutexInv == TypeOK /\ Counts /\ WholeNeedsAdd /\ Owed /\ ReturnMeansWake

-----------------------------------------------------------------------------
(* Arithmetic.                                                             *)

LEMMA ModRange ==
  ASSUME NEW M \in Nat \ {0}, NEW a \in Nat
  PROVE  a % M \in 0 .. M - 1 /\ a \div M \in Nat /\ a = M * (a \div M) + (a % M)
OBVIOUS

LEMMA MultipleBelow ==
  ASSUME NEW M \in Nat \ {0}, NEW d \in Int, -M < M * d, M * d < M
  PROVE  d = 0
<1>1. d >= 1 => M * d >= M * 1
  OBVIOUS
<1>2. d <= -1 => M * d <= M * (-1)
  OBVIOUS
<1> QED
  BY <1>1, <1>2

LEMMA ModUnique ==
  ASSUME NEW M \in Nat \ {0}, NEW q \in Nat, NEW r \in 0 .. M - 1
  PROVE  (M * q + r) % M = r
<1> DEFINE x == M * q + r
           p == x \div M
           s == x % M
<1>1. x \in Nat
  OBVIOUS
<1>2. s \in 0 .. M - 1 /\ p \in Nat /\ x = M * p + s
  BY Zenon, <1>1, ModRange
<1> HIDE DEF p, s
<1>3. M * (q - p) = s - r
  BY <1>2
<1>4. q - p = 0
  BY <1>2, <1>3, MultipleBelow
<1> QED
  BY <1>2, <1>3, <1>4 DEF s

\* The fetch_add of a wrapping counter.
LEMMA ModSucc ==
  ASSUME NEW M \in Nat \ {0}, NEW a \in Nat
  PROVE  ((a % M) + 1) % M = (a + 1) % M
<1> DEFINE q == a \div M
           r == a % M
<1>1. r \in 0 .. M - 1 /\ q \in Nat /\ a = M * q + r
  BY Zenon, ModRange
<1> HIDE DEF q, r
<1>2. CASE r + 1 < M
  <2>1. (r + 1) % M = r + 1
    BY <1>1, <1>2
  <2>2. a + 1 = M * q + (r + 1) /\ r + 1 \in 0 .. M - 1
    BY <1>1, <1>2
  <2> QED
    BY Zenon, <1>1, <2>1, <2>2, ModUnique DEF r
<1>3. CASE r + 1 = M
  <2>1. (r + 1) % M = 0
    BY <1>1, <1>3
  <2>2. a + 1 = M * (q + 1) + 0
    BY <1>1, <1>3
  <2>3. (a + 1) % M = 0
    BY <1>1, <2>2, ModUnique
  <2> QED
    BY Zenon, <2>1, <2>3 DEF r
<1> QED
  BY <1>1, <1>2, <1>3

\* Equal values of the counter less than a full turn apart are the same count.
LEMMA ModClose ==
  ASSUME NEW M \in Nat \ {0}, NEW a \in Nat, NEW b \in 0 .. a, a - b < M, a % M = b % M
  PROVE  a = b
<1> DEFINE p == a \div M
           q == b \div M
<1>0. b \in Nat
  OBVIOUS
<1>1. p \in Nat /\ q \in Nat /\ a = M * p + (a % M) /\ b = M * q + (b % M)
      /\ a % M \in Int /\ b % M \in Int
  <2>1. a % M \in 0 .. M - 1 /\ a \div M \in Nat /\ a = M * (a \div M) + (a % M)
    BY Zenon, ModRange
  <2>2. b % M \in 0 .. M - 1 /\ b \div M \in Nat /\ b = M * (b \div M) + (b % M)
    BY Zenon, <1>0, ModRange
  <2> QED
    BY <2>1, <2>2
<1> HIDE DEF p, q
<1>2. a - b = M * (p - q)
  BY <1>1
<1>3. p - q = 0
  BY <1>1, <1>2, MultipleBelow
<1> QED
  BY <1>1, <1>3

-----------------------------------------------------------------------------
(* The inductive invariant.                                                *)

LEMMA FutexInit == Init => FutexInv
<1> SUFFICES ASSUME Init PROVE FutexInv
  BY Zenon
<1>1. TypeOK
  BY FutexAssumption, EmptySeq DEF Init, TypeOK, PcValues, Queued, EachOnce
<1>2. Counts
  BY FutexAssumption DEF Init, Counts
<1> QED
  BY <1>1, <1>2 DEF Init, FutexInv, WholeNeedsAdd, Owed, ReturnMeansWake

\* A step of wait() that neither sleeps, wakes nor changes shared state.
LEMMA Plain ==
  ASSUME FutexInv, NEW t \in Waiters, NEW from, NEW to, Step(t, from, to), from # "asleep",
         to \in {"idle", "wait", "check", "returned", "error"},
         to = "returned" => futex_val # expected[t],
         UNCHANGED <<futex_val, sleepers, expected, hist>>
  PROVE  FutexInv'
<1>0. TypeOK /\ Counts /\ WholeNeedsAdd /\ Owed /\ ReturnMeansWake
  BY Zenon DEF FutexInv
<1>1. pc' \in [Waiters \cup Wakers -> PcValues]
      /\ (\A u \in Waiters : u # t => pc'[u] = pc[u])
      /\ pc[t] # "asleep" /\ pc'[t] = to
  BY Zenon, <1>0 DEF TypeOK, PcValues, Step
<1>2. TypeOK'
  <2>1. EachOnce' /\ \A u \in Waiters : Queued(u)' <=> Queued(u)
    BY Zenon, <1>0 DEF TypeOK, EachOnce, Queued
  <2>2. \A u \in Waiters : pc'[u] = "asleep" <=> Queued(u)'
    BY Zenon, <1>0, <1>1, <2>1 DEF TypeOK
  <2> QED
    BY Zenon, <1>0, <1>1, <2>1, <2>2 DEF TypeOK, hist
<1>3. ReturnMeansWake'
  <2>1. to = "returned" => adds # at[t]
    BY Zenon, <1>0 DEF Counts
  <2>2. adds \in Nat /\ \A u \in Waiters : at[u] \in 0 .. adds /\ Since(u)' = Since(u)
    BY Zenon, <1>0 DEF TypeOK, Since, hist
  <2>3. to = "returned" => Since(t) > 0
    BY <2>1, <2>2 DEF Since
  <2>4. \A u \in Waiters : pc'[u] = "returned" => Since(u) > 0
    BY Zenon, <1>0, <1>1, <2>3 DEF ReturnMeansWake
  <2> QED
    BY Zenon, <2>2, <2>4 DEF ReturnMeansWake
<1>4. Counts' /\ WholeNeedsAdd'
  BY Zenon, <1>0 DEF Counts, WholeNeedsAdd, hist
<1>5. Owed'
  BY Zenon, <1>0 DEF Owed, Since, hist
<1> QED
  BY Zenon, <1>2, <1>3, <1>4, <1>5 DEF FutexInv

LEMMA QueuedWaiters ==
  ASSUME TypeOK
  PROVE  Len(sleepers) \in Nat
         /\ \A k \in 1 .. Len(sleepers) : sleepers[k] \in Waiters /\ pc[sleepers[k]] = "asleep"
<1>1. sleepers \in Seq(Waiters)
  BY Zenon DEF TypeOK
<1>2. Len(sleepers) \in Nat /\ \A k \in 1 .. Len(sleepers) : sleepers[k] \in Waiters
  BY Zenon, <1>1, ElementOfSeq, LenProperties
<1>3. \A k \in 1 .. Len(sleepers) : Queued(sleepers[k])
  BY Zenon DEF Queued
<1> QED
  BY Zenon, <1>2, <1>3 DEF TypeOK

LEMMA LoadInv == ASSUME FutexInv, NEW t \in Waiters, WaitLoad(t) PROVE FutexInv'
<1>0. TypeOK /\ Counts /\ WholeNeedsAdd /\ Owed /\ ReturnMeansWake
  BY Zenon DEF FutexInv
<1>1. pc' \in [Waiters \cup Wakers -> PcValues]
      /\ (\A u \in Waiters : u # t => pc'[u] = pc[u])
      /\ pc[t] = "idle" /\ pc'[t] = "wait"
  BY Zenon, <1>0 DEF TypeOK, PcValues, Step, WaitLoad
<1>2. /\ expected' \in [Waiters -> 0 .. Modulus - 1] /\ expected'[t] = futex_val
      /\ at' \in [Waiters \cup Wakers -> 0 .. adds] /\ at'[t] = adds
      /\ whole' \in [Waiters -> Nat] /\ whole'[t] = 0
      /\ \A u \in Waiters : u # t => expected'[u] = expected[u] /\ at'[u] = at[u] /\ whole'[u] = whole[u]
  BY <1>0 DEF TypeOK, WaitLoad
<1>3. adds' = adds /\ futex_val' = futex_val /\ sleepers' = sleepers
  BY Zenon DEF WaitLoad
<1>4. TypeOK'
  <2>1. EachOnce' /\ \A u \in Waiters : Queued(u)' <=> Queued(u)
    BY Zenon, <1>0, <1>3 DEF TypeOK, EachOnce, Queued
  <2>2. \A u \in Waiters : pc'[u] = "asleep" <=> Queued(u)'
    BY Zenon, <1>0, <1>1, <2>1 DEF TypeOK
  <2> QED
    BY Zenon, <1>0, <1>1, <1>2, <1>3, <2>1, <2>2 DEF TypeOK
<1>5. Counts'
  BY Zenon, <1>0, <1>2, <1>3 DEF Counts
<1>6. WholeNeedsAdd'
  BY Zenon, <1>0, <1>2, <1>3 DEF WholeNeedsAdd
<1>7. ReturnMeansWake'
  BY Zenon, <1>0, <1>1, <1>2, <1>3 DEF ReturnMeansWake, Since
<1>8. Owed'
  <2>1. \A k \in 1 .. Len(sleepers) : sleepers[k] \in Waiters /\ sleepers[k] # t
    BY Zenon, <1>0, <1>1, QueuedWaiters
  <2> QED
    BY Zenon, <1>0, <1>2, <1>3, <2>1 DEF Owed, Since
<1> QED
  BY Zenon, <1>4, <1>5, <1>6, <1>7, <1>8 DEF FutexInv

\* A thread about to sleep finds room behind the others.
LEMMA RoomToSleep ==
  ASSUME FutexInv, NEW t \in Waiters, pc[t] # "asleep"
  PROVE  Cardinality(Waiters) \in Nat /\ Len(sleepers) + 1 <= Cardinality(Waiters)
<1> DEFINE S == 1 .. Len(sleepers)
           T == Waiters \ {t}
<1>1. Len(sleepers) \in Nat /\ \A k \in S : sleepers[k] \in T
  BY Zenon, QueuedWaiters DEF FutexInv
<1>2. IsFiniteSet(S) /\ Cardinality(S) = Len(sleepers)
  <2>1. IsFiniteSet(S) /\ Cardinality(S) = IF 1 > Len(sleepers) THEN 0 ELSE Len(sleepers) - 1 + 1
    <3>1. 1 \in Int /\ Len(sleepers) \in Int
      BY <1>1
    <3> QED
      BY Zenon, <3>1, FS_Interval
  <2> QED
    BY <1>1, <2>1
<1>3. IsFiniteSet(T) /\ Cardinality(T) = Cardinality(Waiters) - 1 /\ Cardinality(Waiters) \in Nat
  BY Zenon, FutexAssumption, FS_RemoveElement, FS_CardinalityType
<1>4. ~(Cardinality(S) > Cardinality(T))
  <2> SUFFICES ASSUME Cardinality(T) < Cardinality(S) PROVE FALSE
    BY Zenon, <1>1, <1>2, <1>3
  <2> DEFINE f == [k \in S |-> sleepers[k]]
  <2>1. f \in [S -> T]
    BY Zenon, <1>1
  <2>2. \E k, l \in S : k # l /\ f[k] = f[l]
    <3> HIDE DEF f, S, T
    <3> QED
      BY Zenon, <1>2, <1>3, <2>1, FS_PigeonHole
  <2> QED
    BY Zenon, <2>2 DEF FutexInv, TypeOK, EachOnce
<1> QED
  BY <1>1, <1>2, <1>3, <1>4

LEMMA SleepInv ==
  ASSUME FutexInv, NEW t \in Waiters, futex_val = expected[t], Step(t, "wait", "asleep"),
         sleepers' = Append(sleepers, t), UNCHANGED <<futex_val, expected, hist>>
  PROVE  FutexInv'
<1>0. TypeOK /\ Counts /\ WholeNeedsAdd /\ Owed /\ ReturnMeansWake
  BY Zenon DEF FutexInv
<1>1. pc' \in [Waiters \cup Wakers -> PcValues]
      /\ (\A u \in Waiters : u # t => pc'[u] = pc[u])
      /\ pc[t] = "wait" /\ pc'[t] = "asleep"
  BY Zenon, <1>0 DEF TypeOK, PcValues, Step
<1>2. Len(sleepers) \in Nat
      /\ \A k \in 1 .. Len(sleepers) : sleepers[k] \in Waiters /\ sleepers[k] # t
  BY Zenon, <1>0, <1>1, QueuedWaiters
<1>3. /\ sleepers' \in Seq(Waiters) /\ Len(sleepers') = Len(sleepers) + 1
      /\ sleepers'[Len(sleepers) + 1] = t
      /\ \A k \in 1 .. Len(sleepers) : sleepers'[k] = sleepers[k]
  BY <1>0, AppendProperties DEF TypeOK
<1>4. TypeOK'
  <2>1. EachOnce'
    <3>1. \A k, l \in 1 .. Len(sleepers) : sleepers[k] = sleepers[l] => k = l
      BY Zenon, <1>0 DEF TypeOK, EachOnce
    <3>2. 1 .. Len(sleepers') = (1 .. Len(sleepers)) \cup {Len(sleepers) + 1}
      BY <1>2, <1>3
    <3>3. \A k, l \in (1 .. Len(sleepers)) \cup {Len(sleepers) + 1} :
            sleepers'[k] = sleepers'[l] => k = l
      BY <1>2, <1>3, <3>1
    <3> QED
      BY Zenon, <3>2, <3>3 DEF EachOnce
  <2>2. \A u \in Waiters : Queued(u)' <=> Queued(u) \/ u = t
    BY <1>2, <1>3 DEF Queued
  <2>3. \A u \in Waiters : pc'[u] = "asleep" <=> Queued(u)'
    BY Zenon, <1>0, <1>1, <2>2 DEF TypeOK
  <2> QED
    BY Zenon, <1>0, <1>1, <1>3, <2>1, <2>3 DEF TypeOK, hist
<1>5. Counts' /\ WholeNeedsAdd'
  BY Zenon, <1>0 DEF Counts, WholeNeedsAdd, hist
<1>6. ReturnMeansWake'
  BY Zenon, <1>0, <1>1 DEF ReturnMeansWake, Since, hist
<1>7. Since(t) < Modulus => whole[t] = 0
  <2> SUFFICES ASSUME adds - at[t] < Modulus PROVE at[t] = adds
    BY Zenon, <1>0 DEF WholeNeedsAdd, Since
  <2>1. Modulus \in Nat \ {0} /\ adds \in Nat /\ at[t] \in 0 .. adds
    BY Zenon, <1>0, FutexAssumption DEF TypeOK
  <2>2. adds % Modulus = at[t] % Modulus
    BY Zenon, <1>0 DEF Counts
  <2> QED
    BY Zenon, <2>1, <2>2, ModClose
<1>8. Owed'
  <2>1. Cardinality(Waiters) \in Nat /\ Len(sleepers) + 1 <= Cardinality(Waiters)
    BY Zenon, <1>1, RoomToSleep
  <2>2. adds' = adds /\ at' = at /\ whole' = whole
    BY Zenon DEF hist
  <2> SUFFICES ASSUME NEW k \in 1 .. Len(sleepers) + 1, adds - at[sleepers'[k]] < Modulus
               PROVE  whole[sleepers'[k]] + k <= Cardinality(Waiters)
    BY Zenon, <1>3, <2>2 DEF Owed, Since
  <2>3. CASE k = Len(sleepers) + 1
    <3>1. whole[t] = 0 /\ sleepers'[k] = t
      BY Zenon, <1>3, <1>7, <2>3 DEF Since
    <3> QED
      BY <1>2, <2>1, <2>3, <3>1
  <2>4. CASE k \in 1 .. Len(sleepers)
    BY Zenon, <1>0, <1>3, <2>4 DEF Owed, Since
  <2> QED
    BY <1>2, <2>3, <2>4
<1> QED
  BY Zenon, <1>4, <1>5, <1>6, <1>8 DEF FutexInv

\* Taking one thread out of the kernel's queue.
LEMMA Dequeued ==
  ASSUME TypeOK, NEW k \in 1 .. Len(sleepers), sleepers' \in Seq(Waiters),
         Len(sleepers') = Len(sleepers) - 1,
         \A j \in 1 .. Len(sleepers) - 1 :
           sleepers'[j] = IF j < k THEN sleepers[j] ELSE sleepers[j + 1]
  PROVE  EachOnce' /\ \A u \in Waiters : Queued(u)' <=> Queued(u) /\ u # sleepers[k]
<1>1. Len(sleepers) \in Nat
  BY Zenon, QueuedWaiters
<1>2. EachOnce
  BY Zenon DEF TypeOK
<1>3. EachOnce'
  BY <1>1, <1>2 DEF EachOnce
<1>4. ASSUME NEW u \in Waiters, Queued(u), u # sleepers[k] PROVE Queued(u)'
  <2>1. PICK j \in 1 .. Len(sleepers) : sleepers[j] = u
    BY Zenon, <1>4 DEF Queued
  <2>2. CASE j < k
    BY <1>1, <2>1, <2>2 DEF Queued
  <2>3. CASE j > k
    <3>1. j - 1 \in 1 .. Len(sleepers) - 1 /\ ~(j - 1 < k) /\ (j - 1) + 1 = j
      BY <1>1, <2>3
    <3>2. sleepers'[j - 1] = u
      BY Zenon, <2>1, <3>1
    <3> QED
      BY Zenon, <3>1, <3>2 DEF Queued
  <2> QED
    BY <1>1, <1>4, <2>1, <2>2, <2>3
<1>5. ASSUME NEW u \in Waiters, Queued(u)' PROVE Queued(u) /\ u # sleepers[k]
  <2>1. PICK j \in 1 .. Len(sleepers) - 1 : sleepers'[j] = u
    BY Zenon, <1>5 DEF Queued
  <2>2. PICK i \in 1 .. Len(sleepers) : sleepers[i] = u /\ i # k
    BY <1>1, <2>1
  <2> QED
    BY Zenon, <1>2, <2>2 DEF Queued, EachOnce
<1> QED
  BY Zenon, <1>3, <1>4, <1>5

LEMMA InterruptInv == ASSUME FutexInv, NEW t \in Waiters, Interrupt(t) PROVE FutexInv'
<1>0. TypeOK /\ Counts /\ WholeNeedsAdd /\ Owed /\ ReturnMeansWake
  BY Zenon DEF FutexInv
<1>1. pc' \in [Waiters \cup Wakers -> PcValues]
      /\ (\A u \in Waiters : u # t => pc'[u] = pc[u])
      /\ pc[t] = "asleep" /\ pc'[t] = "check"
  BY Zenon, <1>0 DEF TypeOK, PcValues, Step, Interrupt
<1>2. PICK k \in 1 .. Len(sleepers) : sleepers[k] = t /\ sleepers' = Remove(sleepers, k)
  BY Zenon DEF Interrupt
<1>3. adds' = adds /\ at' = at /\ whole' = whole /\ futex_val' = futex_val /\ expected' = expected
  BY Zenon DEF Interrupt, hist
<1>4. Len(sleepers) \in Nat /\ \A j \in 1 .. Len(sleepers) : sleepers[j] \in Waiters
  BY Zenon, <1>0, QueuedWaiters
<1>5. /\ sleepers' \in Seq(Waiters) /\ Len(sleepers') = Len(sleepers) - 1
      /\ \A j \in 1 .. Len(sleepers) - 1 :
           sleepers'[j] = IF j < k THEN sleepers[j] ELSE sleepers[j + 1]
  <2>1. Len(sleepers) - 1 \in Nat
        /\ sleepers' = [j \in 1 .. Len(sleepers) - 1 |-> IF j < k THEN sleepers[j] ELSE sleepers[j + 1]]
    BY <1>2, <1>4 DEF Remove
  <2>2. \A j \in 1 .. Len(sleepers) - 1 : (IF j < k THEN sleepers[j] ELSE sleepers[j + 1]) \in Waiters
    BY <1>4
  <2> QED
    BY <2>1, <2>2
<1>6. TypeOK'
  <2>1. EachOnce' /\ \A u \in Waiters : Queued(u)' <=> Queued(u) /\ u # t
    BY Zenon, <1>0, <1>2, <1>5, Dequeued
  <2>2. \A u \in Waiters : pc'[u] = "asleep" <=> Queued(u)'
    BY Zenon, <1>0, <1>1, <2>1 DEF TypeOK
  <2> QED
    BY Zenon, <1>0, <1>1, <1>3, <1>5, <2>1, <2>2 DEF TypeOK
<1>7. Counts' /\ WholeNeedsAdd'
  BY Zenon, <1>0, <1>3 DEF Counts, WholeNeedsAdd
<1>8. ReturnMeansWake'
  BY Zenon, <1>0, <1>1, <1>3 DEF ReturnMeansWake, Since
<1>9. Owed'
  <2>1. Cardinality(Waiters) \in Nat /\ whole \in [Waiters -> Nat]
    BY Zenon, <1>0, FutexAssumption, FS_CardinalityType DEF TypeOK
  <2> SUFFICES ASSUME NEW j \in 1 .. Len(sleepers) - 1, adds - at[sleepers'[j]] < Modulus
               PROVE  whole[sleepers'[j]] + j <= Cardinality(Waiters)
    BY Zenon, <1>3, <1>5 DEF Owed, Since
  <2>2. PICK i \in 1 .. Len(sleepers) : i >= j /\ sleepers'[j] = sleepers[i]
    BY <1>4, <1>5
  <2>3. whole[sleepers[i]] + i <= Cardinality(Waiters)
    BY Zenon, <1>0, <2>2 DEF Owed, Since
  <2> QED
    BY <1>4, <2>1, <2>2, <2>3
<1> QED
  BY Zenon, <1>6, <1>7, <1>8, <1>9 DEF FutexInv

LEMMA AddInv == ASSUME FutexInv, NEW w \in Wakers, WakeAdd(w) PROVE FutexInv'
<1>0. TypeOK /\ Counts /\ WholeNeedsAdd /\ Owed /\ ReturnMeansWake
  BY Zenon DEF FutexInv
<1>1. pc' \in [Waiters \cup Wakers -> PcValues] /\ \A u \in Waiters : pc'[u] = pc[u]
  BY Zenon, <1>0, FutexAssumption DEF TypeOK, PcValues, Step, WakeAdd
<1>2. /\ adds \in Nat /\ adds' = adds + 1 /\ sleepers' = sleepers /\ expected' = expected /\ whole' = whole
      /\ at' \in [Waiters \cup Wakers -> 0 .. adds + 1]
      /\ \A u \in Waiters : at'[u] = at[u] /\ at[u] \in 0 .. adds
  BY <1>0, FutexAssumption DEF TypeOK, WakeAdd
<1>3. futex_val' = (adds + 1) % Modulus
  BY Zenon, <1>0, <1>2, FutexAssumption, ModSucc DEF Counts, WakeAdd
<1>4. TypeOK'
  <2>1. EachOnce' /\ \A u \in Waiters : Queued(u)' <=> Queued(u)
    BY Zenon, <1>0, <1>2 DEF TypeOK, EachOnce, Queued
  <2>2. \A u \in Waiters : pc'[u] = "asleep" <=> Queued(u)'
    BY Zenon, <1>0, <1>1, <2>1 DEF TypeOK
  <2>3. futex_val' \in 0 .. Modulus - 1
    BY <1>2, <1>3, FutexAssumption, ModRange
  <2> QED
    BY <1>0, <1>1, <1>2, <2>1, <2>2, <2>3 DEF TypeOK
<1>5. Counts'
  BY Zenon, <1>0, <1>2, <1>3 DEF Counts
<1>6. WholeNeedsAdd'
  BY <1>2 DEF WholeNeedsAdd
<1>7. ReturnMeansWake'
  BY <1>1, <1>2 DEF ReturnMeansWake, Since
<1>8. Owed'
  <2>1. \A k \in 1 .. Len(sleepers) : sleepers[k] \in Waiters
    BY Zenon, <1>0, QueuedWaiters
  <2>2. Modulus \in Nat
    BY Zenon, FutexAssumption
  <2> QED
    BY <1>0, <1>2, <2>1, <2>2 DEF Owed, Since
<1> QED
  BY Zenon, <1>4, <1>5, <1>6, <1>7, <1>8 DEF FutexInv

LEMMA WakeInv == ASSUME FutexInv, NEW w \in Wakers, FutexWake(w) PROVE FutexInv'
<1>0. TypeOK /\ Counts /\ WholeNeedsAdd /\ Owed /\ ReturnMeansWake
  BY Zenon DEF FutexInv
<1>1. pc' \in [Waiters \cup Wakers -> PcValues]
      /\ \A u \in Waiters : pc'[u] = IF u \in Woken THEN "check" ELSE pc[u]
  BY Zenon, <1>0, FutexAssumption DEF TypeOK, PcValues, FutexWake
<1>2. /\ adds' = adds /\ at' = at /\ futex_val' = futex_val /\ expected' = expected
      /\ whole' \in [Waiters -> Nat]
      /\ \A u \in Waiters : /\ whole'[u] = whole[u] \/ whole'[u] = whole[u] + 1
                            /\ at[u] = adds => whole'[u] = whole[u]
  BY <1>0, FutexAssumption DEF TypeOK, FutexWake
<1>3. Counts' /\ WholeNeedsAdd'
  BY Zenon, <1>0, <1>2 DEF Counts, WholeNeedsAdd
<1>4. ReturnMeansWake'
  BY Zenon, <1>0, <1>1, <1>2 DEF ReturnMeansWake, Since
<1>5. Len(sleepers) \in Nat /\ \A j \in 1 .. Len(sleepers) : sleepers[j] \in Waiters
  BY Zenon, <1>0, QueuedWaiters
<1>6. CASE sleepers = <<>>
  <2>1. sleepers' = <<>> /\ \A u \in Waiters : pc'[u] = pc[u]
    BY Zenon, <1>1, <1>6 DEF FutexWake, Woken
  <2>2. EachOnce' /\ \A u \in Waiters : Queued(u)' <=> Queued(u)
    BY <1>0, <1>6, <2>1 DEF TypeOK, EachOnce, Queued
  <2>3. \A u \in Waiters : pc'[u] = "asleep" <=> Queued(u)'
    BY Zenon, <1>0, <2>1, <2>2 DEF TypeOK
  <2>4. TypeOK'
    BY Zenon, <1>0, <1>1, <1>2, <1>6, <2>1, <2>2, <2>3 DEF TypeOK
  <2>5. Owed'
    BY <2>1, EmptySeq DEF Owed
  <2> QED
    BY Zenon, <1>3, <1>4, <2>4, <2>5 DEF FutexInv
<1>7. CASE sleepers # <<>>
  <2>1. /\ sleepers' \in Seq(Waiters) /\ Len(sleepers') = Len(sleepers) - 1
        /\ \A j \in 1 .. Len(sleepers) - 1 : sleepers'[j] = sleepers[j + 1]
        /\ 1 \in 1 .. Len(sleepers) /\ Woken = {sleepers[1]}
    BY <1>0, <1>5, <1>7, HeadTailProperties, EmptySeq DEF TypeOK, FutexWake, Woken
  <2>2. \A j \in 1 .. Len(sleepers) - 1 :
          sleepers'[j] = IF j < 1 THEN sleepers[j] ELSE sleepers[j + 1]
    BY <1>5, <2>1
  <2>3. EachOnce' /\ \A u \in Waiters : Queued(u)' <=> Queued(u) /\ u # sleepers[1]
    BY Zenon, <1>0, <2>1, <2>2, Dequeued
  <2>4. \A u \in Waiters : pc'[u] = "asleep" <=> Queued(u)'
    BY Zenon, <1>0, <1>1, <2>1, <2>3 DEF TypeOK
  <2>5. TypeOK'
    BY Zenon, <1>0, <1>1, <1>2, <2>1, <2>3, <2>4 DEF TypeOK
  <2>6. Owed'
    <3>1. Cardinality(Waiters) \in Nat /\ whole \in [Waiters -> Nat]
      BY Zenon, <1>0, FutexAssumption, FS_CardinalityType DEF TypeOK
    <3> SUFFICES ASSUME NEW j \in 1 .. Len(sleepers) - 1, adds - at[sleepers'[j]] < Modulus
                 PROVE  whole'[sleepers'[j]] + j <= Cardinality(Waiters)
      BY Zenon, <1>2, <2>1 DEF Owed, Since
    <3>2. j + 1 \in 1 .. Len(sleepers) /\ sleepers'[j] = sleepers[j + 1]
      BY <1>5, <2>1
    <3>3. whole[sleepers[j + 1]] + (j + 1) <= Cardinality(Waiters)
      BY Zenon, <1>0, <3>2 DEF Owed, Since
    <3>4. \A u \in Waiters : whole[u] \in Nat /\ whole'[u] \in Nat /\ whole'[u] <= whole[u] + 1
      BY <1>2, <3>1
    <3>5. sleepers[j + 1] \in Waiters /\ j \in Nat
      BY <1>5, <3>2
    <3> QED
      BY <3>1, <3>2, <3>3, <3>4, <3>5
  <2> QED
    BY Zenon, <1>3, <1>4, <2>5, <2>6 DEF FutexInv
<1> QED
  BY Zenon, <1>6, <1>7

LEMMA FutexNext == FutexInv /\ [Next]_vars => FutexInv'
<1> SUFFICES ASSUME FutexInv, [Next]_vars PROVE FutexInv'
  BY Zenon
<1>1. ASSUME NEW t \in Waiters, FutexWait(t) PROVE FutexInv'
  <2>1. CASE futex_val = expected[t] /\ Step(t, "wait", "asleep") /\ sleepers' = Append(sleepers, t)
    BY Zenon, <1>1, <2>1, SleepInv DEF FutexWait
  <2>2. CASE Step(t, "wait", "check") /\ UNCHANGED sleepers
    BY Zenon, <1>1, <2>2, Plain DEF FutexWait
  <2> QED
    BY Zenon, <1>1, <2>1, <2>2 DEF FutexWait
<1>2. ASSUME NEW t \in Waiters, WaitCheck(t) \/ WaitReturn(t) \/ WaitError(t) PROVE FutexInv'
  <2>1. UNCHANGED <<futex_val, sleepers, expected, hist>>
    BY Zenon, <1>2 DEF WaitCheck, WaitReturn, WaitError
  <2>2. CASE WaitCheck(t)
    BY Zenon, <2>1, <2>2, Plain DEF WaitCheck
  <2>3. CASE WaitReturn(t)
    BY Zenon, <2>1, <2>3, Plain DEF WaitReturn
  <2>4. CASE WaitError(t)
    BY Zenon, <2>1, <2>4, Plain DEF WaitError
  <2> QED
    BY Zenon, <1>2, <2>2, <2>3, <2>4
<1>3. CASE UNCHANGED vars
  <2>1. UNCHANGED <<futex_val, sleepers, pc, expected, adds, at, whole>>
    BY Zenon, <1>3 DEF vars, hist
  <2> QED
    BY Zenon, <2>1 DEF FutexInv, TypeOK, EachOnce, Queued, Counts, WholeNeedsAdd, Owed, ReturnMeansWake, Since
<1> QED
  BY Zenon, <1>1, <1>2, <1>3, LoadInv, InterruptInv, AddInv, WakeInv DEF Next, WaiterStep

\* wait() and wake() keep every variable in its type and the kernel's queue the
\* list of the sleeping threads, each once, for any number of threads.
THEOREM FutexTypes == Spec => []TypeOK
<1>1. FutexInv => TypeOK
  BY Zenon DEF FutexInv
<1> QED
  BY <1>1, FutexInit, FutexNext, PTL DEF Spec

\* wait() (atomicFutex.hpp:17-28) returns without an error only if a fetch_add of
\* wake() came after its load, whatever interrupts its sleeps.
THEOREM FutexReturns == Spec => []ReturnMeansWake
<1>1. FutexInv => ReturnMeansWake
  BY Zenon DEF FutexInv
<1> QED
  BY <1>1, FutexInit, FutexNext, PTL DEF Spec

\* The load of wait(), the fetch_add and the FUTEX_WAKE of wake() lose no wake-up,
\* for any number of waiters and wakers and any width of futex_val.
THEOREM FutexLosesNoWake == Spec => []NoWakeLost
<1>1. FutexInv => NoWakeLost
  <2> SUFFICES ASSUME FutexInv, NEW t \in Waiters, pc[t] = "asleep", Since(t) < Modulus
               PROVE  whole[t] < Cardinality(Waiters)
    BY Zenon DEF NoWakeLost
  <2>1. TypeOK /\ Owed
    BY Zenon DEF FutexInv
  <2>2. PICK k \in 1 .. Len(sleepers) : sleepers[k] = t
    BY Zenon, <2>1 DEF TypeOK, Queued
  <2>3. whole[t] + k <= Cardinality(Waiters)
    BY Zenon, <2>1, <2>2 DEF Owed
  <2>4. whole[t] \in Nat /\ Cardinality(Waiters) \in Nat /\ Len(sleepers) \in Nat
    BY Zenon, <2>1, QueuedWaiters, FutexAssumption, FS_CardinalityType DEF TypeOK
  <2> QED
    BY <2>2, <2>3, <2>4
<1> QED
  BY <1>1, FutexInit, FutexNext, PTL DEF Spec

=============================================================================
