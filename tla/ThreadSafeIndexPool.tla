-------------------------- MODULE ThreadSafeIndexPool --------------------------
(***************************************************************************)
(* Pools/threadSafeIndexPool.hpp on the ring of AtomicRingBuffer.tla, step *)
(* by step, under the workload of bench/IndexPoolComparisonBench.cpp: each *)
(* thread gets an index, increments a plain counter that belongs to it,    *)
(* and returns it.  The payloads of the ring are the indexes.              *)
(***************************************************************************)
EXTENDS AtomicRingBuffer, Functions

CONSTANT Pairs          \* get and return pairs of all threads together

VARIABLES
  step,                 \* what a thread does next: "get", "load", "store" or "return"
  idx, reg,             \* the index it was given, and its copy of the counter
  uses,                 \* data[i].uses
  begun, counted,       \* pairs begun, increments completed
  stale                 \* history: reInitializePool() was called with an index out

client == <<step, idx, reg, uses, begun, counted, stale>>
pvars  == <<vars, client>>

Indexes == 0 .. SIZE - 1

\* The ring is a ring of indexes, and has been filled with them.
ASSUME IndexAssumption ==
  Indexes \subseteq Values /\ "enqueue" \in Forms /\ SIZE <= MaxTickets

Holds(t, i) == step[t] # "get" /\ idx[t] = i

\* The buffer after initializeIndexes() has enqueued 0 .. SIZE - 1 into an empty
\* one: how the constructor and reInitializePool() leave it.
InitializeIndexes(sq, d, wt, rt) ==
  /\ sq = [i \in Slots |-> i + 1] /\ d = [i \in Slots |-> i]
  /\ wt = SIZE /\ rt = 0

InitialPut == [k \in Tickets |-> IF k < SIZE THEN k ELSE None]

PoolInit ==
  /\ InitializeIndexes(seq, data, writeTicket, readTicket)
  /\ batchDequeueArray = [i \in 0 .. BATCH_SIZE - 1 |-> Junk]
  /\ pc = [t \in Threads |-> "idle"] /\ call = [t \in Threads |-> "none"]
  /\ ticket = [t \in Threads |-> 0] /\ val = [t \in Threads |-> Junk]
  /\ batch = [t \in Threads |-> NoBatch]
  /\ put = InitialPut /\ pub = Indexes
  /\ got = [k \in Tickets |-> None] /\ sawItem = [t \in Threads |-> FALSE]
  /\ step = [t \in Threads |-> "get"] /\ idx = [t \in Threads |-> 0] /\ reg = [t \in Threads |-> 0]
  /\ uses = [i \in Indexes |-> 0] /\ begun = 0 /\ counted = 0 /\ stale = FALSE

Step(t, from, to) == step[t] = from /\ step' = [step EXCEPT ![t] = to]

\* getIndex(): a dequeue(), at the head of the loop of run()
GetIndex(t) ==
  /\ step[t] = "get" /\ begun < Pairs /\ DequeueClaim(t)
  /\ begun' = begun + 1
  /\ UNCHANGED <<step, idx, reg, uses, counted, stale>>

\* The ring goes on, and a dequeue that returns gives its index to the caller.
RingStep_Mutant(t) ==
  /\ Continue(t)
  /\ IF pc[t] = "deqMove"
       THEN Step(t, "get", "load") /\ idx' = [idx EXCEPT ![t] = val[t]]
       ELSE UNCHANGED <<step, idx>>
  /\ UNCHANGED <<reg, uses, begun, counted, stale>>
RingStep(t) ==
  /\ Continue(t)
  /\ IF pc[t] = "deqRelease"
       THEN Step(t, "get", "load") /\ idx' = [idx EXCEPT ![t] = val[t]]
       ELSE UNCHANGED <<step, idx>>
  /\ UNCHANGED <<reg, uses, begun, counted, stale>>

\* ++data[idx].uses
LoadUses(t) ==
  /\ Step(t, "load", "store")
  /\ reg' = [reg EXCEPT ![t] = uses[idx[t]]]
  /\ UNCHANGED <<vars, idx, uses, begun, counted, stale>>

StoreUses(t) ==
  /\ Step(t, "store", "return")
  /\ uses' = [uses EXCEPT ![idx[t]] = reg[t] + 1] /\ counted' = counted + 1
  /\ UNCHANGED <<vars, idx, reg, begun, stale>>

\* returnIndex(idx): an enqueue()
ReturnIndex(t) ==
  /\ Step(t, "return", "get") /\ EnqueueClaim(t, idx[t], "enqueue")
  /\ UNCHANGED <<idx, reg, uses, begun, counted, stale>>

\* reInitializePool(): clearBuffer() and initializeIndexes(), with no other
\* thread inside the pool.  Indexes that are out are not taken back.
ReInitializePool ==
  /\ Quiescent
  /\ InitializeIndexes(seq', data', writeTicket', readTicket')
  /\ put' = InitialPut /\ pub' = Indexes /\ got' = [k \in Tickets |-> None]
  /\ stale' = (stale \/ \E t \in Threads : step[t] # "get")
  /\ UNCHANGED <<batchDequeueArray, locals, sawItem, step, idx, reg, uses, begun, counted>>

Workload(t) == GetIndex(t) \/ RingStep(t) \/ LoadUses(t) \/ StoreUses(t) \/ ReturnIndex(t)

PoolNext == ReInitializePool \/ \E t \in Threads : Workload(t)

\* Every thread of the workload keeps being scheduled.
PoolSpec == PoolInit /\ [][PoolNext]_pvars /\ \A t \in Threads : WF_pvars(Workload(t))

-----------------------------------------------------------------------------
(* Properties.                                                             *)

\* Tickets whose index is in the pool or on its way in or out.
Inside(i) ==
  {k \in Tickets : /\ put[k] = i /\ k < writeTicket
                   /\ k >= readTicket \/ \E t \in Threads : Dequeuing(t) /\ ticket[t] = k}

\* Every index is in exactly one place, the pool or the hands of one thread,
\* unless reInitializePool() was called while an index was out; and no plain
\* increment of run() is overwritten: the copy about to be stored is current.
IndexInOnePlace ==
  ~stale =>
    /\ \A i \in Indexes :
         Cardinality(Inside(i)) + Cardinality({t \in Threads : Holds(t, i)}) = 1
    /\ \A t \in Threads : step[t] = "store" => reg[t] = uses[idx[t]]

\* returnIndex() never waits for room: what can hold it up is a getIndex() that
\* still works on the slot of the lap before.
ReturnNeverWaitsForRoom ==
  ~stale => \A t \in Threads : pc[t] = "enqSpin" /\ ~AdmitsWriter(ticket[t]) =>
    \E u \in Threads : Dequeuing(u) /\ ticket[u] + SIZE = ticket[t]

\* The workload ends, also when threads outnumber indexes, and the plain
\* counters add up as the check of run() demands.
WorkloadFinishes ==
  <>(stale \/ (/\ begun = Pairs /\ SumFunction(uses) = Pairs
               /\ \A t \in Threads : pc[t] = "idle" /\ step[t] = "get"))

=============================================================================
