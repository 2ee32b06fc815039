------------------------------ MODULE QueueBench ------------------------------
(***************************************************************************)
(* Clients of spscRingBuffer: the two measurements of                      *)
(* bench/QueueComparisonBench.cpp, with AstraSPSC as the queue, and the    *)
(* client that calls enqueue, emplaceEnqueue and dequeue as it likes.  The *)
(* k-th payload a producer makes up is the number k.                       *)
(***************************************************************************)
EXTENDS SpscRingBuffer

CONSTANTS
  Req, Rep,       \* req and rep of pingPong
  MaxItems        \* N of throughput, samples of pingPong, bound on other calls

\* The two threads of pingPong are at opposite ends of its two queues.
ASSUME PingPongAssumption ==
  /\ Req \in Rings /\ Rep \in Rings /\ Req # Rep
  /\ Producer[Rep] = Consumer[Req] /\ Consumer[Rep] = Producer[Req]
  /\ MaxItems \in Nat

VARIABLES
  program,        \* "calls", "throughput" or "pingPong"
  target          \* the ring that the first two of these use

vars == <<rvars, program, target>>

Init ==
  /\ RingInit
  /\ program \in {"calls", "throughput", "pingPong"}
  /\ target \in IF program = "pingPong" THEN {Req} ELSE Rings

\* for (k = 0; k < N; ++k) q->push(k + 1);   for (k = 0; k < N; ++k) s += q->pop();
Throughput(t) ==
  \/ Len(given[target]) < MaxItems /\ EnqueueBegin(t, target, "enqueue", Len(given[target]) + 1)
  \/ begun[target] < MaxItems /\ DequeueBegin(t, target)

\* Thread 0 pushes k + 1 to req and pops rep; thread 1 does rep->push(req->pop()).
PingPong_Mutant(t) ==
  LET asked == Len(given[Req])  answered == Len(given[Rep]) IN
  \/ asked = begun[Rep] /\ asked < MaxItems /\ DequeueBegin(t, Rep)
  \/ asked < begun[Rep] /\ EnqueueBegin(t, Req, "enqueue", asked + 1)
  \/ begun[Req] = answered /\ begun[Req] < MaxItems /\ DequeueBegin(t, Req)
  \/ begun[Req] > answered /\ EnqueueBegin(t, Rep, "enqueue", call[t].val)
PingPong(t) ==
  LET asked == Len(given[Req])  answered == Len(given[Rep]) IN
  \/ asked = begun[Rep] /\ asked < MaxItems /\ EnqueueBegin(t, Req, "enqueue", asked + 1)
  \/ asked > begun[Rep] /\ DequeueBegin(t, Rep)
  \/ begun[Req] = answered /\ begun[Req] < MaxItems /\ DequeueBegin(t, Req)
  \/ begun[Req] > answered /\ EnqueueBegin(t, Rep, "enqueue", call[t].val)

AnyCall(t) ==
  \/ /\ Len(given[target]) < MaxItems
     /\ \E form \in {"enqueue", "emplace"} : EnqueueBegin(t, target, form, Len(given[target]) + 1)
  \/ begun[target] < MaxItems /\ DequeueBegin(t, target)

BenchCall(t) ==
  \/ program = "throughput" /\ Throughput(t)
  \/ program = "pingPong" /\ PingPong(t)

Next ==
  /\ \E t \in Threads :
       \/ Continue(t) \/ BenchCall(t)
       \/ program = "calls" /\ (AnyCall(t) \/ Throw(t))
  /\ UNCHANGED <<program, target>>

\* A call in progress keeps being scheduled; the loops of the measurements go
\* on to their next call; the other client need not call at all.
Spec ==
  /\ Init /\ [][Next]_vars
  /\ \A t \in Threads : WF_vars(Continue(t) /\ UNCHANGED <<program, target>>)
                     /\ WF_vars(BenchCall(t) /\ UNCHANGED <<program, target>>)

-----------------------------------------------------------------------------
(* Properties.                                                             *)

\* Until a call throws, payloads come out in the order they went in; a round
\* trip brings back the number it sent, and at most one is under way.
InOrder ==
  /\ \A r \in Rings : thrown[r] = {} =>
       Len(got[r]) <= Len(sent[r]) /\ got[r] = SubSeq(sent[r], 1, Len(got[r]))
  /\ program = "pingPong" =>
       /\ Len(given[Req]) <= Len(got[Rep]) + 1
       /\ got[Rep] = SubSeq(given[Req], 1, Len(got[Rep]))

\* Both measurements end: a full or empty ring never stops both threads.
BenchFinishes ==
  program # "calls" ~>
    /\ Len(got[IF program = "pingPong" THEN Rep ELSE target]) = MaxItems
    /\ \A t \in Threads : pc[t] = "idle"

\* The ring Req as the queue of HandoffQueue: a call takes effect when it moves
\* its cursor and returns when it hands its slot on.
Nobody == Junk
Put == Len(given[Req])
Users == {Producer[Req], Consumer[Req]}
ItemsBar ==
  [j \in 1 .. Put - begun[Req] |->
     [val |-> given[Req][begun[Req] + j],
      by |-> IF begun[Req] + j = Put /\ Enqueuing(Producer[Req], Req) THEN Producer[Req] ELSE Nobody]]
StateBar ==
  [t \in Users |-> CASE Enqueuing(t, Req) -> "putting"
                     [] Dequeuing(t, Req) -> IF begun[Req] <= Put THEN "got" ELSE "waiting"
                     [] OTHER -> "idle"]
ResultBar ==
  [t \in Users |-> CASE Dequeuing(t, Req) /\ pc[t] = "deqRelease" -> call[t].val
                     [] Dequeuing(t, Req) /\ pc[t] # "deqRelease" /\ begun[Req] <= Put -> given[Req][begun[Req]]
                     [] OTHER -> Nobody]

Queue == INSTANCE HandoffQueue WITH
  Putters <- {Producer[Req]}, Getters <- {Consumer[Req]}, Capacity <- BUFFER_SIZE[Req],
  Values <- 1 .. MaxItems, items <- ItemsBar,
  waiters <- IF begun[Req] > Put THEN <<Consumer[Req]>> ELSE <<>>,
  state <- StateBar, result <- ResultBar

\* With a payload that does not throw the ring is a FIFO queue that holds
\* exactly BUFFER_SIZE items, and every call with a counterpart returns.
ImplementsHandoffQueue == Queue!Spec

=============================================================================
