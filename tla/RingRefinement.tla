---------------------------- MODULE RingRefinement ----------------------------
(***************************************************************************)
(* AtomicRingBuffer implements HandoffQueue: the fetch_add of an enqueue   *)
(* is the abstract put, that of a dequeue the abstract get, and the store  *)
(* to seq that ends a call is its return.                                  *)
(***************************************************************************)
EXTENDS AtomicRingBuffer, Sequences

CONSTANT Nobody

ASSUME NobodyAssumption == Nobody \notin Producers \cup Consumers \cup Values \cup {Junk, Dead}

\* The part of f from a to b - 1 as a sequence.
Window(f, a, b) == [j \in 1 .. b - a |-> f[a + j - 1]]

\* The calls in progress under write ticket k and under read ticket k: one at most.
Writers(k) == {t \in Threads : Enqueuing(t) /\ ticket[t] = k}
Readers(k) == {t \in Threads : Dequeuing(t) /\ ticket[t] = k}

Sole(S) == IF S = {} THEN Nobody ELSE CHOOSE t \in S : TRUE

\* Tickets readTicket .. writeTicket - 1 are the items nobody asked for yet.
Item(k) == [val |-> put[k], by |-> Sole(Writers(k))]
ItemsBar == Window([k \in Tickets |-> Item(k)], readTicket, writeTicket)

\* Tickets writeTicket .. readTicket - 1 are the dequeues without an enqueue.
Waiter(k) == Sole(Readers(k))
WaitersBar == Window([k \in Tickets |-> Waiter(k)], writeTicket, readTicket)

StateOf(t) ==
  CASE Enqueuing(t) -> "putting"
    [] Dequeuing(t) /\ ticket[t] < writeTicket -> "got"
    [] Dequeuing(t) /\ ticket[t] >= writeTicket -> "waiting"
    [] OTHER -> "idle"
StateBar == [t \in Producers \cup Consumers |-> StateOf(t)]

\* The value a dequeue is owed, and once it has moved one out, that value.
ResultOf(t) ==
  CASE pc[t] = "deqRelease" -> val[t]
    [] pc[t] \in {"deqSpin", "deqMove"} /\ ticket[t] < writeTicket -> put[ticket[t]]
    [] OTHER -> Nobody
ResultBar == [t \in Producers \cup Consumers |-> ResultOf(t)]

Queue == INSTANCE HandoffQueue WITH
  Putters <- Producers, Getters <- Consumers, Capacity <- SIZE,
  items <- ItemsBar, waiters <- WaitersBar, state <- StateBar, result <- ResultBar

\* Seen from its callers the ring is a FIFO queue of capacity SIZE: each call
\* takes effect at its fetch_add, and every call with a counterpart returns.
ImplementsHandoffQueue == Queue!Spec

=============================================================================
