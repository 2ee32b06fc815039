---------------------------- MODULE SpscRingBuffer ----------------------------
(***************************************************************************)
(* Buffers/spscRingBuffer.hpp: rings with one producer and one consumer    *)
(* each, whose cursors are plain members of the thread that moves them and *)
(* whose slots are handed over by a flag.  As in AtomicRingBuffer, a       *)
(* payload is a value, Junk (a live object that means nothing) or Dead     *)
(* (destroyed storage), and a failed iteration of a spin loop stutters.    *)
(***************************************************************************)
EXTENDS Integers, Sequences

CONSTANTS
  Rings, Threads,
  Producer, Consumer,     \* Producer[r], Consumer[r]: the threads that use ring r
  BUFFER_SIZE,            \* BUFFER_SIZE[r]: template parameter of ring r
  TriviallyDestructible,  \* std::is_trivially_destructible_v<A>
  Throwing,               \* rings whose payload may throw when moved or constructed
  Junk, Dead

Slots(r) == 0 .. BUFFER_SIZE[r] - 1

ASSUME SpscAssumption ==
  /\ Producer \in [Rings -> Threads] /\ Consumer \in [Rings -> Threads]
  /\ \A r \in Rings : BUFFER_SIZE[r] \in Nat \ {0} /\ Producer[r] # Consumer[r]
  /\ TriviallyDestructible \in BOOLEAN /\ Throwing \subseteq Rings
  /\ Junk \notin Nat /\ Dead \notin Nat /\ Junk # Dead

VARIABLES
  ticket, data,           \* buffer[i].ticket and buffer[i].data of each ring
  lastWritten, lastRead,
  pc, call,               \* call[t]: ring, form and payload of the call t is in
  given, sent, got,       \* history: arguments of enqueue, published, moved out
  begun,                  \* history: dequeues begun
  thrown                  \* history: calls that ended in an exception

ring  == <<ticket, data, lastWritten, lastRead>>
hist  == <<given, sent, got, begun, thrown>>
rvars == <<ring, pc, call, hist>>

NoCall == [ring |-> CHOOSE r \in Rings : TRUE, form |-> "none", val |-> Junk]

RingInit ==
  /\ ticket = [r \in Rings |-> [i \in Slots(r) |-> 0]]
  /\ data = [r \in Rings |-> [i \in Slots(r) |-> Junk]]
  /\ lastWritten = [r \in Rings |-> 0] /\ lastRead = [r \in Rings |-> 0]
  /\ pc = [t \in Threads |-> "idle"] /\ call = [t \in Threads |-> NoCall]
  /\ given = [r \in Rings |-> <<>>] /\ sent = [r \in Rings |-> <<>>]
  /\ got = [r \in Rings |-> <<>>] /\ begun = [r \in Rings |-> 0]
  /\ thrown = [r \in Rings |-> {}]

Step(t, from, to) == pc[t] = from /\ pc' = [pc EXCEPT ![t] = to]

\* if (cursor + 1 < BUFFER_SIZE) cursor += 1; else cursor = 0;
Advance_Mutant(r, c) == IF c + 2 < BUFFER_SIZE[r] THEN c + 1 ELSE 0
Advance(r, c) == IF c + 1 < BUFFER_SIZE[r] THEN c + 1 ELSE 0

\* The slot the call of thread t works on.
W(t) == lastWritten[call[t].ring]
R(t) == lastRead[call[t].ring]

SetData(r, i, v) == data' = [data EXCEPT ![r][i] = v]

-----------------------------------------------------------------------------
(* enqueue(A&&) and emplaceEnqueue(Args&&...).                             *)

EnqueueBegin(t, r, form, v) ==
  /\ t = Producer[r] /\ Step(t, "idle", "enqSpin")
  /\ lastWritten' = [lastWritten EXCEPT ![r] = Advance(r, @)]
  /\ call' = [call EXCEPT ![t] = [ring |-> r, form |-> form, val |-> v]]
  /\ given' = [given EXCEPT ![r] = Append(@, v)]
  /\ UNCHANGED <<ticket, data, lastRead, sent, got, begun, thrown>>

EnqueueEnterSlot_Mutant(t) ==
  /\ Step(t, "enqSpin", "enqWrite")
  /\ UNCHANGED <<ring, call, hist>>
EnqueueEnterSlot(t) ==
  /\ Step(t, "enqSpin", "enqWrite") /\ ticket[call[t].ring][W(t)] = 0
  /\ UNCHANGED <<ring, call, hist>>

\* data = std::move(data), or the placement new of a trivially destructible type
EnqueueWrite(t) ==
  /\ Step(t, "enqWrite", "enqPublish") /\ (call[t].form = "enqueue" \/ TriviallyDestructible)
  /\ SetData(call[t].ring, W(t), call[t].val)
  /\ UNCHANGED <<ticket, lastWritten, lastRead, call, hist>>

\* data.~A() and the placement new
EmplaceDestroy(t) ==
  /\ Step(t, "enqWrite", "emplace") /\ call[t].form = "emplace" /\ ~TriviallyDestructible
  /\ SetData(call[t].ring, W(t), Dead)
  /\ UNCHANGED <<ticket, lastWritten, lastRead, call, hist>>

EmplaceConstruct(t) ==
  /\ Step(t, "emplace", "enqPublish")
  /\ SetData(call[t].ring, W(t), call[t].val)
  /\ UNCHANGED <<ticket, lastWritten, lastRead, call, hist>>

EnqueuePublish(t) ==
  LET r == call[t].ring IN
  /\ Step(t, "enqPublish", "idle")
  /\ ticket' = [ticket EXCEPT ![r][W(t)] = 1]
  /\ sent' = [sent EXCEPT ![r] = Append(@, call[t].val)]
  /\ UNCHANGED <<data, lastWritten, lastRead, call, given, got, begun, thrown>>

-----------------------------------------------------------------------------
(* dequeue().                                                              *)

DequeueBegin(t, r) ==
  /\ t = Consumer[r] /\ Step(t, "idle", "deqSpin")
  /\ lastRead' = [lastRead EXCEPT ![r] = Advance(r, @)]
  /\ call' = [call EXCEPT ![t] = [ring |-> r, form |-> "dequeue", val |-> Junk]]
  /\ begun' = [begun EXCEPT ![r] = @ + 1]
  /\ UNCHANGED <<ticket, data, lastWritten, given, sent, got, thrown>>

DequeueEnterSlot(t) ==
  /\ Step(t, "deqSpin", "deqMove") /\ ticket[call[t].ring][R(t)] # 0
  /\ UNCHANGED <<ring, call, hist>>

DequeueMove(t) ==
  LET r == call[t].ring  v == data[r][R(t)] IN
  /\ Step(t, "deqMove", "deqRelease")
  /\ call' = [call EXCEPT ![t].val = v]
  /\ \E left \in {v, Junk} : SetData(r, R(t), left)
  /\ got' = [got EXCEPT ![r] = Append(@, v)]
  /\ UNCHANGED <<ticket, lastWritten, lastRead, given, sent, begun, thrown>>

DequeueRelease(t) ==
  /\ Step(t, "deqRelease", "idle")
  /\ ticket' = [ticket EXCEPT ![call[t].ring][R(t)] = 0]
  /\ UNCHANGED <<data, lastWritten, lastRead, call, hist>>

\* A payload operation throws: the call is over, its cursor has moved, and the
\* flag of the slot is as the call found it.
Throw(t) ==
  LET r == call[t].ring IN
  /\ r \in Throwing /\ pc[t] \in {"enqWrite", "emplace", "deqMove"}
  /\ pc[t] = "enqWrite" => call[t].form = "enqueue" \/ TriviallyDestructible
  /\ pc' = [pc EXCEPT ![t] = "idle"]
  /\ \/ pc[t] = "enqWrite" /\ SetData(r, W(t), Junk)
     \/ pc[t] = "emplace" /\ UNCHANGED data
     \/ pc[t] = "deqMove" /\ \E left \in {data[r][R(t)], Junk} : SetData(r, R(t), left)
  /\ thrown' = [thrown EXCEPT ![r] = @ \cup {IF pc[t] = "deqMove" THEN "dequeue" ELSE "enqueue"}]
  /\ UNCHANGED <<ticket, lastWritten, lastRead, call, given, sent, got, begun>>

Continue(t) ==
  \/ EnqueueEnterSlot(t) \/ EnqueueWrite(t) \/ EmplaceDestroy(t) \/ EmplaceConstruct(t)
  \/ EnqueuePublish(t)
  \/ DequeueEnterSlot(t) \/ DequeueMove(t) \/ DequeueRelease(t)

-----------------------------------------------------------------------------
(* Properties.                                                             *)

Enqueuing(t, r) == call[t].ring = r /\ pc[t] \in {"enqSpin", "enqWrite", "emplace", "enqPublish"}
Dequeuing(t, r) == call[t].ring = r /\ pc[t] \in {"deqSpin", "deqMove", "deqRelease"}

Writing(r) == Enqueuing(Producer[r], r) /\ pc[Producer[r]] # "enqSpin"
Reading(r) == Dequeuing(Consumer[r], r) /\ pc[Consumer[r]] # "deqSpin"

\* Producer and consumer are never inside the same slot, also after a call that
\* threw: the payload accesses of spscRingBuffer.hpp do not race.
SlotExclusive ==
  \A r \in Rings : Writing(r) /\ Reading(r) => lastWritten[r] # lastRead[r]

Elements(s) == {s[i] : i \in DOMAIN s}

\* The slots that hold a payload for the consumer.
Pending(r) ==
  {i \in Slots(r) : ticket[r][i] # 0 /\ ~(lastRead[r] = i /\ pc[Consumer[r]] = "deqRelease"
                                           /\ Dequeuing(Consumer[r], r))}

\* What was published and not yet moved out is in the ring, each payload in a
\* slot of its own: none is overwritten, also after an enqueue that threw.
PendingIntact ==
  \A r \in Rings : "dequeue" \notin thrown[r] =>
    {data[r][i] : i \in Pending(r)} = Elements(sent[r]) \ Elements(got[r])

=============================================================================
