--------------------------- MODULE AtomicRingBuffer ---------------------------
(***************************************************************************)
(* The MPMC ring buffer of Buffers/atomicRingBuffer.hpp at the granularity *)
(* of its atomic accesses.  A call claims a ticket with fetch_add, spins   *)
(* until the sequence number of its slot admits it, touches the payload,   *)
(* and hands the slot on with a store to the sequence number.  A failed    *)
(* iteration of a spin loop changes nothing and is a stuttering step.      *)
(*                                                                         *)
(* The payload is abstract: a member of Values, Junk for a live object     *)
(* whose value means nothing (default-initialised or moved from), or Dead  *)
(* for storage whose object was destroyed and not constructed again.       *)
(***************************************************************************)
EXTENDS Integers, FiniteSets

CONSTANTS
  Producers,              \* threads that call enqueue and emplaceEnqueue
  Consumers,              \* threads that call dequeue and batchDequeue
  Probers,                \* threads that call isEmpty
  Values,                 \* payloads
  Junk, Dead,             \* see above
  None,                   \* history: nothing put or got under a ticket yet
  SIZE,                   \* template parameter: number of slots
  BATCH_SIZE,             \* template parameter: length of batchDequeueArray
  SizeTBits,              \* width of std::size_t
  BatchCounts,            \* arguments given to batchDequeue (empty: not called)
  Forms,                  \* enqueue forms called: subset of {"enqueue", "emplace"}
  TriviallyDestructible,  \* std::is_trivially_destructible_v<A>
  MayThrow,               \* may the payload's copy, move or constructor throw?
  MaxTickets              \* bound on tickets between two calls of clearBuffer

Threads == Producers \cup Consumers \cup Probers
Slots   == 0 .. SIZE - 1
Tickets == 0 .. MaxTickets - 1

\* The static_asserts of the class: a power of two, at least 2.
ASSUME SizeAssumption ==
  SIZE \in Nat /\ SIZE >= 2 /\ \E k \in 1 .. SIZE : SIZE = 2^k

ASSUME ParameterAssumption ==
  /\ MaxTickets \in Nat
  /\ BATCH_SIZE \in Nat
  /\ SizeTBits \in Nat
  /\ BatchCounts \subseteq Int
  /\ Forms \subseteq {"enqueue", "emplace"}
  /\ TriviallyDestructible \in BOOLEAN
  /\ MayThrow \in BOOLEAN

\* The int given to batchDequeue is narrower than std::size_t, and a negative one
\* becomes a std::size_t above the length of the array.
ASSUME BatchAssumption ==
  /\ 2^SizeTBits \in Nat
  /\ \A n \in BatchCounts : n < 2^SizeTBits /\ BATCH_SIZE < n + 2^SizeTBits

ASSUME PayloadAssumption ==
  /\ Junk \notin Values /\ Dead \notin Values /\ Junk # Dead
  /\ None \notin Values \cup {Junk, Dead}

VARIABLES
  \* the object
  seq,                \* buffer[i].seq
  data,               \* buffer[i].data
  writeTicket, readTicket,
  batchDequeueArray,
  \* locals of the calls in progress
  pc,
  call,               \* which member function the thread is in
  ticket,             \* the ticket it claimed (isEmpty: the counter it loaded)
  val,                \* the payload it carries
  batch,              \* batchDequeue: its argument, clamped count and index
  \* history, read by no action
  put,                \* put[k]: payload given to the enqueue that claimed k
  pub,                \* write tickets whose slot was published
  got,                \* got[k]: payload moved out under read ticket k
  sawItem             \* isEmpty: items were unclaimed ever since it started

object  == <<seq, data, writeTicket, readTicket, batchDequeueArray>>
locals  == <<pc, call, ticket, val, batch>>
history == <<put, pub, got, sawItem>>
vars    == <<object, locals, history>>

\* ticket & (SIZE - 1), which is ticket % SIZE for a power of two.
Index(k) == k % SIZE

\* prepareBuffer(): slot i awaits the writer with ticket i.
PreparedSeq == [i \in Slots |-> i]

NoBatch == [asked |-> 0, count |-> 0, i |-> 0]

Goto(t, label) == pc' = [pc EXCEPT ![t] = label]

\* The call ends, by returning or by an exception, and its locals with it.
Return(t) ==
  /\ Goto(t, "idle")
  /\ call' = [call EXCEPT ![t] = "none"]
  /\ ticket' = [ticket EXCEPT ![t] = 0]
  /\ val' = [val EXCEPT ![t] = Junk]
  /\ batch' = [batch EXCEPT ![t] = NoBatch]

Init ==
  /\ seq = PreparedSeq
  /\ data = [i \in Slots |-> Junk]
  /\ writeTicket = 0 /\ readTicket = 0
  /\ batchDequeueArray = [i \in 0 .. BATCH_SIZE - 1 |-> Junk]
  /\ pc = [t \in Threads |-> "idle"]
  /\ call = [t \in Threads |-> "none"]
  /\ ticket = [t \in Threads |-> 0]
  /\ val = [t \in Threads |-> Junk]
  /\ batch = [t \in Threads |-> NoBatch]
  /\ put = [k \in Tickets |-> None]
  /\ pub = {}
  /\ got = [k \in Tickets |-> None]
  /\ sawItem = [t \in Threads |-> FALSE]

-----------------------------------------------------------------------------
(* enqueue(A&&), enqueue(const A&) and emplaceEnqueue(Args&&...).          *)

\* ticket = writeTicket.fetch_add(1)
EnqueueClaim(t, v, form) ==
  /\ t \in Producers /\ pc[t] = "idle" /\ writeTicket < MaxTickets
  /\ ticket' = [ticket EXCEPT ![t] = writeTicket]
  /\ writeTicket' = writeTicket + 1
  /\ val' = [val EXCEPT ![t] = v]
  /\ call' = [call EXCEPT ![t] = form]
  /\ put' = [put EXCEPT ![writeTicket] = v]
  /\ Goto(t, "enqSpin")
  /\ UNCHANGED <<seq, data, readTicket, batchDequeueArray, batch, pub, got, sawItem>>

\* while (seq != ticket) _mm_pause();
AdmitsWriter_Mutant(k) == seq[Index(k)] <= k
AdmitsWriter(k) == seq[Index(k)] = k

EnqueueEnterSlot(t) ==
  /\ pc[t] = "enqSpin" /\ AdmitsWriter(ticket[t])
  /\ Goto(t, "enqWrite")
  /\ UNCHANGED <<object, call, ticket, val, batch, history>>

\* buffer[index].data = data
EnqueueAssign(t) ==
  /\ pc[t] = "enqWrite" /\ call[t] = "enqueue"
  /\ data' = [data EXCEPT ![Index(ticket[t])] = val[t]]
  /\ Goto(t, "enqPublish")
  /\ UNCHANGED <<seq, writeTicket, readTicket, batchDequeueArray,
                 call, ticket, val, batch, history>>

\* buffer[index].data.~A(), only in the branch for types with a destructor
EmplaceDestroy_Mutant(t) ==
  /\ pc[t] = "enqWrite" /\ call[t] = "emplace" /\ ~TriviallyDestructible
  /\ data' = [data EXCEPT ![Index(ticket[t])] = Dead]
  /\ Goto(t, "enqPublish")
  /\ UNCHANGED <<seq, writeTicket, readTicket, batchDequeueArray,
                 call, ticket, val, batch, history>>
EmplaceDestroy(t) ==
  /\ pc[t] = "enqWrite" /\ call[t] = "emplace" /\ ~TriviallyDestructible
  /\ data' = [data EXCEPT ![Index(ticket[t])] = Dead]
  /\ Goto(t, "emplace")
  /\ UNCHANGED <<seq, writeTicket, readTicket, batchDequeueArray,
                 call, ticket, val, batch, history>>

\* new (&buffer[index].data) A(args...)
EmplaceConstruct(t) ==
  /\ \/ pc[t] = "emplace"
     \/ pc[t] = "enqWrite" /\ call[t] = "emplace" /\ TriviallyDestructible
  /\ data' = [data EXCEPT ![Index(ticket[t])] = val[t]]
  /\ Goto(t, "enqPublish")
  /\ UNCHANGED <<seq, writeTicket, readTicket, batchDequeueArray,
                 call, ticket, val, batch, history>>

\* buffer[index].seq.store(ticket + 1)
EnqueuePublish_Mutant(t) ==
  /\ pc[t] = "enqPublish"
  /\ Return(t)
  /\ UNCHANGED <<object, history>>
EnqueuePublish(t) ==
  /\ pc[t] = "enqPublish"
  /\ seq' = [seq EXCEPT ![Index(ticket[t])] = ticket[t] + 1]
  /\ pub' = pub \cup {ticket[t]}
  /\ Return(t)
  /\ UNCHANGED <<data, writeTicket, readTicket, batchDequeueArray, put, got, sawItem>>

-----------------------------------------------------------------------------
(* dequeue() and batchDequeue(count).                                      *)

\* ticket = readTicket.fetch_add(1)
ClaimRead(t) ==
  /\ readTicket < MaxTickets
  /\ ticket' = [ticket EXCEPT ![t] = readTicket]
  /\ readTicket' = readTicket + 1
  /\ sawItem' = [u \in Threads |-> sawItem[u] /\ writeTicket > readTicket']
  /\ Goto(t, "deqSpin")
  /\ UNCHANGED <<seq, data, writeTicket, batchDequeueArray, val, batch, put, pub, got>>

DequeueClaim(t) ==
  /\ t \in Consumers /\ pc[t] = "idle"
  /\ call' = [call EXCEPT ![t] = "dequeue"]
  /\ ClaimRead(t)

\* The comparison count > BATCH_SIZE converts the int to std::size_t.
ToSizeT(n) == n % 2^SizeTBits

Clamp_Mutant(n) == IF ToSizeT(n) >= BATCH_SIZE THEN BATCH_SIZE - 1 ELSE n
Clamp(n) == IF ToSizeT(n) > BATCH_SIZE THEN BATCH_SIZE ELSE n

BatchStart(t, n) ==
  /\ t \in Consumers /\ pc[t] = "idle"
  /\ call' = [call EXCEPT ![t] = "batch"]
  /\ batch' = [batch EXCEPT ![t] = [asked |-> n, count |-> Clamp(n), i |-> 0]]
  /\ Goto(t, "batchLoop")
  /\ UNCHANGED <<object, ticket, val, history>>

\* the head of the for loop: claim the next ticket or leave the loop
BatchClaim(t) ==
  /\ pc[t] = "batchLoop" /\ batch[t].i < batch[t].count
  /\ ClaimRead(t)
  /\ UNCHANGED call

BatchDone(t) ==
  /\ pc[t] = "batchLoop" /\ batch[t].i >= batch[t].count
  /\ Goto(t, "batchRet")
  /\ UNCHANGED <<object, call, ticket, val, batch, history>>

BatchReturn(t) ==
  /\ pc[t] = "batchRet"
  /\ Return(t)
  /\ UNCHANGED <<object, history>>

\* while (seq != ticket + 1) _mm_pause();
AdmitsReader_Mutant(k) == seq[Index(k)] >= k
AdmitsReader(k) == seq[Index(k)] = k + 1

DequeueEnterSlot(t) ==
  /\ pc[t] = "deqSpin" /\ AdmitsReader(ticket[t])
  /\ Goto(t, "deqMove")
  /\ UNCHANGED <<object, call, ticket, val, batch, history>>

\* std::move(buffer[index].data): the slot keeps its value or is moved from
DequeueMove(t) ==
  LET i == Index(ticket[t]) IN
  /\ pc[t] = "deqMove"
  /\ val' = [val EXCEPT ![t] = data[i]]
  /\ got' = [got EXCEPT ![ticket[t]] = data[i]]
  /\ \E left \in {data[i], Junk} : data' = [data EXCEPT ![i] = left]
  /\ batchDequeueArray' = IF call[t] = "batch"
                            THEN [batchDequeueArray EXCEPT ![batch[t].i] = data[i]]
                            ELSE batchDequeueArray
  /\ Goto(t, "deqRelease")
  /\ UNCHANGED <<seq, writeTicket, readTicket, call, ticket, batch, put, pub, sawItem>>

\* buffer[index].seq.store(ticket + SIZE)
NextLap_Mutant(k) == k + 1
NextLap(k) == k + SIZE

DequeueRelease(t) ==
  /\ pc[t] = "deqRelease"
  /\ seq' = [seq EXCEPT ![Index(ticket[t])] = NextLap(ticket[t])]
  /\ \/ /\ call[t] = "batch"
        /\ Goto(t, "batchLoop")
        /\ batch' = [batch EXCEPT ![t] =
                       [asked |-> @.asked, count |-> @.count, i |-> @.i + 1]]
        /\ UNCHANGED <<call, ticket, val>>
     \/ call[t] # "batch" /\ Return(t)
  /\ UNCHANGED <<data, writeTicket, readTicket, batchDequeueArray, history>>

-----------------------------------------------------------------------------
(* isEmpty(): two loads, in an order the language leaves unspecified.      *)

IsEmptyStart(t) ==
  /\ t \in Probers /\ pc[t] = "idle"
  /\ \/ ticket' = [ticket EXCEPT ![t] = writeTicket] /\ Goto(t, "emptyLoadRead")
     \/ ticket' = [ticket EXCEPT ![t] = readTicket] /\ Goto(t, "emptyLoadWrite")
  /\ sawItem' = [sawItem EXCEPT ![t] = writeTicket > readTicket]
  /\ UNCHANGED <<object, call, val, batch, put, pub, got>>

IsEmptyCompare_Mutant(t) ==
  /\ pc[t] \in {"emptyLoadRead", "emptyLoadWrite"}
  /\ Goto(t, IF AdmitsReader(readTicket) THEN "emptyFalse" ELSE "emptyTrue")
  /\ UNCHANGED <<object, call, ticket, val, batch, history>>
IsEmptyCompare(t) ==
  /\ \/ /\ pc[t] = "emptyLoadRead"
        /\ Goto(t, IF ticket[t] = readTicket THEN "emptyTrue" ELSE "emptyFalse")
     \/ /\ pc[t] = "emptyLoadWrite"
        /\ Goto(t, IF ticket[t] = writeTicket THEN "emptyTrue" ELSE "emptyFalse")
  /\ UNCHANGED <<object, call, ticket, val, batch, history>>

IsEmptyReturn(t) ==
  /\ pc[t] \in {"emptyTrue", "emptyFalse"}
  /\ Return(t)
  /\ sawItem' = [sawItem EXCEPT ![t] = FALSE]
  /\ UNCHANGED <<object, put, pub, got>>

-----------------------------------------------------------------------------
(* A payload operation throws: the exception leaves the member function,   *)
(* and the store to seq that would hand the slot on is never executed.     *)

Throw(t) ==
  LET i == Index(ticket[t]) IN
  /\ MayThrow
  /\ \/ pc[t] = "enqWrite" /\ (call[t] = "enqueue" \/ TriviallyDestructible)
        /\ data' = [data EXCEPT ![i] = Junk]
     \/ pc[t] = "emplace" /\ UNCHANGED data
     \/ pc[t] = "deqMove" /\ \E left \in {data[i], Junk} : data' = [data EXCEPT ![i] = left]
  /\ Return(t)
  /\ UNCHANGED <<seq, writeTicket, readTicket, batchDequeueArray, history>>

-----------------------------------------------------------------------------
(* Calls whose contract excludes every other thread, so that their steps   *)
(* are one step here: clearBuffer() needs a quiescent buffer, the pointer  *)
(* of claimPtrNoSync(index) is written through before any other call.      *)

Quiescent == \A t \in Threads : pc[t] = "idle"

ClearBuffer ==
  /\ Quiescent
  /\ writeTicket' = 0 /\ readTicket' = 0
  /\ seq' = PreparedSeq
  /\ put' = [k \in Tickets |-> None]
  /\ pub' = {}
  /\ got' = [k \in Tickets |-> None]
  /\ UNCHANGED <<data, batchDequeueArray, locals, sawItem>>

ClaimPtrNoSync(i, v) ==
  /\ Quiescent /\ writeTicket = 0 /\ readTicket = 0
  /\ data' = [data EXCEPT ![i] = v]
  /\ UNCHANGED <<seq, writeTicket, readTicket, batchDequeueArray, locals, history>>

-----------------------------------------------------------------------------
\* A thread calls a member function.
Call(t) ==
  \/ \E v \in Values, form \in Forms : EnqueueClaim(t, v, form)
  \/ DequeueClaim(t)
  \/ \E n \in BatchCounts : BatchStart(t, n)
  \/ IsEmptyStart(t)

\* The next step of the member function a thread is in.
Continue(t) ==
  \/ EnqueueEnterSlot(t) \/ EnqueueAssign(t)
  \/ EmplaceDestroy(t) \/ EmplaceConstruct(t) \/ EnqueuePublish(t)
  \/ BatchClaim(t) \/ BatchDone(t) \/ BatchReturn(t)
  \/ DequeueEnterSlot(t) \/ DequeueMove(t) \/ DequeueRelease(t)
  \/ IsEmptyCompare(t) \/ IsEmptyReturn(t)

Next ==
  \/ \E t \in Threads : Call(t) \/ Continue(t) \/ Throw(t)
  \/ ClearBuffer
  \/ \E i \in Slots, v \in Values : ClaimPtrNoSync(i, v)

Spec == Init /\ [][Next]_vars

\* Every thread inside a member function keeps being scheduled.
FairSpec == Spec /\ \A t \in Threads : WF_vars(Continue(t))

-----------------------------------------------------------------------------
(* Properties.                                                             *)

Enqueuing(t) == pc[t] \in {"enqSpin", "enqWrite", "emplace", "enqPublish"}
Dequeuing(t) == pc[t] \in {"deqSpin", "deqMove", "deqRelease"}

\* The thread is past its spin loop and has not handed the slot on.
OwnsSlot(t) == pc[t] \in {"enqWrite", "emplace", "enqPublish", "deqMove", "deqRelease"}

\* Tickets whose call ended in an exception.
AbandonedWrite(k) ==
  /\ k < writeTicket /\ k \notin pub
  /\ \A t \in Threads : ~(Enqueuing(t) /\ ticket[t] = k)
AbandonedRead(k) ==
  /\ k < readTicket
  /\ got[k] = None
  /\ \A t \in Threads : ~(Dequeuing(t) /\ ticket[t] = k)

Payloads == Values \cup {Junk, Dead}
Labels == {"idle", "enqSpin", "enqWrite", "emplace", "enqPublish",
           "deqSpin", "deqMove", "deqRelease", "batchLoop", "batchRet",
           "emptyLoadRead", "emptyLoadWrite", "emptyTrue", "emptyFalse"}

\* Every variable has the type the class and its locals give it; a sequence
\* number never runs more than a lap ahead of the tickets.
TypeOK ==
  /\ seq \in [Slots -> 0 .. MaxTickets + SIZE]
  /\ data \in [Slots -> Payloads]
  /\ writeTicket \in 0 .. MaxTickets
  /\ readTicket \in 0 .. MaxTickets
  /\ batchDequeueArray \in [0 .. BATCH_SIZE - 1 -> Payloads]
  /\ pc \in [Threads -> Labels]
  /\ call \in [Threads -> {"none", "enqueue", "emplace", "dequeue", "batch"}]
  /\ ticket \in [Threads -> 0 .. MaxTickets]
  /\ val \in [Threads -> Payloads]
  /\ batch \in [Threads -> [asked : Int, count : Int, i : Nat]]
  /\ put \in [Tickets -> Values \cup {None}]
  /\ pub \subseteq Tickets
  /\ got \in [Tickets -> Payloads \cup {None}]
  /\ sawItem \in [Threads -> BOOLEAN]

\* Between its spin loop and its store to seq a call has its slot to itself,
\* whichever mix of readers and writers, on whichever laps, is under way: the
\* payload accesses of atomicRingBuffer.hpp are not atomic and never race.
SlotExclusive ==
  \A t, u \in Threads :
    (t # u /\ OwnsSlot(t) /\ OwnsSlot(u)) => Index(ticket[t]) # Index(ticket[u])

\* The k-th dequeue returns exactly what the k-th enqueue was given: nothing
\* is lost, duplicated, reordered or read half-written.
Delivery == \A k \in Tickets : got[k] # None => got[k] = put[k]

\* A published payload stays in its slot, unaltered and admitting its reader,
\* until that reader moves it out: no later lap overwrites it.
PublishedIntact ==
  \A k \in pub :
    (got[k] = None /\ ~AbandonedRead(k)) => AdmitsReader(k) /\ data[Index(k)] = put[k]

\* No payload is assigned to or moved from storage whose object was destroyed:
\* only the emplaceEnqueue that destroyed it ever sees the gap.
NoDeadAccess ==
  \A t \in Threads :
    (pc[t] \in {"deqMove", "deqRelease", "enqPublish"} \/ (pc[t] = "enqWrite" /\ call[t] = "enqueue"))
      => data[Index(ticket[t])] # Dead

\* A call that ends in an exception after its claim wedges its slot: seq stays
\* as the call found it, so until clearBuffer() nobody passes that slot again.
ThrowWedgesSlot ==
  \A k \in Tickets :
    /\ AbandonedWrite(k) => AdmitsWriter(k)
    /\ AbandonedRead(k) /\ k \in pub => AdmitsReader(k)

\* batchDequeue hands back as many items as asked for, at most BATCH_SIZE, and
\* BATCH_SIZE of them for a negative count, which the comparison takes for a
\* large std::size_t; they are the items of consecutive tickets, in order.
BatchResult ==
  \A t \in Threads : pc[t] = "batchRet" =>
    /\ batch[t].i = IF batch[t].asked \in 0 .. BATCH_SIZE THEN batch[t].asked ELSE BATCH_SIZE
    /\ \A j \in 0 .. batch[t].i - 1 :
         batchDequeueArray[j] = put[ticket[t] - (batch[t].i - 1) + j]

\* isEmpty() answers true only if at some moment of the call no enqueue was
\* ahead of the dequeues; one that claimed but did not publish counts.  It
\* answers false to the sole consumer only while an item is there for it: a
\* dequeue called next finds an enqueue to wait for.
IsEmptyIsHonest ==
  \A t \in Threads :
    /\ pc[t] = "emptyTrue" => ~sawItem[t]
    /\ pc[t] = "emptyFalse" => writeTicket > readTicket

=============================================================================
