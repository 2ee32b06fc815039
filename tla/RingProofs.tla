------------------------------ MODULE RingProofs ----------------------------
(* AtomicRingBuffer for every number of threads, slots and tickets: who owns a *)
(* slot, what the slots and the history hold, what dequeues deliver, and that  *)
(* the ring implements HandoffQueue.                                           *)
EXTENDS RingRefinement, TLAPS

-----------------------------------------------------------------------------
(* Slot arithmetic.                                                        *)

LEMMA IndexInSlots == \A k \in Nat : Index(k) \in Slots
BY SizeAssumption DEF Index, Slots

LEMMA IndexOfSlot == \A i \in Slots : Index(i) = i
BY SizeAssumption DEF Index, Slots

LEMMA IndexAtMost == \A k \in Nat : Index(k) <= k
BY SizeAssumption DEF Index, Slots

\* Division with remainder, and that a multiple of n is 0 or at least n away.
LEMMA DivMod ==
  ASSUME NEW n \in Nat, n > 0, NEW k \in Nat
  PROVE  /\ k \div n \in Int
         /\ k % n \in 0 .. n - 1
         /\ k = n * (k \div n) + (k % n)
OBVIOUS

LEMMA MultipleIsFar ==
  ASSUME NEW n \in Nat, NEW q \in Int, NEW r \in Int
  PROVE  \/ q = r
         \/ n * q >= n * r + n
         \/ n * r >= n * q + n
<1>1. CASE q = r
  BY Zenon, <1>1
<1>2. CASE q > r
  <2>1. PICK d \in Nat : q = r + 1 + d
    BY <1>2, q - r - 1 \in Nat
  <2>2. n * q = n * r + n + n * d
    BY <2>1
  <2>3. n * d \in Nat
    OBVIOUS
  <2> QED BY <2>2, <2>3
<1>3. CASE r > q
  <2>1. PICK d \in Nat : r = q + 1 + d
    BY <1>3, r - q - 1 \in Nat
  <2>2. n * r = n * q + n + n * d
    BY <2>1
  <2>3. n * d \in Nat
    OBVIOUS
  <2> QED BY <2>2, <2>3
<1> QED BY <1>1, <1>2, <1>3

LEMMA IndexNextDiffers == \A k \in Nat : Index(k + 1) # Index(k)
<1> SUFFICES ASSUME NEW k \in Nat, (k + 1) % SIZE = k % SIZE PROVE FALSE
  BY Zenon DEF Index
<1> DEFINE q == k \div SIZE
           r == (k + 1) \div SIZE
<1>1. q \in Int /\ k = SIZE * q + (k % SIZE) /\ k % SIZE \in 0 .. SIZE - 1
  BY SizeAssumption, DivMod
<1>2. r \in Int /\ k + 1 = SIZE * r + (k % SIZE)
  BY SizeAssumption, DivMod, k + 1 \in Nat
<1> HIDE DEF q, r
<1>3. q = r \/ SIZE * q >= SIZE * r + SIZE \/ SIZE * r >= SIZE * q + SIZE
  BY Zenon, <1>1, <1>2, MultipleIsFar, SizeAssumption
<1>4. SIZE * r = SIZE * q + 1
  BY <1>1, <1>2, SizeAssumption
<1>5. SIZE * q \in Int
  BY <1>1, SizeAssumption
<1> QED BY <1>3, <1>4, <1>5, SizeAssumption

LEMMA IndexNextLap == \A k \in Nat : Index(k + SIZE) = Index(k)
<1> SUFFICES ASSUME NEW k \in Nat PROVE (k + SIZE) % SIZE = k % SIZE
  BY Zenon DEF Index
<1> DEFINE q == k \div SIZE + 1
           r == (k + SIZE) \div SIZE
           a == k % SIZE
           b == (k + SIZE) % SIZE
<1>1. q \in Int /\ k + SIZE = SIZE * q + a /\ a \in 0 .. SIZE - 1
  BY SizeAssumption, DivMod
<1>2. r \in Int /\ k + SIZE = SIZE * r + b /\ b \in 0 .. SIZE - 1
  BY SizeAssumption, DivMod, k + SIZE \in Nat
<1> HIDE DEF q, r, a, b
<1>3. q = r \/ SIZE * q >= SIZE * r + SIZE \/ SIZE * r >= SIZE * q + SIZE
  BY Zenon, <1>1, <1>2, MultipleIsFar, SizeAssumption
<1>4. SIZE * r + b = SIZE * q + a
  BY Zenon, <1>1, <1>2
<1>5. SIZE * q \in Int /\ SIZE * r \in Int
  BY <1>1, <1>2, SizeAssumption
<1>6. a = b
  BY <1>1, <1>2, <1>3, <1>4, <1>5, SizeAssumption
<1> QED BY Zenon, <1>6 DEF a, b

\* The sequence number a reader leaves is no reader's: not even the next
\* lap's, whose writer comes first.
LEMMA IndexBeforeNextLap == \A k, j \in Nat : j + 1 = k + SIZE => Index(j) # Index(k)
BY Zenon, IndexNextDiffers, IndexNextLap

-----------------------------------------------------------------------------
(* Type correctness.                                                       *)

\* A call's ticket was handed out by the counter it came from.
TicketsClaimed ==
  \A t \in Threads :
    /\ Enqueuing(t) => ticket[t] < writeTicket
    /\ Dequeuing(t) => ticket[t] < readTicket

LEMMA InitTypes == Init => TypeOK /\ TicketsClaimed
BY SizeAssumption, ParameterAssumption, PayloadAssumption
   DEF Init, TypeOK, TicketsClaimed, PreparedSeq, NoBatch, Slots, Tickets, Payloads,
       Labels, Enqueuing, Dequeuing

\* A ticket of a call under way names a slot, and a history entry.
LEMMA TicketTypes ==
  ASSUME TypeOK, TicketsClaimed, NEW t \in Threads, Enqueuing(t) \/ Dequeuing(t)
  PROVE  ticket[t] \in Nat /\ ticket[t] \in Tickets /\ Index(ticket[t]) \in Slots
<1>1. ticket[t] \in 0 .. MaxTickets /\ ticket[t] < MaxTickets
  BY ParameterAssumption DEF TypeOK, TicketsClaimed
<1>2. ticket[t] \in Nat /\ ticket[t] \in Tickets
  BY <1>1, ParameterAssumption DEF Tickets
<1> QED BY Zenon, <1>2, IndexInSlots

\* What the end of a call does to the locals.
LEMMA ReturnLocals ==
  ASSUME TypeOK, NEW t \in Threads, Return(t)
  PROVE  /\ pc' \in [Threads -> Labels]
         /\ call' \in [Threads -> {"none", "enqueue", "emplace", "dequeue", "batch"}]
         /\ ticket' \in [Threads -> 0 .. MaxTickets]
         /\ val' \in [Threads -> Payloads]
         /\ batch' \in [Threads -> [asked : Int, count : Int, i : Nat]]
         /\ pc'[t] = "idle"
         /\ \A u \in Threads \ {t} :
              pc'[u] = pc[u] /\ ticket'[u] = ticket[u] /\ val'[u] = val[u] /\ call'[u] = call[u]
<1>1. NoBatch \in [asked : Int, count : Int, i : Nat]
  BY DEF NoBatch
<1>2. /\ pc' = [pc EXCEPT ![t] = "idle"] /\ call' = [call EXCEPT ![t] = "none"]
      /\ ticket' = [ticket EXCEPT ![t] = 0] /\ val' = [val EXCEPT ![t] = Junk]
      /\ batch' = [batch EXCEPT ![t] = NoBatch]
  BY Zenon DEF Return, Goto
<1>3. batch' \in [Threads -> [asked : Int, count : Int, i : Nat]]
  BY Zenon, <1>1, <1>2 DEF TypeOK
<1>4. /\ pc' \in [Threads -> Labels]
      /\ call' \in [Threads -> {"none", "enqueue", "emplace", "dequeue", "batch"}]
      /\ ticket' \in [Threads -> 0 .. MaxTickets]
      /\ val' \in [Threads -> Payloads]
  BY <1>2, ParameterAssumption DEF TypeOK, Labels, Payloads
<1>5. /\ pc'[t] = "idle"
      /\ \A u \in Threads \ {t} :
           pc'[u] = pc[u] /\ ticket'[u] = ticket[u] /\ val'[u] = val[u] /\ call'[u] = call[u]
  BY Zenon, <1>2 DEF TypeOK
<1> QED BY Zenon, <1>3, <1>4, <1>5

LEMMA NextTypes == TypeOK /\ TicketsClaimed /\ [Next]_vars => TypeOK' /\ TicketsClaimed'
<1> SUFFICES ASSUME TypeOK, TicketsClaimed, [Next]_vars
             PROVE  TypeOK' /\ TicketsClaimed'
  BY Zenon
<1> USE SizeAssumption, ParameterAssumption DEF TypeOK, TicketsClaimed, Enqueuing, Dequeuing
<1>1. ASSUME NEW t \in Threads, NEW v \in Values, NEW form \in Forms, EnqueueClaim(t, v, form)
      PROVE  TypeOK' /\ TicketsClaimed'
  BY <1>1 DEF EnqueueClaim, Goto, Payloads, Labels, Tickets
<1>2. ASSUME NEW t \in Threads, DequeueClaim(t)
      PROVE  TypeOK' /\ TicketsClaimed'
  BY <1>2 DEF DequeueClaim, ClaimRead, Goto, Labels
<1>3. ASSUME NEW t \in Threads, NEW n \in BatchCounts, BatchStart(t, n)
      PROVE  TypeOK' /\ TicketsClaimed'
  BY <1>3 DEF BatchStart, Clamp, Goto, Labels, object, history
<1>4. ASSUME NEW t \in Threads, IsEmptyStart(t)
      PROVE  TypeOK' /\ TicketsClaimed'
  <2>1. CASE ticket' = [ticket EXCEPT ![t] = writeTicket] /\ Goto(t, "emptyLoadRead")
    BY <1>4, <2>1 DEF IsEmptyStart, Goto, Labels, object
  <2>2. CASE ticket' = [ticket EXCEPT ![t] = readTicket] /\ Goto(t, "emptyLoadWrite")
    BY <1>4, <2>2 DEF IsEmptyStart, Goto, Labels, object
  <2>3. \/ ticket' = [ticket EXCEPT ![t] = writeTicket] /\ Goto(t, "emptyLoadRead")
        \/ ticket' = [ticket EXCEPT ![t] = readTicket] /\ Goto(t, "emptyLoadWrite")
    BY Zenon, <1>4 DEF IsEmptyStart
  <2> HIDE DEF TypeOK, TicketsClaimed
  <2> QED BY Zenon, <2>1, <2>2, <2>3
<1>5. ASSUME NEW t \in Threads, EnqueueEnterSlot(t)
      PROVE  TypeOK' /\ TicketsClaimed'
  BY Zenon, <1>5 DEF EnqueueEnterSlot, Goto, Labels, object, history
<1>6. ASSUME NEW t \in Threads, EnqueueAssign(t) \/ EmplaceDestroy(t) \/ EmplaceConstruct(t)
      PROVE  TypeOK' /\ TicketsClaimed'
  <2>1. data' \in [Slots -> Payloads]
    BY Zenon, <1>6 DEF EnqueueAssign, EmplaceDestroy, EmplaceConstruct, Payloads
  <2>2. /\ pc' \in [Threads -> Labels]
        /\ \A u \in Threads : (Enqueuing(u)' <=> Enqueuing(u)) /\ (Dequeuing(u)' <=> Dequeuing(u))
    BY <1>6, ZenonT(60) DEF EnqueueAssign, EmplaceDestroy, EmplaceConstruct, Goto, Labels
  <2>3. UNCHANGED <<seq, writeTicket, readTicket, batchDequeueArray, call, ticket, val, batch, history>>
    BY Zenon, <1>6 DEF EnqueueAssign, EmplaceDestroy, EmplaceConstruct
  <2> QED BY Zenon, <2>1, <2>2, <2>3 DEF history
<1>7. ASSUME NEW t \in Threads, EnqueuePublish(t)
      PROVE  TypeOK' /\ TicketsClaimed'
  <2>1. ticket[t] \in Tickets
    BY Zenon, <1>7, TicketTypes DEF EnqueuePublish
  <2>2. seq' \in [Slots -> 0 .. MaxTickets + SIZE] /\ pub' \subseteq Tickets
    <3>1. ticket[t] + 1 \in 0 .. MaxTickets + SIZE
      BY <2>1 DEF Tickets
    <3> QED BY Zenon, <1>7, <2>1, <3>1 DEF EnqueuePublish
  <2>3. Return(t) /\ UNCHANGED <<data, writeTicket, readTicket, batchDequeueArray, put, got, sawItem>>
    BY Zenon, <1>7 DEF EnqueuePublish
  <2> QED BY Zenon, <2>2, <2>3, ReturnLocals
<1>8. ASSUME NEW t \in Threads, BatchClaim(t)
      PROVE  TypeOK' /\ TicketsClaimed'
  BY <1>8 DEF BatchClaim, ClaimRead, Goto, Labels
<1>9. ASSUME NEW t \in Threads, BatchDone(t) \/ DequeueEnterSlot(t) \/ IsEmptyCompare(t)
      PROVE  TypeOK' /\ TicketsClaimed'
  <2>1. UNCHANGED <<object, call, ticket, val, batch, history>>
    BY Zenon, <1>9 DEF BatchDone, DequeueEnterSlot, IsEmptyCompare
  <2>2. PICK b \in Labels :
          /\ pc' = [pc EXCEPT ![t] = b]
          /\ \/ pc[t] = "deqSpin" /\ b = "deqMove"
             \/ pc[t] \in {"batchLoop", "emptyLoadRead", "emptyLoadWrite"}
                /\ b \in {"batchRet", "emptyTrue", "emptyFalse"}
    BY Zenon, <1>9 DEF BatchDone, DequeueEnterSlot, IsEmptyCompare, Goto, Labels
  <2>3. pc' \in [Threads -> Labels] /\ pc'[t] = b /\ \A u \in Threads \ {t} : pc'[u] = pc[u]
    BY Zenon, <2>2
  <2>4. \A u \in Threads : (Enqueuing(u)' <=> Enqueuing(u)) /\ (Dequeuing(u)' <=> Dequeuing(u))
    BY Zenon, <2>2, <2>3
  <2> QED BY Zenon, <2>1, <2>3, <2>4 DEF object, history
<1>10. ASSUME NEW t \in Threads, BatchReturn(t) \/ IsEmptyReturn(t)
      PROVE  TypeOK' /\ TicketsClaimed'
  <2>1. Return(t) /\ UNCHANGED <<object, put, pub, got>>
    BY Zenon, <1>10 DEF BatchReturn, IsEmptyReturn, history
  <2>2. sawItem' \in [Threads -> BOOLEAN]
    BY Zenon, <1>10 DEF BatchReturn, IsEmptyReturn, history
  <2> QED BY Zenon, <2>1, <2>2, ReturnLocals DEF object
<1>11. ASSUME NEW t \in Threads, DequeueMove(t)
      PROVE  TypeOK' /\ TicketsClaimed'
  <2>1. Index(ticket[t]) \in Slots
    BY Zenon, <1>11, TicketTypes DEF DequeueMove
  <2>2. data[Index(ticket[t])] \in Payloads
    BY Zenon, <2>1
  <2>3. batchDequeueArray' \in [0 .. BATCH_SIZE - 1 -> Payloads]
    BY Zenon, <1>11, <2>2 DEF DequeueMove
  <2>4. data' \in [Slots -> Payloads]
    BY Zenon, <1>11, <2>2 DEF DequeueMove, Payloads
  <2> QED BY Zenon, <1>11, <2>2, <2>3, <2>4 DEF DequeueMove, Goto, Labels
<1>12. ASSUME NEW t \in Threads, DequeueRelease(t)
      PROVE  TypeOK' /\ TicketsClaimed'
  <2>1. ticket[t] + SIZE \in 0 .. MaxTickets + SIZE
    BY <1>12 DEF DequeueRelease
  <2>2. seq' \in [Slots -> 0 .. MaxTickets + SIZE]
    BY Zenon, <1>12, <2>1 DEF DequeueRelease, NextLap
  <2>3. UNCHANGED <<data, writeTicket, readTicket, batchDequeueArray, history>>
    BY Zenon, <1>12 DEF DequeueRelease
  <2>4. CASE call[t] = "batch"
    <3>1. batch' \in [Threads -> [asked : Int, count : Int, i : Nat]]
      <4> DEFINE b == [asked |-> batch[t].asked, count |-> batch[t].count, i |-> batch[t].i + 1]
      <4>1. b \in [asked : Int, count : Int, i : Nat]
        OBVIOUS
      <4>2. batch' = [batch EXCEPT ![t] = b]
        BY Zenon, <1>12, <2>4 DEF DequeueRelease
      <4> HIDE DEF b
      <4> QED BY Zenon, <4>1, <4>2
    <3>2. TicketsClaimed'
      BY <1>12, <2>3, <2>4 DEF DequeueRelease, Goto
    <3> QED BY Zenon, <1>12, <2>2, <2>3, <2>4, <3>1, <3>2 DEF DequeueRelease, Goto, Labels, history
  <2>5. CASE call[t] # "batch"
    <3>1. Return(t)
      BY Zenon, <1>12, <2>5 DEF DequeueRelease
    <3> QED BY Zenon, <2>2, <2>3, <3>1, ReturnLocals DEF history
  <2> HIDE DEF TypeOK, TicketsClaimed
  <2> QED BY Zenon, <2>4, <2>5
<1>13. ASSUME NEW t \in Threads, Throw(t)
      PROVE  TypeOK' /\ TicketsClaimed'
  <2>1. ticket[t] \in Nat /\ Index(ticket[t]) \in Slots
    BY Zenon, <1>13, TicketTypes DEF Throw
  <2>2. data' \in [Slots -> Payloads]
    BY Zenon, <1>13, <2>1 DEF Throw, Payloads
  <2> QED BY Zenon, <1>13, <2>2, ReturnLocals DEF Throw, history
<1>14. ASSUME ClearBuffer
      PROVE  TypeOK' /\ TicketsClaimed'
  BY <1>14 DEF ClearBuffer, Quiescent, PreparedSeq, Slots, Tickets, locals
<1>15. ASSUME NEW i \in Slots, NEW v \in Values, ClaimPtrNoSync(i, v)
      PROVE  TypeOK' /\ TicketsClaimed'
  BY Zenon, <1>15 DEF ClaimPtrNoSync, Payloads, locals, history
<1>16. CASE UNCHANGED vars
  BY Zenon, <1>16 DEF vars, object, locals, history
<1> HIDE DEF TypeOK, TicketsClaimed, Enqueuing, Dequeuing
<1> QED
  BY Zenon, <1>1, <1>2, <1>3, <1>4, <1>5, <1>6, <1>7, <1>8, <1>9, <1>10, <1>11, <1>12, <1>13,
     <1>14, <1>15, <1>16 DEF Next, Call, Continue

\* The type invariant holds for every number of threads, slots and tickets.
THEOREM TypeCorrect == Spec => []TypeOK
<1>1. Spec => [](TypeOK /\ TicketsClaimed)
  BY InitTypes, NextTypes, PTL DEF Spec
<1> QED BY <1>1, PTL

-----------------------------------------------------------------------------
(* Exclusive access to slots.                                              *)

\* fetch_add gives no two calls the same ticket.
TicketsDistinct ==
  \A t, u \in Threads : t # u =>
    /\ Enqueuing(t) /\ Enqueuing(u) => ticket[t] # ticket[u]
    /\ Dequeuing(t) /\ Dequeuing(u) => ticket[t] # ticket[u]

Writing(t) == pc[t] \in {"enqWrite", "emplace", "enqPublish"}
Reading(t) == pc[t] \in {"deqMove", "deqRelease"}

\* What a call saw when it left its spin loop stays true while it owns the slot.
HeldSlots ==
  \A t \in Threads :
    /\ Writing(t) => AdmitsWriter(ticket[t])
    /\ Reading(t) => AdmitsReader(ticket[t])

Ownership == TypeOK /\ TicketsClaimed /\ TicketsDistinct /\ HeldSlots

\* A sequence number k admits writer k or reader k - 1, and these two never
\* have the same slot; two writers, or two readers, it admits are one call.
LEMMA OwnershipExcludes == Ownership => SlotExclusive
<1> SUFFICES ASSUME Ownership, NEW t \in Threads, NEW u \in Threads, t # u,
                    OwnsSlot(t), OwnsSlot(u), Index(ticket[t]) = Index(ticket[u])
             PROVE  FALSE
  BY Zenon DEF SlotExclusive
<1>1. ticket[t] \in Nat /\ ticket[u] \in Nat
  BY ParameterAssumption DEF Ownership, TypeOK
<1>2. CASE Writing(t) /\ Writing(u)
  BY Zenon, <1>2 DEF Ownership, TicketsDistinct, HeldSlots, AdmitsWriter, Writing, Enqueuing
<1>3. CASE Reading(t) /\ Reading(u)
  <2>1. ticket[t] # ticket[u]
    BY Zenon, <1>3 DEF Ownership, TicketsDistinct, Reading, Dequeuing
  <2>2. ticket[t] + 1 = ticket[u] + 1
    BY Zenon, <1>3 DEF Ownership, HeldSlots, AdmitsReader
  <2> QED BY <1>1, <2>1, <2>2
<1>4. ASSUME NEW w \in {t, u}, NEW r \in {t, u}, Writing(w), Reading(r) PROVE FALSE
  <2>1. ticket[w] = ticket[r] + 1 /\ Index(ticket[w]) = Index(ticket[r])
    BY Zenon, <1>4 DEF Ownership, HeldSlots, AdmitsWriter, AdmitsReader
  <2> QED BY Zenon, <1>1, <2>1, IndexNextDiffers
<1>5. (Writing(t) \/ Reading(t)) /\ (Writing(u) \/ Reading(u))
  BY Zenon DEF OwnsSlot, Writing, Reading
<1> QED BY Zenon, <1>2, <1>3, <1>4, <1>5

\* A call that holds no ticket leaves those of the others distinct.
LEMMA OthersStayDistinct ==
  ASSUME TicketsDistinct, NEW t \in Threads, ~Enqueuing(t)', ~Dequeuing(t)',
         \A u \in Threads \ {t} : pc'[u] = pc[u] /\ ticket'[u] = ticket[u]
  PROVE  TicketsDistinct'
<1>1. \A u \in Threads \ {t} : (Enqueuing(u)' <=> Enqueuing(u)) /\ (Dequeuing(u)' <=> Dequeuing(u))
  BY Zenon DEF Enqueuing, Dequeuing
<1>2. \A u \in Threads : Enqueuing(u)' \/ Dequeuing(u)' => u \in Threads \ {t}
  BY Zenon
<1> QED BY Zenon, <1>1, <1>2 DEF TicketsDistinct

LEMMA NextDistinct == Ownership /\ [Next]_vars => TicketsDistinct'
<1> SUFFICES ASSUME Ownership, [Next]_vars PROVE TicketsDistinct'
  BY Zenon
<1> USE DEF Ownership, TypeOK, TicketsClaimed, TicketsDistinct, Enqueuing, Dequeuing
<1>1. ASSUME NEW t \in Threads, NEW v \in Values, NEW form \in Forms, EnqueueClaim(t, v, form)
      PROVE  TicketsDistinct'
  BY <1>1 DEF EnqueueClaim, Goto
<1>2. ASSUME NEW t \in Threads, DequeueClaim(t) \/ BatchClaim(t)
      PROVE  TicketsDistinct'
  <2>1. ClaimRead(t)
    BY Zenon, <1>2 DEF DequeueClaim, BatchClaim
  <2> QED BY <2>1 DEF ClaimRead, Goto
<1>3. ASSUME NEW t \in Threads, Return(t)
      PROVE  TicketsDistinct'
  <2>1. pc'[t] = "idle" /\ \A u \in Threads \ {t} : pc'[u] = pc[u] /\ ticket'[u] = ticket[u]
    BY Zenon, <1>3, ReturnLocals
  <2> QED BY Zenon, <2>1, OthersStayDistinct
<1>4. ASSUME NEW t \in Threads, EnqueueEnterSlot(t) \/ EnqueueAssign(t) \/ EmplaceDestroy(t)
               \/ EmplaceConstruct(t) \/ DequeueEnterSlot(t) \/ DequeueMove(t)
               \/ BatchDone(t) \/ IsEmptyCompare(t)
      PROVE  TicketsDistinct'
  <2>1. \A u \in Threads : (Enqueuing(u)' <=> Enqueuing(u)) /\ (Dequeuing(u)' <=> Dequeuing(u))
    BY <1>4 DEF EnqueueEnterSlot, EnqueueAssign, EmplaceDestroy, EmplaceConstruct,
                DequeueEnterSlot, DequeueMove, BatchDone, IsEmptyCompare, Goto
  <2>2. UNCHANGED ticket
    BY Zenon, <1>4 DEF EnqueueEnterSlot, EnqueueAssign, EmplaceDestroy, EmplaceConstruct,
                DequeueEnterSlot, DequeueMove, BatchDone, IsEmptyCompare
  <2> QED BY <2>1, <2>2
<1>5. ASSUME NEW t \in Threads, NEW n \in BatchCounts, BatchStart(t, n)
      PROVE  TicketsDistinct'
  BY Zenon, <1>5 DEF BatchStart, Goto
<1>6. ASSUME NEW t \in Threads, IsEmptyStart(t)
      PROVE  TicketsDistinct'
  <2>1. /\ pc'[t] \in {"emptyLoadRead", "emptyLoadWrite"}
        /\ \A u \in Threads \ {t} : pc'[u] = pc[u] /\ ticket'[u] = ticket[u]
    BY Zenon, <1>6 DEF IsEmptyStart, Goto
  <2> QED BY Zenon, <2>1, OthersStayDistinct
<1>7. ASSUME NEW t \in Threads, DequeueRelease(t)
      PROVE  TicketsDistinct'
  <2>1. CASE Return(t)
    BY Zenon, <1>3, <2>1
  <2>2. CASE Goto(t, "batchLoop") /\ UNCHANGED ticket
    <3>1. pc'[t] = "batchLoop" /\ \A u \in Threads \ {t} : pc'[u] = pc[u] /\ ticket'[u] = ticket[u]
      BY Zenon, <2>2 DEF Goto
    <3> QED BY Zenon, <3>1, OthersStayDistinct
  <2> QED BY Zenon, <1>7, <2>1, <2>2 DEF DequeueRelease
<1>8. ASSUME UNCHANGED locals
      PROVE  TicketsDistinct'
  BY Zenon, <1>8 DEF locals
<1> QED
  BY Zenon, <1>1, <1>2, <1>3, <1>4, <1>5, <1>6, <1>7, <1>8
     DEF Next, Call, Continue, EnqueuePublish, BatchReturn, IsEmptyReturn, Throw,
         ClearBuffer, ClaimPtrNoSync, vars

\* A call that lets go of its slot leaves what the others hold alone.
LEMMA OthersKeepSlots ==
  ASSUME HeldSlots, NEW t \in Threads, ~Writing(t)', ~Reading(t)',
         \A u \in Threads \ {t} : pc'[u] = pc[u] /\ ticket'[u] = ticket[u],
         \A u \in Threads \ {t} :
           OwnsSlot(u) => seq'[Index(ticket[u])] = seq[Index(ticket[u])]
  PROVE  HeldSlots'
<1> SUFFICES ASSUME NEW u \in Threads \ {t}
             PROVE  /\ Writing(u)' => seq'[Index(ticket'[u])] = ticket'[u]
                    /\ Reading(u)' => seq'[Index(ticket'[u])] = ticket'[u] + 1
  BY Zenon DEF HeldSlots, AdmitsWriter, AdmitsReader
<1>1. /\ (Writing(u)' <=> Writing(u)) /\ (Reading(u)' <=> Reading(u))
      /\ Writing(u) \/ Reading(u) => OwnsSlot(u)
  BY Zenon DEF Writing, Reading, OwnsSlot
<1>2. /\ Writing(u) => seq[Index(ticket[u])] = ticket[u]
      /\ Reading(u) => seq[Index(ticket[u])] = ticket[u] + 1
  BY Zenon DEF HeldSlots, AdmitsWriter, AdmitsReader
<1> QED BY Zenon, <1>1, <1>2

LEMMA NextHeldSlots == Ownership /\ [Next]_vars => HeldSlots'
<1> SUFFICES ASSUME Ownership, [Next]_vars PROVE HeldSlots'
  BY Zenon
<1>0. SlotExclusive
  BY Zenon, OwnershipExcludes
<1> USE DEF Ownership, TypeOK, HeldSlots, Writing, Reading, AdmitsWriter, AdmitsReader
<1>1. ASSUME NEW t \in Threads, NEW v \in Values, NEW form \in Forms, EnqueueClaim(t, v, form)
      PROVE  HeldSlots'
  BY Zenon, <1>1 DEF EnqueueClaim, Goto
<1>2. ASSUME NEW t \in Threads, DequeueClaim(t) \/ BatchClaim(t)
      PROVE  HeldSlots'
  BY Zenon, <1>2 DEF DequeueClaim, BatchClaim, ClaimRead, Goto
<1>3. ASSUME NEW t \in Threads, Return(t), UNCHANGED seq
      PROVE  HeldSlots'
  <2>1. pc'[t] = "idle" /\ \A u \in Threads \ {t} : pc'[u] = pc[u] /\ ticket'[u] = ticket[u]
    BY Zenon, <1>3, ReturnLocals
  <2> QED BY Zenon, <1>3, <2>1, OthersKeepSlots
<1>4. ASSUME NEW t \in Threads, EnqueueEnterSlot(t) \/ DequeueEnterSlot(t)
      PROVE  HeldSlots'
  BY Zenon, <1>4 DEF EnqueueEnterSlot, DequeueEnterSlot, Goto, object
<1>5. ASSUME NEW t \in Threads, EnqueueAssign(t) \/ EmplaceDestroy(t) \/ EmplaceConstruct(t)
               \/ DequeueMove(t) \/ BatchDone(t) \/ IsEmptyCompare(t)
      PROVE  HeldSlots'
  <2>1. \A u \in Threads : (Writing(u)' <=> Writing(u)) /\ (Reading(u)' <=> Reading(u))
    BY <1>5 DEF EnqueueAssign, EmplaceDestroy, EmplaceConstruct, DequeueMove, BatchDone,
                IsEmptyCompare, Goto
  <2>2. UNCHANGED <<ticket, seq>>
    BY Zenon, <1>5 DEF EnqueueAssign, EmplaceDestroy, EmplaceConstruct, DequeueMove, BatchDone,
                IsEmptyCompare, object
  <2> QED BY Zenon, <2>1, <2>2
<1>6. ASSUME NEW t \in Threads, NEW n \in BatchCounts, BatchStart(t, n)
      PROVE  HeldSlots'
  BY Zenon, <1>6 DEF BatchStart, Goto, object
<1>7. ASSUME NEW t \in Threads, IsEmptyStart(t)
      PROVE  HeldSlots'
  BY <1>7 DEF IsEmptyStart, Goto, object
<1>8. ASSUME NEW t \in Threads, EnqueuePublish(t)
      PROVE  HeldSlots'
  <2>1. \A u \in Threads \ {t} : OwnsSlot(u) => Index(ticket[u]) # Index(ticket[t])
    BY Zenon, <1>0, <1>8 DEF SlotExclusive, OwnsSlot, EnqueuePublish
  <2>2. Return(t) /\ seq' = [seq EXCEPT ![Index(ticket[t])] = ticket[t] + 1]
    BY Zenon, <1>8 DEF EnqueuePublish
  <2>3. \A u \in Threads \ {t} : OwnsSlot(u) => seq'[Index(ticket[u])] = seq[Index(ticket[u])]
    BY <2>1, <2>2, IndexInSlots, ParameterAssumption
  <2>4. pc'[t] = "idle" /\ \A u \in Threads \ {t} : pc'[u] = pc[u] /\ ticket'[u] = ticket[u]
    BY Zenon, <2>2, ReturnLocals
  <2> QED BY Zenon, <2>3, <2>4, OthersKeepSlots
<1>9. ASSUME NEW t \in Threads, DequeueRelease(t)
      PROVE  HeldSlots'
  <2>1. \A u \in Threads \ {t} : OwnsSlot(u) => Index(ticket[u]) # Index(ticket[t])
    BY Zenon, <1>0, <1>9 DEF SlotExclusive, OwnsSlot, DequeueRelease
  <2>2. seq' = [seq EXCEPT ![Index(ticket[t])] = ticket[t] + SIZE]
    BY Zenon, <1>9 DEF DequeueRelease, NextLap
  <2>3. \A u \in Threads \ {t} : OwnsSlot(u) => seq'[Index(ticket[u])] = seq[Index(ticket[u])]
    BY <2>1, <2>2, IndexInSlots, ParameterAssumption
  <2>4. CASE Goto(t, "batchLoop") /\ UNCHANGED ticket
    BY Zenon, <2>3, <2>4 DEF OwnsSlot, Goto
  <2>5. CASE Return(t)
    <3>1. pc'[t] = "idle" /\ \A u \in Threads \ {t} : pc'[u] = pc[u] /\ ticket'[u] = ticket[u]
      BY Zenon, <2>5, ReturnLocals
    <3> QED BY Zenon, <2>3, <3>1, OthersKeepSlots
  <2> QED BY Zenon, <1>9, <2>4, <2>5 DEF DequeueRelease
<1>10. ASSUME ClearBuffer
      PROVE  HeldSlots'
  BY Zenon, <1>10 DEF ClearBuffer, Quiescent, locals
<1>11. ASSUME UNCHANGED <<seq, locals>>
      PROVE  HeldSlots'
  BY Zenon, <1>11 DEF locals
<1> QED
  BY Zenon, <1>1, <1>2, <1>3, <1>4, <1>5, <1>6, <1>7, <1>8, <1>9, <1>10, <1>11
     DEF Next, Call, Continue, BatchReturn, IsEmptyReturn, Throw, ClaimPtrNoSync, vars, object

LEMMA OwnershipInvariant == Spec => []Ownership
<1>1. Init => Ownership
  BY Zenon, InitTypes DEF Ownership, Init, TicketsDistinct, HeldSlots, Enqueuing, Dequeuing, Writing, Reading
<1>2. Ownership /\ [Next]_vars => Ownership'
  BY Zenon, NextTypes, NextDistinct, NextHeldSlots DEF Ownership
<1> QED BY <1>1, <1>2, PTL DEF Spec

\* Two calls never own the same slot: the payload is free of data races for any
\* number of producers and consumers, exceptions included.
THEOREM SlotsAreExclusive == Spec => []SlotExclusive
BY OwnershipInvariant, OwnershipExcludes, PTL

-----------------------------------------------------------------------------
(* What the slots and the history hold, and that enqueues keep it so.      *)

\* The history entries of a ticket follow the progress of its calls.
CallFollows(t) ==
  /\ Enqueuing(t) => ticket[t] \notin pub
  /\ pc[t] \in {"deqSpin", "deqMove"} => got[ticket[t]] = None
  /\ pc[t] = "deqRelease" => got[ticket[t]] # None

HistoryFollowsCalls ==
  /\ \A k \in pub : k < writeTicket
  /\ \A k \in Tickets : got[k] # None => k < readTicket /\ k \in pub
  /\ \A t \in Threads : CallFollows(t)

\* A writer carries what its caller gave it, up to the slot.
WritersCarry ==
  \A t \in Threads :
    /\ Enqueuing(t) => val[t] = put[ticket[t]]
    /\ pc[t] = "enqPublish" => data[Index(ticket[t])] = val[t]

\* A slot admits reader k exactly from the publication of k until it is taken.
PublishedAdmits == \A k \in pub : got[k] = None => AdmitsReader(k)
AdmitsPublished == \A k \in Tickets : AdmitsReader(k) => k \in pub

\* What a slot that admits reader k holds.
ReadableIntact ==
  \A k \in Tickets :
    AdmitsReader(k) /\ got[k] = None /\ ~AbandonedRead(k) => data[Index(k)] = put[k]

\* The slot of an enqueue that ended in an exception is stuck.
AbandonedAdmits == \A k \in Tickets : AbandonedWrite(k) => AdmitsWriter(k)

Contents ==
  /\ Ownership
  /\ HistoryFollowsCalls
  /\ WritersCarry
  /\ PublishedAdmits
  /\ AdmitsPublished
  /\ ReadableIntact
  /\ AbandonedAdmits
  /\ Delivery

\* Without exceptions, a destroyed object is one that is being replaced.
DeadIsBeingReplaced ==
  ~MayThrow =>
    \A i \in Slots : data[i] = Dead =>
      \E t \in Threads : pc[t] = "emplace" /\ Index(ticket[t]) = i

-----------------------------------------------------------------------------
(* Steps that touch neither a slot nor a counter.                          *)

LEMMA ContentsTypes ==
  ASSUME Contents
  PROVE  /\ TypeOK
         /\ writeTicket \in Nat /\ readTicket \in Nat
         /\ \A t \in Threads : ticket[t] \in Nat
         /\ \A k \in Tickets : k \in Nat /\ Index(k) \in Slots
         /\ \A t \in Threads : Enqueuing(t) \/ Dequeuing(t) => ticket[t] \in Tickets
         /\ \A t \in Threads : Index(ticket[t]) \in Slots
         /\ pub \subseteq Tickets
<1>1. TypeOK /\ TicketsClaimed
  BY Zenon DEF Contents, Ownership
<1>2. /\ writeTicket \in Nat /\ readTicket \in Nat /\ pub \subseteq Tickets
      /\ \A t \in Threads : ticket[t] \in Nat
      /\ \A k \in Tickets : k \in Nat
  BY <1>1, ParameterAssumption DEF TypeOK, Tickets
<1>3. \A t \in Threads : Enqueuing(t) \/ Dequeuing(t) => ticket[t] \in Tickets
  BY Zenon, <1>1, TicketTypes
<1> QED BY Zenon, <1>1, <1>2, <1>3, IndexInSlots

LEMMA TicketOrder ==
  ASSUME NEW n \in Nat
  PROVE  /\ ~(n < n)
         /\ \A k \in Nat : (k < n => k < n + 1) /\ (k < n + 1 => k < n \/ k = n)
OBVIOUS

LEMMA QuietStep ==
  ASSUME Contents, Ownership',
         UNCHANGED <<seq, data, writeTicket, readTicket, put, pub, got>>,
         \A u \in Threads :
           /\ Enqueuing(u)' <=> Enqueuing(u)
           /\ Dequeuing(u)' <=> Dequeuing(u)
           /\ pc'[u] = "deqRelease" <=> pc[u] = "deqRelease"
           /\ pc'[u] = "enqPublish" <=> pc[u] = "enqPublish"
           /\ Enqueuing(u) \/ Dequeuing(u) => ticket'[u] = ticket[u] /\ val'[u] = val[u]
  PROVE  Contents'
<1>1. HistoryFollowsCalls'
  BY Zenon DEF Contents, HistoryFollowsCalls, CallFollows, Enqueuing, Dequeuing
<1>2. WritersCarry'
  BY Zenon DEF Contents, WritersCarry, Enqueuing
<1>3. PublishedAdmits' /\ AdmitsPublished' /\ Delivery'
  BY Zenon DEF Contents, PublishedAdmits, AdmitsPublished, Delivery, AdmitsReader
<1>4. \A k \in Tickets : AbandonedRead(k)' <=> AbandonedRead(k)
  BY Zenon DEF AbandonedRead
<1>5. ReadableIntact'
  BY Zenon, <1>4 DEF Contents, ReadableIntact, AdmitsReader
<1>6. \A k \in Tickets : AbandonedWrite(k)' <=> AbandonedWrite(k)
  BY Zenon DEF AbandonedWrite
<1>7. AbandonedAdmits'
  BY Zenon, <1>6 DEF Contents, AbandonedAdmits, AdmitsWriter
<1> QED BY Zenon, <1>1, <1>2, <1>3, <1>5, <1>7 DEF Contents

LEMMA QuietActions ==
  ASSUME Contents, Ownership', NEW t \in Threads,
         \/ EnqueueEnterSlot(t) \/ DequeueEnterSlot(t) \/ BatchDone(t) \/ BatchReturn(t)
         \/ IsEmptyStart(t) \/ IsEmptyCompare(t) \/ IsEmptyReturn(t)
         \/ \E n \in BatchCounts : BatchStart(t, n)
  PROVE  Contents'
<1> USE ContentsTypes
<1>1. CASE EnqueueEnterSlot(t) \/ DequeueEnterSlot(t) \/ BatchDone(t) \/ IsEmptyCompare(t)
  <2>1. UNCHANGED <<object, call, ticket, val, batch, history>>
    BY Zenon, <1>1 DEF EnqueueEnterSlot, DequeueEnterSlot, BatchDone, IsEmptyCompare
  <2>2. \A u \in Threads :
           /\ Enqueuing(u)' <=> Enqueuing(u)
           /\ Dequeuing(u)' <=> Dequeuing(u)
           /\ pc'[u] = "deqRelease" <=> pc[u] = "deqRelease"
           /\ pc'[u] = "enqPublish" <=> pc[u] = "enqPublish"
    BY <1>1 DEF EnqueueEnterSlot, DequeueEnterSlot, BatchDone, IsEmptyCompare, Goto,
                Enqueuing, Dequeuing, TypeOK
  <2> QED BY Zenon, <2>1, <2>2, QuietStep DEF object, history
<1>2. CASE BatchReturn(t) \/ IsEmptyReturn(t)
  <2>1. /\ Return(t) /\ UNCHANGED <<object, put, pub, got>>
        /\ ~Enqueuing(t) /\ ~Dequeuing(t)
    BY Zenon, <1>2 DEF BatchReturn, IsEmptyReturn, history, Enqueuing, Dequeuing
  <2>2. /\ pc'[t] = "idle"
        /\ \A u \in Threads \ {t} : pc'[u] = pc[u] /\ ticket'[u] = ticket[u] /\ val'[u] = val[u]
    BY Zenon, <2>1, ReturnLocals
  <2> QED BY Zenon, <2>1, <2>2, QuietStep DEF object, Enqueuing, Dequeuing
<1>3. CASE IsEmptyStart(t)
  <2>1. /\ pc'[t] \in {"emptyLoadRead", "emptyLoadWrite"} /\ pc[t] = "idle"
        /\ \A u \in Threads \ {t} : pc'[u] = pc[u] /\ ticket'[u] = ticket[u]
        /\ UNCHANGED <<object, val, put, pub, got>>
    BY Zenon, <1>3 DEF IsEmptyStart, Goto, TypeOK
  <2> QED BY Zenon, <2>1, QuietStep DEF object, Enqueuing, Dequeuing
<1>4. CASE \E n \in BatchCounts : BatchStart(t, n)
  <2>1. /\ pc'[t] = "batchLoop" /\ pc[t] = "idle"
        /\ \A u \in Threads \ {t} : pc'[u] = pc[u]
        /\ UNCHANGED <<object, ticket, val, history>>
    BY Zenon, <1>4 DEF BatchStart, Goto, TypeOK
  <2> QED BY Zenon, <2>1, QuietStep DEF object, history, Enqueuing, Dequeuing
<1> QED BY Zenon, <1>1, <1>2, <1>3, <1>4

-----------------------------------------------------------------------------
(* Enqueues.                                                               *)

LEMMA EnqueueClaimKeeps ==
  ASSUME Contents, Ownership', NEW t \in Threads, NEW v \in Values, NEW form \in Forms,
         EnqueueClaim(t, v, form)
  PROVE  Contents'
<1> USE ContentsTypes
<1>1. /\ pc[t] = "idle" /\ pc'[t] = "enqSpin"
      /\ ticket'[t] = writeTicket /\ val'[t] = v
      /\ \A u \in Threads \ {t} : pc'[u] = pc[u] /\ ticket'[u] = ticket[u] /\ val'[u] = val[u]
      /\ writeTicket' = writeTicket + 1 /\ writeTicket \in Tickets
      /\ put' = [put EXCEPT ![writeTicket] = v]
      /\ UNCHANGED <<seq, data, readTicket, pub, got>>
  BY ParameterAssumption DEF EnqueueClaim, Goto, TypeOK, Tickets
<1>2. writeTicket \notin pub
  BY Zenon, TicketOrder DEF Contents, HistoryFollowsCalls
<1>3. \A k \in pub : put'[k] = put[k]
  BY Zenon, <1>1, <1>2 DEF TypeOK
<1>4. HistoryFollowsCalls'
  <2>1. /\ \A k \in pub : k < writeTicket + 1
        /\ \A k \in Tickets : got[k] # None => k < readTicket /\ k \in pub
    BY Zenon, TicketOrder DEF Contents, HistoryFollowsCalls
  <2>2. ASSUME NEW u \in Threads \ {t} PROVE CallFollows(u)'
    BY Zenon, <1>1, <2>2 DEF Contents, HistoryFollowsCalls, CallFollows, Enqueuing
  <2>3. CallFollows(t)'
    BY Zenon, <1>1, <1>2 DEF CallFollows
  <2> QED BY Zenon, <1>1, <2>1, <2>2, <2>3 DEF HistoryFollowsCalls
<1>5. WritersCarry'
  <2>1. put'[writeTicket] = v
    BY Zenon, <1>1 DEF TypeOK
  <2>2. \A u \in Threads \ {t} : Enqueuing(u) => put'[ticket[u]] = put[ticket[u]]
    <3> SUFFICES ASSUME NEW u \in Threads \ {t}, Enqueuing(u)
                 PROVE  put'[ticket[u]] = put[ticket[u]]
      BY Zenon
    <3>1. ticket[u] < writeTicket /\ ticket[u] \in Tickets
      BY Zenon DEF Contents, Ownership, TicketsClaimed
    <3>2. ticket[u] # writeTicket
      <4>1. ~(writeTicket < writeTicket)
        BY Zenon, TicketOrder
      <4> QED BY Zenon, <3>1, <4>1
    <3> QED BY Zenon, <1>1, <3>1, <3>2 DEF TypeOK
  <2>3. ASSUME NEW u \in Threads \ {t}
        PROVE  /\ Enqueuing(u)' => val'[u] = put'[ticket'[u]]
               /\ pc'[u] = "enqPublish" => data'[Index(ticket'[u])] = val'[u]
    <3>1. Enqueuing(u)' <=> Enqueuing(u)
      BY Zenon, <1>1 DEF Enqueuing
    <3>2. /\ Enqueuing(u) => val[u] = put[ticket[u]]
          /\ pc[u] = "enqPublish" => data[Index(ticket[u])] = val[u]
      BY Zenon DEF Contents, WritersCarry
    <3>3. UNCHANGED data /\ pc'[u] = pc[u] /\ ticket'[u] = ticket[u] /\ val'[u] = val[u]
      BY Zenon, <1>1
    <3> QED BY Zenon, <2>2, <3>1, <3>2, <3>3
  <2> QED BY Zenon, <1>1, <2>1, <2>3 DEF WritersCarry
<1>6. PublishedAdmits' /\ AdmitsPublished' /\ Delivery'
  BY Zenon, <1>1, <1>3 DEF Contents, PublishedAdmits, AdmitsPublished, Delivery, AdmitsReader,
                    HistoryFollowsCalls
<1>7. ReadableIntact'
  <2>1. \A k \in Tickets : AbandonedRead(k)' <=> AbandonedRead(k)
    BY Zenon, <1>1 DEF AbandonedRead, Dequeuing
  <2> QED BY Zenon, <1>1, <1>3, <2>1 DEF Contents, ReadableIntact, AdmitsReader, AdmitsPublished
<1>8. AbandonedAdmits'
  <2>1. \A k \in Tickets : AbandonedWrite(k)' => AbandonedWrite(k)
    BY Zenon, <1>1, TicketOrder DEF AbandonedWrite, Enqueuing
  <2> QED BY Zenon, <1>1, <2>1 DEF Contents, AbandonedAdmits, AdmitsWriter
<1> QED BY Zenon, <1>4, <1>5, <1>6, <1>7, <1>8 DEF Contents

\* No slot that a writer owns admits a reader.
LEMMA WriterHidesSlot ==
  ASSUME Contents, NEW t \in Threads, Writing(t), NEW k \in Tickets, Index(k) = Index(ticket[t])
  PROVE  ~AdmitsReader(k)
BY Zenon, ContentsTypes, IndexNextDiffers DEF Contents, Ownership, HeldSlots, AdmitsWriter, AdmitsReader

LEMMA EnqueueWriteKeeps ==
  ASSUME Contents, Ownership', NEW t \in Threads,
         EnqueueAssign(t) \/ EmplaceDestroy(t) \/ EmplaceConstruct(t)
  PROVE  Contents'
<1> USE ContentsTypes
<1>1. /\ Writing(t) /\ Enqueuing(t)
      /\ UNCHANGED <<seq, writeTicket, readTicket, ticket, val, put, pub, got>>
      /\ \A i \in Slots \ {Index(ticket[t])} : data'[i] = data[i]
      /\ pc'[t] = "enqPublish" => data'[Index(ticket[t])] = val[t]
      /\ pc'[t] \in {"emplace", "enqPublish"}
      /\ \A u \in Threads \ {t} : pc'[u] = pc[u]
  BY Zenon DEF EnqueueAssign, EmplaceDestroy, EmplaceConstruct, Goto, TypeOK, Writing, Enqueuing, history
<1>2. HistoryFollowsCalls'
  BY Zenon, <1>1 DEF Contents, HistoryFollowsCalls, CallFollows, Enqueuing
<1>3. WritersCarry'
  <2>1. \A u \in Threads \ {t} : OwnsSlot(u) => Index(ticket[u]) # Index(ticket[t])
    BY Zenon, <1>1, OwnershipExcludes DEF Contents, SlotExclusive, OwnsSlot, Writing
  <2>2. \A u \in Threads \ {t} : OwnsSlot(u) => data'[Index(ticket[u])] = data[Index(ticket[u])]
    BY Zenon, <1>1, <2>1
  <2> QED BY Zenon, <1>1, <2>2 DEF Contents, WritersCarry, Enqueuing, OwnsSlot
<1>4. PublishedAdmits' /\ AdmitsPublished' /\ Delivery'
  BY Zenon, <1>1 DEF Contents, PublishedAdmits, AdmitsPublished, Delivery, AdmitsReader
<1>5. ReadableIntact'
  <2>1. \A k \in Tickets : AbandonedRead(k)' <=> AbandonedRead(k)
    BY Zenon, <1>1 DEF AbandonedRead, Dequeuing, Enqueuing
  <2>2. \A k \in Tickets : AdmitsReader(k) => data'[Index(k)] = data[Index(k)]
    BY Zenon, <1>1, WriterHidesSlot
  <2> QED BY Zenon, <1>1, <2>1, <2>2 DEF Contents, ReadableIntact, AdmitsReader
<1>6. AbandonedAdmits'
  <2>1. \A k \in Tickets : AbandonedWrite(k)' <=> AbandonedWrite(k)
    BY Zenon, <1>1 DEF AbandonedWrite, Enqueuing
  <2> QED BY Zenon, <1>1, <2>1 DEF Contents, AbandonedAdmits, AdmitsWriter
<1> QED BY Zenon, <1>2, <1>3, <1>4, <1>5, <1>6 DEF Contents

LEMMA EnqueuePublishKeeps ==
  ASSUME Contents, Ownership', NEW t \in Threads, EnqueuePublish(t)
  PROVE  Contents'
<1> USE ContentsTypes
<1> DEFINE n == ticket[t]
<1>1. /\ Writing(t) /\ Enqueuing(t) /\ n \in Tickets
      /\ data[Index(n)] = put[n]
  BY Zenon DEF EnqueuePublish, Writing, Enqueuing, Contents, WritersCarry
<1>2. /\ seq'[Index(n)] = n + 1
      /\ \A i \in Slots \ {Index(n)} : seq'[i] = seq[i]
      /\ pub' = pub \cup {n}
      /\ UNCHANGED <<data, writeTicket, readTicket, put, got>>
  BY Zenon DEF EnqueuePublish, TypeOK
<1>3. /\ pc'[t] = "idle"
      /\ \A u \in Threads \ {t} : pc'[u] = pc[u] /\ ticket'[u] = ticket[u] /\ val'[u] = val[u]
  BY Zenon, ReturnLocals DEF EnqueuePublish
<1>4. \A u \in Threads \ {t} : Enqueuing(u) => ticket[u] # n
  BY Zenon, <1>1 DEF Contents, Ownership, TicketsDistinct
<1>5. n < writeTicket
  BY Zenon, <1>1 DEF Contents, Ownership, TicketsClaimed
<1> HIDE DEF n
<1>6. HistoryFollowsCalls'
  <2>1. /\ \A k \in pub' : k < writeTicket'
        /\ \A k \in Tickets : got'[k] # None => k < readTicket' /\ k \in pub'
    BY Zenon, <1>2, <1>5 DEF Contents, HistoryFollowsCalls
  <2>2. ASSUME NEW u \in Threads \ {t} PROVE CallFollows(u)'
    BY Zenon, <1>2, <1>3, <1>4, <2>2 DEF Contents, HistoryFollowsCalls, CallFollows, Enqueuing
  <2>3. CallFollows(t)'
    BY Zenon, <1>3 DEF CallFollows, Enqueuing
  <2> QED BY Zenon, <2>1, <2>2, <2>3 DEF HistoryFollowsCalls
<1>7. WritersCarry'
  BY Zenon, <1>2, <1>3 DEF Contents, WritersCarry, Enqueuing
<1>8. \A k \in Tickets : AdmitsReader(k)' <=> AdmitsReader(k) \/ k = n
  <2>1. \A k \in Tickets : Index(k) = Index(n) => ~AdmitsReader(k)
    BY Zenon, <1>1, WriterHidesSlot DEF n
  <2>2. \A k \in Tickets : Index(k) # Index(n) => (AdmitsReader(k)' <=> AdmitsReader(k))
    BY Zenon, <1>2 DEF AdmitsReader
  <2>3. \A k \in Tickets : Index(k) = Index(n) => (AdmitsReader(k)' <=> k = n)
    <3> SUFFICES ASSUME NEW k \in Tickets, Index(k) = Index(n)
                 PROVE  seq'[Index(n)] = k + 1 <=> k = n
      BY Zenon DEF AdmitsReader
    <3>1. k \in Nat /\ n \in Nat /\ seq'[Index(n)] = n + 1
      BY Zenon, <1>1, <1>2
    <3> QED BY <3>1
  <2> QED BY Zenon, <1>1, <2>1, <2>2, <2>3
<1>9. PublishedAdmits' /\ AdmitsPublished' /\ Delivery'
  BY Zenon, <1>1, <1>2, <1>8 DEF Contents, PublishedAdmits, AdmitsPublished, Delivery
<1>10. ReadableIntact'
  <2>1. \A k \in Tickets : AbandonedRead(k)' <=> AbandonedRead(k)
    BY Zenon, <1>1, <1>2, <1>3 DEF AbandonedRead, Dequeuing, Enqueuing
  <2> QED BY Zenon, <1>1, <1>2, <1>8, <2>1 DEF Contents, ReadableIntact
<1>11. AbandonedAdmits'
  <2>1. \A k \in Tickets : AbandonedWrite(k)' => AbandonedWrite(k) /\ k # n
    BY Zenon, <1>2, <1>3 DEF AbandonedWrite, Enqueuing, n
  <2>2. \A k \in Tickets : AdmitsWriter(k) /\ k # n => Index(k) # Index(n)
    BY Zenon, <1>1 DEF AdmitsWriter, Contents, Ownership, HeldSlots, n
  <2> QED BY Zenon, <1>2, <2>1, <2>2 DEF Contents, AbandonedAdmits, AdmitsWriter
<1> QED BY Zenon, <1>6, <1>7, <1>9, <1>10, <1>11 DEF Contents

-----------------------------------------------------------------------------
(* Dequeues.                                                               *)

LEMMA ClaimReadKeeps ==
  ASSUME Contents, Ownership', NEW t \in Threads, DequeueClaim(t) \/ BatchClaim(t)
  PROVE  Contents'
<1> USE ContentsTypes
<1>1. /\ pc[t] \in {"idle", "batchLoop"} /\ ClaimRead(t)
  BY Zenon DEF DequeueClaim, BatchClaim
<1>2. /\ pc'[t] = "deqSpin" /\ ticket'[t] = readTicket
      /\ \A u \in Threads \ {t} : pc'[u] = pc[u] /\ ticket'[u] = ticket[u]
      /\ readTicket' = readTicket + 1 /\ readTicket \in Tickets
      /\ UNCHANGED <<seq, data, writeTicket, val, put, pub, got>>
  BY <1>1, ParameterAssumption DEF ClaimRead, Goto, TypeOK, Tickets
<1>3. HistoryFollowsCalls'
  <2>1. got[readTicket] = None
    BY Zenon, <1>2, TicketOrder DEF Contents, HistoryFollowsCalls
  <2>2. \A k \in Tickets : got[k] # None => k < readTicket + 1 /\ k \in pub
    BY Zenon, TicketOrder DEF Contents, HistoryFollowsCalls
  <2>3. ASSUME NEW u \in Threads \ {t} PROVE CallFollows(u)'
    BY Zenon, <1>2, <2>3 DEF Contents, HistoryFollowsCalls, CallFollows, Enqueuing
  <2>4. CallFollows(t)'
    BY Zenon, <1>2, <2>1 DEF CallFollows, Enqueuing
  <2> QED BY Zenon, <1>2, <2>2, <2>3, <2>4 DEF Contents, HistoryFollowsCalls
<1>4. WritersCarry'
  BY Zenon, <1>2 DEF Contents, WritersCarry, Enqueuing
<1>5. PublishedAdmits' /\ AdmitsPublished' /\ Delivery'
  BY Zenon, <1>2 DEF Contents, PublishedAdmits, AdmitsPublished, Delivery, AdmitsReader
<1>6. ReadableIntact'
  <2>1. \A k \in Tickets : AbandonedRead(k) => AbandonedRead(k)'
    <3> SUFFICES ASSUME NEW k \in Tickets, AbandonedRead(k) PROVE AbandonedRead(k)'
      BY Zenon
    <3>1. k < readTicket /\ k < readTicket + 1 /\ k # readTicket
      BY Zenon, TicketOrder DEF AbandonedRead
    <3>2. ASSUME NEW u \in Threads PROVE ~(Dequeuing(u)' /\ ticket'[u] = k)
      <4>1. CASE u = t
        BY Zenon, <1>2, <3>1, <4>1
      <4>2. CASE u # t
        BY Zenon, <1>2, <4>2 DEF AbandonedRead, Dequeuing
      <4> QED BY Zenon, <4>1, <4>2
    <3> QED BY Zenon, <1>2, <3>1, <3>2 DEF AbandonedRead
  <2> QED BY Zenon, <1>2, <2>1 DEF Contents, ReadableIntact, AdmitsReader
<1>7. AbandonedAdmits'
  <2>1. \A k \in Tickets : AbandonedWrite(k)' <=> AbandonedWrite(k)
    BY Zenon, <1>1, <1>2 DEF AbandonedWrite, Enqueuing
  <2> QED BY Zenon, <1>2, <2>1 DEF Contents, AbandonedAdmits, AdmitsWriter
<1> QED BY Zenon, <1>3, <1>4, <1>5, <1>6, <1>7 DEF Contents

\* The slot a reader owns admits no other ticket.
LEMMA ReaderFillsSlot ==
  ASSUME Contents, NEW t \in Threads, Reading(t), NEW k \in Tickets, Index(k) = Index(ticket[t])
  PROVE  /\ AdmitsReader(k) => k = ticket[t]
         /\ ~AdmitsWriter(k)
BY ContentsTypes, IndexNextDiffers DEF Contents, Ownership, HeldSlots, AdmitsWriter, AdmitsReader

LEMMA DequeueMoveKeeps ==
  ASSUME Contents, Ownership', NEW t \in Threads, DequeueMove(t)
  PROVE  Contents'
<1> USE ContentsTypes
<1> DEFINE n == ticket[t]
<1>1. pc[t] = "deqMove" /\ Reading(t) /\ Dequeuing(t) /\ n \in Tickets
  BY Zenon DEF DequeueMove, Reading, Dequeuing
<1>2. AdmitsReader(n) /\ got[n] = None /\ ~AbandonedRead(n) /\ n \in pub /\ n < readTicket
  BY Zenon, <1>1 DEF Contents, Ownership, HeldSlots, HistoryFollowsCalls, CallFollows, AdmitsPublished,
              AbandonedRead, TicketsClaimed
<1>3. data[Index(n)] = put[n] /\ put[n] # None
  <2>1. data[Index(n)] \in Payloads
    BY Zenon, <1>1 DEF TypeOK
  <2> QED BY Zenon, <1>1, <1>2, <2>1, PayloadAssumption DEF Contents, ReadableIntact, Payloads
<1>4. /\ pc'[t] = "deqRelease" /\ got'[n] = data[Index(n)]
      /\ \A k \in Tickets \ {n} : got'[k] = got[k]
      /\ \A i \in Slots \ {Index(n)} : data'[i] = data[i]
      /\ \A u \in Threads \ {t} : pc'[u] = pc[u] /\ val'[u] = val[u]
      /\ UNCHANGED <<seq, writeTicket, readTicket, ticket, put, pub>>
  BY Zenon, <1>1 DEF DequeueMove, Goto, TypeOK
<1>5. \A u \in Threads \ {t} : Dequeuing(u) => ticket[u] # n
  BY Zenon, <1>1 DEF Contents, Ownership, TicketsDistinct
<1>6. \A u \in Threads \ {t} : OwnsSlot(u) => Index(ticket[u]) # Index(n)
  BY Zenon, <1>1, OwnershipExcludes DEF Contents, SlotExclusive, OwnsSlot, Reading
<1>7. HistoryFollowsCalls'
  <2>1. \A k \in Tickets : got'[k] # None => k < readTicket /\ k \in pub
    BY Zenon, <1>2, <1>4 DEF Contents, HistoryFollowsCalls
  <2>2. ASSUME NEW u \in Threads \ {t} PROVE CallFollows(u)'
    <3>1. CallFollows(u)
      BY Zenon DEF Contents, HistoryFollowsCalls
    <3>2. Dequeuing(u) => got'[ticket[u]] = got[ticket[u]]
      BY Zenon, <1>4, <1>5
    <3>3. pc[u] \in {"deqSpin", "deqMove"} \/ pc[u] = "deqRelease" => Dequeuing(u)
      BY Zenon DEF Dequeuing
    <3> QED BY Zenon, <1>4, <3>1, <3>2, <3>3 DEF CallFollows, Enqueuing
  <2>3. CallFollows(t)'
    BY Zenon, <1>3, <1>4 DEF CallFollows, Enqueuing
  <2> QED BY Zenon, <1>4, <2>1, <2>2, <2>3 DEF Contents, HistoryFollowsCalls
<1>8. WritersCarry'
  BY <1>4, <1>6, ZenonT(60) DEF Contents, WritersCarry, Enqueuing, OwnsSlot
<1> HIDE DEF n
<1>9. PublishedAdmits' /\ AdmitsPublished' /\ Delivery'
  BY <1>1, <1>3, <1>4, ZenonT(60) DEF Contents, PublishedAdmits, AdmitsPublished, Delivery, AdmitsReader
<1>10. ReadableIntact'
  <2>1. \A k \in Tickets \ {n} : AbandonedRead(k)' <=> AbandonedRead(k)
    BY Zenon, <1>1, <1>4 DEF AbandonedRead, Dequeuing, n
  <2>2. \A k \in Tickets \ {n} : AdmitsReader(k) => Index(k) # Index(n)
    BY Zenon, <1>1, ReaderFillsSlot DEF n
  <2>3. ASSUME NEW k \in Tickets \ {n}, AdmitsReader(k)
        PROVE  data'[Index(k)] = data[Index(k)]
    BY Zenon, <1>4, <2>2, <2>3
  <2>4. got'[n] # None
    BY Zenon, <1>3, <1>4
  <2> QED BY Zenon, <1>4, <2>1, <2>3, <2>4 DEF Contents, ReadableIntact, AdmitsReader
<1>11. AbandonedAdmits'
  <2>1. \A k \in Tickets : AbandonedWrite(k)' <=> AbandonedWrite(k)
    BY Zenon, <1>1, <1>4 DEF AbandonedWrite, Enqueuing
  <2> QED BY Zenon, <1>4, <2>1 DEF Contents, AbandonedAdmits, AdmitsWriter
<1> QED BY Zenon, <1>7, <1>8, <1>9, <1>10, <1>11 DEF Contents

LEMMA DequeueReleaseKeeps ==
  ASSUME Contents, Ownership', NEW t \in Threads, DequeueRelease(t)
  PROVE  Contents'
<1> USE ContentsTypes
<1> DEFINE n == ticket[t]
<1>1. pc[t] = "deqRelease" /\ Reading(t) /\ Dequeuing(t) /\ n \in Tickets
  BY Zenon DEF DequeueRelease, Reading, Dequeuing
<1>2. got[n] # None
  BY Zenon, <1>1 DEF Contents, HistoryFollowsCalls, CallFollows
<1>3. /\ seq'[Index(n)] = n + SIZE
      /\ \A i \in Slots \ {Index(n)} : seq'[i] = seq[i]
      /\ UNCHANGED <<data, writeTicket, readTicket, put, pub, got>>
  BY Zenon DEF DequeueRelease, NextLap, TypeOK, history
<1>4. /\ pc'[t] \in {"idle", "batchLoop"}
      /\ \A u \in Threads \ {t} : pc'[u] = pc[u] /\ ticket'[u] = ticket[u] /\ val'[u] = val[u]
  <2>1. CASE Return(t)
    BY Zenon, <2>1, ReturnLocals
  <2>2. CASE Goto(t, "batchLoop") /\ UNCHANGED <<ticket, val>>
    BY Zenon, <2>2 DEF Goto, TypeOK
  <2> QED BY Zenon, <2>1, <2>2 DEF DequeueRelease
<1>5. HistoryFollowsCalls'
  BY <1>3, <1>4, ZenonT(60) DEF Contents, HistoryFollowsCalls, CallFollows, Enqueuing
<1>6. WritersCarry'
  BY Zenon, <1>3, <1>4 DEF Contents, WritersCarry, Enqueuing
<1>7. \A k \in Tickets : AdmitsReader(k)' <=> AdmitsReader(k) /\ k # n
  <2>1. \A k \in Tickets : Index(k) = Index(n) => ~AdmitsReader(k)'
    BY <1>1, <1>3, IndexBeforeNextLap, SizeAssumption, ZenonT(60) DEF AdmitsReader
  <2>2. \A k \in Tickets : Index(k) # Index(n) => (AdmitsReader(k)' <=> AdmitsReader(k))
    BY Zenon, <1>3 DEF AdmitsReader
  <2>3. \A k \in Tickets : Index(k) = Index(n) /\ AdmitsReader(k) => k = n
    BY Zenon, <1>1, ReaderFillsSlot
  <2> QED BY Zenon, <1>1, <2>1, <2>2, <2>3
<1> HIDE DEF n
<1>8. PublishedAdmits' /\ AdmitsPublished' /\ Delivery'
  BY Zenon, <1>2, <1>3, <1>7 DEF Contents, PublishedAdmits, AdmitsPublished, Delivery
<1>9. ReadableIntact'
  <2>1. \A k \in Tickets \ {n} : AbandonedRead(k)' <=> AbandonedRead(k)
    BY Zenon, <1>3, <1>4 DEF AbandonedRead, Dequeuing, n
  <2> QED BY Zenon, <1>3, <1>7, <2>1 DEF Contents, ReadableIntact
<1>10. AbandonedAdmits'
  <2>1. \A k \in Tickets : AbandonedWrite(k)' <=> AbandonedWrite(k)
    BY Zenon, <1>1, <1>3, <1>4 DEF AbandonedWrite, Enqueuing
  <2>2. \A k \in Tickets : AdmitsWriter(k) => Index(k) # Index(n)
    BY Zenon, <1>1, ReaderFillsSlot DEF n
  <2> QED BY Zenon, <1>3, <2>1, <2>2 DEF Contents, AbandonedAdmits, AdmitsWriter
<1> QED BY Zenon, <1>5, <1>6, <1>8, <1>9, <1>10 DEF Contents

-----------------------------------------------------------------------------
(* Exceptions and the calls made while the buffer is quiescent.            *)

LEMMA ThrowKeeps ==
  ASSUME Contents, Ownership', NEW t \in Threads, Throw(t)
  PROVE  Contents'
<1> USE ContentsTypes
<1> DEFINE n == ticket[t]
<1>1. /\ \/ pc[t] \in {"enqWrite", "emplace"} /\ Writing(t) /\ Enqueuing(t) /\ ~Dequeuing(t)
         \/ pc[t] = "deqMove" /\ Reading(t) /\ Dequeuing(t) /\ ~Enqueuing(t)
      /\ n \in Tickets
  BY Zenon DEF Throw, Reading, Writing, Enqueuing, Dequeuing
<1>2. /\ \A i \in Slots \ {Index(n)} : data'[i] = data[i]
      /\ UNCHANGED <<seq, writeTicket, readTicket, put, pub, got>>
  BY Zenon DEF Throw, TypeOK, history
<1>3. /\ pc'[t] = "idle"
      /\ \A u \in Threads \ {t} : pc'[u] = pc[u] /\ ticket'[u] = ticket[u] /\ val'[u] = val[u]
  BY Zenon, ReturnLocals DEF Throw
<1>4. HistoryFollowsCalls'
  <2>1. ASSUME NEW u \in Threads PROVE CallFollows(u)'
    <3>1. CASE u = t
      BY Zenon, <1>3, <3>1 DEF CallFollows, Enqueuing
    <3>2. CASE u # t
      BY Zenon, <1>2, <1>3, <3>2 DEF Contents, HistoryFollowsCalls, CallFollows, Enqueuing
    <3> QED BY Zenon, <3>1, <3>2
  <2> QED BY Zenon, <1>2, <2>1 DEF Contents, HistoryFollowsCalls
<1>5. WritersCarry'
  <2>1. \A u \in Threads \ {t} : OwnsSlot(u) => Index(ticket[u]) # Index(n)
    BY Zenon, <1>1, OwnershipExcludes DEF Contents, SlotExclusive, OwnsSlot, Reading, Writing
  <2>2. ASSUME NEW u \in Threads \ {t}
        PROVE  /\ Enqueuing(u)' => val'[u] = put'[ticket'[u]]
               /\ pc'[u] = "enqPublish" => data'[Index(ticket'[u])] = val'[u]
    <3>1. Enqueuing(u)' <=> Enqueuing(u)
      BY Zenon, <1>3 DEF Enqueuing
    <3>2. pc[u] = "enqPublish" => data'[Index(ticket[u])] = data[Index(ticket[u])]
      BY Zenon, <1>2, <2>1 DEF OwnsSlot
    <3> QED BY Zenon, <1>2, <1>3, <3>1, <3>2 DEF Contents, WritersCarry
  <2> QED BY Zenon, <1>3, <2>2 DEF WritersCarry, Enqueuing
<1>6. PublishedAdmits' /\ AdmitsPublished' /\ Delivery'
  BY Zenon, <1>2 DEF Contents, PublishedAdmits, AdmitsPublished, Delivery, AdmitsReader
<1>7. ReadableIntact'
  <2>1. \A k \in Tickets : AbandonedRead(k) => AbandonedRead(k)'
    BY Zenon, <1>2, <1>3 DEF AbandonedRead, Dequeuing
  <2>2. CASE Writing(t)
    <3>1. \A k \in Tickets : AdmitsReader(k) => data'[Index(k)] = data[Index(k)]
      BY Zenon, <1>2, <2>2, WriterHidesSlot
    <3> QED BY Zenon, <1>2, <2>1, <3>1 DEF Contents, ReadableIntact, AdmitsReader
  <2>3. CASE Reading(t) /\ pc[t] = "deqMove" /\ Dequeuing(t)
    <3>1. \A k \in Tickets \ {n} : AdmitsReader(k) => data'[Index(k)] = data[Index(k)]
      BY Zenon, <1>2, <2>3, ReaderFillsSlot
    <3>2. \A k \in Tickets : k = n => AbandonedRead(k)'
      <4>1. n < readTicket /\ got[n] = None
        BY <2>3, ZenonT(60) DEF Contents, Ownership, TicketsClaimed, HistoryFollowsCalls, CallFollows
      <4>2. \A u \in Threads \ {t} : Dequeuing(u) => ticket[u] # n
        BY Zenon, <2>3 DEF Contents, Ownership, TicketsDistinct
      <4> QED BY Zenon, <1>2, <1>3, <4>1, <4>2 DEF AbandonedRead, Dequeuing
    <3> HIDE DEF n
    <3> QED BY Zenon, <1>2, <2>1, <3>1, <3>2 DEF Contents, ReadableIntact, AdmitsReader
  <2> QED BY Zenon, <1>1, <2>2, <2>3
<1>8. AbandonedAdmits'
  <2>1. \A k \in Tickets : AbandonedWrite(k)' => AbandonedWrite(k) \/ (k = n /\ Writing(t))
    BY Zenon, <1>1, <1>2, <1>3 DEF AbandonedWrite, Enqueuing
  <2>2. Writing(t) => AdmitsWriter(n)
    BY Zenon DEF Contents, Ownership, HeldSlots
  <2> QED BY Zenon, <1>2, <2>1, <2>2 DEF Contents, AbandonedAdmits, AdmitsWriter
<1> QED BY Zenon, <1>4, <1>5, <1>6, <1>7, <1>8 DEF Contents

LEMMA ClearBufferKeeps ==
  ASSUME Contents, Ownership', ClearBuffer
  PROVE  Contents'
<1> USE ContentsTypes
<1>1. /\ writeTicket' = 0 /\ readTicket' = 0 /\ pub' = {}
      /\ \A k \in Tickets : got'[k] = None
      /\ \A i \in Slots : seq'[i] = i
      /\ \A u \in Threads : pc'[u] = "idle"
  BY Zenon DEF ClearBuffer, Quiescent, PreparedSeq, locals
<1>2. \A k \in Tickets : ~AdmitsReader(k)'
  <2> SUFFICES ASSUME NEW k \in Tickets PROVE seq'[Index(k)] # k + 1
    BY Zenon DEF AdmitsReader
  <2>1. Index(k) \in Slots /\ k \in Nat
    BY Zenon
  <2>2. Index(k) \in Nat /\ Index(k) <= k
    BY <2>1, IndexAtMost, SizeAssumption DEF Slots
  <2>3. seq'[Index(k)] = Index(k)
    BY Zenon, <1>1, <2>1
  <2> QED BY <2>1, <2>2, <2>3
<1>3. HistoryFollowsCalls' /\ WritersCarry'
  BY Zenon, <1>1 DEF HistoryFollowsCalls, CallFollows, WritersCarry, Enqueuing
<1>4. PublishedAdmits' /\ AdmitsPublished' /\ Delivery' /\ ReadableIntact'
  BY Zenon, <1>1, <1>2 DEF PublishedAdmits, AdmitsPublished, Delivery, ReadableIntact
<1>5. AbandonedAdmits'
  BY <1>1 DEF AbandonedAdmits, AbandonedWrite
<1> QED BY Zenon, <1>3, <1>4, <1>5 DEF Contents

LEMMA ClaimPtrNoSyncKeeps ==
  ASSUME Contents, Ownership', NEW i \in Slots, NEW v \in Values, ClaimPtrNoSync(i, v)
  PROVE  Contents'
<1> USE ContentsTypes
<1>1. /\ writeTicket = 0
      /\ \A u \in Threads : pc[u] = "idle"
      /\ UNCHANGED <<seq, writeTicket, readTicket, pc, ticket, val, put, pub, got>>
  BY Zenon DEF ClaimPtrNoSync, Quiescent, locals, history
<1>2. \A k \in Tickets : ~AdmitsReader(k)
  <2>1. \A k \in Tickets : ~(k < writeTicket)
    BY <1>1 DEF Tickets
  <2> QED BY Zenon, <2>1 DEF Contents, HistoryFollowsCalls, AdmitsPublished
<1>3. HistoryFollowsCalls' /\ WritersCarry'
  BY <1>1, ZenonT(60) DEF Contents, HistoryFollowsCalls, CallFollows, WritersCarry, Enqueuing
<1>4. PublishedAdmits' /\ AdmitsPublished' /\ Delivery' /\ ReadableIntact'
  BY <1>1, <1>2, ZenonT(60) DEF Contents, PublishedAdmits, AdmitsPublished, Delivery, ReadableIntact, AdmitsReader
<1>5. \A k \in Tickets : ~(k < writeTicket')
  BY <1>1 DEF Tickets
<1>6. AbandonedAdmits'
  BY Zenon, <1>5 DEF AbandonedAdmits, AbandonedWrite
<1> QED BY Zenon, <1>3, <1>4, <1>6 DEF Contents

-----------------------------------------------------------------------------
(* The theorems.                                                           *)

LEMMA InitContents == Init => Contents
<1> SUFFICES ASSUME Init PROVE Contents
  BY Zenon
<1>1. Ownership
  BY Zenon, InitTypes DEF Ownership, Init, TicketsDistinct, HeldSlots, Enqueuing, Dequeuing, Writing, Reading
<1>2. \A k \in Tickets : ~AdmitsReader(k)
  BY IndexAtMost, IndexInSlots, ParameterAssumption, SizeAssumption
     DEF Init, PreparedSeq, AdmitsReader, Slots, Tickets
<1>3. HistoryFollowsCalls /\ WritersCarry
  BY Zenon DEF Init, HistoryFollowsCalls, CallFollows, WritersCarry, Enqueuing
<1>4. PublishedAdmits /\ AdmitsPublished /\ Delivery /\ ReadableIntact
  BY Zenon, <1>2 DEF Init, PublishedAdmits, AdmitsPublished, Delivery, ReadableIntact
<1>5. AbandonedAdmits
  BY DEF Init, AbandonedAdmits, AbandonedWrite, Tickets
<1> QED BY Zenon, <1>1, <1>3, <1>4, <1>5 DEF Contents

LEMMA NextContents == Contents /\ [Next]_vars => Contents'
<1> SUFFICES ASSUME Contents, [Next]_vars PROVE Contents'
  BY Zenon
<1>1. Ownership'
  BY Zenon, NextTypes, NextDistinct, NextHeldSlots DEF Contents, Ownership
<1>2. ASSUME NEW t \in Threads, Call(t) PROVE Contents'
  BY Zenon, <1>1, <1>2, QuietActions, EnqueueClaimKeeps, ClaimReadKeeps DEF Call
<1>3. ASSUME NEW t \in Threads, Continue(t) PROVE Contents'
  BY Zenon, <1>1, <1>3, QuietActions, EnqueueWriteKeeps, EnqueuePublishKeeps, ClaimReadKeeps,
     DequeueMoveKeeps, DequeueReleaseKeeps DEF Continue
<1>4. CASE UNCHANGED vars
  <2>1. UNCHANGED <<seq, data, writeTicket, readTicket, put, pub, got, pc, ticket, val>>
    BY Zenon, <1>4 DEF vars, object, locals, history
  <2> QED BY Zenon, <1>1, <2>1, QuietStep DEF Enqueuing, Dequeuing
<1> QED
  BY Zenon, <1>1, <1>2, <1>3, <1>4, ThrowKeeps, ClearBufferKeeps, ClaimPtrNoSyncKeeps DEF Next

\* The inductive invariant: who owns a slot, what it holds, and how the history
\* relates to both.
THEOREM ContentsInvariant == Spec => []Contents
BY InitContents, NextContents, PTL DEF Spec

\* The k-th dequeue gets what the k-th enqueue was given, however many threads
\* of either kind there are and whichever of their calls throw.
THEOREM DeliveryHolds == Spec => []Delivery
<1>1. Contents => Delivery
  BY Zenon DEF Contents
<1> QED BY <1>1, ContentsInvariant, PTL

\* No lap overwrites a published payload before its reader moved it out.
THEOREM PublishedStaysIntact == Spec => []PublishedIntact
<1>1. Contents => PublishedIntact
  BY Zenon, ContentsTypes DEF Contents, PublishedIntact, PublishedAdmits, ReadableIntact
<1> QED BY <1>1, ContentsInvariant, PTL

\* A call that throws after its claim leaves its slot stuck until clearBuffer().
THEOREM ThrowAlwaysWedgesSlot == Spec => []ThrowWedgesSlot
<1>1. Contents => ThrowWedgesSlot
  BY Zenon DEF Contents, ThrowWedgesSlot, AbandonedAdmits, PublishedAdmits, AbandonedRead
<1> QED BY <1>1, ContentsInvariant, PTL

-----------------------------------------------------------------------------
(* Objects destroyed by emplaceEnqueue.                                    *)

\* What an enqueue carries is a live payload.
LEMMA WriterCarriesValue ==
  ASSUME Contents, NEW t \in Threads, Enqueuing(t)
  PROVE  val[t] \in Values
<1>1. val[t] = put[ticket[t]] /\ ticket[t] \in Tickets
  BY Zenon, ContentsTypes DEF Contents, WritersCarry
<1>2. val[t] \in Payloads /\ put[ticket[t]] \in Values \cup {None}
  BY Zenon, <1>1, ContentsTypes DEF TypeOK
<1> QED BY Zenon, <1>1, <1>2, PayloadAssumption DEF Payloads

LEMMA NextDead == Contents /\ DeadIsBeingReplaced /\ [Next]_vars => DeadIsBeingReplaced'
<1> SUFFICES ASSUME Contents, DeadIsBeingReplaced, [Next]_vars, ~MayThrow,
                    NEW i \in Slots, data'[i] = Dead
             PROVE  \E t \in Threads : pc'[t] = "emplace" /\ Index(ticket'[t]) = i
  BY Zenon DEF DeadIsBeingReplaced
<1> DEFINE Replaced == \E t \in Threads : pc'[t] = "emplace" /\ Index(ticket'[t]) = i
<1>0. data[i] = Dead => \E t \in Threads : pc[t] = "emplace" /\ Index(ticket[t]) = i
  BY Zenon DEF DeadIsBeingReplaced
<1> USE ContentsTypes
\* A step that leaves the payloads alone, of a thread that is not replacing one.
<1>1. ASSUME UNCHANGED data, NEW t \in Threads, pc[t] # "emplace",
             \A u \in Threads \ {t} : pc'[u] = pc[u] /\ ticket'[u] = ticket[u]
      PROVE  Replaced
  BY Zenon, <1>0, <1>1
<1>2. ASSUME NEW t \in Threads, Call(t) PROVE Replaced
  <2>1. UNCHANGED data /\ pc[t] = "idle"
    BY <1>2, ZenonT(60) DEF Call, EnqueueClaim, DequeueClaim, ClaimRead, BatchStart, IsEmptyStart, object
  <2>2. \A u \in Threads \ {t} : pc'[u] = pc[u] /\ ticket'[u] = ticket[u]
    BY <1>2, ZenonT(60) DEF Call, EnqueueClaim, DequeueClaim, ClaimRead, BatchStart, IsEmptyStart, Goto, TypeOK
  <2> QED BY Zenon, <1>1, <2>1, <2>2
<1>3. ASSUME NEW t \in Threads,
             \/ EnqueueEnterSlot(t) \/ DequeueEnterSlot(t) \/ BatchDone(t) \/ IsEmptyCompare(t)
             \/ BatchClaim(t)
      PROVE  Replaced
  <2>1. UNCHANGED data /\ pc[t] # "emplace"
    BY <1>3, ZenonT(60) DEF EnqueueEnterSlot, DequeueEnterSlot, BatchDone, IsEmptyCompare, BatchClaim,
                ClaimRead, object
  <2>2. \A u \in Threads \ {t} : pc'[u] = pc[u] /\ ticket'[u] = ticket[u]
    BY Zenon, <1>3 DEF EnqueueEnterSlot, DequeueEnterSlot, BatchDone, IsEmptyCompare, BatchClaim,
                ClaimRead, Goto, TypeOK
  <2> QED BY <1>1, <2>1, <2>2, ZenonT(60)
<1>4. ASSUME NEW t \in Threads, EnqueuePublish(t) \/ BatchReturn(t) \/ IsEmptyReturn(t)
      PROVE  Replaced
  <2>1. UNCHANGED data /\ pc[t] # "emplace" /\ Return(t)
    BY Zenon, <1>4 DEF EnqueuePublish, BatchReturn, IsEmptyReturn, object
  <2> QED BY Zenon, <1>1, <2>1, ReturnLocals
<1>5. ASSUME NEW t \in Threads, DequeueRelease(t) PROVE Replaced
  <2>1. UNCHANGED data /\ pc[t] # "emplace"
    BY Zenon, <1>5 DEF DequeueRelease
  <2>2. CASE Return(t)
    BY Zenon, <1>1, <2>1, <2>2, ReturnLocals
  <2>3. CASE Goto(t, "batchLoop") /\ UNCHANGED ticket
    BY Zenon, <1>1, <2>1, <2>3 DEF Goto, TypeOK
  <2> QED BY Zenon, <1>5, <2>2, <2>3 DEF DequeueRelease
<1>6. ASSUME NEW t \in Threads, EnqueueAssign(t) \/ EmplaceConstruct(t) PROVE Replaced
  <2>1. val[t] # Dead
    BY Zenon, <1>6, WriterCarriesValue, PayloadAssumption DEF EnqueueAssign, EmplaceConstruct, Enqueuing
  <2>2. data'[Index(ticket[t])] = val[t] /\ \A j \in Slots \ {Index(ticket[t])} : data'[j] = data[j]
    BY Zenon, <1>6 DEF EnqueueAssign, EmplaceConstruct, TypeOK
  <2>3. i # Index(ticket[t]) /\ data[i] = Dead
    BY <2>1, <2>2, ZenonT(60)
  <2>4. \A u \in Threads \ {t} : pc'[u] = pc[u] /\ ticket'[u] = ticket[u]
    BY Zenon, <1>6 DEF EnqueueAssign, EmplaceConstruct, Goto, TypeOK
  <2> QED BY Zenon, <1>0, <2>3, <2>4
<1>7. ASSUME NEW t \in Threads, EmplaceDestroy(t) PROVE Replaced
  <2>1. pc'[t] = "emplace" /\ ticket' = ticket /\ pc[t] # "emplace"
    BY Zenon, <1>7 DEF EmplaceDestroy, Goto, TypeOK
  <2>2. \A u \in Threads \ {t} : pc'[u] = pc[u]
    BY Zenon, <1>7 DEF EmplaceDestroy, Goto, TypeOK
  <2>3. \A j \in Slots \ {Index(ticket[t])} : data'[j] = data[j]
    BY Zenon, <1>7 DEF EmplaceDestroy, TypeOK
  <2> QED BY Zenon, <1>0, <2>1, <2>2, <2>3
<1>8. ASSUME NEW t \in Threads, DequeueMove(t) PROVE Replaced
  <2>1. /\ pc[t] = "deqMove" /\ ticket' = ticket
        /\ \A u \in Threads \ {t} : pc'[u] = pc[u]
        /\ \A j \in Slots : data'[j] = data[j] \/ data'[j] = Junk
    BY Zenon, <1>8 DEF DequeueMove, Goto, TypeOK
  <2> QED BY Zenon, <1>0, <2>1, PayloadAssumption
<1>9. CASE ClearBuffer
  BY Zenon, <1>0, <1>9 DEF ClearBuffer, Quiescent
<1>10. ASSUME NEW j \in Slots, NEW v \in Values, ClaimPtrNoSync(j, v) PROVE Replaced
  <2>1. data[i] = Dead /\ \A u \in Threads : pc[u] = "idle"
    BY Zenon, <1>10, PayloadAssumption DEF ClaimPtrNoSync, Quiescent, TypeOK
  <2> QED BY Zenon, <1>0, <2>1
<1>11. CASE UNCHANGED vars
  BY Zenon, <1>0, <1>11 DEF vars, object, locals
<1>12. \A t \in Threads : ~Throw(t)
  BY Zenon DEF Throw
<1> QED BY <1>2, <1>3, <1>4, <1>5, <1>6, <1>7, <1>8, <1>9, <1>10, <1>11, <1>12, ZenonT(60) DEF Next, Continue

\* If payload operations do not throw, no call ever assigns to, moves from or
\* publishes an object that emplaceEnqueue destroyed.
THEOREM NoDeadObjectIsTouched == ~MayThrow => (Spec => []NoDeadAccess)
<1> SUFFICES ASSUME ~MayThrow PROVE Spec => []NoDeadAccess
  BY Zenon
<1>1. Init => DeadIsBeingReplaced
  BY PayloadAssumption DEF Init, DeadIsBeingReplaced
<1>2. Contents /\ DeadIsBeingReplaced => NoDeadAccess
  <2> SUFFICES ASSUME Contents, DeadIsBeingReplaced, NEW t \in Threads, OwnsSlot(t),
                      pc[t] # "emplace", data[Index(ticket[t])] = Dead
               PROVE  FALSE
    BY Zenon DEF NoDeadAccess, OwnsSlot
  <2>1. PICK u \in Threads : pc[u] = "emplace" /\ Index(ticket[u]) = Index(ticket[t])
    BY Zenon, ContentsTypes DEF DeadIsBeingReplaced
  <2> QED BY Zenon, <2>1, OwnershipExcludes DEF Contents, SlotExclusive, OwnsSlot
<1>3. Spec => []DeadIsBeingReplaced
  BY <1>1, ContentsInvariant, NextDead, PTL DEF Spec
<1> QED BY <1>2, <1>3, ContentsInvariant, PTL

-----------------------------------------------------------------------------
(* batchDequeue() and isEmpty() of a sole consumer.                        *)

\* One thread is on the reading side, the condition under which these two
\* members promise anything.
SoleConsumer == \A s, t \in Consumers \cup Probers : s = t

BatchLabels == {"batchLoop", "batchRet"}
EmptyLabels == {"emptyLoadRead", "emptyLoadWrite", "emptyTrue", "emptyFalse"}

\* Only a consumer or a prober is in a call of the reading side.
ReaderRoles ==
  \A t \in Threads :
    Dequeuing(t) \/ pc[t] \in BatchLabels \cup EmptyLabels \/ call[t] = "batch"
      => t \in Consumers \cup Probers

\* The sole consumer is ahead of the producers only while it spins, and what
\* isEmpty() loaded still says where the counters were.
EmptyInv(c) ==
  /\ pc[c] # "deqSpin" => readTicket <= writeTicket
  /\ Dequeuing(c) => readTicket = ticket[c] + 1
  /\ pc[c] = "emptyLoadRead" =>
       /\ readTicket <= ticket[c] /\ ticket[c] <= writeTicket
       /\ sawItem[c] => readTicket < ticket[c]
  /\ pc[c] = "emptyLoadWrite" =>
       ticket[c] = readTicket /\ (sawItem[c] => readTicket < writeTicket)
  /\ pc[c] = "emptyTrue" => ~sawItem[c]
  /\ pc[c] = "emptyFalse" => readTicket < writeTicket

\* Of a batchDequeue under way: how many items it hands back, the ticket of the
\* first, and how many it has moved out.
Wanted(n) == IF n \in 0 .. BATCH_SIZE THEN n ELSE BATCH_SIZE
FirstTicket(c) == readTicket - (IF Dequeuing(c) THEN batch[c].i + 1 ELSE batch[c].i)
Moved(c) == IF pc[c] = "deqRelease" THEN batch[c].i + 1 ELSE batch[c].i

BatchInv(c) ==
  /\ pc[c] \in BatchLabels => call[c] = "batch"
  /\ call[c] = "batch" =>
       /\ Dequeuing(c) \/ pc[c] \in BatchLabels
       /\ batch[c].count = Wanted(batch[c].asked)
       /\ batch[c].i <= batch[c].count
       /\ Dequeuing(c) => batch[c].i < batch[c].count
       /\ pc[c] = "batchRet" => batch[c].i = batch[c].count
       /\ pc[c] \in BatchLabels /\ batch[c].i > 0 => readTicket = ticket[c] + 1
       /\ FirstTicket(c) >= 0
       /\ \A j \in 0 .. Moved(c) - 1 :
            /\ got[FirstTicket(c) + j] # None
            /\ batchDequeueArray[j] = got[FirstTicket(c) + j]

SoleInv ==
  /\ Contents /\ ReaderRoles
  /\ \A c \in Consumers \cup Probers : EmptyInv(c) /\ BatchInv(c)

LEMMA Remainders ==
  ASSUME NEW m \in Nat, NEW n \in Int, n < m, n + m > 0
  PROVE  n % m = IF n >= 0 THEN n ELSE n + m
OBVIOUS

\* The clamp of batchDequeue, for negative counts too.
LEMMA ClampIsWanted == \A n \in BatchCounts : Clamp(n) = Wanted(n)
<1> SUFFICES ASSUME NEW n \in BatchCounts PROVE Clamp(n) = Wanted(n)
  BY Zenon
<1>1. PICK m \in Nat : m = 2^SizeTBits
  BY Zenon, BatchAssumption
<1>2. n \in Int /\ BATCH_SIZE \in Nat /\ n < m /\ BATCH_SIZE < n + m
  BY Zenon, <1>1, BatchAssumption, ParameterAssumption
<1>3. n % m = IF n >= 0 THEN n ELSE n + m
  <2>1. n + m > 0
    BY <1>2
  <2> QED BY Zenon, <1>2, <2>1, Remainders
<1>4. Clamp(n) = IF n % m > BATCH_SIZE THEN BATCH_SIZE ELSE n
  BY Zenon, <1>1 DEF Clamp, ToSizeT
<1> QED BY <1>2, <1>3, <1>4 DEF Wanted

LEMMA SoleTypes ==
  ASSUME SoleInv, NEW c \in Consumers \cup Probers
  PROVE  /\ Contents /\ TypeOK /\ c \in Threads
         /\ writeTicket \in Nat /\ readTicket \in Nat /\ ticket[c] \in Nat
         /\ batch[c].i \in Nat /\ batch[c].count \in Int
<1>1. Contents /\ c \in Threads
  BY Zenon DEF SoleInv, Threads
<1>2. TypeOK /\ writeTicket \in Nat /\ readTicket \in Nat /\ ticket[c] \in Nat
  BY Zenon, <1>1, ContentsTypes
<1>3. batch[c] \in [asked : Int, count : Int, i : Nat]
  BY Zenon, <1>1, <1>2 DEF TypeOK
<1> QED BY Zenon, <1>1, <1>2, <1>3

-----------------------------------------------------------------------------
(* Steps of other threads.                                                 *)

\* The steps that a thread outside the reading side can take.
WriterStep(t) ==
  \/ \E v \in Values, form \in Forms : EnqueueClaim(t, v, form)
  \/ EnqueueEnterSlot(t) \/ EnqueueAssign(t)
  \/ EmplaceDestroy(t) \/ EmplaceConstruct(t) \/ EnqueuePublish(t)
  \/ (Throw(t) /\ pc[t] # "deqMove")

LEMMA OthersWrite ==
  ASSUME ReaderRoles, NEW t \in Threads, t \notin Consumers \cup Probers,
         Call(t) \/ Continue(t) \/ Throw(t)
  PROVE  WriterStep(t)
<1>1. ~Dequeuing(t) /\ pc[t] \notin BatchLabels /\ pc[t] \notin EmptyLabels
  BY Zenon DEF ReaderRoles
<1>2. t \notin Consumers /\ t \notin Probers
  BY Zenon
<1>3. ~DequeueClaim(t) /\ ~IsEmptyStart(t) /\ \A n \in BatchCounts : ~BatchStart(t, n)
  BY Zenon, <1>2 DEF DequeueClaim, IsEmptyStart, BatchStart
<1>4. ~BatchClaim(t) /\ ~BatchDone(t) /\ ~BatchReturn(t)
  BY Zenon, <1>1 DEF BatchClaim, BatchDone, BatchReturn, BatchLabels
<1>5. ~DequeueEnterSlot(t) /\ ~DequeueMove(t) /\ ~DequeueRelease(t) /\ pc[t] # "deqMove"
  BY Zenon, <1>1 DEF DequeueEnterSlot, DequeueMove, DequeueRelease, Dequeuing
<1>6. ~IsEmptyCompare(t) /\ ~IsEmptyReturn(t)
  BY Zenon, <1>1 DEF IsEmptyCompare, IsEmptyReturn, EmptyLabels
<1> QED BY Zenon, <1>3, <1>4, <1>5, <1>6 DEF Call, Continue, WriterStep

\* What they do to the counters, to the thread itself and to the others.
WriterEffect(t) ==
  /\ UNCHANGED <<readTicket, batchDequeueArray, got, sawItem>>
  /\ writeTicket' = writeTicket \/ writeTicket' = writeTicket + 1
  /\ pc[t] = "idle" \/ Enqueuing(t)
  /\ pc'[t] = "idle" \/ Enqueuing(t)'
  /\ call'[t] \in {call[t], "none", "enqueue", "emplace"}
  /\ \A u \in Threads \ {t} :
       /\ pc'[u] = pc[u] /\ call'[u] = call[u] /\ ticket'[u] = ticket[u] /\ batch'[u] = batch[u]

LEMMA WriterSteps ==
  ASSUME TypeOK, NEW t \in Threads, WriterStep(t)
  PROVE  WriterEffect(t)
<1> USE DEF TypeOK
<1>1. ASSUME NEW v \in Values, NEW form \in Forms, EnqueueClaim(t, v, form)
      PROVE  WriterEffect(t)
  BY Zenon, <1>1, ParameterAssumption DEF EnqueueClaim, Goto, Enqueuing, WriterEffect
<1>2. CASE EnqueueEnterSlot(t) \/ EnqueueAssign(t) \/ EmplaceDestroy(t) \/ EmplaceConstruct(t)
  <2>1. UNCHANGED <<readTicket, writeTicket, batchDequeueArray, got, sawItem, call, ticket, batch>>
    BY Zenon, <1>2 DEF EnqueueEnterSlot, EnqueueAssign, EmplaceDestroy, EmplaceConstruct,
                       object, history
  <2>2. /\ Enqueuing(t) /\ Enqueuing(t)'
        /\ \A u \in Threads \ {t} : pc'[u] = pc[u]
    BY Zenon, <1>2 DEF EnqueueEnterSlot, EnqueueAssign, EmplaceDestroy, EmplaceConstruct,
                       Goto, Enqueuing
  <2> QED BY Zenon, <2>1, <2>2 DEF WriterEffect
<1>3. CASE EnqueuePublish(t) \/ (Throw(t) /\ pc[t] # "deqMove")
  <2>1. UNCHANGED <<readTicket, writeTicket, batchDequeueArray, got, sawItem>> /\ Return(t)
    BY Zenon, <1>3 DEF EnqueuePublish, Throw, history
  <2>2. Enqueuing(t)
    BY Zenon, <1>3 DEF EnqueuePublish, Throw, Enqueuing
  <2>3. /\ pc'[t] = "idle" /\ call'[t] = "none"
        /\ \A u \in Threads \ {t} :
             /\ pc'[u] = pc[u] /\ call'[u] = call[u] /\ ticket'[u] = ticket[u]
             /\ batch'[u] = batch[u]
    BY Zenon, <2>1 DEF Return, Goto
  <2> QED BY Zenon, <2>1, <2>2, <2>3 DEF WriterEffect
<1> QED BY Zenon, <1>1, <1>2, <1>3 DEF WriterStep

LEMMA OthersKeep ==
  ASSUME SoleInv, NEW c \in Consumers \cup Probers, NEW t \in Threads \ {c}, WriterEffect(t)
  PROVE  EmptyInv(c)' /\ BatchInv(c)'
<1>1. /\ c \in Threads /\ writeTicket \in Nat /\ readTicket \in Nat /\ ticket[c] \in Nat
      /\ EmptyInv(c) /\ BatchInv(c)
  BY Zenon, SoleTypes DEF SoleInv
<1>2. /\ UNCHANGED <<readTicket, batchDequeueArray, got, sawItem>>
      /\ pc'[c] = pc[c] /\ call'[c] = call[c] /\ ticket'[c] = ticket[c] /\ batch'[c] = batch[c]
  BY Zenon, <1>1 DEF WriterEffect
<1>3. \A k \in Nat : (k <= writeTicket => k <= writeTicket') /\ (k < writeTicket => k < writeTicket')
  <2>1. writeTicket' = writeTicket \/ writeTicket' = writeTicket + 1
    BY Zenon DEF WriterEffect
  <2> QED BY <1>1, <2>1
<1>4. EmptyInv(c)'
  BY Zenon, <1>1, <1>2, <1>3 DEF EmptyInv, Dequeuing
<1>5. BatchInv(c)'
  <2>1. Dequeuing(c)' <=> Dequeuing(c)
    BY Zenon, <1>2 DEF Dequeuing
  <2>2. FirstTicket(c)' = FirstTicket(c) /\ Moved(c)' = Moved(c)
    BY Zenon, <1>2, <2>1 DEF FirstTicket, Moved
  <2> QED BY Zenon, <1>1, <1>2, <2>1, <2>2 DEF BatchInv
<1> QED BY Zenon, <1>4, <1>5

-----------------------------------------------------------------------------
(* Steps of the consumer itself.                                           *)

\* Outside isEmpty() and the spin loop only the order of the counters counts.
LEMMA CalmEmpty ==
  ASSUME NEW c, readTicket' \in Nat, writeTicket' \in Nat, readTicket' <= writeTicket',
         pc'[c] \notin {"deqSpin", "deqMove", "deqRelease"}, pc'[c] \notin EmptyLabels
  PROVE  EmptyInv(c)'
BY Zenon DEF EmptyInv, Dequeuing, EmptyLabels

\* Outside batchDequeue there is nothing to keep.
LEMMA CalmBatch ==
  ASSUME NEW c, call'[c] # "batch", pc'[c] \notin BatchLabels
  PROVE  BatchInv(c)'
BY Zenon DEF BatchInv

LEMMA ReturnEffect ==
  ASSUME TypeOK, NEW t \in Threads, Return(t)
  PROVE  /\ pc'[t] = "idle" /\ call'[t] = "none"
         /\ \A u \in Threads \ {t} : pc'[u] = pc[u] /\ call'[u] = call[u]
BY Zenon DEF Return, Goto, TypeOK

LEMMA SoleWrites ==
  ASSUME SoleInv, NEW c \in Consumers \cup Probers, WriterStep(c)
  PROVE  EmptyInv(c)' /\ BatchInv(c)'
<1>1. /\ c \in Threads /\ TypeOK /\ writeTicket \in Nat /\ readTicket \in Nat
      /\ EmptyInv(c) /\ BatchInv(c) /\ WriterEffect(c)
  BY Zenon, SoleTypes, WriterSteps DEF SoleInv
<1>2. pc[c] = "idle" \/ Enqueuing(c)
  BY Zenon, <1>1 DEF WriterEffect
<1>3. readTicket <= writeTicket
  BY Zenon, <1>1, <1>2 DEF EmptyInv, Enqueuing
<1>4. readTicket' \in Nat /\ writeTicket' \in Nat /\ readTicket' <= writeTicket'
  <2>1. /\ readTicket' = readTicket
        /\ writeTicket' = writeTicket \/ writeTicket' = writeTicket + 1
    BY Zenon, <1>1 DEF WriterEffect
  <2> QED BY <1>1, <1>3, <2>1
<1>5. call[c] # "batch"
  BY Zenon, <1>1, <1>2 DEF BatchInv, BatchLabels, Enqueuing, Dequeuing
<1>6. call'[c] # "batch"
  BY Zenon, <1>1, <1>5 DEF WriterEffect
<1>7. /\ pc'[c] \notin {"deqSpin", "deqMove", "deqRelease"}
      /\ pc'[c] \notin EmptyLabels /\ pc'[c] \notin BatchLabels
  BY Zenon, <1>1 DEF WriterEffect, Enqueuing, EmptyLabels, BatchLabels
<1> QED BY Zenon, <1>4, <1>6, <1>7, CalmEmpty, CalmBatch

\* The end of a call that is not an enqueue: BatchReturn, IsEmptyReturn, an
\* exception of dequeue, and dequeue's own return.
LEMMA SoleReturns ==
  ASSUME SoleInv, NEW c \in Consumers \cup Probers, Return(c), pc[c] # "deqSpin",
         UNCHANGED <<readTicket, writeTicket>>
  PROVE  EmptyInv(c)' /\ BatchInv(c)'
<1>1. /\ c \in Threads /\ TypeOK /\ writeTicket \in Nat /\ readTicket \in Nat /\ EmptyInv(c)
  BY Zenon, SoleTypes DEF SoleInv
<1>2. readTicket' \in Nat /\ writeTicket' \in Nat /\ readTicket' <= writeTicket'
  BY Zenon, <1>1 DEF EmptyInv
<1>3. pc'[c] = "idle" /\ call'[c] = "none"
  BY Zenon, <1>1, ReturnEffect
<1>4. /\ pc'[c] \notin {"deqSpin", "deqMove", "deqRelease"}
      /\ pc'[c] \notin EmptyLabels /\ pc'[c] \notin BatchLabels /\ call'[c] # "batch"
  BY Zenon, <1>3 DEF EmptyLabels, BatchLabels
<1> QED BY Zenon, <1>2, <1>4, CalmEmpty, CalmBatch

LEMMA SoleProbes ==
  ASSUME SoleInv, NEW c \in Consumers \cup Probers, IsEmptyStart(c) \/ IsEmptyCompare(c)
  PROVE  EmptyInv(c)' /\ BatchInv(c)'
<1>1. /\ c \in Threads /\ TypeOK /\ writeTicket \in Nat /\ readTicket \in Nat /\ ticket[c] \in Nat
      /\ EmptyInv(c) /\ BatchInv(c)
  BY Zenon, SoleTypes DEF SoleInv
<1>2. UNCHANGED <<readTicket, writeTicket, call>>
  BY Zenon DEF IsEmptyStart, IsEmptyCompare, object
<1>3. pc[c] \in {"idle", "emptyLoadRead", "emptyLoadWrite"} /\ pc'[c] \in EmptyLabels
  BY Zenon, <1>1 DEF IsEmptyStart, IsEmptyCompare, Goto, TypeOK, EmptyLabels
<1>4. call[c] # "batch" /\ readTicket <= writeTicket
  BY Zenon, <1>1, <1>3 DEF BatchInv, BatchLabels, Dequeuing, EmptyInv
<1>5. BatchInv(c)'
  <2>1. call'[c] # "batch" /\ pc'[c] \notin BatchLabels
    BY Zenon, <1>2, <1>3, <1>4 DEF EmptyLabels, BatchLabels
  <2> QED BY Zenon, <2>1, CalmBatch
<1>6. CASE IsEmptyStart(c)
  <2>1. /\ \/ pc'[c] = "emptyLoadRead" /\ ticket'[c] = writeTicket
           \/ pc'[c] = "emptyLoadWrite" /\ ticket'[c] = readTicket
        /\ sawItem'[c] = (writeTicket > readTicket)
    BY Zenon, <1>1, <1>6 DEF IsEmptyStart, Goto, TypeOK
  <2>2. writeTicket <= writeTicket /\ (writeTicket > readTicket => readTicket < writeTicket)
    BY <1>1
  <2> QED BY Zenon, <1>2, <1>4, <1>5, <2>1, <2>2 DEF EmptyInv, Dequeuing
<1>7. CASE IsEmptyCompare(c)
  <2>1. sawItem' = sawItem
    BY Zenon, <1>7 DEF IsEmptyCompare, history
  <2>2. PICK k \in Nat :
          /\ readTicket <= k /\ k <= writeTicket /\ (sawItem[c] => readTicket < writeTicket)
          /\ pc'[c] = IF k = readTicket THEN "emptyTrue" ELSE "emptyFalse"
          /\ k = readTicket => ~sawItem[c]
    <3>1. CASE pc[c] = "emptyLoadRead"
      <4>1. pc'[c] = IF ticket[c] = readTicket THEN "emptyTrue" ELSE "emptyFalse"
        BY Zenon, <1>1, <1>7, <3>1 DEF IsEmptyCompare, Goto, TypeOK
      <4>2. /\ readTicket <= ticket[c] /\ ticket[c] <= writeTicket
            /\ sawItem[c] => readTicket < ticket[c]
        BY Zenon, <1>1, <3>1 DEF EmptyInv
      <4>3. sawItem[c] => readTicket < writeTicket
        BY <1>1, <4>2
      <4>4. ticket[c] = readTicket => ~sawItem[c]
        BY <1>1, <4>2
      <4> QED BY Zenon, <1>1, <4>1, <4>2, <4>3, <4>4
    <3>2. CASE pc[c] = "emptyLoadWrite"
      <4>1. pc'[c] = IF readTicket = writeTicket THEN "emptyTrue" ELSE "emptyFalse"
        BY Zenon, <1>1, <1>7, <3>2 DEF IsEmptyCompare, Goto, TypeOK, EmptyInv
      <4>2. sawItem[c] => readTicket < writeTicket
        BY Zenon, <1>1, <3>2 DEF EmptyInv
      <4>3. writeTicket <= writeTicket
        BY <1>1
      <4>4. writeTicket = readTicket => ~sawItem[c]
        BY <1>1, <4>2
      <4> QED BY Zenon, <1>1, <1>4, <4>1, <4>2, <4>3, <4>4
    <3> QED BY Zenon, <1>7, <3>1, <3>2 DEF IsEmptyCompare
  <2>3. k # readTicket => readTicket < writeTicket
    BY <1>1, <2>2
  <2> QED BY Zenon, <1>2, <1>4, <1>5, <2>1, <2>2, <2>3 DEF EmptyInv, Dequeuing
<1> QED BY Zenon, <1>5, <1>6, <1>7

LEMMA SoleStartsBatch ==
  ASSUME SoleInv, NEW c \in Consumers \cup Probers, NEW n \in BatchCounts, BatchStart(c, n)
  PROVE  EmptyInv(c)' /\ BatchInv(c)'
<1>1. /\ c \in Threads /\ TypeOK /\ writeTicket \in Nat /\ readTicket \in Nat /\ EmptyInv(c)
  BY Zenon, SoleTypes DEF SoleInv
<1>2. UNCHANGED <<readTicket, writeTicket>> /\ pc[c] = "idle"
  BY Zenon DEF BatchStart, object
<1>3. /\ pc'[c] = "batchLoop"
      /\ batch'[c] = [asked |-> n, count |-> Clamp(n), i |-> 0]
  BY Zenon, <1>1 DEF BatchStart, Goto, TypeOK
<1>4. EmptyInv(c)'
  <2>1. readTicket' \in Nat /\ writeTicket' \in Nat /\ readTicket' <= writeTicket'
    BY Zenon, <1>1, <1>2 DEF EmptyInv
  <2>2. pc'[c] \notin {"deqSpin", "deqMove", "deqRelease"} /\ pc'[c] \notin EmptyLabels
    BY Zenon, <1>3 DEF EmptyLabels
  <2> QED BY Zenon, <2>1, <2>2, CalmEmpty
<1>5. BatchInv(c)'
  <2>1. call'[c] = "batch" /\ pc'[c] \in BatchLabels /\ pc'[c] # "batchRet" /\ ~Dequeuing(c)'
    BY Zenon, <1>1, <1>3 DEF BatchStart, TypeOK, BatchLabels, Dequeuing
  <2>2. batch'[c].i = 0 /\ batch'[c].count = Wanted(n) /\ batch'[c].asked = n
    BY <1>3, ClampIsWanted
  <2>3. Wanted(n) \in Nat
    BY ParameterAssumption DEF Wanted
  <2>4. FirstTicket(c)' = readTicket - 0 /\ Moved(c)' = 0
    BY Zenon, <1>2, <1>3, <2>1, <2>2 DEF FirstTicket, Moved
  <2>5. FirstTicket(c)' >= 0
    BY <1>1, <2>4
  <2>6. 0 <= Wanted(n) /\ ~(0 > 0) /\ \A j \in 0 .. Moved(c)' - 1 : FALSE
    BY <2>3, <2>4
  <2> QED BY Zenon, <2>1, <2>2, <2>5, <2>6 DEF BatchInv
<1> QED BY Zenon, <1>4, <1>5

\* A read ticket is claimed, by dequeue or by the loop of batchDequeue.
LEMMA SoleClaims ==
  ASSUME SoleInv, NEW c \in Consumers \cup Probers, DequeueClaim(c) \/ BatchClaim(c)
  PROVE  EmptyInv(c)' /\ BatchInv(c)'
<1>1. /\ c \in Threads /\ TypeOK /\ writeTicket \in Nat /\ readTicket \in Nat
      /\ batch[c].i \in Nat /\ batch[c].count \in Int /\ EmptyInv(c) /\ BatchInv(c)
  BY Zenon, SoleTypes DEF SoleInv
<1>2. /\ readTicket' = readTicket + 1 /\ ticket'[c] = readTicket /\ pc'[c] = "deqSpin"
      /\ UNCHANGED <<writeTicket, batch, batchDequeueArray, got>>
  BY Zenon, <1>1 DEF DequeueClaim, BatchClaim, ClaimRead, Goto, TypeOK
<1>3. Dequeuing(c)' /\ pc'[c] \notin BatchLabels /\ pc'[c] # "batchRet"
  BY Zenon, <1>2 DEF Dequeuing, BatchLabels
<1>4. EmptyInv(c)'
  BY Zenon, <1>2 DEF EmptyInv
<1>5. CASE DequeueClaim(c)
  <2>1. call'[c] # "batch"
    BY Zenon, <1>1, <1>5 DEF DequeueClaim, TypeOK
  <2> QED BY Zenon, <1>3, <1>4, <2>1, CalmBatch
<1>6. CASE BatchClaim(c)
  <2>1. /\ pc[c] = "batchLoop" /\ batch[c].i < batch[c].count /\ call' = call
    BY Zenon, <1>6 DEF BatchClaim
  <2>2. ~Dequeuing(c) /\ call[c] = "batch" /\ pc[c] # "deqRelease"
    BY Zenon, <1>1, <2>1 DEF BatchInv, BatchLabels, Dequeuing
  <2>3. FirstTicket(c) = readTicket - batch[c].i
    BY Zenon, <2>2 DEF FirstTicket
  <2>4. FirstTicket(c)' = readTicket' - (batch'[c].i + 1)
    BY Zenon, <1>3 DEF FirstTicket
  <2>5. FirstTicket(c)' = FirstTicket(c)
    BY <1>1, <1>2, <2>3, <2>4
  <2>6. Moved(c)' = Moved(c)
    BY Zenon, <1>2, <2>2 DEF Moved
  <2>7. BatchInv(c)'
    BY Zenon, <1>1, <1>2, <1>3, <2>1, <2>2, <2>5, <2>6 DEF BatchInv
  <2> QED BY Zenon, <1>4, <2>7
<1> QED BY Zenon, <1>5, <1>6

\* The end of the loop of batchDequeue.
LEMMA SoleEndsLoop ==
  ASSUME SoleInv, NEW c \in Consumers \cup Probers, BatchDone(c)
  PROVE  EmptyInv(c)' /\ BatchInv(c)'
<1>1. /\ c \in Threads /\ TypeOK /\ writeTicket \in Nat /\ readTicket \in Nat
      /\ batch[c].i \in Nat /\ batch[c].count \in Int /\ EmptyInv(c) /\ BatchInv(c)
  BY Zenon, SoleTypes DEF SoleInv
<1>2. /\ pc[c] = "batchLoop" /\ pc'[c] = "batchRet" /\ batch[c].i >= batch[c].count
      /\ UNCHANGED <<readTicket, writeTicket, batchDequeueArray, got, call, ticket, batch>>
  BY Zenon, <1>1 DEF BatchDone, Goto, TypeOK, object, history
<1>3. EmptyInv(c)'
  <2>1. readTicket' \in Nat /\ writeTicket' \in Nat /\ readTicket' <= writeTicket'
    BY Zenon, <1>1, <1>2 DEF EmptyInv
  <2>2. pc'[c] \notin {"deqSpin", "deqMove", "deqRelease"} /\ pc'[c] \notin EmptyLabels
    BY Zenon, <1>2 DEF EmptyLabels
  <2> QED BY Zenon, <2>1, <2>2, CalmEmpty
<1>4. BatchInv(c)'
  <2>1. /\ pc[c] \in BatchLabels /\ pc'[c] \in BatchLabels
        /\ ~Dequeuing(c) /\ ~Dequeuing(c)' /\ call[c] = "batch"
    BY Zenon, <1>1, <1>2 DEF BatchLabels, Dequeuing, BatchInv
  <2>2. batch[c].i <= batch[c].count
    BY Zenon, <1>1, <2>1 DEF BatchInv
  <2>3. batch[c].i = batch[c].count
    BY <1>1, <1>2, <2>2
  <2>4. FirstTicket(c)' = FirstTicket(c) /\ Moved(c)' = Moved(c)
    BY Zenon, <1>2, <2>1 DEF FirstTicket, Moved
  <2> QED BY Zenon, <1>1, <1>2, <2>1, <2>3, <2>4 DEF BatchInv
<1> QED BY Zenon, <1>3, <1>4

\* The consumer leaves its spin loop: its ticket is published, so it is not
\* ahead of the producers any more.
LEMMA SoleEntersSlot ==
  ASSUME SoleInv, NEW c \in Consumers \cup Probers, DequeueEnterSlot(c)
  PROVE  EmptyInv(c)' /\ BatchInv(c)'
<1>1. /\ c \in Threads /\ Contents /\ TypeOK /\ writeTicket \in Nat /\ readTicket \in Nat
      /\ ticket[c] \in Nat /\ EmptyInv(c) /\ BatchInv(c)
  BY Zenon, SoleTypes DEF SoleInv
<1>2. /\ pc[c] = "deqSpin" /\ pc'[c] = "deqMove" /\ AdmitsReader(ticket[c])
      /\ UNCHANGED <<readTicket, writeTicket, batchDequeueArray, got, call, ticket, batch>>
  BY Zenon, <1>1 DEF DequeueEnterSlot, Goto, TypeOK, object, history
<1>3. Dequeuing(c) /\ Dequeuing(c)' /\ pc[c] \notin BatchLabels /\ pc'[c] \notin BatchLabels
  BY Zenon, <1>2 DEF Dequeuing, BatchLabels
<1>4. ticket[c] < writeTicket /\ readTicket = ticket[c] + 1
  <2>1. ticket[c] \in pub
    BY Zenon, <1>1, <1>2, <1>3, ContentsTypes DEF Contents, AdmitsPublished
  <2> QED BY Zenon, <1>1, <1>3, <2>1 DEF Contents, HistoryFollowsCalls, EmptyInv
<1>5. readTicket <= writeTicket
  BY <1>1, <1>4
<1>6. EmptyInv(c)'
  BY Zenon, <1>2, <1>4, <1>5 DEF EmptyInv
<1>7. FirstTicket(c)' = FirstTicket(c) /\ Moved(c)' = Moved(c)
  BY Zenon, <1>2, <1>3 DEF FirstTicket, Moved
<1>8. BatchInv(c)'
  BY Zenon, <1>1, <1>2, <1>3, <1>7 DEF BatchInv
<1> QED BY Zenon, <1>6, <1>8

\* An item is moved out, in batchDequeue to the next place of its array.
LEMMA SoleMoves ==
  ASSUME SoleInv, NEW c \in Consumers \cup Probers, DequeueMove(c)
  PROVE  EmptyInv(c)' /\ BatchInv(c)'
<1>1. /\ c \in Threads /\ Contents /\ TypeOK /\ readTicket \in Nat /\ ticket[c] \in Nat
      /\ batch[c].i \in Nat /\ batch[c].count \in Int /\ EmptyInv(c) /\ BatchInv(c)
  BY Zenon, SoleTypes DEF SoleInv
<1> DEFINE d == data[Index(ticket[c])]
<1>2. /\ pc[c] = "deqMove" /\ pc'[c] = "deqRelease"
      /\ got' = [got EXCEPT ![ticket[c]] = d]
      /\ UNCHANGED <<readTicket, writeTicket, call, ticket, batch>>
  BY Zenon, <1>1 DEF DequeueMove, Goto, TypeOK
<1>3. /\ Dequeuing(c) /\ Dequeuing(c)' /\ pc[c] \notin BatchLabels
      /\ pc'[c] \notin BatchLabels /\ pc'[c] # "batchRet" /\ pc[c] # "deqRelease"
  BY Zenon, <1>2 DEF Dequeuing, BatchLabels
<1>4. EmptyInv(c)'
  BY Zenon, <1>1, <1>2, <1>3 DEF EmptyInv
<1>5. CASE call[c] # "batch"
  <2>1. call'[c] # "batch"
    BY Zenon, <1>2, <1>5
  <2> QED BY Zenon, <1>3, <1>4, <2>1, CalmBatch
<1>6. CASE call[c] = "batch"
  <2>1. /\ FirstTicket(c) = readTicket - (batch[c].i + 1)
        /\ FirstTicket(c)' = readTicket' - (batch'[c].i + 1)
        /\ Moved(c) = batch[c].i /\ Moved(c)' = batch'[c].i + 1
    BY Zenon, <1>2, <1>3 DEF FirstTicket, Moved
  <2> DEFINE f == FirstTicket(c)
             m == batch[c].i
  <2>2. /\ f >= 0 /\ m < batch[c].count /\ batch[c].count = Wanted(batch[c].asked)
        /\ m <= batch[c].count
        /\ \A j \in 0 .. m - 1 : got[f + j] # None /\ batchDequeueArray[j] = got[f + j]
    BY Zenon, <1>1, <1>3, <1>6, <2>1 DEF BatchInv
  <2>3. readTicket = ticket[c] + 1
    BY Zenon, <1>1, <1>3 DEF EmptyInv
  <2>4. f \in Nat /\ f + m = ticket[c] /\ \A j \in 0 .. m - 1 : f + j # ticket[c] /\ j # m
    <3> HIDE DEF f, m
    <3>1. m \in Nat /\ readTicket \in Nat /\ ticket[c] \in Nat /\ f = readTicket - (m + 1) /\ f >= 0
      BY Zenon, <1>1, <2>1, <2>2 DEF f, m
    <3>2. f \in Nat /\ f + m = ticket[c]
      BY <2>3, <3>1
    <3>3. \A j \in 0 .. m - 1 : f + j # f + m /\ j # m
      BY <3>1, <3>2
    <3> QED BY Zenon, <3>2, <3>3
  <2>5. m \in 0 .. BATCH_SIZE - 1
    <3> HIDE DEF m
    <3>1. Wanted(batch[c].asked) <= BATCH_SIZE
      BY ParameterAssumption DEF Wanted
    <3>2. PICK n \in Int : n = batch[c].count
      BY Zenon, <1>1
    <3>3. m \in Nat /\ BATCH_SIZE \in Nat /\ m < n /\ n <= BATCH_SIZE
      BY Zenon, <1>1, <2>2, <3>1, <3>2, ParameterAssumption DEF m
    <3> QED BY <3>3
  <2>6. /\ d \in Payloads /\ ticket[c] \in Tickets
        /\ Index(ticket[c]) \in Slots /\ d # None
    BY Zenon, <1>1, <1>3, ContentsTypes, PayloadAssumption DEF TypeOK, Payloads
  <2>7. batchDequeueArray' = [batchDequeueArray EXCEPT ![m] = d]
    BY Zenon, <1>6 DEF DequeueMove
  <2>8. batchDequeueArray'[m] = d /\ got'[f + m] = d
    <3>1. DOMAIN batchDequeueArray = 0 .. BATCH_SIZE - 1 /\ DOMAIN got = Tickets
      BY Zenon, <1>1 DEF TypeOK
    <3> QED BY Zenon, <1>2, <2>4, <2>5, <2>6, <2>7, <3>1
  <2> HIDE DEF f, m, d
  <2>9. ASSUME NEW j \in 0 .. m
        PROVE  got'[f + j] # None /\ batchDequeueArray'[j] = got'[f + j]
    <3>1. CASE j = m
      BY Zenon, <2>6, <2>8, <3>1
    <3>2. CASE j # m
      <4>0. m \in Nat
        BY Zenon, <1>1 DEF m
      <4>1. j \in 0 .. m - 1
        BY <3>2, <4>0
      <4>2. got'[f + j] = got[f + j] /\ batchDequeueArray'[j] = batchDequeueArray[j]
        <5>1. ticket[c] < MaxTickets /\ MaxTickets \in Nat
          BY <2>6, ParameterAssumption DEF Tickets
        <5>2. f + j \in Tickets /\ j \in 0 .. BATCH_SIZE - 1
          BY <1>1, <2>4, <2>5, <4>1, <5>1, ParameterAssumption DEF Tickets
        <5> QED BY Zenon, <1>1, <1>2, <2>4, <2>7, <4>1, <5>2 DEF TypeOK
      <4> QED BY Zenon, <2>2, <4>1, <4>2
    <3> QED BY Zenon, <3>1, <3>2
  <2>10. FirstTicket(c)' = f /\ Moved(c)' - 1 = m
    BY <1>1, <1>2, <2>1 DEF f, m
  <2>11. batch' = batch /\ batch'[c].i = m
    BY Zenon, <1>2 DEF m
  <2>12. BatchInv(c)'
    BY Zenon, <1>3, <2>2, <2>9, <2>10, <2>11 DEF BatchInv
  <2> QED BY Zenon, <1>4, <2>12
<1> QED BY Zenon, <1>5, <1>6

LEMMA SoleReleases ==
  ASSUME SoleInv, NEW c \in Consumers \cup Probers, DequeueRelease(c)
  PROVE  EmptyInv(c)' /\ BatchInv(c)'
<1>1. /\ c \in Threads /\ TypeOK /\ writeTicket \in Nat /\ readTicket \in Nat
      /\ batch[c].i \in Nat /\ batch[c].count \in Int /\ EmptyInv(c) /\ BatchInv(c)
  BY Zenon, SoleTypes DEF SoleInv
<1>2. pc[c] = "deqRelease" /\ UNCHANGED <<writeTicket, readTicket, batchDequeueArray, got>>
  BY Zenon DEF DequeueRelease, history
<1>3. CASE Return(c)
  BY Zenon, <1>2, <1>3, SoleReturns
<1>4. CASE /\ call[c] = "batch" /\ Goto(c, "batchLoop") /\ UNCHANGED <<call, ticket>>
           /\ batch' = [batch EXCEPT ![c] =
                          [asked |-> @.asked, count |-> @.count, i |-> @.i + 1]]
  <2>1. /\ pc'[c] = "batchLoop" /\ UNCHANGED <<call, ticket>>
        /\ batch'[c].asked = batch[c].asked /\ batch'[c].count = batch[c].count
        /\ batch'[c].i = batch[c].i + 1
    BY Zenon, <1>1, <1>4 DEF Goto, TypeOK
  <2>2. /\ pc'[c] \notin {"deqSpin", "deqMove", "deqRelease"} /\ pc'[c] \notin EmptyLabels
        /\ pc'[c] \in BatchLabels /\ pc'[c] # "batchRet" /\ pc'[c] # "deqRelease"
        /\ Dequeuing(c) /\ ~Dequeuing(c)'
    BY Zenon, <1>2, <2>1 DEF EmptyLabels, BatchLabels, Dequeuing
  <2>3. EmptyInv(c)'
    <3>1. readTicket' \in Nat /\ writeTicket' \in Nat /\ readTicket' <= writeTicket'
      BY Zenon, <1>1, <1>2 DEF EmptyInv
    <3> QED BY Zenon, <2>2, <3>1, CalmEmpty
  <2>4. readTicket = ticket[c] + 1
    BY Zenon, <1>1, <2>2 DEF EmptyInv
  <2>5. FirstTicket(c)' = FirstTicket(c) /\ Moved(c)' = Moved(c)
    BY Zenon, <1>2, <2>1, <2>2 DEF FirstTicket, Moved
  <2>6. batch[c].i + 1 <= batch[c].count
    <3>1. batch[c].i < batch[c].count
      BY Zenon, <1>1, <1>4, <2>2 DEF BatchInv
    <3> QED BY <1>1, <3>1
  <2>7. BatchInv(c)'
    BY Zenon, <1>1, <1>2, <1>4, <2>1, <2>2, <2>4, <2>5, <2>6 DEF BatchInv
  <2> QED BY Zenon, <2>3, <2>7
<1> QED BY Zenon, <1>3, <1>4 DEF DequeueRelease

-----------------------------------------------------------------------------
(* The invariant of the sole consumer, and what it says.                   *)

LEMMA InitSole == Init => SoleInv
<1> SUFFICES ASSUME Init PROVE SoleInv
  BY Zenon
<1>1. Contents
  BY Zenon, InitContents
<1>2. \A t \in Threads : pc[t] = "idle" /\ call[t] = "none"
  BY Zenon DEF Init
<1>3. ReaderRoles
  BY Zenon, <1>2 DEF ReaderRoles, Dequeuing, BatchLabels, EmptyLabels
<1>4. readTicket <= writeTicket
  BY DEF Init
<1>5. ASSUME NEW c \in Consumers \cup Probers PROVE EmptyInv(c) /\ BatchInv(c)
  <2>1. pc[c] = "idle" /\ call[c] = "none"
    BY Zenon, <1>2 DEF Threads
  <2> QED BY Zenon, <1>4, <2>1 DEF EmptyInv, BatchInv, Dequeuing, BatchLabels
<1> QED BY Zenon, <1>1, <1>3, <1>5 DEF SoleInv

\* A thread enters the reading side only by a call that its kind makes.
LEMMA NextRoles ==
  ASSUME TypeOK, ReaderRoles, NEW t \in Threads, Call(t) \/ Continue(t) \/ Throw(t)
  PROVE  ReaderRoles'
<1> DEFINE Reads(u) == Dequeuing(u) \/ pc[u] \in BatchLabels \cup EmptyLabels \/ call[u] = "batch"
<1>1. CASE WriterStep(t)
  <2>1. WriterEffect(t)
    BY Zenon, <1>1, WriterSteps
  <2>2. ASSUME NEW u \in Threads \ {t} PROVE Reads(u)' => Reads(u)
    BY Zenon, <2>1 DEF WriterEffect, Dequeuing
  <2>3. Reads(t)' => call[t] = "batch"
    BY Zenon, <2>1 DEF WriterEffect, Dequeuing, Enqueuing, BatchLabels, EmptyLabels
  <2> QED BY Zenon, <2>2, <2>3 DEF ReaderRoles
<1>2. CASE ~WriterStep(t)
  <2>1. t \in Consumers \cup Probers
    BY Zenon, <1>2, OthersWrite
  <2>2. ASSUME NEW u \in Threads \ {t} PROVE pc'[u] = pc[u] /\ call'[u] = call[u]
    <3>1. CASE Call(t)
      BY Zenon, <1>2, <3>1 DEF Call, WriterStep, DequeueClaim, ClaimRead, BatchStart, IsEmptyStart,
                               Goto, TypeOK
    <3>2. CASE BatchClaim(t) \/ BatchDone(t) \/ DequeueEnterSlot(t) \/ DequeueMove(t) \/ IsEmptyCompare(t)
      BY Zenon, <3>2 DEF BatchClaim, ClaimRead, BatchDone, DequeueEnterSlot, DequeueMove,
                         IsEmptyCompare, Goto, TypeOK
    <3>3. CASE Return(t)
      BY Zenon, <3>3, ReturnEffect
    <3>4. CASE Goto(t, "batchLoop") /\ UNCHANGED call
      BY Zenon, <3>4 DEF Goto, TypeOK
    <3> QED BY Zenon, <1>2, <3>1, <3>2, <3>3, <3>4
            DEF Continue, WriterStep, BatchReturn, IsEmptyReturn, Throw, DequeueRelease
  <2> QED BY Zenon, <2>1, <2>2 DEF ReaderRoles, Dequeuing
<1> QED BY Zenon, <1>1, <1>2

LEMMA NextSole == SoleConsumer /\ SoleInv /\ [Next]_vars => SoleInv'
<1> SUFFICES ASSUME SoleConsumer, SoleInv, [Next]_vars PROVE SoleInv'
  BY Zenon
<1>1. Contents /\ Contents' /\ TypeOK /\ ReaderRoles
  BY Zenon, NextContents, ContentsTypes DEF SoleInv
<1>2. ASSUME NEW t \in Threads, Call(t) \/ Continue(t) \/ Throw(t) PROVE SoleInv'
  <2>1. ReaderRoles'
    BY Zenon, <1>1, <1>2, NextRoles
  <2>2. ASSUME NEW c \in Consumers \cup Probers PROVE EmptyInv(c)' /\ BatchInv(c)'
    <3>1. CASE t # c
      <4>1. WriterEffect(t)
        BY Zenon, <1>1, <1>2, <3>1, OthersWrite, WriterSteps DEF SoleConsumer
      <4> QED BY Zenon, <3>1, <4>1, OthersKeep
    <3>2. CASE t = c /\ WriterStep(c)
      BY Zenon, <3>2, SoleWrites
    <3>3. CASE t = c /\ ~WriterStep(c)
      <4>1. CASE Call(c)
        BY Zenon, <3>3, <4>1, SoleClaims, SoleStartsBatch, SoleProbes DEF Call, WriterStep
      <4>2. CASE Return(c) /\ pc[c] # "deqSpin" /\ UNCHANGED <<readTicket, writeTicket>>
        BY Zenon, <4>2, SoleReturns
      <4>3. CASE BatchReturn(c) \/ IsEmptyReturn(c) \/ Throw(c)
        <5>1. Return(c) /\ pc[c] # "deqSpin" /\ UNCHANGED <<readTicket, writeTicket>>
          BY Zenon, <4>3 DEF BatchReturn, IsEmptyReturn, Throw, object
        <5> QED BY Zenon, <4>2, <5>1
      <4>4. CASE Continue(c)
        BY Zenon, <3>3, <4>3, <4>4, SoleClaims, SoleEndsLoop, SoleEntersSlot, SoleMoves, SoleReleases,
                  SoleProbes DEF Continue, WriterStep
      <4> QED BY Zenon, <1>2, <3>3, <4>1, <4>3, <4>4
    <3> QED BY Zenon, <3>1, <3>2, <3>3
  <2> QED BY Zenon, <1>1, <2>1, <2>2 DEF SoleInv
<1>3. CASE ClearBuffer
  <2>1. /\ \A t \in Threads : pc'[t] = pc[t] /\ call'[t] = call[t] /\ pc[t] = "idle"
        /\ readTicket' = 0 /\ writeTicket' = 0
    BY Zenon, <1>3 DEF ClearBuffer, Quiescent, locals
  <2>2. ReaderRoles'
    BY Zenon, <1>1, <2>1 DEF ReaderRoles, Dequeuing
  <2>3. readTicket' <= writeTicket'
    BY <2>1
  <2>4. ASSUME NEW c \in Consumers \cup Probers PROVE EmptyInv(c)' /\ BatchInv(c)'
    <3>1. pc'[c] = "idle" /\ pc[c] = "idle" /\ call'[c] = call[c] /\ BatchInv(c)
      BY Zenon, <2>1 DEF Threads, SoleInv
    <3>2. call[c] # "batch"
      BY Zenon, <3>1 DEF BatchInv, BatchLabels, Dequeuing
    <3> QED BY Zenon, <2>3, <3>1, <3>2 DEF EmptyInv, BatchInv, Dequeuing, BatchLabels
  <2> QED BY Zenon, <1>1, <2>2, <2>4 DEF SoleInv
<1>4. CASE UNCHANGED <<writeTicket, readTicket, batchDequeueArray, locals, history>>
  <2>1. UNCHANGED <<writeTicket, readTicket, batchDequeueArray, pc, call, ticket, batch, got, sawItem>>
    BY Zenon, <1>4 DEF locals, history
  <2>2. ReaderRoles'
    BY Zenon, <1>1, <2>1 DEF ReaderRoles, Dequeuing
  <2>3. ASSUME NEW c \in Consumers \cup Probers PROVE EmptyInv(c)' /\ BatchInv(c)'
    <3>1. EmptyInv(c) /\ BatchInv(c)
      BY Zenon DEF SoleInv
    <3>2. FirstTicket(c)' = FirstTicket(c) /\ Moved(c)' = Moved(c) /\ (Dequeuing(c)' <=> Dequeuing(c))
      BY Zenon, <2>1 DEF FirstTicket, Moved, Dequeuing
    <3> QED BY Zenon, <2>1, <3>1, <3>2 DEF EmptyInv, BatchInv
  <2> QED BY Zenon, <1>1, <2>2, <2>3 DEF SoleInv
<1> QED BY Zenon, <1>2, <1>3, <1>4 DEF Next, vars, object, ClaimPtrNoSync

\* BatchResult, for a sole consumer and any number of producers: batchDequeue
\* fills its array with as many items as asked for, clamped to BATCH_SIZE, those
\* of consecutive tickets.
THEOREM BatchIsWhole == SoleConsumer => (Spec => []BatchResult)
<1> SUFFICES ASSUME SoleConsumer PROVE Spec => []BatchResult
  BY Zenon
<1>1. SoleInv => BatchResult
  <2> SUFFICES ASSUME SoleInv, NEW t \in Threads, pc[t] = "batchRet"
               PROVE  /\ batch[t].i = Wanted(batch[t].asked)
                      /\ \A j \in 0 .. batch[t].i - 1 :
                           batchDequeueArray[j] = put[ticket[t] - (batch[t].i - 1) + j]
    BY Zenon DEF BatchResult, Wanted
  <2>1. t \in Consumers \cup Probers
    BY Zenon DEF SoleInv, ReaderRoles, BatchLabels
  <2>2. /\ BatchInv(t) /\ Contents /\ readTicket \in Nat /\ ticket[t] \in Nat
        /\ batch[t].i \in Nat /\ readTicket <= MaxTickets /\ MaxTickets \in Nat
    <3>1. readTicket \in 0 .. MaxTickets
      BY Zenon, <2>1, SoleTypes DEF TypeOK
    <3>2. readTicket <= MaxTickets /\ MaxTickets \in Nat
      BY <3>1, ParameterAssumption
    <3> QED BY Zenon, <2>1, <3>2, SoleTypes DEF SoleInv
  <2>3. pc[t] \in BatchLabels /\ ~Dequeuing(t) /\ pc[t] # "deqRelease"
    BY Zenon DEF BatchLabels, Dequeuing
  <2>4. FirstTicket(t) = readTicket - batch[t].i /\ Moved(t) = batch[t].i
    BY Zenon, <2>3 DEF FirstTicket, Moved
  <2>5. /\ batch[t].i = batch[t].count /\ batch[t].count = Wanted(batch[t].asked)
        /\ batch[t].i > 0 => readTicket = ticket[t] + 1
        /\ FirstTicket(t) >= 0
        /\ \A j \in 0 .. batch[t].i - 1 :
             got[FirstTicket(t) + j] # None /\ batchDequeueArray[j] = got[FirstTicket(t) + j]
    BY Zenon, <2>2, <2>3, <2>4 DEF BatchInv
  <2>6. ASSUME NEW j \in 0 .. batch[t].i - 1
        PROVE  batchDequeueArray[j] = put[ticket[t] - (batch[t].i - 1) + j]
    <3>1. FirstTicket(t) + j \in Tickets /\ FirstTicket(t) + j = ticket[t] - (batch[t].i - 1) + j
      BY <2>2, <2>4, <2>5 DEF Tickets
    <3>2. got[FirstTicket(t) + j] = put[FirstTicket(t) + j]
      BY Zenon, <2>2, <2>5, <3>1 DEF Contents, Delivery
    <3> QED BY Zenon, <2>5, <3>1, <3>2
  <2> QED BY Zenon, <2>5, <2>6
<1>2. Spec => []SoleInv
  BY InitSole, NextSole, PTL DEF Spec
<1> QED BY <1>1, <1>2, PTL

\* IsEmptyIsHonest, for a sole consumer that also calls isEmpty(): the answer is
\* that of some moment of the call, and a false one still stands afterwards.
THEOREM EmptyAnswersHonestly == SoleConsumer => (Spec => []IsEmptyIsHonest)
<1> SUFFICES ASSUME SoleConsumer PROVE Spec => []IsEmptyIsHonest
  BY Zenon
<1>1. SoleInv => IsEmptyIsHonest
  <2> SUFFICES ASSUME SoleInv, NEW t \in Threads, pc[t] \in {"emptyTrue", "emptyFalse"}
               PROVE  /\ pc[t] = "emptyTrue" => ~sawItem[t]
                      /\ pc[t] = "emptyFalse" => writeTicket > readTicket
    BY Zenon DEF IsEmptyIsHonest
  <2>1. t \in Consumers \cup Probers
    BY Zenon DEF SoleInv, ReaderRoles, EmptyLabels
  <2>2. EmptyInv(t) /\ readTicket \in Nat /\ writeTicket \in Nat
    BY Zenon, <2>1, SoleTypes DEF SoleInv
  <2>3. /\ pc[t] = "emptyTrue" => ~sawItem[t]
        /\ pc[t] = "emptyFalse" => readTicket < writeTicket
    BY Zenon, <2>2 DEF EmptyInv
  <2> QED BY Zenon, <2>2, <2>3
<1>2. Spec => []SoleInv
  BY InitSole, NextSole, PTL DEF Spec
<1> QED BY <1>1, <1>2, PTL

-----------------------------------------------------------------------------
(* The ring as a queue: what the callers of a ticket are up to.            *)

Callers == Producers \cup Consumers

\* Producers enqueue and consumers dequeue, in a batch or one by one.
CallersRoles ==
  \A t \in Threads :
    /\ Enqueuing(t) => t \in Producers
    /\ Dequeuing(t) \/ pc[t] = "batchLoop" => t \in Consumers

\* A read ticket ahead of the writers is in the hands of a dequeue.
WaitersPresent ==
  \A k \in Tickets : writeTicket <= k /\ k < readTicket => Readers(k) # {}

\* A number that admits a writer is less than a lap ahead of the readers.
LapBound == \A i \in Slots : Index(seq[i]) = i => seq[i] < readTicket + SIZE

\* The inductive invariant of the refinement.
RefInv == Contents /\ CallersRoles /\ WaitersPresent /\ LapBound

-----------------------------------------------------------------------------
(* Windows.                                                                *)

LEMMA WindowIs ==
  ASSUME NEW f, NEW a \in Nat, NEW len \in Nat
  PROVE  Window(f, a, a + len) = [j \in 1 .. len |-> f[a + j - 1]]
<1>1. (a + len) - a = len
  OBVIOUS
<1> QED BY Zenon, <1>1 DEF Window

LEMMA WindowIsSeq ==
  ASSUME NEW f, NEW a \in Nat, NEW len \in Nat
  PROVE  \E T : Window(f, a, a + len) \in Seq(T) /\ Len(Window(f, a, a + len)) = len
<1> DEFINE T == {f[a + j - 1] : j \in 1 .. len}
           w == Window(f, a, a + len)
<1>0. w = [j \in 1 .. len |-> f[a + j - 1]]
  BY WindowIs
<1>1. w \in [1 .. len -> T]
  BY Zenon, <1>0
<1> HIDE DEF w, T
<1>2. w \in Seq(T) /\ Len(w) = len
  BY <1>1
<1> QED BY Zenon, <1>2 DEF w

\* f and g have the same values from a to b - 1.
Agree(f, g, a, b) == \A k \in Nat : a <= k /\ k < b => f[k] = g[k]

LEMMA WindowSame ==
  ASSUME NEW f, NEW g, NEW a \in Nat, NEW b \in Nat, Agree(f, g, a, b)
  PROVE  Window(f, a, b) = Window(g, a, b)
<1>1. \A j \in 1 .. b - a : a + j - 1 \in Nat /\ a <= a + j - 1 /\ a + j - 1 < b
  OBVIOUS
<1> QED BY Zenon, <1>1 DEF Window, Agree

LEMMA WindowEmpty ==
  ASSUME NEW f, NEW a \in Nat, NEW b \in Nat, b <= a
  PROVE  Window(f, a, b) = <<>>
<1>1. 1 .. b - a = {}
  OBVIOUS
<1>2. Window(f, a, b) = [j \in {} |-> f[a + j - 1]]
  BY Zenon, <1>1 DEF Window
<1> QED BY <1>2

\* One more element at the end, and one less at the front.
Gains(f, g, a, b) == Window(g, a, b + 1) = Append(Window(f, a, b), g[b])
Loses(f, g, a, b) ==
  /\ Window(f, a, b) # <<>> /\ Head(Window(f, a, b)) = f[a]
  /\ Tail(Window(f, a, b)) = Window(g, a + 1, b)

LEMMA WindowGrows ==
  ASSUME NEW f, NEW g, NEW a \in Nat, NEW b \in Nat, a <= b, Agree(f, g, a, b)
  PROVE  Gains(f, g, a, b)
<1>1. PICK len \in Nat : b = a + len
  <2>1. b - a \in Nat /\ b = a + (b - a)
    OBVIOUS
  <2> QED BY Zenon, <2>1
<1> DEFINE w == Window(f, a, b)
<1>2. PICK T : w \in Seq(T) /\ Len(w) = len
  BY Zenon, <1>1, WindowIsSeq
<1>3. w = [j \in 1 .. len |-> f[a + j - 1]]
  <2>1. b - a = len
    BY <1>1
  <2> QED BY Zenon, <2>1 DEF Window
<1>4. Window(g, a, b + 1) = [j \in 1 .. len + 1 |-> g[a + j - 1]]
  <2>1. (b + 1) - a = len + 1
    BY <1>1
  <2> QED BY Zenon, <2>1 DEF Window
<1>5. Append(w, g[b]) = [j \in 1 .. len + 1 |-> IF j = len + 1 THEN g[b] ELSE w[j]]
  <2> HIDE DEF w
  <2>1. PICK e : e = g[b]
    BY Zenon
  <2>2. Append(w, e) = [j \in 1 .. len + 1 |-> IF j = len + 1 THEN e ELSE w[j]]
    <3>1. w \in Seq(T \cup {e}) /\ e \in T \cup {e}
      BY <1>2
    <3>2. Append(w, e) \in Seq(T \cup {e}) /\ Len(Append(w, e)) = len + 1
      BY <1>2, <3>1
    <3>3. \A j \in 1 .. len + 1 : Append(w, e)[j] = IF j = len + 1 THEN e ELSE w[j]
      BY <1>2, <3>1
    <3>4. \A u \in Seq(T \cup {e}) : u \in [1 .. Len(u) -> T \cup {e}]
      OBVIOUS
    <3>5. Append(w, e) \in [1 .. len + 1 -> T \cup {e}]
      BY Zenon, <3>2, <3>4
    <3> QED BY Zenon, <3>3, <3>5
  <2> QED BY Zenon, <2>1, <2>2
<1>6. ASSUME NEW j \in 1 .. len + 1 PROVE g[a + j - 1] = IF j = len + 1 THEN g[b] ELSE w[j]
  <2>1. CASE j = len + 1
    <3>1. a + j - 1 = b
      BY <1>1, <2>1
    <3> QED BY Zenon, <2>1, <3>1
  <2>2. CASE j # len + 1
    <3>1. j \in 1 .. len /\ a + j - 1 \in Nat /\ a <= a + j - 1 /\ a + j - 1 < b
      BY <1>1, <2>2
    <3> QED BY Zenon, <1>3, <2>2, <3>1 DEF Agree
  <2> QED BY Zenon, <2>1, <2>2
<1> HIDE DEF w
<1> QED BY Zenon, <1>4, <1>5, <1>6 DEF w, Gains

LEMMA WindowShrinks ==
  ASSUME NEW f, NEW g, NEW a \in Nat, NEW b \in Nat, a < b, Agree(f, g, a + 1, b)
  PROVE  Loses(f, g, a, b)
<1>1. PICK len \in Nat : b = a + (len + 1)
  <2>1. b - a - 1 \in Nat /\ b = a + ((b - a - 1) + 1)
    OBVIOUS
  <2> QED BY Zenon, <2>1
<1> DEFINE w == Window(f, a, b)
<1>2. PICK T : w \in Seq(T) /\ Len(w) = len + 1
  <2>1. len + 1 \in Nat
    OBVIOUS
  <2> QED BY Zenon, <1>1, <2>1, WindowIsSeq
<1>3. w = [j \in 1 .. len + 1 |-> f[a + j - 1]]
  <2>1. b - a = len + 1
    BY <1>1
  <2> QED BY Zenon, <2>1 DEF Window
<1>4. Window(g, a + 1, b) = [j \in 1 .. len |-> g[a + 1 + j - 1]]
  <2>1. b - (a + 1) = len
    BY <1>1
  <2> QED BY Zenon, <2>1 DEF Window
<1>5. w # <<>> /\ Head(w) = w[1] /\ Tail(w) = [j \in 1 .. len |-> w[j + 1]]
  <2> HIDE DEF w
  <2>1. w # <<>> /\ Head(w) = w[1]
    BY <1>2
  <2>2. Tail(w) \in Seq(T) /\ Len(Tail(w)) = len /\ \A i \in 1 .. len : Tail(w)[i] = w[i + 1]
    BY <1>2, <2>1
  <2>3. \A u \in Seq(T) : u \in [1 .. Len(u) -> T]
    OBVIOUS
  <2>4. Tail(w) \in [1 .. len -> T]
    BY Zenon, <2>2, <2>3
  <2> QED BY Zenon, <2>1, <2>2, <2>4
<1>6. w[1] = f[a]
  <2>1. 1 \in 1 .. len + 1 /\ a + 1 - 1 = a
    OBVIOUS
  <2> QED BY Zenon, <1>3, <2>1
<1>7. ASSUME NEW j \in 1 .. len PROVE w[j + 1] = g[a + 1 + j - 1]
  <2>1. /\ j + 1 \in 1 .. len + 1 /\ a + (j + 1) - 1 = a + 1 + j - 1
        /\ a + 1 + j - 1 \in Nat /\ a + 1 <= a + 1 + j - 1 /\ a + 1 + j - 1 < b
    BY <1>1
  <2> QED BY Zenon, <1>3, <2>1 DEF Agree
<1> HIDE DEF w
<1> QED BY Zenon, <1>4, <1>5, <1>6, <1>7 DEF w, Loses

LEMMA SoleEmpty == Sole({}) = Nobody
BY Zenon DEF Sole

LEMMA SoleMember ==
  ASSUME NEW S, S # {}
  PROVE  Sole(S) \in S
<1>1. \E x : x \in S
  BY Zenon
<1> QED BY Zenon, <1>1 DEF Sole

-----------------------------------------------------------------------------
(* A step of the ring seen from its callers: the claim of a ticket, the    *)
(* end of a call by return or exception, clearBuffer, or nothing at all.   *)

OthersStay(t) ==
  \A u \in Threads \ {t} : pc'[u] = pc[u] /\ ticket'[u] = ticket[u] /\ val'[u] = val[u]

SameCall(u) ==
  /\ Enqueuing(u)' <=> Enqueuing(u)
  /\ Dequeuing(u)' <=> Dequeuing(u)
  /\ Enqueuing(u) \/ Dequeuing(u) => ticket'[u] = ticket[u]

PutStarts(t, v) ==
  /\ t \in Producers /\ v \in Values /\ pc[t] = "idle" /\ pc'[t] = "enqSpin" /\ OthersStay(t)
  /\ writeTicket < MaxTickets /\ writeTicket' = writeTicket + 1 /\ ticket'[t] = writeTicket
  /\ put' = [put EXCEPT ![writeTicket] = v] /\ UNCHANGED <<readTicket, seq>>

PutEnds(t) ==
  /\ Writing(t) /\ pc'[t] = "idle" /\ OthersStay(t) /\ UNCHANGED <<writeTicket, readTicket, put>>
  /\ seq' = seq \/ seq' = [seq EXCEPT ![Index(ticket[t])] = ticket[t] + 1]

GetStarts(t) ==
  /\ t \in Consumers /\ pc[t] \in {"idle", "batchLoop"} /\ pc'[t] = "deqSpin" /\ OthersStay(t)
  /\ readTicket < MaxTickets /\ readTicket' = readTicket + 1 /\ ticket'[t] = readTicket
  /\ UNCHANGED <<writeTicket, put, seq>>

GetEnds(t) ==
  /\ Reading(t) /\ pc'[t] \in {"idle", "batchLoop"} /\ OthersStay(t)
  /\ UNCHANGED <<writeTicket, readTicket, put>>
  /\ seq' = seq \/ seq' = [seq EXCEPT ![Index(ticket[t])] = ticket[t] + SIZE]

Empties ==
  /\ Quiescent /\ UNCHANGED <<pc, ticket, val>>
  /\ writeTicket' = 0 /\ readTicket' = 0 /\ seq' = PreparedSeq

Idles ==
  /\ UNCHANGED <<writeTicket, readTicket, put, seq>>
  /\ \A u \in Threads :
       /\ SameCall(u) /\ ResultOf(u)' = ResultOf(u)
       /\ pc'[u] = "batchLoop" => pc[u] = "batchLoop" \/ u \in Consumers

LEMMA OthersIdle ==
  ASSUME NEW t \in Threads, OthersStay(t), UNCHANGED <<writeTicket, readTicket, put, seq>>,
         SameCall(t), ResultOf(t)' = ResultOf(t),
         pc'[t] = "batchLoop" => pc[t] = "batchLoop" \/ t \in Consumers
  PROVE  Idles
<1> SUFFICES ASSUME NEW u \in Threads \ {t}
             PROVE  /\ SameCall(u) /\ ResultOf(u)' = ResultOf(u)
                    /\ pc'[u] = "batchLoop" => pc[u] = "batchLoop" \/ u \in Consumers
  BY Zenon DEF Idles
<1>1. pc'[u] = pc[u] /\ ticket'[u] = ticket[u] /\ val'[u] = val[u]
  BY Zenon DEF OthersStay
<1> QED BY Zenon, <1>1 DEF SameCall, Enqueuing, Dequeuing, ResultOf

\* A reader that owns its slot has a writer before it.
LEMMA ReadersAreServed ==
  ASSUME Contents, NEW t \in Threads, Reading(t)
  PROVE  ticket[t] \in Nat /\ ticket[t] \in Tickets /\ ticket[t] < writeTicket
<1>1. ticket[t] \in Tickets /\ ticket[t] \in Nat
  BY Zenon, ContentsTypes DEF Reading, Dequeuing
<1>2. AdmitsReader(ticket[t])
  BY Zenon DEF Contents, Ownership, HeldSlots
<1> QED BY Zenon, <1>1, <1>2 DEF Contents, AdmitsPublished, HistoryFollowsCalls

LEMMA WriterIdles ==
  ASSUME TypeOK, NEW t \in Threads,
         EnqueueEnterSlot(t) \/ EnqueueAssign(t) \/ EmplaceDestroy(t) \/ EmplaceConstruct(t)
  PROVE  Idles
<1>1. /\ UNCHANGED <<writeTicket, readTicket, put, seq, ticket, val>>
      /\ pc[t] \in {"enqSpin", "enqWrite", "emplace"}
      /\ \E to \in {"enqWrite", "emplace", "enqPublish"} : pc' = [pc EXCEPT ![t] = to]
  BY Zenon DEF EnqueueEnterSlot, EnqueueAssign, EmplaceDestroy, EmplaceConstruct, Goto, object, history
<1>2. pc'[t] \in {"enqWrite", "emplace", "enqPublish"} /\ OthersStay(t)
  BY Zenon, <1>1 DEF TypeOK, OthersStay
<1>3. SameCall(t) /\ pc'[t] # "batchLoop"
  BY Zenon, <1>1, <1>2 DEF SameCall, Enqueuing, Dequeuing
<1>4. ResultOf(t) = Nobody /\ ResultOf(t)' = Nobody
  BY Zenon, <1>1, <1>2 DEF ResultOf
<1> QED BY Zenon, <1>1, <1>2, <1>3, <1>4, OthersIdle

LEMMA OutsideIdles ==
  ASSUME TypeOK, NEW t \in Threads,
         \/ BatchDone(t) \/ BatchReturn(t) \/ IsEmptyStart(t) \/ IsEmptyCompare(t) \/ IsEmptyReturn(t)
         \/ \E n \in BatchCounts : BatchStart(t, n)
  PROVE  Idles
<1> DEFINE Outside == {"idle", "batchLoop", "batchRet", "emptyLoadRead", "emptyLoadWrite", "emptyTrue", "emptyFalse"}
<1>1. UNCHANGED <<writeTicket, readTicket, put, seq>>
  BY Zenon DEF BatchDone, BatchReturn, IsEmptyStart, IsEmptyCompare, IsEmptyReturn, BatchStart, object, history
<1>2. /\ pc[t] \in Outside /\ pc'[t] \in Outside /\ OthersStay(t)
      /\ pc'[t] = "batchLoop" => t \in Consumers
  <2>1. CASE BatchReturn(t) \/ IsEmptyReturn(t)
    <3>1. Return(t) /\ pc[t] \in Outside
      BY Zenon, <2>1 DEF BatchReturn, IsEmptyReturn
    <3> QED BY Zenon, <3>1, ReturnLocals DEF OthersStay
  <2>2. CASE BatchDone(t) \/ IsEmptyCompare(t)
    <3>1. /\ UNCHANGED <<ticket, val>> /\ pc[t] \in Outside
          /\ \E to \in {"batchRet", "emptyTrue", "emptyFalse"} : pc' = [pc EXCEPT ![t] = to]
      BY Zenon, <2>2 DEF BatchDone, IsEmptyCompare, Goto
    <3> QED BY Zenon, <3>1 DEF TypeOK, OthersStay
  <2>3. CASE IsEmptyStart(t)
    <3>1. /\ UNCHANGED val /\ pc[t] = "idle"
          /\ \E to \in {"emptyLoadRead", "emptyLoadWrite"} : pc' = [pc EXCEPT ![t] = to]
          /\ \E k : ticket' = [ticket EXCEPT ![t] = k]
      BY Zenon, <2>3 DEF IsEmptyStart, Goto
    <3> QED BY Zenon, <3>1 DEF TypeOK, OthersStay
  <2>4. CASE \E n \in BatchCounts : BatchStart(t, n)
    <3>1. /\ UNCHANGED <<ticket, val>> /\ pc[t] = "idle" /\ t \in Consumers
          /\ pc' = [pc EXCEPT ![t] = "batchLoop"]
      BY Zenon, <2>4 DEF BatchStart, Goto
    <3> QED BY Zenon, <3>1 DEF TypeOK, OthersStay
  <2> QED BY Zenon, <2>1, <2>2, <2>3, <2>4
<1>3. SameCall(t)
  BY Zenon, <1>2 DEF SameCall, Enqueuing, Dequeuing
<1>4. ResultOf(t) = Nobody /\ ResultOf(t)' = Nobody
  BY Zenon, <1>2 DEF ResultOf
<1> QED BY Zenon, <1>1, <1>2, <1>3, <1>4, OthersIdle

LEMMA ReaderIdles ==
  ASSUME Contents, NEW t \in Threads, DequeueEnterSlot(t) \/ DequeueMove(t)
  PROVE  Idles
<1>0. TypeOK /\ ticket[t] \in Nat
  BY Zenon, ContentsTypes
<1>1. CASE DequeueEnterSlot(t)
  <2>1. /\ UNCHANGED <<writeTicket, readTicket, put, seq, ticket, val>>
        /\ pc[t] = "deqSpin" /\ pc' = [pc EXCEPT ![t] = "deqMove"]
    BY Zenon, <1>1 DEF DequeueEnterSlot, Goto, object, history
  <2>2. pc'[t] = "deqMove" /\ OthersStay(t)
    BY Zenon, <1>0, <2>1 DEF TypeOK, OthersStay
  <2>3. SameCall(t) /\ ResultOf(t)' = ResultOf(t)
    BY Zenon, <2>1, <2>2 DEF SameCall, Enqueuing, Dequeuing, ResultOf
  <2> QED BY Zenon, <2>1, <2>2, <2>3, OthersIdle
<1>2. CASE DequeueMove(t)
  <2> DEFINE i == Index(ticket[t])
  <2>1. /\ UNCHANGED <<writeTicket, readTicket, put, seq, ticket>>
        /\ pc[t] = "deqMove" /\ pc' = [pc EXCEPT ![t] = "deqRelease"]
        /\ val' = [val EXCEPT ![t] = data[i]]
    BY Zenon, <1>2 DEF DequeueMove, Goto
  <2>2. pc'[t] = "deqRelease" /\ val'[t] = data[i] /\ OthersStay(t)
    BY Zenon, <1>0, <2>1 DEF TypeOK, OthersStay
  <2>3. ticket[t] \in Tickets /\ ticket[t] < writeTicket /\ AdmitsReader(ticket[t])
    BY Zenon, <2>1, ReadersAreServed DEF Reading, Contents, Ownership, HeldSlots
  <2>4. got[ticket[t]] = None /\ ~AbandonedRead(ticket[t])
    BY Zenon, <2>1 DEF Contents, HistoryFollowsCalls, CallFollows, AbandonedRead, Dequeuing
  <2>5. data[i] = put[ticket[t]]
    BY Zenon, <2>3, <2>4 DEF Contents, ReadableIntact
  <2>6. SameCall(t)
    BY Zenon, <2>1, <2>2 DEF SameCall, Enqueuing, Dequeuing
  <2>7. ResultOf(t) = put[ticket[t]] /\ ResultOf(t)' = val'[t]
    BY Zenon, <2>1, <2>2, <2>3 DEF ResultOf
  <2> QED BY Zenon, <2>1, <2>2, <2>5, <2>6, <2>7, OthersIdle
<1> QED BY Zenon, <1>1, <1>2

\* Every step of the ring is of one of these kinds.
LEMMA StepKinds ==
  ASSUME Contents, CallersRoles, [Next]_vars
  PROVE  \/ Idles \/ Empties
         \/ \E t \in Threads : (\E v \in Values : PutStarts(t, v)) \/ PutEnds(t) \/ GetStarts(t) \/ GetEnds(t)
<1>0. TypeOK
  BY Zenon, ContentsTypes
<1>1. ASSUME NEW t \in Threads, NEW v \in Values, NEW form \in Forms, EnqueueClaim(t, v, form)
      PROVE  PutStarts(t, v)
  <2>1. /\ pc' = [pc EXCEPT ![t] = "enqSpin"] /\ ticket' = [ticket EXCEPT ![t] = writeTicket]
        /\ val' = [val EXCEPT ![t] = v]
    BY Zenon, <1>1 DEF EnqueueClaim, Goto
  <2>2. pc'[t] = "enqSpin" /\ ticket'[t] = writeTicket /\ OthersStay(t)
    BY Zenon, <1>0, <2>1 DEF TypeOK, OthersStay
  <2> QED BY Zenon, <1>1, <2>2 DEF EnqueueClaim, PutStarts
<1>2. ASSUME NEW t \in Threads, EnqueuePublish(t) \/ (Throw(t) /\ pc[t] # "deqMove")
      PROVE  PutEnds(t)
  <2>1. /\ Return(t) /\ Writing(t) /\ UNCHANGED <<writeTicket, readTicket, put>>
        /\ seq' = seq \/ seq' = [seq EXCEPT ![Index(ticket[t])] = ticket[t] + 1]
    BY Zenon, <1>2 DEF EnqueuePublish, Throw, Writing, history
  <2>2. pc'[t] = "idle" /\ OthersStay(t)
    BY Zenon, <1>0, <2>1, ReturnLocals DEF OthersStay
  <2> QED BY Zenon, <2>1, <2>2 DEF PutEnds
<1>3. ASSUME NEW t \in Threads, DequeueClaim(t) \/ BatchClaim(t)
      PROVE  GetStarts(t)
  <2>1. ClaimRead(t) /\ t \in Consumers /\ pc[t] \in {"idle", "batchLoop"}
    BY Zenon, <1>3 DEF DequeueClaim, BatchClaim, CallersRoles
  <2>2. /\ pc' = [pc EXCEPT ![t] = "deqSpin"] /\ ticket' = [ticket EXCEPT ![t] = readTicket]
        /\ UNCHANGED val
    BY Zenon, <2>1 DEF ClaimRead, Goto
  <2>3. pc'[t] = "deqSpin" /\ ticket'[t] = readTicket /\ OthersStay(t)
    BY Zenon, <1>0, <2>2 DEF TypeOK, OthersStay
  <2> QED BY Zenon, <2>1, <2>3 DEF ClaimRead, GetStarts
<1>4. ASSUME NEW t \in Threads, DequeueRelease(t) \/ (Throw(t) /\ pc[t] = "deqMove")
      PROVE  GetEnds(t)
  <2>1. /\ Reading(t) /\ UNCHANGED <<writeTicket, readTicket, put>>
        /\ seq' = seq \/ seq' = [seq EXCEPT ![Index(ticket[t])] = ticket[t] + SIZE]
        /\ Return(t) \/ (pc' = [pc EXCEPT ![t] = "batchLoop"] /\ UNCHANGED <<ticket, val>>)
    BY Zenon, <1>4 DEF DequeueRelease, NextLap, Throw, Reading, Goto, history
  <2>2. pc'[t] \in {"idle", "batchLoop"} /\ OthersStay(t)
    <3>1. CASE Return(t)
      BY Zenon, <1>0, <3>1, ReturnLocals DEF OthersStay
    <3>2. CASE pc' = [pc EXCEPT ![t] = "batchLoop"] /\ UNCHANGED <<ticket, val>>
      BY Zenon, <1>0, <3>2 DEF TypeOK, OthersStay
    <3> QED BY Zenon, <2>1, <3>1, <3>2
  <2> QED BY Zenon, <2>1, <2>2 DEF GetEnds
<1>5. CASE ClearBuffer
  BY Zenon, <1>5 DEF ClearBuffer, Empties, locals
<1>6. CASE UNCHANGED vars \/ \E i \in Slots, v \in Values : ClaimPtrNoSync(i, v)
  <2>1. UNCHANGED <<writeTicket, readTicket, put, seq, pc, ticket, val>>
    BY Zenon, <1>6 DEF ClaimPtrNoSync, vars, object, locals, history
  <2> QED BY Zenon, <2>1 DEF Idles, SameCall, Enqueuing, Dequeuing, ResultOf
<1>7. ASSUME NEW t \in Threads, Call(t) \/ Continue(t) \/ Throw(t)
      PROVE  Idles \/ (\E v \in Values : PutStarts(t, v)) \/ PutEnds(t) \/ GetStarts(t) \/ GetEnds(t)
  <2>1. CASE Call(t)
    BY Zenon, <1>0, <1>1, <1>3, <2>1, OutsideIdles DEF Call
  <2>2. CASE Continue(t)
    BY Zenon, <1>0, <1>2, <1>3, <1>4, <2>2, WriterIdles, ReaderIdles, OutsideIdles DEF Continue
  <2>3. CASE Throw(t)
    BY Zenon, <1>2, <1>4, <2>3
  <2> QED BY Zenon, <1>7, <2>1, <2>2, <2>3
<1> QED BY Zenon, <1>5, <1>6, <1>7 DEF Next

-----------------------------------------------------------------------------
(* The calls under a ticket.                                               *)

LEMMA OthersSame ==
  ASSUME NEW t \in Threads, OthersStay(t), NEW u \in Threads \ {t}
  PROVE  SameCall(u) /\ (pc'[u] = "batchLoop" <=> pc[u] = "batchLoop")
<1>1. pc'[u] = pc[u] /\ ticket'[u] = ticket[u]
  BY Zenon DEF OthersStay
<1> QED BY Zenon, <1>1 DEF SameCall, Enqueuing, Dequeuing

\* The writers and readers of a ticket before and after a step of t.
LEMMA CallsOfOthers ==
  ASSUME NEW t \in Threads, OthersStay(t), NEW k
  PROVE  /\ (~(Enqueuing(t) /\ ticket[t] = k) /\ ~(Enqueuing(t) /\ ticket[t] = k)') => Writers(k)' = Writers(k)
         /\ (~(Dequeuing(t) /\ ticket[t] = k) /\ ~(Dequeuing(t) /\ ticket[t] = k)') => Readers(k)' = Readers(k)
<1>1. \A u \in Threads \ {t} : SameCall(u)
  BY Zenon, OthersSame
<1>2. \A u \in Threads \ {t} : (u \in Writers(k)' <=> u \in Writers(k)) /\ (u \in Readers(k)' <=> u \in Readers(k))
  BY Zenon, <1>1 DEF SameCall, Writers, Readers
<1>3. Writers(k) \subseteq Threads /\ Writers(k)' \subseteq Threads /\ Readers(k) \subseteq Threads /\ Readers(k)' \subseteq Threads
  BY Zenon DEF Writers, Readers
<1>4. /\ t \in Writers(k) <=> Enqueuing(t) /\ ticket[t] = k
      /\ t \in Writers(k)' <=> (Enqueuing(t) /\ ticket[t] = k)'
      /\ t \in Readers(k) <=> Dequeuing(t) /\ ticket[t] = k
      /\ t \in Readers(k)' <=> (Dequeuing(t) /\ ticket[t] = k)'
  BY Zenon DEF Writers, Readers
<1>5. ASSUME NEW A, NEW B, A \subseteq Threads, B \subseteq Threads, t \notin A, t \notin B,
             \A u \in Threads \ {t} : u \in A <=> u \in B
      PROVE  A = B
  <2>1. \A u : u \in A <=> u \in B
    BY Zenon, <1>5
  <2> QED BY Zenon, <2>1
<1>6. t \notin Writers(k) /\ t \notin Writers(k)' => Writers(k)' = Writers(k)
  BY Zenon, <1>2, <1>3, <1>5
<1>7. t \notin Readers(k) /\ t \notin Readers(k)' => Readers(k)' = Readers(k)
  BY Zenon, <1>2, <1>3, <1>5
<1> QED BY Zenon, <1>4, <1>6, <1>7

LEMMA InitRefInv == Init => RefInv
<1> SUFFICES ASSUME Init PROVE RefInv
  BY Zenon
<1>1. Contents
  BY Zenon, InitContents
<1>2. /\ \A t \in Threads : pc[t] = "idle"
      /\ seq = [i \in Slots |-> i] /\ readTicket = 0
  BY Zenon DEF Init, PreparedSeq
<1>3. CallersRoles
  BY Zenon, <1>2 DEF CallersRoles, Enqueuing, Dequeuing
<1>4. WaitersPresent
  <2>1. \A k \in Tickets : ~(k < 0)
    BY ParameterAssumption DEF Tickets
  <2> QED BY Zenon, <1>2, <2>1 DEF WaitersPresent
<1>5. LapBound
  <2>1. \A i \in Slots : i < 0 + SIZE
    BY SizeAssumption DEF Slots
  <2> QED BY Zenon, <1>2, <2>1 DEF LapBound
<1> QED BY Zenon, <1>1, <1>3, <1>4, <1>5 DEF RefInv

LEMMA RefTypes ==
  ASSUME RefInv
  PROVE  /\ TypeOK /\ writeTicket \in Nat /\ readTicket \in Nat
         /\ writeTicket <= MaxTickets /\ readTicket <= MaxTickets
         /\ \A i \in Slots : seq[i] \in Nat
         /\ \A t \in Threads : ticket[t] \in Nat /\ Index(ticket[t]) \in Slots
         /\ \A k \in Nat : k < MaxTickets <=> k \in Tickets
<1>1. TypeOK
  BY Zenon, ContentsTypes DEF RefInv
<1>2. writeTicket \in 0 .. MaxTickets /\ readTicket \in 0 .. MaxTickets /\ seq \in [Slots -> 0 .. MaxTickets + SIZE]
  BY Zenon, <1>1 DEF TypeOK
<1>3. /\ writeTicket \in Nat /\ readTicket \in Nat
      /\ writeTicket <= MaxTickets /\ readTicket <= MaxTickets
      /\ \A i \in Slots : seq[i] \in Nat
      /\ \A k \in Nat : k < MaxTickets <=> k \in Tickets
  BY <1>2, ParameterAssumption, SizeAssumption DEF Tickets
<1>4. \A t \in Threads : ticket[t] \in Nat /\ Index(ticket[t]) \in Slots
  BY Zenon, ContentsTypes DEF RefInv
<1> QED BY Zenon, <1>1, <1>3, <1>4

LEMMA NextCallersRoles ==
  ASSUME Contents, CallersRoles, [Next]_vars
  PROVE  CallersRoles'
<1>1. CASE Idles
  BY Zenon, <1>1 DEF Idles, CallersRoles, SameCall
<1>2. CASE Empties
  BY Zenon, <1>2 DEF Empties, CallersRoles, Enqueuing, Dequeuing
<1>3. ASSUME NEW t \in Threads, (\E v \in Values : PutStarts(t, v)) \/ PutEnds(t) \/ GetStarts(t) \/ GetEnds(t)
      PROVE  CallersRoles'
  <2>1. OthersStay(t)
    BY Zenon, <1>3 DEF PutStarts, PutEnds, GetStarts, GetEnds
  <2>2. \A u \in Threads \ {t} : SameCall(u) /\ (pc'[u] = "batchLoop" <=> pc[u] = "batchLoop")
    BY Zenon, <2>1, OthersSame
  <2>3. /\ Enqueuing(t)' => t \in Producers
        /\ Dequeuing(t)' \/ pc'[t] = "batchLoop" => t \in Consumers
    BY Zenon, <1>3 DEF PutStarts, PutEnds, GetStarts, GetEnds, CallersRoles, Enqueuing, Dequeuing, Reading
  <2> QED BY Zenon, <2>2, <2>3 DEF CallersRoles, SameCall
<1> QED BY Zenon, <1>1, <1>2, <1>3, StepKinds

LEMMA NextWaitersPresent ==
  ASSUME RefInv, [Next]_vars
  PROVE  WaitersPresent'
<1>0. /\ Contents /\ CallersRoles /\ WaitersPresent /\ writeTicket \in Nat /\ readTicket \in Nat
      /\ \A k \in Tickets : k \in Nat
  BY Zenon, RefTypes, ContentsTypes DEF RefInv
<1>1. CASE Idles
  <2>1. \A k \in Tickets : Readers(k)' = Readers(k)
    BY Zenon, <1>1 DEF Idles, SameCall, Readers
  <2> QED BY Zenon, <1>0, <1>1, <2>1 DEF WaitersPresent, Idles
<1>2. CASE Empties
  <2>1. \A k \in Tickets : ~(k < 0)
    BY <1>0
  <2> QED BY Zenon, <1>2, <2>1 DEF Empties, WaitersPresent
<1>3. ASSUME NEW t \in Threads, NEW v \in Values, PutStarts(t, v)
      PROVE  WaitersPresent'
  <2>1. /\ OthersStay(t) /\ ~Dequeuing(t) /\ ~Dequeuing(t)' /\ writeTicket' = writeTicket + 1 /\ readTicket' = readTicket
    BY Zenon, <1>3 DEF PutStarts, Dequeuing
  <2>2. \A k \in Tickets : Readers(k)' = Readers(k)
    BY Zenon, <2>1, CallsOfOthers
  <2>3. \A k \in Tickets : writeTicket + 1 <= k => writeTicket <= k
    BY <1>0
  <2> QED BY Zenon, <1>0, <2>1, <2>2, <2>3 DEF WaitersPresent
<1>4. ASSUME NEW t \in Threads, PutEnds(t)
      PROVE  WaitersPresent'
  <2>1. /\ OthersStay(t) /\ ~Dequeuing(t) /\ ~Dequeuing(t)' /\ writeTicket' = writeTicket /\ readTicket' = readTicket
    BY Zenon, <1>4 DEF PutEnds, Dequeuing, Writing
  <2>2. \A k \in Tickets : Readers(k)' = Readers(k)
    BY Zenon, <2>1, CallsOfOthers
  <2> QED BY Zenon, <1>0, <2>1, <2>2 DEF WaitersPresent
<1>5. ASSUME NEW t \in Threads, GetStarts(t)
      PROVE  WaitersPresent'
  <2>1. /\ OthersStay(t) /\ ~Dequeuing(t) /\ Dequeuing(t)' /\ ticket'[t] = readTicket
        /\ writeTicket' = writeTicket /\ readTicket' = readTicket + 1
    BY Zenon, <1>5 DEF GetStarts, Dequeuing
  <2>2. \A k \in Tickets : k # readTicket => Readers(k)' = Readers(k)
    BY Zenon, <2>1, CallsOfOthers
  <2>3. \A k \in Tickets : k = readTicket => Readers(k)' # {}
    BY Zenon, <2>1 DEF Readers
  <2>4. \A k \in Tickets : k < readTicket + 1 => k < readTicket \/ k = readTicket
    BY <1>0
  <2> QED BY Zenon, <1>0, <2>1, <2>2, <2>3, <2>4 DEF WaitersPresent
<1>6. ASSUME NEW t \in Threads, GetEnds(t)
      PROVE  WaitersPresent'
  <2>1. /\ OthersStay(t) /\ ~Dequeuing(t)' /\ writeTicket' = writeTicket /\ readTicket' = readTicket
    BY Zenon, <1>6 DEF GetEnds, Dequeuing
  <2>2. ticket[t] \in Nat /\ ticket[t] < writeTicket
    BY Zenon, <1>0, <1>6, ReadersAreServed DEF GetEnds
  <2>3. \A k \in Tickets : writeTicket <= k => ticket[t] # k
    BY <1>0, <2>2
  <2>4. \A k \in Tickets : writeTicket <= k => Readers(k)' = Readers(k)
    BY Zenon, <2>1, <2>3, CallsOfOthers
  <2> QED BY Zenon, <1>0, <2>1, <2>4 DEF WaitersPresent
<1> QED BY Zenon, <1>0, <1>1, <1>2, <1>3, <1>4, <1>5, <1>6, StepKinds

LEMMA NextLapBound ==
  ASSUME RefInv, [Next]_vars
  PROVE  LapBound'
<1>0. /\ Contents /\ CallersRoles /\ LapBound /\ TypeOK /\ readTicket \in Nat
      /\ \A i \in Slots : seq[i] \in Nat
      /\ \A t \in Threads : ticket[t] \in Nat /\ Index(ticket[t]) \in Slots
      /\ DOMAIN seq = Slots
  BY Zenon, RefTypes DEF RefInv, TypeOK
<1>1. CASE seq' = seq /\ readTicket' = readTicket
  BY Zenon, <1>0, <1>1 DEF LapBound
<1>2. CASE Empties
  <2>1. \A i \in Slots : i < 0 + SIZE
    BY SizeAssumption DEF Slots
  <2> QED BY Zenon, <1>2, <2>1 DEF LapBound, Empties, PreparedSeq
<1>3. ASSUME NEW t \in Threads, PutEnds(t)
      PROVE  LapBound'
  <2>1. CASE seq' = seq
    BY Zenon, <1>1, <1>3, <2>1 DEF PutEnds
  <2>2. CASE seq' = [seq EXCEPT ![Index(ticket[t])] = ticket[t] + 1]
    <3>1. \A i \in Slots : seq'[i] = IF i = Index(ticket[t]) THEN ticket[t] + 1 ELSE seq[i]
      BY Zenon, <1>0, <2>2
    <3>2. Index(ticket[t] + 1) # Index(ticket[t])
      BY Zenon, <1>0, IndexNextDiffers
    <3>3. readTicket' = readTicket
      BY Zenon, <1>3 DEF PutEnds
    <3> QED BY Zenon, <1>0, <3>1, <3>2, <3>3 DEF LapBound
  <2> QED BY Zenon, <1>3, <2>1, <2>2 DEF PutEnds
<1>4. ASSUME NEW t \in Threads, GetStarts(t)
      PROVE  LapBound'
  <2>1. seq' = seq /\ readTicket' = readTicket + 1
    BY Zenon, <1>4 DEF GetStarts
  <2>2. \A i \in Slots : seq[i] < readTicket + SIZE => seq[i] < readTicket + 1 + SIZE
    BY <1>0, SizeAssumption
  <2> QED BY Zenon, <1>0, <2>1, <2>2 DEF LapBound
<1>5. ASSUME NEW t \in Threads, GetEnds(t)
      PROVE  LapBound'
  <2>1. CASE seq' = seq
    BY Zenon, <1>1, <1>5, <2>1 DEF GetEnds
  <2>2. CASE seq' = [seq EXCEPT ![Index(ticket[t])] = ticket[t] + SIZE]
    <3>1. \A i \in Slots : seq'[i] = IF i = Index(ticket[t]) THEN ticket[t] + SIZE ELSE seq[i]
      BY Zenon, <1>0, <2>2
    <3>2. ticket[t] < readTicket /\ readTicket' = readTicket
      BY Zenon, <1>0, <1>5 DEF GetEnds, Reading, Dequeuing, Contents, Ownership, TicketsClaimed
    <3>3. ticket[t] + SIZE < readTicket + SIZE
      BY <1>0, <3>2, SizeAssumption
    <3> QED BY Zenon, <1>0, <3>1, <3>2, <3>3 DEF LapBound
  <2> QED BY Zenon, <1>5, <2>1, <2>2 DEF GetEnds
<1>6. \A t \in Threads, v \in Values : PutStarts(t, v) => seq' = seq /\ readTicket' = readTicket
  BY Zenon DEF PutStarts
<1>7. Idles => seq' = seq /\ readTicket' = readTicket
  BY Zenon DEF Idles
<1> QED BY Zenon, <1>0, <1>1, <1>2, <1>3, <1>4, <1>5, <1>6, <1>7, StepKinds

LEMMA NextRefInv == RefInv /\ [Next]_vars => RefInv'
<1> SUFFICES ASSUME RefInv, [Next]_vars PROVE RefInv'
  BY Zenon
<1>1. Contents /\ CallersRoles
  BY Zenon DEF RefInv
<1>2. Contents' /\ CallersRoles'
  BY Zenon, <1>1, NextContents, NextCallersRoles
<1> QED BY Zenon, <1>2, NextWaitersPresent, NextLapBound DEF RefInv

-----------------------------------------------------------------------------
(* Each step as a step of the queue.                                       *)

\* The abstract sequences as windows, before and after a step.
BarsAre(f, g, p, q) ==
  /\ ItemsBar = Window(f, readTicket, writeTicket) /\ ItemsBar' = Window(g, readTicket', writeTicket')
  /\ WaitersBar = Window(p, writeTicket, readTicket) /\ WaitersBar' = Window(q, writeTicket', readTicket')
  /\ \A k \in Tickets : f[k] = Item(k) /\ g[k] = Item(k)' /\ p[k] = Waiter(k) /\ q[k] = Waiter(k)'

LEMMA BarWindows == \E f, g, p, q : BarsAre(f, g, p, q)
<1>1. PICK f, g : f = [k \in Tickets |-> Item(k)] /\ g = [k \in Tickets |-> Item(k)]'
  BY Zenon
<1>2. PICK p, q : p = [k \in Tickets |-> Waiter(k)] /\ q = [k \in Tickets |-> Waiter(k)]'
  BY Zenon
<1>3. ItemsBar = Window(f, readTicket, writeTicket) /\ ItemsBar' = Window(g, readTicket', writeTicket')
  BY Zenon, <1>1 DEF ItemsBar
<1>4. WaitersBar = Window(p, writeTicket, readTicket) /\ WaitersBar' = Window(q, writeTicket', readTicket')
  BY Zenon, <1>2 DEF WaitersBar
<1>5. \A k \in Tickets : f[k] = Item(k) /\ g[k] = Item(k)' /\ p[k] = Waiter(k) /\ q[k] = Waiter(k)'
  BY Zenon, <1>1, <1>2
<1>6. BarsAre(f, g, p, q)
  BY Zenon, <1>3, <1>4, <1>5 DEF BarsAre
<1> QED BY Zenon, <1>6

LEMMA ItemKept ==
  ASSUME NEW k, put'[k] = put[k], Writers(k)' = Writers(k)
  PROVE  Item(k)' = Item(k)
BY Zenon DEF Item

LEMMA WaiterKept ==
  ASSUME NEW k, Readers(k)' = Readers(k)
  PROVE  Waiter(k)' = Waiter(k)
BY Zenon DEF Waiter

LEMMA StateKept ==
  ASSUME NEW u, SameCall(u), writeTicket' = writeTicket
  PROVE  StateOf(u)' = StateOf(u)
<1>1. CASE Enqueuing(u) \/ Dequeuing(u)
  <2>1. ticket'[u] = ticket[u] /\ (Enqueuing(u)' <=> Enqueuing(u)) /\ (Dequeuing(u)' <=> Dequeuing(u))
    BY Zenon, <1>1 DEF SameCall
  <2> QED BY <2>1 DEF StateOf
<1>2. CASE ~Enqueuing(u) /\ ~Dequeuing(u)
  <2>1. ~Enqueuing(u)' /\ ~Dequeuing(u)'
    BY Zenon, <1>2 DEF SameCall
  <2> QED BY Zenon, <1>2, <2>1 DEF StateOf
<1> QED BY Zenon, <1>1, <1>2

\* What the position of a thread says of its abstract state.
LEMMA StateIs ==
  ASSUME NEW u \in Threads, ticket[u] \in Nat, writeTicket \in Nat
  PROVE  /\ Enqueuing(u) => StateOf(u) = "putting" /\ ResultOf(u) = Nobody
         /\ Dequeuing(u) /\ ticket[u] < writeTicket => StateOf(u) = "got"
         /\ Dequeuing(u) /\ ~(ticket[u] < writeTicket) => StateOf(u) = "waiting"
         /\ ~Enqueuing(u) /\ ~Dequeuing(u) => StateOf(u) = "idle" /\ ResultOf(u) = Nobody
<1>1. Enqueuing(u) => ~Dequeuing(u)
  BY Zenon DEF Enqueuing, Dequeuing
<1>2. ~(ticket[u] < writeTicket) <=> ticket[u] >= writeTicket
  OBVIOUS
<1>3. /\ Enqueuing(u) => StateOf(u) = "putting"
      /\ Dequeuing(u) /\ ticket[u] < writeTicket => StateOf(u) = "got"
      /\ Dequeuing(u) /\ ~(ticket[u] < writeTicket) => StateOf(u) = "waiting"
      /\ ~Enqueuing(u) /\ ~Dequeuing(u) => StateOf(u) = "idle"
  BY Zenon, <1>1, <1>2 DEF StateOf
<1>4. ~Dequeuing(u) => ResultOf(u) = Nobody
  BY Zenon DEF ResultOf, Dequeuing
<1> QED BY Zenon, <1>1, <1>3, <1>4

LEMMA StateIsNext ==
  ASSUME NEW u \in Threads, ticket'[u] \in Nat, writeTicket' \in Nat
  PROVE  /\ Enqueuing(u)' => StateOf(u)' = "putting" /\ ResultOf(u)' = Nobody
         /\ Dequeuing(u)' /\ ticket'[u] < writeTicket' => StateOf(u)' = "got"
         /\ Dequeuing(u)' /\ ~(ticket'[u] < writeTicket') => StateOf(u)' = "waiting"
         /\ ~Enqueuing(u)' /\ ~Dequeuing(u)' => StateOf(u)' = "idle" /\ ResultOf(u)' = Nobody
<1>1. Enqueuing(u)' => ~Dequeuing(u)'
  BY Zenon DEF Enqueuing, Dequeuing
<1>2. ~(ticket'[u] < writeTicket') <=> ticket'[u] >= writeTicket'
  OBVIOUS
<1>3. /\ Enqueuing(u)' => StateOf(u)' = "putting"
      /\ Dequeuing(u)' /\ ticket'[u] < writeTicket' => StateOf(u)' = "got"
      /\ Dequeuing(u)' /\ ~(ticket'[u] < writeTicket') => StateOf(u)' = "waiting"
      /\ ~Enqueuing(u)' /\ ~Dequeuing(u)' => StateOf(u)' = "idle"
  BY Zenon, <1>1, <1>2 DEF StateOf
<1>4. ~Dequeuing(u)' => ResultOf(u)' = Nobody
  BY Zenon DEF ResultOf, Dequeuing
<1> QED BY Zenon, <1>1, <1>3, <1>4

\* The abstract functions, and what a change at one or two callers makes of them.
LEMMA FunctionsChange ==
  ASSUME NEW t \in Callers, NEW st, NEW res,
         \A u \in Callers \ {t} : StateOf(u)' = StateOf(u) /\ ResultOf(u)' = ResultOf(u),
         StateOf(t)' = st, ResultOf(t)' = res
  PROVE  /\ StateBar' = [StateBar EXCEPT ![t] = st]
         /\ ResultBar' = [ResultBar EXCEPT ![t] = res]
         /\ ResultOf(t) = res => ResultBar' = ResultBar
BY Zenon DEF StateBar, ResultBar, Callers

LEMMA IdlesIsStutter ==
  ASSUME Idles
  PROVE  UNCHANGED Queue!qvars
<1>1. \A k \in Tickets : Item(k)' = Item(k) /\ Waiter(k)' = Waiter(k)
  <2> TAKE k \in Tickets
  <2>1. put' = put /\ Writers(k)' = Writers(k) /\ Readers(k)' = Readers(k)
    BY Zenon DEF Idles, SameCall, Writers, Readers
  <2> QED BY Zenon, <2>1, ItemKept, WaiterKept
<1>2. readTicket' = readTicket /\ writeTicket' = writeTicket
  BY Zenon DEF Idles
<1>3. [k \in Tickets |-> Item(k)]' = [k \in Tickets |-> Item(k)] /\ [k \in Tickets |-> Waiter(k)]' = [k \in Tickets |-> Waiter(k)]
  BY Zenon, <1>1
<1>4. ItemsBar' = ItemsBar /\ WaitersBar' = WaitersBar
  BY Zenon, <1>2, <1>3 DEF ItemsBar, WaitersBar
<1>5. \A u \in Producers \cup Consumers : StateOf(u)' = StateOf(u) /\ ResultOf(u)' = ResultOf(u)
  <2>1. \A u \in Producers \cup Consumers : u \in Threads
    BY Zenon DEF Threads
  <2> QED BY Zenon, <1>2, <2>1, StateKept DEF Idles
<1>6. StateBar' = StateBar /\ ResultBar' = ResultBar
  BY Zenon, <1>5 DEF StateBar, ResultBar
<1> QED BY Zenon, <1>4, <1>6 DEF Queue!qvars

\* A thread outside every call, after a step.
LEMMA EndedIsIdle ==
  ASSUME NEW u, ~Enqueuing(u)', ~Dequeuing(u)'
  PROVE  StateOf(u)' = "idle" /\ ResultOf(u)' = Nobody
<1>1. StateOf(u)' = "idle"
  BY Zenon DEF StateOf
<1>2. ResultOf(u)' = Nobody
  BY Zenon DEF ResultOf, Dequeuing
<1> QED BY Zenon, <1>1, <1>2

\* A step of t that leaves writeTicket and put alone changes t's state only.
LEMMA OthersUnmoved ==
  ASSUME NEW t \in Threads, OthersStay(t), writeTicket' = writeTicket, put' = put, NEW u \in Threads \ {t}
  PROVE  StateOf(u)' = StateOf(u) /\ ResultOf(u)' = ResultOf(u)
<1>1. pc'[u] = pc[u] /\ ticket'[u] = ticket[u] /\ val'[u] = val[u]
  BY Zenon DEF OthersStay
<1>2. StateOf(u)' = StateOf(u)
  BY Zenon, <1>1 DEF StateOf, Enqueuing, Dequeuing
<1>3. ResultOf(u)' = ResultOf(u)
  BY Zenon, <1>1 DEF ResultOf
<1> QED BY Zenon, <1>2, <1>3

\* Facts of the calls that are needed below.
LEMMA CallFacts ==
  ASSUME RefInv
  PROVE  /\ \A t \in Threads : Enqueuing(t) => ticket[t] < writeTicket /\ ticket[t] \in Tickets /\ t \in Producers
         /\ \A t \in Threads : Dequeuing(t) => ticket[t] < readTicket /\ ticket[t] \in Tickets /\ t \in Consumers
         /\ \A t \in Threads : Reading(t) => ticket[t] < writeTicket
         /\ \A t, u \in Threads : t # u /\ Enqueuing(t) /\ Enqueuing(u) => ticket[t] # ticket[u]
         /\ \A t, u \in Threads : t # u /\ Dequeuing(t) /\ Dequeuing(u) => ticket[t] # ticket[u]
<1>1. Contents /\ CallersRoles /\ TicketsClaimed /\ TicketsDistinct
  BY Zenon DEF RefInv, Contents, Ownership
<1>2. \A t \in Threads : Enqueuing(t) \/ Dequeuing(t) => ticket[t] \in Tickets
  BY Zenon, <1>1, ContentsTypes
<1>3. \A t \in Threads : Reading(t) => ticket[t] < writeTicket
  BY Zenon, <1>1, ReadersAreServed
<1>4. /\ \A t, u \in Threads : t # u /\ Enqueuing(t) /\ Enqueuing(u) => ticket[t] # ticket[u]
      /\ \A t, u \in Threads : t # u /\ Dequeuing(t) /\ Dequeuing(u) => ticket[t] # ticket[u]
  BY Zenon, <1>1 DEF TicketsDistinct
<1> QED BY Zenon, <1>1, <1>2, <1>3, <1>4 DEF TicketsClaimed, CallersRoles

\* The callers that do not move, when an enqueue claims its ticket.
LEMMA OthersAtPut ==
  ASSUME RefInv, NEW t \in Threads, NEW v \in Values, PutStarts(t, v), NEW u \in Threads \ {t}
  PROVE  IF Dequeuing(u) /\ ticket[u] = writeTicket
         THEN StateOf(u)' = "got" /\ ResultOf(u)' = v
         ELSE StateOf(u)' = StateOf(u) /\ ResultOf(u)' = ResultOf(u)
<1>0. /\ TypeOK /\ writeTicket \in Nat /\ ticket[u] \in Nat /\ writeTicket \in Tickets
      /\ Dequeuing(u) => ticket[u] \in Tickets
      /\ Reading(u) => ticket[u] < writeTicket
  BY Zenon, RefTypes, CallFacts DEF PutStarts
<1>1. /\ pc'[u] = pc[u] /\ ticket'[u] = ticket[u] /\ val'[u] = val[u]
      /\ writeTicket' = writeTicket + 1 /\ put' = [put EXCEPT ![writeTicket] = v]
  BY Zenon DEF PutStarts, OthersStay
<1>2. /\ Enqueuing(u)' <=> Enqueuing(u)
      /\ Dequeuing(u)' <=> Dequeuing(u)
      /\ ticket'[u] \in Nat /\ writeTicket' \in Nat
      /\ ticket[u] < writeTicket => ticket[u] # writeTicket /\ ticket'[u] < writeTicket'
      /\ ticket[u] = writeTicket => ~(ticket[u] < writeTicket) /\ ticket'[u] < writeTicket'
      /\ ~(ticket[u] < writeTicket) /\ ticket[u] # writeTicket => ~(ticket'[u] < writeTicket')
  <2>1. (Enqueuing(u)' <=> Enqueuing(u)) /\ (Dequeuing(u)' <=> Dequeuing(u))
    BY Zenon, <1>1 DEF Enqueuing, Dequeuing
  <2>2. /\ writeTicket + 1 \in Nat
        /\ ticket[u] < writeTicket => ticket[u] # writeTicket /\ ticket[u] < writeTicket + 1
        /\ ticket[u] = writeTicket => ~(ticket[u] < writeTicket) /\ ticket[u] < writeTicket + 1
        /\ ~(ticket[u] < writeTicket) /\ ticket[u] # writeTicket => ~(ticket[u] < writeTicket + 1)
    BY <1>0
  <2> QED BY Zenon, <1>0, <1>1, <2>1, <2>2
<1>3. CASE ~Dequeuing(u)
  BY Zenon, <1>0, <1>2, <1>3, StateIs, StateIsNext
<1>4. CASE Dequeuing(u) /\ ticket[u] < writeTicket
  <2>1. StateOf(u)' = StateOf(u)
    <3>1. StateOf(u) = "got"
      BY Zenon, <1>0, <1>4, StateIs
    <3>2. StateOf(u)' = "got"
      BY Zenon, <1>2, <1>4, StateIsNext
    <3> QED BY Zenon, <3>1, <3>2
  <2>2. put'[ticket[u]] = put[ticket[u]]
    BY Zenon, <1>0, <1>1, <1>2, <1>4 DEF TypeOK
  <2>3. ResultOf(u)' = ResultOf(u)
    BY Zenon, <1>1, <1>2, <1>4, <2>2 DEF ResultOf
  <2> QED BY Zenon, <1>2, <1>4, <2>1, <2>3
<1>5. CASE Dequeuing(u) /\ ~(ticket[u] < writeTicket)
  <2>1. pc[u] = "deqSpin"
    BY Zenon, <1>0, <1>5 DEF Dequeuing, Reading
  <2>2. CASE ticket[u] = writeTicket
    <3>1. StateOf(u)' = "got"
      BY Zenon, <1>2, <1>5, <2>2, StateIsNext
    <3>2. put'[writeTicket] = v
      BY Zenon, <1>0, <1>1 DEF TypeOK
    <3>3. ResultOf(u)' = put'[ticket'[u]]
      BY Zenon, <1>1, <1>2, <2>1, <2>2 DEF ResultOf
    <3> QED BY Zenon, <1>1, <1>5, <2>2, <3>1, <3>2, <3>3
  <2>3. CASE ticket[u] # writeTicket
    <3>1. StateOf(u)' = StateOf(u)
      <4>1. StateOf(u) = "waiting"
        BY Zenon, <1>0, <1>5, StateIs
      <4>2. StateOf(u)' = "waiting"
        BY Zenon, <1>2, <1>5, <2>3, StateIsNext
      <4> QED BY Zenon, <4>1, <4>2
    <3>2. ResultOf(u) = Nobody /\ ResultOf(u)' = Nobody
      BY Zenon, <1>1, <1>2, <1>5, <2>1, <2>3 DEF ResultOf
    <3> QED BY Zenon, <2>3, <3>1, <3>2
  <2> QED BY Zenon, <2>2, <2>3
<1> QED BY Zenon, <1>3, <1>4, <1>5

\* The claim of a write ticket puts the value: at the end of the queue, or into
\* the hands of the dequeue that claimed the read ticket of the same number.
LEMMA PutStartsIsPut ==
  ASSUME RefInv, NEW t \in Threads, NEW v \in Values, PutStarts(t, v)
  PROVE  Queue!Put(t, v)
<1> PICK W, R : W = writeTicket /\ R = readTicket
  BY Zenon
<1>0. /\ TypeOK /\ W \in Nat /\ R \in Nat /\ W <= MaxTickets /\ R <= MaxTickets /\ W \in Tickets
      /\ \A k \in Nat : k < MaxTickets <=> k \in Tickets
      /\ \A u \in Callers : u \in Threads
  BY Zenon, RefTypes DEF PutStarts, Callers, Threads
<1>1. /\ t \in Producers /\ t \in Callers /\ ~Enqueuing(t) /\ ~Dequeuing(t) /\ Enqueuing(t)' /\ ~Dequeuing(t)'
      /\ OthersStay(t) /\ ticket'[t] = W /\ writeTicket' = W + 1 /\ readTicket' = R
      /\ put' = [put EXCEPT ![W] = v]
  BY Zenon DEF PutStarts, Enqueuing, Dequeuing, Callers
<1>2. \A k \in Tickets : k # W => Writers(k)' = Writers(k) /\ put'[k] = put[k]
  BY Zenon, <1>0, <1>1, CallsOfOthers DEF TypeOK
<1>3. Writers(W)' = {t} /\ put'[W] = v
  <2>1. t \in Writers(W)'
    BY Zenon, <1>1 DEF Writers
  <2>2. ASSUME NEW u \in Writers(W)', u # t PROVE FALSE
    <3>1. u \in Threads /\ Enqueuing(u)' /\ ticket'[u] = W
      BY Zenon DEF Writers
    <3>2. Enqueuing(u) /\ ticket[u] = W
      BY Zenon, <1>1, <2>2, <3>1, OthersSame DEF SameCall
    <3>3. ticket[u] < W
      BY Zenon, <3>1, <3>2, CallFacts
    <3> QED BY <1>0, <3>2, <3>3
  <2> QED BY Zenon, <1>0, <1>1, <2>1, <2>2 DEF TypeOK
<1>4. \A k \in Tickets : Readers(k)' = Readers(k)
  BY Zenon, <1>1, CallsOfOthers
<1>5b. PICK f, g, p, q : BarsAre(f, g, p, q)
  BY Zenon, BarWindows
<1>5. /\ ItemsBar = Window(f, R, W) /\ ItemsBar' = Window(g, R, W + 1)
      /\ WaitersBar = Window(p, W, R) /\ WaitersBar' = Window(q, W + 1, R)
      /\ \A k \in Tickets : f[k] = Item(k) /\ g[k] = Item(k)' /\ p[k] = Waiter(k) /\ q[k] = Waiter(k)'
  BY Zenon, <1>1, <1>5b DEF BarsAre
<1>6. \A k \in Tickets : (k # W => f[k] = g[k]) /\ p[k] = q[k]
  BY Zenon, <1>2, <1>4, <1>5, ItemKept, WaiterKept
<1>7. g[W] = [val |-> v, by |-> t]
  <2>1. Sole({t}) = t
    BY Zenon, SoleMember
  <2>2. Item(W)' = [val |-> put'[W], by |-> Sole(Writers(W)')]
    BY Zenon DEF Item
  <2> QED BY Zenon, <1>0, <1>3, <1>5, <2>1, <2>2
<1>8. StateOf(t) = "idle" /\ StateOf(t)' = "putting" /\ ResultOf(t) = Nobody /\ ResultOf(t)' = Nobody
  <2>1. ticket[t] \in Nat /\ W + 1 \in Nat
    BY <1>0, RefTypes
  <2> QED BY Zenon, <1>0, <1>1, <2>1, StateIs, StateIsNext
<1>9. StateBar[t] = "idle"
  BY Zenon, <1>1, <1>8 DEF StateBar, Callers
<1>10. CASE R <= W
  <2>1. \A u \in Threads : Dequeuing(u) => ticket[u] # W
    <3>1. \A u \in Threads : Dequeuing(u) => ticket[u] < R /\ ticket[u] \in Nat
      BY Zenon, CallFacts, RefTypes
    <3> QED BY <1>0, <1>10, <3>1
  <2>2. \A u \in Callers \ {t} : StateOf(u)' = StateOf(u) /\ ResultOf(u)' = ResultOf(u)
    BY Zenon, <1>0, <2>1, OthersAtPut
  <2>3. StateBar' = [StateBar EXCEPT ![t] = "putting"] /\ ResultBar' = ResultBar
    BY Zenon, <1>1, <1>8, <2>2, FunctionsChange
  <2>4. W + 1 \in Nat /\ R <= W + 1 /\ \A k \in Nat : R <= k /\ k < W => k < MaxTickets /\ k # W
    BY <1>0, <1>10, ParameterAssumption
  <2>5. WaitersBar = <<>> /\ WaitersBar' = <<>>
    BY Zenon, <1>0, <1>5, <1>10, <2>4, WindowEmpty
  <2>6. Agree(f, g, R, W)
    BY Zenon, <1>0, <1>6, <2>4 DEF Agree
  <2>7. Gains(f, g, R, W)
    BY Zenon, <1>0, <1>10, <2>6, WindowGrows
  <2>8. ItemsBar' = Append(ItemsBar, [val |-> v, by |-> t])
    BY Zenon, <1>5, <1>7, <2>7 DEF Gains
  <2> QED BY Zenon, <1>1, <1>9, <2>3, <2>5, <2>8 DEF Queue!Put
<1>11. CASE ~(R <= W)
  <2>1. W + 1 \in Nat
    BY <1>0
  <2>2. W < R /\ W <= R /\ W + 1 <= R /\ W <= W
    BY <1>0, <1>11
  <2>3. Readers(W) # {}
    BY Zenon, <1>0, <2>2 DEF RefInv, WaitersPresent
  <2>4. PICK z : z = Sole(Readers(W)) /\ z \in Threads /\ Dequeuing(z) /\ ticket[z] = W
    BY Zenon, <2>3, SoleMember DEF Readers
  <2>5. z # t /\ z \in Consumers /\ z \in Callers
    BY Zenon, <1>1, <2>4, CallFacts DEF Callers
  <2>6. \A u \in Threads : u # z => ~(Dequeuing(u) /\ ticket[u] = W)
    BY Zenon, <2>4, CallFacts
  <2>7. \A u \in Callers : u # t /\ u # z => StateOf(u)' = StateOf(u) /\ ResultOf(u)' = ResultOf(u)
    BY Zenon, <1>0, <2>6, OthersAtPut
  <2>8. StateOf(z)' = "got" /\ ResultOf(z)' = v
    BY Zenon, <2>4, <2>5, OthersAtPut
  <2>9. StateBar' = [StateBar EXCEPT ![t] = "putting", ![z] = "got"]
    BY Zenon, <1>1, <1>8, <2>5, <2>7, <2>8 DEF StateBar, Callers
  <2>10. ResultBar' = [ResultBar EXCEPT ![z] = v]
    BY Zenon, <1>1, <1>8, <2>5, <2>7, <2>8 DEF ResultBar, Callers
  <2>11. ItemsBar = <<>> /\ ItemsBar' = <<>>
    BY Zenon, <1>0, <1>5, <2>1, <2>2, WindowEmpty
  <2>12. Agree(p, q, W + 1, R)
    <3>1. \A k \in Nat : k < R => k < MaxTickets
      BY <1>0, ParameterAssumption
    <3>2. \A k \in Nat : W + 1 <= k => k # W
      BY <1>0
    <3> QED BY Zenon, <1>0, <1>6, <3>1, <3>2 DEF Agree
  <2>13. Loses(p, q, W, R)
    BY Zenon, <1>0, <2>2, <2>12, WindowShrinks
  <2>14. p[W] = z
    BY Zenon, <1>0, <1>5, <2>4 DEF Waiter
  <2>15. WaitersBar # <<>> /\ Head(WaitersBar) = z /\ WaitersBar' = Tail(WaitersBar)
    BY Zenon, <1>5, <2>13, <2>14 DEF Loses
  <2> QED BY Zenon, <1>1, <1>9, <2>9, <2>10, <2>11, <2>15 DEF Queue!Put
<1> QED BY Zenon, <1>10, <1>11

LEMMA ItemOf ==
  ASSUME NEW a, NEW b, NEW t, NEW n
  PROVE  /\ [val |-> a, by |-> b].val = a /\ [val |-> a, by |-> b].by = b
         /\ [[val |-> a, by |-> b] EXCEPT !.by = IF b = t THEN n ELSE b]
              = [val |-> a, by |-> IF b = t THEN n ELSE b]
OBVIOUS

\* An enqueue ends only when its ticket is less than a lap ahead of the readers.
LEMMA PutEndsIsPutReturn ==
  ASSUME RefInv, NEW t \in Threads, PutEnds(t)
  PROVE  Queue!PutReturn(t)
<1> PICK W, R, T : W = writeTicket /\ R = readTicket /\ T = ticket[t]
  BY Zenon
<1>0. /\ TypeOK /\ W \in Nat /\ R \in Nat /\ W <= MaxTickets
      /\ \A k \in Nat : k < MaxTickets <=> k \in Tickets
      /\ \A u \in Callers : u \in Threads
      /\ T \in Nat /\ Index(T) \in Slots /\ T \in Tickets
  BY Zenon, RefTypes, CallFacts DEF PutEnds, Writing, Enqueuing, Callers, Threads
<1>1. /\ Enqueuing(t) /\ ~Dequeuing(t) /\ ~Enqueuing(t)' /\ ~Dequeuing(t)'
      /\ OthersStay(t) /\ writeTicket' = W /\ readTicket' = R /\ put' = put /\ Writing(t)
  BY Zenon DEF PutEnds, Enqueuing, Dequeuing, Writing
<1>2. t \in Producers /\ t \in Callers /\ t # Nobody
  BY Zenon, <1>1, CallFacts, NobodyAssumption DEF Callers
<1>3. Writers(T) = {t} /\ Writers(T)' = {}
  <2>1. \A u \in Threads : u # t => ~(Enqueuing(u) /\ ticket[u] = T)
    BY Zenon, <1>1, CallFacts
  <2>2. Writers(T) = {t}
    BY Zenon, <1>1, <2>1 DEF Writers
  <2>3. \A u \in Threads : ~(Enqueuing(u)' /\ ticket'[u] = T)
    BY Zenon, <1>1, <2>1, OthersSame DEF SameCall
  <2>4. Writers(T)' = {}
    BY Zenon, <2>3 DEF Writers
  <2> QED BY Zenon, <2>2, <2>4
<1>4. \A k \in Tickets : /\ k # T => Writers(k)' = Writers(k) /\ t \notin Writers(k)
                         /\ Readers(k)' = Readers(k)
  BY Zenon, <1>1, CallsOfOthers DEF Writers
<1>5b. PICK f, g, p, q : BarsAre(f, g, p, q)
  BY Zenon, BarWindows
<1>5. /\ ItemsBar = Window(f, R, W) /\ ItemsBar' = Window(g, R, W)
      /\ WaitersBar = Window(p, W, R) /\ WaitersBar' = Window(q, W, R)
      /\ \A k \in Tickets : f[k] = Item(k) /\ g[k] = Item(k)' /\ p[k] = Waiter(k) /\ q[k] = Waiter(k)'
  BY Zenon, <1>1, <1>5b DEF BarsAre
<1>6. ASSUME NEW k \in Tickets
      PROVE  /\ f[k].by = t => k = T
             /\ [f[k] EXCEPT !.by = IF f[k].by = t THEN Nobody ELSE f[k].by] = g[k]
  <2> DEFINE b == Sole(Writers(k))
  <2>1. f[k] = [val |-> put[k], by |-> b] /\ g[k] = [val |-> put[k], by |-> Sole(Writers(k)')]
    BY Zenon, <1>1, <1>5 DEF Item
  <2>2. (b = t <=> k = T) /\ Sole(Writers(k)') = IF b = t THEN Nobody ELSE b
    <3>1. CASE k = T
      BY Zenon, <1>3, <3>1, SoleEmpty, SoleMember
    <3>2. CASE k # T
      BY Zenon, <1>2, <1>4, <3>2, SoleEmpty, SoleMember
    <3> QED BY Zenon, <3>1, <3>2
  <2>3. PICK a, c, d : a = put[k] /\ c = b /\ d = Sole(Writers(k)')
    BY Zenon
  <2>4. f[k] = [val |-> a, by |-> c] /\ g[k] = [val |-> a, by |-> d]
    BY Zenon, <2>1, <2>3
  <2>5. (c = t <=> k = T) /\ d = IF c = t THEN Nobody ELSE c
    BY Zenon, <2>2, <2>3
  <2> HIDE DEF b
  <2>6. f[k].by = c
    BY Zenon, <2>4, ItemOf
  <2>7. [[val |-> a, by |-> c] EXCEPT !.by = d] = [val |-> a, by |-> d]
    OBVIOUS
  <2>8. [f[k] EXCEPT !.by = d] = g[k]
    BY Zenon, <2>4, <2>7
  <2> QED BY Zenon, <2>5, <2>6, <2>8
<1>7. /\ ItemsBar = [j \in 1 .. W - R |-> f[R + j - 1]]
      /\ ItemsBar' = [j \in 1 .. W - R |-> g[R + j - 1]]
  BY Zenon, <1>5 DEF Window
<1>8. \A j \in 1 .. W - R : R + j - 1 \in Tickets
  <2>1. \A j \in 1 .. W - R : R + j - 1 \in Nat /\ R + j - 1 < MaxTickets
    BY <1>0, ParameterAssumption
  <2> QED BY Zenon, <1>0, <2>1
<1>9. \A j \in DOMAIN ItemsBar : ItemsBar[j].by = t => j <= SIZE
  <2>1. T < R + SIZE
    <3>1. seq[Index(T)] = T
      BY Zenon, <1>1 DEF RefInv, Contents, Ownership, HeldSlots, AdmitsWriter
    <3> QED BY Zenon, <1>0, <3>1 DEF RefInv, LapBound
  <2>2. \A j \in 1 .. W - R : R + j - 1 = T => j <= SIZE
    BY <1>0, <2>1, SizeAssumption
  <2> QED BY Zenon, <1>6, <1>7, <1>8, <2>2
<1>10. ItemsBar' = [j \in DOMAIN ItemsBar |->
                      [ItemsBar[j] EXCEPT !.by = IF ItemsBar[j].by = t THEN Nobody ELSE ItemsBar[j].by]]
  BY Zenon, <1>6, <1>7, <1>8
<1>11. WaitersBar' = WaitersBar
  <2>1. \A k \in Nat : k < R => k < MaxTickets
    BY <1>0, RefTypes, ParameterAssumption
  <2>2. Agree(p, q, W, R)
    BY Zenon, <1>0, <1>4, <1>5, <2>1, WaiterKept DEF Agree
  <2>3. Window(p, W, R) = Window(q, W, R)
    BY <1>0, <2>2, WindowSame
  <2> QED BY Zenon, <1>5, <2>3
<1>12. StateOf(t) = "putting" /\ ResultOf(t) = Nobody /\ StateOf(t)' = "idle" /\ ResultOf(t)' = Nobody
  BY Zenon, <1>1, <1>0, StateIs, EndedIsIdle
<1>13. \A u \in Callers \ {t} : StateOf(u)' = StateOf(u) /\ ResultOf(u)' = ResultOf(u)
  BY Zenon, <1>0, <1>1, OthersUnmoved
<1>14. StateBar' = [StateBar EXCEPT ![t] = "idle"] /\ ResultBar' = ResultBar
  BY Zenon, <1>2, <1>12, <1>13, FunctionsChange
<1>15. StateBar[t] = "putting"
  BY Zenon, <1>2, <1>12 DEF StateBar, Callers
<1> QED BY Zenon, <1>9, <1>10, <1>11, <1>14, <1>15 DEF Queue!PutReturn

\* The claim of a read ticket takes the oldest value, or starts to wait.
LEMMA GetStartsIsGet ==
  ASSUME RefInv, NEW t \in Threads, GetStarts(t)
  PROVE  Queue!Get(t)
<1> PICK W, R : W = writeTicket /\ R = readTicket
  BY Zenon
<1>0. /\ TypeOK /\ W \in Nat /\ R \in Nat /\ W <= MaxTickets /\ R \in Tickets
      /\ \A k \in Nat : k < MaxTickets <=> k \in Tickets
      /\ \A u \in Callers : u \in Threads
      /\ R + 1 \in Nat /\ R < R + 1
  <2>1. R \in Nat => R + 1 \in Nat /\ R < R + 1
    OBVIOUS
  <2> QED BY Zenon, <2>1, RefTypes DEF GetStarts, Callers, Threads
<1>1. /\ t \in Consumers /\ t \in Callers /\ ~Enqueuing(t) /\ ~Dequeuing(t) /\ ~Enqueuing(t)' /\ Dequeuing(t)'
      /\ OthersStay(t) /\ writeTicket' = W /\ readTicket' = R + 1 /\ put' = put
      /\ ticket'[t] = R /\ pc'[t] = "deqSpin"
  BY Zenon DEF GetStarts, Enqueuing, Dequeuing, Callers
<1>2. \A k \in Tickets : Writers(k)' = Writers(k) /\ (k # R => Readers(k)' = Readers(k))
  BY Zenon, <1>1, CallsOfOthers
<1>3. Readers(R)' = {t}
  <2>1. t \in Readers(R)'
    BY Zenon, <1>1 DEF Readers
  <2>2. ASSUME NEW u \in Readers(R)', u # t PROVE FALSE
    <3>1. u \in Threads /\ Dequeuing(u)' /\ ticket'[u] = R
      BY Zenon DEF Readers
    <3>2. Dequeuing(u) /\ ticket[u] = R
      BY Zenon, <1>1, <2>2, <3>1, OthersSame DEF SameCall
    <3>3. ticket[u] < R
      BY Zenon, <3>1, <3>2, CallFacts
    <3> QED BY <1>0, <3>2, <3>3
  <2> QED BY Zenon, <2>1, <2>2
<1>4b. PICK f, g, p, q : BarsAre(f, g, p, q)
  BY Zenon, BarWindows
<1>4. /\ ItemsBar = Window(f, R, W) /\ ItemsBar' = Window(g, R + 1, W)
      /\ WaitersBar = Window(p, W, R) /\ WaitersBar' = Window(q, W, R + 1)
      /\ \A k \in Tickets : f[k] = Item(k) /\ g[k] = Item(k)' /\ p[k] = Waiter(k) /\ q[k] = Waiter(k)'
  BY Zenon, <1>1, <1>4b DEF BarsAre
<1>5. \A k \in Tickets : f[k] = g[k] /\ (k # R => p[k] = q[k])
  BY Zenon, <1>1, <1>2, <1>4, ItemKept, WaiterKept
<1>6. StateOf(t) = "idle" /\ ResultOf(t) = Nobody
  BY Zenon, <1>0, <1>1, RefTypes, StateIs
<1>7. \A u \in Callers \ {t} : StateOf(u)' = StateOf(u) /\ ResultOf(u)' = ResultOf(u)
  BY Zenon, <1>0, <1>1, OthersUnmoved
<1>8. StateBar[t] = "idle"
  BY Zenon, <1>1, <1>6 DEF StateBar, Callers
<1>9. CASE R < W
  <2>1. StateOf(t)' = "got"
    BY Zenon, <1>0, <1>1, <1>9, StateIsNext
  <2>2. ResultOf(t)' = put[R]
    BY Zenon, <1>1, <1>9 DEF ResultOf
  <2>3. StateBar' = [StateBar EXCEPT ![t] = "got"] /\ ResultBar' = [ResultBar EXCEPT ![t] = put[R]]
    <3>1. PICK res : res = put[R]
      BY Zenon
    <3> QED BY Zenon, <1>1, <1>7, <2>1, <2>2, <3>1, FunctionsChange
  <2>4. R <= W /\ R + 1 <= W /\ \A k \in Nat : k < W => k < MaxTickets
    BY <1>0, <1>9, ParameterAssumption
  <2>5. WaitersBar = <<>> /\ WaitersBar' = <<>>
    BY Zenon, <1>0, <1>4, <2>4, WindowEmpty
  <2>6. Agree(f, g, R + 1, W)
    BY Zenon, <1>0, <1>5, <2>4 DEF Agree
  <2>7. Loses(f, g, R, W)
    BY Zenon, <1>0, <1>9, <2>6, WindowShrinks
  <2>8. f[R].val = put[R]
    <3>1. f[R] = [val |-> put[R], by |-> Sole(Writers(R))]
      BY Zenon, <1>0, <1>4 DEF Item
    <3>2. PICK b : b = Sole(Writers(R))
      BY Zenon
    <3> QED BY <3>1, <3>2
  <2>9. ItemsBar # <<>> /\ Head(ItemsBar).val = put[R] /\ ItemsBar' = Tail(ItemsBar)
    BY Zenon, <1>4, <2>7, <2>8 DEF Loses
  <2> QED BY Zenon, <1>1, <1>8, <2>3, <2>5, <2>9 DEF Queue!Get
<1>10. CASE ~(R < W)
  <2>1. W <= R /\ W <= R + 1 /\ \A k \in Nat : W <= k /\ k < R => k < MaxTickets /\ k # R
    <3>1. R < MaxTickets
      BY Zenon, <1>0
    <3> QED BY <1>0, <1>10, <3>1, ParameterAssumption
  <2>2. StateOf(t)' = "waiting"
    BY Zenon, <1>0, <1>1, <1>10, StateIsNext
  <2>3. ResultOf(t)' = Nobody
    BY Zenon, <1>1, <1>10 DEF ResultOf
  <2>4. StateBar' = [StateBar EXCEPT ![t] = "waiting"] /\ ResultBar' = ResultBar
    BY Zenon, <1>1, <1>6, <1>7, <2>2, <2>3, FunctionsChange
  <2>5. ItemsBar = <<>> /\ ItemsBar' = <<>>
    BY Zenon, <1>0, <1>4, <2>1, WindowEmpty
  <2>6. Agree(p, q, W, R)
    BY Zenon, <1>0, <1>5, <2>1 DEF Agree
  <2>7. Gains(p, q, W, R)
    BY Zenon, <1>0, <2>1, <2>6, WindowGrows
  <2>8. q[R] = t
    <3>1. Sole({t}) = t
      BY Zenon, SoleMember
    <3> QED BY Zenon, <1>0, <1>3, <1>4, <3>1 DEF Waiter
  <2>9. WaitersBar' = Append(WaitersBar, t)
    BY Zenon, <1>4, <2>7, <2>8 DEF Gains
  <2> QED BY Zenon, <1>1, <1>8, <2>4, <2>5, <2>9 DEF Queue!Get
<1> QED BY Zenon, <1>9, <1>10

\* A dequeue ends only when it was given a value.
LEMMA GetEndsIsGetReturn ==
  ASSUME RefInv, NEW t \in Threads, GetEnds(t)
  PROVE  Queue!GetReturn(t)
<1> PICK W, R : W = writeTicket /\ R = readTicket
  BY Zenon
<1>0. /\ W \in Nat /\ R \in Nat /\ W <= MaxTickets /\ R <= MaxTickets
      /\ \A k \in Nat : k < MaxTickets <=> k \in Tickets
      /\ \A u \in Callers : u \in Threads
      /\ ticket[t] \in Nat
  BY Zenon, RefTypes DEF Callers, Threads
<1>1. /\ Reading(t) /\ ~Enqueuing(t) /\ Dequeuing(t) /\ ~Enqueuing(t)' /\ ~Dequeuing(t)'
      /\ OthersStay(t) /\ writeTicket' = W /\ readTicket' = R /\ put' = put
  BY Zenon DEF GetEnds, Enqueuing, Dequeuing, Reading
<1>2. t \in Callers /\ ticket[t] < W
  BY Zenon, <1>1, CallFacts DEF Callers
<1>3. \A k \in Tickets : /\ Writers(k)' = Writers(k)
                         /\ k # ticket[t] => Readers(k)' = Readers(k)
  BY Zenon, <1>1, CallsOfOthers
<1>4b. PICK f, g, p, q : BarsAre(f, g, p, q)
  BY Zenon, BarWindows
<1>4. /\ ItemsBar = Window(f, R, W) /\ ItemsBar' = Window(g, R, W)
      /\ WaitersBar = Window(p, W, R) /\ WaitersBar' = Window(q, W, R)
      /\ \A k \in Tickets : f[k] = Item(k) /\ g[k] = Item(k)' /\ p[k] = Waiter(k) /\ q[k] = Waiter(k)'
  BY Zenon, <1>1, <1>4b DEF BarsAre
<1>5. \A k \in Tickets : f[k] = g[k] /\ (k # ticket[t] => p[k] = q[k])
  BY Zenon, <1>1, <1>3, <1>4, ItemKept, WaiterKept
<1>6. \A k \in Nat : /\ k < R \/ k < W => k < MaxTickets
                     /\ W <= k => k # ticket[t]
  BY <1>0, <1>2, ParameterAssumption
<1>7. Agree(f, g, R, W) /\ Agree(p, q, W, R)
  BY Zenon, <1>0, <1>5, <1>6 DEF Agree
<1>8. ItemsBar' = ItemsBar /\ WaitersBar' = WaitersBar
  <2>1. Window(f, R, W) = Window(g, R, W)
    BY <1>0, <1>7, WindowSame
  <2>2. Window(p, W, R) = Window(q, W, R)
    BY <1>0, <1>7, WindowSame
  <2> QED BY Zenon, <1>4, <2>1, <2>2
<1>9. StateOf(t) = "got" /\ StateOf(t)' = "idle" /\ ResultOf(t)' = Nobody
  BY Zenon, <1>0, <1>1, <1>2, StateIs, EndedIsIdle
<1>10. \A u \in Callers \ {t} : StateOf(u)' = StateOf(u) /\ ResultOf(u)' = ResultOf(u)
  BY Zenon, <1>0, <1>1, OthersUnmoved
<1>11. StateBar' = [StateBar EXCEPT ![t] = "idle"] /\ ResultBar' = [ResultBar EXCEPT ![t] = Nobody]
  BY Zenon, <1>2, <1>9, <1>10, FunctionsChange
<1>12. StateBar[t] = "got"
  BY Zenon, <1>2, <1>9 DEF StateBar, Callers
<1> QED BY Zenon, <1>8, <1>11, <1>12 DEF Queue!GetReturn

\* With nobody inside, the ring holds no waiters, and the tickets restart.
LEMMA EmptiesIsReset ==
  ASSUME RefInv, Empties
  PROVE  Queue!Reset
<1>0. /\ writeTicket \in Nat /\ readTicket \in Nat /\ readTicket <= MaxTickets /\ 0 \in Nat /\ 0 <= 0
      /\ \A k \in Nat : k < MaxTickets <=> k \in Tickets
      /\ \A u \in Callers : u \in Threads
  <2>1. 0 \in Nat /\ 0 <= 0
    OBVIOUS
  <2> QED BY Zenon, <2>1, RefTypes DEF Callers, Threads
<1>1. /\ writeTicket' = 0 /\ readTicket' = 0
      /\ \A u \in Threads : ~Enqueuing(u) /\ ~Dequeuing(u) /\ ~Enqueuing(u)' /\ ~Dequeuing(u)'
  BY Zenon DEF Empties, Quiescent, Enqueuing, Dequeuing
<1>2. readTicket <= writeTicket
  <2>1. SUFFICES ASSUME ~(readTicket <= writeTicket) PROVE FALSE
    BY Zenon
  <2>2. writeTicket < readTicket /\ writeTicket <= writeTicket /\ writeTicket < MaxTickets
    BY <1>0, <2>1, ParameterAssumption
  <2>3. Readers(writeTicket) # {}
    BY Zenon, <1>0, <2>2 DEF RefInv, WaitersPresent
  <2> QED BY Zenon, <1>1, <2>3 DEF Readers
<1>3b. PICK f, g, p, q : BarsAre(f, g, p, q)
  BY Zenon, BarWindows
<1>3. /\ ItemsBar = Window(f, readTicket, writeTicket) /\ ItemsBar' = Window(g, 0, 0)
      /\ WaitersBar = Window(p, writeTicket, readTicket) /\ WaitersBar' = Window(q, 0, 0)
  BY Zenon, <1>1, <1>3b DEF BarsAre
<1>4. ItemsBar' = <<>> /\ WaitersBar' = <<>> /\ WaitersBar = <<>>
  BY Zenon, <1>0, <1>2, <1>3, WindowEmpty
<1>5. \A u \in Callers : /\ StateOf(u) = "idle" /\ ResultOf(u) = Nobody
                         /\ StateOf(u)' = "idle" /\ ResultOf(u)' = Nobody
  BY Zenon, <1>0, <1>1, RefTypes, StateIs, EndedIsIdle
<1>6. StateBar' = StateBar /\ ResultBar' = ResultBar /\ \A u \in Callers : StateBar[u] = "idle"
  BY Zenon, <1>5 DEF StateBar, ResultBar, Callers
<1> QED BY Zenon, <1>4, <1>6 DEF Queue!Reset, Queue!Callers, Callers

LEMMA InitIsQueueInit ==
  ASSUME Init
  PROVE  Queue!Init
<1>0. RefInv /\ 0 \in Nat /\ 0 <= 0
  <2>1. 0 \in Nat /\ 0 <= 0
    OBVIOUS
  <2> QED BY Zenon, <2>1, InitRefInv
<1>1. /\ writeTicket = 0 /\ readTicket = 0
      /\ \A u \in Threads : ~Enqueuing(u) /\ ~Dequeuing(u)
  BY Zenon DEF Init, Enqueuing, Dequeuing
<1>2. ItemsBar = <<>> /\ WaitersBar = <<>>
  BY Zenon, <1>0, <1>1, WindowEmpty DEF ItemsBar, WaitersBar
<1>3. \A u \in Callers : StateOf(u) = "idle" /\ ResultOf(u) = Nobody
  BY Zenon, <1>0, <1>1, RefTypes, StateIs DEF Callers, Threads
<1>4. StateBar = [u \in Callers |-> "idle"] /\ ResultBar = [u \in Callers |-> Nobody]
  BY Zenon, <1>3 DEF StateBar, ResultBar, Callers
<1> QED BY Zenon, <1>2, <1>4 DEF Queue!Init, Queue!Callers, Callers

LEMMA NextIsQueueNext ==
  ASSUME RefInv, [Next]_vars
  PROVE  [Queue!Next]_(Queue!qvars)
<1>0. Contents /\ CallersRoles
  BY Zenon DEF RefInv
<1>1. CASE Idles
  BY Zenon, <1>1, IdlesIsStutter
<1>2. CASE Empties
  BY Zenon, <1>2, EmptiesIsReset DEF Queue!Next
<1>3. ASSUME NEW t \in Threads, (\E v \in Values : PutStarts(t, v)) \/ PutEnds(t) \/ GetStarts(t) \/ GetEnds(t)
      PROVE  Queue!Next
  <2>1. t \in Queue!Callers
    BY Zenon, <1>0, <1>3, CallFacts DEF PutStarts, PutEnds, GetStarts, GetEnds, Writing, Reading, Enqueuing, Dequeuing, Queue!Callers
  <2>2. (\E v \in Values : Queue!Put(t, v)) \/ Queue!PutReturn(t) \/ Queue!Get(t) \/ Queue!GetReturn(t)
    BY Zenon, <1>3, PutStartsIsPut, PutEndsIsPutReturn, GetStartsIsGet, GetEndsIsGetReturn
  <2> QED BY Zenon, <2>1, <2>2 DEF Queue!Next
<1> QED BY Zenon, <1>0, <1>1, <1>2, <1>3, StepKinds

\* However many threads call it and whichever of their calls throw, the ring
\* is a FIFO queue of capacity SIZE whose calls take effect at their fetch_add:
\* the safety part of ImplementsHandoffQueue.
THEOREM RingIsHandoffQueue == Spec => Queue!Init /\ [][Queue!Next]_(Queue!qvars)
<1>1. Spec => []RefInv
  BY InitRefInv, NextRefInv, PTL DEF Spec
<1>2. RefInv /\ [Next]_vars => [Queue!Next]_(Queue!qvars)
  BY Zenon, NextIsQueueNext
<1>3. Init => Queue!Init
  BY Zenon, InitIsQueueInit
<1> QED BY <1>1, <1>2, <1>3, PTL DEF Spec

=============================================================================
