---------------------------- MODULE IndexPoolProofs -------------------------
(* ThreadSafeIndexPool for every number of threads and indexes: an index is in *)
(* one place, and returning one never waits for room.                          *)
EXTENDS ThreadSafeIndexPool, RingProofs, FiniteSetTheorems

-----------------------------------------------------------------------------
(* What stays true of the pool.                                            *)

ClientTypes ==
  /\ step \in [Threads -> {"get", "load", "store", "return"}]
  /\ idx \in [Threads -> Indexes]
  /\ uses \in [Indexes -> Nat] /\ reg \in [Threads -> Nat]
  /\ stale \in BOOLEAN

\* What the ring was given are indexes, the first lap of them at its construction.
Filled ==
  /\ Indexes \subseteq pub
  /\ \A k \in Tickets : k < writeTicket => put[k] \in Indexes

\* Tickets that a dequeue under way has claimed.
Pulled(k) == \E t \in Threads : Dequeuing(t) /\ ticket[t] = k

\* Reads are never given up, and carry what they moved out.
Taken ==
  /\ \A k \in Tickets : k < readTicket => got[k] # None \/ Pulled(k)
  /\ \A t \in Threads : pc[t] = "deqRelease" => val[t] = got[ticket[t]]

\* A slot's number has passed a ticket only if the ticket was published, and has
\* gone on to the next lap once the reader of the ticket is done.
Released(k) == got[k] # None /\ ~Pulled(k)
Laps ==
  \A k \in Tickets :
    /\ seq[Index(k)] > k => k \in pub
    /\ Released(k) => seq[Index(k)] >= k + SIZE

Holders(i) == {t \in Threads : Holds(t, i)}
OnePlace(i) ==
  \/ Holders(i) = {} /\ \E k \in Tickets : Inside(i) = {k}
  \/ Inside(i) = {} /\ \E t \in Threads : Holders(i) = {t}

Current == \A t \in Threads : step[t] = "store" => reg[t] = uses[idx[t]]

IndexInv ==
  /\ Contents /\ ClientTypes /\ Filled /\ Taken /\ Laps
  /\ ~stale => Current /\ \A i \in Indexes : OnePlace(i)

-----------------------------------------------------------------------------
(* The pool as it is constructed.                                          *)

\* Two tickets of a slot less than a lap apart.
LEMMA SameSlotLap ==
  ASSUME NEW k \in Nat, NEW n \in Nat, Index(k) = Index(n), k < n + SIZE
  PROVE  k <= n
<1> DEFINE q == k \div SIZE
           r == n \div SIZE
           a == n % SIZE
<1>0. SIZE \in Nat /\ SIZE > 0
  BY SizeAssumption
<1>1. q \in Int /\ k = SIZE * q + a
  BY Zenon, <1>0, DivMod DEF Index
<1>2. r \in Int /\ n = SIZE * r + a /\ a \in 0 .. SIZE - 1
  BY Zenon, <1>0, DivMod
<1> HIDE DEF q, r, a
<1>3. q = r \/ SIZE * q >= SIZE * r + SIZE \/ SIZE * r >= SIZE * q + SIZE
  BY Zenon, <1>1, <1>2, MultipleIsFar, SizeAssumption
<1>4. SIZE * q \in Int /\ SIZE * r \in Int /\ SIZE \in Nat /\ a \in Int
  BY <1>1, <1>2, SizeAssumption
<1> QED BY <1>1, <1>2, <1>3, <1>4

\* The state of the ring after initializeIndexes(), with no call under way.
Loaded ==
  /\ TypeOK /\ Quiescent
  /\ InitializeIndexes(seq, data, writeTicket, readTicket)
  /\ put = InitialPut /\ pub = Indexes /\ got = [k \in Tickets |-> None]

LEMMA LoadedNumbers ==
  /\ Indexes = Slots /\ Indexes \subseteq Tickets /\ Indexes \subseteq Nat
  /\ \A k \in Tickets : k \in Nat /\ (k < SIZE <=> k \in Indexes)
BY SizeAssumption, ParameterAssumption, IndexAssumption DEF Indexes, Slots, Tickets

LEMMA LoadedSlots ==
  ASSUME Loaded
  PROVE  /\ \A k \in Tickets : Index(k) \in Slots /\ seq[Index(k)] = Index(k) + 1
         /\ \A k \in Indexes : Index(k) = k /\ data[k] = k /\ put[k] = k
         /\ \A k \in Tickets : AdmitsReader(k) => k \in Indexes
<1>1. /\ seq = [i \in Slots |-> i + 1] /\ data = [i \in Slots |-> i]
      /\ put = [k \in Tickets |-> IF k < SIZE THEN k ELSE None]
  BY Zenon DEF Loaded, InitializeIndexes, InitialPut
<1>2. \A k \in Tickets : Index(k) \in Slots /\ seq[Index(k)] = Index(k) + 1
  BY Zenon, <1>1, IndexInSlots, LoadedNumbers
<1>3. \A k \in Indexes : Index(k) = k /\ data[k] = k /\ put[k] = k
  BY Zenon, <1>1, IndexOfSlot, LoadedNumbers
<1>4. ASSUME NEW k \in Tickets, AdmitsReader(k) PROVE k \in Indexes
  <2>1. Index(k) + 1 = k + 1 /\ Index(k) \in Indexes
    BY Zenon, <1>2, <1>4, LoadedNumbers DEF AdmitsReader
  <2>2. k \in Nat /\ Index(k) \in Nat
    BY Zenon, <2>1, LoadedNumbers
  <2>3. Index(k) = k
    BY <2>1, <2>2
  <2> QED BY Zenon, <2>1, <2>3
<1> QED BY Zenon, <1>2, <1>3, <1>4

LEMMA LoadedContents == Loaded => Contents
<1> SUFFICES ASSUME Loaded PROVE Contents
  BY Zenon
<1>1. /\ TypeOK /\ writeTicket = SIZE /\ readTicket = 0 /\ pub = Indexes
      /\ \A k \in Tickets : got[k] = None
      /\ \A t \in Threads : pc[t] = "idle"
  BY Zenon DEF Loaded, InitializeIndexes, Quiescent
<1>2. \A t \in Threads : ~Enqueuing(t) /\ ~Dequeuing(t) /\ ~Reading(t) /\ ~Writing(t)
  BY Zenon, <1>1 DEF Enqueuing, Dequeuing, Reading, Writing
<1>3. Ownership
  BY Zenon, <1>1, <1>2 DEF Ownership, TicketsClaimed, TicketsDistinct, HeldSlots
<1>4. HistoryFollowsCalls /\ WritersCarry
  <2>1. \A k \in pub : k < writeTicket
    BY Zenon, <1>1, LoadedNumbers
  <2> QED BY Zenon, <1>1, <1>2, <2>1 DEF HistoryFollowsCalls, CallFollows, WritersCarry
<1>5. PublishedAdmits
  <2> SUFFICES ASSUME NEW k \in Indexes PROVE seq[Index(k)] = k + 1
    BY Zenon, <1>1 DEF PublishedAdmits, AdmitsReader
  <2>1. k \in Tickets /\ Index(k) = k
    BY Zenon, LoadedSlots, LoadedNumbers
  <2> QED BY Zenon, <2>1, LoadedSlots
<1>6. AdmitsPublished /\ Delivery
  BY Zenon, <1>1, LoadedSlots DEF AdmitsPublished, Delivery
<1>7. ReadableIntact
  BY Zenon, LoadedSlots DEF ReadableIntact
<1>8. AbandonedAdmits
  BY Zenon, <1>1, LoadedNumbers DEF AbandonedAdmits, AbandonedWrite
<1> QED BY Zenon, <1>3, <1>4, <1>5, <1>6, <1>7, <1>8 DEF Contents

LEMMA LoadedInv == Loaded => Filled /\ Taken /\ Laps /\ \A i \in Indexes : Inside(i) = {i}
<1> SUFFICES ASSUME Loaded PROVE Filled /\ Taken /\ Laps /\ \A i \in Indexes : Inside(i) = {i}
  BY Zenon
<1>1. /\ TypeOK /\ writeTicket = SIZE /\ readTicket = 0 /\ pub = Indexes
      /\ \A k \in Tickets : got[k] = None
      /\ \A t \in Threads : pc[t] = "idle"
  BY Zenon DEF Loaded, InitializeIndexes, Quiescent
<1>2. \A k \in Tickets : ~(k < 0) /\ k >= 0
  BY LoadedNumbers
<1>3. Filled
  BY Zenon, <1>1, LoadedSlots, LoadedNumbers DEF Filled
<1>4. Taken
  BY Zenon, <1>1, <1>2 DEF Taken
<1>5. Laps
  <2> SUFFICES ASSUME NEW k \in Tickets, seq[Index(k)] > k PROVE k \in Indexes
    BY Zenon, <1>1 DEF Laps, Released
  <2>1. seq[Index(k)] = Index(k) + 1 /\ k \in Nat /\ Index(k) \in Indexes /\ Index(k) \in Nat
    BY Zenon, LoadedSlots, LoadedNumbers
  <2>2. Index(k) <= k
    BY Zenon, <2>1, IndexAtMost
  <2>3. Index(k) = k
    BY <2>1, <2>2
  <2> QED BY Zenon, <2>1, <2>3
<1>6. ASSUME NEW i \in Indexes PROVE Inside(i) = {i}
  <2>1. ASSUME NEW k \in Tickets PROVE k \in Inside(i) <=> k = i
    BY Zenon, <1>1, <1>2, LoadedSlots, LoadedNumbers DEF Inside
  <2>2. Inside(i) \subseteq Tickets /\ i \in Tickets
    BY Zenon, LoadedNumbers DEF Inside
  <2> QED BY Zenon, <2>1, <2>2
<1> QED BY Zenon, <1>3, <1>4, <1>5, <1>6

LEMMA InitIndexInv == PoolInit => IndexInv
<1> SUFFICES ASSUME PoolInit PROVE IndexInv
  BY Zenon
<1>1. TypeOK
  <2>1. seq \in [Slots -> 0 .. MaxTickets + SIZE]
    BY SizeAssumption, ParameterAssumption DEF PoolInit, InitializeIndexes, Slots
  <2>2. data \in [Slots -> Payloads]
    BY Zenon, LoadedNumbers, IndexAssumption DEF PoolInit, InitializeIndexes, Payloads
  <2>3. writeTicket \in 0 .. MaxTickets /\ readTicket \in 0 .. MaxTickets
    BY SizeAssumption, ParameterAssumption, IndexAssumption DEF PoolInit, InitializeIndexes
  <2>4. put \in [Tickets -> Values \cup {None}] /\ pub \subseteq Tickets
    BY Zenon, LoadedNumbers, IndexAssumption DEF PoolInit, InitialPut
  <2>5. 0 \in 0 .. MaxTickets /\ NoBatch \in [asked : Int, count : Int, i : Nat]
    BY ParameterAssumption DEF NoBatch
  <2> QED BY Zenon, <2>1, <2>2, <2>3, <2>4, <2>5 DEF PoolInit, TypeOK, Payloads, Labels
<1>2. Loaded
  BY Zenon, <1>1 DEF PoolInit, Loaded, Quiescent
<1>3. ClientTypes
  <2>1. 0 \in Indexes /\ 0 \in Nat
    BY SizeAssumption DEF Indexes
  <2> QED BY Zenon, <2>1 DEF PoolInit, ClientTypes
<1>4. Current /\ \A i \in Indexes : Holders(i) = {}
  BY Zenon DEF PoolInit, Current, Holders, Holds
<1> QED BY Zenon, <1>2, <1>3, <1>4, LoadedContents, LoadedInv, LoadedNumbers DEF IndexInv, OnePlace

-----------------------------------------------------------------------------
(* What a step of the ring does, as the pool sees it.                      *)

\* The numbers of a state of the pool.
LEMMA IndexTypes ==
  ASSUME IndexInv
  PROVE  /\ Contents /\ TypeOK /\ ClientTypes /\ TicketsDistinct /\ TicketsClaimed /\ HeldSlots
         /\ writeTicket \in Nat /\ readTicket \in Nat
         /\ \A k \in Tickets : k \in Nat /\ Index(k) \in Slots /\ seq[Index(k)] \in Nat
         /\ \A t \in Threads : Enqueuing(t) \/ Dequeuing(t) => ticket[t] \in Tickets
<1>1. Contents /\ TypeOK /\ ClientTypes /\ TicketsDistinct /\ TicketsClaimed /\ HeldSlots
  BY Zenon, ContentsTypes DEF IndexInv, Contents, Ownership
<1>2. \A i \in Slots : seq[i] \in Nat
  BY <1>1, SizeAssumption, ParameterAssumption DEF TypeOK
<1> QED BY Zenon, <1>1, <1>2, ContentsTypes

\* The dequeues under way, and what they carry, are the same for all but t.
Others(t) ==
  \A u \in Threads \ {t} :
    /\ Dequeuing(u)' <=> Dequeuing(u)
    /\ ticket'[u] = ticket[u] /\ val'[u] = val[u]
    /\ pc'[u] = "deqRelease" => pc[u] = "deqRelease"

\* A read ticket is claimed.
Claims(t) ==
  /\ Others(t) /\ ~Dequeuing(t) /\ Dequeuing(t)' /\ pc'[t] # "deqRelease"
  /\ ticket'[t] = readTicket /\ readTicket' = readTicket + 1
  /\ UNCHANGED <<seq, writeTicket, put, pub, got>>

\* A payload is moved out.
Moves(t) ==
  /\ Others(t) /\ Dequeuing(t) /\ Dequeuing(t)' /\ ticket'[t] = ticket[t]
  /\ got' = [got EXCEPT ![ticket[t]] = val'[t]] /\ val'[t] # None
  /\ UNCHANGED <<seq, writeTicket, readTicket, put, pub>>

\* A reader hands its slot on.
Releases(t) ==
  /\ Others(t) /\ pc[t] = "deqRelease" /\ ~Dequeuing(t)'
  /\ seq' = [seq EXCEPT ![Index(ticket[t])] = ticket[t] + SIZE]
  /\ UNCHANGED <<writeTicket, readTicket, put, pub, got>>

\* A writer hands its slot on.
Publishes(t) ==
  /\ Others(t) /\ pc[t] = "enqPublish" /\ ~Dequeuing(t)'
  /\ seq' = [seq EXCEPT ![Index(ticket[t])] = ticket[t] + 1]
  /\ pub' = pub \cup {ticket[t]}
  /\ UNCHANGED <<writeTicket, readTicket, put, got>>

\* A write ticket is claimed for index i.
Gives(t, i) ==
  /\ Others(t) /\ ~Dequeuing(t) /\ ~Dequeuing(t)'
  /\ writeTicket' = writeTicket + 1 /\ writeTicket \in Tickets
  /\ put' = [put EXCEPT ![writeTicket] = i]
  /\ UNCHANGED <<seq, readTicket, pub, got>>

\* Anything else.
Steady(t) ==
  /\ Others(t) /\ (Dequeuing(t)' <=> Dequeuing(t)) /\ (Dequeuing(t) => ticket'[t] = ticket[t])
  /\ pc'[t] # "deqRelease"
  /\ UNCHANGED <<seq, writeTicket, readTicket, put, pub, got>>

LEMMA ReturnOthers ==
  ASSUME TypeOK, NEW t \in Threads, Return(t)
  PROVE  Others(t) /\ ~Dequeuing(t)' /\ pc'[t] # "deqRelease"
<1>1. /\ pc'[t] = "idle"
      /\ \A u \in Threads \ {t} : pc'[u] = pc[u] /\ ticket'[u] = ticket[u] /\ val'[u] = val[u]
  BY Zenon, ReturnLocals
<1> QED BY Zenon, <1>1 DEF Others, Dequeuing

LEMMA RingEffect ==
  ASSUME TypeOK, Contents, NEW t \in Threads, Continue(t)
  PROVE  \/ pc[t] # "deqRelease" /\ (Claims(t) \/ Moves(t) \/ Publishes(t) \/ Steady(t))
         \/ pc[t] = "deqRelease" /\ Releases(t)
<1>1. CASE \/ EnqueueEnterSlot(t) \/ EnqueueAssign(t) \/ EmplaceDestroy(t) \/ EmplaceConstruct(t)
           \/ BatchDone(t) \/ DequeueEnterSlot(t) \/ IsEmptyCompare(t)
  <2>1. UNCHANGED <<seq, writeTicket, readTicket, put, pub, got, ticket, val>>
    BY Zenon, <1>1 DEF EnqueueEnterSlot, EnqueueAssign, EmplaceDestroy, EmplaceConstruct, BatchDone,
                       DequeueEnterSlot, IsEmptyCompare, object, history
  <2>2. /\ pc[t] # "deqRelease" /\ pc'[t] # "deqRelease" /\ (Dequeuing(t)' <=> Dequeuing(t))
        /\ \A u \in Threads \ {t} : pc'[u] = pc[u]
    BY Zenon, <1>1 DEF EnqueueEnterSlot, EnqueueAssign, EmplaceDestroy, EmplaceConstruct, BatchDone,
                       DequeueEnterSlot, IsEmptyCompare, Goto, TypeOK, Dequeuing
  <2> QED BY Zenon, <2>1, <2>2 DEF Steady, Others, Dequeuing
<1>2. CASE BatchReturn(t) \/ IsEmptyReturn(t)
  <2>1. /\ UNCHANGED <<seq, writeTicket, readTicket, put, pub, got>>
        /\ pc[t] # "deqRelease" /\ ~Dequeuing(t) /\ Return(t)
    BY Zenon, <1>2 DEF BatchReturn, IsEmptyReturn, object, history, Dequeuing
  <2> QED BY Zenon, <2>1, ReturnOthers DEF Steady
<1>3. CASE EnqueuePublish(t)
  BY Zenon, <1>3, ReturnOthers DEF EnqueuePublish, Publishes
<1>4. CASE BatchClaim(t)
  <2>1. /\ pc[t] = "batchLoop" /\ pc'[t] = "deqSpin" /\ UNCHANGED val
        /\ \A u \in Threads \ {t} : pc'[u] = pc[u] /\ ticket'[u] = ticket[u]
        /\ ticket'[t] = readTicket /\ readTicket' = readTicket + 1
        /\ UNCHANGED <<seq, writeTicket, put, pub, got>>
    BY Zenon, <1>4 DEF BatchClaim, ClaimRead, Goto, TypeOK
  <2> QED BY Zenon, <2>1 DEF Claims, Others, Dequeuing
<1>5. CASE DequeueMove(t)
  <2>1. /\ pc[t] = "deqMove" /\ pc'[t] = "deqRelease"
        /\ \A u \in Threads \ {t} : pc'[u] = pc[u] /\ val'[u] = val[u]
        /\ UNCHANGED <<seq, writeTicket, readTicket, ticket, put, pub>>
        /\ got' = [got EXCEPT ![ticket[t]] = data[Index(ticket[t])]]
        /\ val'[t] = data[Index(ticket[t])]
    BY Zenon, <1>5 DEF DequeueMove, Goto, TypeOK
  <2>2. data[Index(ticket[t])] \in Payloads
    BY Zenon, ContentsTypes DEF TypeOK
  <2>3. val'[t] # None
    BY Zenon, <2>1, <2>2, PayloadAssumption DEF Payloads
  <2> QED BY Zenon, <2>1, <2>3 DEF Moves, Others, Dequeuing
<1>6. CASE DequeueRelease(t)
  <2>1. /\ pc[t] = "deqRelease" /\ seq' = [seq EXCEPT ![Index(ticket[t])] = ticket[t] + SIZE]
        /\ UNCHANGED <<writeTicket, readTicket, put, pub, got>>
    BY Zenon, <1>6 DEF DequeueRelease, NextLap, history
  <2>2. CASE Return(t)
    BY Zenon, <2>1, <2>2, ReturnOthers DEF Releases
  <2>3. CASE Goto(t, "batchLoop") /\ UNCHANGED <<ticket, val>>
    <3>1. pc'[t] = "batchLoop" /\ \A u \in Threads \ {t} : pc'[u] = pc[u]
      BY Zenon, <2>3 DEF Goto, TypeOK
    <3> QED BY Zenon, <2>1, <2>3, <3>1 DEF Releases, Others, Dequeuing
  <2> QED BY Zenon, <1>6, <2>2, <2>3 DEF DequeueRelease
<1> QED BY Zenon, <1>1, <1>2, <1>3, <1>4, <1>5, <1>6 DEF Continue

\* getIndex() and returnIndex() enter the ring.
LEMMA GetEffect ==
  ASSUME TypeOK, NEW t \in Threads, DequeueClaim(t)
  PROVE  Claims(t)
<1>1. /\ pc[t] = "idle" /\ pc'[t] = "deqSpin" /\ UNCHANGED val
      /\ \A u \in Threads \ {t} : pc'[u] = pc[u] /\ ticket'[u] = ticket[u]
      /\ ticket'[t] = readTicket /\ readTicket' = readTicket + 1
      /\ UNCHANGED <<seq, writeTicket, put, pub, got>>
  BY Zenon DEF DequeueClaim, ClaimRead, Goto, TypeOK
<1> QED BY Zenon, <1>1 DEF Claims, Others, Dequeuing

LEMMA GiveEffect ==
  ASSUME TypeOK, NEW t \in Threads, NEW i \in Values, EnqueueClaim(t, i, "enqueue")
  PROVE  Gives(t, i)
<1>1. /\ pc[t] = "idle" /\ pc'[t] = "enqSpin"
      /\ \A u \in Threads \ {t} : pc'[u] = pc[u] /\ ticket'[u] = ticket[u] /\ val'[u] = val[u]
      /\ writeTicket' = writeTicket + 1 /\ put' = [put EXCEPT ![writeTicket] = i]
      /\ UNCHANGED <<seq, readTicket, pub, got>>
  BY Zenon DEF EnqueueClaim, Goto, TypeOK
<1>2. writeTicket \in Tickets
  BY ParameterAssumption DEF EnqueueClaim, TypeOK, Tickets
<1> QED BY Zenon, <1>1, <1>2 DEF Gives, Others, Dequeuing

-----------------------------------------------------------------------------
(* The tickets that are pulled, and with them the places of the indexes.   *)

LEMMA OthersPull ==
  ASSUME NEW t \in Threads, Others(t), NEW k
  PROVE  /\ (\E u \in Threads \ {t} : Dequeuing(u)' /\ ticket'[u] = k)
              <=> \E u \in Threads \ {t} : Dequeuing(u) /\ ticket[u] = k
         /\ Pulled(k) <=> \/ Dequeuing(t) /\ ticket[t] = k
                          \/ \E u \in Threads \ {t} : Dequeuing(u) /\ ticket[u] = k
         /\ Pulled(k)' <=> \/ Dequeuing(t)' /\ ticket'[t] = k
                           \/ \E u \in Threads \ {t} : Dequeuing(u)' /\ ticket'[u] = k
<1>1. /\ Pulled(k) <=> \E u \in Threads : Dequeuing(u) /\ ticket[u] = k
      /\ Pulled(k)' <=> \E u \in Threads : Dequeuing(u)' /\ ticket'[u] = k
  BY Zenon DEF Pulled
<1>2. (\E u \in Threads \ {t} : Dequeuing(u)' /\ ticket'[u] = k)
              <=> \E u \in Threads \ {t} : Dequeuing(u) /\ ticket[u] = k
  BY Zenon DEF Others
<1> QED BY Zenon, <1>1, <1>2

LEMMA PulledStays ==
  ASSUME NEW t \in Threads, Others(t), Dequeuing(t)' <=> Dequeuing(t),
         Dequeuing(t) => ticket'[t] = ticket[t], NEW k
  PROVE  Pulled(k)' <=> Pulled(k)
BY Zenon, OthersPull

LEMMA PulledClaim ==
  ASSUME NEW t \in Threads, Claims(t), NEW k
  PROVE  Pulled(k)' <=> Pulled(k) \/ k = readTicket
<1>1. Others(t) /\ ~Dequeuing(t) /\ Dequeuing(t)' /\ ticket'[t] = readTicket
  BY Zenon DEF Claims
<1> QED BY Zenon, <1>1, OthersPull

LEMMA PulledRelease ==
  ASSUME TicketsDistinct, NEW t \in Threads, Releases(t), NEW k
  PROVE  Pulled(k)' <=> Pulled(k) /\ k # ticket[t]
<1>1. Others(t) /\ Dequeuing(t) /\ ~Dequeuing(t)'
  BY Zenon DEF Releases, Dequeuing
<1>2. (\E u \in Threads \ {t} : Dequeuing(u) /\ ticket[u] = k) => k # ticket[t]
  BY Zenon, <1>1 DEF TicketsDistinct
<1> QED BY Zenon, <1>1, <1>2, OthersPull

LEMMA PulledSame ==
  ASSUME NEW t \in Threads, NEW i,
         Moves(t) \/ Publishes(t) \/ Steady(t) \/ Gives(t, i), NEW k
  PROVE  Pulled(k)' <=> Pulled(k)
<1>1. /\ Others(t) /\ (Dequeuing(t)' <=> Dequeuing(t))
      /\ Dequeuing(t) => ticket'[t] = ticket[t]
  BY Zenon DEF Moves, Publishes, Steady, Gives, Dequeuing
<1> QED BY Zenon, <1>1, PulledStays

LEMMA InsideStays ==
  ASSUME IndexInv, NEW t \in Threads, Claims(t) \/ Moves(t) \/ Publishes(t) \/ Steady(t), NEW i
  PROVE  Inside(i)' = Inside(i)
<1>1. UNCHANGED <<put, writeTicket>>
  BY Zenon DEF Claims, Moves, Publishes, Steady
<1>2. ASSUME NEW k \in Tickets
      PROVE  (k >= readTicket' \/ Pulled(k)') <=> (k >= readTicket \/ Pulled(k))
  <2>1. CASE Claims(t)
    <3>1. readTicket' = readTicket + 1 /\ (Pulled(k)' <=> Pulled(k) \/ k = readTicket)
      BY Zenon, <2>1, PulledClaim DEF Claims
    <3>2. k \in Nat /\ readTicket \in Nat
      BY Zenon, IndexTypes
    <3>3. k >= readTicket <=> k >= readTicket + 1 \/ k = readTicket
      BY <3>2
    <3> QED BY Zenon, <3>1, <3>3
  <2>2. CASE Moves(t) \/ Publishes(t) \/ Steady(t)
    <3>1. readTicket' = readTicket
      BY Zenon, <2>2 DEF Moves, Publishes, Steady
    <3> QED BY Zenon, <2>2, <3>1, PulledSame
  <2> QED BY Zenon, <2>1, <2>2
<1>3. ASSUME NEW k \in Tickets PROVE k \in Inside(i)' <=> k \in Inside(i)
  BY Zenon, <1>1, <1>2 DEF Inside, Pulled
<1>4. Inside(i) \subseteq Tickets /\ Inside(i)' \subseteq Tickets
  BY Zenon DEF Inside
<1> QED BY Zenon, <1>3, <1>4

LEMMA InsideRelease ==
  ASSUME IndexInv, NEW t \in Threads, Releases(t), NEW i
  PROVE  /\ put[ticket[t]] = i => ticket[t] \in Inside(i)
         /\ Inside(i)' = Inside(i) \ {ticket[t]}
<1> DEFINE n == ticket[t]
<1>1. pc[t] = "deqRelease" /\ Dequeuing(t) /\ n \in Tickets /\ n < readTicket /\ got[n] # None
  BY Zenon, IndexTypes DEF Releases, Dequeuing, TicketsClaimed, Contents, HistoryFollowsCalls,
                           CallFollows
<1>2. n < writeTicket
  BY Zenon, <1>1, IndexTypes DEF Contents, HistoryFollowsCalls
<1>3. put[n] = i => n \in Inside(i)
  BY Zenon, <1>1, <1>2 DEF Inside
<1>4. UNCHANGED <<put, writeTicket, readTicket>>
  BY Zenon DEF Releases
<1>5. ~(n >= readTicket)
  <2>1. n \in Nat /\ readTicket \in Nat
    BY Zenon, <1>1, IndexTypes
  <2> QED BY <1>1, <2>1
<1>6. ASSUME NEW k \in Tickets PROVE k \in Inside(i)' <=> k \in Inside(i) /\ k # n
  <2>1. Pulled(k)' <=> Pulled(k) /\ k # n
    BY Zenon, PulledRelease, IndexTypes
  <2> QED BY Zenon, <1>4, <1>5, <2>1 DEF Inside, Pulled
<1>7. Inside(i) \subseteq Tickets /\ Inside(i)' \subseteq Tickets
  BY Zenon DEF Inside
<1> QED BY Zenon, <1>3, <1>6, <1>7

LEMMA InsideGive ==
  ASSUME IndexInv, NEW t \in Threads, NEW i \in Values, Gives(t, i), NEW j
  PROVE  Inside(j)' = IF j = i THEN Inside(j) \cup {writeTicket} ELSE Inside(j)
<1> DEFINE w == writeTicket
<1>1. /\ w \in Tickets /\ writeTicket' = w + 1 /\ put' = [put EXCEPT ![w] = i]
      /\ UNCHANGED <<readTicket, pub, got>> /\ w \in Nat /\ readTicket \in Nat
  BY Zenon, IndexTypes DEF Gives
<1>2. w >= readTicket \/ Pulled(w)
  <2>1. ~(w < w)
    BY <1>1
  <2>2. got[w] = None
    BY Zenon, <1>1, <2>1, IndexTypes DEF Contents, HistoryFollowsCalls
  <2>3. w < readTicket => Pulled(w)
    BY Zenon, <1>1, <2>2 DEF IndexInv, Taken
  <2> QED BY <1>1, <2>3
<1>3. put'[w] = i /\ \A k \in Tickets \ {w} : put'[k] = put[k]
  BY Zenon, <1>1, IndexTypes DEF TypeOK
<1>4. ASSUME NEW k \in Tickets
      PROVE  k \in Inside(j)' <=> k \in Inside(j) \/ (j = i /\ k = w)
  <2>1. Pulled(k)' <=> Pulled(k)
    BY Zenon, PulledSame
  <2>2. (k < w + 1 <=> k < w \/ k = w) /\ ~(w < w)
    <3>1. k \in Nat
      BY Zenon, IndexTypes
    <3> QED BY <1>1, <3>1
  <2>3. CASE k = w
    BY Zenon, <1>1, <1>2, <1>3, <2>1, <2>2, <2>3 DEF Inside, Pulled
  <2>4. CASE k # w
    BY Zenon, <1>1, <1>3, <2>1, <2>2, <2>4 DEF Inside, Pulled
  <2> QED BY Zenon, <2>3, <2>4
<1>5. Inside(j) \subseteq Tickets /\ Inside(j)' \subseteq Tickets
  BY Zenon DEF Inside
<1> QED BY Zenon, <1>1, <1>4, <1>5

-----------------------------------------------------------------------------
(* The ring keeps its part of the invariant.                               *)

RingMoves(t) ==
  \/ Claims(t) \/ Moves(t) \/ Publishes(t) \/ Steady(t) \/ Releases(t)
  \/ \E i \in Indexes : Gives(t, i)

LEMMA FilledStep ==
  ASSUME IndexInv, NEW t \in Threads, RingMoves(t)
  PROVE  Filled'
<1>1. Filled
  BY Zenon DEF IndexInv
<1>2. ASSUME NEW i \in Indexes, Gives(t, i) PROVE Filled'
  <2>1. /\ put' = [put EXCEPT ![writeTicket] = i] /\ writeTicket \in Tickets
        /\ writeTicket' = writeTicket + 1 /\ UNCHANGED pub
    BY Zenon, <1>2 DEF Gives
  <2>2. put'[writeTicket] = i /\ \A k \in Tickets \ {writeTicket} : put'[k] = put[k]
    BY Zenon, <2>1, IndexTypes DEF TypeOK
  <2>3. \A k \in Tickets : k < writeTicket + 1 => k < writeTicket \/ k = writeTicket
    BY Zenon, IndexTypes, TicketOrder
  <2> QED BY Zenon, <1>1, <2>1, <2>2, <2>3 DEF Filled
<1>3. CASE Claims(t) \/ Moves(t) \/ Publishes(t) \/ Steady(t) \/ Releases(t)
  <2>1. UNCHANGED <<put, writeTicket>> /\ pub \subseteq pub'
    BY Zenon, <1>3 DEF Claims, Moves, Publishes, Steady, Releases
  <2> QED BY Zenon, <1>1, <2>1 DEF Filled
<1> QED BY Zenon, <1>2, <1>3 DEF RingMoves

LEMMA TakenStep ==
  ASSUME IndexInv, NEW t \in Threads, RingMoves(t)
  PROVE  Taken'
<1>1. /\ \A k \in Tickets : k < readTicket => got[k] # None \/ Pulled(k)
      /\ \A u \in Threads : pc[u] = "deqRelease" => val[u] = got[ticket[u]]
  BY Zenon DEF IndexInv, Taken
<1>2. Others(t)
  BY Zenon DEF RingMoves, Claims, Moves, Publishes, Steady, Releases, Gives
<1>3. CASE Claims(t)
  <2>1. readTicket' = readTicket + 1 /\ UNCHANGED got /\ pc'[t] # "deqRelease"
    BY Zenon, <1>3 DEF Claims
  <2>2. \A k \in Tickets : k < readTicket + 1 => k < readTicket \/ k = readTicket
    BY Zenon, IndexTypes, TicketOrder
  <2>3. \A k \in Tickets : k < readTicket' => got'[k] # None \/ Pulled(k)'
    BY Zenon, <1>1, <1>3, <2>1, <2>2, PulledClaim
  <2>4. \A u \in Threads : pc'[u] = "deqRelease" => val'[u] = got'[ticket'[u]]
    BY Zenon, <1>1, <1>2, <2>1 DEF Others
  <2> QED BY Zenon, <2>3, <2>4 DEF Taken
<1>4. CASE Moves(t)
  <2> DEFINE n == ticket[t]
  <2>1. /\ got' = [got EXCEPT ![n] = val'[t]] /\ val'[t] # None /\ UNCHANGED readTicket
        /\ Dequeuing(t) /\ ticket'[t] = n
    BY Zenon, <1>4 DEF Moves
  <2>2. got'[n] = val'[t] /\ \A k \in Tickets \ {n} : got'[k] = got[k]
    BY Zenon, <2>1, IndexTypes DEF TypeOK
  <2>3. \A k \in Tickets : k < readTicket' => got'[k] # None \/ Pulled(k)'
    BY Zenon, <1>1, <1>4, <2>1, <2>2, PulledSame
  <2>4. ASSUME NEW u \in Threads \ {t}, pc'[u] = "deqRelease" PROVE val'[u] = got'[ticket'[u]]
    <3>1. pc[u] = "deqRelease" /\ ticket'[u] = ticket[u] /\ val'[u] = val[u] /\ Dequeuing(u)
      BY Zenon, <1>2, <2>4 DEF Others, Dequeuing
    <3>2. ticket[u] \in Tickets \ {n}
      BY Zenon, <2>1, <3>1, IndexTypes DEF TicketsDistinct
    <3> QED BY Zenon, <1>1, <2>2, <3>1, <3>2
  <2> QED BY Zenon, <2>1, <2>2, <2>3, <2>4 DEF Taken
<1>5. CASE Releases(t)
  <2>1. pc[t] = "deqRelease" /\ UNCHANGED <<readTicket, got>> /\ pc'[t] # "deqRelease"
    BY Zenon, <1>5 DEF Releases, Dequeuing
  <2>2. got[ticket[t]] # None
    BY Zenon, <2>1, IndexTypes DEF Contents, HistoryFollowsCalls, CallFollows
  <2>3. \A k \in Tickets : k < readTicket' => got'[k] # None \/ Pulled(k)'
    BY Zenon, <1>1, <1>5, <2>1, <2>2, PulledRelease, IndexTypes
  <2>4. \A u \in Threads : pc'[u] = "deqRelease" => val'[u] = got'[ticket'[u]]
    BY Zenon, <1>1, <1>2, <2>1 DEF Others
  <2> QED BY Zenon, <2>3, <2>4 DEF Taken
<1>6. ASSUME NEW i \in Indexes, Publishes(t) \/ Steady(t) \/ Gives(t, i) PROVE Taken'
  <2>1. UNCHANGED <<readTicket, got>>
    BY Zenon, <1>6 DEF Publishes, Steady, Gives
  <2>2. pc'[t] # "deqRelease"
    BY Zenon, <1>6 DEF Publishes, Steady, Gives, Dequeuing
  <2>3. \A k \in Tickets : k < readTicket' => got'[k] # None \/ Pulled(k)'
    BY Zenon, <1>1, <1>6, <2>1, PulledSame
  <2>4. \A u \in Threads : pc'[u] = "deqRelease" => val'[u] = got'[ticket'[u]]
    BY Zenon, <1>1, <1>2, <2>1, <2>2 DEF Others
  <2> QED BY Zenon, <2>3, <2>4 DEF Taken
<1>7. 0 \in Indexes
  BY SizeAssumption DEF Indexes
<1> QED BY Zenon, <1>3, <1>4, <1>5, <1>6, <1>7 DEF RingMoves

LEMMA LapsStep ==
  ASSUME IndexInv, NEW t \in Threads, RingMoves(t)
  PROVE  Laps'
<1> SUFFICES ASSUME NEW k \in Tickets
             PROVE  /\ seq'[Index(k)] > k => k \in pub'
                    /\ Released(k)' => seq'[Index(k)] >= k + SIZE
  BY Zenon DEF Laps
<1>1. /\ seq[Index(k)] > k => k \in pub
      /\ Released(k) => seq[Index(k)] >= k + SIZE
  BY Zenon DEF IndexInv, Laps
<1>2. k \in Nat /\ Index(k) \in Slots /\ seq[Index(k)] \in Nat /\ SIZE \in Nat /\ SIZE >= 2
  BY Zenon, IndexTypes, SizeAssumption
<1> DEFINE n == ticket[t]
<1>3. ASSUME NEW i, Claims(t) \/ Moves(t) \/ Steady(t) \/ Gives(t, i)
      PROVE  /\ seq'[Index(k)] > k => k \in pub'
             /\ Released(k)' => seq'[Index(k)] >= k + SIZE
  <2>1. UNCHANGED <<seq, pub>>
    BY Zenon, <1>3 DEF Claims, Moves, Steady, Gives
  <2>2. Released(k)' => Released(k)
    <3>1. CASE Claims(t)
      BY Zenon, <3>1, PulledClaim DEF Claims, Released
    <3>2. CASE Moves(t)
      <4>1. got' = [got EXCEPT ![n] = val'[t]] /\ (Pulled(k)' <=> Pulled(k)) /\ Dequeuing(t)
        BY Zenon, <3>2, PulledSame DEF Moves
      <4>2. k # n => got'[k] = got[k]
        BY Zenon, <4>1, IndexTypes DEF TypeOK
      <4>3. Pulled(n)
        BY Zenon, <4>1 DEF Pulled
      <4> QED BY Zenon, <4>1, <4>2, <4>3 DEF Released
    <3>3. CASE Steady(t) \/ Gives(t, i)
      BY Zenon, <3>3, PulledSame DEF Steady, Gives, Released
    <3> QED BY Zenon, <1>3, <3>1, <3>2, <3>3
  <2> QED BY Zenon, <1>1, <2>1, <2>2
<1>4. CASE Publishes(t)
  <2>1. /\ seq' = [seq EXCEPT ![Index(n)] = n + 1] /\ pub' = pub \cup {n}
        /\ Enqueuing(t) /\ Writing(t) /\ (Released(k)' <=> Released(k))
    BY Zenon, <1>4, PulledSame DEF Publishes, Enqueuing, Writing, Released
  <2>2. n \in Tickets /\ n \in Nat /\ seq[Index(n)] = n
    BY Zenon, <2>1, IndexTypes DEF HeldSlots, AdmitsWriter
  <2>3. CASE Index(k) # Index(n)
    BY Zenon, <1>1, <1>2, <2>1, <2>3, IndexTypes DEF TypeOK
  <2>4. CASE Index(k) = Index(n)
    <3>1. seq'[Index(k)] = n + 1 /\ seq[Index(k)] = n
      BY Zenon, <1>2, <2>1, <2>2, <2>4, IndexTypes DEF TypeOK
    <3>2. seq'[Index(k)] > k => k = n \/ seq[Index(k)] > k
      BY <1>2, <2>2, <3>1
    <3>3. seq[Index(k)] >= k + SIZE => seq'[Index(k)] >= k + SIZE
      BY <1>2, <2>2, <3>1
    <3> QED BY Zenon, <1>1, <2>1, <3>2, <3>3
  <2> QED BY Zenon, <2>3, <2>4
<1>5. CASE Releases(t)
  <2>1. /\ seq' = [seq EXCEPT ![Index(n)] = n + SIZE] /\ pub' = pub /\ got' = got
        /\ Dequeuing(t) /\ Reading(t)
    BY Zenon, <1>5 DEF Releases, Dequeuing, Reading
  <2>2. n \in Tickets /\ n \in Nat /\ seq[Index(n)] = n + 1
    BY Zenon, <2>1, IndexTypes DEF HeldSlots, AdmitsReader
  <2>3. Released(k)' => Released(k) \/ k = n
    BY Zenon, <1>5, <2>1, PulledRelease, IndexTypes DEF Released
  <2>4. CASE Index(k) # Index(n)
    <3>1. seq'[Index(k)] = seq[Index(k)] /\ k # n
      BY Zenon, <1>2, <2>1, <2>4, IndexTypes DEF TypeOK
    <3> QED BY Zenon, <1>1, <2>1, <2>3, <3>1
  <2>5. CASE Index(k) = Index(n)
    <3>1. seq'[Index(k)] = n + SIZE /\ seq[Index(k)] = n + 1
      BY Zenon, <1>2, <2>1, <2>2, <2>5, IndexTypes DEF TypeOK
    <3>2. seq'[Index(k)] > k => seq[Index(k)] > k
      <4>1. k < n + SIZE => k <= n
        BY Zenon, <1>2, <2>2, <2>5, SameSlotLap
      <4> QED BY <1>2, <2>2, <3>1, <4>1
    <3>3. seq[Index(k)] >= k + SIZE \/ k = n => seq'[Index(k)] >= k + SIZE
      BY <1>2, <2>2, <3>1
    <3> QED BY Zenon, <1>1, <2>1, <2>3, <3>2, <3>3
  <2> QED BY Zenon, <2>4, <2>5
<1> QED BY Zenon, <1>3, <1>4, <1>5 DEF RingMoves

-----------------------------------------------------------------------------
(* The places of the indexes.                                              *)

LEMMA IndexTaken ==
  ASSUME IndexInv, NEW t \in Threads, pc[t] = "deqRelease"
  PROVE  val[t] = put[ticket[t]] /\ val[t] \in Indexes
<1> DEFINE n == ticket[t]
<1>1. Dequeuing(t) /\ n \in Tickets /\ val[t] = got[n] /\ got[n] # None
  BY Zenon, IndexTypes DEF Dequeuing, IndexInv, Taken, Contents, HistoryFollowsCalls, CallFollows
<1>2. got[n] = put[n] /\ n < writeTicket
  BY Zenon, <1>1, IndexTypes DEF Contents, Delivery, HistoryFollowsCalls
<1> QED BY Zenon, <1>1, <1>2 DEF IndexInv, Filled

\* The same tickets and the same hands.
LEMMA SamePlace ==
  ASSUME NEW i, OnePlace(i), Inside(i)' = Inside(i), Holders(i)' = Holders(i)
  PROVE  OnePlace(i)'
BY Zenon DEF OnePlace

LEMMA PlaceTaken ==
  ASSUME IndexInv, NEW t \in Threads, Releases(t), Step(t, "get", "load"),
         idx' = [idx EXCEPT ![t] = val[t]], NEW i \in Indexes, OnePlace(i)
  PROVE  OnePlace(i)'
<1> DEFINE n == ticket[t]
<1>0. /\ Inside(i)' = Inside(i) \ {n}
      /\ put[n] = i => n \in Inside(i)
  BY Zenon, InsideRelease
<1>1. /\ val[t] = put[n] /\ Inside(i)' = Inside(i) \ {n}
      /\ put[n] = i => n \in Inside(i)
      /\ n \in Inside(i) => put[n] = i
  <2>1. val[t] = put[n]
    BY Zenon, IndexTaken DEF Releases
  <2>2. n \in Inside(i) => put[n] = i
    BY Zenon DEF Inside
  <2> QED BY Zenon, <1>0, <2>1, <2>2
<1>2. /\ step[t] = "get" /\ step'[t] = "load" /\ idx'[t] = val[t]
      /\ \A u \in Threads \ {t} : step'[u] = step[u] /\ idx'[u] = idx[u]
  BY Zenon, IndexTypes DEF Step, ClientTypes
<1>3. /\ Holders(i) = {u \in Threads : step[u] # "get" /\ idx[u] = i}
      /\ Holders(i)' = {u \in Threads : step'[u] # "get" /\ idx'[u] = i}
  BY Zenon DEF Holders, Holds
<1>4. CASE val[t] = i
  <2>1. Holders(i) = {} /\ Inside(i) = {n}
    BY Zenon, <1>1, <1>4 DEF OnePlace
  <2>2. Inside(i)' = {}
    BY Zenon, <1>1, <2>1
  <2>3. ASSUME NEW u \in Threads PROVE u \in Holders(i)' <=> u = t
    <3>1. CASE u = t
      BY Zenon, <1>2, <1>3, <1>4, <3>1
    <3>2. CASE u # t
      BY Zenon, <1>2, <1>3, <2>1, <3>2
    <3> QED BY Zenon, <3>1, <3>2
  <2>4. Holders(i)' \subseteq Threads
    BY Zenon, <1>3
  <2>5. Holders(i)' = {t}
    BY Zenon, <2>3, <2>4
  <2> QED BY Zenon, <2>2, <2>5 DEF OnePlace
<1>5. CASE val[t] # i
  <2>1. Inside(i)' = Inside(i)
    BY Zenon, <1>1, <1>5
  <2>2. Holders(i)' = Holders(i)
    BY Zenon, <1>2, <1>3, <1>5
  <2> QED BY Zenon, <2>1, <2>2, SamePlace
<1> QED BY Zenon, <1>4, <1>5

LEMMA PlaceGiven ==
  ASSUME IndexInv, NEW t \in Threads, Gives(t, idx[t]), Step(t, "return", "get"),
         UNCHANGED idx, NEW i \in Indexes, OnePlace(i)
  PROVE  OnePlace(i)'
<1> DEFINE w == writeTicket
<1>1. idx[t] \in Values
  BY Zenon, IndexTypes, IndexAssumption DEF ClientTypes
<1>2. Inside(i)' = IF i = idx[t] THEN Inside(i) \cup {w} ELSE Inside(i)
  BY Zenon, <1>1, InsideGive
<1>3. /\ step[t] = "return" /\ step'[t] = "get" /\ w \in Tickets
      /\ \A u \in Threads \ {t} : step'[u] = step[u] /\ idx'[u] = idx[u]
  BY Zenon, IndexTypes DEF Step, ClientTypes, Gives
<1>4. /\ Holders(i) = {u \in Threads : step[u] # "get" /\ idx[u] = i}
      /\ Holders(i)' = {u \in Threads : step'[u] # "get" /\ idx'[u] = i}
  BY Zenon DEF Holders, Holds
<1>5. CASE i = idx[t]
  <2>1. t \in Holders(i)
    BY Zenon, <1>3, <1>4, <1>5
  <2>2. Inside(i) = {} /\ Holders(i) = {t}
    BY Zenon, <2>1 DEF OnePlace
  <2>3. Inside(i)' = {w}
    BY Zenon, <1>2, <1>5, <2>2
  <2>4. Holders(i)' = {}
    BY Zenon, <1>3, <1>4, <2>2
  <2> QED BY Zenon, <1>3, <2>3, <2>4 DEF OnePlace
<1>6. CASE i # idx[t]
  <2>1. Inside(i)' = Inside(i)
    BY Zenon, <1>2, <1>6
  <2>2. Holders(i)' = Holders(i)
    BY Zenon, <1>3, <1>4, <1>6
  <2> QED BY Zenon, <2>1, <2>2, SamePlace
<1> QED BY Zenon, <1>5, <1>6

\* A thread uses the index it holds, and the ring is not touched.
LEMMA PlaceUsed ==
  ASSUME IndexInv, NEW t \in Threads, LoadUses(t) \/ StoreUses(t), NEW i \in Indexes, OnePlace(i)
  PROVE  OnePlace(i)'
<1>1. /\ step[t] # "get" /\ step'[t] # "get" /\ UNCHANGED idx
      /\ \A u \in Threads \ {t} : step'[u] = step[u]
  BY Zenon, IndexTypes DEF LoadUses, StoreUses, Step, ClientTypes
<1>2. /\ Holders(i) = {u \in Threads : step[u] # "get" /\ idx[u] = i}
      /\ Holders(i)' = {u \in Threads : step'[u] # "get" /\ idx'[u] = i}
  BY Zenon DEF Holders, Holds
<1>3. Holders(i)' = Holders(i)
  BY Zenon, <1>1, <1>2
<1>4. UNCHANGED <<put, writeTicket, readTicket, pc, ticket>>
  BY Zenon DEF LoadUses, StoreUses, vars, object, locals, history
<1>5. Inside(i)' = Inside(i)
  BY Zenon, <1>4 DEF Inside, Dequeuing
<1> QED BY Zenon, <1>3, <1>5, SamePlace

\* Two threads that hold indexes hold different ones.
LEMMA HoldersApart ==
  ASSUME ClientTypes, \A i \in Indexes : OnePlace(i), NEW t \in Threads, NEW u \in Threads \ {t},
         step[t] # "get", step[u] # "get"
  PROVE  idx[t] # idx[u]
<1> SUFFICES ASSUME idx[t] = idx[u] PROVE FALSE
  BY Zenon
<1> DEFINE i == idx[t]
<1>1. i \in Indexes /\ t \in Holders(i) /\ u \in Holders(i)
  BY Zenon DEF ClientTypes, Holders, Holds
<1>2. PICK x \in Threads : Holders(i) = {x}
  BY Zenon, <1>1 DEF OnePlace
<1> QED BY Zenon, <1>1, <1>2

-----------------------------------------------------------------------------
(* The steps.                                                              *)

LEMMA NextClientTypes ==
  ASSUME IndexInv, [PoolNext]_pvars
  PROVE  ClientTypes'
<1>0. ClientTypes
  BY Zenon, IndexTypes
<1>1. ASSUME NEW t \in Threads, RingStep(t) PROVE ClientTypes'
  <2>1. UNCHANGED <<uses, reg, stale>>
    BY Zenon, <1>1 DEF RingStep
  <2>2. CASE pc[t] = "deqRelease"
    <3>1. step' = [step EXCEPT ![t] = "load"] /\ idx' = [idx EXCEPT ![t] = val[t]]
      BY Zenon, <1>1, <2>2 DEF RingStep, Step
    <3>2. val[t] \in Indexes
      BY Zenon, <2>2, IndexTaken
    <3> QED BY Zenon, <1>0, <2>1, <3>1, <3>2 DEF ClientTypes
  <2>3. CASE pc[t] # "deqRelease"
    BY Zenon, <1>0, <1>1, <2>1, <2>3 DEF RingStep, ClientTypes
  <2> QED BY Zenon, <2>2, <2>3
<1>2. ASSUME NEW t \in Threads, LoadUses(t) PROVE ClientTypes'
  BY Zenon, <1>0, <1>2 DEF LoadUses, Step, ClientTypes
<1>3. ASSUME NEW t \in Threads, StoreUses(t) PROVE ClientTypes'
  <2>1. reg[t] \in Nat
    BY Zenon, <1>0 DEF ClientTypes
  <2>2. reg[t] + 1 \in Nat
    BY <2>1
  <2> QED BY Zenon, <1>0, <1>3, <2>2 DEF StoreUses, Step, ClientTypes
<1>4. ASSUME NEW t \in Threads, GetIndex(t) \/ ReturnIndex(t) PROVE ClientTypes'
  BY Zenon, <1>0, <1>4 DEF GetIndex, ReturnIndex, Step, ClientTypes
<1>5. CASE ReInitializePool \/ UNCHANGED pvars
  <2>1. UNCHANGED <<step, idx, reg, uses>> /\ stale' \in BOOLEAN
    BY Zenon, <1>0, <1>5 DEF ReInitializePool, pvars, client, ClientTypes
  <2> QED BY Zenon, <1>0, <2>1 DEF ClientTypes
<1> QED BY Zenon, <1>1, <1>2, <1>3, <1>4, <1>5 DEF PoolNext, Workload

LEMMA ReInitialized ==
  ASSUME IndexInv, ReInitializePool
  PROVE  IndexInv'
<1>1. /\ Quiescent /\ InitializeIndexes(seq', data', writeTicket', readTicket')
      /\ put' = InitialPut /\ pub' = Indexes /\ got' = [k \in Tickets |-> None]
      /\ stale' = (stale \/ \E t \in Threads : step[t] # "get")
      /\ UNCHANGED <<batchDequeueArray, pc, call, ticket, val, batch, sawItem, step, idx, reg, uses>>
  BY Zenon DEF ReInitializePool, locals
<1>2. TypeOK'
  <2>0. TypeOK
    BY Zenon, IndexTypes
  <2>1. seq' \in [Slots -> 0 .. MaxTickets + SIZE]
    BY <1>1, SizeAssumption, ParameterAssumption DEF InitializeIndexes, Slots
  <2>2. data' \in [Slots -> Payloads]
    BY Zenon, <1>1, LoadedNumbers, IndexAssumption DEF InitializeIndexes, Payloads
  <2>3. writeTicket' \in 0 .. MaxTickets /\ readTicket' \in 0 .. MaxTickets
    BY <1>1, SizeAssumption, ParameterAssumption, IndexAssumption DEF InitializeIndexes
  <2>4. /\ put' \in [Tickets -> Values \cup {None}] /\ pub' \subseteq Tickets
        /\ got' \in [Tickets -> Payloads \cup {None}]
    BY Zenon, <1>1, LoadedNumbers, IndexAssumption DEF InitialPut
  <2> QED BY Zenon, <1>1, <2>0, <2>1, <2>2, <2>3, <2>4 DEF TypeOK
<1>3. Loaded'
  BY Zenon, <1>1, <1>2 DEF Loaded, Quiescent, InitializeIndexes, InitialPut
<1>4. Contents' /\ Filled' /\ Taken' /\ Laps' /\ \A i \in Indexes : Inside(i)' = {i}
  <2>1. (Loaded => Contents)'
    BY LoadedContents, PTL
  <2>2. (Loaded => Filled /\ Taken /\ Laps /\ \A i \in Indexes : Inside(i) = {i})'
    BY LoadedInv, PTL
  <2> QED BY Zenon, <1>3, <2>1, <2>2
<1>5. ASSUME ~stale' PROVE Current' /\ \A i \in Indexes : OnePlace(i)'
  <2>1. ~stale /\ \A t \in Threads : step'[t] = "get"
    BY Zenon, <1>1, <1>5
  <2>2. Current' /\ \A i \in Indexes : Holders(i)' = {}
    BY Zenon, <2>1 DEF Current, Holders, Holds
  <2> QED BY Zenon, <1>4, <2>2, LoadedNumbers DEF OnePlace
<1>6. ClientTypes'
  BY Zenon, NextClientTypes DEF PoolNext
<1> QED BY Zenon, <1>4, <1>5, <1>6 DEF IndexInv

\* A step of the ring under a thread of the workload: what it changes there, and
\* that nobody's copy of a counter is touched.
LEMMA RingPartStep ==
  ASSUME IndexInv, NEW t \in Threads, GetIndex(t) \/ RingStep(t) \/ ReturnIndex(t)
  PROVE  /\ Contents' /\ RingMoves(t) /\ UNCHANGED stale
         /\ Current => Current'
<1>0. Contents /\ TypeOK /\ ClientTypes /\ idx[t] \in Indexes
  BY Zenon, IndexTypes DEF ClientTypes
<1>1. Contents'
  <2>1. Call(t) \/ Continue(t)
    BY Zenon, <1>0, IndexAssumption DEF GetIndex, RingStep, ReturnIndex, Call
  <2> QED BY Zenon, <1>0, <2>1, NextContents DEF Next
<1>2. RingMoves(t)
  <2>1. CASE GetIndex(t)
    BY Zenon, <1>0, <2>1, GetEffect DEF GetIndex, RingMoves
  <2>2. CASE RingStep(t)
    BY Zenon, <1>0, <2>2, RingEffect DEF RingStep, RingMoves
  <2>3. CASE ReturnIndex(t)
    BY Zenon, <1>0, <2>3, GiveEffect, IndexAssumption DEF ReturnIndex, RingMoves
  <2> QED BY Zenon, <2>1, <2>2, <2>3
<1>3. UNCHANGED <<reg, uses, stale>>
  BY Zenon DEF GetIndex, RingStep, ReturnIndex
<1>4. ASSUME NEW u \in Threads, step'[u] = "store" PROVE step[u] = "store" /\ idx'[u] = idx[u]
  <2>1. CASE UNCHANGED <<step, idx>>
    BY Zenon, <1>4, <2>1
  <2>2. CASE Step(t, "get", "load") /\ idx' = [idx EXCEPT ![t] = val[t]]
    BY Zenon, <1>0, <1>4, <2>2 DEF Step, ClientTypes
  <2>3. CASE Step(t, "return", "get") /\ UNCHANGED idx
    BY Zenon, <1>0, <1>4, <2>3 DEF Step, ClientTypes
  <2> QED BY Zenon, <2>1, <2>2, <2>3 DEF GetIndex, RingStep, ReturnIndex
<1> QED BY Zenon, <1>1, <1>2, <1>3, <1>4 DEF Current

LEMMA RingPartPlaces ==
  ASSUME IndexInv, NEW t \in Threads, GetIndex(t) \/ RingStep(t) \/ ReturnIndex(t),
         NEW i \in Indexes, OnePlace(i)
  PROVE  OnePlace(i)'
<1>0. Contents /\ TypeOK /\ ClientTypes /\ idx[t] \in Indexes
  BY Zenon, IndexTypes DEF ClientTypes
<1>1. ASSUME Claims(t) \/ Moves(t) \/ Publishes(t) \/ Steady(t), UNCHANGED <<step, idx>>
      PROVE  OnePlace(i)'
  <2>1. Inside(i)' = Inside(i)
    BY Zenon, <1>1, InsideStays
  <2>2. Holders(i)' = Holders(i)
    BY Zenon, <1>1 DEF Holders, Holds
  <2> QED BY Zenon, <2>1, <2>2, SamePlace
<1>2. CASE GetIndex(t)
  BY Zenon, <1>0, <1>1, <1>2, GetEffect DEF GetIndex
<1>3. CASE RingStep(t)
  <2>1. CASE pc[t] = "deqRelease"
    <3>1. Releases(t) /\ Step(t, "get", "load") /\ idx' = [idx EXCEPT ![t] = val[t]]
      BY Zenon, <1>0, <1>3, <2>1, RingEffect DEF RingStep
    <3> QED BY Zenon, <3>1, PlaceTaken
  <2>2. CASE pc[t] # "deqRelease"
    BY Zenon, <1>0, <1>1, <1>3, <2>2, RingEffect DEF RingStep
  <2> QED BY Zenon, <2>1, <2>2
<1>4. CASE ReturnIndex(t)
  <2>1. Gives(t, idx[t]) /\ Step(t, "return", "get") /\ UNCHANGED idx
    BY Zenon, <1>0, <1>4, GiveEffect, IndexAssumption DEF ReturnIndex
  <2> QED BY Zenon, <2>1, PlaceGiven
<1> QED BY Zenon, <1>2, <1>3, <1>4

\* The counter of an index is read and written by its holder alone.
LEMMA UsesStep ==
  ASSUME IndexInv, NEW t \in Threads, LoadUses(t) \/ StoreUses(t), ~stale
  PROVE  Current'
<1>0. ClientTypes /\ Current /\ \A i \in Indexes : OnePlace(i)
  BY Zenon, IndexTypes DEF IndexInv
<1>1. UNCHANGED idx /\ idx \in [Threads -> Indexes]
  BY Zenon, <1>0 DEF LoadUses, StoreUses, ClientTypes
<1>2. CASE LoadUses(t)
  <2>1. reg'[t] = uses[idx[t]] /\ UNCHANGED uses
    BY Zenon, <1>0, <1>2 DEF LoadUses, ClientTypes
  <2>2. \A u \in Threads \ {t} : step'[u] = step[u] /\ reg'[u] = reg[u]
    BY Zenon, <1>0, <1>2 DEF LoadUses, Step, ClientTypes
  <2> QED BY Zenon, <1>0, <1>1, <2>1, <2>2 DEF Current
<1>3. CASE StoreUses(t)
  <2>1. step[t] = "store" /\ step'[t] = "return" /\ UNCHANGED reg
    BY Zenon, <1>0, <1>3 DEF StoreUses, Step, ClientTypes
  <2>2. ASSUME NEW u \in Threads \ {t}, step'[u] = "store" PROVE reg'[u] = uses'[idx'[u]]
    <3>1. step[u] = "store" /\ uses' = [uses EXCEPT ![idx[t]] = reg[t] + 1]
      BY Zenon, <1>0, <1>3, <2>2 DEF StoreUses, Step, ClientTypes
    <3>2. idx[t] # idx[u]
      BY Zenon, <1>0, <2>1, <3>1, HoldersApart
    <3>3. uses'[idx[u]] = uses[idx[u]]
      BY Zenon, <1>0, <1>1, <3>1, <3>2 DEF ClientTypes
    <3> QED BY Zenon, <1>0, <1>1, <2>1, <3>1, <3>3 DEF Current
  <2> QED BY Zenon, <2>1, <2>2 DEF Current
<1> QED BY Zenon, <1>2, <1>3

LEMMA NextIndexInv == IndexInv /\ [PoolNext]_pvars => IndexInv'
<1> SUFFICES ASSUME IndexInv, [PoolNext]_pvars PROVE IndexInv'
  BY Zenon
<1>1. ASSUME NEW t \in Threads, GetIndex(t) \/ RingStep(t) \/ ReturnIndex(t) PROVE IndexInv'
  <2>1. /\ Contents' /\ RingMoves(t) /\ UNCHANGED stale /\ (Current => Current')
    BY Zenon, <1>1, RingPartStep
  <2>2. Filled' /\ Taken' /\ Laps' /\ ClientTypes'
    BY Zenon, <2>1, FilledStep, TakenStep, LapsStep, NextClientTypes
  <2>3. ASSUME ~stale' PROVE Current' /\ \A i \in Indexes : OnePlace(i)'
    BY Zenon, <1>1, <2>1, <2>3, RingPartPlaces DEF IndexInv
  <2> QED BY Zenon, <2>1, <2>2, <2>3 DEF IndexInv
<1>2. ASSUME UNCHANGED vars PROVE Contents' /\ Filled' /\ Taken' /\ Laps'
  <2>1. Contents'
    BY Zenon, <1>2, NextContents DEF IndexInv
  <2>2. UNCHANGED <<seq, writeTicket, readTicket, pc, ticket, val, put, pub, got>>
    BY Zenon, <1>2 DEF vars, object, locals, history
  <2>3. Filled'
    BY Zenon, <2>2 DEF IndexInv, Filled
  <2>4. \A k : Pulled(k)' <=> Pulled(k)
    BY Zenon, <2>2 DEF Pulled, Dequeuing
  <2>5. Taken'
    BY Zenon, <2>2, <2>4 DEF IndexInv, Taken
  <2>6. Laps'
    BY Zenon, <2>2, <2>4 DEF IndexInv, Laps, Released
  <2> QED BY Zenon, <2>1, <2>3, <2>5, <2>6
<1>3. ASSUME NEW t \in Threads, LoadUses(t) \/ StoreUses(t) PROVE IndexInv'
  <2>1. UNCHANGED vars /\ UNCHANGED stale
    BY Zenon, <1>3 DEF LoadUses, StoreUses
  <2>2. Contents' /\ Filled' /\ Taken' /\ Laps' /\ ClientTypes'
    BY Zenon, <1>2, <2>1, NextClientTypes
  <2>3. ASSUME ~stale' PROVE Current' /\ \A i \in Indexes : OnePlace(i)'
    BY Zenon, <1>3, <2>1, <2>3, UsesStep, PlaceUsed DEF IndexInv
  <2> QED BY Zenon, <2>2, <2>3 DEF IndexInv
<1>4. CASE UNCHANGED pvars
  <2>1. UNCHANGED vars /\ UNCHANGED <<step, idx, reg, uses, stale>>
    BY Zenon, <1>4 DEF pvars, client
  <2>2. Contents' /\ Filled' /\ Taken' /\ Laps' /\ ClientTypes'
    BY Zenon, <1>2, <2>1, NextClientTypes
  <2>3. Current => Current'
    BY Zenon, <2>1 DEF Current
  <2>4. UNCHANGED <<put, writeTicket, readTicket, pc, ticket>>
    BY Zenon, <2>1 DEF vars, object, locals, history
  <2>5. \A i : Inside(i)' = Inside(i) /\ Holders(i)' = Holders(i)
    BY Zenon, <2>1, <2>4 DEF Inside, Dequeuing, Holders, Holds
  <2>6. \A i \in Indexes : OnePlace(i) => OnePlace(i)'
    BY Zenon, <2>5, SamePlace
  <2> QED BY Zenon, <2>1, <2>2, <2>3, <2>6 DEF IndexInv
<1> QED BY Zenon, <1>1, <1>3, <1>4, ReInitialized DEF PoolNext, Workload

LEMMA IndexInvariant == PoolSpec => []IndexInv
BY InitIndexInv, NextIndexInv, PTL DEF PoolSpec

-----------------------------------------------------------------------------
(* The promises of the pool.                                               *)

\* getIndex() never hands out an index that somebody has, none is lost, and the
\* holder's plain increment is not overwritten: for any number of threads and
\* indexes, through any number of laps and reInitializePool() calls, until one
\* is made with an index out.
THEOREM IndexesStayInOnePlace == PoolSpec => []IndexInOnePlace
<1>1. IndexInv => IndexInOnePlace
  <2> SUFFICES ASSUME IndexInv, ~stale
               PROVE  /\ \A i \in Indexes : Cardinality(Inside(i)) + Cardinality(Holders(i)) = 1
                      /\ \A t \in Threads : step[t] = "store" => reg[t] = uses[idx[t]]
    BY Zenon DEF IndexInOnePlace, Holders
  <2>1. \A t \in Threads : step[t] = "store" => reg[t] = uses[idx[t]]
    BY Zenon DEF IndexInv, Current
  <2>2. ASSUME NEW i \in Indexes PROVE Cardinality(Inside(i)) + Cardinality(Holders(i)) = 1
    <3>1. OnePlace(i)
      BY Zenon DEF IndexInv
    <3>2. Cardinality({}) = 0 /\ \A x : Cardinality({x}) = 1
      BY Zenon, FS_EmptySet, FS_Singleton
    <3>3. \/ Cardinality(Inside(i)) = 1 /\ Cardinality(Holders(i)) = 0
          \/ Cardinality(Inside(i)) = 0 /\ Cardinality(Holders(i)) = 1
      BY Zenon, <3>1, <3>2 DEF OnePlace
    <3> QED BY <3>3
  <2> QED BY Zenon, <2>1, <2>2
<1> QED BY <1>1, IndexInvariant, PTL

\* SIZE + 1 tickets in a row cannot all be inside: there are SIZE indexes.
LEMMA RoomForAll ==
  ASSUME IndexInv, ~stale, NEW n \in Tickets, n < writeTicket, n >= SIZE
  PROVE  n - SIZE < readTicket
<1> DEFINE m == n - SIZE
           f == [k \in m .. n |-> put[k]]
<1>0. /\ n \in Nat /\ writeTicket \in Nat /\ readTicket \in Nat /\ SIZE \in Nat /\ SIZE > 0
  <2>1. n \in Nat /\ writeTicket \in Nat /\ readTicket \in Nat
    BY Zenon, IndexTypes
  <2> QED BY <2>1, SizeAssumption
<1> SUFFICES ASSUME m >= readTicket PROVE FALSE
  BY <1>0
<1>1. m \in Nat /\ m + SIZE = n
  BY <1>0
<1>2. ASSUME NEW k \in m .. n PROVE put[k] \in Indexes /\ k \in Inside(put[k])
  <2>1. k \in Tickets /\ k < writeTicket /\ k >= readTicket
    BY <1>0, <1>1, ParameterAssumption DEF Tickets
  <2> QED BY Zenon, <2>1 DEF IndexInv, Filled, Inside
<1>3. f \in [m .. n -> Indexes]
  BY Zenon, <1>2
<1>4. /\ IsFiniteSet(m .. n) /\ IsFiniteSet(Indexes)
      /\ Cardinality(Indexes) < Cardinality(m .. n)
  <2>1. IsFiniteSet(m .. n) /\ Cardinality(m .. n) = SIZE + 1
    BY <1>0, <1>1, FS_Interval
  <2>2. IsFiniteSet(Indexes) /\ Cardinality(Indexes) = SIZE
    BY <1>0, FS_Interval DEF Indexes
  <2> QED BY <1>0, <2>1, <2>2
<1>5. PICK x, y \in m .. n : x # y /\ f[x] = f[y]
  <2> HIDE DEF f
  <2>1. \A S, T : /\ IsFiniteSet(S) /\ IsFiniteSet(T) /\ Cardinality(T) < Cardinality(S)
                  => \A g \in [S -> T] : \E x, y \in S : x # y /\ g[x] = g[y]
    BY Zenon, FS_PigeonHole
  <2> QED BY Zenon, <1>3, <1>4, <2>1
<1>6. put[x] \in Indexes /\ x \in Inside(put[x]) /\ y \in Inside(put[x])
  BY Zenon, <1>2, <1>5
<1>7. OnePlace(put[x])
  BY Zenon, <1>6 DEF IndexInv
<1>8. PICK k \in Tickets : Inside(put[x]) = {k}
  BY Zenon, <1>6, <1>7 DEF OnePlace
<1> QED BY Zenon, <1>5, <1>6, <1>8

\* returnIndex() never finds the ring full of indexes that nobody is taking out,
\* however many threads and indexes there are: SIZE indexes fit in SIZE slots.
THEOREM ReturnsFindRoom == PoolSpec => []ReturnNeverWaitsForRoom
<1>1. IndexInv => ReturnNeverWaitsForRoom
  <2> SUFFICES ASSUME IndexInv, ~stale, NEW t \in Threads, pc[t] = "enqSpin", ~AdmitsWriter(ticket[t])
               PROVE  \E u \in Threads : Dequeuing(u) /\ ticket[u] + SIZE = ticket[t]
    BY Zenon DEF ReturnNeverWaitsForRoom
  <2> DEFINE n == ticket[t]
             m == n - SIZE
  <2>1. Enqueuing(t) /\ n \in Tickets /\ n < writeTicket /\ n \notin pub
    BY Zenon, IndexTypes DEF Enqueuing, TicketsClaimed, Contents, HistoryFollowsCalls, CallFollows
  <2>2. n \in Nat /\ SIZE \in Nat /\ ~(n < SIZE)
    BY Zenon, <2>1, SizeAssumption, LoadedNumbers DEF IndexInv, Filled
  <2>3. m \in Nat /\ m + SIZE = n /\ n >= SIZE
    BY <2>2
  <2>4. m \in Tickets
    BY <2>1, <2>2, <2>3, ParameterAssumption DEF Tickets
  <2>5. m < readTicket
    BY Zenon, <2>1, <2>3, RoomForAll
  <2>6. CASE Pulled(m)
    BY Zenon, <2>3, <2>6 DEF Pulled
  <2>7. CASE ~Pulled(m)
    <3>1. Released(m)
      BY Zenon, <2>4, <2>5, <2>7 DEF IndexInv, Taken, Released
    <3>2. Index(m) = Index(n)
      BY Zenon, <2>3, IndexNextLap
    <3>3. seq[Index(n)] >= n /\ ~(seq[Index(n)] > n)
      BY Zenon, <2>1, <2>3, <2>4, <3>1, <3>2 DEF IndexInv, Laps
    <3>4. seq[Index(n)] \in Nat
      BY Zenon, <2>1, IndexTypes
    <3>5. seq[Index(n)] = n
      BY <2>2, <3>3, <3>4
    <3> QED BY Zenon, <3>5 DEF AdmitsWriter
  <2> QED BY Zenon, <2>6, <2>7
<1> QED BY <1>1, IndexInvariant, PTL

=============================================================================
