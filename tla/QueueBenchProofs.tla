------------------------------ MODULE QueueBenchProofs ----------------------
(***************************************************************************)
(* The benchmarks over single-producer rings, for any number of rings,     *)
(* threads and slots.  First one ring: what a step of a thread does to the *)
(* ring it works on and to the others, and that the step keeps the slots   *)
(* exclusive, the pending payloads intact and the order of payloads.  Then *)
(* the inductive invariant of the whole, what follows from it, and that a  *)
(* ring implements the hand-off queue.                                     *)
(***************************************************************************)
EXTENDS QueueBench, TLAPS

(* The two ends of a ring.                                                 *)

\* Where the enqueue and the dequeue under way at ring r are; "out": there is none.
Putting(r) == IF Enqueuing(Producer[r], r) THEN pc[Producer[r]] ELSE "out"
Getting(r) == IF Dequeuing(Consumer[r], r) THEN pc[Consumer[r]] ELSE "out"
Carried(r) == call[Producer[r]].val

Payloads == Nat \cup {Junk, Dead}
Inside == {"enqWrite", "emplace", "enqPublish"}

Types ==
  /\ pc \in [Threads -> {"idle", "enqSpin", "enqWrite", "emplace", "enqPublish",
                         "deqSpin", "deqMove", "deqRelease"}]
  /\ call \in [Threads -> [ring : Rings, form : {"none", "enqueue", "emplace", "dequeue"},
                           val : Payloads]]
  /\ DOMAIN ticket = Rings /\ \A r \in Rings : ticket[r] \in [Slots(r) -> {0, 1}]
  /\ DOMAIN data = Rings /\ \A r \in Rings : data[r] \in [Slots(r) -> Payloads]
  /\ DOMAIN lastWritten = Rings /\ \A r \in Rings : lastWritten[r] \in Slots(r)
  /\ DOMAIN lastRead = Rings /\ \A r \in Rings : lastRead[r] \in Slots(r)
  /\ given \in [Rings -> Seq(Nat)] /\ sent \in [Rings -> Seq(Payloads)]
  /\ got \in [Rings -> Seq(Payloads)] /\ begun \in [Rings -> Nat]
  /\ thrown \in [Rings -> SUBSET {"enqueue", "dequeue"}]
  /\ target \in Rings

\* A thread is in a call of the end that is its own.
Roles ==
  \A t \in Threads :
    /\ pc[t] \in {"enqSpin", "enqWrite", "emplace", "enqPublish"} => t = Producer[call[t].ring]
    /\ pc[t] \in {"deqSpin", "deqMove", "deqRelease"} => t = Consumer[call[t].ring]

-----------------------------------------------------------------------------
(* What stays true of a ring.                                              *)

\* What a call saw when it left its spin loop stays true while it is in the slot.
Held(r) ==
  /\ Putting(r) \in Inside => ticket[r][lastWritten[r]] = 0
  /\ Getting(r) \in {"deqMove", "deqRelease"} => ticket[r][lastRead[r]] = 1

\* The enqueues of a ring are numbered, and carry their number up to the slot.
Numbered(r) ==
  /\ \A j \in 1 .. Len(given[r]) : given[r][j] = j
  /\ Putting(r) # "out" => given[r] # <<>> /\ Carried(r) = Len(given[r])
  /\ Putting(r) = "enqPublish" => data[r][lastWritten[r]] = Carried(r)
  /\ \A v \in Elements(sent[r]) :
       v \in 1 .. Len(given[r]) /\ (Putting(r) # "out" => v # Len(given[r]))

\* PendingIntact, and that no payload is there twice.
Intact(r) ==
  "dequeue" \notin thrown[r] =>
    /\ Elements(got[r]) \subseteq Elements(sent[r])
    /\ {data[r][i] : i \in Pending(r)} = Elements(sent[r]) \ Elements(got[r])
    /\ \A i, j \in Pending(r) : data[r][i] = data[r][j] => i = j

\* Dequeues that have handed their slot back.
Released(r) == IF Getting(r) = "out" THEN begun[r] ELSE begun[r] - 1

\* Until a call throws, the k-th payload is in slot k % BUFFER_SIZE from its
\* publication until it is moved out, and flags are set for just these slots.
Counted(r) ==
  /\ Len(sent[r]) = Len(given[r]) - (IF Putting(r) = "out" THEN 0 ELSE 1)
  /\ Len(got[r]) = begun[r] - (IF Getting(r) \in {"deqSpin", "deqMove"} THEN 1 ELSE 0)
  /\ Len(got[r]) <= Len(sent[r]) /\ Len(sent[r]) <= Released(r) + BUFFER_SIZE[r]
  /\ Getting(r) # "out" => begun[r] >= 1
  /\ Getting(r) \in {"deqMove", "deqRelease"} => begun[r] <= Len(sent[r])
  /\ lastWritten[r] = Len(given[r]) % BUFFER_SIZE[r] /\ lastRead[r] = begun[r] % BUFFER_SIZE[r]

Sequenced(r) ==
  (\A j \in 1 .. Len(sent[r]) : sent[r][j] = j) /\ (\A j \in 1 .. Len(got[r]) : got[r][j] = j)

Fits(N, done, u, o, tickets, slots) ==
  /\ \A k \in done + 1 .. u : tickets[k % N] = 1
  /\ \A i \in 0 .. N - 1 : tickets[i] = 1 => \E k \in done + 1 .. u : k % N = i
  /\ \A k \in o + 1 .. u : slots[k % N] = k

Placed(r) ==
  Fits(BUFFER_SIZE[r], Released(r), Len(sent[r]), Len(got[r]), ticket[r], data[r])

Ordered(r) == thrown[r] = {} => Counted(r) /\ Sequenced(r) /\ Placed(r)

\* Each thread of pingPong alternates between its two queues.
RoundTrip ==
  /\ \A r \in Rings : thrown[r] = {}
  /\ \A r \in Rings \ {Req, Rep} : Putting(r) = "out" /\ Getting(r) = "out"
  /\ Len(given[Req]) \in {begun[Rep], begun[Rep] + 1}
  /\ Putting(Req) # "out" => Len(given[Req]) = begun[Rep] + 1
  /\ Getting(Rep) # "out" => Len(given[Req]) = begun[Rep]
  /\ begun[Req] \in {Len(given[Rep]), Len(given[Rep]) + 1}
  /\ Getting(Req) # "out" => begun[Req] = Len(given[Rep]) + 1
  /\ Putting(Rep) # "out" => begun[Req] = Len(given[Rep])
  /\ begun[Req] = Len(given[Rep]) + 1 /\ Getting(Req) \in {"out", "deqRelease"} =>
       Carried(Rep) = begun[Req]

Alternates == program = "pingPong" => RoundTrip

QueueInv ==
  /\ Types /\ Roles /\ Alternates
  /\ \A r \in Rings : Held(r) /\ Numbered(r) /\ Intact(r) /\ Ordered(r)

-----------------------------------------------------------------------------
(* A step, seen from the rings.                                            *)

Same(f, r) == f'[r] = f[r]

\* What a step may do to the ring it works on, end by end.
PutStays(r) == Putting(r)' = Putting(r) /\ Carried(r)' = Carried(r)
               /\ Same(lastWritten, r) /\ Same(given, r) /\ Same(sent, r)
GetStays(r) == Getting(r)' = Getting(r)
               /\ Same(lastRead, r) /\ Same(begun, r) /\ Same(got, r)

PutBegins(r) ==
  /\ Putting(r) = "out" /\ Putting(r)' = "enqSpin"
  /\ lastWritten'[r] = Advance(r, lastWritten[r])
  /\ given'[r] = Append(given[r], Carried(r)')
  /\ GetStays(r) /\ Same(sent, r) /\ Same(ticket, r) /\ Same(data, r) /\ Same(thrown, r)

PutEnters(r) ==
  /\ Putting(r) = "enqSpin" /\ Putting(r)' = "enqWrite" /\ ticket[r][lastWritten[r]] = 0
  /\ Carried(r)' = Carried(r) /\ Same(lastWritten, r) /\ Same(given, r)
  /\ GetStays(r) /\ Same(sent, r) /\ Same(ticket, r) /\ Same(data, r) /\ Same(thrown, r)

PutWrites(r, v) ==
  /\ Putting(r) \in Inside /\ Putting(r)' \in Inside
  /\ Putting(r)' = "enqPublish" => v = Carried(r)
  /\ data'[r] = [data[r] EXCEPT ![lastWritten[r]] = v]
  /\ Carried(r)' = Carried(r) /\ Same(lastWritten, r) /\ Same(given, r)
  /\ GetStays(r) /\ Same(sent, r) /\ Same(ticket, r) /\ Same(thrown, r)

PutPublishes(r) ==
  /\ Putting(r) = "enqPublish" /\ Putting(r)' = "out"
  /\ ticket'[r] = [ticket[r] EXCEPT ![lastWritten[r]] = 1]
  /\ sent'[r] = Append(sent[r], Carried(r))
  /\ Same(lastWritten, r) /\ Same(given, r)
  /\ GetStays(r) /\ Same(data, r) /\ Same(thrown, r)

PutThrows(r, v) ==
  /\ Putting(r) \in Inside /\ Putting(r)' = "out"
  /\ data'[r] = [data[r] EXCEPT ![lastWritten[r]] = v]
  /\ thrown'[r] = thrown[r] \cup {"enqueue"}
  /\ Same(lastWritten, r) /\ Same(given, r)
  /\ GetStays(r) /\ Same(sent, r) /\ Same(ticket, r)

GetBegins(r) ==
  /\ Getting(r) = "out" /\ Getting(r)' = "deqSpin"
  /\ lastRead'[r] = Advance(r, lastRead[r]) /\ begun'[r] = begun[r] + 1
  /\ PutStays(r) /\ Same(got, r) /\ Same(ticket, r) /\ Same(data, r) /\ Same(thrown, r)

GetEnters(r) ==
  /\ Getting(r) = "deqSpin" /\ Getting(r)' = "deqMove" /\ ticket[r][lastRead[r]] # 0
  /\ Same(lastRead, r) /\ Same(begun, r)
  /\ PutStays(r) /\ Same(got, r) /\ Same(ticket, r) /\ Same(data, r) /\ Same(thrown, r)

GetMoves(r, v) ==
  /\ Getting(r) = "deqMove" /\ Getting(r)' = "deqRelease"
  /\ data'[r] = [data[r] EXCEPT ![lastRead[r]] = v]
  /\ got'[r] = Append(got[r], data[r][lastRead[r]])
  /\ call'[Consumer[r]].val = data[r][lastRead[r]]
  /\ Same(lastRead, r) /\ Same(begun, r)
  /\ PutStays(r) /\ Same(ticket, r) /\ Same(thrown, r)

GetReleases(r) ==
  /\ Getting(r) = "deqRelease" /\ Getting(r)' = "out"
  /\ ticket'[r] = [ticket[r] EXCEPT ![lastRead[r]] = 0]
  /\ Same(lastRead, r) /\ Same(begun, r)
  /\ PutStays(r) /\ Same(got, r) /\ Same(data, r) /\ Same(thrown, r)

GetThrows(r, v) ==
  /\ Getting(r) = "deqMove" /\ Getting(r)' = "out"
  /\ data'[r] = [data[r] EXCEPT ![lastRead[r]] = v]
  /\ thrown'[r] = thrown[r] \cup {"dequeue"}
  /\ Same(lastRead, r) /\ Same(begun, r)
  /\ PutStays(r) /\ Same(got, r) /\ Same(ticket, r)

RingStep(r) ==
  \/ PutBegins(r) /\ Carried(r)' = Len(given[r]) + 1
  \/ PutEnters(r) \/ PutPublishes(r)
  \/ \E v \in Payloads : PutWrites(r, v) \/ PutThrows(r, v) \/ GetMoves(r, v) \/ GetThrows(r, v)
  \/ GetBegins(r) \/ GetEnters(r) \/ GetReleases(r)

\* What a step leaves alone of the other rings.
Untouched(x) ==
  /\ Putting(x)' = Putting(x) /\ (Putting(x) # "out" => Carried(x)' = Carried(x))
  /\ Getting(x)' = Getting(x)
  /\ Same(lastWritten, x) /\ Same(given, x) /\ Same(sent, x)
  /\ Same(lastRead, x) /\ Same(begun, x) /\ Same(got, x)
  /\ Same(ticket, x) /\ Same(data, x) /\ Same(thrown, x)

Elsewhere(r) == \A x \in Rings \ {r} : Untouched(x)

\* What the type invariant says of the four counts of one queue.
LEMMA Lengths ==
  ASSUME Types, NEW r \in Rings
  PROVE  Len(given[r]) \in Nat /\ Len(sent[r]) \in Nat /\ Len(got[r]) \in Nat /\ begun[r] \in Nat
<1>1. /\ given[r] \in Seq(Nat) /\ sent[r] \in Seq(Payloads) /\ got[r] \in Seq(Payloads)
      /\ begun[r] \in Nat
  BY Zenon DEF Types
<1> QED BY <1>1

\* A thread is at one end of a ring at a time, so its step leaves the ends of
\* all other rings, and the other end of this one, as they are.
LEMMA Ends ==
  ASSUME Types, Roles, NEW t \in Threads, NEW r \in Rings, t \in {Producer[r], Consumer[r]},
         pc[t] = "idle" \/ call[t].ring = r, call'[t].ring = r,
         \A u \in Threads \ {t} : pc'[u] = pc[u] /\ call'[u] = call[u]
  PROVE  /\ \A x \in Rings \ {r} :
              /\ Putting(x)' = Putting(x) /\ Getting(x)' = Getting(x)
              /\ Putting(x) # "out" => Carried(x)' = Carried(x)
         /\ t = Producer[r] => Getting(r)' = Getting(r)
         /\ t = Consumer[r] => Putting(r)' = Putting(r) /\ Carried(r)' = Carried(r)
<1>1. \A x \in Rings : Producer[x] \in Threads /\ Consumer[x] \in Threads /\ Producer[x] # Consumer[x]
  BY Zenon, SpscAssumption
<1>2. ASSUME NEW x \in Rings \ {r}
      PROVE  /\ Putting(x)' = Putting(x) /\ Getting(x)' = Getting(x)
             /\ Putting(x) # "out" => Carried(x)' = Carried(x)
  <2>1. /\ Producer[x] = t => Putting(x) = "out" /\ Putting(x)' = "out"
        /\ Consumer[x] = t => Getting(x) = "out" /\ Getting(x)' = "out"
    BY Zenon, <1>1 DEF Putting, Getting, Enqueuing, Dequeuing
  <2>2. /\ Producer[x] # t => Putting(x)' = Putting(x) /\ Carried(x)' = Carried(x)
        /\ Consumer[x] # t => Getting(x)' = Getting(x)
    BY Zenon, <1>1 DEF Putting, Getting, Enqueuing, Dequeuing, Carried
  <2> QED BY Zenon, <2>1, <2>2
<1>3. /\ t = Producer[r] => Getting(r)' = Getting(r)
      /\ t = Consumer[r] => Putting(r)' = Putting(r) /\ Carried(r)' = Carried(r)
  BY Zenon, <1>1 DEF Putting, Getting, Enqueuing, Dequeuing, Carried
<1> QED BY Zenon, <1>2, <1>3

\* The kinds of step of a thread that is in a call.
LEMMA ContinueEffect ==
  ASSUME Types, Roles, NEW t \in Threads, NEW r \in Rings, r = call[t].ring, Continue(t) \/ Throw(t)
  PROVE  RingStep(r) /\ Elsewhere(r)
         /\ UNCHANGED <<lastWritten, lastRead, given, begun>>
<1> DEFINE i == lastWritten[r]
           j == lastRead[r]
<1>1. /\ i \in Slots(r) /\ j \in Slots(r) /\ data[r] \in [Slots(r) -> Payloads]
      /\ call[t].val \in Payloads /\ Junk \in Payloads /\ Dead \in Payloads
      /\ data[r][i] \in Payloads /\ data[r][j] \in Payloads
  BY DEF Types, Payloads
<1>2. Producer[r] \in Threads /\ Consumer[r] \in Threads /\ Producer[r] # Consumer[r]
  BY Zenon, <1>1, SpscAssumption
<1>3. PICK at \in {"enqSpin", "enqWrite", "emplace", "enqPublish", "deqSpin", "deqMove", "deqRelease"},
           to \in {"idle", "enqWrite", "emplace", "enqPublish", "deqMove", "deqRelease"} :
        pc[t] = at /\ pc' = [pc EXCEPT ![t] = to]
  BY Zenon DEF Continue, Throw, Step, EnqueueEnterSlot, EnqueueWrite, EmplaceDestroy, EmplaceConstruct,
         EnqueuePublish, DequeueEnterSlot, DequeueMove, DequeueRelease
<1>4. /\ \A u \in Threads \ {t} : pc'[u] = pc[u] /\ call'[u] = call[u]
      /\ pc'[t] = to /\ call'[t].ring = r /\ (at # "deqMove" => call'[t] = call[t])
  <2>1. pc'[t] = to /\ \A u \in Threads \ {t} : pc'[u] = pc[u]
    BY Zenon, <1>3 DEF Types
  <2>2. UNCHANGED call \/ \E v : call' = [call EXCEPT ![t].val = v] /\ pc[t] = "deqMove"
    BY Zenon DEF Continue, Throw, Step, EnqueueEnterSlot, EnqueueWrite, EmplaceDestroy, EmplaceConstruct,
           EnqueuePublish, DequeueEnterSlot, DequeueMove, DequeueRelease
  <2>3. CASE UNCHANGED call
    BY Zenon, <2>1, <2>3
  <2>4. CASE \E v : call' = [call EXCEPT ![t].val = v] /\ pc[t] = "deqMove"
    BY <1>3, <2>1, <2>4 DEF Types
  <2> QED BY Zenon, <2>2, <2>3, <2>4
<1>5. /\ at \in {"enqSpin", "enqWrite", "emplace", "enqPublish"} =>
           t = Producer[r] /\ Putting(r) = at
      /\ at \in {"deqSpin", "deqMove", "deqRelease"} => t = Consumer[r] /\ Getting(r) = at
  BY Zenon, <1>3 DEF Roles, Putting, Getting, Enqueuing, Dequeuing
<1>6. /\ \A x \in Rings \ {r} :
           /\ Putting(x)' = Putting(x) /\ Getting(x)' = Getting(x)
           /\ Putting(x) # "out" => Carried(x)' = Carried(x)
      /\ t = Producer[r] => Getting(r)' = Getting(r)
      /\ t = Consumer[r] => Putting(r)' = Putting(r) /\ Carried(r)' = Carried(r)
  BY Zenon, <1>1, <1>3, <1>4, <1>5, Ends
<1>7. /\ t = Producer[r] => Putting(r)' = (IF to \in {"enqWrite", "emplace", "enqPublish"} THEN to ELSE "out")
      /\ t = Consumer[r] => Getting(r)' = (IF to \in {"deqMove", "deqRelease"} THEN to ELSE "out")
  BY Zenon, <1>4 DEF Putting, Getting, Enqueuing, Dequeuing
<1>8. UNCHANGED <<lastWritten, lastRead, given, begun>>
  BY Zenon DEF Continue, Throw, EnqueueEnterSlot, EnqueueWrite, EmplaceDestroy, EmplaceConstruct,
         EnqueuePublish, DequeueEnterSlot, DequeueMove, DequeueRelease, ring, hist
<1>9. t = Producer[r] /\ at # "deqMove" => Carried(r)' = Carried(r) /\ Carried(r) = call[t].val
  BY Zenon, <1>4 DEF Carried
<1>0. ASSUME NEW from, NEW dest, Step(t, from, dest) PROVE at = from /\ to = dest
  BY Zenon, <1>0, <1>3, <1>4 DEF Step, Types
<1> HIDE DEF i, j
<1>10. ASSUME UNCHANGED <<ticket, data, sent, got, thrown>>
       PROVE  /\ Elsewhere(r)
              /\ Same(ticket, r) /\ Same(data, r) /\ Same(sent, r) /\ Same(got, r) /\ Same(thrown, r)
  BY Zenon, <1>6, <1>8, <1>10 DEF Elsewhere, Untouched, Same
<1>11. /\ Same(lastWritten, r) /\ Same(lastRead, r) /\ Same(given, r) /\ Same(begun, r)
  BY Zenon, <1>8 DEF Same
<1>12. CASE EnqueueEnterSlot(t)
  <2>1. /\ UNCHANGED <<ticket, data, sent, got, thrown>>
        /\ at = "enqSpin" /\ to = "enqWrite" /\ ticket[r][i] = 0
    BY Zenon, <1>0, <1>12 DEF EnqueueEnterSlot, ring, hist, W, i
  <2>2. PutEnters(r)
    BY Zenon, <1>5, <1>6, <1>7, <1>9, <1>10, <1>11, <2>1 DEF PutEnters, GetStays, i
  <2> QED BY Zenon, <1>8, <1>10, <2>1, <2>2 DEF RingStep
<1>13. ASSUME NEW k, NEW v, SetData(r, k, v), UNCHANGED <<ticket, sent>>,
              \A x \in Rings \ {r} : Same(got, x) /\ Same(thrown, x)
       PROVE  data'[r] = [data[r] EXCEPT ![k] = v] /\ Same(ticket, r) /\ Same(sent, r) /\ Elsewhere(r)
  <2>1. data'[r] = [data[r] EXCEPT ![k] = v] /\ \A x \in Rings \ {r} : data'[x] = data[x]
    BY Zenon, <1>1, <1>13 DEF SetData, Types
  <2> QED BY Zenon, <1>6, <1>8, <1>13, <2>1 DEF Elsewhere, Untouched, Same
<1>14. CASE EnqueueWrite(t) \/ EmplaceDestroy(t) \/ EmplaceConstruct(t)
  <2>1. PICK v \in {call[t].val, Dead} :
          /\ SetData(r, i, v) /\ UNCHANGED <<ticket, sent, got, thrown>>
          /\ at \in {"enqWrite", "emplace"} /\ to \in {"emplace", "enqPublish"}
          /\ to = "enqPublish" => v = call[t].val
    BY Zenon, <1>0, <1>14 DEF EnqueueWrite, EmplaceDestroy, EmplaceConstruct, ring, hist, W, i
  <2>2. Same(got, r) /\ Same(thrown, r) /\ \A x \in Rings \ {r} : Same(got, x) /\ Same(thrown, x)
    BY Zenon, <2>1 DEF Same
  <2>3. data'[r] = [data[r] EXCEPT ![i] = v] /\ Same(ticket, r) /\ Same(sent, r) /\ Elsewhere(r)
    BY Zenon, <1>13, <2>1, <2>2
  <2>4. PutWrites(r, v)
    BY Zenon, <1>5, <1>6, <1>7, <1>9, <1>11, <2>1, <2>2, <2>3 DEF PutWrites, GetStays, Inside, i
  <2>5. v \in Payloads
    BY Zenon, <1>1, <2>1
  <2> QED BY Zenon, <1>8, <2>3, <2>4, <2>5 DEF RingStep
<1>15. CASE EnqueuePublish(t)
  <2>1. /\ ticket' = [ticket EXCEPT ![r][i] = 1] /\ sent' = [sent EXCEPT ![r] = Append(@, call[t].val)]
        /\ UNCHANGED <<data, got, thrown>> /\ at = "enqPublish" /\ to = "idle"
    BY Zenon, <1>0, <1>15 DEF EnqueuePublish, ring, hist, W, i
  <2>2. /\ ticket'[r] = [ticket[r] EXCEPT ![i] = 1] /\ sent'[r] = Append(sent[r], call[t].val)
        /\ \A x \in Rings \ {r} : ticket'[x] = ticket[x] /\ sent'[x] = sent[x]
    BY Zenon, <1>1, <2>1 DEF Types
  <2>3. Elsewhere(r) /\ Same(data, r) /\ Same(got, r) /\ Same(thrown, r)
    BY Zenon, <1>6, <1>8, <2>1, <2>2 DEF Elsewhere, Untouched, Same
  <2>4. PutPublishes(r)
    BY Zenon, <1>5, <1>6, <1>7, <1>9, <1>11, <2>1, <2>2, <2>3 DEF PutPublishes, GetStays, i
  <2> QED BY Zenon, <1>8, <2>3, <2>4 DEF RingStep
<1>16. CASE DequeueEnterSlot(t)
  <2>1. /\ UNCHANGED <<ticket, data, sent, got, thrown>>
        /\ at = "deqSpin" /\ to = "deqMove" /\ ticket[r][j] # 0
    BY Zenon, <1>0, <1>16 DEF DequeueEnterSlot, ring, hist, R, j
  <2>2. GetEnters(r)
    BY Zenon, <1>5, <1>6, <1>7, <1>10, <1>11, <2>1 DEF GetEnters, PutStays, j
  <2> QED BY Zenon, <1>8, <1>10, <2>1, <2>2 DEF RingStep
<1>17. CASE DequeueMove(t)
  <2>1. PICK v \in {data[r][j], Junk} :
          /\ SetData(r, j, v) /\ UNCHANGED <<ticket, sent, thrown>>
          /\ got' = [got EXCEPT ![r] = Append(@, data[r][j])]
          /\ call' = [call EXCEPT ![t].val = data[r][j]]
          /\ at = "deqMove" /\ to = "deqRelease"
    BY Zenon, <1>0, <1>17 DEF DequeueMove, ring, hist, R, j
  <2>2. /\ got'[r] = Append(got[r], data[r][j]) /\ call'[t].val = data[r][j]
        /\ Same(thrown, r) /\ \A x \in Rings \ {r} : Same(got, x) /\ Same(thrown, x)
    BY <1>1, <2>1 DEF Same, Types
  <2>3. data'[r] = [data[r] EXCEPT ![j] = v] /\ Same(ticket, r) /\ Same(sent, r) /\ Elsewhere(r)
    BY Zenon, <1>13, <2>1, <2>2
  <2>4. GetMoves(r, v)
    BY Zenon, <1>5, <1>6, <1>7, <1>11, <2>1, <2>2, <2>3 DEF GetMoves, PutStays, j
  <2>5. v \in Payloads
    BY Zenon, <1>1, <2>1
  <2> QED BY Zenon, <1>8, <2>3, <2>4, <2>5 DEF RingStep
<1>18. CASE DequeueRelease(t)
  <2>1. /\ ticket' = [ticket EXCEPT ![r][j] = 0]
        /\ UNCHANGED <<data, sent, got, thrown>> /\ at = "deqRelease" /\ to = "idle"
    BY Zenon, <1>0, <1>18 DEF DequeueRelease, ring, hist, R, j
  <2>2. ticket'[r] = [ticket[r] EXCEPT ![j] = 0] /\ \A x \in Rings \ {r} : ticket'[x] = ticket[x]
    BY Zenon, <1>1, <2>1 DEF Types
  <2>3. Elsewhere(r) /\ Same(data, r) /\ Same(sent, r) /\ Same(got, r) /\ Same(thrown, r)
    BY Zenon, <1>6, <1>8, <2>1, <2>2 DEF Elsewhere, Untouched, Same
  <2>4. GetReleases(r)
    BY Zenon, <1>5, <1>6, <1>7, <1>11, <2>1, <2>2, <2>3 DEF GetReleases, PutStays, j
  <2> QED BY Zenon, <1>8, <2>3, <2>4 DEF RingStep
<1>19. CASE Throw(t)
  <2>1. /\ UNCHANGED <<ticket, sent, got>> /\ to = "idle"
        /\ at \in {"enqWrite", "emplace", "deqMove"}
        /\ thrown' = [thrown EXCEPT ![r] = @ \cup {IF at = "deqMove" THEN "dequeue" ELSE "enqueue"}]
    BY Zenon, <1>3, <1>4, <1>19 DEF Throw, Types
  <2>2. PICK v \in Payloads : data'[r] = [data[r] EXCEPT ![IF at = "deqMove" THEN j ELSE i] = v]
                              /\ \A x \in Rings \ {r} : data'[x] = data[x]
    <3>1. CASE at = "emplace"
      <4>1. data' = data /\ data[r] = [data[r] EXCEPT ![i] = data[r][i]]
        BY Zenon, <1>1, <1>3, <1>19, <3>1 DEF Throw
      <4> QED BY Zenon, <1>1, <3>1, <4>1
    <3>2. CASE at # "emplace"
      <4>1. PICK v \in {Junk, data[r][j]} : SetData(r, IF at = "deqMove" THEN j ELSE i, v)
        BY Zenon, <1>3, <1>19, <2>1, <3>2 DEF Throw, W, R, i, j
      <4> QED BY Zenon, <1>1, <4>1 DEF SetData, Types
    <3> QED BY Zenon, <3>1, <3>2
  <2>3. /\ thrown'[r] = thrown[r] \cup {IF at = "deqMove" THEN "dequeue" ELSE "enqueue"}
        /\ \A x \in Rings \ {r} : thrown'[x] = thrown[x]
    BY Zenon, <1>1, <2>1 DEF Types
  <2>4. Elsewhere(r) /\ Same(ticket, r) /\ Same(sent, r) /\ Same(got, r)
    BY Zenon, <1>6, <1>8, <2>1, <2>2, <2>3 DEF Elsewhere, Untouched, Same
  <2>5. CASE at = "deqMove"
    <3>1. GetThrows(r, v)
      BY Zenon, <1>5, <1>6, <1>7, <1>11, <2>1, <2>2, <2>3, <2>4, <2>5 DEF GetThrows, PutStays, j
    <3> QED BY Zenon, <1>8, <2>2, <2>4, <3>1 DEF RingStep
  <2>6. CASE at # "deqMove"
    <3>1. PutThrows(r, v)
      BY Zenon, <1>5, <1>6, <1>7, <1>11, <2>1, <2>2, <2>3, <2>4, <2>6 DEF PutThrows, GetStays, Inside, i
    <3> QED BY Zenon, <1>8, <2>2, <2>4, <3>1 DEF RingStep
  <2> QED BY Zenon, <2>5, <2>6
<1> QED BY Zenon, <1>12, <1>14, <1>15, <1>16, <1>17, <1>18, <1>19 DEF Continue

\* The two calls of a ring.
LEMMA EnqueueEffect ==
  ASSUME Types, Roles, NEW t \in Threads, NEW r \in Rings, NEW form, NEW v, EnqueueBegin(t, r, form, v)
  PROVE  /\ PutBegins(r) /\ Carried(r)' = v /\ Elsewhere(r) /\ t = Producer[r]
         /\ \A x \in Rings \ {r} : given'[x] = given[x]
<1>1. /\ t = Producer[r] /\ pc[t] = "idle" /\ pc' = [pc EXCEPT ![t] = "enqSpin"]
      /\ lastWritten' = [lastWritten EXCEPT ![r] = Advance(r, @)]
      /\ call' = [call EXCEPT ![t] = [ring |-> r, form |-> form, val |-> v]]
      /\ given' = [given EXCEPT ![r] = Append(@, v)]
      /\ UNCHANGED <<ticket, data, lastRead, sent, got, begun, thrown>>
  BY Zenon DEF EnqueueBegin, Step
<1>2. /\ pc'[t] = "enqSpin" /\ call'[t].ring = r /\ call'[t].val = v
      /\ \A u \in Threads \ {t} : pc'[u] = pc[u] /\ call'[u] = call[u]
  BY Zenon, <1>1 DEF Types
<1>3. /\ lastWritten'[r] = Advance(r, lastWritten[r]) /\ given'[r] = Append(given[r], v)
      /\ \A x \in Rings \ {r} : lastWritten'[x] = lastWritten[x] /\ given'[x] = given[x]
  BY Zenon, <1>1 DEF Types
<1>4. /\ \A x \in Rings \ {r} :
           /\ Putting(x)' = Putting(x) /\ Getting(x)' = Getting(x)
           /\ Putting(x) # "out" => Carried(x)' = Carried(x)
      /\ Getting(r)' = Getting(r)
  BY <1>1, <1>2, Ends
<1>5. Elsewhere(r)
  BY Zenon, <1>1, <1>3, <1>4 DEF Elsewhere, Untouched, Same
<1>6. Putting(r) = "out" /\ Putting(r)' = "enqSpin" /\ Carried(r)' = v
  BY Zenon, <1>1, <1>2 DEF Putting, Enqueuing, Carried
<1>7. PutBegins(r)
  BY Zenon, <1>1, <1>3, <1>4, <1>6 DEF PutBegins, GetStays, Same
<1> QED BY Zenon, <1>1, <1>3, <1>5, <1>6, <1>7

LEMMA DequeueEffect ==
  ASSUME Types, Roles, NEW t \in Threads, NEW r \in Rings, DequeueBegin(t, r)
  PROVE  /\ GetBegins(r) /\ Elsewhere(r) /\ t = Consumer[r]
         /\ \A x \in Rings \ {r} : begun'[x] = begun[x]
<1>1. /\ t = Consumer[r] /\ pc[t] = "idle" /\ pc' = [pc EXCEPT ![t] = "deqSpin"]
      /\ lastRead' = [lastRead EXCEPT ![r] = Advance(r, @)]
      /\ call' = [call EXCEPT ![t] = [ring |-> r, form |-> "dequeue", val |-> Junk]]
      /\ begun' = [begun EXCEPT ![r] = @ + 1]
      /\ UNCHANGED <<ticket, data, lastWritten, given, sent, got, thrown>>
  BY Zenon DEF DequeueBegin, Step
<1>2. /\ pc'[t] = "deqSpin" /\ call'[t].ring = r
      /\ \A u \in Threads \ {t} : pc'[u] = pc[u] /\ call'[u] = call[u]
  BY Zenon, <1>1 DEF Types
<1>3. /\ lastRead'[r] = Advance(r, lastRead[r]) /\ begun'[r] = begun[r] + 1
      /\ \A x \in Rings \ {r} : lastRead'[x] = lastRead[x] /\ begun'[x] = begun[x]
  BY Zenon, <1>1 DEF Types
<1>4. /\ \A x \in Rings \ {r} :
           /\ Putting(x)' = Putting(x) /\ Getting(x)' = Getting(x)
           /\ Putting(x) # "out" => Carried(x)' = Carried(x)
      /\ Putting(r)' = Putting(r) /\ Carried(r)' = Carried(r)
  BY <1>1, <1>2, Ends
<1>5. Elsewhere(r)
  BY Zenon, <1>1, <1>3, <1>4 DEF Elsewhere, Untouched, Same
<1>6. Getting(r) = "out" /\ Getting(r)' = "deqSpin"
  BY Zenon, <1>1, <1>2 DEF Getting, Dequeuing
<1>7. GetBegins(r)
  BY Zenon, <1>1, <1>3, <1>4, <1>6 DEF GetBegins, PutStays, Same
<1> QED BY Zenon, <1>1, <1>3, <1>5, <1>7

\* A client calls one end of one ring, and its enqueue has the next number.
Begins(t) ==
  \/ \E r \in Rings, form \in {"enqueue", "emplace"} : EnqueueBegin(t, r, form, Len(given[r]) + 1)
  \/ \E r \in Rings : DequeueBegin(t, r)

LEMMA CallBegins ==
  ASSUME Types, Alternates, NEW t \in Threads, BenchCall(t) \/ (program = "calls" /\ AnyCall(t))
  PROVE  Begins(t)
<1>1. target \in Rings
  BY Zenon DEF Types
<1>2. CASE program = "throughput" /\ Throughput(t)
  BY Zenon, <1>1, <1>2 DEF Throughput, Begins
<1>3. CASE program = "calls" /\ AnyCall(t)
  BY Zenon, <1>1, <1>3 DEF AnyCall, Begins
<1>4. CASE program = "pingPong" /\ PingPong(t)
  <2>1. Req \in Rings /\ Rep \in Rings /\ Producer[Rep] = Consumer[Req]
    BY Zenon, PingPongAssumption
  <2>2. CASE begun[Req] > Len(given[Rep]) /\ EnqueueBegin(t, Rep, "enqueue", call[t].val)
    <3>1. t = Producer[Rep] /\ pc[t] = "idle"
      BY Zenon, <2>2 DEF EnqueueBegin, Step
    <3>2. Getting(Req) = "out"
      BY Zenon, <2>1, <3>1 DEF Getting, Dequeuing
    <3>3. begun[Req] \in {Len(given[Rep]), Len(given[Rep]) + 1} /\ Len(given[Rep]) \in Nat
      BY <1>4, <2>1 DEF Alternates, RoundTrip, Types
    <3>4. call[t].val = Len(given[Rep]) + 1
      BY <1>4, <2>2, <3>1, <3>2, <3>3 DEF Alternates, RoundTrip, Carried
    <3> QED BY Zenon, <2>1, <2>2, <3>4 DEF Begins
  <2> QED BY Zenon, <1>4, <2>1, <2>2 DEF PingPong, Begins
<1> QED BY Zenon, <1>2, <1>3, <1>4 DEF BenchCall

\* Every step is a step of one ring, and leaves the others alone.
LEMMA StepEffect ==
  ASSUME Types, Roles, Alternates, [Next]_vars
  PROVE  \/ \A x \in Rings : Untouched(x)
         \/ \E r \in Rings : RingStep(r) /\ Elsewhere(r)
<1>1. CASE UNCHANGED vars
  BY Zenon, <1>1 DEF vars, rvars, ring, hist, Untouched, Putting, Getting, Carried, Enqueuing, Dequeuing, Same
<1>2. ASSUME NEW t \in Threads, Continue(t) \/ Throw(t)
      PROVE  \E r \in Rings : RingStep(r) /\ Elsewhere(r)
  <2>1. PICK r \in Rings : r = call[t].ring
    BY Zenon DEF Types
  <2> QED BY Zenon, <1>2, <2>1, ContinueEffect
<1>3. ASSUME NEW t \in Threads, Begins(t)
      PROVE  \E r \in Rings : RingStep(r) /\ Elsewhere(r)
  <2>1. ASSUME NEW r \in Rings, NEW form, EnqueueBegin(t, r, form, Len(given[r]) + 1)
        PROVE  RingStep(r) /\ Elsewhere(r)
    BY <2>1, EnqueueEffect DEF RingStep
  <2>2. ASSUME NEW r \in Rings, DequeueBegin(t, r)
        PROVE  RingStep(r) /\ Elsewhere(r)
    BY Zenon, <2>2, DequeueEffect DEF RingStep
  <2>3. CASE \E r \in Rings : DequeueBegin(t, r)
    BY Zenon, <2>2, <2>3
  <2>4. CASE \E r \in Rings, form \in {"enqueue", "emplace"} :
               EnqueueBegin(t, r, form, Len(given[r]) + 1)
    BY Zenon, <2>1, <2>4
  <2> QED BY Zenon, <1>3, <2>3, <2>4 DEF Begins
<1>4. ASSUME Next
      PROVE  \E t \in Threads : Continue(t) \/ Throw(t) \/ Begins(t)
  BY Zenon, <1>4, CallBegins DEF Next
<1> QED BY Zenon, <1>1, <1>2, <1>3, <1>4

LEMMA NextTypes ==
  ASSUME Types, Roles, Alternates, [Next]_vars
  PROVE  Types' /\ Roles'
<1>1. CASE UNCHANGED vars
  <2>1. UNCHANGED <<ticket, data, lastWritten, lastRead, pc, call, given, sent, got, begun, thrown, target>>
    BY Zenon, <1>1 DEF vars, rvars, ring, hist
  <2> QED BY Zenon, <2>1 DEF Types, Roles
<1>2. UNCHANGED target
  BY Zenon, <1>1 DEF vars, Next
<1>3. \A r \in Rings : \A c \in Slots(r) : Advance(r, c) \in Slots(r)
  BY SpscAssumption DEF Advance, Slots
<1>4. ASSUME NEW t \in Threads, NEW r \in Rings, NEW form \in {"enqueue", "emplace"},
             EnqueueBegin(t, r, form, Len(given[r]) + 1)
      PROVE  Types' /\ Roles'
  <2> DEFINE v == Len(given[r]) + 1
  <2>1. v \in Nat /\ v \in Payloads
    BY DEF Types, Payloads
  <2> HIDE DEF v
  <2>2. /\ t = Producer[r] /\ pc' = [pc EXCEPT ![t] = "enqSpin"]
        /\ lastWritten' = [lastWritten EXCEPT ![r] = Advance(r, @)]
        /\ call' = [call EXCEPT ![t] = [ring |-> r, form |-> form, val |-> v]]
        /\ given' = [given EXCEPT ![r] = Append(@, v)]
        /\ UNCHANGED <<ticket, data, lastRead, sent, got, begun, thrown>>
    BY Zenon, <1>4 DEF EnqueueBegin, Step, v
  <2>3. given' \in [Rings -> Seq(Nat)]
    BY <2>1, <2>2 DEF Types
  <2>4. DOMAIN lastWritten' = Rings /\ \A x \in Rings : lastWritten'[x] \in Slots(x)
    BY Zenon, <1>3, <2>2 DEF Types
  <2>5. call' \in [Threads -> [ring : Rings, form : {"none", "enqueue", "emplace", "dequeue"}, val : Payloads]]
    <3>1. [ring |-> r, form |-> form, val |-> v] \in
            [ring : Rings, form : {"none", "enqueue", "emplace", "dequeue"}, val : Payloads]
      BY Zenon, <2>1
    <3> QED BY Zenon, <2>2, <3>1 DEF Types
  <2>6. Types'
    BY Zenon, <1>2, <2>2, <2>3, <2>4, <2>5 DEF Types
  <2>7. Roles'
    BY Zenon, <2>2 DEF Types, Roles
  <2> QED BY Zenon, <2>6, <2>7
<1>5. ASSUME NEW t \in Threads, NEW r \in Rings, DequeueBegin(t, r)
      PROVE  Types' /\ Roles'
  <2>1. /\ t = Consumer[r] /\ pc' = [pc EXCEPT ![t] = "deqSpin"]
        /\ lastRead' = [lastRead EXCEPT ![r] = Advance(r, @)]
        /\ call' = [call EXCEPT ![t] = [ring |-> r, form |-> "dequeue", val |-> Junk]]
        /\ begun' = [begun EXCEPT ![r] = @ + 1]
        /\ UNCHANGED <<ticket, data, lastWritten, given, sent, got, thrown>>
    BY Zenon, <1>5 DEF DequeueBegin, Step
  <2>2. DOMAIN lastRead' = Rings /\ \A x \in Rings : lastRead'[x] \in Slots(x)
    BY Zenon, <1>3, <2>1 DEF Types
  <2>3. call' \in [Threads -> [ring : Rings, form : {"none", "enqueue", "emplace", "dequeue"}, val : Payloads]]
    BY Zenon, <2>1 DEF Types, Payloads
  <2>6. begun' \in [Rings -> Nat]
    <3>1. begun \in [Rings -> Nat] /\ begun[r] \in Nat
      BY Zenon DEF Types
    <3>2. begun[r] + 1 \in Nat
      BY <3>1
    <3> QED BY Zenon, <2>1, <3>1, <3>2
  <2>7. pc' \in [Threads -> {"idle", "enqSpin", "enqWrite", "emplace", "enqPublish",
                             "deqSpin", "deqMove", "deqRelease"}]
    BY Zenon, <2>1 DEF Types
  <2>4. Types'
    BY Zenon, <1>2, <2>1, <2>2, <2>3, <2>6, <2>7 DEF Types
  <2>5. Roles'
    BY Zenon, <2>1 DEF Types, Roles
  <2> QED BY Zenon, <2>4, <2>5
<1>6. ASSUME NEW t \in Threads, Continue(t) \/ Throw(t)
      PROVE  Types' /\ Roles'
  <2>0. PICK r \in Rings : r = call[t].ring
    BY Zenon DEF Types
  <2> DEFINE i == lastWritten[r]
             j == lastRead[r]
  <2>1. /\ i \in Slots(r) /\ j \in Slots(r)
        /\ call[t].val \in Payloads /\ Junk \in Payloads /\ Dead \in Payloads
        /\ data[r] \in [Slots(r) -> Payloads] /\ data[r][i] \in Payloads /\ data[r][j] \in Payloads
    BY Zenon DEF Types, Payloads
  <2>2. UNCHANGED <<lastWritten, lastRead, given, begun>>
    BY Zenon, <1>6, <2>0, ContinueEffect
  <2>3. data' = data \/ \E k \in Slots(r), v \in Payloads : data' = [data EXCEPT ![r][k] = v]
    <3>1. CASE EnqueueWrite(t) \/ EmplaceDestroy(t) \/ EmplaceConstruct(t)
      BY Zenon, <2>0, <2>1, <3>1 DEF EnqueueWrite, EmplaceDestroy, EmplaceConstruct, SetData, W
    <3>2. CASE DequeueMove(t)
      BY Zenon, <2>0, <2>1, <3>2 DEF DequeueMove, SetData, R
    <3>3. CASE Throw(t)
      BY Zenon, <2>0, <2>1, <3>3 DEF Throw, SetData, W, R
    <3> QED BY Zenon, <1>6, <3>1, <3>2, <3>3 DEF Continue, EnqueueEnterSlot, EnqueuePublish, DequeueEnterSlot,
                                          DequeueRelease, ring
  <2>4. UNCHANGED ticket \/ \E k \in Slots(r), v \in {0, 1} : ticket' = [ticket EXCEPT ![r][k] = v]
    BY Zenon, <1>6, <2>0, <2>1 DEF Continue, Throw, EnqueueEnterSlot, EnqueueWrite, EmplaceDestroy, EmplaceConstruct,
         EnqueuePublish, DequeueEnterSlot, DequeueMove, DequeueRelease, ring, W, R
  <2>5. UNCHANGED sent \/ \E v \in Payloads : sent' = [sent EXCEPT ![r] = Append(@, v)]
    BY Zenon, <1>6, <2>0, <2>1 DEF Continue, Throw, EnqueueEnterSlot, EnqueueWrite, EmplaceDestroy, EmplaceConstruct,
         EnqueuePublish, DequeueEnterSlot, DequeueMove, DequeueRelease, hist
  <2>6. UNCHANGED got \/ \E v \in Payloads : got' = [got EXCEPT ![r] = Append(@, v)]
    BY Zenon, <1>6, <2>0, <2>1 DEF Continue, Throw, EnqueueEnterSlot, EnqueueWrite, EmplaceDestroy, EmplaceConstruct,
         EnqueuePublish, DequeueEnterSlot, DequeueMove, DequeueRelease, hist, R
  <2>7. UNCHANGED thrown \/ \E v \in {"enqueue", "dequeue"} : thrown' = [thrown EXCEPT ![r] = @ \cup {v}]
    BY Zenon, <1>6, <2>0, <2>1 DEF Continue, Throw, EnqueueEnterSlot, EnqueueWrite, EmplaceDestroy, EmplaceConstruct,
         EnqueuePublish, DequeueEnterSlot, DequeueMove, DequeueRelease, hist
  <2>8. UNCHANGED call \/ \E v \in Payloads : call' = [call EXCEPT ![t].val = v]
    BY Zenon, <1>6, <2>0, <2>1 DEF Continue, Throw, EnqueueEnterSlot, EnqueueWrite, EmplaceDestroy, EmplaceConstruct,
         EnqueuePublish, DequeueEnterSlot, DequeueMove, DequeueRelease, R
  <2>9. PICK at \in {"enqSpin", "enqWrite", "emplace", "enqPublish", "deqSpin", "deqMove", "deqRelease"},
             to \in {"idle", "enqWrite", "emplace", "enqPublish", "deqMove", "deqRelease"} :
          /\ pc[t] = at /\ pc' = [pc EXCEPT ![t] = to]
          /\ to \in {"enqWrite", "emplace", "enqPublish"} => at \in {"enqSpin", "enqWrite", "emplace"}
          /\ to \in {"deqMove", "deqRelease"} => at \in {"deqSpin", "deqMove"}
    BY Zenon, <1>6 DEF Continue, Throw, Step, EnqueueEnterSlot, EnqueueWrite, EmplaceDestroy, EmplaceConstruct,
         EnqueuePublish, DequeueEnterSlot, DequeueMove, DequeueRelease
  <2> HIDE DEF i, j
  <2>10. DOMAIN data' = Rings /\ \A x \in Rings : data'[x] \in [Slots(x) -> Payloads]
    <3>1. DOMAIN data = Rings /\ \A x \in Rings : data[x] \in [Slots(x) -> Payloads]
      BY Zenon DEF Types
    <3> QED BY <2>3, <3>1
  <2>11. DOMAIN ticket' = Rings /\ \A x \in Rings : ticket'[x] \in [Slots(x) -> {0, 1}]
    <3>1. DOMAIN ticket = Rings /\ \A x \in Rings : ticket[x] \in [Slots(x) -> {0, 1}]
      BY Zenon DEF Types
    <3> QED BY <2>4, <3>1
  <2>12. sent' \in [Rings -> Seq(Payloads)] /\ got' \in [Rings -> Seq(Payloads)]
    <3>1. sent \in [Rings -> Seq(Payloads)] /\ got \in [Rings -> Seq(Payloads)]
      BY Zenon DEF Types
    <3>2. \A v \in Payloads : Append(sent[r], v) \in Seq(Payloads) /\ Append(got[r], v) \in Seq(Payloads)
      BY <3>1
    <3>3. sent' \in [Rings -> Seq(Payloads)]
      <4>1. CASE UNCHANGED sent
        BY Zenon, <3>1, <4>1
      <4>2. ASSUME NEW v \in Payloads, sent' = [sent EXCEPT ![r] = Append(sent[r], v)]
            PROVE  sent' \in [Rings -> Seq(Payloads)]
        <5>1. PICK s \in Seq(Payloads) : s = Append(sent[r], v)
          BY Zenon, <3>2
        <5> QED BY Zenon, <3>1, <4>2, <5>1
      <4> QED BY Zenon, <2>5, <4>1, <4>2
    <3>4. got' \in [Rings -> Seq(Payloads)]
      <4>1. CASE UNCHANGED got
        BY Zenon, <3>1, <4>1
      <4>2. ASSUME NEW v \in Payloads, got' = [got EXCEPT ![r] = Append(got[r], v)]
            PROVE  got' \in [Rings -> Seq(Payloads)]
        <5>1. PICK s \in Seq(Payloads) : s = Append(got[r], v)
          BY Zenon, <3>2
        <5> QED BY Zenon, <3>1, <4>2, <5>1
      <4> QED BY Zenon, <2>6, <4>1, <4>2
    <3> QED BY Zenon, <3>3, <3>4
  <2>13. thrown' \in [Rings -> SUBSET {"enqueue", "dequeue"}]
    <3>1. thrown \in [Rings -> SUBSET {"enqueue", "dequeue"}]
      BY Zenon DEF Types
    <3> QED BY Zenon, <2>7, <3>1
  <2>14. /\ call' \in [Threads -> [ring : Rings, form : {"none", "enqueue", "emplace", "dequeue"}, val : Payloads]]
         /\ \A u \in Threads : call'[u].ring = call[u].ring
    <3>1. call \in [Threads -> [ring : Rings, form : {"none", "enqueue", "emplace", "dequeue"}, val : Payloads]]
      BY Zenon DEF Types
    <3> QED BY <2>8, <3>1
  <2>15. /\ pc' \in [Threads -> {"idle", "enqSpin", "enqWrite", "emplace", "enqPublish",
                                 "deqSpin", "deqMove", "deqRelease"}]
         /\ pc'[t] = to /\ \A u \in Threads \ {t} : pc'[u] = pc[u]
    BY Zenon, <2>9 DEF Types
  <2>16. Types'
    BY Zenon, <1>2, <2>2, <2>10, <2>11, <2>12, <2>13, <2>14, <2>15 DEF Types
  <2>17. Roles'
    BY Zenon, <2>9, <2>14, <2>15 DEF Roles
  <2> QED BY Zenon, <2>16, <2>17
<1>7. ASSUME Next
      PROVE  \E t \in Threads : Continue(t) \/ Throw(t) \/ Begins(t)
  BY Zenon, <1>7, CallBegins DEF Next
<1> QED BY Zenon, <1>1, <1>4, <1>5, <1>6, <1>7 DEF Begins

-----------------------------------------------------------------------------
(* Exclusive access to slots.                                              *)

\* The types of one ring, for the proofs about it.
RingTypes(r) ==
  /\ ticket[r] \in [Slots(r) -> {0, 1}] /\ data[r] \in [Slots(r) -> Payloads]
  /\ lastWritten[r] \in Slots(r) /\ lastRead[r] \in Slots(r)
  /\ given[r] \in Seq(Nat) /\ sent[r] \in Seq(Payloads) /\ got[r] \in Seq(Payloads)
  /\ begun[r] \in Nat /\ thrown[r] \in SUBSET {"enqueue", "dequeue"}
  /\ BUFFER_SIZE[r] \in Nat \ {0} /\ Slots(r) = 0 .. BUFFER_SIZE[r] - 1

LEMMA TypesOfRing == ASSUME Types, NEW r \in Rings PROVE RingTypes(r)
BY Zenon, SpscAssumption DEF Types, RingTypes, Slots

LEMMA RingNumbers ==
  ASSUME NEW r \in Rings, RingTypes(r)
  PROVE  /\ Len(given[r]) \in Nat /\ Len(sent[r]) \in Nat /\ Len(got[r]) \in Nat /\ begun[r] \in Nat
         /\ BUFFER_SIZE[r] \in Nat /\ BUFFER_SIZE[r] > 0
<1>1. ASSUME NEW S, NEW s \in Seq(S) PROVE Len(s) \in Nat
  OBVIOUS
<1>2. ASSUME NEW n \in Nat \ {0} PROVE n \in Nat /\ n > 0
  OBVIOUS
<1> QED BY Zenon, <1>1, <1>2 DEF RingTypes

LEMMA HeldStep ==
  ASSUME NEW r \in Rings, RingTypes(r), Held(r), RingStep(r)
  PROVE  Held(r)'
<1> USE DEF Held, Inside, Same, GetStays, PutStays
<1>1. ASSUME NEW v \in Payloads, PutWrites(r, v) \/ PutThrows(r, v) \/ GetMoves(r, v) \/ GetThrows(r, v)
      PROVE  Held(r)'
  BY Zenon, <1>1 DEF PutWrites, PutThrows, GetMoves, GetThrows
<1>2. CASE PutBegins(r) \/ PutEnters(r)
  BY Zenon, <1>2 DEF PutBegins, PutEnters
<1>3. CASE GetBegins(r) \/ GetEnters(r)
  BY Zenon, <1>3 DEF GetBegins, GetEnters, RingTypes
<1>t. ticket[r] \in [Slots(r) -> {0, 1}] /\ lastWritten[r] \in Slots(r) /\ lastRead[r] \in Slots(r)
  BY Zenon DEF RingTypes
<1>4. CASE PutPublishes(r)
  <2>1. /\ Putting(r)' = "out" /\ Getting(r)' = Getting(r) /\ lastRead'[r] = lastRead[r]
        /\ ticket'[r] = [ticket[r] EXCEPT ![lastWritten[r]] = 1]
    BY Zenon, <1>4 DEF PutPublishes
  <2> QED BY Zenon, <1>t, <2>1
<1>5. CASE GetReleases(r)
  <2>1. /\ Getting(r)' = "out" /\ Putting(r)' = Putting(r) /\ lastWritten'[r] = lastWritten[r]
        /\ ticket'[r] = [ticket[r] EXCEPT ![lastRead[r]] = 0]
    BY Zenon, <1>5 DEF GetReleases
  <2> QED BY Zenon, <1>t, <2>1
<1> QED BY Zenon, <1>1, <1>2, <1>3, <1>4, <1>5 DEF RingStep

LEMMA HeldElsewhere == ASSUME NEW r \in Rings, Held(r), Untouched(r) PROVE Held(r)'
BY Zenon DEF Held, Untouched, Same

LEMMA HeldExcludes ==
  ASSUME \A r \in Rings : Held(r)
  PROVE  SlotExclusive
<1> SUFFICES ASSUME NEW r \in Rings, Writing(r), Reading(r), lastWritten[r] = lastRead[r]
             PROVE  FALSE
  BY Zenon DEF SlotExclusive
<1>1. Putting(r) \in Inside /\ Getting(r) \in {"deqMove", "deqRelease"}
  BY Zenon DEF Writing, Reading, Putting, Getting, Inside, Enqueuing, Dequeuing
<1> QED BY <1>1 DEF Held

-----------------------------------------------------------------------------
(* What the slots hold.                                                    *)

LEMMA ElementsAppend ==
  ASSUME NEW S, NEW s \in Seq(S), NEW v \in S
  PROVE  Elements(Append(s, v)) = Elements(s) \cup {v}
<1>1. /\ DOMAIN s = 1 .. Len(s) /\ Len(s) \in Nat
      /\ DOMAIN Append(s, v) = 1 .. Len(s) + 1
      /\ Append(s, v)[Len(s) + 1] = v /\ \A i \in 1 .. Len(s) : Append(s, v)[i] = s[i]
  OBVIOUS
<1>2. ASSUME NEW x \in Elements(Append(s, v)) PROVE x \in Elements(s) \cup {v}
  BY <1>1 DEF Elements
<1>3. ASSUME NEW x \in Elements(s) \cup {v} PROVE x \in Elements(Append(s, v))
  BY <1>1 DEF Elements
<1> QED BY Zenon, <1>2, <1>3

LEMMA AppendNumber ==
  ASSUME NEW s \in Seq(Nat), NEW u, u = Append(s, Len(s) + 1), \A j \in 1 .. Len(s) : s[j] = j
  PROVE  u \in Seq(Nat) /\ Len(u) = Len(s) + 1 /\ u # <<>> /\ \A j \in 1 .. Len(u) : u[j] = j
<1>1. Len(s) \in Nat /\ u \in Seq(Nat) /\ Len(u) = Len(s) + 1
  OBVIOUS
<1>2. u[Len(s) + 1] = Len(s) + 1 /\ \A j \in 1 .. Len(s) : u[j] = s[j]
  OBVIOUS
<1>3. u # <<>>
  BY <1>1
<1> QED BY <1>1, <1>2, <1>3

LEMMA NumberedStep ==
  ASSUME NEW r \in Rings, RingTypes(r), Held(r), Numbered(r), RingStep(r)
  PROVE  Numbered(r)'
<1> USE DEF Numbered, Same, GetStays, PutStays
<1>0. given[r] \in Seq(Nat) /\ Len(given[r]) \in Nat /\ sent[r] \in Seq(Payloads)
  BY DEF RingTypes
<1>1. ASSUME NEW v \in Payloads, PutWrites(r, v)
      PROVE  Numbered(r)'
  BY Zenon, <1>1 DEF PutWrites, Inside, RingTypes
<1>2. ASSUME NEW v \in Payloads, PutThrows(r, v)
      PROVE  Numbered(r)'
  BY Zenon, <1>2 DEF PutThrows
<1>3. CASE PutBegins(r) /\ Carried(r)' = Len(given[r]) + 1
  <2>1. /\ given'[r] = Append(given[r], Len(given[r]) + 1) /\ sent'[r] = sent[r]
        /\ Putting(r)' = "enqSpin" /\ Carried(r)' = Len(given[r]) + 1
    BY Zenon, <1>3 DEF PutBegins
  <2>2. \A j \in 1 .. Len(given[r]) : given[r][j] = j
    BY Zenon
  <2>3. /\ Len(given'[r]) = Len(given[r]) + 1 /\ given'[r] # <<>>
        /\ \A j \in 1 .. Len(given'[r]) : given'[r][j] = j
    <3> HIDE DEF Numbered
    <3> QED BY Zenon, <1>0, <2>1, <2>2, AppendNumber
  <2>4. \A v \in Elements(sent'[r]) : v \in 1 .. Len(given'[r]) /\ v # Len(given'[r])
    BY <1>0, <2>1, <2>3
  <2> QED BY Zenon, <2>1, <2>3, <2>4 DEF Elements
<1>4. CASE PutEnters(r)
  BY Zenon, <1>4 DEF PutEnters
<1>5. CASE PutPublishes(r)
  <2>1. Carried(r) = Len(given[r]) /\ given[r] # <<>>
    BY Zenon, <1>5 DEF PutPublishes
  <2>2. Elements(sent'[r]) = Elements(sent[r]) \cup {Carried(r)}
    <3>1. Carried(r) \in Payloads /\ sent'[r] = Append(sent[r], Carried(r))
      BY Zenon, <1>0, <1>5, <2>1 DEF PutPublishes, Payloads
    <3> HIDE DEF Numbered
    <3> QED BY <1>0, <3>1, ElementsAppend
  <2>3. Len(given[r]) \in 1 .. Len(given[r])
    BY <1>0, <2>1
  <2> QED BY Zenon, <1>5, <2>1, <2>2, <2>3 DEF PutPublishes
<1>6. CASE GetBegins(r) \/ GetEnters(r) \/ GetReleases(r)
  BY Zenon, <1>6 DEF GetBegins, GetEnters, GetReleases
<1>7. ASSUME NEW v \in Payloads, GetMoves(r, v) \/ GetThrows(r, v)
      PROVE  Numbered(r)'
  <2>1. Putting(r) \in Inside => data'[r][lastWritten[r]] = data[r][lastWritten[r]]
    <3>1. /\ data'[r] = [data[r] EXCEPT ![lastRead[r]] = v] /\ Getting(r) = "deqMove"
      BY Zenon, <1>7 DEF GetMoves, GetThrows
    <3>2. Putting(r) \in Inside => lastWritten[r] # lastRead[r]
      BY <3>1 DEF Held
    <3>3. data[r] \in [Slots(r) -> Payloads] /\ lastWritten[r] \in Slots(r)
      BY Zenon DEF RingTypes
    <3> HIDE DEF Numbered
    <3> QED BY Zenon, <3>1, <3>2, <3>3
  <2> QED BY Zenon, <1>7, <2>1 DEF GetMoves, GetThrows, Inside
<1> QED BY Zenon, <1>1, <1>2, <1>3, <1>4, <1>5, <1>6, <1>7 DEF RingStep

LEMMA NumberedElsewhere == ASSUME NEW r \in Rings, Numbered(r), Untouched(r) PROVE Numbered(r)'
BY Zenon DEF Numbered, Untouched, Same

LEMMA PendingIs ==
  ASSUME NEW r \in Rings
  PROVE  Pending(r) = {i \in Slots(r) : ticket[r][i] # 0 /\ ~(lastRead[r] = i /\ Getting(r) = "deqRelease")}
BY Zenon DEF Pending, Getting

LEMMA PendingIsNext ==
  ASSUME NEW r \in Rings
  PROVE  Pending(r)' = {i \in Slots(r) : ticket'[r][i] # 0 /\ ~(lastRead'[r] = i /\ Getting(r)' = "deqRelease")}
BY Zenon DEF Pending, Getting, Slots

LEMMA IntactElsewhere == ASSUME NEW r \in Rings, Intact(r), Untouched(r) PROVE Intact(r)'
<1>1. Pending(r)' = Pending(r)
  BY ZenonT(30), PendingIs, PendingIsNext DEF Untouched, Same
<1> QED BY <1>1 DEF Intact, Untouched, Same

LEMMA IntactStep ==
  ASSUME NEW r \in Rings, RingTypes(r), Held(r), Numbered(r), Intact(r), RingStep(r)
  PROVE  Intact(r)'
<1> USE DEF Same, GetStays, PutStays
<1> DEFINE P == Pending(r)
<1>0. /\ P = {i \in Slots(r) : ticket[r][i] # 0 /\ ~(lastRead[r] = i /\ Getting(r) = "deqRelease")}
      /\ P' = {i \in Slots(r) : ticket'[r][i] # 0 /\ ~(lastRead'[r] = i /\ Getting(r)' = "deqRelease")}
  BY Zenon, PendingIs, PendingIsNext
<1> SUFFICES ASSUME "dequeue" \notin thrown'[r]
             PROVE  /\ Elements(got'[r]) \subseteq Elements(sent'[r])
                    /\ {data'[r][i] : i \in P'} = Elements(sent'[r]) \ Elements(got'[r])
                    /\ \A i, j \in P' : data'[r][i] = data'[r][j] => i = j
  BY Zenon DEF Intact, Elements
<1> HIDE DEF P
<1>t. /\ ticket[r] \in [Slots(r) -> {0, 1}] /\ data[r] \in [Slots(r) -> Payloads]
      /\ lastWritten[r] \in Slots(r) /\ lastRead[r] \in Slots(r)
      /\ sent[r] \in Seq(Payloads) /\ got[r] \in Seq(Payloads)
  BY Zenon DEF RingTypes
<1>h. /\ Putting(r) \in Inside => ticket[r][lastWritten[r]] = 0
      /\ Getting(r) \in {"deqMove", "deqRelease"} => ticket[r][lastRead[r]] = 1
  BY Zenon DEF Held
<1>1. /\ "dequeue" \notin thrown[r] /\ ~\E v : GetThrows(r, v)
      /\ Elements(got[r]) \subseteq Elements(sent[r])
      /\ {data[r][i] : i \in P} = Elements(sent[r]) \ Elements(got[r])
      /\ \A i, j \in P : data[r][i] = data[r][j] => i = j
  <2>1. "dequeue" \notin thrown[r] /\ ~\E v : GetThrows(r, v)
    BY Zenon DEF RingStep, PutBegins, PutEnters, PutPublishes, PutWrites, PutThrows, GetMoves, GetThrows,
           GetBegins, GetEnters, GetReleases
  <2> QED BY Zenon, <2>1 DEF Intact, P
<1>2. CASE (PutBegins(r) /\ Carried(r)' = Len(given[r]) + 1) \/ PutEnters(r) \/ GetBegins(r) \/ GetEnters(r)
  <2>1. P' = P /\ data'[r] = data[r] /\ sent'[r] = sent[r] /\ got'[r] = got[r]
    BY Zenon, <1>2, <1>0 DEF PutBegins, PutEnters, GetBegins, GetEnters
  <2> QED BY <1>1, <2>1
<1>3. ASSUME NEW v \in Payloads, PutWrites(r, v) \/ PutThrows(r, v)
      PROVE  /\ Elements(got'[r]) \subseteq Elements(sent'[r])
             /\ {data'[r][i] : i \in P'} = Elements(sent'[r]) \ Elements(got'[r])
             /\ \A i, j \in P' : data'[r][i] = data'[r][j] => i = j
  <2>1. /\ sent'[r] = sent[r] /\ got'[r] = got[r] /\ P' = P
        /\ data'[r] = [data[r] EXCEPT ![lastWritten[r]] = v] /\ ticket[r][lastWritten[r]] = 0
    BY Zenon, <1>3, <1>0, <1>h DEF PutWrites, PutThrows
  <2>2. \A i \in P : data'[r][i] = data[r][i]
    BY Zenon, <1>0, <1>t, <2>1
  <2> QED BY <1>1, <2>1, <2>2
<1>4. CASE PutPublishes(r)
  <2>1. /\ got'[r] = got[r] /\ data'[r] = data[r] /\ Putting(r) = "enqPublish"
        /\ ticket'[r] = [ticket[r] EXCEPT ![lastWritten[r]] = 1] /\ sent'[r] = Append(sent[r], Carried(r))
        /\ lastRead'[r] = lastRead[r] /\ Getting(r)' = Getting(r)
    BY Zenon, <1>4 DEF PutPublishes
  <2>2. ticket[r][lastWritten[r]] = 0
    BY Zenon, <1>h, <2>1 DEF Inside
  <2>3. P' = P \cup {lastWritten[r]} /\ lastWritten[r] \notin P
    BY <1>0, <1>t, <1>h, <2>1, <2>2
  <2>4. /\ data[r][lastWritten[r]] = Carried(r) /\ Carried(r) = Len(given[r])
        /\ Carried(r) \notin Elements(sent[r])
    BY Zenon, <2>1 DEF Numbered
  <2>5. Carried(r) \in Payloads
    BY <1>t, <2>4
  <2>6. Elements(sent'[r]) = Elements(sent[r]) \cup {Carried(r)}
    <3>1. sent[r] \in Seq(Payloads) /\ sent'[r] = Append(sent[r], Carried(r))
      BY Zenon, <1>t, <2>1
    <3> QED BY <2>5, <3>1, ElementsAppend
  <2>7. {data'[r][i] : i \in P'} = {data[r][i] : i \in P} \cup {Carried(r)}
    BY <2>1, <2>3, <2>4
  <2>8. {data'[r][i] : i \in P'} = Elements(sent'[r]) \ Elements(got'[r])
    BY Zenon, <1>1, <2>1, <2>4, <2>6, <2>7
  <2>9. \A i \in P : data[r][i] # Carried(r)
    BY Zenon, <1>1, <2>4
  <2>10. Elements(got'[r]) \subseteq Elements(sent'[r])
    BY Zenon, <1>1, <2>1, <2>6
  <2>11. \A i, j \in P' : data'[r][i] = data'[r][j] => i = j
    <3>1. data'[r] = data[r] /\ data[r][lastWritten[r]] = Carried(r)
      BY Zenon, <2>1, <2>4
    <3> SUFFICES ASSUME NEW i \in P', NEW j \in P', data[r][i] = data[r][j] PROVE i = j
      BY Zenon, <3>1
    <3>2. (i \in P \/ i = lastWritten[r]) /\ (j \in P \/ j = lastWritten[r])
      BY Zenon, <2>3
    <3> QED BY Zenon, <1>1, <2>9, <3>1, <3>2
  <2> QED BY Zenon, <2>8, <2>10, <2>11
<1>5. ASSUME NEW v \in Payloads, GetMoves(r, v)
      PROVE  /\ Elements(got'[r]) \subseteq Elements(sent'[r])
             /\ {data'[r][i] : i \in P'} = Elements(sent'[r]) \ Elements(got'[r])
             /\ \A i, j \in P' : data'[r][i] = data'[r][j] => i = j
  <2> DEFINE k == lastRead[r]
  <2>1. /\ Getting(r) = "deqMove" /\ Getting(r)' = "deqRelease" /\ sent'[r] = sent[r]
        /\ data'[r] = [data[r] EXCEPT ![k] = v] /\ got'[r] = Append(got[r], data[r][k])
        /\ lastRead'[r] = k /\ ticket'[r] = ticket[r]
    BY Zenon, <1>5 DEF GetMoves
  <2>2. ticket[r][k] = 1 /\ k \in Slots(r) /\ data[r][k] \in Payloads
    BY Zenon, <1>h, <1>t, <2>1
  <2> HIDE DEF k
  <2>3. P' = P \ {k} /\ k \in P
    BY <1>0, <2>1, <2>2 DEF k
  <2>4. Elements(got'[r]) = Elements(got[r]) \cup {data[r][k]}
    <3>1. got[r] \in Seq(Payloads) /\ got'[r] = Append(got[r], data[r][k])
      BY Zenon, <1>t, <2>1
    <3> QED BY <2>2, <3>1, ElementsAppend
  <2>5. \A i \in P' : data'[r][i] = data[r][i]
    BY Zenon, <1>0, <1>t, <2>1, <2>3
  <2>6. \A i \in P' : data[r][i] # data[r][k]
    BY Zenon, <1>1, <2>3
  <2>7. {data'[r][i] : i \in P'} = {data[r][i] : i \in P} \ {data[r][k]}
    BY Zenon, <2>3, <2>5, <2>6
  <2>8. data[r][k] \in Elements(sent[r])
    BY Zenon, <1>1, <2>3
  <2>9. {data'[r][i] : i \in P'} = Elements(sent'[r]) \ Elements(got'[r])
    BY Zenon, <1>1, <2>1, <2>4, <2>7
  <2>10. Elements(got'[r]) \subseteq Elements(sent'[r])
    BY Zenon, <1>1, <2>1, <2>4, <2>8
  <2>11. \A i, j \in P' : data'[r][i] = data'[r][j] => i = j
    BY Zenon, <1>1, <2>3, <2>5
  <2> QED BY Zenon, <2>9, <2>10, <2>11
<1>6. CASE GetReleases(r)
  <2>1. P' = P /\ data'[r] = data[r] /\ sent'[r] = sent[r] /\ got'[r] = got[r]
    BY Zenon, <1>6, <1>0, <1>t DEF GetReleases
  <2> QED BY <1>1, <2>1
<1> QED BY Zenon, <1>1, <1>2, <1>3, <1>4, <1>5, <1>6 DEF RingStep

-----------------------------------------------------------------------------
(* The order of payloads.                                                 *)

LEMMA DivMod ==
  ASSUME NEW n \in Nat, n > 0, NEW k \in Nat
  PROVE  /\ k \div n \in Int
         /\ k % n \in 0 .. n - 1
         /\ k = n * (k \div n) + (k % n)
OBVIOUS

\* A number is quotient and remainder in one way only.
LEMMA OneRemainder ==
  ASSUME NEW n \in Nat, n > 0, NEW q \in Int, NEW r \in Int,
         NEW a \in 0 .. n - 1, NEW b \in 0 .. n - 1, n * q + a = n * r + b
  PROVE  a = b /\ q = r
<1>1. ASSUME NEW x \in Int, NEW y \in Int, x > y PROVE n * x >= n * y + n
  <2>1. PICK d \in Nat : x = y + 1 + d
    BY <1>1, x - y - 1 \in Nat
  <2>2. n * x = n * y + n + n * d
    BY <2>1
  <2>3. n * d \in Nat
    OBVIOUS
  <2>4. n * y \in Int
    OBVIOUS
  <2> QED BY <2>2, <2>3, <2>4
<1>2. n * q \in Int /\ n * r \in Int
  OBVIOUS
<1>3. ~(q > r)
  <2> SUFFICES ASSUME q > r PROVE FALSE
    BY Zenon
  <2>1. n * q >= n * r + n
    BY Zenon, <1>1
  <2> QED BY <1>2, <2>1
<1>4. ~(r > q)
  <2> SUFFICES ASSUME r > q PROVE FALSE
    BY Zenon
  <2>1. n * r >= n * q + n
    BY Zenon, <1>1
  <2> QED BY <1>2, <2>1
<1>5. q = r
  BY <1>3, <1>4
<1> QED BY <1>2, <1>5

LEMMA ModLap ==
  ASSUME NEW n \in Nat, n > 0, NEW k \in Nat
  PROVE  (k + n) % n = k % n
<1>1. (k \div n) + 1 \in Int /\ k + n = n * ((k \div n) + 1) + (k % n) /\ k % n \in 0 .. n - 1
  BY DivMod
<1>2. /\ (k + n) \div n \in Int /\ k + n = n * ((k + n) \div n) + ((k + n) % n)
      /\ (k + n) % n \in 0 .. n - 1
  BY DivMod, k + n \in Nat
<1>3. PICK a \in 0 .. n - 1, b \in 0 .. n - 1, x \in Int, y \in Int :
        a = k % n /\ b = (k + n) % n /\ x = (k \div n) + 1 /\ y = (k + n) \div n
  BY Zenon, <1>1, <1>2
<1>4. n * x + a = n * y + b
  BY Zenon, <1>1, <1>2, <1>3
<1>5. a = b
  BY Zenon, <1>4, OneRemainder
<1> QED BY Zenon, <1>3, <1>5

\* Numbers less than n apart have different remainders.
LEMMA ModNear ==
  ASSUME NEW n \in Nat, n > 0, NEW j \in Nat, NEW k \in Nat, j < k, k - j < n
  PROVE  j % n # k % n
<1> SUFFICES ASSUME j % n = k % n PROVE FALSE
  BY Zenon
<1>1. j \div n \in Int /\ j = n * (j \div n) + (j % n) /\ j % n \in 0 .. n - 1
  BY Zenon, DivMod
<1>2. k \div n \in Int /\ k = n * (k \div n) + (j % n)
  BY Zenon, DivMod
<1>3. PICK a \in Int, x \in Int, y \in Int : x = j \div n /\ y = k \div n /\ a = j % n
  BY <1>1, <1>2
<1>4. a \in Nat /\ j = n * x + a /\ k = n * y + a
  BY <1>1, <1>2, <1>3
<1>5. n * x \in Int /\ n * y \in Int /\ n * x < n * y /\ n * y < n * x + n
  BY <1>4
<1>6. n * x + 0 = n * x /\ n * y = n * x + (n * y - n * x)
  BY <1>5
<1>7. n * y - n * x \in 0 .. n - 1 /\ 0 \in 0 .. n - 1
  BY <1>5
<1>8. n * y + 0 = n * x + (n * y - n * x)
  BY <1>5
<1>9. 0 = n * y - n * x
  BY <1>7, <1>8, OneRemainder
<1> QED BY <1>5, <1>9

LEMMA ModNext ==
  ASSUME NEW n \in Nat, n > 0, NEW k \in Nat
  PROVE  (k + 1) % n = (IF (k % n) + 1 < n THEN (k % n) + 1 ELSE 0)
<1>1. k \div n \in Int /\ k = n * (k \div n) + (k % n) /\ k % n \in 0 .. n - 1
  BY Zenon, DivMod
<1>2. /\ (k + 1) \div n \in Int /\ k + 1 = n * ((k + 1) \div n) + ((k + 1) % n)
      /\ (k + 1) % n \in 0 .. n - 1
  BY DivMod, k + 1 \in Nat
<1>3. PICK a \in 0 .. n - 1, b \in 0 .. n - 1, x \in Int, y \in Int :
        a = k % n /\ b = (k + 1) % n /\ x = k \div n /\ y = (k + 1) \div n
  BY Zenon, <1>1, <1>2
<1>4. k = n * x + a /\ n * y + b = k + 1
  BY Zenon, <1>1, <1>2, <1>3
<1>5. CASE a + 1 < n
  <2>1. n * y + b = n * x + (a + 1) /\ a + 1 \in 0 .. n - 1
    BY <1>4, <1>5
  <2>2. b = a + 1
    BY Zenon, <2>1, OneRemainder
  <2> QED BY Zenon, <1>3, <1>5, <2>2
<1>6. CASE ~(a + 1 < n)
  <2>1. a = n - 1 /\ n * (x + 1) = n * x + n
    BY <1>6
  <2>2. n * x \in Int /\ n * y \in Int
    OBVIOUS
  <2>3. n * y + b = n * (x + 1) + 0 /\ x + 1 \in Int /\ 0 \in 0 .. n - 1
    BY <1>4, <2>1, <2>2
  <2>4. b = 0
    BY Zenon, <2>3, OneRemainder
  <2> QED BY Zenon, <1>3, <1>6, <2>4
<1> QED BY Zenon, <1>5, <1>6

LEMMA OrderedElsewhere == ASSUME NEW r \in Rings, Ordered(r), Untouched(r) PROVE Ordered(r)'
<1>1. Released(r)' = Released(r)
  BY Zenon DEF Released, Untouched, Same
<1>2. Slots(r)' = Slots(r)
  BY Zenon DEF Slots
<1>3. Counted(r) => Counted(r)'
  BY Zenon, <1>1 DEF Counted, Untouched, Same
<1>4. Sequenced(r) => Sequenced(r)'
  BY Zenon DEF Sequenced, Untouched, Same
<1>5. Placed(r) => Placed(r)'
  BY Zenon, <1>1 DEF Placed, Untouched, Same, Slots
<1> QED BY Zenon, <1>3, <1>4, <1>5 DEF Ordered, Untouched, Same

\* The cursors go round the ring.
LEMMA AdvanceIsNext ==
  ASSUME NEW r \in Rings, NEW k \in Nat
  PROVE  Advance(r, k % BUFFER_SIZE[r]) = (k + 1) % BUFFER_SIZE[r]
<1>1. PICK n \in Nat : n > 0 /\ n = BUFFER_SIZE[r]
  BY SpscAssumption
<1>2. (k + 1) % n = (IF (k % n) + 1 < n THEN (k % n) + 1 ELSE 0)
  BY Zenon, <1>1, ModNext
<1> QED BY Zenon, <1>1, <1>2 DEF Advance

\* How the three sequences of a ring grow.
LEMMA LenAppend ==
  ASSUME NEW S, NEW s \in Seq(S), NEW v \in S
  PROVE  Len(Append(s, v)) = Len(s) + 1
OBVIOUS

LEMMA PublishedLen ==
  ASSUME NEW r \in Rings, RingTypes(r), Numbered(r), PutPublishes(r)
  PROVE  Len(sent'[r]) = Len(sent[r]) + 1
<1>1. sent[r] \in Seq(Payloads) /\ data[r][lastWritten[r]] \in Payloads
  BY Zenon DEF RingTypes
<1>2. Carried(r) \in Payloads /\ sent'[r] = Append(sent[r], Carried(r))
  BY Zenon, <1>1 DEF PutPublishes, Numbered
<1> QED BY <1>1, <1>2, LenAppend

LEMMA MovedLen ==
  ASSUME NEW r \in Rings, RingTypes(r), NEW v \in Payloads, GetMoves(r, v)
  PROVE  Len(got'[r]) = Len(got[r]) + 1
<1>1. /\ got[r] \in Seq(Payloads) /\ data[r][lastRead[r]] \in Payloads
      /\ got'[r] = Append(got[r], data[r][lastRead[r]])
  BY Zenon DEF RingTypes, GetMoves
<1> QED BY <1>1, LenAppend

LEMMA BegunLen ==
  ASSUME NEW r \in Rings, RingTypes(r), PutBegins(r), Carried(r)' = Len(given[r]) + 1
  PROVE  Len(given'[r]) = Len(given[r]) + 1
<1>1. given[r] \in Seq(Nat) /\ given'[r] = Append(given[r], Carried(r)')
  BY Zenon DEF RingTypes, PutBegins
<1>2. Carried(r)' \in Nat
  BY <1>1
<1> QED BY <1>1, <1>2, LenAppend

LEMMA CountedStep ==
  ASSUME NEW r \in Rings, RingTypes(r), Held(r), Numbered(r), Counted(r), Placed(r), RingStep(r),
         thrown'[r] = {}
  PROVE  Counted(r)'
<1> USE DEF Same, GetStays, PutStays
<1>1. PICK n \in Nat : n > 0 /\ n = BUFFER_SIZE[r]
  BY Zenon, RingNumbers
<1>2. PICK g \in Nat, s \in Nat, m \in Nat, b \in Nat :
        g = Len(given[r]) /\ s = Len(sent[r]) /\ m = Len(got[r]) /\ b = begun[r]
  BY Zenon, RingNumbers
<1>3. /\ s = g - (IF Putting(r) = "out" THEN 0 ELSE 1)
      /\ m = b - (IF Getting(r) \in {"deqSpin", "deqMove"} THEN 1 ELSE 0)
      /\ m <= s /\ s <= Released(r) + n
      /\ Getting(r) # "out" => b >= 1
      /\ Getting(r) \in {"deqMove", "deqRelease"} => b <= s
  BY Zenon, <1>1, <1>2 DEF Counted
<1>c. lastWritten[r] = g % n /\ lastRead[r] = b % n
  BY Zenon, <1>1, <1>2 DEF Counted
<1>4. Released(r) = IF Getting(r) = "out" THEN b ELSE b - 1
  BY Zenon, <1>2 DEF Released
<1>5. ASSUME NEW h \in Nat, NEW u \in Nat, NEW o \in Nat, NEW d \in Nat,
             h = Len(given'[r]), u = Len(sent'[r]), o = Len(got'[r]), d = begun'[r],
             /\ u = h - (IF Putting(r)' = "out" THEN 0 ELSE 1)
             /\ o = d - (IF Getting(r)' \in {"deqSpin", "deqMove"} THEN 1 ELSE 0)
             /\ o <= u /\ u <= (IF Getting(r)' = "out" THEN d ELSE d - 1) + n
             /\ Getting(r)' # "out" => d >= 1
             /\ Getting(r)' \in {"deqMove", "deqRelease"} => d <= u,
             lastWritten'[r] = h % n, lastRead'[r] = d % n
      PROVE  Counted(r)'
  BY Zenon, <1>1, <1>5 DEF Counted, Released
<1>6. CASE PutBegins(r) /\ Carried(r)' = Len(given[r]) + 1
  <2>1. Len(given'[r]) = g + 1
    BY Zenon, <1>2, <1>6, BegunLen
  <2>2. lastWritten'[r] = (g + 1) % n /\ lastRead'[r] = b % n
    BY Zenon, <1>1, <1>c, <1>6, AdvanceIsNext DEF PutBegins
  <2>3. /\ s = Len(sent'[r]) /\ m = Len(got'[r]) /\ b = begun'[r]
        /\ Putting(r) = "out" /\ Putting(r)' # "out" /\ Getting(r)' = Getting(r)
    BY Zenon, <1>2, <1>6 DEF PutBegins
  <2>4. PICK h \in Nat : h = g + 1
    OBVIOUS
  <2>5. /\ s = h - (IF Putting(r)' = "out" THEN 0 ELSE 1)
        /\ m <= s /\ s <= (IF Getting(r)' = "out" THEN b ELSE b - 1) + n
    BY <1>3, <1>4, <2>3, <2>4
  <2>6. /\ m = b - (IF Getting(r)' \in {"deqSpin", "deqMove"} THEN 1 ELSE 0)
        /\ Getting(r)' # "out" => b >= 1
        /\ Getting(r)' \in {"deqMove", "deqRelease"} => b <= s
    BY Zenon, <1>3, <2>3
  <2> QED BY Zenon, <1>5, <2>1, <2>2, <2>3, <2>4, <2>5, <2>6
<1>7. ASSUME \/ PutEnters(r)
             \/ \E v \in Payloads : PutWrites(r, v)
      PROVE  Counted(r)'
  <2>1. /\ given'[r] = given[r] /\ got'[r] = got[r] /\ begun'[r] = begun[r] /\ sent'[r] = sent[r]
        /\ Putting(r) # "out" /\ Putting(r)' # "out" /\ Getting(r)' = Getting(r)
        /\ lastWritten'[r] = lastWritten[r] /\ lastRead'[r] = lastRead[r]
    BY Zenon, <1>7 DEF PutEnters, PutWrites, Inside
  <2>2. /\ g = Len(given'[r]) /\ s = Len(sent'[r]) /\ m = Len(got'[r]) /\ b = begun'[r]
        /\ lastWritten'[r] = g % n /\ lastRead'[r] = b % n
    BY Zenon, <1>2, <1>c, <2>1
  <2>3. /\ s = g - (IF Putting(r)' = "out" THEN 0 ELSE 1)
        /\ m <= s /\ s <= (IF Getting(r)' = "out" THEN b ELSE b - 1) + n
    BY Zenon, <1>3, <1>4, <2>1
  <2>4. /\ m = b - (IF Getting(r)' \in {"deqSpin", "deqMove"} THEN 1 ELSE 0)
        /\ Getting(r)' # "out" => b >= 1
        /\ Getting(r)' \in {"deqMove", "deqRelease"} => b <= s
    BY Zenon, <1>3, <2>1
  <2> QED BY Zenon, <1>5, <2>2, <2>3, <2>4
<1>8. CASE PutPublishes(r)
  <2>1. Len(sent'[r]) = s + 1
    BY Zenon, <1>2, <1>8, PublishedLen
  <2>2. s = g - 1 /\ ticket[r][g % n] = 0
    BY Zenon, <1>3, <1>c, <1>8 DEF PutPublishes, Held, Inside
  <2>3. s + 1 <= Released(r) + n
    <3> SUFFICES ASSUME ~(s + 1 <= Released(r) + n) PROVE FALSE
      BY Zenon
    <3>1. PICK e \in Nat : e = Released(r)
      BY <1>3, <1>4
    <3>2. g = e + 1 + n /\ e + 1 <= s
      BY <1>1, <1>3, <2>2, <3>1
    <3>3. ticket[r][(e + 1) % n] = 1
      <4>1. \A k \in e + 1 .. s : ticket[r][k % n] = 1
        BY Zenon, <1>1, <1>2, <3>1 DEF Placed, Fits
      <4>2. e + 1 \in e + 1 .. s
        BY <3>2
      <4> QED BY Zenon, <4>1, <4>2
    <3>4. PICK f \in Nat : f = e + 1
      OBVIOUS
    <3>5. (f + n) % n = f % n /\ g = f + n
      BY Zenon, <1>1, <3>2, <3>4, ModLap
    <3> QED BY <2>2, <3>3, <3>4, <3>5
  <2>4. /\ given'[r] = given[r] /\ got'[r] = got[r] /\ begun'[r] = begun[r]
        /\ Putting(r) = "enqPublish" /\ Putting(r)' = "out" /\ Getting(r)' = Getting(r)
        /\ lastWritten'[r] = lastWritten[r] /\ lastRead'[r] = lastRead[r]
    BY Zenon, <1>8 DEF PutPublishes
  <2>5. /\ g = Len(given'[r]) /\ m = Len(got'[r]) /\ b = begun'[r] /\ s + 1 \in Nat
        /\ lastWritten'[r] = g % n /\ lastRead'[r] = b % n
    BY <1>2, <1>c, <2>4
  <2>6. PICK u \in Nat : u = s + 1
    OBVIOUS
  <2>7. /\ u = g - 0 /\ m <= u /\ u = Len(sent'[r])
        /\ Getting(r)' \in {"deqMove", "deqRelease"} => b <= u
        /\ Getting(r)' # "out" => b >= 1
        /\ m = b - (IF Getting(r)' \in {"deqSpin", "deqMove"} THEN 1 ELSE 0)
    BY <1>3, <2>1, <2>2, <2>4, <2>6
  <2>8. u <= (IF Getting(r)' = "out" THEN b ELSE b - 1) + n
    BY Zenon, <1>4, <2>3, <2>4, <2>6
  <2> QED BY Zenon, <1>5, <2>4, <2>5, <2>7, <2>8
<1>9. ASSUME NEW v \in Payloads PROVE ~PutThrows(r, v) /\ ~GetThrows(r, v)
  BY Zenon DEF PutThrows, GetThrows
<1>10. CASE GetBegins(r)
  <2>1. lastRead'[r] = (b + 1) % n /\ lastWritten'[r] = g % n
    BY Zenon, <1>1, <1>c, <1>10, AdvanceIsNext DEF GetBegins
  <2>2. /\ Len(given'[r]) = g /\ Len(sent'[r]) = s /\ Len(got'[r]) = m /\ begun'[r] = b + 1
        /\ Putting(r)' = Putting(r) /\ Getting(r) = "out" /\ Getting(r)' = "deqSpin"
    BY Zenon, <1>2, <1>10 DEF GetBegins
  <2>3. PICK d \in Nat : d = b + 1
    OBVIOUS
  <2>4. /\ s = g - (IF Putting(r)' = "out" THEN 0 ELSE 1)
        /\ m = d - (IF Getting(r)' \in {"deqSpin", "deqMove"} THEN 1 ELSE 0)
        /\ m <= s /\ s <= (IF Getting(r)' = "out" THEN d ELSE d - 1) + n
        /\ Getting(r)' # "out" => d >= 1
        /\ Getting(r)' \in {"deqMove", "deqRelease"} => d <= s
    BY <1>3, <1>4, <2>2, <2>3
  <2> QED BY Zenon, <1>5, <2>1, <2>2, <2>3, <2>4
<1>11. CASE GetEnters(r)
  <2>1. ticket[r][b % n] # 0 /\ b % n \in Slots(r) /\ Getting(r) = "deqSpin"
    BY Zenon, <1>c, <1>11 DEF GetEnters, RingTypes
  <2>2. ticket[r][b % n] = 1
    BY Zenon, <2>1 DEF RingTypes
  <2>3. PICK k \in Released(r) + 1 .. s : k % n = b % n
    BY Zenon, <1>1, <1>2, <2>1, <2>2 DEF Placed, Fits, Slots
  <2>4. b <= s
    BY <1>3, <1>4, <2>1, <2>3
  <2>5. /\ Len(given'[r]) = g /\ Len(sent'[r]) = s /\ Len(got'[r]) = m /\ begun'[r] = b
        /\ Putting(r)' = Putting(r) /\ Getting(r)' = "deqMove"
        /\ lastWritten'[r] = lastWritten[r] /\ lastRead'[r] = lastRead[r]
    BY Zenon, <1>2, <1>11 DEF GetEnters
  <2> QED BY Zenon, <1>3, <1>c, <1>4, <1>5, <2>1, <2>4, <2>5
<1>12. ASSUME NEW v \in Payloads, GetMoves(r, v)
       PROVE  Counted(r)'
  <2>1. Len(got'[r]) = m + 1
    BY Zenon, <1>2, <1>12, MovedLen
  <2>2. /\ Len(given'[r]) = g /\ begun'[r] = b /\ Len(sent'[r]) = s
        /\ Putting(r)' = Putting(r) /\ Getting(r) = "deqMove" /\ Getting(r)' = "deqRelease"
        /\ lastWritten'[r] = lastWritten[r] /\ lastRead'[r] = lastRead[r]
    BY Zenon, <1>2, <1>12 DEF GetMoves
  <2>3. PICK o \in Nat : o = m + 1
    OBVIOUS
  <2>4. /\ s = g - (IF Putting(r)' = "out" THEN 0 ELSE 1)
        /\ o = b - (IF Getting(r)' \in {"deqSpin", "deqMove"} THEN 1 ELSE 0)
        /\ o <= s /\ s <= (IF Getting(r)' = "out" THEN b ELSE b - 1) + n
        /\ Getting(r)' # "out" => b >= 1
        /\ Getting(r)' \in {"deqMove", "deqRelease"} => b <= s
    BY <1>3, <1>4, <2>2, <2>3
  <2> QED BY Zenon, <1>5, <1>c, <2>1, <2>2, <2>3, <2>4
<1>13. CASE GetReleases(r)
  <2>1. /\ Len(given'[r]) = g /\ begun'[r] = b /\ Len(sent'[r]) = s /\ Len(got'[r]) = m
        /\ Putting(r)' = Putting(r) /\ Getting(r) = "deqRelease" /\ Getting(r)' = "out"
        /\ lastWritten'[r] = lastWritten[r] /\ lastRead'[r] = lastRead[r]
    BY Zenon, <1>2, <1>13 DEF GetReleases
  <2>2. /\ s = g - (IF Putting(r)' = "out" THEN 0 ELSE 1)
        /\ m = b - (IF Getting(r)' \in {"deqSpin", "deqMove"} THEN 1 ELSE 0)
        /\ m <= s /\ s <= (IF Getting(r)' = "out" THEN b ELSE b - 1) + n
        /\ Getting(r)' # "out" => b >= 1
        /\ Getting(r)' \in {"deqMove", "deqRelease"} => b <= s
    BY <1>3, <1>4, <2>1
  <2> QED BY Zenon, <1>5, <1>c, <2>1, <2>2
<1> QED BY Zenon, <1>6, <1>7, <1>8, <1>9, <1>10, <1>11, <1>12, <1>13 DEF RingStep

LEMMA SequencedStep ==
  ASSUME NEW r \in Rings, RingTypes(r), Numbered(r), Counted(r), Sequenced(r), Placed(r),
         RingStep(r), thrown'[r] = {}
  PROVE  Sequenced(r)'
<1> USE DEF Same, GetStays, PutStays
<1>1. CASE sent'[r] = sent[r] /\ got'[r] = got[r]
  BY Zenon, <1>1 DEF Sequenced
<1>2. ASSUME NEW s, NEW u, NEW v, s \in Seq(Payloads), v \in Payloads, u = Append(s, v), v = Len(s) + 1,
             \A j \in 1 .. Len(s) : s[j] = j
      PROVE  \A j \in 1 .. Len(u) : u[j] = j
  <2>1. Len(s) \in Nat /\ Len(u) = Len(s) + 1
    BY <1>2
  <2>2. u[Len(s) + 1] = v /\ \A j \in 1 .. Len(s) : u[j] = s[j]
    BY <1>2
  <2> QED BY <1>2, <2>1, <2>2
<1>3. CASE PutPublishes(r)
  <2>1. sent'[r] = Append(sent[r], Carried(r)) /\ got'[r] = got[r] /\ Putting(r) # "out"
    BY Zenon, <1>3 DEF PutPublishes
  <2>2. sent[r] \in Seq(Payloads) /\ given[r] \in Seq(Nat)
    BY Zenon DEF RingTypes
  <2>3. Carried(r) = Len(given[r]) /\ Len(sent[r]) = Len(given[r]) - 1
    BY Zenon, <2>1 DEF Numbered, Counted
  <2>4. Carried(r) \in Payloads /\ Carried(r) = Len(sent[r]) + 1
    BY <2>2, <2>3 DEF Payloads
  <2>5. \A j \in 1 .. Len(sent'[r]) : sent'[r][j] = j
    BY Zenon, <1>2, <2>1, <2>2, <2>4 DEF Sequenced
  <2> QED BY Zenon, <2>1, <2>5 DEF Sequenced
<1>4. ASSUME NEW v \in Payloads, GetMoves(r, v)
      PROVE  Sequenced(r)'
  <2>1. got'[r] = Append(got[r], data[r][lastRead[r]]) /\ sent'[r] = sent[r] /\ Getting(r) = "deqMove"
    BY Zenon, <1>4 DEF GetMoves
  <2>2. got[r] \in Seq(Payloads) /\ data[r][lastRead[r]] \in Payloads /\ begun[r] \in Nat
        /\ Len(sent[r]) \in Nat
    BY DEF RingTypes
  <2>3. /\ Len(got[r]) = begun[r] - 1 /\ begun[r] <= Len(sent[r])
        /\ lastRead[r] = begun[r] % BUFFER_SIZE[r]
    BY Zenon, <2>1 DEF Counted
  <2>4. \A k \in Len(got[r]) + 1 .. Len(sent[r]) : data[r][k % BUFFER_SIZE[r]] = k
    BY Zenon DEF Placed, Fits
  <2>5. begun[r] \in Len(got[r]) + 1 .. Len(sent[r])
    BY <2>2, <2>3
  <2>6. data[r][lastRead[r]] = begun[r]
    BY Zenon, <2>3, <2>4, <2>5
  <2>7. data[r][lastRead[r]] = Len(got[r]) + 1
    BY <2>2, <2>3, <2>6
  <2>8. \A j \in 1 .. Len(got'[r]) : got'[r][j] = j
    BY Zenon, <1>2, <2>1, <2>2, <2>7 DEF Sequenced
  <2> QED BY Zenon, <2>1, <2>8 DEF Sequenced
<1>5. ASSUME NEW v \in Payloads PROVE ~PutThrows(r, v) /\ ~GetThrows(r, v)
  BY Zenon DEF PutThrows, GetThrows
<1> QED BY Zenon, <1>1, <1>3, <1>4, <1>5 DEF RingStep, PutBegins, PutEnters, PutWrites, GetBegins, GetEnters,
                                    GetReleases

LEMMA PlacedStep ==
  ASSUME NEW r \in Rings, RingTypes(r), Held(r), Numbered(r), Counted(r), Placed(r), RingStep(r),
         thrown'[r] = {}
  PROVE  Placed(r)'
<1> USE DEF Same, GetStays, PutStays
<1>1. PICK n \in Nat : n > 0 /\ n = BUFFER_SIZE[r] /\ Slots(r) = 0 .. n - 1
  BY Zenon, RingNumbers DEF RingTypes
<1>2. PICK g \in Nat, s \in Nat, m \in Nat, b \in Nat :
        g = Len(given[r]) /\ s = Len(sent[r]) /\ m = Len(got[r]) /\ b = begun[r]
  BY Zenon, RingNumbers
<1>3. /\ s = g - (IF Putting(r) = "out" THEN 0 ELSE 1)
      /\ m = b - (IF Getting(r) \in {"deqSpin", "deqMove"} THEN 1 ELSE 0)
      /\ m <= s /\ (Getting(r) # "out" => b >= 1)
      /\ Getting(r) \in {"deqMove", "deqRelease"} => b <= s
  BY Zenon, <1>1, <1>2 DEF Counted
<1>c. lastWritten[r] = g % n /\ lastRead[r] = b % n
  BY Zenon, <1>1, <1>2 DEF Counted
<1>4. PICK e \in Nat : e = Released(r) /\ e = IF Getting(r) = "out" THEN b ELSE b - 1
  BY <1>2, <1>3 DEF Released
<1>5. s <= e + n
  BY Zenon, <1>1, <1>2, <1>4 DEF Counted
<1>p. /\ \A k \in e + 1 .. s : ticket[r][k % n] = 1
      /\ \A i \in Slots(r) : ticket[r][i] = 1 => \E k \in e + 1 .. s : k % n = i
      /\ \A k \in m + 1 .. s : data[r][k % n] = k
  BY Zenon, <1>1, <1>2, <1>4 DEF Placed, Fits
<1>r. Released(r)' = IF Getting(r)' = "out" THEN begun'[r] ELSE begun'[r] - 1
  BY Zenon DEF Released
<1>q. ASSUME NEW d \in Nat, NEW u \in Nat, NEW o \in Nat,
             d = Released(r)', u = Len(sent'[r]), o = Len(got'[r]),
             Fits(n, d, u, o, ticket'[r], data'[r])
      PROVE  Placed(r)'
  BY Zenon, <1>1, <1>q DEF Placed
<1>t. /\ ticket[r] \in [Slots(r) -> {0, 1}] /\ data[r] \in [Slots(r) -> Payloads]
      /\ lastWritten[r] \in Slots(r) /\ lastRead[r] \in Slots(r)
  BY Zenon DEF RingTypes
<1>m. \A k \in Nat : k % n \in Slots(r)
  BY Zenon, <1>1, DivMod
<1>6. CASE /\ sent'[r] = sent[r] /\ got'[r] = got[r] /\ ticket'[r] = ticket[r] /\ data'[r] = data[r]
           /\ Released(r)' = Released(r)
  BY Zenon, <1>1, <1>6 DEF Placed
<1>7. CASE \/ PutBegins(r) /\ Carried(r)' = Len(given[r]) + 1
           \/ PutEnters(r) \/ GetBegins(r) \/ GetEnters(r)
  <2>1. \/ Getting(r)' = Getting(r) /\ begun'[r] = b
        \/ Getting(r) = "out" /\ Getting(r)' = "deqSpin" /\ begun'[r] = b + 1
        \/ Getting(r) = "deqSpin" /\ Getting(r)' = "deqMove" /\ begun'[r] = b
    BY Zenon, <1>2, <1>7 DEF PutBegins, PutEnters, GetBegins, GetEnters
  <2>2. Released(r)' = Released(r)
    BY <1>2, <1>4, <1>r, <2>1
  <2> QED BY Zenon, <1>6, <1>7, <2>2 DEF PutBegins, PutEnters, GetBegins, GetEnters
<1>8. ASSUME NEW v \in Payloads, PutWrites(r, v)
      PROVE  Placed(r)'
  <2>1. /\ Released(r)' = Released(r) /\ sent'[r] = sent[r] /\ got'[r] = got[r]
        /\ ticket'[r] = ticket[r] /\ data'[r] = [data[r] EXCEPT ![lastWritten[r]] = v]
        /\ ticket[r][lastWritten[r]] = 0
    BY ZenonT(30), <1>8, <1>r, <1>4, <1>2 DEF PutWrites, Held
  <2>2. ASSUME NEW k \in m + 1 .. s PROVE data'[r][k % n] = k
    <3>1. k \in e + 1 .. s /\ k \in Nat
      BY <1>3, <1>4
    <3>2. ticket[r][k % n] = 1 /\ k % n \in Slots(r) /\ data[r][k % n] = k
      BY Zenon, <1>p, <1>m, <3>1
    <3>z. 0 # 1
      OBVIOUS
    <3>3. lastWritten[r] # k % n
      BY Zenon, <2>1, <3>2, <3>z
    <3> QED BY Zenon, <1>t, <2>1, <3>2, <3>3
  <2>3. Fits(n, e, s, m, ticket'[r], data'[r])
    BY Zenon, <1>1, <1>p, <2>1, <2>2 DEF Fits
  <2> QED BY Zenon, <1>2, <1>4, <1>q, <2>1, <2>3
<1>9. CASE PutPublishes(r)
  <2>1. /\ Released(r)' = e /\ got'[r] = got[r] /\ data'[r] = data[r]
        /\ ticket'[r] = [ticket[r] EXCEPT ![g % n] = 1] /\ Putting(r) = "enqPublish"
    BY Zenon, <1>9, <1>r, <1>4, <1>2, <1>c DEF PutPublishes
  <2>2. Len(sent'[r]) = s + 1 /\ s + 1 = g
    <3>1. Len(sent'[r]) = s + 1
      BY Zenon, <1>2, <1>9, PublishedLen
    <3>2. s = g - (IF Putting(r) = "out" THEN 0 ELSE 1) /\ Putting(r) # "out"
      BY Zenon, <1>3, <2>1
    <3> QED BY <3>1, <3>2
  <2>3. data[r][g % n] = g
    BY Zenon, <1>2, <1>c, <2>1 DEF Numbered
  <2>4. ASSUME NEW k \in e + 1 .. g PROVE ticket'[r][k % n] = 1
    <3>0. k \in Nat /\ (k = g \/ k \in e + 1 .. s)
      BY <2>2
    <3>1. k % n \in Slots(r)
      BY Zenon, <1>m, <3>0
    <3>2. CASE k = g
      BY Zenon, <1>t, <2>1, <3>1, <3>2
    <3>3. CASE k \in e + 1 .. s
      <4>1. ticket[r][k % n] = 1
        BY Zenon, <1>p, <3>3
      <4> QED BY Zenon, <1>t, <2>1, <3>1, <4>1
    <3> QED BY Zenon, <3>0, <3>2, <3>3
  <2>5. ASSUME NEW i \in Slots(r), ticket'[r][i] = 1 PROVE \E k \in e + 1 .. g : k % n = i
    <3>1. CASE i = g % n
      <4>1. g \in e + 1 .. g
        BY <1>3, <1>4, <2>2
      <4> QED BY Zenon, <3>1, <4>1
    <3>2. CASE i # g % n
      <4>1. ticket[r][i] = 1
        BY Zenon, <1>t, <2>1, <2>5, <3>2
      <4>2. PICK k \in e + 1 .. s : k % n = i
        BY Zenon, <1>p, <4>1
      <4>3. k \in e + 1 .. g
        BY <2>2
      <4> QED BY Zenon, <4>2, <4>3
    <3> QED BY Zenon, <3>1, <3>2
  <2>6. ASSUME NEW k \in m + 1 .. g PROVE data'[r][k % n] = k
    <3>1. k = g \/ k \in m + 1 .. s
      BY <2>2
    <3> QED BY Zenon, <1>p, <2>1, <2>3, <3>1
  <2>7. Fits(n, e, g, m, ticket'[r], data'[r])
    BY Zenon, <1>1, <2>4, <2>5, <2>6 DEF Fits
  <2> QED BY Zenon, <1>2, <1>q, <2>1, <2>2, <2>7
<1>10. ASSUME NEW v \in Payloads PROVE ~PutThrows(r, v) /\ ~GetThrows(r, v)
  BY Zenon DEF PutThrows, GetThrows
<1>11. ASSUME NEW v \in Payloads, GetMoves(r, v)
       PROVE  Placed(r)'
  <2>1. /\ Getting(r) = "deqMove" /\ Getting(r)' = "deqRelease" /\ begun'[r] = begun[r]
        /\ ticket'[r] = ticket[r] /\ data'[r] = [data[r] EXCEPT ![lastRead[r]] = v]
        /\ sent'[r] = sent[r] /\ got'[r] = Append(got[r], data[r][lastRead[r]])
    BY ZenonT(30), <1>11 DEF GetMoves
  <2>2. Released(r)' = e /\ Len(got'[r]) = b /\ b = e + 1
    <3>1. Len(got'[r]) = m + 1
      BY Zenon, <1>2, <1>11, MovedLen
    <3>2. e = b - 1 /\ m = b - 1
      BY Zenon, <1>3, <1>4, <2>1
    <3>3. Released(r)' = b - 1
      BY Zenon, <1>2, <1>r, <2>1
    <3> QED BY <3>1, <3>2, <3>3
  <2>3. ASSUME NEW k \in b + 1 .. s PROVE data'[r][k % n] = k
    <3>1. k \in m + 1 .. s /\ k \in Nat /\ b < k /\ k - b < n
      <4>1. m = e /\ b = e + 1
        BY <1>3, <2>1, <2>2
      <4> QED BY <1>5, <4>1
    <3>n. b % n # k % n
      BY Zenon, <1>1, <3>1, ModNear
    <3>2. b % n # k % n /\ k % n \in Slots(r) /\ data[r][k % n] = k
      BY Zenon, <1>m, <1>p, <3>1, <3>n
    <3> QED BY ZenonT(30), <1>c, <1>t, <2>1, <3>2
  <2>4. Fits(n, e, s, b, ticket'[r], data'[r])
    BY Zenon, <1>1, <1>p, <2>1, <2>3 DEF Fits
  <2> QED BY ZenonT(30), <1>2, <1>q, <2>1, <2>2, <2>4
<1>12. CASE GetReleases(r)
  <2>1. /\ Getting(r) = "deqRelease" /\ Getting(r)' = "out" /\ begun'[r] = begun[r]
        /\ ticket'[r] = [ticket[r] EXCEPT ![b % n] = 0] /\ data'[r] = data[r]
        /\ sent'[r] = sent[r] /\ got'[r] = got[r]
    BY Zenon, <1>12, <1>c DEF GetReleases
  <2>2. Released(r)' = b /\ b = e + 1
    <3>1. e = b - 1
      BY Zenon, <1>4, <2>1
    <3>2. Released(r)' = b
      BY Zenon, <1>2, <1>r, <2>1
    <3> QED BY <3>1, <3>2
  <2>3. ASSUME NEW k \in b + 1 .. s PROVE ticket'[r][k % n] = 1
    <3>1. k \in e + 1 .. s /\ k \in Nat /\ b < k /\ k - b < n
      BY <1>5, <2>2
    <3>n. b % n # k % n
      BY Zenon, <1>1, <3>1, ModNear
    <3>2. b % n # k % n /\ k % n \in Slots(r) /\ ticket[r][k % n] = 1
      BY Zenon, <1>m, <1>p, <3>1, <3>n
    <3> QED BY Zenon, <1>t, <2>1, <3>2
  <2>4. ASSUME NEW i \in Slots(r), ticket'[r][i] = 1 PROVE \E k \in b + 1 .. s : k % n = i
    <3>1. i # b % n /\ ticket[r][i] = 1
      <4>1. ticket'[r] = [ticket[r] EXCEPT ![b % n] = 0] /\ DOMAIN ticket[r] = Slots(r)
        BY Zenon, <1>t, <2>1
      <4> QED BY <2>4, <4>1
    <3>2. PICK k \in e + 1 .. s : k % n = i
      BY Zenon, <1>p, <3>1
    <3>3. k \in b + 1 .. s
      BY <2>2, <3>1, <3>2
    <3> QED BY Zenon, <3>2, <3>3
  <2>5. Fits(n, b, s, m, ticket'[r], data'[r])
    BY Zenon, <1>1, <1>p, <2>1, <2>3, <2>4 DEF Fits
  <2> QED BY Zenon, <1>2, <1>q, <2>1, <2>2, <2>5
<1> QED BY Zenon, <1>7, <1>8, <1>9, <1>10, <1>11, <1>12 DEF RingStep

LEMMA OrderedStep ==
  ASSUME NEW r \in Rings, RingTypes(r), Held(r), Numbered(r), Ordered(r), RingStep(r)
  PROVE  Ordered(r)'
<1> SUFFICES ASSUME thrown'[r] = {} PROVE Counted(r)' /\ Sequenced(r)' /\ Placed(r)'
  BY Zenon DEF Ordered
<1>1. thrown[r] = {}
  BY Zenon DEF RingStep, PutBegins, PutEnters, PutPublishes, PutWrites, PutThrows, GetMoves, GetThrows,
         GetBegins, GetEnters, GetReleases, Same
<1>2. Counted(r) /\ Sequenced(r) /\ Placed(r)
  BY Zenon, <1>1 DEF Ordered
<1> QED BY Zenon, <1>2, CountedStep, SequencedStep, PlacedStep

-----------------------------------------------------------------------------

-----------------------------------------------------------------------------
(* The two queues of pingPong.                                             *)

LEMMA EndsOut ==
  ASSUME NEW t \in Threads, pc[t] = "idle", NEW r \in Rings
  PROVE  (t = Producer[r] => Putting(r) = "out") /\ (t = Consumer[r] => Getting(r) = "out")
BY Zenon DEF Putting, Getting, Enqueuing, Dequeuing

LEMMA PingPongCall ==
  ASSUME Types, Roles, RoundTrip, NEW t \in Threads, PingPong(t)
  PROVE  RoundTrip'
<1>1. /\ Req \in Rings /\ Rep \in Rings /\ Req # Rep /\ Producer[Rep] = Consumer[Req]
      /\ Consumer[Rep] = Producer[Req] /\ Producer[Req] # Consumer[Req]
      /\ Producer[Req] \in Threads /\ Consumer[Req] \in Threads
  BY Zenon, PingPongAssumption, SpscAssumption
<1>0. given[Req] \in Seq(Nat) /\ given[Rep] \in Seq(Nat) /\ begun[Req] \in Nat /\ begun[Rep] \in Nat
  BY Zenon, <1>1, TypesOfRing DEF RingTypes
<1>2. PICK a \in Nat, b \in Nat, c \in Nat, d \in Nat :
        a = Len(given[Req]) /\ b = begun[Rep] /\ c = begun[Req] /\ d = Len(given[Rep])
  BY <1>0
<1>3. /\ \A r \in Rings : thrown[r] = {}
      /\ \A r \in Rings \ {Req, Rep} : Putting(r) = "out" /\ Getting(r) = "out"
      /\ a \in {b, b + 1} /\ c \in {d, d + 1}
      /\ (Putting(Req) # "out" => a = b + 1) /\ (Getting(Rep) # "out" => a = b)
      /\ (Getting(Req) # "out" => c = d + 1) /\ (Putting(Rep) # "out" => c = d)
      /\ (c = d + 1 /\ Getting(Req) \in {"out", "deqRelease"} => Carried(Rep) = c)
  BY Zenon, <1>2 DEF RoundTrip
<1>4. ASSUME NEW x \in Nat, NEW y \in Nat, NEW z \in Nat, NEW w \in Nat,
             x = Len(given'[Req]), y = begun'[Rep], z = begun'[Req], w = Len(given'[Rep]),
             \A r \in Rings : thrown'[r] = {},
             \A r \in Rings \ {Req, Rep} : Putting(r)' = "out" /\ Getting(r)' = "out",
             x \in {y, y + 1}, z \in {w, w + 1},
             Putting(Req)' # "out" => x = y + 1, Getting(Rep)' # "out" => x = y,
             Getting(Req)' # "out" => z = w + 1, Putting(Rep)' # "out" => z = w,
             z = w + 1 /\ Getting(Req)' \in {"out", "deqRelease"} => Carried(Rep)' = z
      PROVE  RoundTrip'
  BY Zenon, <1>4 DEF RoundTrip
<1>5. given \in [Rings -> Seq(Nat)] /\ call \in [Threads -> [ring : Rings,
        form : {"none", "enqueue", "emplace", "dequeue"}, val : Payloads]]
  BY Zenon DEF Types
<1>6. ASSUME NEW r \in Rings, NEW v, EnqueueBegin(t, r, "enqueue", v)
      PROVE  /\ PutBegins(r) /\ Elsewhere(r) /\ t = Producer[r] /\ pc[t] = "idle"
             /\ Len(given'[r]) = Len(given[r]) + 1 /\ (\A x \in Rings \ {r} : given'[x] = given[x])
             /\ UNCHANGED <<begun, thrown>>
             /\ \A u \in Threads \ {t} : call'[u] = call[u]
  <2>1. /\ PutBegins(r) /\ Elsewhere(r) /\ t = Producer[r]
        /\ \A x \in Rings \ {r} : given'[x] = given[x]
    BY Zenon, <1>6, EnqueueEffect
  <2>2. /\ pc[t] = "idle" /\ UNCHANGED <<begun, thrown>>
        /\ given' = [given EXCEPT ![r] = Append(given[r], v)]
        /\ call' = [call EXCEPT ![t] = [ring |-> r, form |-> "enqueue", val |-> v]]
    BY Zenon, <1>6 DEF EnqueueBegin, Step
  <2>3. Len(given'[r]) = Len(given[r]) + 1
    <3>1. given'[r] = Append(given[r], v) /\ given[r] \in Seq(Nat)
      BY Zenon, <1>5, <2>2
    <3> QED BY <3>1
  <2>4. \A u \in Threads \ {t} : call'[u] = call[u]
    BY Zenon, <1>5, <2>2
  <2> QED BY Zenon, <2>1, <2>2, <2>3, <2>4
<1>7. ASSUME NEW r \in Rings, DequeueBegin(t, r)
      PROVE  /\ GetBegins(r) /\ Elsewhere(r) /\ t = Consumer[r] /\ pc[t] = "idle"
             /\ begun'[r] = begun[r] + 1 /\ (\A x \in Rings \ {r} : begun'[x] = begun[x])
             /\ UNCHANGED <<given, thrown>>
             /\ \A u \in Threads \ {t} : call'[u] = call[u]
  <2>1. /\ GetBegins(r) /\ Elsewhere(r) /\ t = Consumer[r]
        /\ \A x \in Rings \ {r} : begun'[x] = begun[x]
    BY Zenon, <1>7, DequeueEffect
  <2>2. /\ pc[t] = "idle" /\ UNCHANGED <<given, thrown>>
        /\ call' = [call EXCEPT ![t] = [ring |-> r, form |-> "dequeue", val |-> Junk]]
    BY Zenon, <1>7 DEF DequeueBegin, Step
  <2>4. \A u \in Threads \ {t} : call'[u] = call[u]
    BY Zenon, <1>5, <2>2
  <2> QED BY Zenon, <2>1, <2>2, <2>4 DEF GetBegins
<1>8. CASE a = b /\ EnqueueBegin(t, Req, "enqueue", Len(given[Req]) + 1)
  <2>1. /\ PutBegins(Req) /\ Elsewhere(Req) /\ t = Producer[Req] /\ pc[t] = "idle"
        /\ Len(given'[Req]) = a + 1 /\ Len(given'[Rep]) = d /\ begun'[Req] = c /\ begun'[Rep] = b
        /\ thrown' = thrown /\ Carried(Rep)' = Carried(Rep)
    BY Zenon, <1>1, <1>2, <1>6, <1>8 DEF Carried
  <2>2. Getting(Rep) = "out"
    BY Zenon, <1>1, <2>1, EndsOut
  <2>3. /\ Getting(Req)' = Getting(Req)
        /\ \A x \in Rings \ {Req} : Putting(x)' = Putting(x) /\ Getting(x)' = Getting(x)
    BY Zenon, <2>1 DEF PutBegins, GetStays, Elsewhere, Untouched
  <2> QED BY <1>1, <1>3, <1>4, <1>8, <2>1, <2>2, <2>3
<1>9. CASE a > b /\ DequeueBegin(t, Rep)
  <2>1. /\ GetBegins(Rep) /\ Elsewhere(Rep) /\ t = Consumer[Rep] /\ pc[t] = "idle"
        /\ Len(given'[Req]) = a /\ Len(given'[Rep]) = d /\ begun'[Req] = c /\ begun'[Rep] = b + 1
        /\ thrown' = thrown /\ Carried(Rep)' = Carried(Rep)
    BY Zenon, <1>1, <1>2, <1>7, <1>9 DEF Carried
  <2>2. Putting(Req) = "out"
    BY Zenon, <1>1, <2>1, EndsOut
  <2>3. /\ Putting(Rep)' = Putting(Rep)
        /\ \A x \in Rings \ {Rep} : Putting(x)' = Putting(x) /\ Getting(x)' = Getting(x)
    BY Zenon, <2>1 DEF GetBegins, PutStays, Elsewhere, Untouched
  <2> QED BY <1>1, <1>3, <1>4, <1>9, <2>1, <2>2, <2>3
<1>10. CASE c = d /\ DequeueBegin(t, Req)
  <2>1. /\ GetBegins(Req) /\ Elsewhere(Req) /\ t = Consumer[Req] /\ pc[t] = "idle"
        /\ Len(given'[Req]) = a /\ Len(given'[Rep]) = d /\ begun'[Req] = c + 1 /\ begun'[Rep] = b
        /\ thrown' = thrown
    BY Zenon, <1>1, <1>2, <1>7, <1>10
  <2>2. Putting(Rep) = "out"
    BY Zenon, <1>1, <2>1, EndsOut
  <2>3. /\ Putting(Req)' = Putting(Req) /\ Getting(Req)' = "deqSpin"
        /\ \A x \in Rings \ {Req} : Putting(x)' = Putting(x) /\ Getting(x)' = Getting(x)
    BY Zenon, <2>1 DEF GetBegins, PutStays, Elsewhere, Untouched
  <2> QED BY <1>1, <1>3, <1>4, <1>10, <2>1, <2>2, <2>3
<1>11. CASE c > d /\ EnqueueBegin(t, Rep, "enqueue", call[t].val)
  <2>1. /\ PutBegins(Rep) /\ Elsewhere(Rep) /\ t = Producer[Rep] /\ pc[t] = "idle"
        /\ Len(given'[Req]) = a /\ Len(given'[Rep]) = d + 1 /\ begun'[Req] = c /\ begun'[Rep] = b
        /\ thrown' = thrown
    BY Zenon, <1>1, <1>2, <1>6, <1>11
  <2>2. Getting(Req) = "out"
    BY Zenon, <1>1, <2>1, EndsOut
  <2>3. /\ Getting(Rep)' = Getting(Rep)
        /\ \A x \in Rings \ {Rep} : Putting(x)' = Putting(x) /\ Getting(x)' = Getting(x)
    BY Zenon, <2>1 DEF PutBegins, GetStays, Elsewhere, Untouched
  <2> QED BY <1>1, <1>3, <1>4, <1>11, <2>1, <2>2, <2>3
<1> QED BY Zenon, <1>2, <1>8, <1>9, <1>10, <1>11 DEF PingPong

\* The payload a dequeue moves out is the next in order.
LEMMA MovesNext ==
  ASSUME Types, NEW r \in Rings, Ordered(r), thrown[r] = {}, NEW v, GetMoves(r, v)
  PROVE  call'[Consumer[r]].val = begun[r]
<1>1. Getting(r) = "deqMove" /\ call'[Consumer[r]].val = data[r][lastRead[r]]
  BY Zenon DEF GetMoves
<1>2. Counted(r) /\ Placed(r)
  BY Zenon DEF Ordered
<1>3. /\ Len(got[r]) = begun[r] - 1 /\ begun[r] <= Len(sent[r])
      /\ lastRead[r] = begun[r] % BUFFER_SIZE[r]
  BY Zenon, <1>1, <1>2 DEF Counted
<1>4. \A k \in Len(got[r]) + 1 .. Len(sent[r]) : data[r][k % BUFFER_SIZE[r]] = k
  BY Zenon, <1>2 DEF Placed, Fits
<1>5. begun[r] \in Nat /\ Len(sent[r]) \in Nat
  BY Zenon, Lengths
<1>6. begun[r] \in Len(got[r]) + 1 .. Len(sent[r])
  BY <1>3, <1>5
<1> QED BY Zenon, <1>1, <1>3, <1>4, <1>6

LEMMA PingPongContinue ==
  ASSUME Types, Roles, RoundTrip, Ordered(Req), NEW t \in Threads, Continue(t)
  PROVE  RoundTrip'
<1>1. /\ Req \in Rings /\ Rep \in Rings /\ Req # Rep /\ Producer[Rep] = Consumer[Req]
      /\ Consumer[Rep] = Producer[Req] /\ Producer[Req] # Consumer[Req]
      /\ Producer[Req] \in Threads /\ Consumer[Req] \in Threads
  BY Zenon, PingPongAssumption, SpscAssumption
<1>2. PICK r \in Rings : r = call[t].ring
  BY Zenon DEF Types
<1>3. RingStep(r) /\ Elsewhere(r) /\ UNCHANGED <<lastWritten, lastRead, given, begun>>
  BY Zenon, <1>2, ContinueEffect
<1>4. UNCHANGED thrown
  BY Zenon DEF Continue, EnqueueEnterSlot, EnqueueWrite, EmplaceDestroy, EmplaceConstruct,
         EnqueuePublish, DequeueEnterSlot, DequeueMove, DequeueRelease, hist
<1>5. UNCHANGED call \/ \E v : pc[t] = "deqMove" /\ call' = [call EXCEPT ![t].val = v]
  BY Zenon DEF Continue, Step, EnqueueEnterSlot, EnqueueWrite, EmplaceDestroy, EmplaceConstruct,
         EnqueuePublish, DequeueEnterSlot, DequeueMove, DequeueRelease
<1>6. /\ ~PutBegins(r) /\ ~GetBegins(r)
  <2>1. given[r] \in Seq(Nat) /\ begun[r] \in Nat
    BY Zenon DEF Types
  <2>2. \A v : Len(Append(given[r], v)) # Len(given[r])
    BY <2>1
  <2> QED BY <1>3, <2>1, <2>2 DEF PutBegins, GetBegins
<1>7. ASSUME NEW x \in Rings
      PROVE  (Putting(x)' # "out" => Putting(x) # "out") /\ (Getting(x)' # "out" => Getting(x) # "out")
  <2>1. CASE x # r
    BY Zenon, <1>3, <2>1 DEF Elsewhere, Untouched
  <2>2. CASE x = r
    BY Zenon, <1>3, <1>6, <2>2 DEF RingStep, PutEnters, PutWrites, PutPublishes, PutThrows, GetEnters, GetMoves,
                           GetReleases, GetThrows, GetStays, PutStays, Inside
  <2> QED BY Zenon, <2>1, <2>2
<1>8. ASSUME begun[Req] = Len(given[Rep]) + 1, Getting(Req)' \in {"out", "deqRelease"}
      PROVE  Carried(Rep)' = begun[Req]
  <2>1. CASE \E v \in Payloads : GetMoves(Req, v)
    <3>1. thrown[Req] = {}
      BY Zenon, <1>1 DEF RoundTrip
    <3> QED BY Zenon, <1>1, <2>1, <3>1, MovesNext DEF Carried
  <2>2. CASE ~\E v \in Payloads : GetMoves(Req, v)
    <3>1. Getting(Req) \in {"out", "deqRelease"}
      <4>1. CASE r # Req
        BY Zenon, <1>1, <1>3, <1>8, <4>1 DEF Elsewhere, Untouched
      <4>2. CASE r = Req
        <5>1. ASSUME NEW v PROVE ~GetThrows(Req, v) /\ ~PutThrows(Req, v)
          BY Zenon, <1>1, <1>4 DEF GetThrows, PutThrows, RoundTrip
        <5> QED BY Zenon, <1>3, <1>6, <1>8, <2>2, <4>2, <5>1 DEF RingStep, PutEnters, PutWrites, PutPublishes,
                   GetEnters, GetReleases, GetStays
      <4> QED BY Zenon, <4>1, <4>2
    <3>2. Carried(Rep) = begun[Req]
      BY Zenon, <1>8, <3>1 DEF RoundTrip
    <3>3. call'[Consumer[Req]].val = call[Consumer[Req]].val
      <4>1. CASE UNCHANGED call
        BY Zenon, <4>1
      <4>2. ASSUME NEW v, pc[t] = "deqMove", call' = [call EXCEPT ![t].val = v]
            PROVE  call'[Consumer[Req]].val = call[Consumer[Req]].val
        <5>1. t = Consumer[r] /\ Getting(r) = "deqMove"
          BY Zenon, <1>2, <4>2 DEF Roles, Getting, Dequeuing
        <5>2. r = Rep
          BY Zenon, <1>1, <3>1, <5>1 DEF RoundTrip
        <5>3. t # Consumer[Req]
          BY Zenon, <1>1, <5>1, <5>2
        <5> QED BY Zenon, <1>1, <4>2, <5>3 DEF Types
      <4> QED BY Zenon, <1>5, <4>1, <4>2
    <3> QED BY Zenon, <1>1, <3>2, <3>3 DEF Carried
  <2> QED BY Zenon, <2>1, <2>2
<1> QED BY Zenon, <1>1, <1>3, <1>4, <1>7, <1>8 DEF RoundTrip

LEMMA AlternatesStep ==
  ASSUME Types, Roles, Alternates, Ordered(Req), [Next]_vars
  PROVE  Alternates'
<1>1. CASE UNCHANGED vars
  BY Zenon, <1>1 DEF vars, rvars, ring, hist, Alternates, RoundTrip, Putting, Getting, Carried, Enqueuing, Dequeuing
<1>2. CASE Next
  <2> SUFFICES ASSUME program' = "pingPong" PROVE RoundTrip'
    BY Zenon DEF Alternates
  <2>1. program = "pingPong" /\ RoundTrip
    BY Zenon, <1>2 DEF Next, Alternates
  <2>2. \E t \in Threads : Continue(t) \/ PingPong(t)
    BY Zenon, <1>2, <2>1 DEF Next, BenchCall
  <2> QED BY Zenon, <2>1, <2>2, PingPongCall, PingPongContinue
<1> QED BY Zenon, <1>1, <1>2

-----------------------------------------------------------------------------
(* The invariant and what follows from it.                                 *)

LEMMA InitQueueInv == Init => QueueInv
<1> SUFFICES ASSUME Init PROVE QueueInv
  BY Zenon
<1>1. /\ ticket = [r \in Rings |-> [i \in Slots(r) |-> 0]]
      /\ data = [r \in Rings |-> [i \in Slots(r) |-> Junk]]
      /\ lastWritten = [r \in Rings |-> 0] /\ lastRead = [r \in Rings |-> 0]
      /\ pc = [t \in Threads |-> "idle"] /\ call = [t \in Threads |-> NoCall]
      /\ given = [r \in Rings |-> <<>>] /\ sent = [r \in Rings |-> <<>>]
      /\ got = [r \in Rings |-> <<>>] /\ begun = [r \in Rings |-> 0]
      /\ thrown = [r \in Rings |-> {}] /\ target \in Rings
  BY Zenon, PingPongAssumption DEF Init, RingInit
<1>2. NoCall \in [ring : Rings, form : {"none", "enqueue", "emplace", "dequeue"}, val : Payloads]
  <2>1. (CHOOSE r \in Rings : TRUE) \in Rings
    BY Zenon, PingPongAssumption
  <2> QED BY Zenon, <2>1 DEF NoCall, Payloads
<1>3. Types
  <2>1. \A r \in Rings : 0 \in Slots(r)
    <3> TAKE r \in Rings
    <3>1. BUFFER_SIZE[r] \in Nat \ {0}
      BY Zenon, SpscAssumption
    <3> QED BY <3>1 DEF Slots
  <2>2. \A r \in Rings : ticket[r] \in [Slots(r) -> {0, 1}] /\ data[r] \in [Slots(r) -> Payloads]
    BY Zenon, <1>1 DEF Payloads
  <2>3. <<>> \in Seq(Nat) /\ <<>> \in Seq(Payloads)
    OBVIOUS
  <2>4. DOMAIN ticket = Rings /\ DOMAIN data = Rings
    BY Zenon, <1>1
  <2> QED BY Zenon, <1>1, <1>2, <2>1, <2>2, <2>3, <2>4 DEF Types
<1>4. Roles
  BY Zenon, <1>1 DEF Roles
<1>5. ASSUME NEW r \in Rings
      PROVE  /\ Putting(r) = "out" /\ Getting(r) = "out" /\ given[r] = <<>> /\ sent[r] = <<>>
             /\ got[r] = <<>> /\ begun[r] = 0 /\ thrown[r] = {} /\ lastWritten[r] = 0 /\ lastRead[r] = 0
             /\ \A i \in Slots(r) : ticket[r][i] = 0
  BY Zenon, <1>1, SpscAssumption DEF Putting, Getting, Enqueuing, Dequeuing
<1>6. Alternates
  BY <1>5, PingPongAssumption DEF Alternates, RoundTrip
<1>7. ASSUME NEW r \in Rings PROVE Held(r) /\ Numbered(r) /\ Intact(r) /\ Ordered(r)
  <2>1. Elements(<<>>) = {} /\ Len(<<>>) = 0
    BY DEF Elements
  <2>2. Held(r)
    BY Zenon, <1>5, <1>7 DEF Held, Inside
  <2>3. Numbered(r)
    BY <1>5, <1>7, <2>1 DEF Numbered
  <2>4. Pending(r) = {}
    BY Zenon, <1>5, <1>7 DEF Pending
  <2>5. Intact(r)
    BY Zenon, <1>5, <1>7, <2>1, <2>4 DEF Intact
  <2>6. PICK n \in Nat : n > 0 /\ n = BUFFER_SIZE[r]
    BY <1>7, SpscAssumption
  <2>7. 0 % n = 0
    BY <2>6
  <2>8. Counted(r)
    <3>1. /\ Putting(r) = "out" /\ Getting(r) = "out" /\ Len(given[r]) = 0 /\ Len(sent[r]) = 0
          /\ Len(got[r]) = 0 /\ begun[r] = 0 /\ lastWritten[r] = 0 /\ lastRead[r] = 0
      BY Zenon, <1>5, <1>7, <2>1
    <3>2. /\ lastWritten[r] = Len(given[r]) % BUFFER_SIZE[r] /\ lastRead[r] = begun[r] % BUFFER_SIZE[r]
          /\ Len(sent[r]) = Len(given[r]) - 0 /\ Len(got[r]) = begun[r] - 0
          /\ Len(got[r]) <= Len(sent[r])
      BY <2>6, <2>7, <3>1
    <3>3. Released(r) = 0
      BY Zenon, <3>1 DEF Released
    <3>4. Len(sent[r]) <= Released(r) + BUFFER_SIZE[r]
      BY <2>6, <3>1, <3>3
    <3>5. Putting(r) = "out" /\ Getting(r) = "out"
      BY Zenon, <3>1
    <3> QED BY Zenon, <3>2, <3>4, <3>5 DEF Counted
  <2>9. Sequenced(r)
    BY <1>5, <1>7, <2>1 DEF Sequenced
  <2>10. Placed(r)
    <3>1. Released(r) = 0 /\ Len(sent[r]) = 0 /\ Len(got[r]) = 0 /\ \A i \in 0 .. n - 1 : ticket[r][i] = 0
      BY Zenon, <1>5, <1>7, <2>1, <2>6 DEF Released, Slots
    <3>2. Fits(n, 0, 0, 0, ticket[r], data[r])
      BY <3>1 DEF Fits
    <3> QED BY Zenon, <2>6, <3>1, <3>2 DEF Placed
  <2> QED BY Zenon, <2>2, <2>3, <2>5, <2>8, <2>9, <2>10 DEF Ordered
<1> QED BY Zenon, <1>3, <1>4, <1>6, <1>7 DEF QueueInv

LEMMA NextQueueInv == QueueInv /\ [Next]_vars => QueueInv'
<1> SUFFICES ASSUME QueueInv, [Next]_vars PROVE QueueInv'
  BY Zenon
<1>1. /\ Types /\ Roles /\ Alternates
      /\ \A r \in Rings : Held(r) /\ Numbered(r) /\ Intact(r) /\ Ordered(r)
  BY Zenon DEF QueueInv
<1>2. Types' /\ Roles' /\ Alternates'
  BY Zenon, <1>1, PingPongAssumption, NextTypes, AlternatesStep
<1>3. ASSUME NEW x \in Rings, Untouched(x) PROVE Held(x)' /\ Numbered(x)' /\ Intact(x)' /\ Ordered(x)'
  BY Zenon, <1>1, <1>3, HeldElsewhere, NumberedElsewhere, IntactElsewhere, OrderedElsewhere
<1>4. ASSUME NEW x \in Rings, RingStep(x) PROVE Held(x)' /\ Numbered(x)' /\ Intact(x)' /\ Ordered(x)'
  BY Zenon, <1>1, <1>4, TypesOfRing, HeldStep, NumberedStep, IntactStep, OrderedStep
<1>5. \A x \in Rings : Untouched(x) \/ RingStep(x)
  BY Zenon, <1>1, StepEffect DEF Elsewhere
<1> QED BY Zenon, <1>2, <1>3, <1>4, <1>5 DEF QueueInv

LEMMA QueueInvariant == Spec => []QueueInv
<1> QED BY InitQueueInv, NextQueueInv, PTL DEF Spec

\* SlotExclusive, for any number of rings, threads and slots and payloads that
\* may throw: producer and consumer are never inside the same slot.
THEOREM SpscSlotsAreExclusive == Spec => []SlotExclusive
<1>1. QueueInv => SlotExclusive
  BY Zenon, HeldExcludes DEF QueueInv
<1> QED BY <1>1, QueueInvariant, PTL

\* PendingIntact: no payload that was published is overwritten before it is
\* moved out, also when enqueues threw before.
THEOREM SpscPendingIsIntact == Spec => []PendingIntact
<1>1. QueueInv => PendingIntact
  BY Zenon DEF QueueInv, Intact, PendingIntact
<1> QED BY <1>1, QueueInvariant, PTL

LEMMA NumbersArePrefix ==
  ASSUME NEW S, NEW T, NEW s \in Seq(S), NEW u \in Seq(T), Len(s) <= Len(u),
         \A j \in 1 .. Len(s) : s[j] = j, \A j \in 1 .. Len(u) : u[j] = j
  PROVE  s = SubSeq(u, 1, Len(s))
<1>1. Len(s) \in Nat /\ Len(u) \in Nat
  OBVIOUS
<1>2. SubSeq(u, 1, Len(s)) = [j \in 1 .. Len(s) |-> u[j]]
  BY <1>1
<1>3. s = [j \in 1 .. Len(s) |-> s[j]]
  OBVIOUS
<1> QED BY <1>1, <1>2, <1>3

\* InOrder: a ring is first in, first out until a call throws, and a round trip
\* of pingPong brings back the number it sent.
THEOREM SpscIsInOrder == Spec => []InOrder
<1>1. QueueInv => InOrder
  <2> SUFFICES ASSUME QueueInv PROVE InOrder
    BY Zenon
  <2>1. /\ sent \in [Rings -> Seq(Payloads)] /\ got \in [Rings -> Seq(Payloads)]
        /\ given \in [Rings -> Seq(Nat)] /\ begun \in [Rings -> Nat]
    BY Zenon DEF QueueInv, Types
  <2>2. ASSUME NEW r \in Rings, thrown[r] = {}
        PROVE  Len(got[r]) <= Len(sent[r]) /\ got[r] = SubSeq(sent[r], 1, Len(got[r]))
    <3>1. /\ Len(got[r]) <= Len(sent[r])
          /\ (\A j \in 1 .. Len(got[r]) : got[r][j] = j) /\ (\A j \in 1 .. Len(sent[r]) : sent[r][j] = j)
      BY Zenon, <2>2 DEF QueueInv, Ordered, Counted, Sequenced
    <3> QED BY Zenon, <2>1, <3>1, NumbersArePrefix
  <2>3. ASSUME program = "pingPong"
        PROVE  /\ Len(given[Req]) <= Len(got[Rep]) + 1
               /\ got[Rep] = SubSeq(given[Req], 1, Len(got[Rep]))
    <3>1. Req \in Rings /\ Rep \in Rings
      BY Zenon, PingPongAssumption
    <3>2. RoundTrip
      BY Zenon, <2>3 DEF QueueInv, Alternates
    <3>3. thrown[Rep] = {} /\ Ordered(Rep) /\ Numbered(Req)
      BY Zenon, <3>1, <3>2 DEF QueueInv, RoundTrip
    <3>4. /\ Len(got[Rep]) = begun[Rep] - (IF Getting(Rep) \in {"deqSpin", "deqMove"} THEN 1 ELSE 0)
          /\ \A j \in 1 .. Len(got[Rep]) : got[Rep][j] = j
      BY Zenon, <3>3 DEF Ordered, Counted, Sequenced
    <3>5. \A j \in 1 .. Len(given[Req]) : given[Req][j] = j
      BY Zenon, <3>3 DEF Numbered
    <3>6. /\ Len(given[Req]) \in {begun[Rep], begun[Rep] + 1}
          /\ Getting(Rep) # "out" => Len(given[Req]) = begun[Rep]
      BY Zenon, <3>2 DEF RoundTrip
    <3>7. Len(given[Req]) \in Nat /\ Len(got[Rep]) \in Nat /\ begun[Rep] \in Nat
      BY <2>1, <3>1
    <3>8. Len(given[Req]) <= Len(got[Rep]) + 1 /\ Len(got[Rep]) <= Len(given[Req])
      BY <3>4, <3>6, <3>7
    <3> QED BY Zenon, <2>1, <3>1, <3>4, <3>5, <3>8, NumbersArePrefix
  <2> QED BY Zenon, <2>2, <2>3 DEF InOrder
<1> QED BY <1>1, QueueInvariant, PTL

-----------------------------------------------------------------------------
(* The ring Req implements HandoffQueue (its safety part).                 *)

\* What ItemsBar, StateBar and ResultBar are, from the number g of enqueues and
\* b of dequeues begun and the positions p and q of the ends.
Items(g, b, p) ==
  [j \in 1 .. g - b |-> [val |-> b + j, by |-> IF b + j = g /\ p # "out" THEN Producer[Req] ELSE Nobody]]
States(g, b, p, q) ==
  [t \in Users |-> IF t = Producer[Req] THEN (IF p = "out" THEN "idle" ELSE "putting")
                   ELSE (IF q = "out" THEN "idle" ELSE IF b <= g THEN "got" ELSE "waiting")]
Results(g, b, q) ==
  [t \in Users |-> IF t = Consumer[Req] /\ q # "out" /\ b <= g THEN b ELSE Nobody]
Waiting(g, b) == IF b > g THEN <<Consumer[Req]>> ELSE <<>>

\* What a dequeue that has moved its payload out will return.
Handed == Getting(Req) = "deqRelease" => call[Consumer[Req]].val = begun[Req]

FifoInv == QueueInv /\ thrown[Req] = {} /\ Handed /\ Len(given[Req]) <= MaxItems

LEMMA BarsAre ==
  FifoInv =>
    /\ ItemsBar = Items(Len(given[Req]), begun[Req], Putting(Req))
    /\ StateBar = States(Len(given[Req]), begun[Req], Putting(Req), Getting(Req))
    /\ ResultBar = Results(Len(given[Req]), begun[Req], Getting(Req))
<1> SUFFICES ASSUME FifoInv
             PROVE  /\ ItemsBar = Items(Len(given[Req]), begun[Req], Putting(Req))
                    /\ StateBar = States(Len(given[Req]), begun[Req], Putting(Req), Getting(Req))
                    /\ ResultBar = Results(Len(given[Req]), begun[Req], Getting(Req))
  BY Zenon
<1>1. /\ Req \in Rings /\ Producer[Req] \in Threads /\ Consumer[Req] \in Threads
      /\ Producer[Req] # Consumer[Req]
  BY Zenon, PingPongAssumption, SpscAssumption
<1>2. PICK g \in Nat, b \in Nat : g = Len(given[Req]) /\ b = begun[Req]
  BY Zenon, <1>1, Lengths DEF FifoInv, QueueInv
<1>3. /\ \A j \in 1 .. g : given[Req][j] = j
      /\ Getting(Req) # "out" => b >= 1
      /\ Getting(Req) = "deqRelease" => b <= g
  <2>1. Numbered(Req) /\ Counted(Req)
    BY Zenon, <1>1 DEF FifoInv, QueueInv, Ordered
  <2>2. Len(sent[Req]) \in Nat
    BY Zenon, <1>1, Lengths DEF FifoInv, QueueInv
  <2>3. \A j \in 1 .. g : given[Req][j] = j
    BY Zenon, <1>2, <2>1 DEF Numbered
  <2>4. /\ Getting(Req) # "out" => b >= 1
        /\ Getting(Req) = "deqRelease" => b <= Len(sent[Req])
        /\ Len(sent[Req]) <= g
    <3>1. Len(sent[Req]) = g - (IF Putting(Req) = "out" THEN 0 ELSE 1)
      BY Zenon, <1>2, <2>1 DEF Counted
    <3>2. Len(sent[Req]) <= g
      BY <3>1
    <3>3. /\ Getting(Req) # "out" => b >= 1
          /\ Getting(Req) \in {"deqMove", "deqRelease"} => b <= Len(sent[Req])
      BY Zenon, <1>2, <2>1 DEF Counted
    <3> QED BY Zenon, <3>2, <3>3
  <2> QED BY <2>2, <2>3, <2>4
<1>4. /\ Enqueuing(Producer[Req], Req) <=> Putting(Req) # "out"
      /\ Dequeuing(Consumer[Req], Req) <=> Getting(Req) # "out"
      /\ Getting(Req) # "out" => Getting(Req) = pc[Consumer[Req]]
      /\ ~Enqueuing(Consumer[Req], Req) /\ ~Dequeuing(Producer[Req], Req)
  <2>1. Roles
    BY Zenon DEF FifoInv, QueueInv
  <2> QED BY Zenon, <1>1, <2>1 DEF Roles, Putting, Getting, Enqueuing, Dequeuing
<1>5. ItemsBar = Items(g, b, Putting(Req))
  <2>1. \A j \in 1 .. g - b : given[Req][b + j] = b + j
    BY <1>3
  <2> QED BY Zenon, <1>2, <1>4, <2>1 DEF ItemsBar, Items, Put
<1>6. StateBar = States(g, b, Putting(Req), Getting(Req))
  <2>1. /\ StateBar = [t \in Users |-> StateBar[t]]
        /\ StateBar[Producer[Req]] = IF Putting(Req) = "out" THEN "idle" ELSE "putting"
        /\ StateBar[Consumer[Req]] = IF Getting(Req) = "out" THEN "idle" ELSE IF b <= g THEN "got" ELSE "waiting"
    BY Zenon, <1>1, <1>2, <1>4 DEF StateBar, Users, Put
  <2> QED BY Zenon, <1>1, <2>1 DEF States, Users
<1>7. ResultBar = Results(g, b, Getting(Req))
  <2>1. /\ ResultBar = [t \in Users |-> ResultBar[t]]
        /\ ResultBar[Producer[Req]] = Nobody
    BY Zenon, <1>4 DEF ResultBar, Users
  <2>2. Getting(Req) = "deqRelease" => call[Consumer[Req]].val = b /\ b <= g
    BY Zenon, <1>2, <1>3 DEF FifoInv, Handed
  <2>3. Getting(Req) # "out" /\ b <= g => given[Req][b] = b
    BY <1>3
  <2>4. ResultBar[Consumer[Req]] = IF Getting(Req) # "out" /\ b <= g THEN b ELSE Nobody
    <3>1. CASE Getting(Req) = "out"
      BY Zenon, <1>4, <3>1 DEF ResultBar, Users
    <3>2. CASE Getting(Req) = "deqRelease"
      BY Zenon, <1>4, <2>2, <3>2 DEF ResultBar, Users
    <3>3. CASE Getting(Req) \notin {"out", "deqRelease"}
      BY Zenon, <1>2, <1>4, <2>3, <3>3 DEF ResultBar, Users, Put
    <3> QED BY Zenon, <3>1, <3>2, <3>3
  <2> QED BY Zenon, <1>1, <2>1, <2>4 DEF Results, Users
<1> QED BY Zenon, <1>2, <1>5, <1>6, <1>7

LEMMA FunctionIsSeq ==
  ASSUME NEW T, NEW k \in Nat, NEW s \in [1 .. k -> T]
  PROVE  s \in Seq(T) /\ Len(s) = k
OBVIOUS

\* With no more puts begun than gets, the abstract queue holds nothing.
LEMMA ItemsNone ==
  ASSUME NEW g \in Nat, NEW b \in Nat, g <= b, NEW p
  PROVE  Items(g, b, p) = <<>>
<1>1. 1 .. g - b = {}
  OBVIOUS
<1>2. Items(g, b, p) = [j \in {} |-> j]
  BY Zenon, <1>1 DEF Items
<1> QED BY <1>2

LEMMA ItemsGrow ==
  ASSUME NEW g \in Nat, NEW b \in Nat, b <= g, NEW p, p # "out"
  PROVE  Items(g + 1, b, p) = Append(Items(g, b, "out"), [val |-> g + 1, by |-> Producer[Req]])
<1> DEFINE s == Items(g, b, "out")
           e == [val |-> g + 1, by |-> Producer[Req]]
<1>1. PICK k \in Nat : k = g - b
  OBVIOUS
<1>2. s = [j \in 1 .. k |-> [val |-> b + j, by |-> Nobody]]
  BY Zenon, <1>1 DEF Items
<1>3. s \in Seq([val : Nat, by : {Nobody}]) /\ Len(s) = k
  <2>1. \A j \in 1 .. k : [val |-> b + j, by |-> Nobody] \in [val : Nat, by : {Nobody}]
    OBVIOUS
  <2>2. s \in [1 .. k -> [val : Nat, by : {Nobody}]]
    BY Zenon, <1>2, <2>1
  <2> QED BY Zenon, <2>2, FunctionIsSeq
<1>4. Append(s, e) = [j \in 1 .. k + 1 |-> IF j = k + 1 THEN e ELSE s[j]]
  BY <1>3
<1>5. g + 1 - b = k + 1
  BY <1>1
<1>6. Items(g + 1, b, p) =
        [j \in 1 .. k + 1 |-> [val |-> b + j, by |-> IF b + j = g + 1 THEN Producer[Req] ELSE Nobody]]
  BY <1>5 DEF Items
<1>7. ASSUME NEW j \in 1 .. k + 1
      PROVE  [val |-> b + j, by |-> IF b + j = g + 1 THEN Producer[Req] ELSE Nobody] =
             IF j = k + 1 THEN e ELSE s[j]
  <2>1. CASE j = k + 1
    BY <1>1, <2>1
  <2>2. CASE j # k + 1
    BY <1>1, <1>2, <2>2
  <2> QED BY Zenon, <2>1, <2>2
<1> HIDE DEF s, e
<1> QED BY Zenon, <1>4, <1>6, <1>7 DEF s, e

LEMMA ItemsShrink ==
  ASSUME NEW g \in Nat, NEW b \in Nat, b < g, NEW p
  PROVE  /\ Items(g, b, p) # <<>> /\ Head(Items(g, b, p)).val = b + 1
         /\ Tail(Items(g, b, p)) = Items(g, b + 1, p)
<1> DEFINE s == Items(g, b, p)
           Item == [val : Nat, by : {Producer[Req], Nobody}]
<1>1. PICK k \in Nat : k + 1 = g - b
  <2>1. g - b - 1 \in Nat
    OBVIOUS
  <2> QED BY <2>1
<1>2. s = [j \in 1 .. k + 1 |-> [val |-> b + j, by |-> IF b + j = g /\ p # "out" THEN Producer[Req] ELSE Nobody]]
  BY Zenon, <1>1 DEF Items
<1>3. s \in Seq(Item) /\ Len(s) = k + 1
  <2>1. \A j \in 1 .. k + 1 :
          [val |-> b + j, by |-> IF b + j = g /\ p # "out" THEN Producer[Req] ELSE Nobody] \in Item
    OBVIOUS
  <2>2. s \in [1 .. k + 1 -> Item]
    BY <1>2, <2>1
  <2> HIDE DEF s, Item
  <2> QED BY <2>2, FunctionIsSeq
<1>4. Tail(s) = [j \in 1 .. k |-> s[j + 1]]
  <2> HIDE DEF s, Item
  <2>1. Len(s) - 1 = k /\ s # <<>>
    BY <1>3
  <2>2. /\ Tail(s) \in Seq(Item) /\ Len(Tail(s)) = Len(s) - 1
        /\ \A i \in 1 .. Len(Tail(s)) : Tail(s)[i] = s[i + 1]
    BY <1>3, <2>1
  <2>3. Tail(s) \in [1 .. k -> Item]
    <3>1. \A u \in Seq(Item) : u \in [1 .. Len(u) -> Item]
      OBVIOUS
    <3> QED BY Zenon, <2>1, <2>2, <3>1
  <2>4. \A j \in 1 .. k : Tail(s)[j] = s[j + 1]
    BY Zenon, <2>1, <2>2
  <2> QED BY Zenon, <2>3, <2>4
<1>5. s # <<>> /\ Head(s) = s[1] /\ s[1].val = b + 1
  <2>1. 1 \in 1 .. k + 1 /\ Len(s) # 0
    BY <1>3
  <2>2. s[1].val = b + 1
    BY <1>2, <2>1
  <2> HIDE DEF s, Item
  <2> QED BY <1>3, <2>1, <2>2
<1>6. Items(g, b + 1, p) =
        [j \in 1 .. k |-> [val |-> b + 1 + j, by |-> IF b + 1 + j = g /\ p # "out" THEN Producer[Req] ELSE Nobody]]
  <2>1. g - (b + 1) = k
    BY <1>1
  <2> QED BY Zenon, <2>1 DEF Items
<1>7. ASSUME NEW j \in 1 .. k
      PROVE  s[j + 1] = [val |-> b + 1 + j, by |-> IF b + 1 + j = g /\ p # "out" THEN Producer[Req] ELSE Nobody]
  <2>1. b + (j + 1) = b + 1 + j /\ j + 1 \in 1 .. k + 1
    OBVIOUS
  <2> QED BY Zenon, <1>2, <2>1
<1> HIDE DEF s
<1>8. Tail(s) = Items(g, b + 1, p)
  BY Zenon, <1>4, <1>6, <1>7
<1> QED BY Zenon, <1>5, <1>8 DEF s

LEMMA BarsAreNext ==
  FifoInv' =>
    /\ ItemsBar' = Items(Len(given'[Req]), begun'[Req], Putting(Req)')
    /\ StateBar' = States(Len(given'[Req]), begun'[Req], Putting(Req)', Getting(Req)')
    /\ ResultBar' = Results(Len(given'[Req]), begun'[Req], Getting(Req)')
<1>1. (FifoInv => /\ ItemsBar = Items(Len(given[Req]), begun[Req], Putting(Req))
                  /\ StateBar = States(Len(given[Req]), begun[Req], Putting(Req), Getting(Req))
                  /\ ResultBar = Results(Len(given[Req]), begun[Req], Getting(Req)))'
  BY BarsAre, PTL
<1> QED BY Zenon, <1>1

LEMMA InitFifoInv == Init => FifoInv
<1> SUFFICES ASSUME Init PROVE FifoInv
  BY Zenon
<1>1. Req \in Rings /\ MaxItems \in Nat /\ QueueInv
  BY Zenon, PingPongAssumption, InitQueueInv
<1>2. thrown[Req] = {} /\ given[Req] = <<>>
  BY Zenon, <1>1 DEF Init, RingInit
<1>3. Consumer[Req] \in Threads
  BY Zenon, <1>1, SpscAssumption
<1>4. Handed
  BY Zenon, <1>3 DEF Init, RingInit, Handed, Getting, Dequeuing
<1>5. Len(given[Req]) <= MaxItems
  BY <1>1, <1>2
<1> QED BY Zenon, <1>1, <1>2, <1>4, <1>5 DEF FifoInv

LEMMA NextFifoInv ==
  ASSUME Req \notin Throwing, FifoInv, [Next]_vars
  PROVE  FifoInv'
<1>1. /\ Req \in Rings /\ Producer[Req] \in Threads /\ Consumer[Req] \in Threads
      /\ Producer[Req] # Consumer[Req] /\ MaxItems \in Nat
  BY Zenon, PingPongAssumption, SpscAssumption
<1>2. /\ QueueInv /\ Types /\ Roles /\ Alternates /\ Ordered(Req) /\ thrown[Req] = {} /\ Handed
      /\ Len(given[Req]) <= MaxItems /\ Len(given[Req]) \in Nat
  <2>1. QueueInv /\ thrown[Req] = {} /\ Handed /\ Len(given[Req]) <= MaxItems
    BY Zenon DEF FifoInv
  <2>2. Types /\ Roles /\ Alternates /\ Ordered(Req)
    BY Zenon, <1>1, <2>1 DEF QueueInv
  <2>3. Len(given[Req]) \in Nat
    BY Zenon, <1>1, <2>2, Lengths
  <2> QED BY Zenon, <2>1, <2>2, <2>3
<1>3. QueueInv'
  BY Zenon, <1>2, NextQueueInv
<1>4. CASE UNCHANGED vars
  BY Zenon, <1>2, <1>3, <1>4 DEF FifoInv, Handed, Getting, Dequeuing, vars, rvars, ring, hist
<1>5. ASSUME NEW t \in Threads, Continue(t) \/ Throw(t)
      PROVE  thrown'[Req] = {} /\ Handed' /\ Len(given'[Req]) <= MaxItems
  <2>1. PICK r \in Rings : r = call[t].ring
    BY Zenon, <1>2 DEF Types
  <2>2. RingStep(r) /\ Elsewhere(r) /\ UNCHANGED <<lastWritten, lastRead, given, begun>>
    BY Zenon, <1>2, <1>5, <2>1, ContinueEffect
  <2>3. thrown'[Req] = {}
    <3>1. CASE Continue(t)
      <4>1. UNCHANGED thrown
        BY Zenon, <3>1 DEF Continue, EnqueueEnterSlot, EnqueueWrite, EmplaceDestroy, EmplaceConstruct,
                           EnqueuePublish, DequeueEnterSlot, DequeueMove, DequeueRelease, hist
      <4> QED BY Zenon, <1>2, <4>1
    <3>2. CASE Throw(t)
      <4>1. PICK T : thrown' = [thrown EXCEPT ![r] = T]
        BY Zenon, <2>1, <3>2 DEF Throw
      <4>2. r # Req
        BY Zenon, <2>1, <3>2, PingPongAssumption DEF Throw
      <4> QED BY Zenon, <1>1, <1>2, <4>1, <4>2 DEF Types
    <3> QED BY Zenon, <1>5, <3>1, <3>2
  <2>4. UNCHANGED call \/ \E v : pc[t] = "deqMove" /\ call' = [call EXCEPT ![t].val = v]
    BY Zenon, <1>5 DEF Continue, Throw, Step, EnqueueEnterSlot, EnqueueWrite, EmplaceDestroy, EmplaceConstruct,
           EnqueuePublish, DequeueEnterSlot, DequeueMove, DequeueRelease
  <2>5. ASSUME Getting(Req)' = "deqRelease" PROVE call'[Consumer[Req]].val = begun[Req]
    <3>1. CASE \E v : GetMoves(Req, v)
      BY Zenon, <1>1, <1>2, <3>1, MovesNext
    <3>2. CASE ~\E v : GetMoves(Req, v)
      <4>1. Getting(Req) = "deqRelease"
        <5>1. CASE r # Req
          BY Zenon, <1>1, <2>2, <2>5, <5>1 DEF Elsewhere, Untouched
        <5>2. CASE r = Req
          BY Zenon, <2>2, <2>5, <3>2, <5>2 DEF RingStep, PutBegins, PutEnters, PutWrites, PutPublishes, PutThrows,
                   GetBegins, GetThrows, GetEnters, GetReleases, GetStays
        <5> QED BY Zenon, <5>1, <5>2
      <4>2. pc[Consumer[Req]] = "deqRelease"
        BY Zenon, <4>1 DEF Getting
      <4>3. call'[Consumer[Req]].val = call[Consumer[Req]].val
        BY Zenon, <1>1, <1>2, <2>4, <4>2 DEF Types
      <4> QED BY Zenon, <1>2, <4>1, <4>3 DEF Handed
    <3> QED BY Zenon, <3>1, <3>2
  <2>6. Handed'
    BY Zenon, <2>2, <2>5 DEF Handed
  <2> QED BY Zenon, <1>2, <2>2, <2>3, <2>6
<1>6. ASSUME NEW t \in Threads, NEW r \in Rings, NEW form, NEW v, EnqueueBegin(t, r, form, v),
             r = Req => Len(given[Req]) < MaxItems
      PROVE  thrown'[Req] = {} /\ Handed' /\ Len(given'[Req]) <= MaxItems
  <2>1. PutBegins(r) /\ Elsewhere(r)
    BY Zenon, <1>2, <1>6, EnqueueEffect
  <2>2. /\ pc[t] = "idle" /\ thrown' = thrown /\ begun' = begun
        /\ given' = [given EXCEPT ![r] = Append(given[r], v)]
        /\ call' = [call EXCEPT ![t] = [ring |-> r, form |-> form, val |-> v]]
    BY Zenon, <1>6 DEF EnqueueBegin, Step
  <2>3. Getting(Req)' = Getting(Req)
    BY Zenon, <1>1, <2>1 DEF PutBegins, GetStays, Elsewhere, Untouched
  <2>4. Getting(Req) = "deqRelease" => Consumer[Req] # t
    BY Zenon, <2>2 DEF Getting
  <2>5. Handed'
    BY Zenon, <1>1, <1>2, <2>2, <2>3, <2>4 DEF Handed, Types
  <2>6. Len(given'[Req]) <= MaxItems
    <3>1. given \in [Rings -> Seq(Nat)]
      BY Zenon, <1>2 DEF Types
    <3>2. CASE r = Req
      <4>1. given'[Req] = Append(given[Req], v) /\ given[Req] \in Seq(Nat)
        BY Zenon, <1>1, <2>2, <3>1, <3>2
      <4>2. Len(given'[Req]) = Len(given[Req]) + 1
        BY <4>1
      <4> QED BY <1>1, <1>2, <1>6, <3>2, <4>2
    <3>3. CASE r # Req
      BY Zenon, <1>1, <1>2, <2>2, <3>1, <3>3
    <3> QED BY Zenon, <3>2, <3>3
  <2> QED BY Zenon, <1>2, <2>2, <2>5, <2>6
<1>7. ASSUME NEW t \in Threads, NEW r \in Rings, DequeueBegin(t, r)
      PROVE  thrown'[Req] = {} /\ Handed' /\ Len(given'[Req]) <= MaxItems
  <2>1. GetBegins(r) /\ Elsewhere(r)
    BY Zenon, <1>2, <1>7, DequeueEffect
  <2>2. /\ pc[t] = "idle" /\ thrown' = thrown /\ given' = given
        /\ call' = [call EXCEPT ![t] = [ring |-> r, form |-> "dequeue", val |-> Junk]]
    BY Zenon, <1>7 DEF DequeueBegin, Step
  <2>3. CASE r = Req
    <3>1. Handed'
      BY Zenon, <2>1, <2>3 DEF Handed, GetBegins
    <3> QED BY Zenon, <1>2, <2>2, <3>1
  <2>4. CASE r # Req
    <3>1. Getting(Req)' = Getting(Req) /\ begun'[Req] = begun[Req]
      BY Zenon, <1>1, <2>1, <2>4 DEF Elsewhere, Untouched, Same
    <3>2. Getting(Req) = "deqRelease" => Consumer[Req] # t
      BY Zenon, <2>2 DEF Getting
    <3>3. Handed'
      BY Zenon, <1>1, <1>2, <2>2, <3>1, <3>2 DEF Handed, Types
    <3> QED BY Zenon, <1>2, <2>2, <3>3
  <2> QED BY Zenon, <2>3, <2>4
<1>8. ASSUME NEW t \in Threads, BenchCall(t) \/ AnyCall(t)
      PROVE  thrown'[Req] = {} /\ Handed' /\ Len(given'[Req]) <= MaxItems
  <2>1. target \in Rings /\ Rep \in Rings /\ Rep # Req
    BY Zenon, <1>2, PingPongAssumption DEF Types
  <2>2. CASE AnyCall(t)
    BY Zenon, <1>6, <1>7, <2>1, <2>2 DEF AnyCall
  <2>3. CASE Throughput(t)
    BY Zenon, <1>6, <1>7, <2>1, <2>3 DEF Throughput
  <2>4. CASE PingPong(t)
    BY Zenon, <1>1, <1>6, <1>7, <2>1, <2>4 DEF PingPong
  <2> QED BY Zenon, <1>8, <2>2, <2>3, <2>4 DEF BenchCall
<1> QED BY Zenon, <1>3, <1>4, <1>5, <1>8 DEF Next, FifoInv

\* One step of the program is one step of the queue, or leaves it alone.
LEMMA QueueStep ==
  ASSUME Req \notin Throwing, FifoInv, FifoInv', [Next]_vars
  PROVE  [Queue!Next]_(Queue!qvars)
<1> DEFINE P == Producer[Req]
           C == Consumer[Req]
<1>1. /\ Req \in Rings /\ P # C /\ Users = {P, C} /\ BUFFER_SIZE[Req] \in Nat
      /\ P \in Queue!Callers /\ C \in Queue!Callers
  BY Zenon, PingPongAssumption, SpscAssumption DEF Users, Queue!Callers
<1> HIDE DEF P, C
<1>2. /\ Types /\ Roles /\ Alternates /\ Numbered(Req) /\ Counted(Req)
      /\ thrown[Req] = {} /\ thrown'[Req] = {} /\ MaxItems \in Nat
  BY Zenon, <1>1, PingPongAssumption DEF FifoInv, QueueInv, Ordered
<1>3. PICK g \in Nat, b \in Nat, s \in Nat :
        g = Len(given[Req]) /\ b = begun[Req] /\ s = Len(sent[Req])
  BY Zenon, <1>1, <1>2, Lengths
<1>4. PICK p, q : p = Putting(Req) /\ q = Getting(Req)
  BY Zenon
<1>5. /\ ItemsBar = Items(g, b, p) /\ StateBar = States(g, b, p, q) /\ ResultBar = Results(g, b, q)
      /\ (IF begun[Req] > Put THEN <<Consumer[Req]>> ELSE <<>>) = Waiting(g, b)
  BY Zenon, <1>3, <1>4, BarsAre DEF Waiting, Put
<1>6. /\ b <= g + 1 /\ (q = "out" => b <= g) /\ (q # "out" => b >= 1)
      /\ (q \in {"deqMove", "deqRelease"} => b <= g) /\ s <= g
  <2>1. PICK m \in Nat : m = Len(got[Req])
    BY Zenon, <1>1, <1>2, Lengths
  <2>2. /\ s = g - (IF p = "out" THEN 0 ELSE 1)
        /\ m = b - (IF q \in {"deqSpin", "deqMove"} THEN 1 ELSE 0)
        /\ m <= s /\ (q # "out" => b >= 1) /\ (q \in {"deqMove", "deqRelease"} => b <= s)
    BY Zenon, <1>2, <1>3, <1>4, <2>1 DEF Counted
  <2> QED BY <2>2
<1>7. ASSUME NEW h \in Nat, NEW d \in Nat, NEW pp, NEW qq,
             h = Len(given'[Req]), d = begun'[Req], pp = Putting(Req)', qq = Getting(Req)'
      PROVE  /\ ItemsBar' = Items(h, d, pp) /\ StateBar' = States(h, d, pp, qq)
             /\ ResultBar' = Results(h, d, qq)
             /\ (IF begun[Req] > Put THEN <<Consumer[Req]>> ELSE <<>>)' = Waiting(h, d)
  BY Zenon, <1>7, BarsAreNext DEF Waiting, Put
<1>8. ASSUME Len(given'[Req]) = g, begun'[Req] = b,
             Putting(Req)' = "out" <=> p = "out", Getting(Req)' = "out" <=> q = "out"
      PROVE  UNCHANGED Queue!qvars
  <2>1. PICK pp, qq : pp = Putting(Req)' /\ qq = Getting(Req)'
    BY Zenon
  <2>2. Items(g, b, pp) = Items(g, b, p) /\ States(g, b, pp, qq) = States(g, b, p, q)
        /\ Results(g, b, qq) = Results(g, b, q)
    BY Zenon, <1>8, <2>1 DEF Items, States, Results
  <2> QED BY <1>5, <1>7, <1>8, <2>1, <2>2 DEF Queue!qvars
<1>9. ASSUME NEW t \in Queue!Callers, (\E v \in 1 .. MaxItems : Queue!Put(t, v)) \/ Queue!PutReturn(t) \/ Queue!Get(t) \/ Queue!GetReturn(t)
      PROVE  Queue!Next
  BY Zenon, <1>9 DEF Queue!Next
<1>s. /\ StateBar = [t \in {P, C} |-> StateBar[t]] /\ ResultBar = [t \in {P, C} |-> ResultBar[t]]
      /\ StateBar[P] = (IF p = "out" THEN "idle" ELSE "putting")
      /\ StateBar[C] = (IF q = "out" THEN "idle" ELSE IF b <= g THEN "got" ELSE "waiting")
      /\ ResultBar[P] = Nobody /\ ResultBar[C] = (IF q # "out" /\ b <= g THEN b ELSE Nobody)
  BY Zenon, <1>1, <1>5 DEF States, Results, P, C
<1>n. ASSUME NEW h \in Nat, NEW d \in Nat, NEW pp, NEW qq,
             h = Len(given'[Req]), d = begun'[Req], pp = Putting(Req)', qq = Getting(Req)'
      PROVE  /\ StateBar' = [t \in {P, C} |-> StateBar'[t]] /\ ResultBar' = [t \in {P, C} |-> ResultBar'[t]]
             /\ StateBar'[P] = (IF pp = "out" THEN "idle" ELSE "putting")
             /\ StateBar'[C] = (IF qq = "out" THEN "idle" ELSE IF d <= h THEN "got" ELSE "waiting")
             /\ ResultBar'[P] = Nobody /\ ResultBar'[C] = (IF qq # "out" /\ d <= h THEN d ELSE Nobody)
  <2>1. StateBar' = States(h, d, pp, qq) /\ ResultBar' = Results(h, d, qq)
    BY Zenon, <1>7, <1>n
  <2> QED BY Zenon, <1>1, <2>1 DEF States, Results, P, C
<1>10. CASE PutBegins(Req) /\ Carried(Req)' = Len(given[Req]) + 1
  <2>1. /\ p = "out" /\ Putting(Req)' = "enqSpin" /\ Getting(Req)' = q /\ begun'[Req] = b
        /\ Len(given'[Req]) = g + 1 /\ g + 1 \in 1 .. MaxItems
    <3>1. given'[Req] = Append(given[Req], Carried(Req)') /\ given[Req] \in Seq(Nat)
      BY Zenon, <1>1, <1>2, <1>10 DEF PutBegins, Types
    <3>2. Len(given'[Req]) = g + 1
      BY <1>3, <3>1
    <3>3. g + 1 <= MaxItems
      BY Zenon, <3>2 DEF FifoInv
    <3>4. g + 1 \in 1 .. MaxItems /\ g + 1 \in Nat
      BY <1>2, <3>3
    <3> QED BY Zenon, <1>2, <1>3, <1>4, <1>10, <3>2, <3>4 DEF PutBegins, GetStays, Same
  <2>2. /\ ItemsBar' = Items(g + 1, b, "enqSpin") /\ g + 1 \in Nat
        /\ (IF begun[Req] > Put THEN <<Consumer[Req]>> ELSE <<>>)' = Waiting(g + 1, b)
    <3>1. g + 1 \in Nat
      OBVIOUS
    <3> QED BY Zenon, <1>7, <2>1, <3>1
  <2>3. /\ StateBar' = [t \in {P, C} |-> StateBar'[t]] /\ ResultBar' = [t \in {P, C} |-> ResultBar'[t]]
        /\ StateBar'[P] = "putting" /\ ResultBar'[P] = Nobody
        /\ StateBar'[C] = (IF q = "out" THEN "idle" ELSE IF b <= g + 1 THEN "got" ELSE "waiting")
        /\ ResultBar'[C] = (IF q # "out" /\ b <= g + 1 THEN b ELSE Nobody)
    <3>1. PICK h \in Nat : h = g + 1
      OBVIOUS
    <3>2. PICK pp : pp = Putting(Req)' /\ pp # "out"
      BY Zenon, <2>1
    <3> QED BY Zenon, <1>n, <2>1, <3>1, <3>2
  <2>4. CASE b <= g
    <3>1. /\ Waiting(g, b) = <<>> /\ Waiting(g + 1, b) = <<>>
          /\ ItemsBar' = Append(ItemsBar, [val |-> g + 1, by |-> P])
      <4>1. Waiting(g, b) = <<>> /\ Waiting(g + 1, b) = <<>>
        BY <2>4 DEF Waiting
      <4>2. Items(g + 1, b, "enqSpin") = Append(Items(g, b, "out"), [val |-> g + 1, by |-> Producer[Req]])
        BY Zenon, <2>4, ItemsGrow
      <4> QED BY Zenon, <1>5, <2>1, <2>2, <4>1, <4>2 DEF P
    <3>a. b <= g + 1 /\ P # C
      BY <1>1, <2>4 DEF P, C
    <3>2. ResultBar' = ResultBar
      <4>1. ResultBar'[C] = ResultBar[C] /\ ResultBar'[P] = ResultBar[P]
        BY Zenon, <1>s, <2>3, <2>4, <3>a
      <4> QED BY Zenon, <1>s, <2>3, <4>1
    <3>3. StateBar' = [StateBar EXCEPT ![P] = "putting"]
      <4>1. StateBar'[P] = "putting" /\ StateBar'[C] = StateBar[C]
        BY Zenon, <1>s, <2>3, <2>4, <3>a
      <4> QED BY Zenon, <1>s, <2>3, <3>a, <4>1
    <3>4. Queue!Put(P, g + 1)
      BY Zenon, <1>5, <1>s, <2>1, <2>2, <3>1, <3>2, <3>3 DEF Queue!Put, P
    <3> QED BY Zenon, <1>1, <1>9, <2>1, <3>4
  <2>5. CASE b = g + 1
    <3>1. /\ Waiting(g, b) = <<C>> /\ Waiting(g + 1, b) = <<>> /\ q # "out"
      BY <1>6, <2>5 DEF Waiting, C
    <3>2. ItemsBar' = ItemsBar
      <4>1. g <= b /\ g + 1 <= b
        BY <2>5
      <4>2. Items(g + 1, b, "enqSpin") = <<>> /\ Items(g, b, p) = <<>>
        BY Zenon, <2>2, <4>1, ItemsNone
      <4> QED BY Zenon, <1>5, <2>2, <4>2
    <3>a. b <= g + 1 /\ P # C
      BY <1>1, <2>5 DEF P, C
    <3>3. ResultBar' = [ResultBar EXCEPT ![C] = g + 1]
      <4>1. ResultBar'[C] = g + 1 /\ ResultBar'[P] = ResultBar[P]
        BY Zenon, <1>s, <2>3, <2>5, <3>1, <3>a
      <4> QED BY Zenon, <1>s, <2>3, <3>a, <4>1
    <3>4. StateBar' = [StateBar EXCEPT ![P] = "putting", ![C] = "got"]
      <4>1. StateBar'[C] = "got" /\ StateBar'[P] = "putting"
        BY Zenon, <2>3, <3>1, <3>a
      <4> QED BY Zenon, <1>s, <2>3, <3>a, <4>1
    <3>5. <<C>> # <<>> /\ Head(<<C>>) = C /\ Tail(<<C>>) = <<>>
      OBVIOUS
    <3>6. PICK w, ww : /\ w = (IF begun[Req] > Put THEN <<Consumer[Req]>> ELSE <<>>)
                       /\ ww = (IF begun[Req] > Put THEN <<Consumer[Req]>> ELSE <<>>)'
                       /\ w # <<>> /\ Head(w) = C /\ ww = Tail(w)
      BY Zenon, <1>5, <2>2, <3>1, <3>5
    <3>7. Queue!Put(P, g + 1)
      BY Zenon, <1>s, <2>1, <3>2, <3>3, <3>4, <3>6 DEF Queue!Put, P
    <3> QED BY Zenon, <1>1, <1>9, <2>1, <3>7
  <2> QED BY <1>6, <2>4, <2>5
<1>11. CASE PutEnters(Req) \/ \E v \in Payloads : PutWrites(Req, v)
  <2>1. /\ p # "out" /\ Putting(Req)' # "out" /\ Getting(Req)' = q /\ begun'[Req] = b
        /\ Len(given'[Req]) = g
    BY Zenon, <1>3, <1>4, <1>11 DEF PutEnters, PutWrites, GetStays, Same, Inside
  <2> QED BY Zenon, <1>8, <2>1
<1>12. CASE PutPublishes(Req)
  <2>1. /\ p = "enqPublish" /\ Putting(Req)' = "out" /\ Getting(Req)' = q /\ begun'[Req] = b
        /\ Len(given'[Req]) = g
    BY Zenon, <1>3, <1>4, <1>12 DEF PutPublishes, GetStays, Same
  <2>2. /\ ItemsBar' = Items(g, b, "out")
        /\ (IF begun[Req] > Put THEN <<Consumer[Req]>> ELSE <<>>)' = Waiting(g, b)
    BY Zenon, <1>7, <2>1
  <2>3. StateBar' = [StateBar EXCEPT ![P] = "idle"] /\ ResultBar' = ResultBar
    <3>1. /\ StateBar' = [t \in {P, C} |-> StateBar'[t]] /\ ResultBar' = [t \in {P, C} |-> ResultBar'[t]]
          /\ StateBar'[P] = "idle" /\ ResultBar'[P] = Nobody
          /\ StateBar'[C] = (IF q = "out" THEN "idle" ELSE IF b <= g THEN "got" ELSE "waiting")
          /\ ResultBar'[C] = (IF q # "out" /\ b <= g THEN b ELSE Nobody)
      BY Zenon, <1>n, <2>1
    <3> QED BY <1>1, <1>s, <3>1
  <2>4. g - b <= BUFFER_SIZE[Req]
    <3>1. Counted(Req)'
      BY Zenon, <1>1, <1>2 DEF FifoInv, QueueInv, Ordered
    <3>2. /\ Len(sent'[Req]) = g - 0 /\ Len(sent'[Req]) <= Released(Req)' + BUFFER_SIZE[Req]
      BY Zenon, <2>1, <3>1 DEF Counted
    <3>3. Released(Req)' = b \/ Released(Req)' = b - 1
      BY Zenon, <2>1 DEF Released
    <3> QED BY <1>1, <3>2, <3>3
  <2>5. /\ DOMAIN ItemsBar = 1 .. g - b
        /\ \A j \in DOMAIN ItemsBar : ItemsBar[j].by = P => j <= BUFFER_SIZE[Req]
    BY <1>1, <1>5, <2>4 DEF Items
  <2>6. ItemsBar' = [j \in DOMAIN ItemsBar |-> [ItemsBar[j] EXCEPT !.by = IF @ = P THEN Nobody ELSE @]]
    BY Zenon, <1>5, <2>2, <2>5 DEF Items, P
  <2>7. Queue!PutReturn(P)
    BY Zenon, <1>5, <1>s, <2>1, <2>2, <2>3, <2>5, <2>6 DEF Queue!PutReturn
  <2> QED BY Zenon, <1>1, <1>9, <2>7
<1>13. CASE GetBegins(Req)
  <2>1. /\ q = "out" /\ Getting(Req)' = "deqSpin" /\ Putting(Req)' = p /\ begun'[Req] = b + 1
        /\ Len(given'[Req]) = g /\ b <= g /\ b + 1 \in Nat
    BY <1>3, <1>4, <1>6, <1>13 DEF GetBegins, PutStays, Same
  <2>2. /\ ItemsBar' = Items(g, b + 1, p)
        /\ (IF begun[Req] > Put THEN <<Consumer[Req]>> ELSE <<>>)' = Waiting(g, b + 1)
    BY Zenon, <1>7, <2>1
  <2>3. /\ StateBar' = [t \in {P, C} |-> StateBar'[t]] /\ ResultBar' = [t \in {P, C} |-> ResultBar'[t]]
        /\ StateBar'[P] = (IF p = "out" THEN "idle" ELSE "putting") /\ ResultBar'[P] = Nobody
        /\ StateBar'[C] = (IF b + 1 <= g THEN "got" ELSE "waiting")
        /\ ResultBar'[C] = (IF b + 1 <= g THEN b + 1 ELSE Nobody)
    BY Zenon, <1>n, <2>1
  <2>4. CASE b < g
    <3>1. /\ ItemsBar # <<>> /\ Head(ItemsBar).val = b + 1 /\ ItemsBar' = Tail(ItemsBar)
      BY <1>5, <2>2, <2>4, ItemsShrink
    <3>2. /\ StateBar' = [StateBar EXCEPT ![C] = "got"] /\ ResultBar' = [ResultBar EXCEPT ![C] = b + 1]
      <4>1. b + 1 <= g /\ P # C
        BY <1>1, <2>4 DEF P, C
      <4>2. /\ StateBar'[C] = "got" /\ StateBar'[P] = StateBar[P]
            /\ ResultBar'[C] = b + 1 /\ ResultBar'[P] = ResultBar[P]
        BY Zenon, <1>s, <2>3, <4>1
      <4> QED BY Zenon, <1>s, <2>3, <4>1, <4>2
    <3>3. Waiting(g, b + 1) = Waiting(g, b)
      BY <2>4 DEF Waiting
    <3>4. UNCHANGED (IF begun[Req] > Put THEN <<Consumer[Req]>> ELSE <<>>)
      BY Zenon, <1>5, <2>2, <3>3
    <3>5. StateBar[C] = "idle"
      BY Zenon, <1>s, <2>1
    <3>6. Queue!Get(C)
      BY Zenon, <3>1, <3>2, <3>4, <3>5 DEF Queue!Get, C
    <3> QED BY Zenon, <1>1, <1>9, <3>6
  <2>5. CASE b = g
    <3>1. ItemsBar = <<>> /\ ItemsBar' = <<>>
      <4>1. g <= b /\ g <= b + 1
        BY <2>5
      <4>2. Items(g, b, p) = <<>> /\ Items(g, b + 1, p) = <<>>
        BY Zenon, <2>1, <4>1, ItemsNone
      <4> QED BY Zenon, <1>5, <2>2, <4>2
    <3>2. /\ StateBar' = [StateBar EXCEPT ![C] = "waiting"] /\ ResultBar' = ResultBar
      <4>1. ~(b + 1 <= g) /\ P # C
        BY <1>1, <2>5 DEF P, C
      <4>2. /\ StateBar'[C] = "waiting" /\ StateBar'[P] = StateBar[P]
            /\ ResultBar'[C] = ResultBar[C] /\ ResultBar'[P] = ResultBar[P]
        BY Zenon, <1>s, <2>1, <2>3, <4>1
      <4> QED BY Zenon, <1>s, <2>3, <4>1, <4>2
    <3>3. Waiting(g, b) = <<>> /\ Waiting(g, b + 1) = <<C>> /\ Append(<<>>, C) = <<C>>
      BY <2>5 DEF Waiting, C
    <3>4. (IF begun[Req] > Put THEN <<Consumer[Req]>> ELSE <<>>)'
             = Append((IF begun[Req] > Put THEN <<Consumer[Req]>> ELSE <<>>), C)
      BY Zenon, <1>5, <2>2, <3>3
    <3>5. StateBar[C] = "idle"
      BY Zenon, <1>s, <2>1
    <3>6. Queue!Get(C)
      BY Zenon, <3>1, <3>2, <3>4, <3>5 DEF Queue!Get, C
    <3> QED BY Zenon, <1>1, <1>9, <3>6
  <2>6. b < g \/ b = g
    BY <2>1
  <2> QED BY Zenon, <2>4, <2>5, <2>6
<1>14. CASE GetEnters(Req) \/ \E v \in Payloads : GetMoves(Req, v)
  <2>1. /\ q # "out" /\ Getting(Req)' # "out" /\ Putting(Req)' = p /\ begun'[Req] = b
        /\ Len(given'[Req]) = g
    BY Zenon, <1>3, <1>4, <1>14 DEF GetEnters, GetMoves, PutStays, Same
  <2> QED BY Zenon, <1>8, <2>1
<1>15. CASE GetReleases(Req)
  <2>1. /\ q = "deqRelease" /\ Getting(Req)' = "out" /\ Putting(Req)' = p /\ begun'[Req] = b
        /\ Len(given'[Req]) = g /\ b <= g
    BY Zenon, <1>3, <1>4, <1>6, <1>15 DEF GetReleases, PutStays, Same
  <2>2. /\ ItemsBar' = ItemsBar
        /\ (IF begun[Req] > Put THEN <<Consumer[Req]>> ELSE <<>>)' = Waiting(g, b)
    BY Zenon, <1>5, <1>7, <2>1
  <2>3. StateBar' = [StateBar EXCEPT ![C] = "idle"] /\ ResultBar' = [ResultBar EXCEPT ![C] = Nobody]
    <3>1. /\ StateBar' = [t \in {P, C} |-> StateBar'[t]] /\ ResultBar' = [t \in {P, C} |-> ResultBar'[t]]
          /\ StateBar'[P] = (IF p = "out" THEN "idle" ELSE "putting") /\ ResultBar'[P] = Nobody
          /\ StateBar'[C] = "idle" /\ ResultBar'[C] = Nobody
      BY Zenon, <1>n, <2>1
    <3> QED BY <1>1, <1>s, <3>1
  <2>4. Queue!GetReturn(C)
    BY Zenon, <1>5, <1>s, <2>1, <2>2, <2>3 DEF Queue!GetReturn
  <2> QED BY Zenon, <1>1, <1>9, <2>4
<1>16. ASSUME NEW v PROVE ~PutThrows(Req, v) /\ ~GetThrows(Req, v)
  BY Zenon, <1>2 DEF PutThrows, GetThrows
<1>17. CASE Untouched(Req)
  <2>1. /\ Getting(Req)' = q /\ Putting(Req)' = p /\ begun'[Req] = b /\ Len(given'[Req]) = g
    BY Zenon, <1>3, <1>4, <1>17 DEF Untouched, Same
  <2> QED BY Zenon, <1>8, <2>1
<1>18. Untouched(Req) \/ RingStep(Req)
  BY Zenon, <1>1, <1>2, StepEffect DEF Elsewhere
<1> QED BY Zenon, <1>10, <1>11, <1>12, <1>13, <1>14, <1>15, <1>16, <1>17, <1>18 DEF RingStep

\* With a payload that does not throw, the steps of the ring Req are those of a
\* FIFO queue of capacity BUFFER_SIZE (ImplementsHandoffQueue without fairness).
THEOREM SpscIsHandoffQueue ==
  Req \notin Throwing => (Spec => Queue!Init /\ [][Queue!Next]_(Queue!qvars))
<1> SUFFICES ASSUME Req \notin Throwing PROVE Spec => Queue!Init /\ [][Queue!Next]_(Queue!qvars)
  BY Zenon
<1>1. Init => Queue!Init
  <2> SUFFICES ASSUME Init PROVE Queue!Init
    BY Zenon
  <2>1. Req \in Rings /\ Consumer[Req] \in Threads /\ Producer[Req] \in Threads
    BY Zenon, PingPongAssumption, SpscAssumption
  <2>2. Len(given[Req]) = 0 /\ begun[Req] = 0 /\ \A t \in Threads : pc[t] = "idle"
    BY Zenon, <2>1 DEF Init, RingInit
  <2>3. Queue!Callers = Users /\ Users \subseteq Threads
    BY Zenon, <2>1 DEF Queue!Callers, Users
  <2>4. /\ ItemsBar = <<>> /\ ~(begun[Req] > Put)
    BY <2>2 DEF ItemsBar, Put
  <2>5. \A t \in Users : ~Enqueuing(t, Req) /\ ~Dequeuing(t, Req)
    BY Zenon, <2>2, <2>3 DEF Enqueuing, Dequeuing
  <2>6. /\ StateBar = [t \in Users |-> "idle"] /\ ResultBar = [t \in Users |-> Nobody]
    BY Zenon, <2>5 DEF StateBar, ResultBar
  <2> QED BY Zenon, <2>3, <2>4, <2>6 DEF Queue!Init
<1>2. Init => FifoInv
  BY Zenon, InitFifoInv
<1>3. FifoInv /\ [Next]_vars => FifoInv'
  BY Zenon, NextFifoInv
<1>4. FifoInv /\ FifoInv' /\ [Next]_vars => [Queue!Next]_(Queue!qvars)
  BY Zenon, QueueStep
<1> QED BY <1>1, <1>2, <1>3, <1>4, PTL DEF Spec

===============================================================================
