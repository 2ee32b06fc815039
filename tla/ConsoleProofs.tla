----------------------------- MODULE ConsoleProofs ----------------------------
(***************************************************************************)
(* For any number of callers of debugMessage and of Timers: messages stay  *)
(* whole, padding is lost only to a Timer, and a Timer counts the cycles   *)
(* since its start across a wrap of the counter.                           *)
(***************************************************************************)
EXTENDS ConsoleOutput, TLAPS

Callers == Loggers \cup Timers
Labels == {"idle", "cas", "head", "setw", "us", "args", "endl", "release",
           "new", "sleep", "ready", "label", "numbers", "timerEndl"}
Parts == {"head", "us", "args", "endl", "label", "numbers"}
Insertions == [by : Callers, what : Parts, padded : BOOLEAN]

\* An insertion of either kind.
Inserts(t, what) == IF what = "endl" THEN InsertEndl(t) ELSE Insert(t, what)

ConsoleTypes ==
  /\ pc \in [Callers -> Labels] /\ out \in Seq(Insertions) /\ width \in Nat
  /\ writing \in BOOLEAN /\ thrown \in BOOLEAN
  /\ tsc \in Nat /\ pace \subseteq Nat
  /\ t1 \in [Timers -> Int] /\ startTime \in [Timers -> Int] /\ cycles \in [Timers -> Int]
  /\ ghz \in [Timers -> Int] /\ began \in [Timers -> Int] /\ readAt \in [Timers -> Int]

\* Between the compare-exchange that took `writing' and its release, and there
\* with a part of the message inserted.
Section(t) == pc[t] \in {"head", "setw", "us", "args", "endl", "release"}
Partway(t) == pc[t] \in {"setw", "us", "args", "endl"}

\* The flag is set while one logger is in its section, and for good once one
\* has thrown.
Alone ==
  /\ \A t, u \in Loggers : Section(t) /\ Section(u) => t = u
  /\ writing <=> thrown \/ \E t \in Loggers : Section(t)
  /\ thrown => \A t \in Loggers : ~Section(t)

\* The last insertion of a logger is an std::endl, or its message is under way.
LastLine(k) == out[k].by \in Loggers /\ \A l \in k + 1 .. Len(out) : out[l].by \notin Loggers
Ends ==
  \A k \in 1 .. Len(out) : LastLine(k) =>
    IF out[k].what = "endl" THEN \A t \in Loggers : ~Partway(t)
    ELSE thrown \/ Partway(out[k].by)

\* A logger that has set the width finds it set, or a Timer has used it up.
TimerTook(j) == \E k \in 1 .. j : out[k].padded /\ \A l \in k .. j : out[l].by \in Timers
WidthKept == \A t \in Loggers : pc[t] = "us" => width > 0 \/ TimerTook(Len(out))

MessageInv == ConsoleTypes /\ Alone /\ Ends /\ WidthKept /\ MessagesWhole /\ MicrosecondsPadded

\* What a Timer has read of the counter.
Clocked(t) ==
  /\ began[t] = -1 \/ began[t] \in 0 .. tsc
  /\ pc[t] \in {"new", "sleep"} => readAt[t] = -1
  /\ pc[t] = "sleep" => began[t] # -1 /\ t1[t] = Word(began[t])
  /\ pc[t] \notin {"new", "sleep"} /\ began[t] # -1 => startTime[t] = Word(began[t])

TimerInv == ConsoleTypes /\ (\A t \in Timers : Clocked(t)) /\ TimerHonest

-----------------------------------------------------------------------------
(* Types.                                                                  *)

\* The positions of a sequence that grows by one.
LEMMA Positions ==
  ASSUME NEW n \in Nat
  PROVE  /\ \A k \in 1 .. n + 1 : k \in 1 .. n \/ k = n + 1
         /\ \A k \in 1 .. n : k \in 1 .. n + 1 /\ k < n + 1 /\ ~(n + 1 < k) /\ n + 1 \in k + 1 .. n + 1
         /\ n + 1 \in 1 .. n + 1 /\ (n + 1) - 1 = n /\ ~(n + 1 < n + 1)
         /\ \A k \in 1 .. n : \A l \in k + 1 .. n : l \in 1 .. n /\ l \in k + 1 .. n + 1
         /\ \A k \in 1 .. n : \A l \in k .. n : l \in 1 .. n
         /\ \A k \in 1 .. n : \A l \in k .. n + 1 : l \in k .. n \/ l = n + 1
         /\ \A l \in n + 1 .. n + 1 : l = n + 1
         /\ \A j, k \in 1 .. n : \A l \in j .. k - 1 : l \in 1 .. n
         /\ \A j, k \in 1 .. n : \A l \in j + 1 .. k - 1 : l \in 1 .. n
         /\ \A k \in 1 .. n : \A j \in 1 .. k - 1 : j \in 1 .. n
OBVIOUS

LEMMA Inserted ==
  ASSUME ConsoleTypes, NEW t \in Callers, NEW what \in Parts, Inserts(t, what)
  PROVE  LET n == Len(out) IN
         /\ n \in Nat /\ Len(out') = n + 1 /\ DOMAIN out = 1 .. n /\ DOMAIN out' = 1 .. n + 1
         /\ out' \in Seq(Insertions) /\ width' = IF what = "endl" THEN width ELSE 0
         /\ out'[n + 1].by = t /\ out'[n + 1].what = what
         /\ (out'[n + 1].padded <=> what # "endl" /\ width > 0)
         /\ \A k \in 1 .. n : out'[k] = out[k]
<1> DEFINE n == Len(out)
<1>0. PICK b \in BOOLEAN : b = IF what = "endl" THEN FALSE ELSE width > 0
  <2>1. (width > 0) \in BOOLEAN
    <3>1. width \in Nat
      BY Zenon DEF ConsoleTypes
    <3> QED BY <3>1
  <2> QED BY Zenon, <2>1
<1> DEFINE e == [by |-> t, what |-> what, padded |-> b]
<1>1. out \in Seq(Insertions) /\ out' = Append(out, e) /\ width' = IF what = "endl" THEN width ELSE 0
  <2>1. out \in Seq(Insertions)
    BY Zenon DEF ConsoleTypes
  <2>2. CASE what = "endl"
    BY Zenon, <1>0, <2>1, <2>2 DEF Inserts, InsertEndl
  <2>3. CASE what # "endl"
    BY Zenon, <1>0, <2>1, <2>3 DEF Inserts, Insert
  <2> QED BY Zenon, <2>2, <2>3
<1>2. e \in Insertions /\ e.by = t /\ e.what = what /\ e.padded = b
  BY DEF Insertions
<1> HIDE DEF e
<1>3. /\ n \in Nat /\ Len(out') = n + 1 /\ DOMAIN out = 1 .. n /\ DOMAIN out' = 1 .. n + 1
      /\ out' \in Seq(Insertions) /\ out'[n + 1] = e /\ \A k \in 1 .. n : out'[k] = out[k]
  BY <1>1, <1>2
<1>4. b <=> what # "endl" /\ width > 0
  BY Zenon, <1>0
<1> QED BY Zenon, <1>1, <1>2, <1>3, <1>4

LEMMA InsertTypes ==
  ASSUME ConsoleTypes, NEW t \in Callers, NEW what \in Parts, Inserts(t, what)
  PROVE  out' \in Seq(Insertions) /\ width' \in Nat
<1>1. out' \in Seq(Insertions) /\ width' = IF what = "endl" THEN width ELSE 0
  BY Zenon, Inserted
<1>2. width \in Nat /\ 0 \in Nat
  BY DEF ConsoleTypes
<1> QED BY Zenon, <1>1, <1>2

LEMMA WordType == \A x \in Int : Word(x) \in Int
<1>1. PICK m \in Nat \ {0} : m = 2^WordBits
  BY Zenon, ConsoleAssumption
<1>2. \A x \in Int : x % m \in Int
  BY <1>1
<1> QED BY Zenon, <1>1, <1>2 DEF Word

LEMMA StepTypes ==
  ASSUME pc \in [Callers -> Labels], NEW t \in Callers, NEW from, NEW to \in Labels, Step(t, from, to)
  PROVE  /\ pc[t] = from /\ pc'[t] = to /\ pc' \in [Callers -> Labels]
         /\ \A u \in Callers \ {t} : pc'[u] = pc[u]
BY Zenon DEF Step

LEMMA InitConsoleTypes == Init => ConsoleTypes
<1> SUFFICES ASSUME Init PROVE ConsoleTypes
  OBVIOUS
<1>1. /\ pc \in [Callers -> Labels] /\ writing \in BOOLEAN /\ thrown \in BOOLEAN
      /\ pace \subseteq Nat
  BY Zenon, ConsoleAssumption DEF Init, Callers, Labels
<1>2. out \in Seq(Insertions) /\ width \in Nat
  BY DEF Init
<1>3. PICK m \in Nat \ {0} : m = 2^WordBits
  BY Zenon, ConsoleAssumption
<1>4. tsc \in {0, m - 1}
  BY Zenon, <1>3 DEF Init
<1>5. tsc \in Nat
  BY <1>3, <1>4
<1>6. 0 \in Int /\ -1 \in Int /\ 2 \in Int
  OBVIOUS
<1>7. /\ t1 \in [Timers -> Int] /\ startTime \in [Timers -> Int] /\ cycles \in [Timers -> Int]
      /\ ghz \in [Timers -> Int] /\ began \in [Timers -> Int] /\ readAt \in [Timers -> Int]
  BY Zenon, <1>6 DEF Init
<1> QED BY Zenon, <1>1, <1>2, <1>5, <1>7 DEF ConsoleTypes

LEMMA LoggerTypes ==
  ASSUME ConsoleTypes, NEW t \in Loggers, DebugBegin(t) \/ DebugStep(t) \/ Throw(t)
  PROVE  ConsoleTypes'
<1>0. t \in Callers
  BY Zenon DEF Callers
<1>1. UNCHANGED <<tsc, pace, t1, startTime, cycles, ghz, began, readAt>>
  BY Zenon DEF DebugBegin, DebugStep, Throw, TakeFlag, InsertHead, SetWidth, InsertTime, InsertArgs,
               DebugEnd, tvars
<1>2. pc' \in [Callers -> Labels]
  BY Zenon, <1>0 DEF ConsoleTypes, Labels, Step, DebugBegin, DebugStep, Throw, TakeFlag, InsertHead, SetWidth,
                     InsertTime, InsertArgs, DebugEnd
<1>3. writing' \in BOOLEAN /\ thrown' \in BOOLEAN
  BY Zenon DEF ConsoleTypes, DebugBegin, DebugStep, Throw, TakeFlag, InsertHead, SetWidth,
               InsertTime, InsertArgs, DebugEnd
<1>4. out' \in Seq(Insertions) /\ width' \in Nat
  <2>1. \/ UNCHANGED <<out, width>> \/ (UNCHANGED out /\ width' = 6)
        \/ \E what \in {"head", "us", "args", "endl"} : Inserts(t, what)
    BY Zenon DEF DebugBegin, DebugStep, Throw, TakeFlag, InsertHead, SetWidth,
                 InsertTime, InsertArgs, DebugEnd, Inserts
  <2>2. 6 \in Nat
    OBVIOUS
  <2> QED BY Zenon, <1>0, <2>1, <2>2, InsertTypes DEF ConsoleTypes, Parts
<1> QED BY Zenon, <1>1, <1>2, <1>3, <1>4 DEF ConsoleTypes

LEMMA ElapseTypes ==
  ASSUME ConsoleTypes, Elapse
  PROVE  tsc' \in Nat /\ tsc <= tsc' /\ Word(tsc') \in Int
<1>1. PICK c \in Nat : tsc' = tsc + c
  BY Zenon DEF ConsoleTypes, Elapse
<1>2. tsc \in Nat
  BY Zenon DEF ConsoleTypes
<1>3. tsc' \in Nat /\ tsc <= tsc' /\ tsc' \in Int
  BY <1>1, <1>2
<1> QED BY Zenon, <1>3, WordType

LEMMA TimerTypes ==
  ASSUME ConsoleTypes, NEW t \in Timers, TimerStep(t)
  PROVE  ConsoleTypes'
<1>0. t \in Callers
  BY Zenon DEF Callers
<1>1. UNCHANGED <<writing, pace, thrown>>
  BY Zenon DEF TimerStep, SetGHzBegin, SetGHzEnd, start, getTimeCycles, write, cvars
<1>2. pc' \in [Callers -> Labels]
  BY Zenon, <1>0 DEF ConsoleTypes, Labels, Step, TimerStep, SetGHzBegin, SetGHzEnd, start, getTimeCycles, write
<1>3. out' \in Seq(Insertions) /\ width' \in Nat
  <2>1. UNCHANGED <<out, width>> \/ \E what \in {"label", "numbers", "endl"} : Inserts(t, what)
    BY Zenon DEF TimerStep, SetGHzBegin, SetGHzEnd, start, getTimeCycles, write, Inserts
  <2> QED BY Zenon, <1>0, <2>1, InsertTypes DEF ConsoleTypes, Parts
<1>4. CASE write(t)
  BY Zenon, <1>1, <1>2, <1>3, <1>4 DEF ConsoleTypes, write, tvars
<1>5. CASE SetGHzBegin(t) \/ SetGHzEnd(t) \/ start(t) \/ getTimeCycles(t)
  <2>1. tsc' \in Nat /\ Word(tsc') \in Int
    BY Zenon, <1>5, ElapseTypes DEF SetGHzBegin, SetGHzEnd, start, getTimeCycles
  <2>2. tsc' \in Int /\ -1 \in Int
    BY <2>1
  <2>3. /\ \A x \in Int : Word(tsc') - x \in Int
    BY <2>1
  <2>4. Word(Word(tsc') - t1[t]) \in Int /\ Word(Word(tsc') - startTime[t]) \in Int
    BY Zenon, <2>3, WordType DEF ConsoleTypes
  <2>5. t1' \in [Timers -> Int] /\ startTime' \in [Timers -> Int] /\ cycles' \in [Timers -> Int]
    <3>1. CASE SetGHzBegin(t) \/ SetGHzEnd(t)
      BY Zenon, <2>1, <2>4, <3>1 DEF ConsoleTypes, SetGHzBegin, SetGHzEnd
    <3>2. CASE start(t)
      BY Zenon, <2>1, <2>4, <3>2 DEF ConsoleTypes, start
    <3>3. CASE getTimeCycles(t)
      BY Zenon, <2>1, <2>4, <3>3 DEF ConsoleTypes, getTimeCycles
    <3> QED BY Zenon, <1>5, <3>1, <3>2, <3>3
  <2>6. ghz' \in [Timers -> Int] /\ began' \in [Timers -> Int] /\ readAt' \in [Timers -> Int]
    <3>1. CASE SetGHzBegin(t)
      BY Zenon, <2>2, <2>4, <3>1 DEF ConsoleTypes, SetGHzBegin
    <3>2. CASE SetGHzEnd(t)
      BY Zenon, <2>2, <2>4, <3>2 DEF ConsoleTypes, SetGHzEnd
    <3>3. CASE start(t) \/ getTimeCycles(t)
      BY Zenon, <2>2, <2>4, <3>3 DEF ConsoleTypes, start, getTimeCycles
    <3> QED BY Zenon, <1>5, <3>1, <3>2, <3>3
  <2> QED BY Zenon, <1>1, <1>2, <1>3, <2>1, <2>5, <2>6 DEF ConsoleTypes
<1> QED BY Zenon, <1>4, <1>5 DEF TimerStep

-----------------------------------------------------------------------------
(* debugMessage.                                                           *)

LEMMA InitMessageInv == Init => MessageInv
<1> SUFFICES ASSUME Init PROVE MessageInv
  OBVIOUS
<1>1. ConsoleTypes
  BY Zenon, InitConsoleTypes
<1>2. ~writing /\ ~thrown /\ \A t \in Loggers : pc[t] = "idle"
  BY Zenon DEF Init
<1>3. Alone /\ WidthKept
  BY Zenon, <1>2 DEF Alone, WidthKept, Section
<1>4. 1 .. Len(out) = {} /\ DOMAIN out = {}
  BY DEF Init
<1> QED BY Zenon, <1>1, <1>3, <1>4 DEF MessageInv, Ends, MessagesWhole, MicrosecondsPadded

\* The part of a message that t inserts next.
LoggerInserts(t, from, to, what) ==
  /\ Step(t, from, to) /\ Inserts(t, what) /\ UNCHANGED <<writing, thrown>>
  /\ \/ from = "head" /\ to = "setw" /\ what = "head"
     \/ from = "us" /\ to = "args" /\ what = "us"
     \/ from = "args" /\ to = "endl" /\ what = "args"
     \/ from = "endl" /\ to = "release" /\ what = "endl"

LEMMA LoggerInsertsKeeps ==
  ASSUME MessageInv, NEW t \in Loggers, NEW from, NEW to, NEW what, LoggerInserts(t, from, to, what)
  PROVE  Alone' /\ Ends' /\ WidthKept' /\ MessagesWhole' /\ MicrosecondsPadded'
<1> DEFINE n == Len(out)
<1>0. /\ ConsoleTypes /\ Alone /\ Ends /\ WidthKept /\ MessagesWhole /\ MicrosecondsPadded
      /\ t \in Callers /\ Loggers \subseteq Callers
  BY Zenon DEF MessageInv, Callers
<1>1. /\ pc[t] = from /\ pc'[t] = to /\ UNCHANGED <<writing, thrown>> /\ what \in Parts
      /\ \A u \in Loggers \ {t} : pc'[u] = pc[u]
  BY Zenon, <1>0 DEF LoggerInserts, ConsoleTypes, Step, Parts
<1>2. /\ n \in Nat /\ Len(out') = n + 1 /\ DOMAIN out = 1 .. n /\ DOMAIN out' = 1 .. n + 1
      /\ out'[n + 1].by = t /\ out'[n + 1].what = what
      /\ (out'[n + 1].padded <=> what # "endl" /\ width > 0) /\ \A k \in 1 .. n : out'[k] = out[k]
  <2>1. Inserts(t, what)
    BY Zenon DEF LoggerInserts
  <2> QED BY Zenon, <1>0, <1>1, <2>1, Inserted
<1> HIDE DEF n
<1>3. Section(t) /\ Section(t)' /\ \A u \in Loggers \ {t} : ~Section(u) /\ ~Section(u)'
  BY Zenon, <1>0, <1>1 DEF LoggerInserts, Section, Alone
<1>4. ~thrown /\ writing
  BY Zenon, <1>0, <1>3 DEF Alone
<1>5. Alone'
  BY Zenon, <1>1, <1>3, <1>4 DEF Alone
<1>6. \A u \in Loggers \ {t} : ~Partway(u) /\ ~Partway(u)'
  BY Zenon, <1>3 DEF Section, Partway
<1>7. Ends'
  <2> SUFFICES ASSUME NEW k \in 1 .. n + 1, LastLine(k)'
               PROVE  IF out'[k].what = "endl" THEN \A u \in Loggers : ~Partway(u)'
                      ELSE thrown' \/ (pc'[out'[k].by] \in {"setw", "us", "args", "endl"})
    BY Zenon, <1>2 DEF Ends, Partway
  <2>1. k = n + 1
    BY Zenon, <1>2, Positions DEF LastLine
  <2>2. what = "endl" => ~Partway(t)'
    BY Zenon, <1>1 DEF LoggerInserts, Partway
  <2>3. what # "endl" => pc'[t] \in {"setw", "us", "args", "endl"}
    BY Zenon, <1>1 DEF LoggerInserts
  <2> QED BY Zenon, <1>2, <1>6, <2>1, <2>2, <2>3
<1>8. WidthKept'
  <2>1. \A u \in Loggers : pc'[u] # "us"
    BY Zenon, <1>1, <1>3 DEF LoggerInserts, Section
  <2> QED BY Zenon, <2>1 DEF WidthKept
<1>9. MessagesWhole'
  <2> SUFFICES ASSUME NEW j \in 1 .. n + 1, NEW k \in 1 .. n + 1,
                      j < k, out'[j].by \in Loggers, out'[k].by \in Loggers,
                      \A l \in j + 1 .. k - 1 : out'[l].by \notin Loggers
               PROVE  IF out'[j].what = "endl" THEN out'[k].what = "head"
                      ELSE out'[k].by = out'[j].by /\ out'[k].what # "head"
    BY Zenon, <1>2 DEF MessagesWhole
  <2>1. j \in 1 .. n
    BY <1>2
  <2>2. CASE k \in 1 .. n
    <3>1. out'[j] = out[j] /\ out'[k] = out[k] /\ \A l \in j + 1 .. k - 1 : out'[l] = out[l]
      BY Zenon, <1>2, <2>1, <2>2, Positions
    <3>2. IF out[j].what = "endl" THEN out[k].what = "head"
          ELSE out[k].by = out[j].by /\ out[k].what # "head"
      BY Zenon, <1>0, <1>2, <2>1, <2>2, <3>1 DEF MessagesWhole
    <3> QED BY Zenon, <3>1, <3>2
  <2>3. CASE k = n + 1
    <3>1. LastLine(j) /\ out'[j] = out[j] /\ out[j].by \in Loggers
      BY Zenon, <1>2, <2>1, <2>3, Positions DEF LastLine, n
    <3>2. /\ out[j].what = "endl" => ~Partway(t)
          /\ out[j].what # "endl" => Partway(out[j].by)
      BY Zenon, <1>0, <1>4, <2>1, <3>1 DEF Ends, n
    <3>3. Partway(out[j].by) => out[j].by = t /\ Partway(t)
      BY Zenon, <1>6, <3>1
    <3>4. (Partway(t) /\ what # "head") \/ (~Partway(t) /\ what = "head")
      BY Zenon, <1>1 DEF LoggerInserts, Partway
    <3> QED BY Zenon, <1>2, <2>3, <3>1, <3>2, <3>3, <3>4
  <2> QED BY Zenon, <1>2, <2>2, <2>3, Positions
<1>10. MicrosecondsPadded'
  <2> SUFFICES ASSUME NEW j \in 1 .. n + 1, out'[j].what = "us", ~out'[j].padded
               PROVE  \E k \in 1 .. j - 1 : out'[k].padded /\ \A l \in k .. j - 1 : out'[l].by \in Timers
    BY Zenon, <1>2 DEF MicrosecondsPadded
  <2>1. CASE j \in 1 .. n
    <3>1. PICK k \in 1 .. j - 1 : out[k].padded /\ \A l \in k .. j - 1 : out[l].by \in Timers
      BY Zenon, <1>0, <1>2, <2>1 DEF MicrosecondsPadded
    <3>2. k \in 1 .. n /\ \A l \in k .. j - 1 : l \in 1 .. n
      BY Zenon, <1>2, <2>1, Positions
    <3> QED BY Zenon, <1>2, <3>1, <3>2
  <2>2. CASE j = n + 1
    <3>1. pc[t] = "us" /\ ~(width > 0)
      BY Zenon, <1>1, <1>2, <2>2 DEF LoggerInserts
    <3>2. PICK k \in 1 .. n : out[k].padded /\ \A l \in k .. n : out[l].by \in Timers
      BY Zenon, <1>0, <3>1 DEF WidthKept, TimerTook, n
    <3>3. (n + 1) - 1 = n /\ \A l \in k .. n : l \in 1 .. n
      BY Zenon, <1>2, Positions
    <3> QED BY Zenon, <1>2, <2>2, <3>2, <3>3
  <2> QED BY Zenon, <1>2, <2>1, <2>2, Positions
<1> QED BY Zenon, <1>5, <1>7, <1>8, <1>9, <1>10

\* A step of debugMessage that inserts nothing.
LEMMA LoggerMovesKeeps ==
  ASSUME MessageInv, NEW t \in Loggers, NEW from, NEW to, Step(t, from, to), UNCHANGED out,
         \/ from = "idle" /\ to = "cas" /\ UNCHANGED <<writing, thrown, width>>
         \/ from = "cas" /\ to = "head" /\ ~writing /\ writing' = TRUE /\ UNCHANGED <<thrown, width>>
         \/ from = "setw" /\ to = "us" /\ width' > 0 /\ UNCHANGED <<writing, thrown>>
         \/ from = "release" /\ to = "idle" /\ writing' = FALSE /\ UNCHANGED <<thrown, width>>
         \/ from = "args" /\ to = "idle" /\ thrown' = TRUE /\ UNCHANGED <<writing, width>>
  PROVE  Alone' /\ Ends' /\ WidthKept' /\ MessagesWhole' /\ MicrosecondsPadded'
<1>0. /\ ConsoleTypes /\ Alone /\ Ends /\ WidthKept /\ MessagesWhole /\ MicrosecondsPadded
      /\ t \in Callers /\ Loggers \subseteq Callers
  BY Zenon DEF MessageInv, Callers
<1>1. pc[t] = from /\ pc'[t] = to /\ \A u \in Loggers \ {t} : pc'[u] = pc[u]
  BY Zenon, <1>0 DEF ConsoleTypes, Step
<1>2. MessagesWhole' /\ MicrosecondsPadded'
  <2>1. MessagesWhole'
    BY <1>0 DEF MessagesWhole
  <2>2. MicrosecondsPadded'
    BY Zenon, <1>0 DEF MicrosecondsPadded
  <2> QED BY Zenon, <2>1, <2>2
<1>3. \A u \in Loggers \ {t} : (Section(u)' <=> Section(u)) /\ (Partway(u)' <=> Partway(u))
  BY Zenon, <1>1 DEF Section, Partway
<1>4. /\ \A k : LastLine(k)' <=> LastLine(k)
      /\ UNCHANGED Len(out) /\ \A j : TimerTook(j)' <=> TimerTook(j)
  BY Zenon DEF LastLine, TimerTook
<1>5. ASSUME NEW k \in 1 .. Len(out), LastLine(k)
      PROVE  /\ out[k].by \in Loggers
             /\ out[k].what = "endl" => \A u \in Loggers : ~Partway(u)
             /\ out[k].what # "endl" => thrown \/ Partway(out[k].by)
  BY Zenon, <1>0, <1>5 DEF Ends, LastLine
<1>6. CASE ~Section(t) /\ (Section(t)' => ~writing /\ writing') /\ (~Section(t)' => UNCHANGED writing)
           /\ ~Partway(t) /\ ~Partway(t)' /\ UNCHANGED <<thrown, width>> /\ to # "us"
  <2>1. Alone'
    <3>1. CASE Section(t)'
      <4>1. ~thrown' /\ writing' /\ \A u \in Loggers \ {t} : ~Section(u)'
        BY Zenon, <1>0, <1>3, <1>6, <3>1 DEF Alone
      <4> QED BY Zenon, <3>1, <4>1 DEF Alone
    <3>2. CASE ~Section(t)'
      <4>1. \A u \in Loggers : Section(u)' <=> Section(u)
        BY Zenon, <1>3, <1>6, <3>2
      <4>2. (writing' <=> writing) /\ (thrown' <=> thrown)
        BY <1>6, <3>2
      <4> QED BY Zenon, <1>0, <4>1, <4>2 DEF Alone
    <3> QED BY Zenon, <3>1, <3>2
  <2>2. \A u \in Loggers : Partway(u)' <=> Partway(u)
    BY Zenon, <1>3, <1>6
  <2>3. \A k \in 1 .. Len(out) : LastLine(k) => (Partway(out[k].by)' <=> Partway(out[k].by))
    BY Zenon, <1>5, <2>2 DEF Partway
  <2>4. Ends'
    BY Zenon, <1>4, <1>5, <1>6, <2>2, <2>3 DEF Ends
  <2>5. WidthKept'
    BY Zenon, <1>0, <1>1, <1>4, <1>6 DEF WidthKept
  <2> QED BY Zenon, <1>2, <2>1, <2>4, <2>5
<1>7. CASE Section(t) /\ Section(t)' /\ Partway(t) /\ Partway(t)' /\ width' > 0 /\ UNCHANGED <<writing, thrown>>
  <2>1. Alone' /\ \A u \in Loggers \ {t} : ~Section(u) /\ ~Section(u)'
    BY Zenon, <1>0, <1>3, <1>7 DEF Alone
  <2>2. \A u \in Loggers : Partway(u)' <=> Partway(u)
    BY Zenon, <1>3, <1>7
  <2>3. \A k \in 1 .. Len(out) : LastLine(k) => (Partway(out[k].by)' <=> Partway(out[k].by))
    BY Zenon, <1>5, <2>2 DEF Partway
  <2>4. Ends'
    BY Zenon, <1>4, <1>5, <1>7, <2>2, <2>3 DEF Ends
  <2>5. WidthKept'
    BY Zenon, <1>7, <2>1 DEF WidthKept, Section
  <2> QED BY Zenon, <1>2, <2>1, <2>4, <2>5
<1>8. CASE /\ Section(t) /\ ~Section(t)' /\ ~Partway(t)' /\ to # "us"
           /\ \/ ~Partway(t) /\ writing' = FALSE /\ UNCHANGED thrown
              \/ thrown' = TRUE /\ UNCHANGED writing
  <2>1. ~thrown /\ writing /\ \A u \in Loggers \ {t} : ~Section(u) /\ ~Section(u)'
    BY Zenon, <1>0, <1>3, <1>8 DEF Alone
  <2>2. Alone'
    <3>1. \A u \in Loggers : ~Section(u)'
      BY Zenon, <1>8, <2>1
    <3>2. writing' <=> thrown'
      <4>1. CASE writing' = FALSE /\ UNCHANGED thrown
        BY <2>1, <4>1
      <4>2. CASE thrown' = TRUE /\ UNCHANGED writing
        BY <2>1, <4>2
      <4> QED BY Zenon, <1>8, <4>1, <4>2
    <3> QED BY Zenon, <3>1, <3>2 DEF Alone
  <2>3. \A u \in Loggers : ~Partway(u)'
    BY Zenon, <1>8, <2>1 DEF Section, Partway
  <2>4. \A u \in Loggers \ {t} : ~Partway(u)
    BY Zenon, <2>1 DEF Section, Partway
  <2>5. \A k \in 1 .. Len(out) : LastLine(k) => out[k].what = "endl" \/ thrown'
    BY Zenon, <1>5, <1>8, <2>1, <2>4
  <2>6. Ends'
    BY Zenon, <1>4, <2>3, <2>5 DEF Ends
  <2>7. WidthKept'
    BY Zenon, <1>1, <1>8, <2>1 DEF WidthKept, Section
  <2> QED BY Zenon, <1>2, <2>2, <2>6, <2>7
<1> QED BY Zenon, <1>1, <1>6, <1>7, <1>8 DEF Section, Partway

\* What a Timer inserts, and its steps that insert nothing.
LEMMA TimerKeeps ==
  ASSUME MessageInv, NEW t \in Timers, TimerStep(t)
  PROVE  Alone' /\ Ends' /\ WidthKept' /\ MessagesWhole' /\ MicrosecondsPadded'
<1> DEFINE n == Len(out)
<1>0. /\ ConsoleTypes /\ Alone /\ Ends /\ WidthKept /\ MessagesWhole /\ MicrosecondsPadded
      /\ t \in Callers /\ Loggers \subseteq Callers /\ t \notin Loggers
  BY Zenon, ConsoleAssumption DEF MessageInv, Callers
<1>1. UNCHANGED <<writing, thrown>> /\ \A u \in Loggers : pc'[u] = pc[u]
  BY Zenon, <1>0 DEF TimerStep, SetGHzBegin, SetGHzEnd, start, getTimeCycles, write, cvars, Step,
                     ConsoleTypes
<1>2. \A u \in Loggers : (Section(u)' <=> Section(u)) /\ (Partway(u)' <=> Partway(u))
  BY Zenon, <1>1 DEF Section, Partway
<1>3. Alone'
  <2>1. (writing' <=> writing) /\ (thrown' <=> thrown)
    BY <1>1
  <2> QED BY Zenon, <1>0, <1>2, <2>1 DEF Alone
<1>4. ASSUME NEW k \in 1 .. Len(out), LastLine(k)
      PROVE  /\ out[k].by \in Loggers
             /\ out[k].what = "endl" => \A u \in Loggers : ~Partway(u)
             /\ out[k].what # "endl" => thrown \/ Partway(out[k].by)
  BY Zenon, <1>0, <1>4 DEF Ends, LastLine
<1>5. CASE UNCHANGED <<out, width>>
  <2>1. MessagesWhole' /\ MicrosecondsPadded'
    <3>1. MessagesWhole'
      BY <1>0, <1>5 DEF MessagesWhole
    <3>2. MicrosecondsPadded'
      BY Zenon, <1>0, <1>5 DEF MicrosecondsPadded
    <3> QED BY Zenon, <3>1, <3>2
  <2>2. WidthKept'
    BY Zenon, <1>0, <1>1, <1>5 DEF WidthKept, TimerTook
  <2>3. \A k : LastLine(k)' <=> LastLine(k)
    BY Zenon, <1>5 DEF LastLine
  <2>4. \A k \in 1 .. Len(out) : LastLine(k) => (Partway(out[k].by)' <=> Partway(out[k].by))
    BY Zenon, <1>2, <1>4, <1>5 DEF Partway
  <2>5. Ends'
    BY Zenon, <1>1, <1>2, <1>4, <1>5, <2>3, <2>4 DEF Ends
  <2> QED BY Zenon, <1>3, <2>1, <2>2, <2>5
<1>6. ASSUME NEW what \in {"label", "numbers", "endl"}, Inserts(t, what)
      PROVE  Ends' /\ WidthKept' /\ MessagesWhole' /\ MicrosecondsPadded'
  <2>1. /\ n \in Nat /\ Len(out') = n + 1 /\ DOMAIN out = 1 .. n /\ DOMAIN out' = 1 .. n + 1
        /\ out'[n + 1].by = t /\ out'[n + 1].what = what
        /\ (out'[n + 1].padded <=> what # "endl" /\ width > 0) /\ \A k \in 1 .. n : out'[k] = out[k]
        /\ width' = IF what = "endl" THEN width ELSE 0
    <3>1. what \in Parts
      BY Zenon DEF Parts
    <3> QED BY Zenon, <1>0, <1>6, <3>1, Inserted
  <2> HIDE DEF n
  <2>2. Ends'
    <3> SUFFICES ASSUME NEW k \in 1 .. n + 1, LastLine(k)'
                 PROVE  IF out'[k].what = "endl" THEN \A u \in Loggers : ~Partway(u)'
                        ELSE thrown' \/ (pc'[out'[k].by] \in {"setw", "us", "args", "endl"})
      BY Zenon, <2>1 DEF Ends, Partway
    <3>1. k \in 1 .. n
      BY Zenon, <1>0, <2>1, Positions DEF LastLine
    <3>2. LastLine(k) /\ out'[k] = out[k]
      BY Zenon, <2>1, <3>1, Positions DEF LastLine, n
    <3>3. /\ out[k].by \in Loggers
          /\ out[k].what = "endl" => \A u \in Loggers : ~Partway(u)
          /\ out[k].what # "endl" => thrown \/ Partway(out[k].by)
      BY Zenon, <1>4, <3>1, <3>2 DEF n
    <3>4. thrown => thrown'
      BY <1>1
    <3> QED BY Zenon, <1>1, <1>2, <3>2, <3>3, <3>4 DEF Partway
  <2>3. WidthKept'
    <3> SUFFICES ASSUME NEW u \in Loggers, pc[u] = "us"
                 PROVE  \/ width' > 0
                        \/ \E k \in 1 .. n + 1 : out'[k].padded /\ \A l \in k .. n + 1 : out'[l].by \in Timers
      BY Zenon, <1>1, <2>1 DEF WidthKept, TimerTook
    <3>1. CASE width > 0
      <4>1. CASE what = "endl"
        BY Zenon, <2>1, <3>1, <4>1
      <4>2. CASE what # "endl"
        BY Zenon, <2>1, <3>1, <4>2, Positions
      <4> QED BY Zenon, <4>1, <4>2
    <3>2. CASE ~(width > 0)
      <4>1. PICK k \in 1 .. n : out[k].padded /\ \A l \in k .. n : out[l].by \in Timers
        BY Zenon, <1>0, <3>2 DEF WidthKept, TimerTook, n
      <4>2. k \in 1 .. n + 1 /\ out'[k].padded
        BY Zenon, <2>1, <4>1, Positions
      <4>3. \A l \in k .. n + 1 : out'[l].by \in Timers
        <5>1. /\ \A l \in k .. n + 1 : l \in k .. n \/ l = n + 1
              /\ \A l \in k .. n : l \in 1 .. n
          BY Zenon, <2>1, <4>1, Positions
        <5>2. \A l \in k .. n : out'[l].by \in Timers
          BY Zenon, <2>1, <4>1, <5>1
        <5> QED BY Zenon, <2>1, <5>1, <5>2
      <4> QED BY Zenon, <4>2, <4>3
    <3> QED BY Zenon, <3>1, <3>2
  <2>4. MessagesWhole'
    <3> SUFFICES ASSUME NEW j \in 1 .. n + 1, NEW k \in 1 .. n + 1,
                        j < k, out'[j].by \in Loggers, out'[k].by \in Loggers,
                        \A l \in j + 1 .. k - 1 : out'[l].by \notin Loggers
                 PROVE  IF out'[j].what = "endl" THEN out'[k].what = "head"
                        ELSE out'[k].by = out'[j].by /\ out'[k].what # "head"
      BY Zenon, <2>1 DEF MessagesWhole
    <3>1. j \in 1 .. n /\ k \in 1 .. n
      BY Zenon, <1>0, <2>1, Positions
    <3>2. out'[j] = out[j] /\ out'[k] = out[k] /\ \A l \in j + 1 .. k - 1 : out'[l] = out[l]
      BY Zenon, <2>1, <3>1, Positions
    <3>3. /\ j \in DOMAIN out /\ k \in DOMAIN out /\ out[j].by \in Loggers /\ out[k].by \in Loggers
          /\ \A l \in j + 1 .. k - 1 : out[l].by \notin Loggers
      BY Zenon, <2>1, <3>1, <3>2
    <3>4. IF out[j].what = "endl" THEN out[k].what = "head"
          ELSE out[k].by = out[j].by /\ out[k].what # "head"
      BY Zenon, <1>0, <3>3 DEF MessagesWhole
    <3> QED BY Zenon, <3>2, <3>4
  <2>5. MicrosecondsPadded'
    <3> SUFFICES ASSUME NEW j \in 1 .. n + 1, out'[j].what = "us", ~out'[j].padded
                 PROVE  \E k \in 1 .. j - 1 : out'[k].padded /\ \A l \in k .. j - 1 : out'[l].by \in Timers
      BY Zenon, <2>1 DEF MicrosecondsPadded
    <3>0. j \in 1 .. n
      BY Zenon, <2>1, Positions
    <3>1. PICK k \in 1 .. j - 1 : out[k].padded /\ \A l \in k .. j - 1 : out[l].by \in Timers
      BY Zenon, <1>0, <2>1, <3>0 DEF MicrosecondsPadded
    <3>2. k \in 1 .. n /\ \A l \in k .. j - 1 : l \in 1 .. n
      BY Zenon, <2>1, <3>0, Positions
    <3> QED BY Zenon, <2>1, <3>1, <3>2
  <2> QED BY Zenon, <2>2, <2>3, <2>4, <2>5
<1>7. UNCHANGED <<out, width>> \/ \E what \in {"label", "numbers", "endl"} : Inserts(t, what)
  BY Zenon DEF TimerStep, SetGHzBegin, SetGHzEnd, start, getTimeCycles, write, Inserts
<1> QED BY Zenon, <1>3, <1>5, <1>6, <1>7

LEMMA NextMessageInv == MessageInv /\ [Next]_vars => MessageInv'
<1> SUFFICES ASSUME MessageInv, [Next]_vars PROVE MessageInv'
  OBVIOUS
<1>0. ConsoleTypes
  BY Zenon DEF MessageInv
<1>1. ASSUME NEW t \in Loggers, DebugBegin(t) \/ DebugStep(t) \/ Throw(t) PROVE MessageInv'
  <2>1. ConsoleTypes'
    BY Zenon, <1>0, <1>1, LoggerTypes
  <2>2. CASE InsertHead(t) \/ InsertTime(t) \/ InsertArgs(t) \/ LoggerInserts(t, "endl", "release", "endl")
    <3>1. \/ LoggerInserts(t, "head", "setw", "head") \/ LoggerInserts(t, "us", "args", "us")
          \/ LoggerInserts(t, "args", "endl", "args") \/ LoggerInserts(t, "endl", "release", "endl")
      BY Zenon, <2>2 DEF InsertHead, InsertTime, InsertArgs, LoggerInserts, Inserts
    <3> QED BY Zenon, <2>1, <3>1, LoggerInsertsKeeps DEF MessageInv
  <2>3. CASE DebugBegin(t)
    BY Zenon, <2>1, <2>3, LoggerMovesKeeps DEF DebugBegin, MessageInv
  <2>4. CASE TakeFlag(t)
    BY Zenon, <2>1, <2>4, LoggerMovesKeeps DEF TakeFlag, MessageInv
  <2>5. CASE SetWidth(t)
    <3>1. width' = 6 /\ Step(t, "setw", "us") /\ UNCHANGED <<out, writing, thrown>>
      BY Zenon, <2>5 DEF SetWidth
    <3>2. width' > 0
      BY <3>1
    <3> QED BY Zenon, <2>1, <3>1, <3>2, LoggerMovesKeeps DEF MessageInv
  <2>6. CASE Step(t, "release", "idle") /\ writing' = FALSE /\ UNCHANGED <<width, out, thrown>>
    BY Zenon, <2>1, <2>6, LoggerMovesKeeps DEF MessageInv
  <2>7. CASE Throw(t)
    BY Zenon, <2>1, <2>7, LoggerMovesKeeps DEF Throw, MessageInv
  <2>8. DebugEnd(t) => \/ LoggerInserts(t, "endl", "release", "endl")
                       \/ Step(t, "release", "idle") /\ writing' = FALSE /\ UNCHANGED <<width, out, thrown>>
    BY Zenon DEF DebugEnd, LoggerInserts, Inserts
  <2> QED BY Zenon, <1>1, <2>2, <2>3, <2>4, <2>5, <2>6, <2>7, <2>8 DEF DebugStep
<1>2. ASSUME NEW t \in Timers, TimerStep(t) PROVE MessageInv'
  BY Zenon, <1>0, <1>2, TimerTypes, TimerKeeps DEF MessageInv
<1>3. CASE UNCHANGED vars
  <2>1. UNCHANGED <<writing, width, out, pc, pace, thrown, tsc, t1, startTime, cycles, ghz, began, readAt>>
    BY Zenon, <1>3 DEF vars, tvars
  <2>2. ConsoleTypes'
    BY Zenon, <1>0, <2>1 DEF ConsoleTypes
  <2>3. Alone' /\ Ends' /\ WidthKept'
    BY <2>1 DEF MessageInv, Alone, Ends, WidthKept, Section, Partway, LastLine, TimerTook
  <2>4. MessagesWhole' /\ MicrosecondsPadded'
    BY <2>1 DEF MessageInv, MessagesWhole, MicrosecondsPadded
  <2> QED BY Zenon, <2>2, <2>3, <2>4 DEF MessageInv
<1> QED BY Zenon, <1>1, <1>2, <1>3 DEF Next

LEMMA MessageInvariant == Spec => []MessageInv
BY InitMessageInv, NextMessageInv, PTL DEF Spec

\* The messages of any number of threads are not mixed, and nothing follows one
\* whose argument has thrown.
THEOREM MessagesStayWhole == Spec => []MessagesWhole
<1>1. MessageInv => MessagesWhole
  BY Zenon DEF MessageInv
<1> QED BY <1>1, MessageInvariant, PTL

\* The padding of the microseconds is lost only to a Timer that writes in between.
THEOREM PaddingIsLostToTimers == Spec => []MicrosecondsPadded
<1>1. MessageInv => MicrosecondsPadded
  BY Zenon DEF MessageInv
<1> QED BY <1>1, MessageInvariant, PTL

-----------------------------------------------------------------------------
(* The Timer.                                                              *)

LEMMA Remainder ==
  ASSUME NEW m \in Nat \ {0}, NEW x \in Int
  PROVE  x % m \in 0 .. m - 1 /\ x \div m \in Int /\ x = m * (x \div m) + (x % m)
OBVIOUS

\* A number is quotient and remainder in one way only.
LEMMA OneRemainder ==
  ASSUME NEW m \in Nat \ {0}, NEW p \in Int, NEW q \in Int,
         NEW r \in 0 .. m - 1, NEW s \in 0 .. m - 1, m * p + r = m * q + s
  PROVE  r = s
<1> DEFINE d == p - q
<1>1. d \in Int /\ m * d = s - r
  OBVIOUS
<1> HIDE DEF d
<1>2. d >= 1 => m * d >= m * 1
  BY <1>1
<1>3. d <= -1 => m * d <= m * (-1)
  BY <1>1
<1>4. d = 0
  BY <1>1, <1>2, <1>3
<1> QED BY <1>1, <1>4

\* The difference of two readings is that of the cycles, if the counter has
\* not gone round more than once.
LEMMA WordDifference ==
  ASSUME NEW a \in Nat, NEW b \in Nat, b <= a, a - b < 2^WordBits
  PROVE  Word(Word(a) - Word(b)) = a - b
<1>1. PICK m \in Nat \ {0} : m = 2^WordBits
  BY Zenon, ConsoleAssumption
<1>2. /\ a % m \in Int /\ b % m \in Int /\ a \div m \in Int /\ b \div m \in Int
      /\ a = m * (a \div m) + (a % m) /\ b = m * (b \div m) + (b % m)
  <2>1. a \in Int /\ b \in Int
    OBVIOUS
  <2>2. a % m \in 0 .. m - 1 /\ b % m \in 0 .. m - 1
    BY Zenon, <2>1, Remainder
  <2>3. a % m \in Int /\ b % m \in Int
    BY <2>2
  <2> QED BY Zenon, <2>1, <2>3, Remainder
<1>3. a - b \in 0 .. m - 1
  BY <1>1
<1> DEFINE d == (a % m) - (b % m)
           q == (b \div m) - (a \div m)
<1>4. d \in Int /\ q \in Int /\ d = m * q + (a - b)
  BY <1>2
<1>5. d % m = a - b
  <2> HIDE DEF d, q
  <2>1. d % m \in 0 .. m - 1 /\ d \div m \in Int /\ d = m * (d \div m) + (d % m)
    BY Zenon, <1>4, Remainder
  <2> QED BY Zenon, <1>3, <1>4, <2>1, OneRemainder
<1> QED BY Zenon, <1>1, <1>5 DEF Word

LEMMA InitTimerInv == Init => TimerInv
<1> SUFFICES ASSUME Init PROVE TimerInv
  OBVIOUS
<1>1. \A t \in Timers : pc[t] = "new" /\ began[t] = -1 /\ readAt[t] = -1
  BY Zenon, ConsoleAssumption DEF Init
<1>2. ~(-1 >= 0)
  OBVIOUS
<1> QED BY Zenon, <1>1, <1>2, InitConsoleTypes DEF TimerInv, Clocked, TimerHonest

\* What the proof asks of each Timer; a step changes it for one of them only.
Honest(t) ==
  /\ began[t] >= 0 /\ readAt[t] >= 0 /\ readAt[t] - began[t] < 2^WordBits
       => cycles[t] = readAt[t] - began[t]
  /\ pc[t] \notin {"new", "sleep"} /\ t \notin signalled => ghz[t] >= Second

LEMMA OtherTimers ==
  ASSUME NEW t \in Timers, Clocked(t), Honest(t), tsc \in Nat, tsc' \in Nat, tsc <= tsc', began[t] \in Int,
         UNCHANGED <<pc[t], t1[t], startTime[t], cycles[t], ghz[t], began[t], readAt[t]>>,
         t \in signalled => t \in signalled'
  PROVE  Clocked(t)' /\ Honest(t)'
<1>1. began[t] \in 0 .. tsc => began[t] \in 0 .. tsc'
  OBVIOUS
<1>2. Clocked(t)'
  BY Zenon, <1>1 DEF Clocked
<1>3. Honest(t)'
  BY Zenon DEF Honest
<1> QED BY Zenon, <1>2, <1>3

LEMMA TimerClocked ==
  ASSUME TimerInv, NEW t \in Timers, TimerStep(t)
  PROVE  \A u \in Timers : Clocked(u)' /\ Honest(u)'
<1>0. /\ ConsoleTypes /\ \A u \in Timers : Clocked(u) /\ Honest(u)
      /\ t \in Callers /\ Timers \subseteq Callers
  BY Zenon DEF TimerInv, TimerHonest, Honest, Callers
<1>1. /\ tsc \in Nat /\ t1 \in [Timers -> Int] /\ startTime \in [Timers -> Int] /\ cycles \in [Timers -> Int]
      /\ ghz \in [Timers -> Int] /\ began \in [Timers -> Int] /\ readAt \in [Timers -> Int]
      /\ pc \in [Callers -> Labels] /\ pace \subseteq Nat
  BY Zenon, <1>0 DEF ConsoleTypes
<1>2. tsc' \in Nat /\ tsc <= tsc'
  <2>1. CASE Elapse
    BY Zenon, <1>0, <2>1, ElapseTypes
  <2>2. CASE tsc' = tsc
    BY <1>1, <2>2
  <2> QED BY Zenon, <2>1, <2>2 DEF TimerStep, SetGHzBegin, SetGHzEnd, start, getTimeCycles, write
<1>3. ASSUME NEW u \in Timers \ {t} PROVE Clocked(u)' /\ Honest(u)'
  <2>1. UNCHANGED <<pc[u], t1[u], startTime[u], cycles[u], ghz[u], began[u], readAt[u]>>
    <3>1. CASE SetGHzBegin(t)
      BY Zenon, <1>0, <1>1, <3>1 DEF SetGHzBegin, Step
    <3>2. CASE SetGHzEnd(t)
      BY Zenon, <1>0, <1>1, <3>2 DEF SetGHzEnd, Step
    <3>3. CASE start(t)
      BY Zenon, <1>0, <1>1, <3>3 DEF start, Step
    <3>4. CASE getTimeCycles(t)
      BY Zenon, <1>0, <1>1, <3>4 DEF getTimeCycles, Step
    <3>5. CASE write(t)
      BY Zenon, <1>0, <1>1, <3>5 DEF write, Step, tvars
    <3> QED BY Zenon, <3>1, <3>2, <3>3, <3>4, <3>5 DEF TimerStep
  <2>2. u \in signalled => u \in signalled'
    BY Zenon DEF TimerStep, SetGHzBegin, SetGHzEnd, start, getTimeCycles, write, tvars
  <2> QED BY Zenon, <1>0, <1>1, <1>2, <2>1, <2>2, OtherTimers
<1>4. ~(-1 >= 0) /\ tsc' \in 0 .. tsc' /\ \A k \in 0 .. tsc : k \in 0 .. tsc'
  BY <1>1, <1>2
<1>5. CASE SetGHzBegin(t)
  <2>1. /\ pc[t] = "new" /\ pc'[t] = "sleep" /\ t1'[t] = Word(tsc') /\ began'[t] = tsc' /\ readAt' = readAt
    BY Zenon, <1>0, <1>1, <1>5 DEF SetGHzBegin, Step
  <2>2. readAt[t] = -1
    BY Zenon, <1>0, <2>1 DEF Clocked
  <2>3. tsc' # -1
    BY <1>2
  <2>4. Clocked(t)' /\ Honest(t)'
    BY Zenon, <1>4, <2>1, <2>2, <2>3 DEF Clocked, Honest
  <2> QED BY Zenon, <1>3, <2>4
<1>6. CASE SetGHzEnd(t)
  <2>1. /\ pc[t] = "sleep" /\ pc'[t] = "ready" /\ tsc' - began[t] < 2^WordBits
        /\ ghz'[t] = Word(Word(tsc') - t1[t]) /\ began'[t] = -1
        /\ tsc' < began[t] + Second => t \in signalled'
    BY Zenon, <1>0, <1>1, <1>6 DEF SetGHzEnd, Step
  <2>2. began[t] \in 0 .. tsc /\ t1[t] = Word(began[t])
    BY Zenon, <1>0, <2>1 DEF Clocked
  <2>3. began[t] \in Nat /\ began[t] <= tsc'
    BY <1>1, <1>2, <2>2
  <2>4. ghz'[t] = tsc' - began[t]
    BY Zenon, <1>2, <2>1, <2>2, <2>3, WordDifference
  <2>5. t \notin signalled' => ghz'[t] >= Second
    BY <1>2, <2>1, <2>3, <2>4, ConsoleAssumption
  <2>6. Clocked(t)' /\ Honest(t)'
    BY Zenon, <1>4, <2>1, <2>5 DEF Clocked, Honest
  <2> QED BY Zenon, <1>3, <2>6
<1>7. CASE start(t)
  <2>1. /\ pc[t] = "ready" /\ pc'[t] = "ready" /\ startTime'[t] = Word(tsc') /\ began'[t] = tsc'
        /\ readAt'[t] = -1 /\ ghz' = ghz /\ signalled' = signalled
    BY Zenon, <1>0, <1>1, <1>7 DEF start, Step
  <2>2. Clocked(t)' /\ Honest(t)'
    BY Zenon, <1>0, <1>4, <2>1 DEF Clocked, Honest
  <2> QED BY Zenon, <1>3, <2>2
<1>8. CASE getTimeCycles(t)
  <2>1. /\ pc[t] = "ready" /\ pc'[t] \in {"ready", "label"} /\ readAt'[t] = tsc'
        /\ cycles'[t] = Word(Word(tsc') - startTime[t])
        /\ began' = began /\ startTime' = startTime /\ ghz' = ghz /\ signalled' = signalled
    BY Zenon, <1>0, <1>1, <1>8 DEF getTimeCycles, Step
  <2>2. ASSUME began[t] >= 0, tsc' - began[t] < 2^WordBits PROVE cycles'[t] = tsc' - began[t]
    <3>1. began[t] # -1
      BY Zenon, <1>4, <2>2
    <3>2. began[t] \in 0 .. tsc /\ startTime[t] = Word(began[t])
      BY Zenon, <1>0, <2>1, <3>1 DEF Clocked
    <3>3. began[t] \in Nat /\ began[t] <= tsc'
      BY <1>1, <1>2, <3>2
    <3> QED BY Zenon, <1>2, <2>1, <2>2, <3>2, <3>3, WordDifference
  <2>3. Clocked(t)'
    BY Zenon, <1>0, <1>4, <2>1 DEF Clocked
  <2>4. Honest(t)'
    BY Zenon, <1>0, <2>1, <2>2 DEF Honest
  <2> QED BY Zenon, <1>3, <2>3, <2>4
<1>9. CASE write(t)
  <2>1. /\ pc[t] \in {"label", "numbers", "timerEndl"} /\ pc'[t] \in {"numbers", "timerEndl", "ready"}
        /\ UNCHANGED <<startTime, cycles, ghz, began, readAt, signalled, tsc>>
    BY Zenon, <1>0, <1>1, <1>9 DEF write, Step, tvars
  <2>2. Clocked(t)' /\ Honest(t)'
    BY Zenon, <1>0, <2>1 DEF Clocked, Honest
  <2> QED BY Zenon, <1>3, <2>2
<1> QED BY Zenon, <1>5, <1>6, <1>7, <1>8, <1>9 DEF TimerStep

LEMMA NextTimerInv == TimerInv /\ [Next]_vars => TimerInv'
<1> SUFFICES ASSUME TimerInv, [Next]_vars PROVE TimerInv'
  OBVIOUS
<1>0. ConsoleTypes /\ \A u \in Timers : Clocked(u) /\ Honest(u)
  BY Zenon DEF TimerInv, TimerHonest, Honest
<1>1. ASSUME ConsoleTypes', \A u \in Timers : Clocked(u)' /\ Honest(u)' PROVE TimerInv'
  BY Zenon, <1>1 DEF TimerInv, TimerHonest, Honest
<1>2. ASSUME NEW t \in Timers, TimerStep(t) PROVE TimerInv'
  BY Zenon, <1>0, <1>1, <1>2, TimerTypes, TimerClocked
<1>3. ASSUME NEW t \in Loggers, DebugBegin(t) \/ DebugStep(t) \/ Throw(t) PROVE TimerInv'
  <2>1. ConsoleTypes'
    BY Zenon, <1>0, <1>3, LoggerTypes
  <2>2. UNCHANGED <<tsc, tvars>> /\ \A u \in Timers : pc'[u] = pc[u]
    <3>1. UNCHANGED <<tsc, tvars>> /\ \E from, to : Step(t, from, to)
      BY Zenon, <1>3 DEF DebugBegin, DebugStep, TakeFlag, InsertHead, SetWidth, InsertTime, InsertArgs,
                         DebugEnd, Throw
    <3> QED BY Zenon, <1>0, <3>1, ConsoleAssumption DEF Step, ConsoleTypes, Callers
  <2>3. \A u \in Timers : Clocked(u)' /\ Honest(u)'
    BY Zenon, <1>0, <2>2 DEF Clocked, Honest, tvars
  <2> QED BY Zenon, <1>1, <2>1, <2>3
<1>4. CASE UNCHANGED vars
  <2>1. UNCHANGED <<writing, width, out, pc, pace, thrown, tsc, t1, startTime, cycles, ghz, began, readAt, signalled>>
    BY Zenon, <1>4 DEF vars, tvars
  <2>2. ConsoleTypes'
    BY Zenon, <1>0, <2>1 DEF ConsoleTypes
  <2>3. \A u \in Timers : Clocked(u)' /\ Honest(u)'
    BY Zenon, <1>0, <2>1 DEF Clocked, Honest
  <2> QED BY Zenon, <1>1, <2>2, <2>3
<1> QED BY Zenon, <1>2, <1>3, <1>4 DEF Next

\* A Timer reports the cycles since start() across a wrap of the counter, and
\* its calibration takes at least a second unless a signal cuts it short.
THEOREM TimersAreHonest == Spec => []TimerHonest
<1>1. TimerInv => TimerHonest
  BY Zenon DEF TimerInv
<1> QED BY <1>1, InitTimerInv, NextTimerInv, PTL DEF Spec

=============================================================================
