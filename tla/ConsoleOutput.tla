---------------------------- MODULE ConsoleOutput ----------------------------
(***************************************************************************)
(* What AstraLib prints: Debug/debugFunc.hpp's debugMessage, whose callers *)
(* take turns by the flag `writing', and Time/timer.hpp's Timer, whose     *)
(* write() uses the same std::cout without it.  An insertion is one step.  *)
(***************************************************************************)
EXTENDS Integers, Sequences

CONSTANTS
  Loggers, Timers,   \* threads that call debugMessage; threads with a Timer of their own
  Configs,           \* the values of <<left, pace>> to look at
  WordBits,          \* width of uint64_t
  Second             \* cycles in the second that setGHz sleeps

\* A thread logs or has a Timer; the counter only goes forward.
ASSUME ConsoleAssumption ==
  /\ Loggers \cap Timers = {}
  /\ 2^WordBits \in Nat \ {0} /\ Second \in Nat
  /\ \A c \in Configs : c[2] \subseteq Nat

VARIABLES
  writing,
  width,             \* of std::cout
  out,               \* history: the insertions
  pc,
  left,              \* bound on the calls that a logger, or the owner of a Timer, still makes
  pace,              \* cycles that may pass between two steps of a Timer
  thrown,            \* an insertion has thrown out of debugMessage
  tsc,               \* cycles since boot; __rdtscp reads Word of them
  t1, startTime, cycles,     \* registers of a Timer
  ghz,               \* cycles per second; the double of the code, scaled
  began, readAt,     \* history: tsc at start() and at the last reading since; -1 before
  signalled          \* history: sleep(1) of the Timer was cut short

tvars == <<t1, startTime, cycles, ghz, began, readAt, signalled>>
vars == <<writing, width, out, pc, left, pace, thrown, tsc, tvars>>

Word(x) == x % 2^WordBits

\* The members of a Timer are not initialised before its calls set them.
Init ==
  /\ writing = FALSE /\ width = 0 /\ out = <<>> /\ thrown = FALSE
  /\ pc = [t \in Loggers \cup Timers |-> IF t \in Loggers THEN "idle" ELSE "new"]
  /\ \E c \in Configs : left = c[1] /\ pace = c[2]
  /\ tsc \in {0, 2^WordBits - 1}
  /\ t1 = [t \in Timers |-> 0] /\ startTime \in [Timers -> {0, 2}] /\ cycles = [t \in Timers |-> 0]
  /\ began = [t \in Timers |-> -1] /\ readAt = [t \in Timers |-> -1]
  /\ ghz = [t \in Timers |-> 0] /\ signalled = {}

Step(t, from, to) == pc[t] = from /\ pc' = [pc EXCEPT ![t] = to]

MakeCall(t) == left[t] > 0 /\ left' = [left EXCEPT ![t] = left[t] - 1]

\* A formatted insertion is padded to the width of the stream and resets it;
\* std::endl puts its newline and leaves the width alone.
Insert(t, what) ==
  out' = Append(out, [by |-> t, what |-> what, padded |-> width > 0]) /\ width' = 0
InsertEndl(t) ==
  out' = Append(out, [by |-> t, what |-> "endl", padded |-> FALSE]) /\ width' = width

-----------------------------------------------------------------------------
(* debugMessage.                                                           *)

\* The time is read before the flag is taken.
DebugBegin(t) ==
  /\ MakeCall(t) /\ Step(t, "idle", "cas")
  /\ UNCHANGED <<writing, width, out, pace, thrown, tsc, tvars>>

\* compare_exchange_weak(expected, true), repeated while it fails.
TakeFlag_Mutant(t) ==
  /\ Step(t, "cas", "head") /\ writing' = TRUE
  /\ UNCHANGED <<width, out, left, pace, thrown, tsc, tvars>>
TakeFlag(t) ==
  /\ Step(t, "cas", "head") /\ ~writing /\ writing' = TRUE
  /\ UNCHANGED <<width, out, left, pace, thrown, tsc, tvars>>

\* Up to and including the dot of the time.
InsertHead(t) ==
  /\ Step(t, "head", "setw") /\ Insert(t, "head")
  /\ UNCHANGED <<writing, left, pace, thrown, tsc, tvars>>

\* std::setw(6) << std::setfill('0')
SetWidth_Mutant(t) ==
  /\ Step(t, "setw", "us")
  /\ UNCHANGED <<width, writing, out, left, pace, thrown, tsc, tvars>>
SetWidth(t) ==
  /\ Step(t, "setw", "us") /\ width' = 6
  /\ UNCHANGED <<writing, out, left, pace, thrown, tsc, tvars>>

\* now_us, then "] [Debug] " and the arguments.
InsertTime(t) ==
  /\ Step(t, "us", "args") /\ Insert(t, "us")
  /\ UNCHANGED <<writing, left, pace, thrown, tsc, tvars>>
InsertArgs(t) ==
  /\ Step(t, "args", "endl") /\ Insert(t, "args")
  /\ UNCHANGED <<writing, left, pace, thrown, tsc, tvars>>

\* std::endl and the store of writing.
DebugEnd_Mutant(t) ==
  /\ Step(t, "endl", "idle") /\ InsertEndl(t)
  /\ UNCHANGED <<writing, left, pace, thrown, tsc, tvars>>
DebugEnd(t) ==
  \/ /\ Step(t, "endl", "release") /\ InsertEndl(t)
     /\ UNCHANGED <<writing, left, pace, thrown, tsc, tvars>>
  \/ /\ Step(t, "release", "idle") /\ writing' = FALSE
     /\ UNCHANGED <<width, out, left, pace, thrown, tsc, tvars>>

\* An argument's operator<< throws: no handler and no destructor clears writing.
Throw(t) ==
  /\ Step(t, "args", "idle") /\ thrown' = TRUE
  /\ UNCHANGED <<writing, width, out, left, pace, tsc, tvars>>

DebugStep(t) ==
  TakeFlag(t) \/ InsertHead(t) \/ SetWidth(t) \/ InsertTime(t) \/ InsertArgs(t) \/ DebugEnd(t)

-----------------------------------------------------------------------------
(* Timer.                                                                  *)

cvars == <<writing, pace, thrown>>   \* what no call of a Timer changes

Elapse == \E c \in pace : tsc' = tsc + c

\* setGHz: t1, sleep(1), t2.  A signal handler ends the sleep early;
\* the counter takes centuries to come round.
SetGHzBegin(t) ==
  /\ Step(t, "new", "sleep") /\ Elapse
  /\ t1' = [t1 EXCEPT ![t] = Word(tsc')] /\ began' = [began EXCEPT ![t] = tsc']
  /\ UNCHANGED <<cvars, left, width, out, startTime, cycles, ghz, readAt, signalled>>
SetGHzEnd(t) ==
  /\ Step(t, "sleep", "ready") /\ Elapse /\ tsc' - began[t] < 2^WordBits
  /\ signalled' = IF tsc' < began[t] + Second THEN signalled \cup {t} ELSE signalled
  /\ ghz' = [ghz EXCEPT ![t] = Word(Word(tsc') - t1[t])]
  /\ began' = [began EXCEPT ![t] = -1]
  /\ UNCHANGED <<cvars, left, width, out, t1, startTime, cycles, readAt>>

\* start() may be called again, before or after a reading.
start(t) ==
  /\ MakeCall(t) /\ Step(t, "ready", "ready") /\ Elapse
  /\ startTime' = [startTime EXCEPT ![t] = Word(tsc')] /\ began' = [began EXCEPT ![t] = tsc']
  /\ readAt' = [readAt EXCEPT ![t] = -1]
  /\ UNCHANGED <<cvars, width, out, t1, cycles, ghz, signalled>>

\* The reading of getTimeCycles and getTimeNs, which return it, and of write, which
\* goes on to print it.  start() may not have been called.
getTimeCycles_Mutant(t) ==
  /\ MakeCall(t) /\ (Step(t, "ready", "ready") \/ Step(t, "ready", "label")) /\ Elapse
  /\ cycles' = [cycles EXCEPT ![t] = IF Word(tsc') < startTime[t] THEN 0 ELSE Word(tsc') - startTime[t]]
  /\ readAt' = [readAt EXCEPT ![t] = tsc']
  /\ UNCHANGED <<cvars, width, out, t1, startTime, ghz, began, signalled>>
getTimeCycles(t) ==
  /\ MakeCall(t) /\ (Step(t, "ready", "ready") \/ Step(t, "ready", "label")) /\ Elapse
  /\ cycles' = [cycles EXCEPT ![t] = Word(Word(tsc') - startTime[t])]
  /\ readAt' = [readAt EXCEPT ![t] = tsc']
  /\ UNCHANGED <<cvars, width, out, t1, startTime, ghz, began, signalled>>

\* The insertions of write(): the label and brackets, the numbers, std::endl.
write(t) ==
  /\ \/ Step(t, "label", "numbers") /\ Insert(t, "label")
     \/ Step(t, "numbers", "timerEndl") /\ Insert(t, "numbers")
     \/ Step(t, "timerEndl", "ready") /\ InsertEndl(t)
  /\ UNCHANGED <<cvars, left, tsc, tvars>>

TimerStep(t) == SetGHzBegin(t) \/ SetGHzEnd(t) \/ start(t) \/ getTimeCycles(t) \/ write(t)

-----------------------------------------------------------------------------
Next ==
  \/ \E t \in Loggers : DebugBegin(t) \/ DebugStep(t) \/ Throw(t)
  \/ \E t \in Timers : TimerStep(t)

\* A caller of debugMessage keeps being scheduled.
Spec == Init /\ [][Next]_vars /\ \A t \in Loggers : WF_vars(DebugStep(t))

-----------------------------------------------------------------------------
(* Properties.                                                             *)

(* The messages of different threads are not mixed: apart from what Timers *)
(* insert, a message is followed by another one only after its std::endl,  *)
(* and nothing follows one whose argument has thrown.                      *)
MessagesWhole ==
  \A j, k \in DOMAIN out :
    /\ j < k /\ out[j].by \in Loggers /\ out[k].by \in Loggers
    /\ \A l \in j + 1 .. k - 1 : out[l].by \notin Loggers
    => IF out[j].what = "endl" THEN out[k].what = "head"
       ELSE out[k].by = out[j].by /\ out[k].what # "head"

(* The microseconds are padded to six digits, so that ".000042" is never   *)
(* printed as ".42", unless the write() of a Timer came between the setw   *)
(* and the number and took the padding.                                    *)
MicrosecondsPadded ==
  \A j \in DOMAIN out :
    out[j].what = "us" /\ ~out[j].padded =>
      \E k \in 1 .. j - 1 : out[k].padded /\ \A l \in k .. j - 1 : out[l].by \in Timers

(* The cycles a Timer reports are those since its last start(), at every   *)
(* reading, also when the cycle counter wraps around in between; and its   *)
(* calibration takes at least a second unless a signal cuts the sleep      *)
(* short, so that the nanoseconds are never too many.                      *)
TimerHonest ==
  \A t \in Timers :
    /\ began[t] >= 0 /\ readAt[t] >= 0 /\ readAt[t] - began[t] < 2^WordBits
         => cycles[t] = readAt[t] - began[t]
    /\ pc[t] \notin {"new", "sleep"} /\ t \notin signalled => ghz[t] >= Second

(* While threads wait for `writing', one of them gets it, and who has it   *)
(* finishes its message; so the callers of debugMessage never all wait,    *)
(* unless an exception has left the flag set.  That a given caller gets    *)
(* its turn is not promised: the compare-exchange loop keeps no order.     *)
FlagMovesOn ==
  /\ (\E t \in Loggers : pc[t] = "cas") ~> (\E t \in Loggers : pc[t] = "head") \/ thrown
  /\ \A t \in Loggers : pc[t] = "head" ~> pc[t] = "idle"

=============================================================================
