---------------------------- MODULE PassiveClock ----------------------------
(***************************************************************************)
(* The clock of passive windows: how time_last_from_record of one          *)
(* aggregator stage is kept in step with the time of the records.          *)
(*                                                                         *)
(* The first record sets it to its TIME_LAST (Agg::eval, main thread); the *)
(* timeout thread adds the timeout once when it starts and once per sweep  *)
(* (Agg::check_timeouts).  A sweep reports the aggregates whose TIME_LAST  *)
(* lies before time_last_from_record - timeout.  AggStage models what the  *)
(* sweep does to the storage; here only the times matter, so the storage,  *)
(* the mutexes and the end of the program are left out.                    *)
(***************************************************************************)
EXTENDS Integers

CONSTANTS
  Timeout,      \* config.get_timeout(TIMEOUT_PASSIVE), in seconds
  RecordTimes,  \* TIME_LAST of the first record, in seconds
  StartTime,    \* time(NULL) when Agg::init runs
  MaxNow,       \* bound: the wall clock stops here
  None          \* no record has been received

ASSUME TimeoutAssumption == Timeout \in Nat \ {0}
ASSUME TimesAssumption   == RecordTimes \subseteq Int /\ StartTime \in Nat
ASSUME NowAssumption     == MaxNow \in Nat
ASSUME NoneAssumption    == None \notin Int

VARIABLES
  now,       \* wall clock, in seconds: time(NULL)
  timeLast,  \* time_last_from_record
  pcT,       \* where the timeout thread is
  start,     \* wall clock at the beginning of the current sweep
  pause,     \* sec_to_sleep
  wake,      \* end of the current sleep
  base,      \* history: TIME_LAST of the first record, or None
  baseAt,    \* history: when the first record was evaluated
  baseIn     \* history: where the timeout thread was then

threadVars == <<pcT, start, pause, wake>>
baseVars   == <<base, baseAt, baseIn>>
vars == <<now, timeLast, pcT, start, pause, wake, base, baseAt, baseIn>>

Phases == {"start", "loop", "sweep", "update", "sleep"}

\* Agg::init has set the time to the wall clock and started the thread.
Init ==
  /\ now = StartTime
  /\ timeLast = StartTime
  /\ pcT = "start"
  /\ start = StartTime /\ pause = 0 /\ wake = StartTime
  /\ base = None /\ baseAt = StartTime /\ baseIn = "start"

Tick ==
  /\ now < MaxNow
  /\ now' = now + 1
  /\ UNCHANGED <<timeLast, threadVars, baseVars>>

\* The main thread evaluates its first record.
SetTime(t) ==
  /\ base = None
  /\ timeLast' = t
  /\ base' = t /\ baseAt' = now /\ baseIn' = pcT
  /\ UNCHANGED <<now, threadVars>>

InitialAdd ==
  /\ pcT = "start"
  /\ timeLast' = timeLast + Timeout
  /\ pcT' = "loop"
  /\ UNCHANGED <<now, start, pause, wake, baseVars>>

BeginSweep ==
  /\ pcT = "loop"
  /\ start' = now
  /\ pcT' = "sweep"
  /\ UNCHANGED <<now, timeLast, pause, wake, baseVars>>

\* end, elapsed and sec_to_sleep are computed once the storage is unlocked.
EndSweep ==
  /\ pcT = "sweep"
  /\ pause' = Timeout - (now - start)
  /\ pcT' = "update"
  /\ UNCHANGED <<now, timeLast, start, wake, baseVars>>

elapsed == Timeout - pause

\* Mutant: the duration of the sweep is added twice.
UpdateTime_twice ==
  /\ pcT = "update"
  /\ timeLast' = timeLast + (elapsed + Timeout)
  /\ IF pause > 0
     THEN pcT' = "sleep" /\ wake' = now + pause
     ELSE pcT' = "loop"  /\ wake' = wake
  /\ UNCHANGED <<now, start, pause, baseVars>>

\* Mutant: the thread sleeps whatever the sign of the pause.
UpdateTime_always_sleep ==
  /\ pcT = "update"
  /\ timeLast' = timeLast + (elapsed + pause)
  /\ pcT' = "sleep" /\ wake' = now + pause
  /\ UNCHANGED <<now, start, pause, baseVars>>

UpdateTime ==
  /\ pcT = "update"
  /\ timeLast' = timeLast + (elapsed + pause)
  /\ IF pause > 0
     THEN pcT' = "sleep" /\ wake' = now + pause
     ELSE pcT' = "loop"  /\ wake' = wake
  /\ UNCHANGED <<now, start, pause, baseVars>>

\* Mutant: the sleep is interrupted.
WakeUp_early ==
  /\ pcT = "sleep"
  /\ pcT' = "loop"
  /\ UNCHANGED <<now, timeLast, start, pause, wake, baseVars>>

WakeUp ==
  /\ pcT = "sleep" /\ now >= wake
  /\ pcT' = "loop"
  /\ UNCHANGED <<now, timeLast, start, pause, wake, baseVars>>

Next ==
  \/ Tick
  \/ \E t \in RecordTimes : SetTime(t)
  \/ InitialAdd \/ BeginSweep \/ EndSweep \/ UpdateTime \/ WakeUp

Spec == Init /\ [][Next]_vars

-----------------------------------------------------------------------------
\* sleep takes an unsigned number: a pause that is not positive, after a sweep
\* longer than the timeout, never gets there (aggregator.cpp:353).
TypeOK ==
  /\ now \in Nat /\ timeLast \in Int
  /\ pcT \in Phases
  /\ start \in Nat /\ pause \in Int /\ wake \in Nat
  /\ pcT = "sleep" => pause \in Nat \ {0}
  /\ base \in Int \cup {None} /\ baseAt \in Nat /\ baseIn \in Phases

\* The time of the records at a moment t of the wall clock: the time of the
\* first record, advanced by what has passed since.
RecordClock(t) == base + (t - baseAt)

Sweeping == pcT = "sweep" /\ base # None

\* A sweep never reports an aggregate that is still active, that is, one whose
\* last record is not in the past of the records' own time: whatever the order
\* in which the two threads set the clock, and however long sweeps take.
NeverReportsTheFuture == Sweeping => timeLast - Timeout <= RecordClock(now)

\* If the first record comes while the timeout thread sleeps, every aggregate a
\* sweep reports has been idle for the timeout.
IdleForTimeout ==
  Sweeping /\ baseIn = "sleep" => timeLast <= RecordClock(now)

\* The same without the condition: "Update the last record time with elapsed
\* time interval" (aggregator.cpp:348), the clock is not ahead of the records.
NotAheadOfRecords == Sweeping => timeLast <= RecordClock(now)
=============================================================================
