------------------------- MODULE PassiveClockProofs -------------------------
(***************************************************************************)
(* Proofs about PassiveClock, for every timeout, every time of the records *)
(* and every schedule.                                                     *)
(***************************************************************************)
EXTENDS PassiveClock, TLAPS

USE TimeoutAssumption, TimesAssumption, NowAssumption, NoneAssumption

\* The variables have their types (PassiveClock!TypeOK).
THEOREM TypeCorrect == Spec => []TypeOK
<1>1. Init => TypeOK
  BY DEF Init, TypeOK, Phases
<1>2. TypeOK /\ [Next]_vars => TypeOK'
  <2> SUFFICES ASSUME TypeOK, [Next]_vars PROVE TypeOK'
    OBVIOUS
  <2> USE DEF TypeOK, Phases
  <2>1. CASE Tick
    BY <2>1 DEF Tick, threadVars, baseVars
  <2>2. ASSUME NEW t \in RecordTimes, SetTime(t) PROVE TypeOK'
    BY <2>2 DEF SetTime, threadVars
  <2>3. CASE InitialAdd
    BY <2>3 DEF InitialAdd, baseVars
  <2>4. CASE BeginSweep
    BY <2>4 DEF BeginSweep, baseVars
  <2>5. CASE EndSweep
    BY <2>5 DEF EndSweep, baseVars
  <2>6. CASE UpdateTime
    BY <2>6 DEF UpdateTime, elapsed, baseVars
  <2>7. CASE WakeUp
    BY <2>7 DEF WakeUp, baseVars
  <2>8. CASE UNCHANGED vars
    BY <2>8 DEF vars
  <2>9. QED
    BY <2>1, <2>2, <2>3, <2>4, <2>5, <2>6, <2>7, <2>8 DEF Next
<1>3. QED
  BY <1>1, <1>2, PTL DEF Spec

-----------------------------------------------------------------------------
(* The strengthened invariants.  Lead(d) says that time_last_from_record   *)
(* is at most d ahead of the records, measured at the moment the current   *)
(* phase of the timeout thread refers to: the beginning of the sweep while *)
(* it sweeps, the end of the sleep while it sleeps.                        *)

Ordered ==
  /\ baseAt <= now
  /\ pcT \in {"sweep", "update"} => start <= now
  /\ pcT = "update" => elapsed <= now - start

Lead(d) ==
  /\ pcT \in {"start", "loop"} => timeLast - d <= RecordClock(now)
  /\ pcT \in {"sweep", "update"} =>
       \/ timeLast - d <= RecordClock(start)
       \/ timeLast - d <= base - Timeout
  /\ pcT = "sleep" => \/ timeLast - d <= RecordClock(wake)
                      \/ timeLast - d <= RecordClock(now)

\* While the thread has not started, nothing has been added yet.
LeadInv == base # None => /\ Lead(Timeout)
                          /\ pcT = "start" => timeLast <= RecordClock(now)

\* A first record that comes during a sleep leaves no lead at all.
IdleInv ==
  base # None /\ baseIn = "sleep" =>
    /\ pcT # "start"
    /\ pcT = "loop" => timeLast <= RecordClock(now)
    /\ pcT \in {"sweep", "update"} => timeLast <= RecordClock(start)
    /\ pcT = "sleep" => \/ timeLast <= RecordClock(wake)
                        \/ timeLast <= RecordClock(now)

\* The thread's own time stamps and the history are in order.
LEMMA InOrder == Spec => []Ordered
<1>1. Init => Ordered
  BY DEF Init, Ordered
<1>2. TypeOK /\ Ordered /\ [Next]_vars => Ordered'
  <2> SUFFICES ASSUME TypeOK, Ordered, [Next]_vars PROVE Ordered'
    OBVIOUS
  <2> USE DEF TypeOK, Ordered, elapsed
  <2>1. CASE Tick
    BY <2>1 DEF Tick, threadVars, baseVars
  <2>2. ASSUME NEW t \in RecordTimes, SetTime(t) PROVE Ordered'
    BY <2>2 DEF SetTime, threadVars
  <2>3. CASE InitialAdd
    BY <2>3 DEF InitialAdd, baseVars
  <2>4. CASE BeginSweep
    BY <2>4 DEF BeginSweep, baseVars
  <2>5. CASE EndSweep
    BY <2>5 DEF EndSweep, baseVars
  <2>6. CASE UpdateTime
    BY <2>6 DEF UpdateTime, baseVars
  <2>7. CASE WakeUp
    BY <2>7 DEF WakeUp, baseVars
  <2>8. CASE UNCHANGED vars
    BY <2>8 DEF vars
  <2>9. QED
    BY <2>1, <2>2, <2>3, <2>4, <2>5, <2>6, <2>7, <2>8 DEF Next
<1>3. QED
  BY <1>1, <1>2, TypeCorrect, PTL DEF Spec

\* No sweep looks into the future of the records, whatever the timeout, the
\* times and the order of the two threads (Agg::check_timeouts, Agg::eval).
THEOREM NeverReportsTheFutureTheorem == Spec => []NeverReportsTheFuture
<1>1. Init => LeadInv
  BY DEF Init, LeadInv
<1>2. TypeOK /\ Ordered /\ LeadInv /\ [Next]_vars => LeadInv'
  <2> SUFFICES ASSUME TypeOK, Ordered, LeadInv, [Next]_vars PROVE LeadInv'
    OBVIOUS
  <2> USE DEF TypeOK, Ordered, LeadInv, Lead, RecordClock, elapsed, Phases
  <2>1. CASE Tick
    BY <2>1 DEF Tick, threadVars, baseVars
  <2>2. ASSUME NEW t \in RecordTimes, SetTime(t) PROVE LeadInv'
    BY <2>2 DEF SetTime, threadVars
  <2>3. CASE InitialAdd
    BY <2>3 DEF InitialAdd, baseVars
  <2>4. CASE BeginSweep
    BY <2>4 DEF BeginSweep, baseVars
  <2>5. CASE EndSweep
    BY <2>5 DEF EndSweep, baseVars
  <2>6. CASE UpdateTime
    BY <2>6 DEF UpdateTime, baseVars
  <2>7. CASE WakeUp
    BY <2>7 DEF WakeUp, baseVars
  <2>8. CASE UNCHANGED vars
    BY <2>8 DEF vars
  <2>9. QED
    BY <2>1, <2>2, <2>3, <2>4, <2>5, <2>6, <2>7, <2>8 DEF Next
<1>3. TypeOK /\ Ordered /\ LeadInv => NeverReportsTheFuture
  BY DEF TypeOK, Ordered, LeadInv, Lead, NeverReportsTheFuture, Sweeping, RecordClock
<1>4. QED
  BY <1>1, <1>2, <1>3, TypeCorrect, InOrder, PTL DEF Spec

\* A first record that comes while the timeout thread sleeps makes every later
\* sweep report idle aggregates only.
THEOREM IdleForTimeoutTheorem == Spec => []IdleForTimeout
<1>1. Init => IdleInv
  BY DEF Init, IdleInv
<1>2. TypeOK /\ Ordered /\ IdleInv /\ [Next]_vars => IdleInv'
  <2> SUFFICES ASSUME TypeOK, Ordered, IdleInv, [Next]_vars PROVE IdleInv'
    OBVIOUS
  <2> USE DEF TypeOK, Ordered, IdleInv, RecordClock, elapsed, Phases
  <2>1. CASE Tick
    BY <2>1 DEF Tick, threadVars, baseVars
  <2>2. ASSUME NEW t \in RecordTimes, SetTime(t) PROVE IdleInv'
    BY <2>2 DEF SetTime, threadVars
  <2>3. CASE InitialAdd
    BY <2>3 DEF InitialAdd, baseVars
  <2>4. CASE BeginSweep
    BY <2>4 DEF BeginSweep, baseVars
  <2>5. CASE EndSweep
    BY <2>5 DEF EndSweep, baseVars
  <2>6. CASE UpdateTime
    BY <2>6 DEF UpdateTime, baseVars
  <2>7. CASE WakeUp
    BY <2>7 DEF WakeUp, baseVars
  <2>8. CASE UNCHANGED vars
    BY <2>8 DEF vars
  <2>9. QED
    BY <2>1, <2>2, <2>3, <2>4, <2>5, <2>6, <2>7, <2>8 DEF Next
<1>3. TypeOK /\ Ordered /\ IdleInv => IdleForTimeout
  BY DEF TypeOK, Ordered, IdleInv, IdleForTimeout, Sweeping, RecordClock
<1>4. QED
  BY <1>1, <1>2, <1>3, TypeCorrect, InOrder, PTL DEF Spec
=============================================================================
