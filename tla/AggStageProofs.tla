--------------------------- MODULE AggStageProofs ---------------------------
(***************************************************************************)
(* Proofs about AggStage, for every set of keys and records, every window  *)
(* type, all timeouts and any number of records.  The last part is about   *)
(* active windows: what an aggregate may hold, and what closes it.  There  *)
(* records arrive in any order, so that TIME_FIRST of an aggregate may     *)
(* decrease while it is open.                                              *)
(***************************************************************************)
EXTENDS AggStage, FiniteSetTheorems, TLAPS

-----------------------------------------------------------------------------
(* Type correctness.                                                       *)

SentAggregate == [key: Keys, count: Nat, first: Int, last: Int,
                  flows: SUBSET Nat]

\* The record under evaluation is one of the input records.
InFlightExists ==
  pcM \in {"timeLock", "timeSet", "lock", "locked"} => Len(arrived) > 0

\* The keys an iteration still has to visit are stored.
TodoStored == pcT = "sweep" \/ pcM = "flush" => todo \subseteq Stored

\* Who holds the mutexes, and what the destructor waits for.
LockInv ==
  /\ storageLock = "main" <=> pcM \in {"locked", "unlock"}
  /\ storageLock = "timer" <=> pcT = "sweep"
  /\ timeLock = "main" <=> pcM = "timeSet"
  /\ timeLock = "timer" <=> pcT \in {"initAdd", "loopAdd"}
  /\ pcM \in {"flush", "done"} => pcT \in {"none", "ended"}
  /\ pcM = "init" => pcT = "none"

IInv == TypeOK /\ InFlightExists /\ LockInv /\ TodoStored

LEMMA ReportType ==
  ASSUME NEW k \in Keys, NEW a \in Aggregate
  PROVE  Report(k, a) \in SentAggregate
BY DEF Report, Aggregate, SentAggregate

\* Absent is told apart from every aggregate.
LEMMA AggregateNotAbsent ==
  ASSUME NEW a \in Aggregate PROVE a # Absent
BY AbsentAssumption DEF Aggregate

LEMMA CurrentRecord ==
  ASSUME TypeOK, Len(arrived) > 0
  PROVE  /\ cur \in Nat \ {0}
         /\ cur \in DOMAIN arrived
         /\ in_rec \in Flows
         /\ rec_key \in Keys
         /\ in_rec.first \in Int /\ in_rec.last \in Int
         /\ in_rec.first <= in_rec.last
<1>1. cur \in Nat /\ cur \in 1 .. Len(arrived) /\ in_rec \in Flows
  BY DEF TypeOK, cur, in_rec
<1>2. QED
  BY <1>1, FlowsAssumption DEF cur, rec_key, TypeOK

\* What eval stores is an aggregate.
LEMMA NewAggregates ==
  ASSUME TypeOK, Len(arrived) > 0
  PROVE  /\ init_record_data \in Aggregate
         /\ \A a \in Aggregate : process_agg_functions(a) \in Aggregate
BY CurrentRecord DEF init_record_data, process_agg_functions, Aggregate

LEMMA CapType ==
  ASSUME NEW t \in Int PROVE Cap(t) \in Int
BY TimeoutAssumption DEF Cap

LEMMA SendAndErasePreserves ==
  ASSUME TypeOK, NEW k \in Keys, k \in Stored, SendAndErase(k)
  PROVE  /\ sent' \in Seq(SentAggregate)
         /\ storage' \in [Keys -> Aggregate \cup {Absent}]
         /\ todo' \subseteq Keys
         /\ todo \subseteq Stored => todo' \subseteq Stored'
<1>1. storage[k] \in Aggregate
  BY DEF TypeOK, Stored
<1>2. Report(k, storage[k]) \in SentAggregate
  BY <1>1, ReportType
<1>3. QED
  BY <1>2 DEF TypeOK, SendAndErase, Stored, SentAggregate

\* The inductive invariant behind all the others.
LEMMA IInvInductive == IInv /\ [Next]_vars => IInv'
<1> SUFFICES ASSUME IInv, [Next]_vars PROVE IInv'
  OBVIOUS
<1> window' = window
  BY DEF Next, vars
<1> USE DEF IInv
<1>1. CASE InitStage
  BY <1>1, TimeoutAssumption DEF InitStage, TypeOK, InFlightExists, LockInv,
     TodoStored, Stored, storeVars
<1>2. CASE InitFails
  BY <1>2 DEF InitFails, TypeOK, InFlightExists, LockInv, TodoStored, Stored,
     storeVars, timeVars
<1>3. ASSUME NEW f \in Flows, Receive(f) PROVE IInv'
  BY <1>3 DEF Receive, TypeOK, InFlightExists, LockInv, TodoStored, Stored,
     storeVars, timeVars
<1>4. CASE LockTimeMain
  BY <1>4 DEF LockTimeMain, TypeOK, InFlightExists, LockInv, TodoStored, Stored,
     storeVars
<1>5. CASE SetTime
  <2>1. Cap(in_rec.last) \in Int
    BY <1>5, CurrentRecord, CapType DEF SetTime, InFlightExists
  <2>2. QED
    BY <1>5, <2>1 DEF SetTime, TypeOK, InFlightExists, LockInv, TodoStored,
       Stored, storeVars
<1>6. CASE LockStorageMain
  BY <1>6 DEF LockStorageMain, TypeOK, InFlightExists, LockInv, TodoStored,
     Stored, timeVars
<1>7. ASSUME CreateRecord \/ UpdateRecord \/ OpenNewWindow PROVE IInv'
  <2>1. pcM = "locked" /\ Len(arrived) > 0
    BY <1>7 DEF CreateRecord, UpdateRecord, OpenNewWindow, InFlightExists
  <2>2. rec_key \in Keys
    BY <2>1, CurrentRecord
  <2>3. storage' \in [Keys -> Aggregate \cup {Absent}]
    <3>1. storage[rec_key] # Absent => storage[rec_key] \in Aggregate
      BY <2>2 DEF TypeOK
    <3>2. QED
      BY <1>7, <2>1, <2>2, <3>1, NewAggregates
         DEF CreateRecord, UpdateRecord, OpenNewWindow, TypeOK
  <2>4. sent' \in Seq(SentAggregate)
    <3>1. CASE OpenNewWindow
      <4>1. storage[rec_key] \in Aggregate
        BY <3>1, <2>2 DEF TypeOK, OpenNewWindow
      <4>2. QED
        BY <3>1, <4>1, <2>2, ReportType DEF OpenNewWindow, TypeOK, SentAggregate
    <3>2. CASE CreateRecord \/ UpdateRecord
      BY <3>2 DEF CreateRecord, UpdateRecord, TypeOK, SentAggregate
    <3>3. QED
      BY <1>7, <3>1, <3>2
  <2>5. /\ pcM' = "unlock"
        /\ UNCHANGED <<pcT, once, stop, arrived, timeLock, timeLast, storageLock, todo>>
    BY <1>7 DEF CreateRecord, UpdateRecord, OpenNewWindow, timeVars
  <2>6. TypeOK'
    BY <2>3, <2>4, <2>5 DEF TypeOK, SentAggregate
  <2>7. InFlightExists' /\ LockInv'
    BY <2>1, <2>5 DEF InFlightExists, LockInv, TypeOK
  <2>8. TodoStored'
    BY <2>1, <2>5 DEF TodoStored, LockInv, TypeOK
  <2>9. QED
    BY <2>6, <2>7, <2>8
<1>8. CASE UnlockStorageMain
  BY <1>8 DEF UnlockStorageMain, TypeOK, InFlightExists, LockInv, TodoStored,
     Stored, timeVars
<1>9. CASE EndOfInput
  BY <1>9 DEF EndOfInput, TypeOK, InFlightExists, LockInv, TodoStored, Stored,
     storeVars, timeVars
<1>10. CASE SetStop
  BY <1>10 DEF SetStop, TypeOK, InFlightExists, LockInv, TodoStored, Stored,
     storeVars, timeVars
<1>11. CASE JoinTimeoutThread
  BY <1>11 DEF JoinTimeoutThread, TypeOK, InFlightExists, LockInv, TodoStored,
     Stored, timeVars
<1>12. ASSUME NEW k \in Keys, FlushMain(k) PROVE IInv'
  <2>1. k \in Stored /\ todo \subseteq Stored
    BY <1>12 DEF FlushMain, TodoStored
  <2>2. /\ sent' \in Seq(SentAggregate)
        /\ storage' \in [Keys -> Aggregate \cup {Absent}]
        /\ todo' \subseteq Keys /\ todo' \subseteq Stored'
    BY <1>12, <2>1, SendAndErasePreserves DEF FlushMain
  <2>3. QED
    BY <1>12, <2>2 DEF FlushMain, TypeOK, InFlightExists, LockInv, TodoStored,
       timeVars, mainVars, SentAggregate
<1>13. CASE CleanMemory
  BY <1>13 DEF CleanMemory, TypeOK, InFlightExists, LockInv, TodoStored, timeVars
<1>14. CASE StartTimeoutThread
  BY <1>14 DEF StartTimeoutThread, TypeOK, InFlightExists, LockInv, TodoStored,
     Stored, mainVars, timeVars, storeVars
<1>15. CASE \/ LockTimeTimer("initTime", "initAdd")
            \/ LockTimeTimer("loopTime", "loopAdd")
  BY <1>15 DEF LockTimeTimer, TypeOK, InFlightExists, LockInv, TodoStored,
     Stored, mainVars, storeVars
<1>16. CASE AddTimeout("initAdd", "loop") \/ AddTimeout("loopAdd", "sleep")
  <2>1. Cap(timeLast + PassiveTimeout) \in Int
    BY CapType, TimeoutAssumption DEF TypeOK
  <2>2. QED
    BY <1>16, <2>1 DEF AddTimeout, TypeOK, InFlightExists, LockInv, TodoStored,
       Stored, mainVars, storeVars
<1>17. CASE TestStop
  BY <1>17 DEF TestStop, TypeOK, InFlightExists, LockInv, TodoStored, Stored,
     mainVars, timeVars, storeVars
<1>18. CASE LockStorageTimer
  BY <1>18 DEF LockStorageTimer, TypeOK, InFlightExists, LockInv, TodoStored,
     Stored, mainVars, timeVars
<1>19. ASSUME NEW k \in Keys, SweepSend(k) PROVE IInv'
  <2>1. k \in Stored /\ todo \subseteq Stored
    BY <1>19 DEF SweepSend, TodoStored
  <2>2. /\ sent' \in Seq(SentAggregate)
        /\ storage' \in [Keys -> Aggregate \cup {Absent}]
        /\ todo' \subseteq Keys /\ todo' \subseteq Stored'
    BY <1>19, <2>1, SendAndErasePreserves DEF SweepSend
  <2>3. QED
    BY <1>19, <2>2 DEF SweepSend, TypeOK, InFlightExists, LockInv, TodoStored,
       timeVars, mainVars, SentAggregate
<1>20. ASSUME NEW k \in Keys, SweepKeep(k) PROVE IInv'
  BY <1>20 DEF SweepKeep, TypeOK, InFlightExists, LockInv, TodoStored, Stored,
     timeVars, mainVars
<1>21. CASE UnlockStorageTimer
  BY <1>21 DEF UnlockStorageTimer, TypeOK, InFlightExists, LockInv, TodoStored,
     Stored, timeVars, mainVars
<1>22. CASE WakeUp
  BY <1>22 DEF WakeUp, TypeOK, InFlightExists, LockInv, TodoStored, Stored,
     mainVars, timeVars, storeVars
<1>23. CASE Finished \/ UNCHANGED vars
  BY <1>23 DEF Finished, vars, threadVars, TypeOK, InFlightExists, LockInv, TodoStored, Stored
<1>24. QED
  BY <1>1, <1>2, <1>3, <1>4, <1>5, <1>6, <1>7, <1>8, <1>9, <1>10, <1>11, <1>12,
     <1>13, <1>14, <1>15, <1>16, <1>17, <1>18, <1>19, <1>20, <1>21, <1>22, <1>23
     DEF Next, Step, Eval, Destroy, check_timeouts

LEMMA IInvCorrect == Spec => []IInv
<1>1. Init => IInv
  <2> SUFFICES ASSUME Init PROVE IInv
    OBVIOUS
  <2>1. arrived \in Seq(Flows) /\ sent \in Seq(SentAggregate)
    BY DEF Init
  <2>2. storage \in [Keys -> Aggregate \cup {Absent}]
    BY DEF Init
  <2>3. TypeOK
    BY <2>1, <2>2, TimeoutAssumption, WindowAssumption DEF Init, TypeOK, SentAggregate
  <2>4. InFlightExists /\ LockInv /\ TodoStored
    BY DEF Init, InFlightExists, LockInv, TodoStored
  <2>5. QED
    BY <2>3, <2>4 DEF IInv
<1>2. QED
  BY <1>1, IInvInductive, PTL DEF Spec

\* The variables have their types.
THEOREM TypeCorrect == Spec => []TypeOK
BY IInvCorrect, PTL DEF IInv

\* The storage is touched by one thread at a time, also in the destructor.
THEOREM StorageAccessExclusiveTheorem == Spec => []StorageAccessExclusive
<1>1. IInv => StorageAccessExclusive
  BY DEF IInv, LockInv, TypeOK, StorageAccessExclusive
<1>2. QED
  BY <1>1, IInvCorrect, PTL

-----------------------------------------------------------------------------
(* The unsynchronised read of time_last_from_record.                       *)

\* Until the first record has set the time, nothing is stored.
OnceInv ==
  /\ once => /\ Stored = {}
             /\ pcM \notin {"lock", "locked", "unlock"}
  /\ pcM \in {"timeLock", "timeSet"} => once

LEMMA OnceInductive == IInv /\ OnceInv /\ [Next]_vars => OnceInv'
<1> SUFFICES ASSUME IInv, OnceInv, [Next]_vars PROVE OnceInv'
  OBVIOUS
<1> USE DEF IInv, TypeOK, OnceInv
<1>1. CASE InitStage \/ InitFails
  BY <1>1 DEF InitStage, InitFails, Stored, storeVars
<1>2. ASSUME NEW f \in Flows, Receive(f) PROVE OnceInv'
  BY <1>2 DEF Receive, Stored, storeVars
<1>3. CASE LockTimeMain \/ SetTime
  BY <1>3 DEF LockTimeMain, SetTime, Stored, storeVars
<1>4. CASE LockStorageMain \/ UnlockStorageMain
  BY <1>4 DEF LockStorageMain, UnlockStorageMain, Stored
<1>5. CASE CreateRecord \/ UpdateRecord \/ OpenNewWindow
  BY <1>5 DEF CreateRecord, UpdateRecord, OpenNewWindow
<1>6. CASE EndOfInput \/ SetStop \/ JoinTimeoutThread
  BY <1>6 DEF EndOfInput, SetStop, JoinTimeoutThread, Stored, storeVars
<1>7. ASSUME NEW k \in Keys, FlushMain(k) \/ SweepSend(k) PROVE OnceInv'
  BY <1>7 DEF FlushMain, SweepSend, SendAndErase, Stored, mainVars, TodoStored
<1>8. CASE CleanMemory
  BY <1>8 DEF CleanMemory, Stored
<1>9. CASE StartTimeoutThread \/ TestStop \/ WakeUp
  BY <1>9 DEF StartTimeoutThread, TestStop, WakeUp, Stored, mainVars, storeVars
<1>10. CASE \/ LockTimeTimer("initTime", "initAdd")
            \/ LockTimeTimer("loopTime", "loopAdd")
            \/ AddTimeout("initAdd", "loop") \/ AddTimeout("loopAdd", "sleep")
  BY <1>10 DEF LockTimeTimer, AddTimeout, Stored, mainVars, storeVars
<1>11. CASE LockStorageTimer \/ UnlockStorageTimer
  BY <1>11 DEF LockStorageTimer, UnlockStorageTimer, Stored, mainVars
<1>12. ASSUME NEW k \in Keys, SweepKeep(k) PROVE OnceInv'
  BY <1>12 DEF SweepKeep, Stored, mainVars
<1>13. CASE Finished \/ UNCHANGED vars
  BY <1>13 DEF Finished, vars, threadVars, Stored
<1>14. QED
  BY <1>1, <1>2, <1>3, <1>4, <1>5, <1>6, <1>7, <1>8, <1>9, <1>10, <1>11, <1>12,
     <1>13 DEF Next, Step, Eval, Destroy, check_timeouts

\* The read of time_last_from_record in the sweep races with no write of the
\* main thread, although it takes no mutex (aggregator.cpp:330 and 509).
THEOREM NoRaceOnTimeLastTheorem == Spec => []NoRaceOnTimeLast
<1>1. Init => OnceInv
  BY DEF Init, OnceInv, Stored
<1>2. IInv /\ OnceInv => NoRaceOnTimeLast
  BY DEF IInv, TodoStored, OnceInv, NoRaceOnTimeLast
<1>3. QED
  BY <1>1, <1>2, OnceInductive, IInvCorrect, PTL DEF Spec

-----------------------------------------------------------------------------
(* No record is lost or counted twice.                                     *)

\* Aggregates are made of records received, none is empty, and the flush of
\* the destructor visits every stored aggregate.
KnownFlows ==
  /\ \A k \in Keys : Open(k) \subseteq DOMAIN arrived
  /\ \A n \in DOMAIN sent : sent[n].flows \subseteq DOMAIN arrived
  /\ \A k \in Stored : storage[k].flows # {}
  /\ pcM = "flush" => Stored \subseteq todo
  /\ Len(arrived) <= MaxFlows

PInv == EachFlowInOneAggregate /\ KnownFlows

\* What a step can do to the storage and to the output.
StoreStep ==
  \/ UNCHANGED <<storage, sent>>
  \/ \E k \in Stored : SendAndErase(k)
  \/ CreateRecord
  \/ UpdateRecord
  \/ OpenNewWindow

\* Only eval, the sweep and the flush change the storage; clean_memory finds
\* it empty.
LEMMA StoreSteps == IInv /\ PInv /\ [Next]_vars => StoreStep
<1> SUFFICES ASSUME IInv, PInv, [Next]_vars PROVE StoreStep
  OBVIOUS
<1> USE DEF StoreStep
<1>1. CASE InitStage \/ InitFails \/ (\E f \in Flows : Receive(f))
  BY <1>1 DEF InitStage, InitFails, Receive, storeVars
<1>2. CASE Eval
  BY <1>2 DEF Eval, LockTimeMain, SetTime, LockStorageMain, UnlockStorageMain,
     storeVars
<1>3. CASE EndOfInput
  BY <1>3 DEF EndOfInput, storeVars
<1>4. CASE Destroy
  <2>1. CASE SetStop \/ JoinTimeoutThread
    BY <2>1 DEF SetStop, JoinTimeoutThread, storeVars
  <2>2. ASSUME NEW k \in Keys, FlushMain(k) PROVE StoreStep
    BY <2>2 DEF FlushMain, IInv, TodoStored
  <2>3. CASE CleanMemory
    <3>1. Stored = {}
      BY <2>3 DEF CleanMemory, PInv, KnownFlows
    <3>2. storage = [k \in Keys |-> Absent]
      BY <3>1 DEF Stored, IInv, TypeOK
    <3>3. QED
      BY <2>3, <3>2 DEF CleanMemory
  <2>4. QED
    BY <1>4, <2>1, <2>2, <2>3 DEF Destroy
<1>5. CASE check_timeouts
  <2>1. ASSUME NEW k \in Keys, SweepSend(k) \/ SweepKeep(k) PROVE StoreStep
    BY <2>1 DEF SweepSend, SweepKeep, IInv, TodoStored
  <2>2. CASE \/ StartTimeoutThread
             \/ LockTimeTimer("initTime", "initAdd") \/ AddTimeout("initAdd", "loop")
             \/ TestStop \/ LockStorageTimer \/ UnlockStorageTimer
             \/ LockTimeTimer("loopTime", "loopAdd") \/ AddTimeout("loopAdd", "sleep")
             \/ WakeUp
    BY <2>2 DEF StartTimeoutThread, LockTimeTimer, AddTimeout, TestStop,
       LockStorageTimer, UnlockStorageTimer, WakeUp, storeVars
  <2>3. QED
    BY <1>5, <2>1, <2>2 DEF check_timeouts
<1>6. CASE Finished \/ UNCHANGED vars
  BY <1>6 DEF Finished, vars, threadVars
<1>7. QED
  BY <1>1, <1>2, <1>3, <1>4, <1>5, <1>6 DEF Next, Step

\* A step that changes neither storage, output nor the record in flight.
LEMMA PInvFrame ==
  ASSUME PInv, UNCHANGED <<storage, sent, arrived>>, InFlight' = InFlight,
         pcM' = "flush" => Stored \subseteq todo'
  PROVE  PInv'
<1>1. Stored' = Stored /\ \A k \in Keys : Open(k)' = Open(k)
  BY DEF Stored, Open
<1>2. EachFlowInOneAggregate'
  BY <1>1 DEF PInv, EachFlowInOneAggregate
<1>3. KnownFlows'
  BY <1>1 DEF PInv, KnownFlows
<1>4. QED
  BY <1>2, <1>3 DEF PInv

\* A new record is in no aggregate.
LEMMA PInvReceive ==
  ASSUME IInv, PInv, NEW f \in Flows, Receive(f)
  PROVE  PInv'
<1>1. /\ UNCHANGED <<storage, sent>>
      /\ Stored' = Stored
      /\ \A k \in Keys : Open(k)' = Open(k)
  BY DEF Receive, storeVars, Stored, Open
<1>2. /\ Len(arrived) \in Nat /\ Len(arrived)' = Len(arrived) + 1
      /\ DOMAIN arrived = 1 .. Len(arrived)
      /\ (DOMAIN arrived)' = 1 .. (Len(arrived) + 1)
      /\ Len(arrived) < MaxFlows
  BY DEF Receive, IInv, TypeOK, cur
<1>3. InFlight = {} /\ InFlight' = {Len(arrived) + 1}
  BY <1>2 DEF Receive, InFlight, cur
<1>4. /\ \A k \in Keys : Len(arrived) + 1 \notin Open(k)
      /\ \A n \in DOMAIN sent : Len(arrived) + 1 \notin sent[n].flows
  BY <1>2 DEF PInv, KnownFlows
<1>5. (DOMAIN arrived)' \ InFlight' = DOMAIN arrived \ InFlight
  BY <1>2, <1>3
<1>6. EachFlowInOneAggregate'
  BY <1>1, <1>3, <1>4, <1>5 DEF PInv, EachFlowInOneAggregate
<1>7. KnownFlows'
  BY <1>1, <1>2, BoundAssumption DEF PInv, KnownFlows, Receive
<1>8. QED
  BY <1>6, <1>7 DEF PInv

\* An aggregate moves from the storage to the output.
LEMMA PInvSend ==
  ASSUME IInv, PInv, NEW k \in Stored, SendAndErase(k),
         UNCHANGED <<arrived, pcM>>
  PROVE  PInv'
<1> DEFINE m == Len(sent) + 1
<1>1. /\ k \in Keys /\ storage[k] # Absent /\ storage[k] \in Aggregate
      /\ Open(k) = storage[k].flows
  BY DEF Stored, Open, IInv, TypeOK
<1>2. /\ DOMAIN sent = 1 .. Len(sent) /\ Len(sent) \in Nat
      /\ (DOMAIN sent)' = 1 .. m
      /\ sent'[m] = Report(k, storage[k])
      /\ \A n \in DOMAIN sent : sent'[n] = sent[n]
  BY DEF SendAndErase, IInv, TypeOK
<1>3. sent'[m].flows = Open(k) /\ m \notin DOMAIN sent
  BY <1>1, <1>2 DEF Report
<1>4. /\ Open(k)' = {}
      /\ \A l \in Keys \ {k} : Open(l)' = Open(l)
      /\ Stored' = Stored \ {k}
      /\ \A l \in Stored' : storage'[l] = storage[l]
  BY <1>1 DEF SendAndErase, Open, Stored, IInv, TypeOK
<1>5. InFlight' = InFlight
  BY DEF InFlight, cur
<1>6. (DOMAIN sent)' = DOMAIN sent \cup {m}
  BY <1>2
<1>7. EachFlowInOneAggregate'
  <2> USE DEF PInv, EachFlowInOneAggregate
  <2>1. ASSUME NEW i \in DOMAIN arrived \ InFlight
        PROVE  \/ \E l \in Keys : i \in Open(l)'
               \/ \E n \in (DOMAIN sent)' : i \in sent'[n].flows
    <3>1. CASE i \in Open(k)
      BY <3>1, <1>3, <1>6
    <3>2. CASE \E l \in Keys \ {k} : i \in Open(l)
      BY <3>2, <1>4
    <3>3. CASE \E n \in DOMAIN sent : i \in sent[n].flows
      BY <3>3, <1>2, <1>6
    <3>4. QED
      BY <3>1, <3>2, <3>3
  <2>2. \A i \in InFlight : \A l \in Keys : i \notin Open(l)'
    BY <1>4
  <2>3. \A i \in InFlight : \A n \in (DOMAIN sent)' : i \notin sent'[n].flows
    BY <1>1, <1>2, <1>3, <1>6
  <2>4. \A l \in Keys, n \in (DOMAIN sent)' : Open(l)' \cap sent'[n].flows = {}
    BY <1>1, <1>2, <1>3, <1>4, <1>6
  <2>5. \A l, h \in Keys : l # h => Open(l)' \cap Open(h)' = {}
    BY <1>4
  <2>6. \A i, n \in (DOMAIN sent)' : i # n => sent'[i].flows \cap sent'[n].flows = {}
    BY <1>1, <1>2, <1>3, <1>6
  <2>7. QED
    BY <1>5, <2>1, <2>2, <2>3, <2>4, <2>5, <2>6
<1>8. KnownFlows'
  <2> USE DEF PInv, KnownFlows
  <2>1. \A l \in Keys : Open(l)' \subseteq DOMAIN arrived
    BY <1>4
  <2>2. \A n \in (DOMAIN sent)' : sent'[n].flows \subseteq DOMAIN arrived
    BY <1>1, <1>2, <1>3, <1>6
  <2>3. \A l \in Stored' : storage'[l].flows # {}
    BY <1>4
  <2>4. pcM' = "flush" => Stored' \subseteq todo'
    BY <1>4 DEF SendAndErase
  <2>5. QED
    BY <2>1, <2>2, <2>3, <2>4
<1>9. QED
  BY <1>7, <1>8 DEF PInv

\* The storage and the output after the record under evaluation has been added.
\* k and c name the key and the number of that record, which do not change.
LEMMA AddEffect ==
  ASSUME IInv, CreateRecord \/ UpdateRecord,
         NEW k \in Keys, k = rec_key, NEW c \in Nat, c = cur
  PROVE  /\ Open(k)' = Open(k) \cup {c}
         /\ \A l \in Keys \ {k} : Open(l)' = Open(l)
         /\ Stored' = Stored \cup {k}
         /\ \A l \in Stored \ {k} : storage'[l] = storage[l]
         /\ storage'[k].flows # {}
         /\ UNCHANGED sent
<1>1. Len(arrived) > 0
  BY DEF CreateRecord, UpdateRecord, IInv, InFlightExists
<1>2. PICK a \in Aggregate : /\ storage' = [storage EXCEPT ![k] = a]
                             /\ a.flows = Open(k) \cup {c}
  <2>1. CASE CreateRecord
    <3>1. init_record_data.flows = {c}
      BY DEF init_record_data
    <3>2. storage' = [storage EXCEPT ![k] = init_record_data] /\ Open(k) = {}
      BY <2>1 DEF CreateRecord, Open
    <3>3. init_record_data \in Aggregate
      BY <1>1, NewAggregates DEF IInv
    <3>4. QED
      BY <3>1, <3>2, <3>3
  <2>2. CASE UpdateRecord
    <3> DEFINE b == process_agg_functions(storage[k])
    <3>1. storage[k] \in Aggregate /\ Open(k) = storage[k].flows
      BY <2>2 DEF UpdateRecord, IInv, TypeOK, Open
    <3>2. b \in Aggregate
      BY <3>1, <1>1, NewAggregates DEF IInv
    <3>3. b.flows = Open(k) \cup {c}
      BY <3>1 DEF process_agg_functions
    <3>4. storage' = [storage EXCEPT ![k] = b]
      BY <2>2 DEF UpdateRecord, IInv, TypeOK
    <3>5. QED
      BY <3>2, <3>3, <3>4
  <2>3. QED
    BY <2>1, <2>2
<1>3. a # Absent
  BY AggregateNotAbsent
<1>4. storage'[k] = a /\ \A l \in Keys \ {k} : storage'[l] = storage[l]
  BY <1>2 DEF IInv, TypeOK
<1>5. UNCHANGED sent
  BY DEF CreateRecord, UpdateRecord
<1>6. QED
  BY <1>2, <1>3, <1>4, <1>5 DEF Open, Stored

LEMMA NewWindowEffect ==
  ASSUME IInv, OpenNewWindow,
         NEW k \in Keys, k = rec_key, NEW c \in Nat, c = cur
  PROVE  /\ Open(k)' = {c} /\ Open(k) = storage[k].flows
         /\ \A l \in Keys \ {k} : Open(l)' = Open(l)
         /\ Stored' = Stored /\ k \in Stored
         /\ \A l \in Stored \ {k} : storage'[l] = storage[l]
         /\ storage'[k].flows # {}
         /\ sent' = Append(sent, Report(k, storage[k]))
<1>1. Len(arrived) > 0
  BY DEF OpenNewWindow, IInv, InFlightExists
<1>2. PICK a \in Aggregate : a = init_record_data /\ a.flows = {c}
  BY <1>1, NewAggregates DEF IInv, init_record_data
<1>3. a # Absent
  BY AggregateNotAbsent
<1>4. /\ storage' = [storage EXCEPT ![k] = a]
      /\ storage[k] # Absent
      /\ sent' = Append(sent, Report(k, storage[k]))
  BY <1>2 DEF OpenNewWindow
<1>5. /\ storage'[k] = a
      /\ \A l \in Keys \ {k} : storage'[l] = storage[l]
  BY <1>4 DEF IInv, TypeOK
<1>6. QED
  BY <1>2, <1>3, <1>4, <1>5 DEF Open, Stored

\* The record under evaluation joins or opens an aggregate.
LEMMA PInvAdd ==
  ASSUME IInv, PInv, CreateRecord \/ UpdateRecord,
         NEW k \in Keys, k = rec_key, NEW c \in Nat, c = cur
  PROVE  PInv'
<1>1. pcM = "locked" /\ pcM' = "unlock" /\ UNCHANGED <<arrived, sent>>
  BY DEF CreateRecord, UpdateRecord
<1>2. c \in DOMAIN arrived
  BY <1>1, CurrentRecord DEF IInv, InFlightExists
<1>3. InFlight = {c} /\ InFlight' = {}
  BY <1>1 DEF InFlight
<1>4. /\ Open(k)' = Open(k) \cup {c}
      /\ \A l \in Keys \ {k} : Open(l)' = Open(l)
      /\ Stored' = Stored \cup {k}
      /\ \A l \in Stored \ {k} : storage'[l] = storage[l]
      /\ storage'[k].flows # {}
  BY AddEffect
<1>5. EachFlowInOneAggregate'
  <2> USE DEF PInv, EachFlowInOneAggregate
  <2>1. ASSUME NEW i \in DOMAIN arrived
        PROVE  \/ \E l \in Keys : i \in Open(l)'
               \/ \E n \in DOMAIN sent : i \in sent[n].flows
    <3>1. CASE i = c
      BY <3>1, <1>4
    <3>2. CASE \E l \in Keys : i \in Open(l)
      BY <3>2, <1>4
    <3>3. QED
      BY <3>1, <3>2, <1>3
  <2>2. \A l \in Keys, n \in DOMAIN sent : Open(l)' \cap sent[n].flows = {}
    BY <1>3, <1>4
  <2>3. \A l, h \in Keys : l # h => Open(l)' \cap Open(h)' = {}
    BY <1>3, <1>4
  <2>4. QED
    BY <1>1, <1>3, <2>1, <2>2, <2>3
<1>6. KnownFlows'
  <2>1. \A l \in Keys : Open(l)' \subseteq DOMAIN arrived
    BY <1>2, <1>4 DEF PInv, KnownFlows
  <2>2. \A l \in Stored' : storage'[l].flows # {}
    BY <1>4 DEF PInv, KnownFlows
  <2>3. QED
    BY <1>1, <2>1, <2>2 DEF PInv, KnownFlows
<1>7. QED
  BY <1>5, <1>6 DEF PInv

\* The stored aggregate is reported and the record opens the next one.
LEMMA PInvNewWindow ==
  ASSUME IInv, PInv, OpenNewWindow,
         NEW k \in Keys, k = rec_key, NEW c \in Nat, c = cur
  PROVE  PInv'
<1> DEFINE m == Len(sent) + 1
<1>1. pcM = "locked" /\ pcM' = "unlock" /\ UNCHANGED arrived
  BY DEF OpenNewWindow
<1>2. c \in DOMAIN arrived
  BY <1>1, CurrentRecord DEF IInv, InFlightExists
<1>3. InFlight = {c} /\ InFlight' = {}
  BY <1>1 DEF InFlight
<1>5. /\ Open(k)' = {c} /\ Open(k) = storage[k].flows
      /\ \A l \in Keys \ {k} : Open(l)' = Open(l)
      /\ Stored' = Stored /\ k \in Stored
      /\ \A l \in Stored \ {k} : storage'[l] = storage[l]
      /\ storage'[k].flows # {}
      /\ sent' = Append(sent, Report(k, storage[k]))
  BY NewWindowEffect
<1>6. /\ DOMAIN sent = 1 .. Len(sent) /\ Len(sent) \in Nat
      /\ (DOMAIN sent)' = 1 .. m
      /\ sent'[m] = Report(k, storage[k])
      /\ \A n \in DOMAIN sent : sent'[n] = sent[n]
  BY <1>5 DEF IInv, TypeOK
<1>7. /\ sent'[m].flows = Open(k) /\ m \notin DOMAIN sent
      /\ (DOMAIN sent)' = DOMAIN sent \cup {m}
  BY <1>5, <1>6 DEF Report
<1>8. EachFlowInOneAggregate'
  <2> USE DEF PInv, EachFlowInOneAggregate
  <2>1. ASSUME NEW i \in DOMAIN arrived
        PROVE  \/ \E l \in Keys : i \in Open(l)'
               \/ \E n \in (DOMAIN sent)' : i \in sent'[n].flows
    <3>1. CASE i = c
      BY <3>1, <1>5
    <3>2. CASE i \in Open(k)
      BY <3>2, <1>7
    <3>3. CASE \E l \in Keys \ {k} : i \in Open(l)
      BY <3>3, <1>5
    <3>4. CASE \E n \in DOMAIN sent : i \in sent[n].flows
      BY <3>4, <1>6, <1>7
    <3>5. QED
      BY <3>1, <3>2, <3>3, <3>4, <1>3
  <2>2. \A l \in Keys, n \in (DOMAIN sent)' : Open(l)' \cap sent'[n].flows = {}
    <3>1. \A n \in (DOMAIN sent)' : c \notin sent'[n].flows
      BY <1>3, <1>6, <1>7
    <3>2. ASSUME NEW l \in Keys \ {k}, NEW n \in (DOMAIN sent)'
          PROVE  Open(l) \cap sent'[n].flows = {}
      BY <1>6, <1>7
    <3>3. QED
      BY <3>1, <3>2, <1>5
  <2>3. \A l, h \in Keys : l # h => Open(l)' \cap Open(h)' = {}
    BY <1>3, <1>5
  <2>4. \A i, n \in (DOMAIN sent)' : i # n => sent'[i].flows \cap sent'[n].flows = {}
    BY <1>6, <1>7
  <2>5. QED
    BY <1>1, <1>3, <2>1, <2>2, <2>3, <2>4
<1>9. KnownFlows'
  <2> USE DEF PInv, KnownFlows
  <2>1. \A l \in Keys : Open(l)' \subseteq DOMAIN arrived
    BY <1>2, <1>5
  <2>2. \A n \in (DOMAIN sent)' : sent'[n].flows \subseteq DOMAIN arrived
    BY <1>6, <1>7
  <2>3. \A l \in Stored' : storage'[l].flows # {}
    BY <1>5
  <2>4. QED
    BY <1>1, <2>1, <2>2, <2>3
<1>10. QED
  BY <1>8, <1>9 DEF PInv

LEMMA PInvInductive == IInv /\ PInv /\ [Next]_vars => PInv'
<1> SUFFICES ASSUME IInv, PInv, [Next]_vars PROVE PInv'
  OBVIOUS
<1>1. ASSUME NEW f \in Flows, Receive(f) PROVE PInv'
  BY <1>1, PInvReceive
<1>2. CASE CreateRecord \/ UpdateRecord \/ OpenNewWindow
  <2>1. Len(arrived) > 0
    BY <1>2 DEF CreateRecord, UpdateRecord, OpenNewWindow, IInv, InFlightExists
  <2>2. PICK k \in Keys, c \in Nat : k = rec_key /\ c = cur
    BY <2>1, CurrentRecord DEF IInv
  <2>3. QED
    BY <1>2, <2>2, PInvAdd, PInvNewWindow
<1>3. ASSUME NEW k \in Keys, FlushMain(k) \/ SweepSend(k) PROVE PInv'
  <2>1. k \in Stored /\ SendAndErase(k) /\ UNCHANGED <<arrived, pcM>>
    BY <1>3 DEF FlushMain, SweepSend, IInv, TodoStored, mainVars
  <2>2. QED
    BY <2>1, PInvSend
<1> DEFINE Frame == /\ UNCHANGED <<storage, sent, arrived>>
                    /\ InFlight' = InFlight
                    /\ pcM' = "flush" => Stored \subseteq todo'
<1>4. CASE InitStage \/ InitFails \/ EndOfInput \/ SetStop \/ JoinTimeoutThread
  <2>1. Frame
    BY <1>4 DEF InitStage, InitFails, EndOfInput, SetStop, JoinTimeoutThread,
       InFlight, cur, storeVars
  <2>2. QED
    BY <2>1, PInvFrame
<1>5. CASE LockTimeMain \/ SetTime \/ LockStorageMain \/ UnlockStorageMain
  <2>1. Frame
    BY <1>5 DEF LockTimeMain, SetTime, LockStorageMain, UnlockStorageMain,
       InFlight, cur, storeVars
  <2>2. QED
    BY <2>1, PInvFrame
<1>6. CASE CleanMemory
  <2>1. Stored = {}
    BY <1>6 DEF CleanMemory, PInv, KnownFlows
  <2>2. storage = [k \in Keys |-> Absent]
    BY <2>1 DEF Stored, IInv, TypeOK
  <2>3. Frame
    BY <1>6, <2>2 DEF CleanMemory, InFlight, cur
  <2>4. QED
    BY <2>3, PInvFrame
<1>7. CASE \/ StartTimeoutThread \/ TestStop \/ WakeUp
           \/ LockTimeTimer("initTime", "initAdd") \/ AddTimeout("initAdd", "loop")
           \/ LockTimeTimer("loopTime", "loopAdd") \/ AddTimeout("loopAdd", "sleep")
  <2>1. Frame
    BY <1>7 DEF StartTimeoutThread, TestStop, WakeUp, LockTimeTimer, AddTimeout,
       InFlight, cur, mainVars, storeVars, PInv, KnownFlows
  <2>2. QED
    BY <2>1, PInvFrame
<1>8. ASSUME \/ LockStorageTimer \/ UnlockStorageTimer
             \/ \E k \in Keys : SweepKeep(k)
      PROVE  PInv'
  <2>1. pcM # "flush"
    BY <1>8 DEF LockStorageTimer, UnlockStorageTimer, SweepKeep, IInv, LockInv
  <2>2. Frame
    BY <1>8, <2>1 DEF LockStorageTimer, UnlockStorageTimer, SweepKeep, InFlight,
       cur, mainVars
  <2>3. QED
    BY <2>2, PInvFrame
<1>9. CASE Finished \/ UNCHANGED vars
  <2>1. Frame
    BY <1>9 DEF Finished, vars, threadVars, InFlight, cur, PInv, KnownFlows
  <2>2. QED
    BY <2>1, PInvFrame
<1>10. QED
  BY <1>1, <1>2, <1>3, <1>4, <1>5, <1>6, <1>7, <1>8, <1>9
     DEF Next, Step, Eval, Destroy, check_timeouts

LEMMA PInvCorrect == Spec => []PInv
<1>1. Init => PInv
  BY BoundAssumption DEF Init, PInv, EachFlowInOneAggregate, KnownFlows,
     InFlight, Open, Stored
<1>2. QED
  BY <1>1, PInvInductive, IInvCorrect, PTL DEF Spec

\* Whatever the interleaving of eval, the sweeps and the destructor, every
\* record evaluated is in exactly one aggregate, stored or reported once.
THEOREM EachFlowInOneAggregateTheorem == Spec => []EachFlowInOneAggregate
BY PInvCorrect, PTL DEF PInv

-----------------------------------------------------------------------------
(* AggStage implements FlowAggregation.                                    *)

\* The mapped variables after an aggregate has been reported.
LEMMA ReportedAppend ==
  ASSUME IInv, NEW k \in Keys, NEW a, sent' = Append(sent, Report(k, a))
  PROVE  Reported' = Append(Reported, [key |-> k, flows |-> a.flows])
<1>1. /\ sent \in Seq(SentAggregate) /\ Len(sent) \in Nat
      /\ DOMAIN sent = 1 .. Len(sent)
  BY DEF IInv, TypeOK, SentAggregate
<1>2. /\ DOMAIN sent' = 1 .. (Len(sent) + 1)
      /\ sent'[Len(sent) + 1] = Report(k, a)
      /\ \A n \in 1 .. Len(sent) : sent'[n] = sent[n]
  BY <1>1
<1>3. Reported \in Seq([key: Keys, flows: SUBSET Nat]) /\ Len(Reported) = Len(sent)
  <2>1. \A n \in 1 .. Len(sent) :
          [key |-> sent[n].key, flows |-> sent[n].flows]
            \in [key: Keys, flows: SUBSET Nat]
    <3>1. \A n \in 1 .. Len(sent) : sent[n] \in SentAggregate
      BY <1>1
    <3>2. \A r \in SentAggregate : r.key \in Keys /\ r.flows \in SUBSET Nat
      BY DEF SentAggregate
    <3>3. QED
      BY <3>1, <3>2
  <2>2. QED
    BY <1>1, <2>1 DEF Reported
<1>4. Reported' = [n \in 1 .. (Len(sent) + 1) |->
                     IF n \in 1 .. Len(sent) THEN Reported[n]
                     ELSE [key |-> k, flows |-> a.flows]]
  BY <1>1, <1>2 DEF Reported, Report
<1>5. QED
  BY <1>1, <1>3, <1>4

\* The implementation of the reporting of an aggregate and its removal.
LEMMA CloseStep ==
  ASSUME IInv, PInv, NEW k \in Stored, SendAndErase(k)
  PROVE  Abstract!Close(k)
<1>1. k \in Keys /\ Open(k) = storage[k].flows /\ Open(k) # {}
  BY DEF Stored, Open, PInv, KnownFlows
<1>2. /\ Open(k)' = {}
      /\ \A l \in Keys \ {k} : Open(l)' = Open(l)
  BY <1>1 DEF SendAndErase, Open, IInv, TypeOK
<1>3. Reported' = Append(Reported, [key |-> k, flows |-> Open(k)])
  BY <1>1, ReportedAppend DEF SendAndErase
<1>4. QED
  BY <1>1, <1>2, <1>3 DEF Abstract!Close, Abstract!ReportOpen

\* The record under evaluation is fresh in the abstract state.
LEMMA FreshRecord ==
  ASSUME IInv, PInv, pcM = "locked", NEW c \in Nat, c = cur
  PROVE  /\ c \in 1 .. MaxFlows
         /\ Abstract!Fresh(c)
<1>1. InFlight = {c} /\ c \in 1 .. MaxFlows
  BY BoundAssumption DEF InFlight, IInv, InFlightExists, PInv, KnownFlows, cur
<1>2. \A n \in DOMAIN Reported : Reported[n].flows = sent[n].flows /\ n \in DOMAIN sent
  BY DEF Reported
<1>3. QED
  BY <1>1, <1>2 DEF Abstract!Fresh, PInv, EachFlowInOneAggregate

\* Every behaviour of the two threads is one FlowAggregation allows.
THEOREM ImplementsFlowAggregationTheorem == Spec => ImplementsFlowAggregation
<1>1. Init => Abstract!Init
  <2>1. ASSUME Init PROVE Reported = <<>> /\ \A k \in Keys : Open(k) = {}
    BY <2>1 DEF Init, Reported, Open
  <2>2. QED
    BY <2>1 DEF Abstract!Init
<1>2. IInv /\ PInv /\ [Next]_vars => [Abstract!Next]_(Abstract!vars)
  <2> SUFFICES ASSUME IInv, PInv, [Next]_vars
               PROVE  [Abstract!Next]_(Abstract!vars)
    OBVIOUS
  <2>1. CASE UNCHANGED <<storage, sent>>
    <3>1. Reported' = Reported /\ \A k \in Keys : Open(k)' = Open(k)
      BY <2>1 DEF Reported, Open
    <3>2. QED
      BY <3>1 DEF Abstract!vars, threadVars
  <2>2. ASSUME NEW k \in Stored, SendAndErase(k) PROVE Abstract!Next
    BY <2>2, CloseStep DEF Stored, Abstract!Next
  <2>3. CASE CreateRecord \/ UpdateRecord \/ OpenNewWindow
    <3>1. pcM = "locked" /\ Len(arrived) > 0
      BY <2>3 DEF CreateRecord, UpdateRecord, OpenNewWindow, IInv, InFlightExists
    <3>2. PICK k \in Keys, c \in Nat : k = rec_key /\ c = cur
      BY <3>1, CurrentRecord DEF IInv
    <3>3. c \in 1 .. MaxFlows /\ Abstract!Fresh(c)
      BY <3>1, <3>2, FreshRecord
    <3>4. CASE CreateRecord \/ UpdateRecord
      <4>1. /\ Open(k)' = Open(k) \cup {c}
            /\ \A l \in Keys \ {k} : Open(l)' = Open(l)
            /\ UNCHANGED sent
        BY <3>2, <3>4, AddEffect
      <4>2. Reported' = Reported
        BY <4>1 DEF Reported
      <4>3. Abstract!Add(k, c)
        BY <4>1, <4>2, <3>3 DEF Abstract!Add
      <4>4. QED
        BY <4>3, <3>3 DEF Abstract!Next
    <3>5. CASE OpenNewWindow
      <4>1. /\ Open(k)' = {c} /\ Open(k) = storage[k].flows
            /\ \A l \in Keys \ {k} : Open(l)' = Open(l)
            /\ k \in Stored
            /\ sent' = Append(sent, Report(k, storage[k]))
        BY <3>2, <3>5, NewWindowEffect
      <4>2. Open(k) # {}
        BY <4>1 DEF PInv, KnownFlows
      <4>3. Reported' = Append(Reported, [key |-> k, flows |-> Open(k)])
        BY <4>1, ReportedAppend
      <4>4. Abstract!Restart(k, c)
        BY <4>1, <4>2, <4>3, <3>3 DEF Abstract!Restart, Abstract!ReportOpen
      <4>5. QED
        BY <4>4, <3>3 DEF Abstract!Next
    <3>6. QED
      BY <2>3, <3>4, <3>5
  <2>4. QED
    BY <2>1, <2>2, <2>3, StoreSteps DEF StoreStep
<1>3. QED
  BY <1>1, <1>2, IInvCorrect, PInvCorrect, PTL
     DEF Spec, ImplementsFlowAggregation, Abstract!Spec

-----------------------------------------------------------------------------
(* COUNT, TIME_FIRST and TIME_LAST.                                        *)

\* The records of an aggregate are finitely many.
LEMMA FlowsFinite ==
  ASSUME IInv, NEW F, F \subseteq DOMAIN arrived
  PROVE  IsFiniteSet(F)
<1>1. DOMAIN arrived = 1 .. Len(arrived) /\ Len(arrived) \in Nat
  BY DEF IInv, TypeOK
<1>2. IsFiniteSet(1 .. Len(arrived))
  BY <1>1, FS_Interval
<1>3. QED
  BY <1>1, <1>2, FS_Subset

\* An aggregate of one record.
LEMMA SummaryOfOne ==
  ASSUME IInv, NEW k \in Keys, k = rec_key, NEW c \in Nat, c = cur,
         Len(arrived) > 0
  PROVE  Summarises(k, init_record_data)
<1>1. c \in DOMAIN arrived /\ arrived[c] = in_rec /\ arrived[c].key = k
  BY CurrentRecord DEF IInv, in_rec, rec_key
<1>2. Cardinality({c}) = 1
  BY FS_Singleton
<1>3. init_record_data = [count |-> 1, first |-> arrived[c].first,
                          last |-> arrived[c].last, flows |-> {c}]
  BY <1>1 DEF init_record_data
<1>4. arrived[c].first \in Int /\ arrived[c].last \in Int
  BY <1>1, CurrentRecord DEF IInv
<1>5. QED
  BY <1>1, <1>2, <1>3, <1>4 DEF Summarises

\* One more record: COUNT grows by one, the minimum and maximum are kept.
LEMMA SummaryOfMore ==
  ASSUME IInv, NEW k \in Keys, k = rec_key, NEW c \in Nat, c = cur,
         Len(arrived) > 0, NEW a \in Aggregate, c \notin a.flows,
         Summarises(k, a)
  PROVE  Summarises(k, process_agg_functions(a))
<1> DEFINE b == process_agg_functions(a)
<1>1. c \in DOMAIN arrived /\ arrived[c] = in_rec /\ arrived[c].key = k
  BY CurrentRecord DEF IInv, in_rec, rec_key
<1>2. /\ arrived[c].first \in Int /\ arrived[c].last \in Int
      /\ a.first \in Int /\ a.last \in Int
      /\ \A i \in DOMAIN arrived : arrived[i].first \in Int /\ arrived[i].last \in Int
  <2>1. \A i \in DOMAIN arrived : arrived[i] \in Flows
    BY DEF IInv, TypeOK
  <2>2. QED
    BY <1>1, <2>1, FlowsAssumption DEF Aggregate
<1>3. /\ b.count = a.count + 1 /\ b.flows = a.flows \cup {c}
      /\ b.first = IF arrived[c].first < a.first THEN arrived[c].first ELSE a.first
      /\ b.last  = IF arrived[c].last > a.last THEN arrived[c].last ELSE a.last
  BY <1>1 DEF process_agg_functions
<1>4. a.flows \subseteq DOMAIN arrived /\ a.count = Cardinality(a.flows)
  BY DEF Summarises
<1>5. b.count = Cardinality(b.flows)
  BY <1>3, <1>4, FlowsFinite, FS_AddElement
<1>6. b.flows \subseteq DOMAIN arrived
  BY <1>1, <1>3, <1>4
<1>7. \A i \in b.flows : /\ arrived[i].key = k
                         /\ b.first <= arrived[i].first
                         /\ arrived[i].last <= b.last
  <2>1. ASSUME NEW i \in a.flows
        PROVE  /\ arrived[i].key = k
               /\ b.first <= arrived[i].first
               /\ arrived[i].last <= b.last
    <3>1. /\ arrived[i].key = k
          /\ a.first <= arrived[i].first /\ arrived[i].last <= a.last
          /\ arrived[i].first \in Int /\ arrived[i].last \in Int
      BY <1>2, <1>4 DEF Summarises
    <3>2. QED
      BY <3>1, <1>2, <1>3
  <2>2. b.first <= arrived[c].first /\ arrived[c].last <= b.last
    BY <1>2, <1>3
  <2>3. QED
    BY <2>1, <2>2, <1>1, <1>3
<1>8. \E i \in b.flows : arrived[i].first = b.first
  BY <1>3 DEF Summarises
<1>9. \E i \in b.flows : arrived[i].last = b.last
  BY <1>3 DEF Summarises
<1>10. QED
  BY <1>5, <1>6, <1>7, <1>8, <1>9 DEF Summarises

\* A report says the same as the aggregate it is made from.
LEMMA SummaryOfReport ==
  ASSUME NEW k \in Keys, NEW a, Summarises(k, a)
  PROVE  Summarises(k, Report(k, a)) /\ Report(k, a).key = k
BY DEF Summarises, Report

\* More records to come do not change what an aggregate summarises.
LEMMA SummaryFrame ==
  ASSUME NEW k, NEW a, Summarises(k, a),
         \A i \in DOMAIN arrived : i \in (DOMAIN arrived)' /\ arrived'[i] = arrived[i]
  PROVE  Summarises(k, a)'
<1>1. /\ a.flows \subseteq DOMAIN arrived
      /\ a.count = Cardinality(a.flows)
      /\ \A i \in a.flows : /\ arrived[i].key = k
                            /\ a.first <= arrived[i].first
                            /\ arrived[i].last <= a.last
      /\ \E i \in a.flows : arrived[i].first = a.first
      /\ \E i \in a.flows : arrived[i].last = a.last
  BY DEF Summarises
<1>2. \A i \in a.flows : i \in (DOMAIN arrived)' /\ arrived'[i] = arrived[i]
  BY <1>1
<1>3. /\ a.flows \subseteq (DOMAIN arrived)'
      /\ \A i \in a.flows : /\ arrived'[i].key = k
                            /\ a.first <= arrived'[i].first
                            /\ arrived'[i].last <= a.last
      /\ \E i \in a.flows : arrived'[i].first = a.first
      /\ \E i \in a.flows : arrived'[i].last = a.last
  BY <1>1, <1>2
<1>4. QED
  BY <1>1, <1>3 DEF Summarises

\* Every aggregate after the step, as a value: a stored one, or a report.
SummarisedAfter ==
  /\ \A k \in Stored', a \in Aggregate : a = storage'[k] => Summarises(k, a)'
  /\ \A n \in (DOMAIN sent)', r \in SentAggregate :
       r = sent'[n] => Summarises(r.key, r)'

LEMMA SummarisedAfterSuffices ==
  ASSUME IInv', SummarisedAfter
  PROVE  AggregatesSummarise'
<1>1. ASSUME NEW k \in Stored' PROVE Summarises(k, storage[k])'
  <2>1. storage'[k] \in Aggregate
    BY DEF Stored, IInv, TypeOK
  <2>2. PICK a \in Aggregate : a = storage'[k]
    BY <2>1
  <2>3. Summarises(k, a)'
    BY <2>2, <1>1 DEF SummarisedAfter
  <2>4. QED
    BY <2>2, <2>3 DEF Summarises
<1>2. ASSUME NEW n \in (DOMAIN sent)' PROVE Summarises(sent[n].key, sent[n])'
  <2>1. sent'[n] \in SentAggregate
    <3>1. sent' \in Seq(SentAggregate)
      BY DEF IInv, TypeOK, SentAggregate
    <3>2. n \in DOMAIN sent'
      BY <1>2
    <3>3. QED
      BY <3>1, <3>2
  <2>2. PICK r \in SentAggregate : r = sent'[n]
    BY <2>1
  <2>3. Summarises(r.key, r)'
    BY <2>2, <1>2 DEF SummarisedAfter
  <2>4. QED
    BY <2>2, <2>3 DEF Summarises
<1>3. QED
  BY <1>1, <1>2 DEF AggregatesSummarise

LEMMA SummariseInductive ==
  ASSUME IInv, PInv, AggregatesSummarise, [Next]_vars
  PROVE  AggregatesSummarise'
<1>1. IInv'
  BY IInvInductive
<1>2. \A i \in DOMAIN arrived : i \in (DOMAIN arrived)' /\ arrived'[i] = arrived[i]
  <2>1. (\E f \in Flows : Receive(f)) \/ UNCHANGED arrived
    BY DEF Next, Step, Eval, Destroy, check_timeouts, InitStage, InitFails, LockTimeMain,
       SetTime, LockStorageMain, CreateRecord, UpdateRecord, OpenNewWindow,
       UnlockStorageMain, EndOfInput, SetStop, JoinTimeoutThread, FlushMain,
       CleanMemory, StartTimeoutThread, LockTimeTimer, AddTimeout, TestStop,
       LockStorageTimer, SweepSend, SweepKeep, UnlockStorageTimer, WakeUp,
       Finished, vars, threadVars, mainVars
  <2>2. CASE \E f \in Flows : Receive(f)
    BY <2>2 DEF Receive, IInv, TypeOK
  <2>3. QED
    BY <2>1, <2>2
\* What was summarised before, is summarised after.
<1>3. \A k, a : Summarises(k, a) => Summarises(k, a)'
  BY <1>2, SummaryFrame
<1>4. \A k \in Stored : Summarises(k, storage[k])
  BY DEF AggregatesSummarise
<1>5. \A n \in DOMAIN sent : Summarises(sent[n].key, sent[n])
  BY DEF AggregatesSummarise
<1>6. CASE UNCHANGED <<storage, sent>>
  <2>1. SummarisedAfter
    BY <1>3, <1>4, <1>5, <1>6 DEF SummarisedAfter, Stored
  <2>2. QED
    BY <1>1, <2>1, SummarisedAfterSuffices
<1>7. ASSUME NEW k \in Stored, SendAndErase(k) PROVE AggregatesSummarise'
  <2>1. /\ k \in Keys /\ sent' = Append(sent, Report(k, storage[k]))
        /\ \A l \in Stored' : l \in Stored /\ storage'[l] = storage[l]
    BY <1>7 DEF SendAndErase, Stored, IInv, TypeOK
  <2>2. /\ Summarises(k, Report(k, storage[k]))
        /\ Report(k, storage[k]).key = k
    BY <2>1, <1>4, SummaryOfReport
  <2>3. \A n \in (DOMAIN sent)' :
          \/ n \in DOMAIN sent /\ sent'[n] = sent[n]
          \/ sent'[n] = Report(k, storage[k])
    BY <2>1 DEF IInv, TypeOK
  <2>4. SummarisedAfter
    BY <1>3, <1>4, <1>5, <2>1, <2>2, <2>3 DEF SummarisedAfter
  <2>5. QED
    BY <1>1, <2>4, SummarisedAfterSuffices
<1>8. CASE CreateRecord \/ UpdateRecord \/ OpenNewWindow
  <2>1. pcM = "locked" /\ Len(arrived) > 0
    BY <1>8 DEF CreateRecord, UpdateRecord, OpenNewWindow, IInv, InFlightExists
  <2>2. PICK k \in Keys, c \in Nat : k = rec_key /\ c = cur
    BY <2>1, CurrentRecord DEF IInv
  <2>3. Summarises(k, init_record_data)
    BY <2>1, <2>2, SummaryOfOne
  <2>4. CASE CreateRecord
    <3>1. storage' = [storage EXCEPT ![k] = init_record_data] /\ UNCHANGED sent
      BY <2>2, <2>4 DEF CreateRecord
    <3>2. \A l \in Stored' : \/ l = k /\ storage'[l] = init_record_data
                             \/ l \in Stored /\ storage'[l] = storage[l]
      BY <3>1 DEF Stored, IInv, TypeOK
    <3>3. SummarisedAfter
      BY <1>3, <1>4, <1>5, <2>3, <3>1, <3>2 DEF SummarisedAfter
    <3>4. QED
      BY <1>1, <3>3, SummarisedAfterSuffices
  <2>5. CASE UpdateRecord
    <3> DEFINE b == process_agg_functions(storage[k])
    <3>1. storage' = [storage EXCEPT ![k] = b] /\ UNCHANGED sent
      BY <2>2, <2>5 DEF UpdateRecord, IInv, TypeOK
    <3>2. k \in Stored /\ storage[k] \in Aggregate
      BY <2>2, <2>5 DEF UpdateRecord, Stored, IInv, TypeOK
    <3>3. c \notin storage[k].flows
      BY <2>1, <2>2, <3>2 DEF PInv, EachFlowInOneAggregate, InFlight, Open, Stored
    <3>4. Summarises(k, b)
      BY <2>1, <2>2, <3>2, <3>3, <1>4, SummaryOfMore
    <3>5. \A l \in Stored' : \/ l = k /\ storage'[l] = b
                             \/ l \in Stored /\ storage'[l] = storage[l]
      BY <3>1 DEF Stored, IInv, TypeOK
    <3>6. SummarisedAfter
      BY <1>3, <1>4, <1>5, <3>1, <3>4, <3>5 DEF SummarisedAfter
    <3>7. QED
      BY <1>1, <3>6, SummarisedAfterSuffices
  <2>6. CASE OpenNewWindow
    <3>1. /\ storage' = [storage EXCEPT ![k] = init_record_data]
          /\ storage[k] # Absent
          /\ sent' = Append(sent, Report(k, storage[k]))
      BY <2>2, <2>6 DEF OpenNewWindow
    <3>2. Summarises(k, Report(k, storage[k])) /\ Report(k, storage[k]).key = k
      BY <3>1, <1>4, SummaryOfReport DEF Stored
    <3>3. \A l \in Stored' : \/ l = k /\ storage'[l] = init_record_data
                             \/ l \in Stored /\ storage'[l] = storage[l]
      BY <3>1 DEF Stored, IInv, TypeOK
    <3>4. \A n \in (DOMAIN sent)' :
            \/ n \in DOMAIN sent /\ sent'[n] = sent[n]
            \/ sent'[n] = Report(k, storage[k])
      BY <3>1 DEF IInv, TypeOK
    <3>5. SummarisedAfter
      BY <1>3, <1>4, <1>5, <2>3, <3>2, <3>3, <3>4 DEF SummarisedAfter
    <3>6. QED
      BY <1>1, <3>5, SummarisedAfterSuffices
  <2>7. QED
    BY <1>8, <2>4, <2>5, <2>6
<1>9. QED
  BY <1>6, <1>7, <1>8, StoreSteps DEF StoreStep

\* COUNT, TIME_FIRST and TIME_LAST of every aggregate, stored or reported, are
\* those of the records it was made from.
THEOREM AggregatesSummariseTheorem == Spec => []AggregatesSummarise
<1>1. Init => AggregatesSummarise
  BY DEF Init, AggregatesSummarise, Stored
<1>2. IInv /\ PInv /\ AggregatesSummarise /\ [Next]_vars => AggregatesSummarise'
  BY SummariseInductive
<1>3. QED
  BY <1>1, <1>2, IInvCorrect, PInvCorrect, PTL DEF Spec

-----------------------------------------------------------------------------
(* What one step does to the records, the storage and the output.          *)

Grown == \A i \in DOMAIN arrived : i \in (DOMAIN arrived)' /\ arrived'[i] = arrived[i]

\* Records received stay what they are.
LEMMA ArrivedGrows ==
  ASSUME IInv, [Next]_vars
  PROVE  Grown
<1>1. (\E f \in Flows : Receive(f)) \/ UNCHANGED arrived
  BY DEF Next, Step, Eval, Destroy, check_timeouts, InitStage, InitFails, LockTimeMain,
     SetTime, LockStorageMain, CreateRecord, UpdateRecord, OpenNewWindow,
     UnlockStorageMain, EndOfInput, SetStop, JoinTimeoutThread, FlushMain,
     CleanMemory, StartTimeoutThread, LockTimeTimer, AddTimeout, TestStop,
     LockStorageTimer, SweepSend, SweepKeep, UnlockStorageTimer, WakeUp,
     Finished, vars, threadVars, mainVars
<1>2. CASE \E f \in Flows : Receive(f)
  BY <1>2 DEF Receive, IInv, TypeOK, Grown
<1>3. QED
  BY <1>1, <1>2 DEF Grown

\* The window type is that of the rule for good.
LEMMA WindowFixed == [Next]_vars => window' = window
BY DEF Next, vars

-----------------------------------------------------------------------------
(* The records of one aggregate lie in one active window.                  *)

LEMMA WithinOne ==
  ASSUME IInv, Len(arrived) > 0
  PROVE  WithinActiveWindow(init_record_data)
<1>1. cur \in Nat
  BY CurrentRecord DEF IInv
<1>2. init_record_data.flows = {cur}
  BY DEF init_record_data
<1>3. QED
  BY <1>1, <1>2 DEF WithinActiveWindow, Members

\* TIME_FIRST of the aggregate is the earliest beginning so far, and the record
\* added is the latest one to arrive.
LEMMA WithinMore ==
  ASSUME IInv, NEW k \in Keys, NEW a \in Aggregate, Summarises(k, a),
         Len(arrived) > 0, cur \notin a.flows,
         WithinActiveWindow(a),
         a.first + ActiveTimeout >= in_rec.first
  PROVE  WithinActiveWindow(process_agg_functions(a))
<1> DEFINE b == process_agg_functions(a)
<1>1. /\ cur \in Nat /\ DOMAIN arrived = 1 .. cur
      /\ cur \in DOMAIN arrived /\ arrived[cur] = in_rec
      /\ \A i \in DOMAIN arrived : arrived[i].first \in Int
  <2>1. \A i \in DOMAIN arrived : arrived[i] \in Flows
    BY DEF IInv, TypeOK
  <2>2. QED
    BY <2>1, CurrentRecord, FlowsAssumption DEF IInv, TypeOK, cur, in_rec
<1>2. b.flows = a.flows \cup {cur}
  BY DEF process_agg_functions
<1>3. Members(a) = a.flows /\ Members(b) = a.flows \cup {cur}
  BY <1>1, <1>2 DEF Members, Summarises
<1>4. \A i \in a.flows : i \in Nat /\ i < cur
  BY <1>1 DEF Summarises
<1>5. PICK m \in a.flows : arrived[m].first = a.first
  BY DEF Summarises
<1> SUFFICES ASSUME NEW i \in Members(b), NEW j \in Members(b), j < i,
                    \A h \in Members(b) : h < i => arrived[j].first <= arrived[h].first
             PROVE  arrived[i].first <= arrived[j].first + ActiveTimeout
  BY DEF WithinActiveWindow
<1>6. CASE i = cur
  <2>1. j \in a.flows /\ arrived[j].first <= arrived[m].first
    BY <1>1, <1>3, <1>4, <1>5, <1>6
  <2>2. a.first <= arrived[j].first
    BY <2>1 DEF Summarises
  <2>3. a.first = arrived[j].first
    BY <2>1, <2>2, <1>1, <1>5 DEF Summarises, Aggregate
  <2>4. QED
    BY <2>3, <1>1, <1>6, TimeoutAssumption
<1>7. CASE i \in a.flows
  <2>1. j \in a.flows
    BY <1>1, <1>3, <1>4, <1>7
  <2>2. QED
    BY <2>1, <1>3, <1>7 DEF WithinActiveWindow
<1>8. QED
  BY <1>3, <1>6, <1>7

\* The condition depends on the records of the aggregate only.
LEMMA WithinSame ==
  ASSUME NEW a, NEW b, a.flows = b.flows, WithinActiveWindow(a)
  PROVE  WithinActiveWindow(b)
BY DEF WithinActiveWindow, Members

LEMMA WithinFrame ==
  ASSUME NEW a, a.flows \subseteq DOMAIN arrived, Grown, WithinActiveWindow(a)
  PROVE  WithinActiveWindow(a)'
<1>1. Members(a) = a.flows /\ Members(a)' = a.flows
  BY DEF Members, Grown
<1>2. \A i \in a.flows : arrived'[i] = arrived[i]
  BY DEF Grown
<1>3. QED
  BY <1>1, <1>2 DEF WithinActiveWindow

\* Every aggregate after the step comes from one of before or is one record.
WithinAfter ==
  /\ \A k \in Stored' : \E a \in Aggregate : a = storage'[k] /\ WithinActiveWindow(a)'
  /\ \A n \in (DOMAIN sent)' :
       \E r \in SentAggregate : r = sent'[n] /\ WithinActiveWindow(r)'

LEMMA WithinAfterSuffices ==
  ASSUME WithinAfter PROVE ActiveWindowRespected'
<1>1. ASSUME NEW k \in Stored' PROVE WithinActiveWindow(storage[k])'
  <2>1. PICK a \in Aggregate : a = storage'[k] /\ WithinActiveWindow(a)'
    BY DEF WithinAfter
  <2>2. QED
    BY <2>1 DEF WithinActiveWindow, Members
<1>2. ASSUME NEW n \in (DOMAIN sent)' PROVE WithinActiveWindow(sent[n])'
  <2>1. PICK r \in SentAggregate : r = sent'[n] /\ WithinActiveWindow(r)'
    BY DEF WithinAfter
  <2>2. QED
    BY <2>1 DEF WithinActiveWindow, Members
<1>3. QED
  BY <1>1, <1>2 DEF ActiveWindowRespected

LEMMA WithinInductive ==
  ASSUME IInv, PInv, AggregatesSummarise, ActiveWindowRespected, [Next]_vars,
         window \in {"active", "active_passive"}
  PROVE  ActiveWindowRespected'
<1>1. IInv' /\ Grown
  BY IInvInductive, ArrivedGrows
<1>2. \A k \in Stored' : storage'[k] \in Aggregate
  BY <1>1 DEF Stored, IInv, TypeOK
<1>3. \A n \in (DOMAIN sent)' : sent'[n] \in SentAggregate
  <2>1. sent' \in Seq(SentAggregate)
    BY <1>1 DEF IInv, TypeOK, SentAggregate
  <2>2. QED
    BY <2>1
\* What was within the window before, is so after.
<1>4. \A a : a.flows \subseteq DOMAIN arrived /\ WithinActiveWindow(a)
               => WithinActiveWindow(a)'
  BY <1>1, WithinFrame
<1>5. \A k \in Stored : /\ storage[k] \in Aggregate /\ Summarises(k, storage[k])
                        /\ storage[k].flows \subseteq DOMAIN arrived
                        /\ WithinActiveWindow(storage[k])
  BY DEF IInv, TypeOK, Stored, AggregatesSummarise, ActiveWindowRespected, Summarises
<1>6. \A n \in DOMAIN sent : /\ sent[n].flows \subseteq DOMAIN arrived
                             /\ WithinActiveWindow(sent[n])
  BY DEF AggregatesSummarise, ActiveWindowRespected, Summarises
<1>7. \A k \in Stored : \A a : a = storage[k] => WithinActiveWindow(a)'
  BY <1>4, <1>5
<1>8. \A n \in DOMAIN sent : \A r : r = sent[n] => WithinActiveWindow(r)'
  BY <1>4, <1>6
<1>9. \A k \in Stored : \A r : r = Report(k, storage[k]) => WithinActiveWindow(r)'
  <2> TAKE k \in Stored
  <2> TAKE r
  <2> HAVE r = Report(k, storage[k])
  <2>1. r.flows = storage[k].flows
    BY DEF Report
  <2>2. WithinActiveWindow(r)
    BY <2>1, <1>5, WithinSame
  <2>3. QED
    BY <2>1, <2>2, <1>4, <1>5
<1>10. CASE UNCHANGED <<storage, sent>>
  <2>1. WithinAfter
    BY <1>2, <1>3, <1>7, <1>8, <1>10 DEF WithinAfter, Stored
  <2>2. QED
    BY <2>1, WithinAfterSuffices
<1>11. ASSUME NEW k \in Stored, SendAndErase(k) PROVE ActiveWindowRespected'
  <2>1. /\ \A l \in Stored' : l \in Stored /\ storage'[l] = storage[l]
        /\ \A n \in (DOMAIN sent)' : \/ n \in DOMAIN sent /\ sent'[n] = sent[n]
                                     \/ sent'[n] = Report(k, storage[k])
    BY <1>11 DEF SendAndErase, Stored, IInv, TypeOK
  <2>2. WithinAfter
    BY <1>2, <1>3, <1>7, <1>8, <1>9, <2>1 DEF WithinAfter
  <2>3. QED
    BY <2>2, WithinAfterSuffices
<1>12. CASE CreateRecord \/ UpdateRecord \/ OpenNewWindow
  <2>1. pcM = "locked" /\ Len(arrived) > 0 /\ rec_key \in Keys /\ cur \in DOMAIN arrived
    BY <1>12, CurrentRecord DEF CreateRecord, UpdateRecord, OpenNewWindow, IInv, InFlightExists
  <2>2. \A a : a = init_record_data => WithinActiveWindow(a)'
    <3>1. init_record_data.flows \subseteq DOMAIN arrived
      BY <2>1 DEF init_record_data
    <3>2. QED
      BY <3>1, <2>1, <1>4, WithinOne
  <2>3. CASE CreateRecord \/ OpenNewWindow
    <3>1. PICK k \in Keys : k = rec_key
      BY <2>1
    <3>2. storage' = [storage EXCEPT ![k] = init_record_data]
      BY <2>3, <3>1 DEF CreateRecord, OpenNewWindow
    <3>3. \/ UNCHANGED sent
          \/ k \in Stored /\ sent' = Append(sent, Report(k, storage[k]))
      BY <2>3, <3>1 DEF CreateRecord, OpenNewWindow, Stored
    <3>4. \A l \in Stored' : \A a : a = storage'[l] => WithinActiveWindow(a)'
      <4>1. \A l \in Stored' : \/ storage'[l] = init_record_data
                               \/ l \in Stored /\ storage'[l] = storage[l]
        BY <3>2 DEF Stored, IInv, TypeOK
      <4>2. QED
        BY <4>1, <1>7, <2>2
    <3>5. \A n \in (DOMAIN sent)' : \A r : r = sent'[n] => WithinActiveWindow(r)'
      <4>1. \A n \in (DOMAIN sent)' :
              \/ n \in DOMAIN sent /\ sent'[n] = sent[n]
              \/ k \in Stored /\ sent'[n] = Report(k, storage[k])
        BY <3>3 DEF IInv, TypeOK
      <4>2. QED
        BY <4>1, <1>8, <1>9
    <3>6. WithinAfter
      BY <1>2, <1>3, <3>4, <3>5 DEF WithinAfter
    <3>7. QED
      BY <3>6, WithinAfterSuffices
  <2>4. CASE UpdateRecord
    <3>1. PICK k \in Stored : k = rec_key
      BY <2>1, <2>4 DEF UpdateRecord, Stored
    <3>2. PICK a \in Aggregate : a = storage[k]
      BY <1>5
    <3>3. cur \notin a.flows
      BY <2>1, <3>1, <3>2 DEF PInv, EachFlowInOneAggregate, InFlight, Open, Stored
    <3>4. a.first + ActiveTimeout >= in_rec.first
      BY <2>1, <2>4, <3>1, <3>2, CurrentRecord, TimeoutAssumption
         DEF UpdateRecord, new_time_window, IInv, Aggregate
    <3>5. WithinActiveWindow(process_agg_functions(a))
      BY <1>5, <2>1, <3>1, <3>2, <3>3, <3>4, WithinMore DEF Stored
    <3>6. process_agg_functions(a).flows \subseteq DOMAIN arrived
      BY <1>5, <2>1, <3>2 DEF process_agg_functions
    <3>7. \A b : b = process_agg_functions(a) => WithinActiveWindow(b)'
      BY <3>5, <3>6, <1>4
    <3>8. /\ \A l \in Stored' : \/ storage'[l] = process_agg_functions(a)
                                \/ l \in Stored /\ storage'[l] = storage[l]
          /\ UNCHANGED sent
      BY <2>4, <3>1, <3>2 DEF UpdateRecord, Stored, IInv, TypeOK
    <3>9. WithinAfter
      BY <1>2, <1>3, <1>7, <1>8, <3>7, <3>8 DEF WithinAfter
    <3>10. QED
      BY <3>9, WithinAfterSuffices
  <2>5. QED
    BY <1>12, <2>3, <2>4
<1>13. QED
  BY <1>10, <1>11, <1>12, StoreSteps DEF StoreStep

\* With active and mixed windows a record only joins an aggregate if it begins
\* within the active timeout of the earliest beginning in it, in whatever order
\* the records arrive and whatever the timeout thread does in between.
THEOREM ActiveWindowRespectedTheorem == Spec => []ActiveWindowRespected
<1>1. Init => ActiveWindowRespected
  BY DEF Init, ActiveWindowRespected, Stored
<1>2. IInv /\ PInv /\ AggregatesSummarise /\ ActiveWindowRespected /\ [Next]_vars
        => ActiveWindowRespected'
  <2> SUFFICES ASSUME IInv, PInv, AggregatesSummarise, ActiveWindowRespected, [Next]_vars
               PROVE  ActiveWindowRespected'
    OBVIOUS
  <2>1. CASE window \in {"active", "active_passive"}
    BY <2>1, WithinInductive
  <2>2. CASE window \notin {"active", "active_passive"}
    BY <2>2, WindowFixed DEF ActiveWindowRespected
  <2>3. QED
    BY <2>1, <2>2
<1>3. QED
  BY <1>1, <1>2, IInvCorrect, PInvCorrect, AggregatesSummariseTheorem, PTL DEF Spec

-----------------------------------------------------------------------------
(* With active windows nothing but a later record closes an aggregate.     *)

\* The timeout thread has nothing to do, and only a destructor that has set stop
\* flushes.
ActiveThreads ==
  /\ window = "active" => pcT \in {"none", "start", "ended"}
  /\ pcM \in {"join", "flush", "done"} => stop

LEMMA ActiveThreadsInductive ==
  ASSUME IInv, ActiveThreads, [Next]_vars PROVE ActiveThreads'
<1>1. window' = window
  BY WindowFixed
<1>2. CASE Eval \/ Destroy \/ EndOfInput \/ InitStage \/ InitFails
            \/ (\E f \in Flows : Receive(f))
  BY <1>1, <1>2 DEF Eval, Destroy, ActiveThreads, IInv, LockInv, InitStage, InitFails,
     Receive, EndOfInput, LockTimeMain, SetTime, LockStorageMain, CreateRecord,
     UpdateRecord, OpenNewWindow, UnlockStorageMain, SetStop, JoinTimeoutThread,
     FlushMain, CleanMemory, mainVars
<1>3. CASE check_timeouts
  <2>1. CASE StartTimeoutThread
    BY <2>1, <1>1 DEF StartTimeoutThread, ActiveThreads, mainVars
  <2>2. CASE ~ StartTimeoutThread
    BY <2>2, <1>1, <1>3 DEF check_timeouts, ActiveThreads, mainVars, LockTimeTimer,
       AddTimeout, TestStop, LockStorageTimer, SweepSend, SweepKeep, UnlockStorageTimer,
       WakeUp
  <2>3. QED
    BY <2>1, <2>2
<1>4. CASE Finished \/ UNCHANGED vars
  BY <1>4 DEF Finished, vars, threadVars, ActiveThreads
<1>5. QED
  BY <1>2, <1>3, <1>4 DEF Next, Step

LEMMA ActiveThreadsCorrect == Spec => []ActiveThreads
<1>1. Init => ActiveThreads
  BY DEF Init, ActiveThreads
<1>2. QED
  BY <1>1, ActiveThreadsInductive, IInvCorrect, PTL DEF Spec

LEMMA StopStays == ASSUME IInv, [Next]_vars, stop PROVE stop'
BY DEF Next, Step, Eval, Destroy, check_timeouts, InitStage, InitFails, LockTimeMain,
   SetTime, LockStorageMain, CreateRecord, UpdateRecord, OpenNewWindow,
   UnlockStorageMain, EndOfInput, SetStop, JoinTimeoutThread, FlushMain,
   CleanMemory, StartTimeoutThread, LockTimeTimer, AddTimeout, TestStop,
   LockStorageTimer, SweepSend, SweepKeep, UnlockStorageTimer, WakeUp,
   Finished, vars, threadVars, mainVars, Receive

\* Until then only a new window sends.
LEMMA ActiveSends ==
  ASSUME IInv, ActiveThreads, window = "active", ~ stop, [Next]_vars
  PROVE  UNCHANGED sent \/ OpenNewWindow
<1>1. /\ pcT \notin {"sweep"} /\ pcM # "flush"
  BY DEF ActiveThreads
<1>2. QED
  BY <1>1 DEF Next, Step, Eval, Destroy, check_timeouts, InitStage, InitFails,
     LockTimeMain, SetTime, LockStorageMain, CreateRecord, UpdateRecord,
     UnlockStorageMain, EndOfInput, SetStop, JoinTimeoutThread, FlushMain,
     CleanMemory, StartTimeoutThread, LockTimeTimer, AddTimeout, TestStop,
     LockStorageTimer, SweepSend, SweepKeep, UnlockStorageTimer, WakeUp,
     Finished, vars, threadVars, storeVars, Receive

\* A later record of the same key lies beyond the window of r.
Justified(r) ==
  \E i \in DOMAIN arrived : /\ arrived[i].key = r.key
                            /\ \A j \in Members(r) : j < i
                            /\ r.first + ActiveTimeout < arrived[i].first

LEMMA JustifiedFrame ==
  ASSUME NEW r, r.flows \subseteq DOMAIN arrived, Grown, Justified(r)
  PROVE  Justified(r)'
<1>1. Members(r) = r.flows /\ Members(r)' = r.flows
  BY DEF Members, Grown
<1>2. QED
  BY <1>1 DEF Justified, Grown

\* The aggregate that makes room for the record under evaluation.
LEMMA JustifiedReport ==
  ASSUME IInv, PInv, NEW k \in Keys, k = rec_key, OpenNewWindow
  PROVE  Justified(Report(k, storage[k]))
<1>1. Len(arrived) > 0 /\ k \in Stored /\ pcM = "locked"
  BY DEF OpenNewWindow, IInv, InFlightExists, Stored
<1>2. /\ cur \in DOMAIN arrived /\ DOMAIN arrived = 1 .. cur /\ cur \in Nat
      /\ arrived[cur] = in_rec
  BY <1>1, CurrentRecord DEF IInv, TypeOK, cur, in_rec
<1>3. storage[k].flows \subseteq (1 .. cur) \ {cur}
  BY <1>1, <1>2 DEF PInv, KnownFlows, EachFlowInOneAggregate, InFlight, Open, Stored
<1>4. storage[k].first + ActiveTimeout < in_rec.first
  BY DEF OpenNewWindow, new_time_window
<1>5. \A j \in Members(Report(k, storage[k])) : j < cur
  BY <1>2, <1>3 DEF Members, Report
<1>6. QED
  BY <1>2, <1>4, <1>5 DEF Justified, Report, rec_key

LEMMA SplitInductive ==
  ASSUME IInv, PInv, ActiveThreads, ActiveSplitJustified, [Next]_vars
  PROVE  ActiveSplitJustified'
<1> SUFFICES ASSUME window' = "active", ~ stop', NEW n \in (DOMAIN sent)',
                    NEW r, r = sent'[n]
             PROVE  Justified(r)'
  BY DEF ActiveSplitJustified, Justified, Members
<1>1. window = "active" /\ ~ stop /\ Grown /\ IInv'
  BY WindowFixed, StopStays, ArrivedGrows, IInvInductive
<1>2. \A m \in DOMAIN sent : /\ Justified(sent[m])
                             /\ sent[m].flows \subseteq DOMAIN arrived
  BY <1>1 DEF ActiveSplitJustified, Justified, PInv, KnownFlows
<1>3. CASE n \in DOMAIN sent /\ r = sent[n]
  BY <1>1, <1>2, <1>3, JustifiedFrame
<1>4. CASE OpenNewWindow
  <2>1. PICK k \in Keys : k = rec_key
    BY <1>4, CurrentRecord DEF OpenNewWindow, IInv, InFlightExists
  <2>2. sent' = Append(sent, Report(k, storage[k])) /\ k \in Stored
    BY <1>4, <2>1 DEF OpenNewWindow, Stored
  <2>3. \/ n \in DOMAIN sent /\ r = sent[n]
        \/ r = Report(k, storage[k])
    BY <2>2 DEF IInv, TypeOK
  <2>4. Justified(Report(k, storage[k]))
    BY <1>4, <2>1, JustifiedReport
  <2>5. Report(k, storage[k]).flows \subseteq DOMAIN arrived
    BY <2>2 DEF Report, PInv, KnownFlows, Open, Stored
  <2>6. QED
    BY <1>1, <1>3, <2>3, <2>4, <2>5, JustifiedFrame
<1>5. CASE UNCHANGED sent
  BY <1>3, <1>5
<1>6. QED
  BY <1>1, <1>4, <1>5, ActiveSends

\* With active windows an aggregate is reported because a later record of its
\* key begins beyond its window, or by the destructor: neither the timeout
\* thread nor a late record splits it.
THEOREM ActiveSplitJustifiedTheorem == Spec => []ActiveSplitJustified
<1>1. Init => ActiveSplitJustified
  BY DEF Init, ActiveSplitJustified
<1>2. QED
  BY <1>1, SplitInductive, ActiveThreadsCorrect, IInvCorrect, PInvCorrect, PTL DEF Spec
=============================================================================
