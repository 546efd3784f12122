------------------------------ MODULE AggStage ------------------------------
(***************************************************************************)
(* One aggregator stage (class Agg, backend/aggregator/aggregator.cpp).    *)
(*                                                                         *)
(* Two threads share the stage: the main thread, which runs Agg::eval for  *)
(* every flow record and finally Agg::~Agg, and the timeout thread, which  *)
(* Agg::init starts and which runs Agg::check_timeouts.  They share the    *)
(* storage (key -> aggregate) under storage_mutex, and                     *)
(* time_last_from_record under time_last_from_record_mutex, except that    *)
(* the sweep reads time_last_from_record without its mutex.                *)
(*                                                                         *)
(* The stage is modelled at the grain of its critical sections; the sweep  *)
(* and the flush take one step per stored aggregate.  A record is          *)
(* abstracted to its key, TIME_FIRST and TIME_LAST, in seconds.  The       *)
(* duration of a sleep is abstracted to "some time" (module PassiveClock   *)
(* models durations).  Allocation succeeds (AggAllocFailure models its     *)
(* failure).                                                               *)
(***************************************************************************)
EXTENDS Integers, Sequences, FiniteSets

CONSTANTS
  Keys,            \* values of the grouper key
  Flows,           \* input records: [key, first, last]
  Windows,         \* types of windows a rule may ask for
  ActiveTimeout,   \* config.get_timeout(TIMEOUT_ACTIVE), in seconds
  PassiveTimeout,  \* config.get_timeout(TIMEOUT_PASSIVE), in seconds
  StartTime,       \* time(NULL) when Agg::init runs
  MaxFlows,        \* bound: records received in one behaviour
  MaxTimeLast,     \* bound: time_last_from_record saturates here
  Absent           \* the storage has no element for a key

WindowTypes == {"active", "passive", "active_passive", "global"}

ASSUME FlowsAssumption ==
  /\ Flows \subseteq [key: Keys, first: Int, last: Int]
  /\ \A f \in Flows : f.first <= f.last
ASSUME WindowAssumption  == Windows \subseteq WindowTypes
ASSUME TimeoutAssumption ==
  /\ ActiveTimeout \in Nat \ {0} /\ PassiveTimeout \in Nat \ {0}
  /\ StartTime \in Int /\ MaxTimeLast \in Int
ASSUME BoundAssumption   == MaxFlows \in Nat
ASSUME AbsentAssumption  ==
  Absent \notin [count: Nat, first: Int, last: Int, flows: SUBSET Nat]

VARIABLES
  window,       \* config.get_timeout_type(), fixed by the rule
  pcM,          \* where the main thread is
  pcT,          \* where the timeout thread is
  storageLock,  \* holder of storage_mutex
  timeLock,     \* holder of time_last_from_record_mutex
  timeLast,     \* time_last_from_record
  once,         \* the static of Agg::eval: no record evaluated yet
  stop,         \* Agg::stop
  storage,      \* key -> aggregate or Absent
  todo,         \* keys the current iteration over the storage still has to visit
  arrived,      \* history: the records received, in order
  sent          \* history: the aggregates passed to the successors, in order

mainVars  == <<pcM, once, stop, arrived>>
timeVars  == <<timeLock, timeLast>>
storeVars == <<storageLock, storage, todo, sent>>
threadVars == <<pcM, pcT, storageLock, timeLock, timeLast, once, stop, storage, todo,
                arrived, sent>>
vars == <<window, threadVars>>

-----------------------------------------------------------------------------
(* Aggregates.  The member flows is a history component: the positions in  *)
(* arrived of the records the aggregate was made from.                     *)

Aggregate == [count: Nat, first: Int, last: Int, flows: SUBSET Nat]

Report(k, a) == [key |-> k, count |-> a.count, first |-> a.first,
                 last |-> a.last, flows |-> a.flows]

Stored == {k \in Keys : storage[k] # Absent}

cur     == Len(arrived)          \* the record the main thread is evaluating
in_rec  == arrived[cur]
rec_key == in_rec.key

\* Mutant: COUNT is not set.
init_record_data_no_count ==
  [first |-> in_rec.first, last |-> in_rec.last, flows |-> {cur}]

init_record_data ==
  [count |-> 1, first |-> in_rec.first, last |-> in_rec.last, flows |-> {cur}]

\* Mutant: TIME_FIRST stays that of the first record.
process_agg_functions_keep_first(a) ==
  [count |-> a.count + 1, first |-> a.first,
   last  |-> IF in_rec.last > a.last THEN in_rec.last ELSE a.last,
   flows |-> a.flows \cup {cur}]

process_agg_functions(a) ==
  [count |-> a.count + 1,
   first |-> IF in_rec.first < a.first THEN in_rec.first ELSE a.first,
   last  |-> IF in_rec.last > a.last THEN in_rec.last ELSE a.last,
   flows |-> a.flows \cup {cur}]

\* Mutants: a record at the very end of the window opens a new one; the window
\* is measured from TIME_LAST.
new_time_window_early(a) ==
  /\ window \in {"active", "active_passive"}
  /\ a.first + ActiveTimeout <= in_rec.first

new_time_window_idle(a) ==
  /\ window \in {"active", "active_passive"}
  /\ a.last + ActiveTimeout < in_rec.first

\* The main thread checks the time window of active and mixed timeouts only.
new_time_window(a) ==
  /\ window \in {"active", "active_passive"}
  /\ a.first + ActiveTimeout < in_rec.first

\* What the timeout thread sends: everything, or the aggregates that are
\* older than the time of the records.
Expired(a) ==
  \/ window = "global"
  \/ a.last < timeLast - PassiveTimeout

\* send_record_out, ur_free_record and the removal of the element.
SendAndErase(k) ==
  /\ sent' = Append(sent, Report(k, storage[k]))
  /\ storage' = [storage EXCEPT ![k] = Absent]
  /\ todo' = todo \ {k}

Cap(t) == IF t > MaxTimeLast THEN MaxTimeLast ELSE t

-----------------------------------------------------------------------------
Init ==
  /\ window \in Windows
  /\ pcM = "init" /\ pcT = "none"
  /\ storageLock = "free" /\ timeLock = "free"
  /\ timeLast = StartTime
  /\ once = TRUE /\ stop = FALSE
  /\ storage = [k \in Keys |-> Absent]
  /\ todo = {}
  /\ arrived = <<>> /\ sent = <<>>

(* Agg::init: it may fail before it starts the timeout thread.             *)
InitStage ==
  /\ pcM = "init"
  /\ timeLast' = StartTime
  /\ pcT' = "start"
  /\ pcM' = "idle"
  /\ UNCHANGED <<once, stop, arrived, timeLock, storeVars>>

InitFails ==
  /\ pcM = "init"
  /\ pcM' = "ending"
  /\ UNCHANGED <<pcT, once, stop, arrived, timeVars, storeVars>>

-----------------------------------------------------------------------------
(* Main thread: Agg::eval.                                                 *)

\* The stage is given a record; only the first one ever sets the time.
Receive(f) ==
  /\ pcM = "idle" /\ cur < MaxFlows
  /\ arrived' = Append(arrived, f)
  /\ pcM' = IF once THEN "timeLock" ELSE "lock"
  /\ UNCHANGED <<pcT, once, stop, timeVars, storeVars>>

LockTimeMain ==
  /\ pcM = "timeLock" /\ timeLock = "free"
  /\ timeLock' = "main"
  /\ pcM' = "timeSet"
  /\ UNCHANGED <<pcT, once, stop, arrived, timeLast, storeVars>>

\* Mutant: once is not reset.
SetTime_always ==
  /\ pcM = "timeSet"
  /\ timeLast' = Cap(in_rec.last)
  /\ timeLock' = "free"
  /\ pcM' = "lock"
  /\ UNCHANGED <<pcT, once, stop, arrived, storeVars>>

SetTime ==
  /\ pcM = "timeSet"
  /\ timeLast' = Cap(in_rec.last)
  /\ timeLock' = "free"
  /\ once' = FALSE
  /\ pcM' = "lock"
  /\ UNCHANGED <<pcT, stop, arrived, storeVars>>

\* Mutant: eval does not wait for the mutex.
LockStorageMain_no_wait ==
  /\ pcM = "lock" /\ ~stop
  /\ pcM' = "locked"
  /\ UNCHANGED <<pcT, once, stop, arrived, timeVars, storeVars>>

LockStorageMain ==
  /\ pcM = "lock" /\ ~stop
  /\ storageLock = "free"
  /\ storageLock' = "main"
  /\ pcM' = "locked"
  /\ UNCHANGED <<pcT, once, stop, arrived, timeVars, storage, todo, sent>>

CreateRecord ==
  /\ pcM = "locked" /\ storage[rec_key] = Absent
  /\ storage' = [storage EXCEPT ![rec_key] = init_record_data]
  /\ pcM' = "unlock"
  /\ UNCHANGED <<pcT, once, stop, arrived, timeVars, storageLock, todo, sent>>

UpdateRecord ==
  /\ pcM = "locked" /\ storage[rec_key] # Absent
  /\ ~ new_time_window(storage[rec_key])
  /\ storage' = [storage EXCEPT ![rec_key] = process_agg_functions(@)]
  /\ pcM' = "unlock"
  /\ UNCHANGED <<pcT, once, stop, arrived, timeVars, storageLock, todo, sent>>

OpenNewWindow ==
  /\ pcM = "locked" /\ storage[rec_key] # Absent
  /\ new_time_window(storage[rec_key])
  /\ sent' = Append(sent, Report(rec_key, storage[rec_key]))
  /\ storage' = [storage EXCEPT ![rec_key] = init_record_data]
  /\ pcM' = "unlock"
  /\ UNCHANGED <<pcT, once, stop, arrived, timeVars, storageLock, todo>>

UnlockStorageMain ==
  /\ pcM = "unlock"
  /\ storageLock' = "free"
  /\ pcM' = "idle"
  /\ UNCHANGED <<pcT, once, stop, arrived, timeVars, storage, todo, sent>>

-----------------------------------------------------------------------------
(* Main thread: the end of the input or a signal, then Agg::~Agg.          *)

EndOfInput ==
  /\ pcM = "idle"
  /\ pcM' = "ending"
  /\ UNCHANGED <<pcT, once, stop, arrived, timeVars, storeVars>>

SetStop ==
  /\ pcM = "ending"
  /\ stop' = TRUE
  /\ pcM' = "join"
  /\ UNCHANGED <<pcT, once, arrived, timeVars, storeVars>>

\* join() returns; flush_storage starts, without storage_mutex.
JoinTimeoutThread ==
  /\ pcM = "join" /\ pcT \in {"none", "ended"}
  /\ todo' = Stored
  /\ pcM' = "flush"
  /\ UNCHANGED <<pcT, once, stop, arrived, timeVars, storageLock, storage, sent>>

FlushMain(k) ==
  /\ pcM = "flush" /\ k \in todo
  /\ SendAndErase(k)
  /\ UNCHANGED <<pcT, mainVars, timeVars, storageLock>>

\* Mutant: the storage is freed before all of it was flushed.
CleanMemory_early ==
  /\ pcM = "flush"
  /\ storage' = [k \in Keys |-> Absent]
  /\ pcM' = "done"
  /\ UNCHANGED <<pcT, once, stop, arrived, timeVars, storageLock, todo, sent>>

\* clean_memory: whatever the storage still holds is freed, not sent.
CleanMemory ==
  /\ pcM = "flush" /\ todo = {}
  /\ storage' = [k \in Keys |-> Absent]
  /\ pcM' = "done"
  /\ UNCHANGED <<pcT, once, stop, arrived, timeVars, storageLock, todo, sent>>

-----------------------------------------------------------------------------
(* Timeout thread: Agg::check_timeouts.                                    *)

StartTimeoutThread ==
  /\ pcT = "start"
  /\ pcT' = CASE window = "active" -> "ended"
              [] window = "global" -> "loop"
              [] OTHER             -> "initTime"
  /\ UNCHANGED <<mainVars, timeVars, storeVars>>

LockTimeTimer(from, to) ==
  /\ pcT = from /\ timeLock = "free"
  /\ timeLock' = "timer"
  /\ pcT' = to
  /\ UNCHANGED <<mainVars, timeLast, storeVars>>

\* Mutant: the time is not advanced.
AddTimeout_none(from, to) ==
  /\ pcT = from
  /\ timeLock' = "free"
  /\ pcT' = to
  /\ UNCHANGED <<mainVars, timeLast, storeVars>>

\* elapsed + sec_to_sleep is the timeout, however long the sweep took.
AddTimeout(from, to) ==
  /\ pcT = from
  /\ timeLast' = Cap(timeLast + PassiveTimeout)
  /\ timeLock' = "free"
  /\ pcT' = to
  /\ UNCHANGED <<mainVars, storeVars>>

\* Mutant: the loop ignores stop.
TestStop_never ==
  /\ pcT = "loop"
  /\ pcT' = "wantStorage"
  /\ UNCHANGED <<mainVars, timeVars, storeVars>>

TestStop ==
  /\ pcT = "loop"
  /\ pcT' = IF stop THEN "ended" ELSE "wantStorage"
  /\ UNCHANGED <<mainVars, timeVars, storeVars>>

LockStorageTimer ==
  /\ pcT = "wantStorage" /\ storageLock = "free"
  /\ storageLock' = "timer"
  /\ todo' = Stored
  /\ pcT' = "sweep"
  /\ UNCHANGED <<mainVars, timeVars, storage, sent>>

\* Mutant: a reported aggregate stays in the storage.
SweepSend_keep(k) ==
  /\ pcT = "sweep" /\ k \in todo
  /\ Expired(storage[k])
  /\ sent' = Append(sent, Report(k, storage[k]))
  /\ todo' = todo \ {k}
  /\ UNCHANGED <<pcT, mainVars, timeVars, storageLock, storage>>

SweepSend(k) ==
  /\ pcT = "sweep" /\ k \in todo
  /\ Expired(storage[k])
  /\ SendAndErase(k)
  /\ UNCHANGED <<pcT, mainVars, timeVars, storageLock>>

SweepKeep(k) ==
  /\ pcT = "sweep" /\ k \in todo
  /\ ~ Expired(storage[k])
  /\ todo' = todo \ {k}
  /\ UNCHANGED <<pcT, mainVars, timeVars, storageLock, storage, sent>>

UnlockStorageTimer ==
  /\ pcT = "sweep" /\ todo = {}
  /\ storageLock' = "free"
  /\ pcT' = IF window = "global" THEN "sleep" ELSE "loopTime"
  /\ UNCHANGED <<mainVars, timeVars, storage, todo, sent>>

WakeUp ==
  /\ pcT = "sleep"
  /\ pcT' = "loop"
  /\ UNCHANGED <<mainVars, timeVars, storeVars>>

-----------------------------------------------------------------------------
Eval ==
  \/ LockTimeMain \/ SetTime
  \/ LockStorageMain \/ CreateRecord \/ UpdateRecord \/ OpenNewWindow
  \/ UnlockStorageMain

Destroy ==
  \/ SetStop \/ JoinTimeoutThread
  \/ \E k \in Keys : FlushMain(k)
  \/ CleanMemory

check_timeouts ==
  \/ StartTimeoutThread
  \/ LockTimeTimer("initTime", "initAdd") \/ AddTimeout("initAdd", "loop")
  \/ TestStop \/ LockStorageTimer
  \/ \E k \in Keys : SweepSend(k) \/ SweepKeep(k)
  \/ UnlockStorageTimer
  \/ LockTimeTimer("loopTime", "loopAdd") \/ AddTimeout("loopAdd", "sleep")
  \/ WakeUp

\* The program has returned from main.
Finished == pcM = "done" /\ UNCHANGED vars

Step ==
  \/ InitStage \/ InitFails
  \/ \E f \in Flows : Receive(f)
  \/ Eval
  \/ EndOfInput
  \/ Destroy
  \/ check_timeouts
  \/ Finished

Next == Step /\ UNCHANGED window

Spec == Init /\ [][Next]_vars

(***************************************************************************)
(* Fairness: a runnable thread is scheduled, and a thread that waits for a *)
(* mutex which is released again and again gets it in the end (the other   *)
(* thread sleeps, or waits for input, between two acquisitions).  Nothing  *)
(* is assumed of the arrival of records or of the end of the input.        *)
(***************************************************************************)
Fairness ==
  /\ WF_threadVars(Eval) /\ WF_threadVars(Destroy) /\ WF_threadVars(check_timeouts)
  /\ SF_threadVars(LockStorageMain) /\ SF_threadVars(LockTimeMain)
  /\ SF_threadVars(LockStorageTimer)
  /\ SF_threadVars(LockTimeTimer("initTime", "initAdd"))
  /\ SF_threadVars(LockTimeTimer("loopTime", "loopAdd"))

FairSpec == Spec /\ Fairness

-----------------------------------------------------------------------------
(* Type invariant.                                                         *)

TypeOK ==
  /\ window \in WindowTypes
  /\ pcM \in {"init", "idle", "timeLock", "timeSet", "lock", "locked", "unlock",
              "ending", "join", "flush", "done"}
  /\ pcT \in {"none", "start", "initTime", "initAdd", "loop", "wantStorage",
              "sweep", "loopTime", "loopAdd", "sleep", "ended"}
  /\ storageLock \in {"free", "main", "timer"}
  /\ timeLock \in {"free", "main", "timer"}
  /\ timeLast \in Int
  /\ once \in BOOLEAN /\ stop \in BOOLEAN
  /\ storage \in [Keys -> Aggregate \cup {Absent}]
  /\ todo \subseteq Keys
  /\ arrived \in Seq(Flows)
  /\ sent \in Seq([key: Keys, count: Nat, first: Int, last: Int,
                   flows: SUBSET Nat])

-----------------------------------------------------------------------------
(* Safety.                                                                 *)

\* The record under evaluation is not part of an aggregate yet.
InFlight == IF pcM \in {"timeLock", "timeSet", "lock", "locked"} THEN {cur} ELSE {}

Open(k) == IF storage[k] = Absent THEN {} ELSE storage[k].flows

\* Every record the stage has evaluated is part of exactly one aggregate,
\* which is either in the storage or was passed on once: neither the sweep,
\* nor a new window, nor the flush of the destructor loses or repeats one.
EachFlowInOneAggregate ==
  /\ \A i \in DOMAIN arrived \ InFlight :
       \/ \E k \in Keys : i \in Open(k)
       \/ \E n \in DOMAIN sent : i \in sent[n].flows
  /\ \A i \in InFlight : \A k \in Keys : i \notin Open(k)
  /\ \A i \in InFlight : \A n \in DOMAIN sent : i \notin sent[n].flows
  /\ \A k \in Keys, n \in DOMAIN sent : Open(k) \cap sent[n].flows = {}
  /\ \A k, l \in Keys : k # l => Open(k) \cap Open(l) = {}
  /\ \A m, n \in DOMAIN sent : m # n => sent[m].flows \cap sent[n].flows = {}

\* COUNT, TIME_FIRST and TIME_LAST of an aggregate are those of its records,
\* and all of its records have its key (process_agg_functions,
\* init_record_data after a window was closed).
Summarises(k, a) ==
  /\ a.flows \subseteq DOMAIN arrived
  /\ a.count = Cardinality(a.flows)
  /\ \A i \in a.flows : /\ arrived[i].key = k
                        /\ a.first <= arrived[i].first
                        /\ arrived[i].last <= a.last
  /\ \E i \in a.flows : arrived[i].first = a.first
  /\ \E i \in a.flows : arrived[i].last = a.last

AggregatesSummarise ==
  /\ \A k \in Stored : Summarises(k, storage[k])
  /\ \A n \in DOMAIN sent : Summarises(sent[n].key, sent[n])

\* The storage is touched by one thread at a time: in eval and in the sweep
\* because of storage_mutex, in the destructor because the timeout thread has
\* ended ("All other threads not running now", aggregator.cpp:584).
StorageAccessExclusive ==
  /\ ~ (pcM \in {"locked", "unlock"} /\ pcT = "sweep")
  /\ pcM \in {"flush", "done"} => pcT \in {"none", "ended"}

\* The sweep reads time_last_from_record without its mutex (aggregator.cpp:330).
\* That is no data race, because the only write of the main thread comes before
\* the first record is stored.
NoRaceOnTimeLast ==
  pcM = "timeSet" => ~ (pcT = "sweep" /\ todo # {})

\* Records of one aggregate begin within the active timeout of the earliest
\* beginning seen before them.
Members(a) == {i \in DOMAIN arrived : i \in a.flows}

WithinActiveWindow(a) ==
  \A i, j \in Members(a) :
    j < i /\ (\A h \in Members(a) : h < i => arrived[j].first <= arrived[h].first)
      => arrived[i].first <= arrived[j].first + ActiveTimeout

ActiveWindowRespected ==
  window \in {"active", "active_passive"} =>
    /\ \A k \in Stored : WithinActiveWindow(storage[k])
    /\ \A n \in DOMAIN sent : WithinActiveWindow(sent[n])

\* With active windows an aggregate is only closed by a record beyond its
\* window, or by the destructor: nothing is split too early.
ActiveSplitJustified ==
  window = "active" /\ ~ stop =>
    \A n \in DOMAIN sent : \E i \in DOMAIN arrived :
      /\ arrived[i].key = sent[n].key
      /\ \A j \in Members(sent[n]) : j < i
      /\ sent[n].first + ActiveTimeout < arrived[i].first

-----------------------------------------------------------------------------
(* Refinement: the storage and the history implement FlowAggregation.      *)

Reported == [n \in DOMAIN sent |-> [key |-> sent[n].key, flows |-> sent[n].flows]]

Abstract == INSTANCE FlowAggregation WITH
              Ids <- 1 .. MaxFlows, open <- [k \in Keys |-> Open(k)], reported <- Reported

\* Every step of the two threads is a step of FlowAggregation or changes
\* nothing there: no interleaving of eval, sweep and destructor reports part of
\* an aggregate, reports one twice, or drops one that is not reported.
ImplementsFlowAggregation == Abstract!Spec

-----------------------------------------------------------------------------
(* Liveness.                                                               *)

\* The destructor ends: join() returns whatever the timeout thread is doing,
\* and the flush completes.
ShutdownCompletes == (pcM = "ending") ~> (pcM = "done")

\* With a passive, mixed or global window the timeout thread reports every
\* record in the end, even if no further record arrives and the program runs on.
EveryFlowReported ==
  \A i \in 1 .. MaxFlows :
    (window # "active" /\ i \in DOMAIN arrived)
      ~> (\E n \in DOMAIN sent : i \in sent[n].flows)
=============================================================================
