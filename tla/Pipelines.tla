------------------------------ MODULE Pipelines ------------------------------
(***************************************************************************)
(* The whole backend at run time (backend.cpp, builder.cpp, interface.hpp, *)
(* and the control of every stage): the tree of stages is initialised,     *)
(* records are pushed through it, and it is destroyed, by the main thread; *)
(* each aggregator has a timeout thread that pushes aggregates through the *)
(* stages below it.                                                        *)
(*                                                                         *)
(* Recursion over the tree is a stack of pending operations per thread, so *)
(* that the threads interleave between any two operations.  The storage of *)
(* an aggregator is abstracted to how many aggregates it holds and windows *)
(* to a choice (AggStage has both in full); a filter passes a record or    *)
(* not.  The trees are those the rule language allows: every path ends in  *)
(* a selector and has at most one aggregator.                              *)
(***************************************************************************)
EXTENDS Integers, Sequences

CONSTANTS
  Stages,      \* the stages the Builder has created
  NoStage,     \* an operation of the whole program has no stage
  Kind,        \* stage -> "filter" (also group-filter), "agg" or "selector"
  Succ,        \* stage -> sequence of its successors
  Root,        \* the main branches, in order
  CanFail,     \* stages whose init may fail
  MaxRecords,  \* bound: records received
  MaxStored    \* bound: aggregates in one storage

ASSUME StageAssumption ==
  /\ Kind \in [Stages -> {"filter", "agg", "selector"}]
  /\ Succ \in [Stages -> Seq(Stages)]
  /\ Root \in Seq(Stages)
  /\ CanFail \subseteq Stages
  /\ {NoStage, "main", "free"} \cap Stages = {}
  /\ \A s \in Stages : Kind[s] = "selector" <=> Succ[s] = <<>>

ASSUME BoundAssumption == MaxRecords \in Nat /\ MaxStored \in Nat

Aggs      == {s \in Stages : Kind[s] = "agg"}
Selectors == {s \in Stages : Kind[s] = "selector"}
Threads   == {"main"} \cup Aggs     \* the timeout thread is named by its stage

\* The stages a record in s may come to: s, its successors, theirs and so on.
Closed(C) == \A s \in C : \A i \in DOMAIN Succ[s] : Succ[s][i] \in C
Below(s)  == {r \in Stages : \A C \in SUBSET Stages : s \in C /\ Closed(C) => r \in C}

\* The Builder creates each stage once, under one Builder_stage_base of a main
\* branch, and the grammar allows one aggregator on a path.
ASSUME TreeAssumption ==
  /\ \A s \in Stages : \A i \in DOMAIN Succ[s] : s \notin Below(Succ[s][i])
  /\ \A q, s \in Stages : \A i \in DOMAIN Succ[q], j \in DOMAIN Succ[s] :
       Succ[q][i] = Succ[s][j] => q = s /\ i = j
  /\ \A i, j \in DOMAIN Root : Root[i] = Root[j] => i = j
  /\ \A i \in DOMAIN Root, s \in Stages : \A j \in DOMAIN Succ[s] : Root[i] # Succ[s][j]
  /\ \A s \in Stages : \E i \in DOMAIN Root : s \in Below(Root[i])
  /\ \A a \in Aggs : Below(a) \cap Aggs = {a}

VARIABLES
  work,      \* thread -> its pending operations, the next one first
  status,    \* stage -> "constructed", "ready", "failed" or "destroyed"
  retVal,    \* build() has met an error
  stopFlag,  \* Backend::stopFlag, set by the signal handler
  stop,      \* Agg::stop, one for all aggregators
  once,      \* the static of Agg::eval, one for all aggregators
  timeFrom,  \* agg -> what time_last_from_record was set from
  lock,      \* agg -> holder of its storage_mutex
  stored,    \* agg -> aggregates in its storage
  received,  \* records received
  eofs       \* history: selector -> end-of-stream messages sent

vars == <<work, status, retVal, stopFlag, stop, once, timeFrom, lock, stored,
          received, eofs>>
buildVars == <<status, retVal>>
flagVars  == <<stopFlag, stop, once>>
aggVars   == <<timeFrom, lock, stored>>
ioVars    == <<received, eofs>>

-----------------------------------------------------------------------------
(* Pending operations.                                                     *)

Op(name, s)     == [op |-> name, stage |-> s]
OpAll(name, ss) == [i \in DOMAIN ss |-> Op(name, ss[i])]
Do(name)        == <<[op |-> name, stage |-> NoStage]>>

\* Thread t is about to perform the operation on stage s.
At(t, name, s) == work[t] # <<>> /\ Head(work[t]) = Op(name, s)

\* Thread t replaces its next operation by the operations ops.
Proceed(t, ops) == work' = [work EXCEPT ![t] = ops \o Tail(@)]

send(s) == OpAll("eval", Succ[s])

-----------------------------------------------------------------------------
Init ==
  /\ work = [t \in Threads |->
               IF t = "main" THEN OpAll("init", Root) \o Do("processing") ELSE <<>>]
  /\ status = [s \in Stages |-> "constructed"]
  /\ retVal = FALSE
  /\ stopFlag = FALSE /\ stop = FALSE /\ once = TRUE
  /\ timeFrom = [a \in Aggs |-> "clock"]
  /\ lock = [a \in Aggs |-> "free"]
  /\ stored = [a \in Aggs |-> 0]
  /\ received = 0
  /\ eofs = [s \in Selectors |-> 0]

-----------------------------------------------------------------------------
(* Building: the successors are initialised before the stage itself, and   *)
(* an error does not stop the initialisation of the rest.                  *)

InitSuccessors(s) ==
  /\ At("main", "init", s)
  /\ Proceed("main", OpAll("init", Succ[s]) \o <<Op("initSelf", s)>>)
  /\ UNCHANGED <<buildVars, flagVars, aggVars, ioVars>>

\* The timeout thread of an aggregator starts; with an active window it
\* returns at once.
InitStage(s) ==
  /\ At("main", "initSelf", s)
  /\ \E timer \in IF Kind[s] = "agg" THEN {<<>>, <<Op("loop", s)>>} ELSE {<<>>} :
       work' = [t \in Threads |-> CASE t = "main" -> Tail(work[t])
                                   [] t = s      -> timer
                                   [] OTHER      -> work[t]]
  /\ status' = [status EXCEPT ![s] = "ready"]
  /\ UNCHANGED <<retVal, flagVars, aggVars, ioVars>>

InitFails(s) ==
  /\ At("main", "initSelf", s) /\ s \in CanFail
  /\ Proceed("main", <<>>)
  /\ status' = [status EXCEPT ![s] = "failed"]
  /\ retVal' = TRUE
  /\ UNCHANGED <<flagVars, aggVars, ioVars>>

-----------------------------------------------------------------------------
(* Processing: Backend::start_processing.                                  *)

MainAt(name) == work["main"] = Do(name)

\* main() returns without processing; ~Backend and ~Builder run.
BuildFailed ==
  /\ MainAt("processing") /\ retVal
  /\ Proceed("main", OpAll("destroy", Root))
  /\ UNCHANGED <<buildVars, flagVars, aggVars, ioVars>>

ReceiveRecord ==
  /\ MainAt("processing") /\ ~ retVal /\ ~ stopFlag
  /\ received < MaxRecords
  /\ received' = received + 1
  /\ Proceed("main", OpAll("eval", Root) \o Do("processing"))
  /\ UNCHANGED <<buildVars, flagVars, aggVars, eofs>>

\* stopFlag is set, or TRAP_RECEIVE reports an error or the end of the data.
LeaveLoop ==
  /\ MainAt("processing") /\ ~ retVal
  /\ Proceed("main", OpAll("destroy", Root))
  /\ UNCHANGED <<buildVars, flagVars, aggVars, ioVars>>

\* The handler is installed when the build has ended.
my_signal_handler ==
  /\ ~ stopFlag /\ work["main"] # <<>>
  /\ \A s \in Stages : status[s] # "constructed"
  /\ stopFlag' = TRUE
  /\ UNCHANGED <<work, buildVars, stop, once, aggVars, ioVars>>

-----------------------------------------------------------------------------
(* Evaluation of a record or an aggregate by thread t.                     *)

EvalFilter(t, s) ==
  /\ Kind[s] = "filter" /\ At(t, "eval", s)
  /\ \E passes \in BOOLEAN : Proceed(t, IF passes THEN send(s) ELSE <<>>)
  /\ UNCHANGED <<buildVars, flagVars, aggVars, ioVars>>

\* The fields of the record are copied to the one output record of the selector.
EvalSelector(t, s) ==
  /\ Kind[s] = "selector" /\ At(t, "eval", s)
  /\ Proceed(t, <<Op("send", s)>>)
  /\ UNCHANGED <<buildVars, flagVars, aggVars, ioVars>>

\* trap_send; what it returns does not change what happens next.
SendOutput(t, s) ==
  /\ At(t, "send", s)
  /\ Proceed(t, <<>>)
  /\ UNCHANGED <<buildVars, flagVars, aggVars, ioVars>>

\* Only the first evaluation of any aggregator sets the time from a record.
EvalAgg(t, a) ==
  /\ Kind[a] = "agg" /\ At(t, "eval", a)
  /\ timeFrom' = IF once THEN [timeFrom EXCEPT ![a] = "records"] ELSE timeFrom
  /\ once' = FALSE
  /\ Proceed(t, IF stop THEN <<>> ELSE <<Op("lock", a), Op("store", a)>>)
  /\ UNCHANGED <<buildVars, stopFlag, stop, lock, stored, ioVars>>

\* Mutant: the mutex is taken whoever holds it.
LockStorage_shared(t, a) ==
  /\ At(t, "lock", a)
  /\ lock' = [lock EXCEPT ![a] = t]
  /\ Proceed(t, <<>>)
  /\ UNCHANGED <<buildVars, flagVars, timeFrom, stored, ioVars>>

\* Main and timeout thread take the storage_mutex of a.
LockStorage(t, a) ==
  /\ At(t, "lock", a) /\ lock[a] = "free"
  /\ lock' = [lock EXCEPT ![a] = t]
  /\ Proceed(t, <<>>)
  /\ UNCHANGED <<buildVars, flagVars, timeFrom, stored, ioVars>>

StoreNew(a) ==
  /\ At("main", "store", a) /\ stored[a] < MaxStored
  /\ stored' = [stored EXCEPT ![a] = @ + 1]
  /\ Proceed("main", <<Op("unlock", a)>>)
  /\ UNCHANGED <<buildVars, flagVars, timeFrom, lock, ioVars>>

\* Mutant: the mutex is released before the closed window is sent.
StoreExisting_unlock_first(a) ==
  /\ At("main", "store", a) /\ stored[a] > 0
  /\ \E closes \in BOOLEAN :
       Proceed("main", <<Op("unlock", a)>> \o (IF closes THEN send(a) ELSE <<>>))
  /\ UNCHANGED <<buildVars, flagVars, aggVars, ioVars>>

\* The record joins a stored aggregate, or closes its window first.
StoreExisting(a) ==
  /\ At("main", "store", a) /\ stored[a] > 0
  /\ \E closes \in BOOLEAN :
       Proceed("main", (IF closes THEN send(a) ELSE <<>>) \o <<Op("unlock", a)>>)
  /\ UNCHANGED <<buildVars, flagVars, aggVars, ioVars>>

UnlockStorage(t, a) ==
  /\ At(t, "unlock", a)
  /\ lock' = [lock EXCEPT ![a] = "free"]
  /\ Proceed(t, <<>>)
  /\ UNCHANGED <<buildVars, flagVars, timeFrom, stored, ioVars>>

-----------------------------------------------------------------------------
(* Timeout thread of aggregator a: Agg::check_timeouts.                    *)

TimerLoop(a) ==
  /\ At(a, "loop", a)
  /\ Proceed(a, IF stop THEN <<>>
                ELSE <<Op("lock", a), Op("sweep", a), Op("unlock", a), Op("sleep", a)>>)
  /\ UNCHANGED <<buildVars, flagVars, aggVars, ioVars>>

\* Mutant: an aggregate is erased twice.
SendOne_twice(t, a, name) ==
  /\ At(t, name, a) /\ stored[a] > 0
  /\ stored' = [stored EXCEPT ![a] = @ - 2]
  /\ Proceed(t, send(a) \o <<Op(name, a)>>)
  /\ UNCHANGED <<buildVars, flagVars, timeFrom, lock, ioVars>>

SendOne(t, a, name) ==
  /\ At(t, name, a) /\ stored[a] > 0
  /\ stored' = [stored EXCEPT ![a] = @ - 1]
  /\ Proceed(t, send(a) \o <<Op(name, a)>>)
  /\ UNCHANGED <<buildVars, flagVars, timeFrom, lock, ioVars>>

\* Nothing else has expired.
SweepEnds(a) ==
  /\ At(a, "sweep", a)
  /\ Proceed(a, <<>>)
  /\ UNCHANGED <<buildVars, flagVars, aggVars, ioVars>>

WakeUp(a) ==
  /\ At(a, "sleep", a)
  /\ Proceed(a, <<Op("loop", a)>>)
  /\ UNCHANGED <<buildVars, flagVars, aggVars, ioVars>>

-----------------------------------------------------------------------------
(* Destruction: a stage is deleted before the builders of its successors.  *)

\* Mutant: the builders of the successors are deleted before the stage.
DestroyStage_last(s) ==
  /\ At("main", "destroy", s)
  /\ Proceed("main",
       OpAll("destroy", Succ[s])
       \o (IF Kind[s] = "agg"
           THEN <<Op("setStop", s), Op("join", s), Op("flush", s), Op("delete", s)>>
           ELSE <<Op("delete", s)>>))
  /\ UNCHANGED <<buildVars, flagVars, aggVars, ioVars>>

\* ~Builder_stage_base, and ~Agg, ~Selector or ~Filter inside it.
DestroyStage(s) ==
  /\ At("main", "destroy", s)
  /\ Proceed("main",
       (IF Kind[s] = "agg"
        THEN <<Op("setStop", s), Op("join", s), Op("flush", s), Op("delete", s)>>
        ELSE <<Op("delete", s)>>)
       \o OpAll("destroy", Succ[s]))
  /\ UNCHANGED <<buildVars, flagVars, aggVars, ioVars>>

\* Mutant: stop is not set.
SetStop_never(a) ==
  /\ At("main", "setStop", a)
  /\ Proceed("main", <<>>)
  /\ UNCHANGED <<buildVars, flagVars, aggVars, ioVars>>

SetStop(a) ==
  /\ At("main", "setStop", a)
  /\ stop' = TRUE
  /\ Proceed("main", <<>>)
  /\ UNCHANGED <<buildVars, stopFlag, once, aggVars, ioVars>>

\* Mutant: the thread is detached instead of joined.
JoinTimeoutThread_detach(a) ==
  /\ At("main", "join", a)
  /\ Proceed("main", <<>>)
  /\ UNCHANGED <<buildVars, flagVars, aggVars, ioVars>>

JoinTimeoutThread(a) ==
  /\ At("main", "join", a) /\ work[a] = <<>>
  /\ Proceed("main", <<>>)
  /\ UNCHANGED <<buildVars, flagVars, aggVars, ioVars>>

\* Mutant: the flush stops halfway.
FlushEnds_early(a) ==
  /\ At("main", "flush", a)
  /\ Proceed("main", <<>>)
  /\ UNCHANGED <<buildVars, flagVars, aggVars, ioVars>>

FlushEnds(a) ==
  /\ At("main", "flush", a) /\ stored[a] = 0
  /\ Proceed("main", <<>>)
  /\ UNCHANGED <<buildVars, flagVars, aggVars, ioVars>>

\* The memory of the stage is gone; a selector has sent the end of its stream.
DeleteStage(s) ==
  /\ At("main", "delete", s)
  /\ status' = [status EXCEPT ![s] = "destroyed"]
  /\ eofs' = IF Kind[s] = "selector" THEN [eofs EXCEPT ![s] = @ + 1] ELSE eofs
  /\ Proceed("main", <<>>)
  /\ UNCHANGED <<retVal, flagVars, aggVars, received>>

-----------------------------------------------------------------------------
Evaluate(t) ==
  \E s \in Stages :
    \/ EvalFilter(t, s) \/ EvalAgg(t, s)
    \/ EvalSelector(t, s) \/ SendOutput(t, s)
    \/ LockStorage(t, s) \/ UnlockStorage(t, s)

Build   == \E s \in Stages : InitSuccessors(s) \/ InitStage(s) \/ InitFails(s)
Store   == \E a \in Aggs : StoreNew(a) \/ StoreExisting(a)
Destroy ==
  \/ \E s \in Stages : DestroyStage(s) \/ DeleteStage(s)
  \/ \E a \in Aggs : SetStop(a) \/ JoinTimeoutThread(a)
                     \/ SendOne("main", a, "flush") \/ FlushEnds(a)

check_timeouts(a) ==
  \/ TimerLoop(a) \/ SendOne(a, a, "sweep") \/ SweepEnds(a) \/ WakeUp(a)
  \/ Evaluate(a)

Finished == work["main"] = <<>>

Next ==
  \/ Build \/ BuildFailed
  \/ ReceiveRecord \/ LeaveLoop \/ my_signal_handler
  \/ Evaluate("main") \/ Store
  \/ Destroy
  \/ \E a \in Aggs : check_timeouts(a)
  \/ Finished /\ UNCHANGED vars

Spec == Init /\ [][Next]_vars

(***************************************************************************)
(* Every thread is scheduled, and a mutex that is free again and again is  *)
(* obtained.  Receiving and the signal are not assumed to happen.          *)
(***************************************************************************)
Fairness ==
  /\ WF_vars(Build) /\ WF_vars(BuildFailed)
  /\ WF_vars(Evaluate("main")) /\ WF_vars(Store) /\ WF_vars(Destroy)
  /\ \A a \in Aggs : /\ WF_vars(check_timeouts(a))
                     /\ SF_vars(LockStorage("main", a))
                     /\ SF_vars(LockStorage(a, a))

FairSpec == Spec /\ Fairness

-----------------------------------------------------------------------------
TypeOK ==
  /\ \A t \in Threads : \A i \in DOMAIN work[t] :
       work[t][i].stage \in Stages \cup {NoStage}
  /\ status \in [Stages -> {"constructed", "ready", "failed", "destroyed"}]
  /\ retVal \in BOOLEAN /\ stopFlag \in BOOLEAN /\ stop \in BOOLEAN /\ once \in BOOLEAN
  /\ timeFrom \in [Aggs -> {"clock", "records"}]
  /\ lock \in [Aggs -> Threads \cup {"free"}]
  /\ stored \in [Aggs -> 0 .. MaxStored]
  /\ received \in 0 .. MaxRecords
  /\ eofs \in [Selectors -> Nat]

Evaluating(t, s) == At(t, "eval", s) \/ At(t, "send", s)

\* No thread pushes a record into a stage that is not initialised yet or is
\* already deleted: successors are initialised first and deleted last, and the
\* flush of an aggregator still finds them.
OnlyLiveStagesEvaluate ==
  \A t \in Threads, s \in Stages : Evaluating(t, s) => status[s] = "ready"

\* A stage is never evaluated by two threads at once (a selector has one output
\* record, a filter one buffer): what the threads share lies below an
\* aggregator, whose storage_mutex both hold while they send.
OneThreadPerStage ==
  \A t, u \in Threads : \A s \in Stages :
    t # u => ~ (Evaluating(t, s) /\ Evaluating(u, s))

\* The destructor of an aggregator takes no mutex: nobody holds it and the
\* thread that could take it has ended (aggregator.cpp:584-586).
FlushNeedsNoMutex ==
  \A a \in Aggs : At("main", "flush", a) => lock[a] = "free" /\ work[a] = <<>>

\* When the program ends every output interface has got exactly one end of
\* stream, whether the build failed or not, and no aggregate is left behind.
OutputsComplete ==
  Finished => /\ \A s \in Selectors : eofs[s] = 1
              /\ \A a \in Aggs : stored[a] = 0

\* What the output interfaces see of the threads.
Streams == INSTANCE OutputStreams WITH
  Outputs <- Selectors, Writers <- Threads, Nobody <- NoStage,
  stream  <- [s \in Selectors |-> CASE status[s] = "ready"     -> "open"
                                    [] status[s] = "destroyed" -> "closed"
                                    [] OTHER                   -> "new"],
  writer  <- [s \in Selectors |->
                IF \E t \in Threads : At(t, "send", s)
                THEN CHOOSE t \in Threads : At(t, "send", s)
                ELSE NoStage]

\* Build, main loop, timeout threads and destructors together implement
\* OutputStreams: no message is written by two threads at once, before its
\* selector is ready or after the end of the stream, and ~Selector never ends a
\* stream while a timeout thread is in the middle of a message.
ImplementsOutputStreams == Streams!Spec

\* Once the main loop is left the program ends.
ShutdownCompletes ==
  (\E s \in Stages : At("main", "destroy", s)) ~> Finished

-----------------------------------------------------------------------------
(* Statements of the sources that hold for one aggregator only.            *)

\* "Passive timeout time info set due to records time" (aggregator.hpp:43):
\* an aggregator that stores records has its time from the records.
TimeFromRecords ==
  \A a \in Aggs : stored[a] > 0 => timeFrom[a] = "records"

\* "All other threads not running now, no need to use mutexes there"
\* (aggregator.cpp:584): while a destructor flushes and cleans up (clean_memory
\* calls ur_finalize, which is global), no timeout thread runs.
NoThreadRunsDuringCleanup ==
  (\E a \in Aggs : At("main", "flush", a) \/ At("main", "delete", a))
    => \A b \in Aggs : work[b] = <<>>
=============================================================================
