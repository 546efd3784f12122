------------------------- MODULE PipelinesLifeProofs -------------------------
(***************************************************************************)
(* The life of a stage, for every tree of stages: it is initialised before *)
(* it is used, it is used while it lives, every output gets one end of its *)
(* stream, and what the receivers see is what OutputStreams promises.      *)
(***************************************************************************)
EXTENDS PipelinesProofs

-----------------------------------------------------------------------------
(* What is left to be initialised and to be deleted.                       *)

LEMMA BelowSplit ==
  ASSUME NEW s \in Stages, NEW r \in Below(s), r # s
  PROVE  \E i \in DOMAIN Succ[s] : r \in Below(Succ[s][i])
<1> DEFINE C == {s} \cup {q \in Below(s) : \E i \in DOMAIN Succ[s] : q \in Below(Succ[s][i])}
<1>1. C \in SUBSET Stages /\ s \in C
  BY BelowBasics
<1>2. Closed(C)
  <2> SUFFICES ASSUME NEW q \in C, NEW j \in DOMAIN Succ[q]
               PROVE  Succ[q][j] \in C
    BY DEF Closed
  <2>1. q \in Below(s) /\ Succ[q][j] \in Below(s)
    BY BelowBasics DEF Closed
  <2>2. CASE q = s
    <3>1. Succ[q][j] \in Below(Succ[s][j]) /\ j \in DOMAIN Succ[s]
      BY <2>2, SuccessorIsStage, BelowBasics
    <3> QED
      BY <2>1, <3>1
  <2>3. CASE q # s
    <3>1. PICK i \in DOMAIN Succ[s] : q \in Below(Succ[s][i])
      BY <2>3
    <3>2. Succ[q][j] \in Below(Succ[s][i])
      BY <3>1, SuccessorIsStage, BelowBasics DEF Closed
    <3> QED
      BY <2>1, <3>2
  <2> QED
    BY <2>2, <2>3
<1>3. Below(s) \subseteq C
  BY <1>1, <1>2, BelowLeast
<1> QED
  BY <1>3

\* The stages an operation will delete.
Doomed(o) == IF o.op = "destroy" THEN Below(o.stage)
             ELSE IF o.op = "delete" THEN {o.stage} ELSE {}

Claims(what, o) == IF what = "init" THEN Footprint(o) ELSE Doomed(o)

\* A stack has something left to do for s, it has so after its first operation.
Left(what, w, s) == \E i \in 1 .. Len(w) : s \in Claims(what, w[i])
Rest(what, w, s) == \E i \in 2 .. Len(w) : s \in Claims(what, w[i])
Apart(what, w)   == \A i, j \in 1 .. Len(w) : i # j => Claims(what, w[i]) \cap Claims(what, w[j]) = {}

LEMMA LeftHead ==
  ASSUME NEW what, NEW w, Len(w) \in Nat, Len(w) >= 1, NEW s
  PROVE  Left(what, w, s) <=> (s \in Claims(what, w[1]) \/ Rest(what, w, s))
<1>1. ASSUME Left(what, w, s) PROVE s \in Claims(what, w[1]) \/ Rest(what, w, s)
  <2>1. PICK i \in 1 .. Len(w) : s \in Claims(what, w[i])
    BY <1>1 DEF Left
  <2>2. i = 1 \/ i \in 2 .. Len(w)
    OBVIOUS
  <2> QED
    BY <2>1, <2>2 DEF Rest
<1>2. ASSUME s \in Claims(what, w[1]) PROVE Left(what, w, s)
  <2>1. 1 \in 1 .. Len(w)
    OBVIOUS
  <2> QED
    BY <1>2, <2>1 DEF Left
<1>3. ASSUME Rest(what, w, s) PROVE Left(what, w, s)
  <2>1. \A i \in 2 .. Len(w) : i \in 1 .. Len(w)
    OBVIOUS
  <2> QED
    BY <1>3, <2>1 DEF Left, Rest
<1> QED
  BY <1>1, <1>2, <1>3

LEMMA LeftPush ==
  ASSUME NEW what, NEW v, NEW ops, NEW w, Pushed(v, ops, w), NEW s
  PROVE  Left(what, v, s) <=> (Left(what, ops, s) \/ Rest(what, w, s))
<1>1. ASSUME Left(what, v, s) PROVE Left(what, ops, s) \/ Rest(what, w, s)
  <2>1. PICK i \in 1 .. Len(v) : s \in Claims(what, v[i])
    BY <1>1 DEF Left
  <2>2. CASE i \in 1 .. Len(ops) /\ v[i] = ops[i]
    BY <2>1, <2>2 DEF Left
  <2>3. CASE i - Len(ops) + 1 \in 2 .. Len(w) /\ v[i] = w[i - Len(ops) + 1]
    BY <2>1, <2>3 DEF Rest
  <2> QED
    BY <2>2, <2>3, PushedFrom
<1>2. ASSUME Left(what, ops, s) PROVE Left(what, v, s)
  <2>1. PICK i \in 1 .. Len(ops) : s \in Claims(what, ops[i])
    BY <1>2 DEF Left
  <2>2. i \in 1 .. Len(v) /\ v[i] = ops[i]
    BY DEF Pushed
  <2> QED
    BY <2>1, <2>2 DEF Left
<1>3. ASSUME Rest(what, w, s) PROVE Left(what, v, s)
  <2>1. PICK i \in 2 .. Len(w) : s \in Claims(what, w[i])
    BY <1>3 DEF Rest
  <2>2. i + Len(ops) - 1 \in 1 .. Len(v) /\ v[i + Len(ops) - 1] = w[i]
    BY PushedTo
  <2> QED
    BY <2>1, <2>2 DEF Left
<1> QED
  BY <1>1, <1>2, <1>3

LEMMA ApartHead ==
  ASSUME NEW what, NEW w, Len(w) \in Nat, Len(w) >= 1, Apart(what, w), NEW s \in Claims(what, w[1])
  PROVE  ~ Rest(what, w, s)
<1> SUFFICES ASSUME NEW i \in 2 .. Len(w), s \in Claims(what, w[i])
             PROVE  FALSE
  BY DEF Rest
<1>1. 1 \in 1 .. Len(w) /\ i \in 1 .. Len(w) /\ i # 1
  OBVIOUS
<1> QED
  BY <1>1 DEF Apart

\* What is pushed may only claim what the first operation claimed.
LEMMA ApartPush ==
  ASSUME NEW what, NEW v, NEW ops, NEW w, Pushed(v, ops, w), Apart(what, w), Apart(what, ops),
         \A s : Left(what, ops, s) => s \in Claims(what, w[1])
  PROVE  Apart(what, v)
<1>1. Len(w) \in Nat /\ Len(w) >= 1 /\ Len(ops) \in Nat /\ Len(v) = Len(ops) + Len(w) - 1
  BY DEF Pushed
<1>2. ASSUME NEW i \in 1 .. Len(v), NEW j \in 1 .. Len(v), i # j,
             NEW s \in Claims(what, v[i]) \cap Claims(what, v[j]),
             i \in 1 .. Len(ops)
      PROVE  FALSE
  <2>1. v[i] = ops[i]
    BY <1>2 DEF Pushed
  <2>2. CASE j \in 1 .. Len(ops) /\ v[j] = ops[j]
    BY <1>2, <2>1, <2>2 DEF Apart
  <2>3. CASE j - Len(ops) + 1 \in 2 .. Len(w) /\ v[j] = w[j - Len(ops) + 1]
    <3>1. Rest(what, w, s)
      BY <2>3 DEF Rest
    <3>2. s \in Claims(what, w[1])
      BY <1>2, <2>1 DEF Left
    <3> QED
      BY <1>1, <3>1, <3>2, ApartHead
  <2>4. \/ j \in 1 .. Len(ops) /\ v[j] = ops[j]
        \/ j - Len(ops) + 1 \in 2 .. Len(w) /\ v[j] = w[j - Len(ops) + 1]
    BY PushedFrom
  <2> QED
    BY <2>2, <2>3, <2>4
<1>3. ASSUME NEW i \in 1 .. Len(v), NEW j \in 1 .. Len(v), i # j,
             i \notin 1 .. Len(ops), j \notin 1 .. Len(ops)
      PROVE  Claims(what, v[i]) \cap Claims(what, v[j]) = {}
  <2>0. \A k : k \in 2 .. Len(w) => k \in 1 .. Len(w)
    BY <1>1
  <2>1. i - Len(ops) + 1 \in 1 .. Len(w) /\ v[i] = w[i - Len(ops) + 1]
    <3>1. i - Len(ops) + 1 \in 2 .. Len(w) /\ v[i] = w[i - Len(ops) + 1]
      BY <1>3, PushedFrom
    <3> QED
      BY <2>0, <3>1
  <2>2. j - Len(ops) + 1 \in 1 .. Len(w) /\ v[j] = w[j - Len(ops) + 1]
    <3>1. j - Len(ops) + 1 \in 2 .. Len(w) /\ v[j] = w[j - Len(ops) + 1]
      BY <1>3, PushedFrom
    <3> QED
      BY <2>0, <3>1
  <2>3. i - Len(ops) + 1 # j - Len(ops) + 1
    BY <1>1, <1>3
  <2> QED
    BY <2>1, <2>2, <2>3 DEF Apart
<1> SUFFICES ASSUME NEW i \in 1 .. Len(v), NEW j \in 1 .. Len(v), i # j
             PROVE  Claims(what, v[i]) \cap Claims(what, v[j]) = {}
  BY DEF Apart
<1> QED
  BY <1>2, <1>3

-----------------------------------------------------------------------------
(* The invariant: the main thread builds and processes, or it destroys.    *)

Runs(w) == Len(w) >= 1 /\ w[Len(w)].op = "processing"
Ends(w) == \A i \in 1 .. Len(w) : Ending(w[i]) \/ Owned(w[i])

\* The operations of a record or of an aggregate on its way.
Busy(o) == o.op \in {"eval", "send", "store"}

Idle ==
  /\ \A a \in Aggs : stored[a] = 0
  /\ \A t \in Threads : \A i \in 1 .. Len(work[t]) : ~ Busy(work[t][i])

\* No record is received before every stage is initialised, nor after an error.
Building ==
  /\ \A s \in Stages : Left("init", work["main"], s) <=> status[s] = "constructed"
  /\ ~ retVal => \A s \in Stages : status[s] # "failed"
  /\ retVal \/ (\E s \in Stages : status[s] = "constructed") => Idle

\* After the join and the flush of a stage come its successors.
SuccLater(w) ==
  \A j \in 1 .. Len(w) : w[j].op \in {"join", "flush"} =>
    \A k \in DOMAIN Succ[w[j].stage] :
      \E l \in j + 1 .. Len(w) : w[l] = Op("destroy", Succ[w[j].stage][k])

\* The operation of a destructor is still to come.
Coming(w, name, a) ==
  \E i \in 1 .. Len(w) : \/ w[i] = Op(name, a)
                         \/ w[i].op = "destroy" /\ a \in Below(w[i].stage)

Closing(w) ==
  /\ Ends(w) /\ Apart("delete", w) /\ SuccLater(w)
  /\ \A s \in Stages : status[s] = "destroyed" <=> ~ Left("delete", w, s)
  /\ \A a \in Aggs : /\ work[a] # <<>> => Coming(w, "join", a)
                     /\ stored[a] # 0 => Coming(w, "flush", a)

Phase ==
  \/ Runs(work["main"]) /\ \A s \in Stages : status[s] # "destroyed"
  \/ Closing(work["main"])

\* A selector sends what it has just copied.
Sends ==
  \A t \in Threads : \A i \in 1 .. Len(work[t]) :
    work[t][i].op = "send" => i = 1 /\ work[t][i].stage \in Selectors

Eofs == \A s \in Selectors : eofs[s] = IF status[s] = "destroyed" THEN 1 ELSE 0

Life == Building /\ Phase /\ Sends /\ Eofs

-----------------------------------------------------------------------------
(* The stack of one thread changes.                                        *)

\* Thread t replaces its first operation by ops.
Does(t, ops) ==
  /\ Pushed(work'[t], ops, work[t])
  /\ \A u \in Threads : u # t => work'[u] = work[u]

LEMMA ProceedIs ==
  ASSUME Stacks, NEW t \in Threads, NEW name, NEW s, At(t, name, s),
         NEW ops \in Seq(Operation), Proceed(t, ops)
  PROVE  /\ Does(t, ops)
         /\ work[t][1] = Op(name, s) /\ work[t][1].op = name /\ work[t][1].stage = s
         /\ Shape(t, work[t]) /\ MayDo(t, work[t][1])
<1> DEFINE v == ops \o Tail(work[t])
<1>1. Pushed(v, ops, work[t])
  BY AtIs, PushIs
<1>2. work' = [work EXCEPT ![t] = v]
  BY DEF Proceed
<1> HIDE DEF v
<1>3. work'[t] = v /\ \A u \in Threads : u # t => work'[u] = work[u]
  BY <1>2 DEF Stacks
<1> QED
  BY <1>1, <1>3, AtIs DEF Does

LEMMA PopIs ==
  ASSUME Stacks, NEW t \in Threads, NEW name, NEW s, At(t, name, s), Proceed(t, <<>>)
  PROVE  \E ops : /\ Does(t, ops) /\ Len(ops) = 0
                  /\ work[t][1] = Op(name, s) /\ work[t][1].op = name /\ work[t][1].stage = s
<1> DEFINE ops == <<>>
<1>1. ops \in Seq(Operation) /\ Len(ops) = 0 /\ Proceed(t, ops)
  OBVIOUS
<1> HIDE DEF ops
<1>2. /\ Does(t, ops) /\ work[t][1] = Op(name, s) /\ work[t][1].op = name /\ work[t][1].stage = s
  BY <1>1, ProceedIs
<1> QED
  BY <1>1, <1>2

\* What is left after a step is what was left before, without what the first
\* operation alone claimed.
LEMMA LeftStep ==
  ASSUME NEW what, NEW v, NEW ops, NEW w, Pushed(v, ops, w), Apart(what, w),
         \A r : Left(what, ops, r) => r \in Claims(what, w[1]), NEW s
  PROVE  Left(what, v, s)
           <=> Left(what, w, s) /\ (s \in Claims(what, w[1]) => Left(what, ops, s))
<1>1. Len(w) \in Nat /\ Len(w) >= 1
  BY DEF Pushed
<1>2. Left(what, w, s) <=> (s \in Claims(what, w[1]) \/ Rest(what, w, s))
  BY <1>1, LeftHead
<1>3. Left(what, v, s) <=> (Left(what, ops, s) \/ Rest(what, w, s))
  BY LeftPush
<1>4. s \in Claims(what, w[1]) => ~ Rest(what, w, s)
  BY <1>1, ApartHead
<1> QED
  BY <1>2, <1>3, <1>4

\* Operations that claim nothing.
LEMMA NothingLeft ==
  ASSUME NEW what, NEW ops, \A i \in 1 .. Len(ops) : Claims(what, ops[i]) = {}
  PROVE  Apart(what, ops) /\ \A s : ~ Left(what, ops, s)
BY DEF Apart, Left

LEMMA EndsKept ==
  ASSUME NEW v, NEW ops, NEW w, Pushed(v, ops, w), Shape("main", w), Shape("main", v), Ends(w),
         Ending(w[1]) => Len(ops) = 0 \/ \E i \in 1 .. Len(ops) : Ending(ops[i])
  PROVE  Ends(v)
<1>1. Len(w) \in Nat /\ Len(w) >= 1 /\ 1 \in 1 .. Len(w)
  BY DEF Pushed
<1>2. CASE Len(ops) = 0
  <2> SUFFICES ASSUME NEW i \in 1 .. Len(v)
               PROVE  Ending(v[i]) \/ Owned(v[i])
    BY DEF Ends
  <2>1. i - Len(ops) + 1 \in 1 .. Len(w) /\ v[i] = w[i - Len(ops) + 1]
    BY <1>2, PushedFrom
  <2> QED
    BY <2>1 DEF Ends
<1>3. CASE \E i \in 1 .. Len(ops) : Ending(ops[i])
  <2>1. PICK i \in 1 .. Len(ops) : Ending(ops[i])
    BY <1>3
  <2>2. i \in 1 .. Len(v) /\ v[i] = ops[i]
    BY DEF Pushed
  <2> QED
    BY <2>1, <2>2 DEF Shape, EndPhase, Ends
<1>4. CASE ~ Ending(w[1])
  <2>1. PICK a \in Aggs : OwnedBy(w[1], a)
    BY <1>1, <1>4 DEF Ends, Owned
  <2>2. PICK j \in 2 .. Len(w) : w[j].op \in {"unlock", "sweep", "flush"}
    BY <1>1, <2>1 DEF Shape, OwnedPrefix
  <2>3. j \in 1 .. Len(w)
    BY <1>1
  <2>4. Ending(w[j])
    BY <2>2, <2>3 DEF Ends, Owned, OwnedBy
  <2>5. j + Len(ops) - 1 \in 1 .. Len(v) /\ v[j + Len(ops) - 1] = w[j]
    BY PushedTo
  <2> QED
    BY <2>4, <2>5 DEF Shape, EndPhase, Ends
<1> QED
  BY <1>2, <1>3, <1>4

LEMMA RunsKept ==
  ASSUME NEW v, NEW ops, NEW w, Pushed(v, ops, w), Runs(w),
         w[1].op = "processing" => Len(ops) >= 1 /\ ops[Len(ops)].op = "processing"
  PROVE  Runs(v)
<1>1. Len(w) \in Nat /\ Len(w) >= 1 /\ Len(ops) \in Nat /\ Len(v) = Len(ops) + Len(w) - 1
  BY DEF Pushed
<1>2. CASE Len(w) = 1
  <2>1. Len(v) = Len(ops) /\ Len(ops) \in 1 .. Len(ops) /\ ops[Len(ops)].op = "processing"
    BY <1>1, <1>2 DEF Runs
  <2>2. v[Len(ops)] = ops[Len(ops)]
    BY <2>1 DEF Pushed
  <2> QED
    BY <2>1, <2>2 DEF Runs
<1>3. CASE Len(w) \in 2 .. Len(w)
  <2>2. v[Len(w) + Len(ops) - 1] = w[Len(w)]
    BY <1>3, PushedTo
  <2>3. Len(w) + Len(ops) - 1 = Len(v)
    BY <1>1
  <2>4. Len(v) >= 1
    BY <1>1, <1>3
  <2>5. v[Len(v)] = w[Len(w)]
    BY <2>2, <2>3
  <2> QED
    BY <2>4, <2>5 DEF Runs
<1>4. Len(w) = 1 \/ Len(w) \in 2 .. Len(w)
  <2> DEFINE n == Len(w)
  <2>1. n \in Nat /\ n >= 1
    BY <1>1
  <2> HIDE DEF n
  <2>2. n = 1 \/ n \in 2 .. n
    BY <2>1
  <2> QED
    BY <2>2 DEF n
<1> QED
  BY <1>2, <1>3, <1>4

LEMMA SendsKept ==
  ASSUME NEW v, NEW ops, NEW w, Pushed(v, ops, w),
         \A i \in 1 .. Len(w) : w[i].op = "send" => i = 1,
         \A i \in 1 .. Len(ops) : ops[i].op # "send"
  PROVE  \A i \in 1 .. Len(v) : v[i].op # "send"
<1> SUFFICES ASSUME NEW i \in 1 .. Len(v)
             PROVE  v[i].op # "send"
  OBVIOUS
<1>1. CASE i \in 1 .. Len(ops) /\ v[i] = ops[i]
  BY <1>1
<1>2. CASE i - Len(ops) + 1 \in 2 .. Len(w) /\ v[i] = w[i - Len(ops) + 1]
  <2>1. i - Len(ops) + 1 \in 1 .. Len(w) /\ i - Len(ops) + 1 # 1
    BY <1>2 DEF Pushed
  <2> QED
    BY <1>2, <2>1
<1> QED
  BY <1>1, <1>2, PushedFrom

LEMMA IdleKept ==
  ASSUME NEW v, NEW ops, NEW w, Pushed(v, ops, w),
         \A i \in 1 .. Len(w) : ~ Busy(w[i]), \A i \in 1 .. Len(ops) : ~ Busy(ops[i])
  PROVE  \A i \in 1 .. Len(v) : ~ Busy(v[i])
<1> SUFFICES ASSUME NEW i \in 1 .. Len(v)
             PROVE  ~ Busy(v[i])
  OBVIOUS
<1>1. CASE i \in 1 .. Len(ops) /\ v[i] = ops[i]
  BY <1>1
<1>2. CASE i - Len(ops) + 1 \in 2 .. Len(w) /\ v[i] = w[i - Len(ops) + 1]
  <2>1. i - Len(ops) + 1 \in 1 .. Len(w)
    BY <1>2 DEF Pushed
  <2> QED
    BY <1>2, <2>1
<1> QED
  BY <1>1, <1>2, PushedFrom

\* What is being sent does not change.
Silent == \A u \in Threads : \A o : At(u, "send", o)' <=> At(u, "send", o)

LEMMA SilentStep ==
  ASSUME Stacks, Stacks', Sends, NEW t \in Threads, NEW ops, Does(t, ops),
         work[t][1].op # "send", \A i \in 1 .. Len(ops) : ops[i].op # "send"
  PROVE  Silent
<1> DEFINE w == work[t]
           v == work'[t]
<1>1. /\ Pushed(v, ops, w) /\ \A u \in Threads : u # t => work'[u] = work[u]
      /\ w \in Seq(Operation) /\ v \in Seq(Operation)
  BY DEF Does, Stacks
<1>2. \A i \in 1 .. Len(w) : w[i].op = "send" => i = 1
  BY DEF Sends
<1> HIDE DEF v, w
<1>3. \A i \in 1 .. Len(v) : v[i].op # "send"
  BY <1>1, <1>2, SendsKept
<1>4. ASSUME NEW o PROVE ~ At(t, "send", o) /\ ~ At(t, "send", o)'
  <2>1. CASE At(t, "send", o)
    <3>1. w # <<>> /\ Head(w) = Op("send", o)
      BY <2>1 DEF At, w
    <3>2. w[1].op = "send"
      BY <1>1, <3>1 DEF Op
    <3> QED
      BY <3>2 DEF w
  <2>2. CASE At(t, "send", o)'
    <3>1. v # <<>> /\ Head(v) = Op("send", o)
      BY <2>2 DEF At, v
    <3>2. 1 \in 1 .. Len(v) /\ v[1].op = "send"
      BY <1>1, <3>1 DEF Op
    <3> QED
      BY <1>3, <3>2
  <2> QED
    BY <2>1, <2>2
<1>5. ASSUME NEW u \in Threads, NEW o, u # t PROVE At(u, "send", o)' <=> At(u, "send", o)
  BY <1>1, <1>5 DEF At
<1> QED
  BY <1>4, <1>5 DEF Silent

\* The main thread takes one step of destruction: what is deleted is no longer left,
\* a join and a flush stay before the successors, and none of the two is skipped.
LEMMA ClosingMain ==
  ASSUME Closing(work["main"]), NEW ops, Does("main", ops), "main" \in Threads,
         Ends(work'["main"]), Apart("delete", ops),
         \A r : Left("delete", ops, r) => r \in Doomed(work["main"][1]),
         \A r \in Stages : status'[r] = "destroyed" <=>
           \/ status[r] = "destroyed"
           \/ r \in Doomed(work["main"][1]) /\ ~ Left("delete", ops, r),
         \A j \in 1 .. Len(ops) : ops[j].op \in {"join", "flush"} =>
           \/ ops[j] = work["main"][1]
           \/ \A k \in DOMAIN Succ[ops[j].stage] : \E l \in j + 1 .. Len(ops) :
                ops[l] = Op("destroy", Succ[ops[j].stage][k]),
         \A a \in Aggs : work["main"][1] = Op("join", a) => work[a] = <<>>,
         \A a \in Aggs : work["main"][1] = Op("flush", a) =>
           stored[a] = 0 \/ \E i \in 1 .. Len(ops) : ops[i] = Op("flush", a),
         work["main"][1].op = "destroy" =>
           \A a \in Aggs \cap Below(work["main"][1].stage), name \in {"join", "flush"} :
             Coming(ops, name, a),
         \A a \in Aggs : stored'[a] # 0 => stored[a] # 0
  PROVE  Closing(work["main"])'
<1> DEFINE w == work["main"]
           v == work'["main"]
<1>1. /\ Pushed(v, ops, w) /\ Len(w) \in Nat /\ Len(w) >= 1 /\ Len(ops) \in Nat
      /\ Len(v) = Len(ops) + Len(w) - 1
  BY DEF Does, Pushed
<1>2. /\ Ends(w) /\ Apart("delete", w) /\ SuccLater(w)
      /\ \A s \in Stages : status[s] = "destroyed" <=> ~ Left("delete", w, s)
      /\ \A a \in Aggs : /\ work[a] # <<>> => Coming(w, "join", a)
                         /\ stored[a] # 0 => Coming(w, "flush", a)
  BY DEF Closing
<1>3. /\ \A r : Left("delete", ops, r) => r \in Claims("delete", w[1])
      /\ Claims("delete", w[1]) = Doomed(w[1])
  BY DEF Claims
<1>4. \A a \in Aggs : work'[a] = work[a]
  BY Names DEF Does
<1> HIDE DEF v, w
<1>5. Apart("delete", v)
  BY <1>1, <1>2, <1>3, ApartPush
<1>6. ASSUME NEW s \in Stages
      PROVE  status'[s] = "destroyed" <=> ~ Left("delete", v, s)
  <2>1. Left("delete", v, s)
          <=> Left("delete", w, s) /\ (s \in Claims("delete", w[1]) => Left("delete", ops, s))
    BY <1>1, <1>2, <1>3, LeftStep
  <2>2. status[s] = "destroyed" <=> ~ Left("delete", w, s)
    BY <1>2
  <2>3. status'[s] = "destroyed" <=>
           \/ status[s] = "destroyed"
           \/ s \in Doomed(w[1]) /\ ~ Left("delete", ops, s)
    BY DEF w
  <2> QED
    BY <1>3, <2>1, <2>2, <2>3
<1>7. ASSUME NEW j \in 1 .. Len(v), v[j].op \in {"join", "flush"},
             NEW k \in DOMAIN Succ[v[j].stage]
      PROVE  \E l \in j + 1 .. Len(v) : v[l] = Op("destroy", Succ[v[j].stage][k])
  <2>1. ASSUME NEW i \in 1 .. Len(w), v[j] = w[i], i + Len(ops) - 1 >= j
        PROVE  \E l \in j + 1 .. Len(v) : v[l] = Op("destroy", Succ[v[j].stage][k])
    <3>1. PICK l \in i + 1 .. Len(w) : w[l] = Op("destroy", Succ[v[j].stage][k])
      BY <1>2, <1>7, <2>1 DEF SuccLater
    <3>2. l \in 2 .. Len(w)
      BY <1>1
    <3>3. v[l + Len(ops) - 1] = w[l] /\ l + Len(ops) - 1 \in 1 .. Len(v)
      BY <1>1, <3>2, PushedTo
    <3>4. l + Len(ops) - 1 \in j + 1 .. Len(v)
      BY <1>1, <2>1, <3>3
    <3> QED
      BY <3>1, <3>3, <3>4
  <2>2. CASE j \in 1 .. Len(ops) /\ v[j] = ops[j]
    <3>1. CASE ops[j] = w[1]
      <4>1. 1 \in 1 .. Len(w) /\ 1 + Len(ops) - 1 >= j /\ v[j] = w[1]
        BY <1>1, <2>2, <3>1
      <4> QED
        BY <2>1, <4>1
    <3>2. CASE \A n \in DOMAIN Succ[ops[j].stage] : \E l \in j + 1 .. Len(ops) :
                 ops[l] = Op("destroy", Succ[ops[j].stage][n])
      <4>1. PICK l \in j + 1 .. Len(ops) : ops[l] = Op("destroy", Succ[v[j].stage][k])
        BY <1>7, <2>2, <3>2
      <4>2. l \in 1 .. Len(ops) /\ l \in j + 1 .. Len(v)
        BY <1>1
      <4>3. v[l] = ops[l]
        BY <1>1, <4>2 DEF Pushed
      <4> QED
        BY <4>1, <4>2, <4>3
    <3> QED
      BY <1>7, <2>2, <3>1, <3>2 DEF w
  <2>3. CASE /\ j - Len(ops) + 1 \in 2 .. Len(w) /\ j - Len(ops) >= 1
             /\ v[j] = w[j - Len(ops) + 1]
    <3>1. /\ j - Len(ops) + 1 \in 1 .. Len(w)
          /\ (j - Len(ops) + 1) + Len(ops) - 1 >= j
      BY <1>1, <2>3
    <3> QED
      BY <2>1, <2>3, <3>1
  <2>4. \/ j \in 1 .. Len(ops) /\ v[j] = ops[j]
        \/ /\ j - Len(ops) + 1 \in 2 .. Len(w)
           /\ j - Len(ops) >= 1
           /\ v[j] = w[j - Len(ops) + 1]
    BY <1>1, PushedFrom
  <2> QED
    BY <2>2, <2>3, <2>4
<1>8. SuccLater(v)
  BY <1>7 DEF SuccLater
<1>9. ASSUME NEW name \in {"join", "flush"}, NEW a \in Aggs, Coming(w, name, a),
             w[1] = Op(name, a) => \E i \in 1 .. Len(ops) : ops[i] = Op(name, a)
      PROVE  Coming(v, name, a)
  <2>1. PICK i \in 1 .. Len(w) : \/ w[i] = Op(name, a)
                                 \/ w[i].op = "destroy" /\ a \in Below(w[i].stage)
    BY <1>9 DEF Coming
  <2>2. CASE i # 1
    <3>1. i \in 2 .. Len(w)
      BY <1>1, <2>2
    <3>2. v[i + Len(ops) - 1] = w[i] /\ i + Len(ops) - 1 \in 1 .. Len(v)
      BY <1>1, <3>1, PushedTo
    <3> QED
      BY <2>1, <3>2 DEF Coming
  <2>3. CASE i = 1
    <3>1. Coming(ops, name, a)
      <4>1. CASE w[1] = Op(name, a)
        BY <1>9, <4>1 DEF Coming
      <4>2. CASE w[1].op = "destroy" /\ a \in Below(w[1].stage)
        BY <4>2 DEF w
      <4> QED
        BY <2>1, <2>3, <4>1, <4>2
    <3>2. PICK j \in 1 .. Len(ops) : \/ ops[j] = Op(name, a)
                                     \/ ops[j].op = "destroy" /\ a \in Below(ops[j].stage)
      BY <3>1 DEF Coming
    <3>3. v[j] = ops[j] /\ j \in 1 .. Len(v)
      BY <1>1 DEF Pushed
    <3> QED
      BY <3>2, <3>3 DEF Coming
  <2> QED
    BY <2>2, <2>3
<1>10. ASSUME NEW a \in Aggs, work'[a] # <<>> PROVE Coming(v, "join", a)
  <2>1. Coming(w, "join", a) /\ w[1] # Op("join", a)
    BY <1>2, <1>4, <1>10 DEF w
  <2> QED
    BY <1>9, <2>1
<1>11. ASSUME NEW a \in Aggs, stored'[a] # 0 PROVE Coming(v, "flush", a)
  <2>1. /\ Coming(w, "flush", a)
        /\ w[1] = Op("flush", a) => \E i \in 1 .. Len(ops) : ops[i] = Op("flush", a)
    BY <1>2, <1>11 DEF w
  <2> QED
    BY <1>9, <2>1
<1> QED
  BY <1>5, <1>6, <1>8, <1>10, <1>11 DEF Closing, v

\* A timeout thread takes a step, or none does: destruction is where it was.
LEMMA ClosingOther ==
  ASSUME Closing(work["main"]), work'["main"] = work["main"], status' = status,
         \A a \in Aggs : work'[a] # <<>> => work[a] # <<>>,
         \A a \in Aggs : stored'[a] # 0 => stored[a] # 0
  PROVE  Closing(work["main"])'
BY DEF Closing

\* An initialisation is not among the operations: nothing is left to initialise.
LEMMA EndsInits ==
  ASSUME NEW w, Ends(w)
  PROVE  \A s : ~ Left("init", w, s)
BY DEF Ends, Left, Claims, Footprint, Ending, Owned, OwnedBy

\* A thread evaluates, waits or destroys: stages keep their status, and the invariant
\* is kept if destruction is.
LEMMA OrdinaryStep ==
  ASSUME IInv, IInv', Life, NEW t \in Threads, NEW ops, Does(t, ops),
         status' = status, retVal' = retVal, eofs' = eofs,
         work[t][1].op \notin {"init", "initSelf", "processing"},
         \A i \in 1 .. Len(ops) : ops[i].op \notin {"init", "initSelf", "processing"},
         \A i \in 1 .. Len(ops) : ops[i].op = "send" => i = 1 /\ ops[i].stage \in Selectors,
         Idle => /\ \A a \in Aggs : stored'[a] = 0
                 /\ \A i \in 1 .. Len(ops) : ~ Busy(ops[i]),
         Closing(work["main"]) => Closing(work["main"])'
  PROVE  /\ Life'
         /\ (work[t][1].op # "send" /\ \A i \in 1 .. Len(ops) : ops[i].op # "send") => Silent
<1> DEFINE w == work[t]
           v == work'[t]
<1>1. /\ Pushed(v, ops, w) /\ Len(w) \in Nat /\ Len(w) >= 1 /\ Len(ops) \in Nat
      /\ Len(v) = Len(ops) + Len(w) - 1
  BY DEF Does, Pushed
<1>2. \A u \in Threads : u # t => work'[u] = work[u]
  BY DEF Does
<1> HIDE DEF v, w
<1>3. ASSUME NEW i \in 1 .. Len(v)
      PROVE  \/ i \in 1 .. Len(ops) /\ v[i] = ops[i]
             \/ \E j \in 2 .. Len(w) : j \in 1 .. Len(w) /\ j # 1 /\ v[i] = w[j]
  <2>1. \A j \in 2 .. Len(w) : j \in 1 .. Len(w) /\ j # 1
    BY <1>1
  <2> QED
    <3>1. CASE i \in 1 .. Len(ops) /\ v[i] = ops[i]
      BY <3>1
    <3>2. CASE i - Len(ops) + 1 \in 2 .. Len(w) /\ v[i] = w[i - Len(ops) + 1]
      BY <2>1, <3>2
    <3> QED
      BY <1>1, <1>3, <3>1, <3>2, PushedFrom
<1>4. Building /\ Phase /\ Sends /\ Eofs /\ Fresh
  BY DEF Life, IInv, Core
<1>5. ASSUME NEW s PROVE Left("init", work'["main"], s) <=> Left("init", work["main"], s)
  <2>1. CASE t = "main"
    <3>1. /\ Claims("init", w[1]) = {}
          /\ \A i \in 1 .. Len(ops) : Claims("init", ops[i]) = {}
      BY DEF Claims, Footprint, w
    <3>2. Left("init", w, s) <=> (s \in Claims("init", w[1]) \/ Rest("init", w, s))
      BY <1>1, LeftHead
    <3>3. Left("init", v, s) <=> (Left("init", ops, s) \/ Rest("init", w, s))
      BY <1>1, LeftPush
    <3>4. ~ Left("init", ops, s)
      BY <3>1, NothingLeft
    <3> QED
      BY <2>1, <3>1, <3>2, <3>3, <3>4 DEF v, w
  <2>2. CASE t # "main"
    BY <1>2, <2>2, Names
  <2> QED
    BY <2>1, <2>2
<1>6. Idle => Idle'
  <2> SUFFICES ASSUME Idle
               PROVE  /\ \A a \in Aggs : stored'[a] = 0
                      /\ \A u \in Threads : \A i \in 1 .. Len(work'[u]) : ~ Busy(work'[u][i])
    BY DEF Idle
  <2>1. \A i \in 1 .. Len(v) : ~ Busy(v[i])
    <3>1. \A j \in 1 .. Len(w) : ~ Busy(w[j])
      BY DEF Idle, w
    <3> QED
      BY <1>3, <3>1
  <2>2. ASSUME NEW u \in Threads PROVE \A i \in 1 .. Len(work'[u]) : ~ Busy(work'[u][i])
    <3>1. CASE u = t
      BY <2>1, <3>1 DEF v
    <3>2. CASE u # t
      BY <1>2, <3>2 DEF Idle
    <3> QED
      BY <3>1, <3>2
  <2> QED
    BY <2>2
<1>7. Building'
  BY <1>4, <1>5, <1>6 DEF Building
<1>8. Phase'
  <2>1. CASE Closing(work["main"])
    BY <2>1 DEF Phase
  <2>2. CASE Runs(work["main"]) /\ \A s \in Stages : status[s] # "destroyed"
    <3>1. CASE t = "main"
      <4>1. Len(w) >= 1 /\ w[Len(w)].op = "processing" /\ w[1].op # "processing"
        BY <2>2, <3>1 DEF Runs, w
      <4>2. Len(w) \in 2 .. Len(w)
        BY <1>1, <4>1
      <4>3. v[Len(w) + Len(ops) - 1] = w[Len(w)]
        BY <1>1, <4>2, PushedTo
      <4>4. Len(v) >= 1 /\ v[Len(v)] = w[Len(w)]
        <5>1. Len(w) + Len(ops) - 1 = Len(v) /\ Len(v) >= 1
          BY <1>1, <4>2
        <5> QED
          BY <4>3, <5>1
      <4>5. Runs(work'["main"])
        BY <3>1, <4>1, <4>4 DEF Runs, v
      <4> QED
        BY <2>2, <4>5 DEF Phase, Runs
    <3>2. CASE t # "main"
      <4>1. work'["main"] = work["main"]
        BY <1>2, <3>2, Names
      <4> QED
        BY <2>2, <4>1 DEF Phase, Runs
    <3> QED
      BY <3>1, <3>2
  <2> QED
    BY <1>4, <2>1, <2>2 DEF Phase
<1>9. Sends'
  <2> SUFFICES ASSUME NEW u \in Threads, NEW i \in 1 .. Len(work'[u]), work'[u][i].op = "send"
               PROVE  i = 1 /\ work'[u][i].stage \in Selectors
    BY DEF Sends
  <2>1. CASE u = t
    <3>1. i \in 1 .. Len(v) /\ v[i].op = "send"
      BY <2>1 DEF v
    <3>2. \A j \in 2 .. Len(w) : j \in 1 .. Len(w) /\ j # 1 => w[j].op # "send"
      BY <1>4 DEF Sends, w
    <3>3. i \in 1 .. Len(ops) /\ v[i] = ops[i]
      BY <1>3, <3>1, <3>2
    <3> QED
      BY <2>1, <3>1, <3>3 DEF v
  <2>2. CASE u # t
    BY <1>2, <1>4, <2>2 DEF Sends
  <2> QED
    BY <2>1, <2>2
<1>10. Eofs'
  BY <1>4 DEF Eofs
<1>11. ASSUME work[t][1].op # "send", \A i \in 1 .. Len(ops) : ops[i].op # "send"
       PROVE  Silent
  BY <1>4, <1>11, SilentStep DEF IInv, Core
<1> QED
  BY <1>7, <1>8, <1>9, <1>10, <1>11 DEF Life

-----------------------------------------------------------------------------
(* The steps that initialise and delete nothing.                           *)

LEMMA CalmStep ==
  ASSUME IInv, IInv', Life, NEW t \in Threads, NEW ops, Does(t, ops),
         status' = status, retVal' = retVal, eofs' = eofs,
         work[t][1].op \notin {"init", "initSelf", "processing", "destroy", "delete"},
         \A i \in 1 .. Len(ops) :
           ops[i].op \notin {"init", "initSelf", "processing", "destroy", "delete", "join"},
         \A i \in 1 .. Len(ops) : ops[i].op = "flush" => ops[i] = work[t][1],
         \A i \in 1 .. Len(ops) : ops[i].op = "send" => i = 1 /\ ops[i].stage \in Selectors,
         Idle => /\ \A a \in Aggs : stored'[a] = 0
                 /\ \A i \in 1 .. Len(ops) : ~ Busy(ops[i]),
         \A a \in Aggs : stored'[a] # 0 => stored[a] # 0 \/ work[t][1].op = "store",
         \A a \in Aggs : work[t][1] = Op("join", a) => work[a] = <<>>,
         \A a \in Aggs : work[t][1] = Op("flush", a) =>
           stored[a] = 0 \/ \E i \in 1 .. Len(ops) : ops[i] = Op("flush", a),
         Ending(work[t][1]) => Len(ops) = 0 \/ \E i \in 1 .. Len(ops) : Ending(ops[i])
  PROVE  /\ Life'
         /\ (work[t][1].op # "send" /\ \A i \in 1 .. Len(ops) : ops[i].op # "send") => Silent
<1> DEFINE w == work[t]
           v == work'[t]
<1>1. /\ Pushed(v, ops, w) /\ Len(w) \in Nat /\ 1 \in 1 .. Len(w) /\ Len(w) >= 1
      /\ \A u \in Threads : u # t => work'[u] = work[u]
  BY DEF Does, Pushed
<1>2. Shape(t, w) /\ Shape(t, v)
  BY DEF IInv, Core, Stacks
<1> HIDE DEF v, w
<1>3. ASSUME Closing(work["main"])
      PROVE  Closing(work["main"])'
  <2>1. CASE t = "main"
    <3>1. Ends(w) /\ (Ending(w[1]) \/ Owned(w[1]))
      BY <1>1, <1>3, <2>1 DEF Closing, Ends, w
    <3>2. w[1].op # "store"
      BY <3>1 DEF Ending, Owned, OwnedBy
    <3>3. Ends(v)
      BY <1>1, <1>2, <2>1, <3>1, EndsKept DEF w
    <3>4. /\ Doomed(w[1]) = {} /\ \A i \in 1 .. Len(ops) : Claims("delete", ops[i]) = {}
      BY DEF Doomed, Claims, w
    <3>5. Apart("delete", ops) /\ \A r : ~ Left("delete", ops, r)
      BY <3>4, NothingLeft
    <3>6. /\ \A j \in 1 .. Len(ops) : ops[j].op \in {"join", "flush"} => ops[j] = w[1]
          /\ w[1].op # "destroy"
      BY DEF w
    <3>7. \A a \in Aggs : stored'[a] # 0 => stored[a] # 0
      BY <3>2 DEF w
    <3> QED
      BY <1>3, <2>1, <3>3, <3>4, <3>5, <3>6, <3>7, ClosingMain DEF v, w
  <2>2. CASE t # "main"
    <3>1. w[1].op # "store" /\ t \in Aggs /\ work[t] # <<>>
      <4>1. MayDo(t, w[1])
        BY <1>1, <1>2 DEF Shape
      <4>2. work[t] # <<>>
        BY <1>1 DEF w
      <4> QED
        BY <2>2, <4>1, <4>2, Names DEF MayDo, OwnedBy
    <3>2. work'["main"] = work["main"]
      BY <1>1, <2>2, Names
    <3>3. \A a \in Aggs : work'[a] # <<>> => work[a] # <<>>
      BY <1>1, <3>1, Names
    <3>4. \A a \in Aggs : stored'[a] # 0 => stored[a] # 0
      BY <3>1 DEF w
    <3> QED
      BY <1>3, <3>2, <3>3, <3>4, ClosingOther
  <2> QED
    BY <2>1, <2>2
<1> QED
  BY <1>3, OrdinaryStep

\* An operation that ends and leaves nothing behind.
LEMMA PopLife ==
  ASSUME IInv, IInv', Life, NEW t \in Threads, NEW name, NEW s, At(t, name, s),
         Proceed(t, <<>>), status' = status, retVal' = retVal, eofs' = eofs, stored' = stored,
         name \notin {"init", "initSelf", "processing", "destroy", "delete"},
         name = "join" => work[s] = <<>>,
         name = "flush" => stored[s] = 0
  PROVE  Life' /\ (name # "send" => Silent)
<1>1. PICK ops : /\ Does(t, ops) /\ Len(ops) = 0
                 /\ work[t][1] = Op(name, s) /\ work[t][1].op = name /\ work[t][1].stage = s
  BY PopIs DEF IInv, Core
<1>2. \A i \in 1 .. Len(ops) : FALSE
  BY <1>1
<1>3. \A n, a : Op(name, s) = Op(n, a) => name = n /\ s = a
  BY DEF Op
<1>4. Idle => \A a \in Aggs : stored'[a] = 0
  BY DEF Idle
<1> QED
  BY <1>1, <1>2, <1>3, <1>4, CalmStep

\* A filter passes a record on, a selector copies it.
LEMMA EvalLife ==
  ASSUME IInv, IInv', Life, NEW t \in Threads, NEW s \in Stages,
         EvalFilter(t, s) \/ EvalSelector(t, s)
  PROVE  Life' /\ (EvalFilter(t, s) => Silent)
<1>1. /\ At(t, "eval", s) /\ status' = status /\ retVal' = retVal /\ eofs' = eofs
      /\ stored' = stored
  BY DEF EvalFilter, EvalSelector, buildVars, aggVars, ioVars
<1>2. CASE Proceed(t, <<>>)
  BY <1>1, <1>2, PopLife
<1>3. ASSUME NEW ops \in Seq(Operation), Proceed(t, ops),
             \A i \in 1 .. Len(ops) :
               ops[i].op = "eval" \/ (i = 1 /\ ops[i].op = "send" /\ ops[i].stage \in Selectors)
      PROVE  Life' /\ ((\A i \in 1 .. Len(ops) : ops[i].op # "send") => Silent)
  <2>1. Does(t, ops) /\ work[t][1] = Op("eval", s) /\ work[t][1].op = "eval"
    BY <1>1, <1>3, ProceedIs DEF IInv, Core
  <2>2. ~ Idle
    <3>1. 1 \in 1 .. Len(work[t])
      BY <2>1 DEF Does, Pushed
    <3> QED
      BY <2>1, <3>1 DEF Idle, Busy
  <2>3. \A a : work[t][1] # Op("join", a) /\ work[t][1] # Op("flush", a)
    BY <2>1 DEF Op
  <2>4. ~ Ending(work[t][1])
    BY <2>1 DEF Ending
  <2> QED
    BY <1>1, <1>3, <2>1, <2>2, <2>3, <2>4, CalmStep
<1>4. CASE Proceed(t, send(s))
  <2>1. \A i \in 1 .. Len(send(s)) : send(s)[i].op = "eval" /\ send(s)[i].op # "send"
    BY SendIs
  <2> QED
    BY <1>3, <1>4, <2>1, SendIs
<1>5. ASSUME Proceed(t, <<Op("send", s)>>), Kind[s] = "selector"
      PROVE  Life'
  <2> DEFINE ops == <<Op("send", s)>>
  <2>1. Op("send", s) \in Operation /\ Op("send", s).op = "send" /\ Op("send", s).stage = s
    <3>1. "send" \in OpNames
      BY DEF OpNames
    <3> QED
      BY <3>1, OpIs
  <2>2. ops \in Seq(Operation) /\ Len(ops) = 1 /\ ops[1] = Op("send", s) /\ Proceed(t, ops)
    BY <1>5, <2>1
  <2>3. s \in Selectors
    BY <1>5 DEF Selectors
  <2> HIDE DEF ops
  <2>4. \A i \in 1 .. Len(ops) : i = 1 /\ ops[i].op = "send" /\ ops[i].stage \in Selectors
    BY <2>1, <2>2, <2>3
  <2> QED
    BY <1>3, <2>2, <2>4
<1>6. CASE EvalFilter(t, s)
  BY <1>2, <1>4, <1>6 DEF EvalFilter
<1>7. CASE EvalSelector(t, s)
  <2>1. Kind[s] = "selector" /\ Kind[s] # "filter" /\ Proceed(t, <<Op("send", s)>>)
    BY <1>7 DEF EvalSelector
  <2> QED
    BY <1>5, <2>1 DEF EvalFilter
<1> QED
  BY <1>6, <1>7

\* A thread asks for a mutex, or begins a round of its loop.
LEMMA AskLife ==
  ASSUME IInv, IInv', Life, NEW t \in Threads, NEW name \in {"eval", "loop", "sleep"}, NEW s,
         At(t, name, s), NEW ops \in Seq(Operation), Proceed(t, ops),
         status' = status, retVal' = retVal, eofs' = eofs, stored' = stored,
         \A i \in 1 .. Len(ops) : \/ ops[i].op \in {"lock", "sweep", "unlock", "sleep", "loop"}
                                  \/ ops[i].op = "store" /\ name = "eval"
  PROVE  Life' /\ Silent
<1>1. Does(t, ops) /\ work[t][1] = Op(name, s) /\ work[t][1].op = name
  BY ProceedIs DEF IInv, Core
<1>2. Idle => name # "eval"
  <2>1. 1 \in 1 .. Len(work[t])
    BY <1>1 DEF Does, Pushed
  <2> QED
    BY <1>1, <2>1 DEF Idle, Busy
<1>3. Idle => /\ \A a \in Aggs : stored'[a] = 0
              /\ \A i \in 1 .. Len(ops) : ~ Busy(ops[i])
  BY <1>2 DEF Idle, Busy
<1>4. \A a : work[t][1] # Op("join", a) /\ work[t][1] # Op("flush", a)
  BY <1>1 DEF Op
<1>5. ~ Ending(work[t][1])
  BY <1>1 DEF Ending
<1>6. work[t][1].op # "send" /\ \A i \in 1 .. Len(ops) : ops[i].op # "send"
  BY <1>1
<1> QED
  BY <1>1, <1>3, <1>4, <1>5, <1>6, CalmStep

LEMMA AggEvalLife ==
  ASSUME IInv, IInv', Life, NEW t \in Threads, NEW a \in Stages, EvalAgg(t, a)
  PROVE  Life' /\ Silent
<1>1. /\ At(t, "eval", a) /\ status' = status /\ retVal' = retVal /\ eofs' = eofs
      /\ stored' = stored
  BY DEF EvalAgg, buildVars, ioVars
<1>2. CASE Proceed(t, <<>>)
  BY <1>1, <1>2, PopLife
<1>3. CASE Proceed(t, <<Op("lock", a), Op("store", a)>>)
  <2> DEFINE ops == <<Op("lock", a), Op("store", a)>>
  <2>1. \A n \in {"lock", "store"} : Op(n, a) \in Operation /\ Op(n, a).op = n
    BY OpIs DEF OpNames
  <2>2. /\ ops \in Seq(Operation) /\ Len(ops) = 2 /\ Proceed(t, ops)
        /\ ops[1] = Op("lock", a) /\ ops[2] = Op("store", a)
    BY <1>3, <2>1
  <2> HIDE DEF ops
  <2>3. \A i \in 1 .. Len(ops) : ops[i].op \in {"lock", "store"}
    BY <2>1, <2>2
  <2> QED
    BY <1>1, <2>2, <2>3, AskLife
<1> QED
  BY <1>2, <1>3 DEF EvalAgg

LEMMA TimerLife ==
  ASSUME IInv, IInv', Life, NEW a \in Aggs, TimerLoop(a) \/ WakeUp(a)
  PROVE  Life' /\ Silent
<1>0. a \in Threads /\ a \in Stages
  BY Names
<1>1. \E name \in {"loop", "sleep"} :
        /\ At(a, name, a) /\ status' = status /\ retVal' = retVal /\ eofs' = eofs
        /\ stored' = stored
  BY DEF TimerLoop, WakeUp, buildVars, aggVars, ioVars
<1>2. \A n \in {"lock", "sweep", "unlock", "sleep", "loop"} : Op(n, a) \in Operation /\ Op(n, a).op = n
  BY <1>0, OpIs DEF OpNames
<1>3. CASE Proceed(a, <<>>)
  BY <1>0, <1>1, <1>3, PopLife
<1>4. CASE Proceed(a, <<Op("lock", a), Op("sweep", a), Op("unlock", a), Op("sleep", a)>>)
  <2> DEFINE ops == <<Op("lock", a), Op("sweep", a), Op("unlock", a), Op("sleep", a)>>
  <2>1. /\ ops \in Seq(Operation) /\ Len(ops) = 4 /\ Proceed(a, ops)
        /\ ops[1] = Op("lock", a) /\ ops[2] = Op("sweep", a)
        /\ ops[3] = Op("unlock", a) /\ ops[4] = Op("sleep", a)
    BY <1>2, <1>4
  <2> HIDE DEF ops
  <2>2. \A i \in 1 .. Len(ops) : ops[i].op \in {"lock", "sweep", "unlock", "sleep"}
    BY <1>2, <2>1
  <2> QED
    BY <1>0, <1>1, <2>1, <2>2, AskLife
<1>5. CASE Proceed(a, <<Op("loop", a)>>)
  <2> DEFINE ops == <<Op("loop", a)>>
  <2>1. ops \in Seq(Operation) /\ Len(ops) = 1 /\ Proceed(a, ops) /\ ops[1] = Op("loop", a)
    BY <1>2, <1>5
  <2> HIDE DEF ops
  <2>2. \A i \in 1 .. Len(ops) : ops[i].op = "loop"
    BY <1>2, <2>1
  <2> QED
    BY <1>0, <1>1, <2>1, <2>2, AskLife
<1> QED
  BY <1>3, <1>4, <1>5 DEF TimerLoop, WakeUp

\* A record enters a storage, or aggregates leave it.
LEMMA SendLife ==
  ASSUME IInv, IInv', Life, NEW t \in Threads, NEW a \in Aggs,
         NEW name \in {"store", "sweep", "flush"}, At(t, name, a), NEW ops, Proceed(t, ops),
         SendsThen(ops, a, Op(IF name = "store" THEN "unlock" ELSE name, a)),
         status' = status, retVal' = retVal, eofs' = eofs,
         name = "store" \/ stored[a] # 0,
         \A b \in Aggs : stored'[b] # 0 => stored[b] # 0 \/ name = "store"
  PROVE  Life' /\ Silent
<1> DEFINE L == Len(ops)
           last == Op(IF name = "store" THEN "unlock" ELSE name, a)
<1>1. /\ ops \in Seq(Operation) /\ L \in Nat /\ L >= 1 /\ ops[L] = last
      /\ \A i \in 1 .. L - 1 : ops[i].op = "eval"
  BY DEF SendsThen
<1>2. last.op = IF name = "store" THEN "unlock" ELSE name
  BY DEF Op
<1>3. Does(t, ops) /\ work[t][1] = Op(name, a) /\ work[t][1].op = name
  BY <1>1, ProceedIs DEF IInv, Core
<1>4. \A i \in 1 .. L : i \in 1 .. L - 1 \/ i = L
  BY <1>1
<1> HIDE DEF L
<1>5. \A i \in 1 .. L : \/ ops[i].op \in {"eval", "unlock", "sweep"}
                        \/ ops[i].op = "flush" /\ ops[i] = Op(name, a)
  BY <1>1, <1>2, <1>4
<1>6. ~ Idle
  <2>1. 1 \in 1 .. Len(work[t])
    BY <1>3 DEF Does, Pushed
  <2> QED
    BY <1>3, <2>1 DEF Idle, Busy
<1>7. L \in 1 .. L
  BY <1>1
<1>8. Ending(work[t][1]) => Ending(ops[L])
  BY <1>1, <1>2, <1>3 DEF Ending
<1>9. \A b : /\ work[t][1] # Op("join", b)
             /\ work[t][1] = Op("flush", b) => ops[L] = Op("flush", b)
  BY <1>1, <1>3 DEF Op
<1>10. work[t][1].op # "send" /\ \A i \in 1 .. L : ops[i].op # "send"
  BY <1>3, <1>5
<1> QED
  BY <1>3, <1>5, <1>6, <1>7, <1>8, <1>9, <1>10, CalmStep DEF L

LEMMA StoreLife ==
  ASSUME IInv, IInv', Life, NEW a \in Aggs, StoreNew(a) \/ StoreExisting(a)
  PROVE  Life' /\ Silent
<1>1. "main" \in Threads /\ a \in Stages
  BY Names
<1>2. /\ At("main", "store", a) /\ status' = status /\ retVal' = retVal /\ eofs' = eofs
  BY DEF StoreNew, StoreExisting, buildVars, ioVars
<1>3. Op("unlock", a) \in Operation
  <2>1. "unlock" \in OpNames
    BY DEF OpNames
  <2> QED
    BY <1>1, <2>1, OpIs
<1>4. CASE Proceed("main", <<Op("unlock", a)>>)
  <2> DEFINE ops == <<Op("unlock", a)>>
  <2>1. ops \in Seq(Operation) /\ Len(ops) = 1 /\ ops[1] = Op("unlock", a) /\ Proceed("main", ops)
    BY <1>3, <1>4
  <2> HIDE DEF ops
  <2>2. SendsThen(ops, a, Op("unlock", a))
    BY <2>1 DEF SendsThen
  <2> QED
    BY <1>1, <1>2, <2>1, <2>2, SendLife
<1>5. CASE Proceed("main", send(a) \o <<Op("unlock", a)>>)
  <2>1. SendsThen(send(a) \o <<Op("unlock", a)>>, a, Op("unlock", a))
    BY <1>1, <1>3, SendThen
  <2> QED
    BY <1>1, <1>2, <1>5, <2>1, SendLife
<1>6. CASE Proceed("main", <<>> \o <<Op("unlock", a)>>)
  <2>1. <<>> \o <<Op("unlock", a)>> = <<Op("unlock", a)>>
    BY <1>3
  <2> QED
    BY <1>4, <1>6, <2>1
<1> QED
  BY <1>4, <1>5, <1>6 DEF StoreNew, StoreExisting

LEMMA SendOneLife ==
  ASSUME IInv, IInv', Life, NEW t \in Threads, NEW a \in Aggs, NEW name \in {"sweep", "flush"},
         SendOne(t, a, name)
  PROVE  Life' /\ Silent
<1>1. a \in Stages
  BY Names
<1>2. /\ At(t, name, a) /\ Proceed(t, send(a) \o <<Op(name, a)>>)
      /\ status' = status /\ retVal' = retVal /\ eofs' = eofs /\ stored[a] > 0
      /\ stored' = [stored EXCEPT ![a] = stored[a] - 1]
  BY DEF SendOne, buildVars, ioVars
<1>3. Op(name, a) \in Operation
  <2>1. name \in OpNames
    BY DEF OpNames
  <2> QED
    BY <1>1, <2>1, OpIs
<1>4. SendsThen(send(a) \o <<Op(name, a)>>, a, Op(name, a))
  BY <1>1, <1>3, SendThen
<1>5. stored[a] # 0 /\ \A b \in Aggs : stored'[b] # 0 => stored[b] # 0
  <2>1. stored \in [Aggs -> 0 .. MaxStored]
    BY DEF IInv, TypeOK
  <2>2. \A b \in Aggs : b # a => stored'[b] = stored[b]
    BY <1>2, <2>1
  <2>3. stored[a] # 0
    BY <1>2
  <2> QED
    BY <2>2, <2>3
<1>6. name # "store" /\ name \in {"store", "sweep", "flush"}
  OBVIOUS
<1> QED
  BY <1>2, <1>4, <1>5, <1>6, SendLife

LEMMA PopsLife ==
  ASSUME IInv, IInv', Life, NEW t \in Threads, NEW s \in Stages,
         \/ SendOutput(t, s) \/ LockStorage(t, s) \/ UnlockStorage(t, s)
         \/ SweepEnds(s) /\ s \in Aggs
         \/ SetStop(s) \/ JoinTimeoutThread(s) \/ FlushEnds(s)
  PROVE  Life' /\ (SendOutput(t, s) \/ Silent)
<1>1. \E u \in Threads, name \in {"send", "lock", "unlock", "sweep", "setStop", "join", "flush"} :
        /\ At(u, name, s) /\ Proceed(u, <<>>)
        /\ status' = status /\ retVal' = retVal /\ eofs' = eofs /\ stored' = stored
        /\ name = "join" => work[s] = <<>>
        /\ name = "flush" => stored[s] = 0
        /\ name = "send" => SendOutput(t, s)
  BY Names DEF SendOutput, LockStorage, UnlockStorage, SweepEnds, SetStop, JoinTimeoutThread,
               FlushEnds, buildVars, aggVars, ioVars
<1> QED
  BY <1>1, PopLife

-----------------------------------------------------------------------------
(* Destruction.                                                            *)

\* ops destroys stage s: the n operations of its destructor, then its successors.
DestroysStage(ops, s, n) ==
  /\ ops \in Seq(Operation) /\ n \in Nat /\ Len(ops) = n + Len(Succ[s])
  /\ \A k \in DOMAIN Succ[s] : n + k \in 1 .. Len(ops) /\ ops[n + k] = Op("destroy", Succ[s][k])
  /\ \A i \in 1 .. n : ops[i].op \in {"setStop", "join", "flush", "delete"} /\ ops[i].stage = s
  /\ n >= 1 /\ ops[n] = Op("delete", s) /\ \A i \in 1 .. n - 1 : ops[i].op # "delete"
  /\ s \in Aggs => n = 4 /\ ops[2] = Op("join", s) /\ ops[3] = Op("flush", s)

LEMMA DestroysStageIs ==
  ASSUME Stacks, NEW s \in Stages, DestroyStage(s)
  PROVE  \E ops, n : DestroysStage(ops, s, n) /\ Proceed("main", ops)
<1> DEFINE h == IF Kind[s] = "agg"
                THEN <<Op("setStop", s), Op("join", s), Op("flush", s), Op("delete", s)>>
                ELSE <<Op("delete", s)>>
           r == OpAll("destroy", Succ[s])
           n == Len(h)
           ops == h \o r
<1>1. Proceed("main", ops)
  BY DEF DestroyStage
<1>2. \A x \in {"setStop", "join", "flush", "delete"} : Op(x, s) \in Operation
  BY OpIs DEF OpNames
<1>3. /\ h \in Seq(Operation) /\ n \in Nat /\ n >= 1 /\ h[n] = Op("delete", s)
      /\ \A i \in 1 .. n : h[i].op \in {"setStop", "join", "flush", "delete"} /\ h[i].stage = s
      /\ \A i \in 1 .. n - 1 : h[i].op # "delete"
      /\ s \in Aggs => n = 4 /\ h[2] = Op("join", s) /\ h[3] = Op("flush", s)
  <2>1. CASE Kind[s] = "agg"
    <3>1. /\ h \in Seq(Operation) /\ n = 4
          /\ h[1] = Op("setStop", s) /\ h[2] = Op("join", s)
          /\ h[3] = Op("flush", s) /\ h[4] = Op("delete", s)
      BY <1>2, <2>1
    <3> HIDE DEF h
    <3>2. /\ \A i \in 1 .. n : i \in {1, 2, 3, 4}
          /\ \A i \in 1 .. n - 1 : i \in {1, 2, 3}
      BY <3>1
    <3>3. \A i \in 1 .. n : h[i].op \in {"setStop", "join", "flush", "delete"} /\ h[i].stage = s
      BY <3>1, <3>2 DEF Op
    <3>4. \A i \in 1 .. n - 1 : h[i].op # "delete"
      BY <3>1, <3>2 DEF Op
    <3> QED
      BY <3>1, <3>3, <3>4
  <2>2. CASE Kind[s] # "agg"
    <3>1. h \in Seq(Operation) /\ n = 1 /\ h[1] = Op("delete", s)
      BY <1>2, <2>2
    <3>2. s \notin Aggs
      BY <2>2 DEF Aggs
    <3> HIDE DEF h
    <3> QED
      BY <3>1, <3>2 DEF Op
  <2> QED
    BY <2>1, <2>2
<1>4. "destroy" \in OpNames /\ Succ[s] \in Seq(Stages)
  BY SuccessorIsStage DEF OpNames
<1>5. /\ r \in Seq(Operation) /\ Len(r) = Len(Succ[s])
      /\ \A i \in 1 .. Len(Succ[s]) : r[i] = Op("destroy", Succ[s][i])
      /\ DOMAIN Succ[s] = 1 .. Len(Succ[s]) /\ Len(Succ[s]) \in Nat
  BY <1>4, OpAllIs
<1> HIDE DEF r, h
<1>6. /\ ops \in Seq(Operation) /\ Len(ops) = n + Len(r)
      /\ \A i \in 1 .. n : ops[i] = h[i]
      /\ \A i \in n + 1 .. n + Len(r) : ops[i] = r[i - n]
  <2>1. h \in Seq(Operation) /\ r \in Seq(Operation)
    BY <1>3, <1>5
  <2> QED
    BY <2>1
<1> HIDE DEF ops, n
<1>7. ASSUME NEW k \in DOMAIN Succ[s]
      PROVE  n + k \in 1 .. Len(ops) /\ ops[n + k] = Op("destroy", Succ[s][k])
  <2>1. k \in 1 .. Len(Succ[s]) /\ n + k \in n + 1 .. n + Len(r) /\ (n + k) - n = k
    BY <1>3, <1>5
  <2>2. n + k \in 1 .. Len(ops)
    <3>1. n \in Nat /\ Len(r) \in Nat /\ Len(ops) = n + Len(r)
      BY <1>3, <1>5, <1>6
    <3> QED
      BY <2>1, <3>1
  <2>3. ops[n + k] = r[(n + k) - n]
    BY <1>6, <2>1
  <2> QED
    BY <1>5, <2>1, <2>2, <2>3
<1>8. \A i \in 1 .. n - 1 : i \in 1 .. n /\ ops[i].op # "delete"
  BY <1>3, <1>6
<1>9. s \in Aggs => n = 4 /\ ops[2] = Op("join", s) /\ ops[3] = Op("flush", s)
  BY <1>3, <1>6
<1>10. n \in 1 .. n
  BY <1>3
<1>11. DestroysStage(ops, s, n)
  BY <1>3, <1>5, <1>6, <1>7, <1>8, <1>9, <1>10 DEF DestroysStage
<1> QED
  BY <1>1, <1>11

LEMMA DestroyLife ==
  ASSUME IInv, IInv', Life, NEW s \in Stages, DestroyStage(s)
  PROVE  Life' /\ Silent
<1>0. "main" \in Threads /\ Stacks /\ Aggs \subseteq Stages
  BY Names DEF IInv, Core
<1>1. PICK ops, n : DestroysStage(ops, s, n) /\ Proceed("main", ops)
  BY <1>0, DestroysStageIs
<1> DEFINE w == work["main"]
           v == work'["main"]
           S == Succ[s]
<1>2. /\ At("main", "destroy", s) /\ ops \in Seq(Operation)
      /\ status' = status /\ retVal' = retVal /\ eofs' = eofs /\ stored' = stored
  BY <1>1 DEF DestroyStage, DestroysStage, buildVars, aggVars, ioVars
<1>3. /\ Does("main", ops) /\ w[1] = Op("destroy", s) /\ w[1].op = "destroy" /\ w[1].stage = s
      /\ Shape("main", w)
  BY <1>0, <1>1, <1>2, ProceedIs
<1>4. /\ Pushed(v, ops, w) /\ Len(w) \in Nat /\ 1 \in 1 .. Len(w) /\ Shape("main", v)
  <2>1. Pushed(v, ops, w)
    BY <1>3 DEF Does
  <2>2. Len(w) \in Nat /\ 1 \in 1 .. Len(w)
    BY <1>0, <1>2, AtIs
  <2>3. Shape("main", v)
    BY <1>0 DEF IInv, Core, Stacks
  <2> QED
    BY <2>1, <2>2, <2>3
<1>5. /\ n \in Nat /\ n >= 1 /\ Len(ops) = n + Len(S) /\ Len(S) \in Nat /\ DOMAIN S = 1 .. Len(S)
      /\ \A k \in DOMAIN S : n + k \in 1 .. Len(ops) /\ ops[n + k] = Op("destroy", S[k])
      /\ \A i \in 1 .. n : ops[i].op \in {"setStop", "join", "flush", "delete"} /\ ops[i].stage = s
      /\ ops[n] = Op("delete", s) /\ \A i \in 1 .. n - 1 : ops[i].op # "delete"
      /\ s \in Aggs => n = 4 /\ ops[2] = Op("join", s) /\ ops[3] = Op("flush", s)
  BY <1>1, SuccessorIsStage DEF DestroysStage
<1> HIDE DEF v, w, S
<1>6. ASSUME NEW i \in 1 .. Len(ops)
      PROVE  \/ i \in 1 .. n
             \/ i - n \in DOMAIN S /\ ops[i] = Op("destroy", S[i - n])
  <2>1. i \in 1 .. n \/ (i - n \in DOMAIN S /\ n + (i - n) = i)
    BY <1>5
  <2> QED
    BY <1>5, <2>1
\* What each operation deletes.
<1>7. ASSUME NEW i \in 1 .. Len(ops)
      PROVE  /\ Claims("delete", ops[i]) = IF i = n THEN {s}
                                           ELSE IF i < n THEN {} ELSE Below(S[i - n])
             /\ i > n => i - n \in DOMAIN S
  <2>1. CASE i = n
    BY <1>5, <2>1 DEF Claims, Doomed, Op
  <2>2. CASE i < n
    <3>1. i \in 1 .. n /\ i \in 1 .. n - 1 /\ i # n /\ ~ (i > n)
      BY <1>5, <2>2
    <3>2. ops[i].op \notin {"destroy", "delete"}
      BY <1>5, <3>1
    <3> QED
      BY <2>2, <3>1, <3>2 DEF Claims, Doomed
  <2>3. CASE i > n
    <3>1. i - n \in DOMAIN S /\ ops[i] = Op("destroy", S[i - n]) /\ i # n /\ ~ (i < n)
      BY <1>5, <1>6, <2>3
    <3> QED
      BY <3>1 DEF Claims, Doomed, Op
  <2> QED
    BY <1>5, <2>1, <2>2, <2>3
<1>8. Apart("delete", ops)
  <2> SUFFICES ASSUME NEW i \in 1 .. Len(ops), NEW j \in 1 .. Len(ops), i # j
               PROVE  Claims("delete", ops[i]) \cap Claims("delete", ops[j]) = {}
    BY DEF Apart
  <2>1. /\ i - n # j - n
        /\ i = n \/ i < n \/ i > n
        /\ j = n \/ j < n \/ j > n
        /\ ~ (i = n /\ j = n)
    BY <1>5
  <2>2. ASSUME NEW k \in DOMAIN S
        PROVE  /\ s \notin Below(S[k])
               /\ \A l \in DOMAIN S : k # l => Below(S[k]) \cap Below(S[l]) = {}
    BY <2>2, Siblings DEF S
  <2> QED
    BY <1>7, <2>1, <2>2
<1>9. \A r : Left("delete", ops, r) <=> r \in Below(s)
  <2>1. ASSUME NEW r, Left("delete", ops, r) PROVE r \in Below(s)
    <3>1. PICK i \in 1 .. Len(ops) : r \in Claims("delete", ops[i])
      BY <2>1 DEF Left
    <3>2. CASE i = n
      BY <1>7, <3>1, <3>2, BelowBasics
    <3>3. CASE i > n /\ i # n
      <4>1. i - n \in DOMAIN S /\ r \in Below(S[i - n])
        BY <1>5, <1>7, <3>1, <3>3
      <4>2. Below(S[i - n]) \subseteq Below(s)
        BY <4>1, Siblings DEF S
      <4> QED
        BY <4>1, <4>2
    <3>4. CASE i < n
      BY <1>5, <1>7, <3>1, <3>4
    <3> QED
      BY <1>5, <3>2, <3>3, <3>4
  <2>2. ASSUME NEW r \in Below(s) PROVE Left("delete", ops, r)
    <3>1. CASE r = s
      <4>1. n \in 1 .. Len(ops) /\ r \in Claims("delete", ops[n])
        BY <1>5, <1>7, <3>1
      <4> QED
        BY <4>1 DEF Left
    <3>2. CASE r # s
      <4>1. PICK k \in DOMAIN S : r \in Below(S[k])
        BY <3>2, BelowSplit DEF S
      <4>2. n + k \in 1 .. Len(ops) /\ ops[n + k] = Op("destroy", S[k])
        BY <1>5
      <4>3. r \in Claims("delete", ops[n + k])
        BY <4>1, <4>2 DEF Claims, Doomed, Op
      <4> QED
        BY <4>2, <4>3 DEF Left
    <3> QED
      BY <3>1, <3>2
  <2> QED
    BY <2>1, <2>2
<1>10. Doomed(w[1]) = Below(s)
  BY <1>3 DEF Doomed
<1>11. ASSUME NEW j \in 1 .. Len(ops), ops[j].op \in {"join", "flush"},
              NEW k \in DOMAIN Succ[ops[j].stage]
       PROVE  \E l \in j + 1 .. Len(ops) : ops[l] = Op("destroy", Succ[ops[j].stage][k])
  <2>1. j \in 1 .. n
    <3>1. \A r : Op("destroy", r).op = "destroy"
      BY DEF Op
    <3> QED
      BY <1>6, <1>11, <3>1
  <2>2. ops[j].stage = s /\ k \in DOMAIN S
    BY <1>5, <1>11, <2>1 DEF S
  <2>3. n + k \in j + 1 .. Len(ops) /\ ops[n + k] = Op("destroy", S[k])
    <3>1. n + k \in 1 .. Len(ops) /\ k \in 1 .. Len(S) /\ ops[n + k] = Op("destroy", S[k])
      BY <1>5, <2>2
    <3> QED
      BY <1>5, <2>1, <3>1
  <2> QED
    BY <2>2, <2>3 DEF S
<1>12. ASSUME NEW a \in Aggs \cap Below(s), NEW name \in {"join", "flush"}
       PROVE  Coming(ops, name, a)
  <2>1. CASE a = s
    <3>1. 2 \in 1 .. Len(ops) /\ 3 \in 1 .. Len(ops)
      BY <1>5, <2>1
    <3> QED
      BY <1>5, <2>1, <3>1 DEF Coming
  <2>2. CASE a # s
    <3>1. PICK k \in DOMAIN S : a \in Below(S[k])
      BY <2>2, BelowSplit DEF S
    <3>2. n + k \in 1 .. Len(ops) /\ ops[n + k] = Op("destroy", S[k])
      BY <1>5
    <3> QED
      BY <3>1, <3>2 DEF Coming, Op
  <2> QED
    BY <2>1, <2>2
<1>13. Ending(w[1]) /\ Ending(ops[n]) /\ n \in 1 .. Len(ops)
  BY <1>3, <1>5 DEF Ending, Op
<1>14. ASSUME Closing(w) PROVE Closing(work["main"])'
  <2>1. Ends(v)
    BY <1>3, <1>4, <1>13, <1>14, EndsKept DEF Closing
  <2>2. \A a : w[1] # Op("join", a) /\ w[1] # Op("flush", a)
    BY <1>3 DEF Op
  <2>3. \A r : ~ (r \in Doomed(w[1]) /\ ~ Left("delete", ops, r))
    BY <1>9, <1>10
  <2> QED
    BY <1>0, <1>2, <1>3, <1>8, <1>9, <1>10, <1>11, <1>12, <1>14, <2>1, <2>2, <2>3, ClosingMain
       DEF v, w
<1>15. \A i \in 1 .. Len(ops) : ops[i].op \in {"setStop", "join", "flush", "delete", "destroy"}
  BY <1>5, <1>6 DEF Op
<1>16. /\ \A i \in 1 .. Len(ops) : ops[i].op \notin {"init", "initSelf", "processing", "send"}
       /\ \A i \in 1 .. Len(ops) : ~ Busy(ops[i])
  BY <1>15 DEF Busy
<1>17. Idle => \A a \in Aggs : stored'[a] = 0
  BY <1>2 DEF Idle
<1>18. work["main"][1].op # "send"
  BY <1>3 DEF w
<1> QED
  BY <1>0, <1>2, <1>3, <1>14, <1>16, <1>17, <1>18, OrdinaryStep DEF w

\* While a stage is being deleted the backend is destroyed: nothing else is left to do.
LEMMA DeleteIs ==
  ASSUME IInv, Life, NEW s \in Stages, DeleteStage(s)
  PROVE  /\ Closing(work["main"])
         /\ \E ops : /\ Does("main", ops) /\ Len(ops) = 0
                     /\ work["main"][1] = Op("delete", s)
                     /\ work["main"][1].op = "delete" /\ work["main"][1].stage = s
<1>1. Stacks /\ "main" \in Threads /\ At("main", "delete", s) /\ Proceed("main", <<>>)
  BY Names DEF IInv, Core, DeleteStage
<1>2. PICK ops : /\ Does("main", ops) /\ Len(ops) = 0
                 /\ work["main"][1] = Op("delete", s)
                 /\ work["main"][1].op = "delete" /\ work["main"][1].stage = s
  BY <1>1, PopIs
<1> DEFINE w == work["main"]
<1>3. Len(w) \in Nat /\ Len(w) >= 1 /\ Shape("main", w) /\ Ending(w[1])
  BY <1>1, <1>2 DEF Stacks, Does, Pushed, Ending
<1> HIDE DEF w
<1>4. ~ Runs(w)
  <2>1. 1 \in 1 .. Len(w) /\ Len(w) \in 1 .. Len(w)
    BY <1>3
  <2>2. Ending(w[Len(w)]) \/ Owned(w[Len(w)])
    BY <1>3, <2>1 DEF Shape, EndPhase
  <2> QED
    BY <2>2 DEF Runs, Ending, Owned, OwnedBy
<1>5. Closing(work["main"])
  BY <1>4 DEF Life, Phase, w
<1> QED
  BY <1>2, <1>5

LEMMA DeleteLife ==
  ASSUME IInv, IInv', Life, NEW s \in Stages, DeleteStage(s)
  PROVE  Life' /\ Silent
<1>1. Closing(work["main"])
  BY DeleteIs
<1>2. PICK ops : /\ Does("main", ops) /\ Len(ops) = 0
                 /\ work["main"][1] = Op("delete", s)
                 /\ work["main"][1].op = "delete" /\ work["main"][1].stage = s
  BY DeleteIs
<1> DEFINE w == work["main"]
           v == work'["main"]
<1>3. /\ status' = [status EXCEPT ![s] = "destroyed"] /\ retVal' = retVal /\ stored' = stored
      /\ eofs' = IF Kind[s] = "selector" THEN [eofs EXCEPT ![s] = eofs[s] + 1] ELSE eofs
  BY DEF DeleteStage, aggVars
<1>4. /\ status \in [Stages -> {"constructed", "ready", "failed", "destroyed"}]
      /\ eofs \in [Selectors -> Nat] /\ "main" \in Threads
  BY Names DEF IInv, TypeOK
<1>5. \A r \in Stages : status'[r] = IF r = s THEN "destroyed" ELSE status[r]
  BY <1>3, <1>4
<1>6. /\ Pushed(v, ops, w) /\ Len(w) \in Nat /\ Len(w) >= 1 /\ Shape("main", w) /\ Shape("main", v)
      /\ \A u \in Threads : u # "main" => work'[u] = work[u]
  BY <1>2, <1>4 DEF Does, Pushed, IInv, Core, Stacks
<1>7. \A i \in 1 .. Len(ops) : FALSE
  BY <1>2
<1>8. Apart("delete", ops) /\ \A what, r : ~ Left(what, ops, r)
  BY <1>7 DEF Apart, Left
<1>9. Doomed(w[1]) = {s}
  BY <1>2 DEF Doomed
<1> HIDE DEF v, w
<1>10. Ends(w) /\ Ends(v)
  BY <1>1, <1>2, <1>6, EndsKept DEF Closing, w
<1>11. Closing(work["main"])'
  <2>1. \A a : w[1] # Op("join", a) /\ w[1] # Op("flush", a)
    BY <1>2 DEF Op, w
  <2>2. \A r \in Stages : status'[r] = "destroyed" <=>
           \/ status[r] = "destroyed"
           \/ r \in Doomed(w[1]) /\ ~ Left("delete", ops, r)
    BY <1>5, <1>8, <1>9
  <2>3. w[1].op # "destroy" /\ \A a \in Aggs : stored'[a] # 0 => stored[a] # 0
    BY <1>2, <1>3 DEF w
  <2> QED
    BY <1>1, <1>2, <1>4, <1>7, <1>8, <1>10, <2>1, <2>2, <2>3, ClosingMain DEF v, w
<1>12. \A r : ~ Left("init", w, r) /\ ~ Left("init", v, r)
  BY <1>10, EndsInits
<1>13. Building /\ Sends /\ Eofs
  BY DEF Life
<1>14. Idle => Idle'
  <2> SUFFICES ASSUME Idle
               PROVE  /\ \A a \in Aggs : stored'[a] = 0
                      /\ \A u \in Threads : \A i \in 1 .. Len(work'[u]) : ~ Busy(work'[u][i])
    BY DEF Idle
  <2>1. ASSUME NEW i \in 1 .. Len(v) PROVE ~ Busy(v[i])
    <3>1. i - Len(ops) + 1 \in 1 .. Len(w) /\ v[i] = w[i - Len(ops) + 1]
      BY <1>2, <1>6, <2>1, PushedFrom
    <3> QED
      BY <1>4, <3>1 DEF Idle, w
  <2> QED
    BY <1>3, <1>6, <2>1 DEF Idle, v
<1>15. Building'
  BY <1>3, <1>5, <1>12, <1>13, <1>14 DEF Building, v, w
<1>16. Sends'
  <2> SUFFICES ASSUME NEW u \in Threads, NEW i \in 1 .. Len(work'[u]), work'[u][i].op = "send"
               PROVE  i = 1 /\ work'[u][i].stage \in Selectors
    BY DEF Sends
  <2>1. CASE u = "main"
    <3>0. i \in 1 .. Len(v)
      BY <2>1 DEF v
    <3>1. i - Len(ops) + 1 \in 2 .. Len(w) /\ v[i] = w[i - Len(ops) + 1]
      BY <1>2, <1>6, <3>0, PushedFrom
    <3>2. i - Len(ops) + 1 \in 1 .. Len(w) /\ i - Len(ops) + 1 # 1
      BY <1>6, <3>1
    <3> QED
      BY <1>13, <2>1, <3>1, <3>2 DEF Sends, v, w
  <2>2. CASE u # "main"
    BY <1>6, <1>13, <2>2 DEF Sends
  <2> QED
    BY <2>1, <2>2
<1>17. Eofs'
  <2>1. status[s] # "destroyed"
    <3>1. 1 \in 1 .. Len(w) /\ s \in Claims("delete", w[1])
      BY <1>6, <1>9 DEF Claims
    <3> QED
      BY <1>1, <3>1 DEF Closing, Left, w
  <2> SUFFICES ASSUME NEW r \in Selectors
               PROVE  eofs'[r] = IF status'[r] = "destroyed" THEN 1 ELSE 0
    BY DEF Eofs
  <2>2. r \in Stages /\ eofs[r] = IF status[r] = "destroyed" THEN 1 ELSE 0
    BY <1>13 DEF Eofs, Selectors
  <2>3. CASE r = s
    <3>1. eofs' = [eofs EXCEPT ![s] = eofs[s] + 1] /\ eofs[s] = 0
      BY <1>3, <2>1, <2>2, <2>3 DEF Selectors
    <3> QED
      BY <1>4, <1>5, <2>2, <2>3, <3>1
  <2>4. CASE r # s
    <3>1. eofs'[r] = eofs[r]
      BY <1>3, <1>4, <2>4
    <3> QED
      BY <1>5, <2>2, <2>4, <3>1
  <2> QED
    BY <2>3, <2>4
<1>18. Silent
  BY <1>2, <1>4, <1>7, <1>13, SilentStep DEF IInv, Core
<1> QED
  BY <1>11, <1>15, <1>16, <1>17, <1>18 DEF Life, Phase

\* Destruction begins at the main branches, below which are all stages.
LEMMA LeaveLife ==
  ASSUME IInv, IInv', Life, BuildFailed \/ LeaveLoop
  PROVE  Life' /\ Silent
<1> DEFINE ops == OpAll("destroy", Root)
           w == work["main"]
           v == work'["main"]
<1>1. Stacks /\ "main" \in Threads /\ Root \in Seq(Stages) /\ "destroy" \in OpNames
  BY Names, StageAssumption DEF IInv, Core, OpNames
<1>2. /\ w = <<Op("processing", NoStage)>> /\ Proceed("main", ops)
      /\ status' = status /\ retVal' = retVal /\ eofs' = eofs /\ stored' = stored
  BY DEF BuildFailed, LeaveLoop, MainAt, Do, Op, buildVars, aggVars, ioVars
<1>3. At("main", "processing", NoStage) /\ Len(w) = 1 /\ w[1] = Op("processing", NoStage)
  BY <1>2 DEF At
<1>4. /\ ops \in Seq(Operation) /\ Len(ops) = Len(Root) /\ DOMAIN Root = 1 .. Len(Root)
      /\ \A i \in 1 .. Len(Root) : ops[i] = Op("destroy", Root[i])
  BY <1>1, OpAllIs
<1> HIDE DEF ops
<1>5. Does("main", ops)
  BY <1>1, <1>2, <1>3, <1>4, ProceedIs
<1> HIDE DEF w
<1>6. /\ \A u \in Threads : u # "main" => work'[u] = work[u]
      /\ Len(v) = Len(Root) /\ \A i \in 1 .. Len(Root) : v[i] = ops[i]
  BY <1>3, <1>4, <1>5 DEF Does, Pushed, w
<1> HIDE DEF v
<1>7. ASSUME NEW i \in 1 .. Len(v)
      PROVE  /\ i \in DOMAIN Root /\ v[i] = Op("destroy", Root[i])
             /\ v[i].op = "destroy" /\ v[i].stage = Root[i]
             /\ Claims("delete", v[i]) = Below(Root[i])
  <2>1. i \in DOMAIN Root /\ v[i] = Op("destroy", Root[i])
    BY <1>4, <1>6
  <2> QED
    BY <2>1 DEF Claims, Doomed, Op
\* Every stage is below a main branch.
<1>8. ASSUME NEW s \in Stages
      PROVE  \E i \in 1 .. Len(v) : s \in Below(Root[i])
  <2>1. PICK i \in DOMAIN Root : s \in Below(Root[i])
    BY TreeAssumption
  <2> QED
    BY <1>4, <1>6, <2>1
<1>9. Building /\ Phase /\ Sends /\ Eofs
  BY DEF Life
<1>10. \A s \in Stages : status[s] # "destroyed"
  <2>1. CASE Runs(w) /\ \A s \in Stages : status[s] # "destroyed"
    BY <2>1
  <2>2. CASE Closing(w)
    <3>1. 1 \in 1 .. Len(w) /\ w[1].op = "processing"
      BY <1>3 DEF Op
    <3>2. Ending(w[1]) \/ Owned(w[1])
      BY <2>2, <3>1 DEF Closing, Ends
    <3> QED
      BY <3>1, <3>2 DEF Ending, Owned, OwnedBy
  <2> QED
    BY <1>9, <2>1, <2>2 DEF Phase, w
<1>11. Closing(work["main"])'
  <2>1. Ends(v)
    BY <1>7 DEF Ends, Ending
  <2>2. Apart("delete", v)
    BY <1>7, RootsApart DEF Apart
  <2>3. SuccLater(v)
    BY <1>7 DEF SuccLater
  <2>4. \A s \in Stages : Left("delete", v, s)
    BY <1>7, <1>8 DEF Left
  <2>5. \A s \in Stages : status'[s] = "destroyed" <=> ~ Left("delete", v, s)
    BY <1>2, <1>10, <2>4
  <2>6. \A a \in Aggs, name \in {"join", "flush"} : Coming(v, name, a)
    BY <1>7, <1>8, Names DEF Coming
  <2> QED
    BY <2>1, <2>2, <2>3, <2>5, <2>6 DEF Closing, v
<1>12. \A s : ~ Left("init", w, s) /\ ~ Left("init", v, s)
  <2>1. \A i \in 1 .. Len(w) : Claims("init", w[i]) = {}
    BY <1>3 DEF Claims, Footprint, Op
  <2>2. \A i \in 1 .. Len(v) : Claims("init", v[i]) = {}
    BY <1>7 DEF Claims, Footprint
  <2> QED
    BY <2>1, <2>2, NothingLeft
<1>13. Idle => Idle'
  <2> SUFFICES ASSUME Idle
               PROVE  /\ \A a \in Aggs : stored'[a] = 0
                      /\ \A u \in Threads : \A i \in 1 .. Len(work'[u]) : ~ Busy(work'[u][i])
    BY DEF Idle
  <2>1. \A i \in 1 .. Len(v) : ~ Busy(v[i])
    BY <1>7 DEF Busy
  <2> QED
    BY <1>2, <1>6, <2>1 DEF Idle, v
<1>14. Building'
  BY <1>2, <1>9, <1>12, <1>13 DEF Building, v, w
<1>15. Sends'
  <2> SUFFICES ASSUME NEW u \in Threads, NEW i \in 1 .. Len(work'[u]), work'[u][i].op = "send"
               PROVE  i = 1 /\ work'[u][i].stage \in Selectors
    BY DEF Sends
  <2>1. CASE u = "main"
    BY <1>7, <2>1 DEF v
  <2>2. CASE u # "main"
    BY <1>6, <1>9, <2>2 DEF Sends
  <2> QED
    BY <2>1, <2>2
<1>16. Eofs'
  BY <1>2, <1>9 DEF Eofs
<1>17. Silent
  <2>1. w[1].op # "send" /\ \A i \in 1 .. Len(ops) : ops[i].op # "send"
    <3>1. \A r : Op("destroy", r).op = "destroy" /\ Op("processing", r).op = "processing"
      BY DEF Op
    <3> QED
      BY <1>3, <1>4, <3>1
  <2> QED
    BY <1>1, <1>5, <1>9, <2>1, SilentStep DEF IInv, Core, w
<1> QED
  BY <1>11, <1>14, <1>15, <1>16, <1>17 DEF Life, Phase

-----------------------------------------------------------------------------
(* Building, and the records.                                              *)

LEMMA RunsIs ==
  ASSUME Life, NEW w, w = work["main"], Len(w) \in Nat, Len(w) >= 1,
         w[1].op \in {"init", "initSelf", "processing"}
  PROVE  Runs(w) /\ \A s \in Stages : status[s] # "destroyed"
<1>1. 1 \in 1 .. Len(w)
  OBVIOUS
<1>2. ~ Ends(w)
  BY <1>1 DEF Ends, Ending, Owned, OwnedBy
<1> QED
  BY <1>2 DEF Life, Phase, Closing

\* A record is received when every stage is initialised and none has failed.
LEMMA ReceiveLife ==
  ASSUME IInv, IInv', Life, ReceiveRecord
  PROVE  Life' /\ Silent
<1> DEFINE ops == OpAll("eval", Root) \o <<Op("processing", NoStage)>>
           w == work["main"]
           v == work'["main"]
<1>1. /\ Stacks /\ "main" \in Threads /\ Root \in Seq(Stages) /\ "eval" \in OpNames
      /\ Op("processing", NoStage) \in Operation
  BY Names, StageAssumption, OpIs DEF IInv, Core, OpNames
<1>2. /\ w = <<Op("processing", NoStage)>> /\ Proceed("main", ops)
      /\ status' = status /\ retVal' = retVal /\ eofs' = eofs /\ stored' = stored /\ ~ retVal
  BY DEF ReceiveRecord, MainAt, Do, Op, buildVars, aggVars
<1>3. At("main", "processing", NoStage) /\ Len(w) = 1 /\ w[1] = Op("processing", NoStage)
  BY <1>2 DEF At
<1>4. OpsThen(ops, "eval", Root, Op("processing", NoStage))
  BY <1>1, OpAllThen
<1> HIDE DEF ops
<1>5. /\ ops \in Seq(Operation) /\ Len(ops) = Len(Root) + 1 /\ Len(Root) \in Nat
      /\ \A i \in 1 .. Len(Root) : ops[i] = Op("eval", Root[i])
      /\ ops[Len(ops)] = Op("processing", NoStage)
  BY <1>4 DEF OpsThen
<1>6. Does("main", ops)
  BY <1>1, <1>2, <1>3, <1>5, ProceedIs
<1>7. /\ Pushed(v, ops, w) /\ \A u \in Threads : u # "main" => work'[u] = work[u]
  BY <1>6 DEF Does
<1> HIDE DEF v, w
<1>8. \A i \in 1 .. Len(ops) : ops[i].op \in {"eval", "processing"}
  <2>1. \A i \in 1 .. Len(ops) : i \in 1 .. Len(Root) \/ i = Len(ops)
    BY <1>5
  <2>2. \A r : Op("eval", r).op = "eval" /\ Op("processing", r).op = "processing"
    BY DEF Op
  <2> QED
    BY <1>5, <2>1, <2>2
<1>9. Building /\ Sends /\ Eofs
  BY DEF Life
<1>10. Runs(w) /\ \A s \in Stages : status[s] # "destroyed"
  <2>1. w[1].op = "processing"
    BY <1>3 DEF Op
  <2> QED
    BY <1>3, <2>1, RunsIs DEF w
<1>11. Phase'
  <2>1. Len(ops) >= 1 /\ ops[Len(ops)].op = "processing"
    BY <1>5 DEF Op
  <2>2. Runs(v)
    BY <1>7, <1>10, <2>1, RunsKept
  <2> QED
    BY <1>2, <1>10, <2>2 DEF Phase, v, Runs
<1>12. \A s : ~ Left("init", w, s) /\ ~ Left("init", v, s)
  <2>1. /\ Claims("init", w[1]) = {} /\ \A i \in 1 .. Len(ops) : Claims("init", ops[i]) = {}
    BY <1>3, <1>8 DEF Claims, Footprint, Op
  <2>2. \A s : ~ Left("init", w, s)
    <3>1. \A i \in 1 .. Len(w) : i = 1
      BY <1>3
    <3> QED
      BY <2>1, <3>1 DEF Left
  <2>3. \A s : ~ Left("init", ops, s)
    BY <2>1, NothingLeft
  <2>4. \A s : ~ Rest("init", w, s)
    BY <1>3 DEF Rest
  <2> QED
    BY <1>7, <2>2, <2>3, <2>4, LeftPush
<1>13. Building'
  BY <1>2, <1>9, <1>12 DEF Building, v, w
<1>14. Sends'
  <2>1. \A i \in 1 .. Len(v) : v[i].op # "send"
    <3>1. \A i \in 1 .. Len(w) : w[i].op = "send" => i = 1
      BY <1>1, <1>9 DEF Sends, w
    <3> QED
      BY <1>7, <1>8, <3>1, SendsKept
  <2> QED
    BY <1>7, <1>9, <2>1 DEF Sends, v
<1>15. Eofs'
  BY <1>2, <1>9 DEF Eofs
<1>16. Silent
  <2>1. w[1].op # "send" /\ \A i \in 1 .. Len(ops) : ops[i].op # "send"
    BY <1>3, <1>8 DEF Op
  <2> QED
    BY <1>1, <1>6, <1>9, <2>1, SilentStep DEF IInv, Core, w
<1> QED
  BY <1>11, <1>13, <1>14, <1>15, <1>16 DEF Life

LEMMA InitSuccessorsLife ==
  ASSUME IInv, IInv', Life, NEW s \in Stages, InitSuccessors(s)
  PROVE  Life' /\ Silent
<1> DEFINE ops == OpAll("init", Succ[s]) \o <<Op("initSelf", s)>>
           w == work["main"]
           v == work'["main"]
           n == Len(Succ[s])
<1>1. /\ Stacks /\ Fresh /\ "main" \in Threads /\ Succ[s] \in Seq(Stages) /\ "init" \in OpNames
      /\ Op("initSelf", s) \in Operation
  BY Names, SuccessorIsStage, OpIs DEF IInv, Core, OpNames
<1>2. /\ At("main", "init", s) /\ Proceed("main", ops)
      /\ status' = status /\ retVal' = retVal /\ eofs' = eofs /\ stored' = stored
  BY DEF InitSuccessors, buildVars, aggVars, ioVars
<1>3. OpsThen(ops, "init", Succ[s], Op("initSelf", s))
  BY <1>1, OpAllThen
<1> HIDE DEF ops
<1>4. /\ ops \in Seq(Operation) /\ Len(ops) = n + 1 /\ n \in Nat
      /\ \A i \in 1 .. n : ops[i] = Op("init", Succ[s][i])
      /\ ops[n + 1] = Op("initSelf", s) /\ DOMAIN Succ[s] = 1 .. n
  BY <1>1, <1>3 DEF OpsThen
<1>5. /\ Does("main", ops) /\ w[1] = Op("init", s) /\ w[1].op = "init" /\ w[1].stage = s
  BY <1>1, <1>2, <1>4, ProceedIs
<1>6. /\ Pushed(v, ops, w) /\ \A u \in Threads : u # "main" => work'[u] = work[u]
      /\ Len(w) \in Nat /\ Len(w) >= 1
  BY <1>5 DEF Does, Pushed
<1> HIDE DEF v, w, n
<1>7. ASSUME NEW i \in 1 .. Len(ops)
      PROVE  /\ ops[i].op \in {"init", "initSelf"}
             /\ Claims("init", ops[i]) = IF i = n + 1 THEN {s} ELSE Below(Succ[s][i])
             /\ i = n + 1 \/ i \in DOMAIN Succ[s]
  <2>1. CASE i = n + 1
    BY <1>4, <2>1 DEF Op, Claims, Footprint
  <2>2. CASE i \in 1 .. n
    <3>1. ops[i] = Op("init", Succ[s][i]) /\ i # n + 1 /\ i \in DOMAIN Succ[s]
      BY <1>4, <2>2
    <3> QED
      BY <3>1 DEF Op, Claims, Footprint
  <2> QED
    BY <1>4, <2>1, <2>2
<1>8. Claims("init", w[1]) = Below(s)
  BY <1>5 DEF Claims, Footprint, w
\* The same stages are left.
<1>9. ASSUME NEW r PROVE Left("init", v, r) <=> Left("init", w, r)
  <2>1. ASSUME Left("init", ops, r) PROVE r \in Below(s)
    <3>1. PICK i \in 1 .. Len(ops) : r \in Claims("init", ops[i])
      BY <2>1 DEF Left
    <3> QED
      BY <1>7, <3>1, Siblings, BelowBasics
  <2>2. ASSUME r \in Below(s) PROVE Left("init", ops, r)
    <3>1. CASE r = s
      <4>1. n + 1 \in 1 .. Len(ops) /\ r \in Claims("init", ops[n + 1])
        BY <1>4, <1>7, <3>1
      <4> QED
        BY <4>1 DEF Left
    <3>2. CASE r # s
      <4>1. PICK k \in DOMAIN Succ[s] : r \in Below(Succ[s][k])
        BY <2>2, <3>2, BelowSplit
      <4>2. k \in 1 .. Len(ops) /\ k # n + 1
        BY <1>4
      <4>3. r \in Claims("init", ops[k])
        BY <1>7, <4>1, <4>2
      <4> QED
        BY <4>2, <4>3 DEF Left
    <3> QED
      BY <3>1, <3>2
  <2>3. Left("init", v, r) <=> (Left("init", ops, r) \/ Rest("init", w, r))
    BY <1>6, LeftPush
  <2>4. Left("init", w, r) <=> (r \in Claims("init", w[1]) \/ Rest("init", w, r))
    BY <1>6, LeftHead
  <2> QED
    BY <1>8, <2>1, <2>2, <2>3, <2>4
<1>10. Building /\ Sends /\ Eofs
  BY DEF Life
<1>11. Runs(w) /\ \A r \in Stages : status[r] # "destroyed"
  BY <1>5, <1>6, RunsIs DEF w
<1>12. Phase'
  <2>1. Runs(v)
    BY <1>5, <1>6, <1>11, RunsKept DEF w
  <2> QED
    BY <1>2, <1>11, <2>1 DEF Phase, v, Runs
<1>13. Idle => Idle'
  <2> SUFFICES ASSUME Idle
               PROVE  /\ \A a \in Aggs : stored'[a] = 0
                      /\ \A u \in Threads : \A i \in 1 .. Len(work'[u]) : ~ Busy(work'[u][i])
    BY DEF Idle
  <2>1. \A i \in 1 .. Len(v) : ~ Busy(v[i])
    <3>1. \A i \in 1 .. Len(w) : ~ Busy(w[i])
      BY <1>1 DEF Idle, w
    <3>2. \A i \in 1 .. Len(ops) : ~ Busy(ops[i])
      BY <1>7 DEF Busy
    <3> QED
      BY <1>6, <3>1, <3>2, IdleKept
  <2> QED
    BY <1>2, <1>6, <2>1 DEF Idle, v
<1>14. Building'
  BY <1>2, <1>9, <1>10, <1>13 DEF Building, v, w
<1>15. Sends'
  <2>1. \A i \in 1 .. Len(v) : v[i].op # "send"
    <3>1. \A i \in 1 .. Len(w) : w[i].op = "send" => i = 1
      BY <1>1, <1>10 DEF Sends, w
    <3>2. \A i \in 1 .. Len(ops) : ops[i].op # "send"
      BY <1>7
    <3> QED
      BY <1>6, <3>1, <3>2, SendsKept
  <2> QED
    BY <1>6, <1>10, <2>1 DEF Sends, v
<1>16. Eofs'
  BY <1>2, <1>10 DEF Eofs
<1>17. Silent
  <2>1. w[1].op # "send" /\ \A i \in 1 .. Len(ops) : ops[i].op # "send"
    BY <1>5, <1>7 DEF w
  <2> QED
    BY <1>1, <1>5, <1>10, <2>1, SilentStep DEF IInv, Core, w
<1> QED
  BY <1>12, <1>14, <1>15, <1>16, <1>17 DEF Life

\* While nothing is on its way nothing is sent.
LEMMA IdleSilent ==
  ASSUME Stacks, Stacks', Idle, Idle'
  PROVE  Silent
<1> SUFFICES ASSUME NEW u \in Threads, NEW o
             PROVE  ~ At(u, "send", o) /\ ~ At(u, "send", o)'
  BY DEF Silent
<1>1. ~ At(u, "send", o)
  <2> SUFFICES ASSUME At(u, "send", o) PROVE FALSE
    OBVIOUS
  <2>1. 1 \in 1 .. Len(work[u]) /\ work[u][1].op = "send"
    BY AtIs
  <2> QED
    BY <2>1 DEF Idle, Busy
<1>2. ~ At(u, "send", o)'
  <2> SUFFICES ASSUME At(u, "send", o)' PROVE FALSE
    OBVIOUS
  <2>1. work'[u] \in Seq(Operation) /\ work'[u] # <<>> /\ Head(work'[u]) = Op("send", o)
    BY DEF At, Stacks
  <2>2. 1 \in 1 .. Len(work'[u]) /\ work'[u][1].op = "send"
    BY <2>1 DEF Op
  <2> QED
    BY <2>2 DEF Idle, Busy
<1> QED
  BY <1>1, <1>2

\* A stage is initialised, or its initialisation fails.
LEMMA InitSelfLife ==
  ASSUME IInv, IInv', Life, NEW s \in Stages, InitStage(s) \/ InitFails(s)
  PROVE  Life' /\ Silent
<1> DEFINE w == work["main"]
           v == work'["main"]
<1>1. /\ Stacks /\ Fresh /\ "main" \in Threads /\ At("main", "initSelf", s) /\ s # "main"
      /\ status \in [Stages -> {"constructed", "ready", "failed", "destroyed"}]
      /\ eofs' = eofs /\ stored' = stored /\ retVal \in BOOLEAN
  BY Names, StageAssumption DEF IInv, TypeOK, Core, InitStage, InitFails, aggVars, ioVars
<1>2. /\ w \in Seq(Operation) /\ w # <<>> /\ Len(w) \in Nat /\ Len(w) >= 1
      /\ w[1].op = "initSelf" /\ w[1].stage = s
  BY <1>1, AtIs
<1>3. PICK new \in {"ready", "failed"} :
        /\ \A r \in Stages : status'[r] = IF r = s THEN new ELSE status[r]
        /\ retVal' = (retVal \/ new = "failed")
  <2>1. CASE InitStage(s)
    <3>1. status' = [status EXCEPT ![s] = "ready"] /\ retVal' = retVal
      BY <2>1 DEF InitStage
    <3> QED
      BY <1>1, <3>1
  <2>2. CASE InitFails(s)
    <3>1. status' = [status EXCEPT ![s] = "failed"] /\ retVal' = TRUE
      BY <2>2 DEF InitFails
    <3> QED
      BY <1>1, <3>1
  <2> QED
    BY <2>1, <2>2
\* The stack of the main thread is popped, the new thread is in its loop.
<1>4. /\ v = <<>> \o Tail(w)
      /\ \A u \in Threads : u # "main" =>
           work'[u] = work[u] \/ work'[u] = <<>> \/ work'[u] = <<Op("loop", s)>>
  <2>1. CASE InitStage(s)
    <3>1. PICK timer \in (IF Kind[s] = "agg" THEN {<<>>, <<Op("loop", s)>>} ELSE {<<>>}) :
            work' = [t \in Threads |-> CASE t = "main" -> Tail(work[t])
                                        [] t = s      -> timer
                                        [] OTHER      -> work[t]]
      BY <2>1 DEF InitStage
    <3>2. v = Tail(w) /\ <<>> \o Tail(w) = Tail(w)
      BY <1>1, <1>2, <3>1
    <3>3. ASSUME NEW u \in Threads, u # "main"
          PROVE  work'[u] = work[u] \/ work'[u] = <<>> \/ work'[u] = <<Op("loop", s)>>
      BY <3>1, <3>3
    <3> QED
      BY <3>2, <3>3
  <2>2. CASE InitFails(s)
    <3>1. work' = [work EXCEPT !["main"] = <<>> \o Tail(w)]
      BY <2>2 DEF InitFails, Proceed
    <3> QED
      BY <1>1, <3>1 DEF Stacks
  <2> QED
    BY <2>1, <2>2
<1> DEFINE ops == <<>>
<1>5. Pushed(v, ops, w) /\ \A i \in 1 .. Len(ops) : FALSE
  BY <1>2, <1>4, PushIs, EmptyOps
<1> HIDE DEF v, w, ops
<1>6. /\ Claims("init", w[1]) = {s} /\ \A r : ~ Left("init", ops, r)
      /\ Apart("init", w)
  BY <1>1, <1>2, <1>5 DEF Claims, Footprint, Left, Apart, Fresh, w
<1>7. \A r : Left("init", v, r) <=> Left("init", w, r) /\ r # s
  BY <1>5, <1>6, LeftStep
<1>8. Building /\ Sends /\ Eofs
  BY DEF Life
<1>9. status[s] = "constructed"
  <2>1. 1 \in 1 .. Len(w) /\ s \in Claims("init", w[1])
    BY <1>2, <1>6
  <2> QED
    BY <1>8, <2>1 DEF Building, Left, w
<1>10. Idle
  BY <1>8, <1>9 DEF Building
<1>11. Runs(w) /\ \A r \in Stages : status[r] # "destroyed"
  BY <1>2, RunsIs DEF w
<1>12. Phase'
  <2>1. Runs(v)
    BY <1>2, <1>5, <1>11, RunsKept
  <2>2. \A r \in Stages : status'[r] # "destroyed"
    BY <1>3, <1>11
  <2> QED
    BY <2>1, <2>2 DEF Phase, v, Runs
<1>13. ASSUME NEW u \in Threads, u # "main", NEW i \in 1 .. Len(work'[u])
       PROVE  \/ work'[u] = work[u]
              \/ work'[u][i].op = "loop"
  <2>1. CASE work'[u] = work[u]
    BY <2>1
  <2>2. CASE work'[u] = <<>>
    BY <1>13, <2>2
  <2>3. CASE work'[u] = <<Op("loop", s)>>
    <3>1. i = 1
      BY <1>13, <2>3
    <3> QED
      BY <2>3, <3>1 DEF Op
  <2> QED
    BY <1>4, <1>13, <2>1, <2>2, <2>3
<1>14. Idle'
  <2>1. \A i \in 1 .. Len(v) : ~ Busy(v[i])
    <3>1. \A i \in 1 .. Len(w) : ~ Busy(w[i])
      BY <1>1, <1>10 DEF Idle, w
    <3> QED
      BY <1>5, <3>1, IdleKept
  <2>2. ASSUME NEW u \in Threads, u # "main", NEW i \in 1 .. Len(work'[u])
        PROVE  ~ Busy(work'[u][i])
    <3>1. CASE work'[u] = work[u]
      BY <1>10, <2>2, <3>1 DEF Idle
    <3>2. CASE work'[u][i].op = "loop"
      BY <3>2 DEF Busy
    <3> QED
      BY <1>13, <2>2, <3>1, <3>2
  <2> QED
    BY <1>1, <1>10, <2>1, <2>2 DEF Idle, v
<1>15. Building'
  <2>1. \A r \in Stages : Left("init", v, r) <=> status'[r] = "constructed"
    BY <1>3, <1>7, <1>8 DEF Building, w
  <2>2. ~ retVal' => \A r \in Stages : status'[r] # "failed"
    BY <1>3, <1>8 DEF Building
  <2> QED
    BY <1>14, <2>1, <2>2 DEF Building, v
<1>16. Sends'
  <2> SUFFICES ASSUME NEW u \in Threads, NEW i \in 1 .. Len(work'[u]), work'[u][i].op = "send"
               PROVE  i = 1 /\ work'[u][i].stage \in Selectors
    BY DEF Sends
  <2> QED
    BY <1>14 DEF Idle, Busy
<1>17. Eofs'
  BY <1>1, <1>3, <1>8, <1>11, <1>12 DEF Eofs, Selectors
<1>18. Silent
  BY <1>10, <1>14, IdleSilent DEF IInv, Core
<1> QED
  BY <1>12, <1>15, <1>16, <1>17, <1>18 DEF Life

-----------------------------------------------------------------------------
(* The invariant holds.                                                    *)

LEMMA InitLife ==
  ASSUME Init
  PROVE  Life
<1> DEFINE w == OpAll("init", Root) \o <<Op("processing", NoStage)>>
           n == Len(Root)
<1>1. /\ work["main"] = w /\ \A a \in Aggs : work[a] = <<>>
      /\ \A s \in Stages : status[s] = "constructed"
      /\ ~ retVal /\ \A a \in Aggs : stored[a] = 0
      /\ \A s \in Selectors : eofs[s] = 0
  BY Names DEF Init, Do, Op
<1>2. Root \in Seq(Stages) /\ "init" \in OpNames /\ Op("processing", NoStage) \in Operation
  BY StageAssumption, OpIs DEF OpNames
<1>3. OpsThen(w, "init", Root, Op("processing", NoStage))
  BY <1>2, OpAllThen
<1> HIDE DEF w
<1>4. /\ Len(w) = n + 1 /\ n \in Nat /\ DOMAIN Root = 1 .. n
      /\ \A i \in 1 .. n : w[i] = Op("init", Root[i])
      /\ w[n + 1] = Op("processing", NoStage)
  BY <1>2, <1>3 DEF OpsThen
<1> HIDE DEF n
<1>5. ASSUME NEW i \in 1 .. Len(w) PROVE w[i].op \in {"init", "processing"}
  <2>1. i \in 1 .. n \/ i = n + 1
    BY <1>4
  <2>2. \A r : Op("init", r).op = "init" /\ Op("processing", r).op = "processing"
    BY DEF Op
  <2> QED
    BY <1>4, <2>1, <2>2
<1>6. ASSUME NEW t \in Threads, NEW i \in 1 .. Len(work[t])
      PROVE  ~ Busy(work[t][i]) /\ work[t][i].op # "send"
  <2>1. CASE t = "main"
    BY <1>1, <1>5, <2>1 DEF Busy
  <2>2. CASE t # "main"
    <3>1. work[t] = <<>>
      BY <1>1, <2>2, Names
    <3> QED
      BY <3>1
  <2> QED
    BY <2>1, <2>2
<1>7. Idle
  BY <1>1, <1>6 DEF Idle
<1>8. \A s \in Stages : Left("init", w, s)
  <2> SUFFICES ASSUME NEW s \in Stages
               PROVE  Left("init", w, s)
    OBVIOUS
  <2>1. PICK i \in DOMAIN Root : s \in Below(Root[i])
    BY TreeAssumption
  <2>2. i \in 1 .. Len(w) /\ w[i] = Op("init", Root[i])
    BY <1>4
  <2>3. s \in Claims("init", w[i])
    BY <2>1, <2>2 DEF Claims, Footprint, Op
  <2> QED
    BY <2>2, <2>3 DEF Left
<1>9. Building
  BY <1>1, <1>7, <1>8 DEF Building
<1>10. Phase
  <2>1. Len(w) >= 1 /\ w[Len(w)] = Op("processing", NoStage)
    BY <1>4
  <2> QED
    BY <1>1, <2>1 DEF Phase, Runs, Op
<1>11. Sends
  BY <1>6 DEF Sends
<1>12. Eofs
  BY <1>1 DEF Eofs, Selectors
<1> QED
  BY <1>9, <1>10, <1>11, <1>12 DEF Life

LEMMA EvaluateLife ==
  ASSUME IInv, IInv', Life, NEW t \in Threads, Evaluate(t)
  PROVE  /\ Life'
         /\ Silent \/ \E s \in Stages : EvalSelector(t, s) \/ SendOutput(t, s)
<1>1. PICK s \in Stages :
        \/ EvalFilter(t, s) \/ EvalAgg(t, s) \/ EvalSelector(t, s) \/ SendOutput(t, s)
        \/ LockStorage(t, s) \/ UnlockStorage(t, s)
  BY DEF Evaluate
<1>2. CASE EvalFilter(t, s)
  BY <1>2, EvalLife
<1>5. CASE EvalSelector(t, s)
  BY <1>5, EvalLife
<1>3. CASE EvalAgg(t, s)
  BY <1>3, AggEvalLife
<1>4. CASE SendOutput(t, s) \/ LockStorage(t, s) \/ UnlockStorage(t, s)
  BY <1>4, PopsLife
<1> QED
  BY <1>1, <1>2, <1>3, <1>4, <1>5

LEMMA LifeStep ==
  ASSUME IInv, IInv', Life, [Next]_vars
  PROVE  /\ Life'
         /\ Silent \/ \E t \in Threads, s \in Stages : EvalSelector(t, s) \/ SendOutput(t, s)
<1>0. "main" \in Threads /\ Aggs \subseteq Stages /\ Aggs \subseteq Threads
  BY Names
<1>1. CASE Build
  BY <1>1, InitSuccessorsLife, InitSelfLife DEF Build
<1>2. CASE BuildFailed \/ LeaveLoop
  BY <1>2, LeaveLife
<1>3. CASE ReceiveRecord
  BY <1>3, ReceiveLife
<1>4. CASE my_signal_handler \/ UNCHANGED vars
  <2>1. /\ work' = work /\ status' = status /\ retVal' = retVal
        /\ stored' = stored /\ eofs' = eofs
    BY <1>4 DEF my_signal_handler, vars, buildVars, aggVars, ioVars
  <2>2. Idle' <=> Idle
    BY <2>1 DEF Idle
  <2>3. Building'
    BY <2>1, <2>2 DEF Life, Building
  <2>4. Phase'
    BY <2>1 DEF Life, Phase, Closing, Runs
  <2>5. Sends' /\ Eofs'
    BY <2>1 DEF Life, Sends, Eofs
  <2>6. Silent
    BY <2>1 DEF Silent, At
  <2> QED
    BY <2>3, <2>4, <2>5, <2>6 DEF Life
<1>5. CASE Evaluate("main")
  BY <1>0, <1>5, EvaluateLife
<1>6. CASE Store
  BY <1>6, StoreLife DEF Store
<1>7. CASE Destroy
  <2>1. CASE \E s \in Stages : DestroyStage(s) \/ DeleteStage(s)
    BY <2>1, DestroyLife, DeleteLife
  <2>2. CASE \E a \in Aggs : SetStop(a) \/ JoinTimeoutThread(a) \/ FlushEnds(a)
    BY <1>0, <2>2, PopsLife
  <2>3. CASE \E a \in Aggs : SendOne("main", a, "flush")
    BY <1>0, <2>3, SendOneLife
  <2> QED
    BY <1>7, <2>1, <2>2, <2>3 DEF Destroy
<1>8. CASE \E a \in Aggs : check_timeouts(a)
  <2> SUFFICES ASSUME NEW a \in Aggs, check_timeouts(a)
               PROVE  /\ Life'
                      /\ \/ Silent
                         \/ \E t \in Threads, s \in Stages : EvalSelector(t, s) \/ SendOutput(t, s)
    BY <1>8
  <2>1. CASE TimerLoop(a) \/ WakeUp(a)
    BY <2>1, TimerLife
  <2>2. CASE SendOne(a, a, "sweep")
    BY <1>0, <2>2, SendOneLife
  <2>3. CASE SweepEnds(a)
    BY <1>0, <2>3, PopsLife
  <2>4. CASE Evaluate(a)
    BY <1>0, <2>4, EvaluateLife
  <2> QED
    BY <2>1, <2>2, <2>3, <2>4 DEF check_timeouts
<1> QED
  BY <1>1, <1>2, <1>3, <1>4, <1>5, <1>6, <1>7, <1>8 DEF Next

LEMMA LifeHolds == Spec => [](IInv /\ Life)
<1>1. Init => IInv /\ Life
  BY InitInvariant, InitLife
<1>2. IInv /\ Life /\ [Next]_vars => (IInv /\ Life)'
  BY InvariantStep, LifeStep
<1> QED
  BY <1>1, <1>2, PTL DEF Spec

-----------------------------------------------------------------------------
(* The theorems.                                                           *)

\* What a feeds is deleted only after the join and the flush of a.
LEMMA FedNotDeleted ==
  ASSUME Closing(work["main"]), NEW a \in Aggs, NEW s \in Stages, Feeds(a, s),
         NEW name \in {"join", "flush"}, Coming(work["main"], name, a)
  PROVE  status[s] # "destroyed"
<1> DEFINE w == work["main"]
<1>0. a \in Stages
  BY Names
<1>1. PICK i \in 1 .. Len(w) : \/ w[i] = Op(name, a)
                               \/ w[i].op = "destroy" /\ a \in Below(w[i].stage)
  BY DEF Coming
<1> HIDE DEF w
<1>2. SuccLater(w) /\ (status[s] = "destroyed" <=> ~ Left("delete", w, s))
  BY DEF Closing, w
<1>3. CASE w[i] = Op(name, a)
  <2>1. w[i].op = name /\ w[i].stage = a
    BY <1>3 DEF Op
  <2>2. PICK k \in DOMAIN Succ[a] : s \in Below(Succ[a][k])
    BY <1>0, BelowSplit DEF Feeds
  <2>3. PICK l \in i + 1 .. Len(w) : w[l] = Op("destroy", Succ[a][k])
    BY <1>2, <2>1 DEF SuccLater
  <2>4. l \in 1 .. Len(w) /\ s \in Claims("delete", w[l])
    <3>1. l \in 1 .. Len(w)
      BY <1>1, <2>3
    <3> QED
      BY <2>2, <2>3, <3>1 DEF Claims, Doomed, Op
  <2> QED
    BY <1>2, <2>4 DEF Left
<1>4. CASE w[i].op = "destroy" /\ a \in Below(w[i].stage)
  <2>1. s \in Below(w[i].stage)
    BY <1>4 DEF Feeds, Below
  <2>2. s \in Claims("delete", w[i])
    BY <1>4, <2>1 DEF Claims, Doomed
  <2> QED
    BY <1>1, <1>2, <2>2 DEF Left
<1> QED
  BY <1>1, <1>3, <1>4

LEMMA LiveInvariant ==
  ASSUME IInv, Life
  PROVE  OnlyLiveStagesEvaluate
<1> SUFFICES ASSUME NEW t \in Threads, NEW s \in Stages, Evaluating(t, s)
             PROVE  status[s] = "ready"
  BY DEF OnlyLiveStagesEvaluate
<1>1. /\ Stacks /\ Building /\ Phase
      /\ status[s] \in {"constructed", "ready", "failed", "destroyed"}
  BY DEF IInv, Core, TypeOK, Life
<1> DEFINE w == work[t]
<1>2. /\ Shape(t, w) /\ MayDo(t, w[1]) /\ Len(w) \in Nat /\ 1 \in 1 .. Len(w) /\ w # <<>>
      /\ w[1].op \in {"eval", "send"} /\ w[1].stage = s
  <2>1. PICK name \in {"eval", "send"} : At(t, name, s)
    BY DEF Evaluating
  <2> QED
    BY <1>1, <2>1, AtIs
<1>3. ~ Idle
  BY <1>2 DEF Idle, Busy
<1>4. status[s] # "constructed" /\ status[s] # "failed"
  BY <1>1, <1>3 DEF Building
<1>5. ASSUME Closing(work["main"]) PROVE status[s] # "destroyed"
\* The main thread is in the flush of an aggregator.
  <2>1. CASE t = "main"
    <3>0. Ends(w)
      BY <1>5, <2>1 DEF Closing
    <3>1. PICK a \in Aggs : OwnedBy(w[1], a)
      BY <1>2, <3>0 DEF Ends, Ending, Owned
    <3>2. PICK j \in 2 .. Len(w) : w[j].op \in {"unlock", "sweep", "flush"} /\ w[j].stage = a
      BY <1>2, <3>1 DEF Shape, OwnedPrefix
    <3>3. j \in 1 .. Len(w) /\ w[j] \in Operation
      BY <1>2 DEF Shape
    <3>4. w[j] = Op("flush", a)
      <4>1. w[j].op = "flush"
        BY <3>0, <3>2, <3>3 DEF Ends, Ending, Owned, OwnedBy
      <4> QED
        BY <3>2, <3>3, <4>1 DEF Op, Operation
    <3>5. Coming(work["main"], "flush", a) /\ Feeds(a, s)
      BY <1>2, <2>1, <3>1, <3>3, <3>4 DEF Coming, OwnedBy
    <3> QED
      BY <1>5, <3>5, FedNotDeleted
\* The thread of an aggregator is joined before what it feeds is deleted.
  <2>2. CASE t # "main"
    <3>1. t \in Aggs /\ Feeds(t, s)
      BY <1>2, <2>2, Names DEF MayDo, OwnedBy
    <3>2. Coming(work["main"], "join", t)
      BY <1>2, <1>5, <3>1 DEF Closing
    <3> QED
      BY <1>5, <3>1, <3>2, FedNotDeleted
  <2> QED
    BY <2>1, <2>2
<1>6. status[s] # "destroyed"
  BY <1>1, <1>5 DEF Phase
<1> QED
  BY <1>1, <1>4, <1>6

\* For every tree of stages: no record is pushed into a stage that is not initialised
\* yet, whose initialisation has failed, or that is already deleted, neither by the main
\* loop, nor by a timeout thread, nor by the flush of a destructor.
THEOREM OnlyLiveStagesEvaluateTheorem == Spec => []OnlyLiveStagesEvaluate
<1>1. IInv /\ Life => OnlyLiveStagesEvaluate
  BY LiveInvariant
<1> QED
  BY <1>1, LifeHolds, PTL

\* For every tree of stages: when the program ends, after a failed build too, each output
\* interface has got one end of stream and no aggregate is left in a storage.
THEOREM OutputsCompleteTheorem == Spec => []OutputsComplete
<1>1. ASSUME IInv, Life
      PROVE  OutputsComplete
  <2> SUFFICES ASSUME work["main"] = <<>>
               PROVE  /\ \A s \in Selectors : eofs[s] = 1
                      /\ \A a \in Aggs : stored[a] = 0
    BY DEF OutputsComplete, Finished
  <2>1. \A i \in 1 .. Len(work["main"]) : FALSE
    OBVIOUS
  <2>2. Closing(work["main"])
    <3>1. ~ Runs(work["main"])
      BY DEF Runs
    <3> QED
      BY <1>1, <3>1 DEF Life, Phase
  <2>3. \A s \in Stages : status[s] = "destroyed"
    BY <2>1, <2>2 DEF Closing, Left
  <2>4. \A s \in Selectors : eofs[s] = 1
    BY <1>1, <2>3 DEF Life, Eofs, Selectors
  <2>5. \A a \in Aggs : stored[a] = 0
    BY <2>1, <2>2 DEF Closing, Coming
  <2> QED
    BY <2>4, <2>5
<1>2. IInv /\ Life => OutputsComplete
  BY <1>1
<1> QED
  BY <1>2, LifeHolds, PTL

-----------------------------------------------------------------------------
(* The output streams.                                                     *)

\* Thread t is sending to s, by its stack in w; who is sending to s; what the
\* receiver of s sees, by the status st.
SendsIn(w, t, s) == w[t] # <<>> /\ Head(w[t]) = Op("send", s)
WriterIn(w, s)   == IF \E t \in Threads : SendsIn(w, t, s)
                    THEN CHOOSE t \in Threads : SendsIn(w, t, s) ELSE NoStage
StreamIn(st, s)  == CASE st[s] = "ready"     -> "open"
                      [] st[s] = "destroyed" -> "closed"
                      [] OTHER               -> "new"

WriterOf == [s \in Selectors |-> WriterIn(work, s)]
StreamOf == [s \in Selectors |-> StreamIn(status, s)]

LEMMA MappingIs ==
  /\ Streams!Init <=> /\ StreamOf = [o \in Selectors |-> "new"]
                      /\ WriterOf = [o \in Selectors |-> NoStage]
  /\ \A o : Streams!Open(o) <=> /\ StreamOf[o] = "new" /\ WriterOf' = WriterOf
                                /\ StreamOf' = [StreamOf EXCEPT ![o] = "open"]
  /\ \A o : Streams!Close(o) <=> /\ StreamOf[o] # "closed" /\ WriterOf[o] = NoStage
                                 /\ WriterOf' = WriterOf
                                 /\ StreamOf' = [StreamOf EXCEPT ![o] = "closed"]
  /\ \A o, t : Streams!BeginMessage(o, t) <=> /\ StreamOf[o] = "open" /\ WriterOf[o] = NoStage
                                              /\ StreamOf' = StreamOf
                                              /\ WriterOf' = [WriterOf EXCEPT ![o] = t]
  /\ \A o : Streams!EndMessage(o) <=> /\ WriterOf[o] # NoStage /\ StreamOf' = StreamOf
                                      /\ WriterOf' = [WriterOf EXCEPT ![o] = NoStage]
  /\ UNCHANGED (Streams!vars) <=> StreamOf' = StreamOf /\ WriterOf' = WriterOf
BY DEF Streams!Init, Streams!Open, Streams!Close, Streams!BeginMessage, Streams!EndMessage,
       Streams!vars, WriterOf, StreamOf, WriterIn, StreamIn, SendsIn, At

\* The writer is the one thread that sends.
LEMMA WriterIs ==
  ASSUME NEW w, NEW s
  PROVE  /\ \A t \in Threads : SendsIn(w, t, s) /\ (\A u \in Threads : SendsIn(w, u, s) => u = t)
                               => WriterIn(w, s) = t
         /\ (\A u \in Threads : ~ SendsIn(w, u, s)) => WriterIn(w, s) = NoStage
<1>1. ASSUME NEW t \in Threads, SendsIn(w, t, s), \A u \in Threads : SendsIn(w, u, s) => u = t
      PROVE  WriterIn(w, s) = t
  <2> DEFINE P(u) == SendsIn(w, u, s)
  <2>1. \E u \in Threads : P(u)
    BY <1>1
  <2>2. (CHOOSE u \in Threads : P(u)) \in Threads /\ P(CHOOSE u \in Threads : P(u))
    <3> HIDE DEF P
    <3> QED
      BY <2>1
  <2> QED
    BY <1>1, <2>1, <2>2 DEF WriterIn
<1>2. ASSUME \A u \in Threads : ~ SendsIn(w, u, s)
      PROVE  WriterIn(w, s) = NoStage
  BY <1>2 DEF WriterIn
<1> QED
  BY <1>1, <1>2

LEMMA SameWriter ==
  ASSUME NEW w, NEW v, NEW s,
         \A t, u \in Threads : SendsIn(w, t, s) /\ SendsIn(w, u, s) => t = u,
         \A u \in Threads : SendsIn(v, u, s) <=> SendsIn(w, u, s)
  PROVE  WriterIn(v, s) = WriterIn(w, s)
<1>1. CASE \E t \in Threads : SendsIn(w, t, s)
  <2>1. PICK t \in Threads : SendsIn(w, t, s)
    BY <1>1
  <2>2. WriterIn(w, s) = t
    BY <2>1, WriterIs
  <2>3. WriterIn(v, s) = t
    BY <2>1, WriterIs
  <2> QED
    BY <2>2, <2>3
<1>2. CASE \A t \in Threads : ~ SendsIn(w, t, s)
  BY <1>2, WriterIs
<1> QED
  BY <1>1, <1>2

LEMMA OneSender ==
  ASSUME OneThreadPerStage, NEW s \in Stages, NEW t \in Threads, NEW u \in Threads,
         At(t, "send", s) \/ At(t, "eval", s), SendsIn(work, u, s)
  PROVE  t = u
BY DEF OneThreadPerStage, Evaluating, SendsIn, At

\* A selector begins to send; it has sent.
LEMMA BeginsSending ==
  ASSUME Stacks, NEW t \in Threads, NEW s \in Stages, EvalSelector(t, s)
  PROVE  /\ \A o : ~ SendsIn(work, t, o)
         /\ \A u \in Threads : \A o : SendsIn(work', u, o) <=> IF u = t THEN o = s
                                                          ELSE SendsIn(work, u, o)
<1>1. At(t, "eval", s) /\ work' = [work EXCEPT ![t] = <<Op("send", s)>> \o Tail(work[t])]
  BY DEF EvalSelector, Proceed
<1>2. work[t] \in Seq(Operation) /\ work[t] # <<>> /\ work[t][1].op = "eval"
  BY <1>1, AtIs
<1> DEFINE x == Op("send", s)
           r == Tail(work[t])
           v == <<x>> \o r
<1>3. r \in Seq(Operation)
  BY <1>2
<1>4. x \in Operation
  BY OpIs DEF OpNames
<1>5. v # <<>> /\ Head(v) = x
  <2> HIDE DEF x, r
  <2> QED
    BY <1>3, <1>4
<1> HIDE DEF v
<1>6. work'[t] = v /\ \A u \in Threads : u # t => work'[u] = work[u]
  BY <1>1 DEF Stacks, v
<1>7. ASSUME NEW o PROVE ~ SendsIn(work, t, o)
  <2> SUFFICES ASSUME SendsIn(work, t, o) PROVE FALSE
    OBVIOUS
  <2>1. Head(work[t]) = Op("send", o) /\ Head(work[t]) = work[t][1]
    BY <1>2 DEF SendsIn
  <2> QED
    BY <1>2, <2>1 DEF Op
<1>8. ASSUME NEW o PROVE SendsIn(work', t, o) <=> o = s
  <2>1. SendsIn(work', t, o) <=> Op("send", s) = Op("send", o)
    BY <1>5, <1>6 DEF SendsIn
  <2>2. Op("send", s).stage = s /\ Op("send", o).stage = o
    BY DEF Op
  <2> QED
    BY <2>1, <2>2
<1>9. ASSUME NEW u \in Threads, NEW o, u # t PROVE SendsIn(work', u, o) <=> SendsIn(work, u, o)
  BY <1>6, <1>9 DEF SendsIn
<1> QED
  BY <1>7, <1>8, <1>9

LEMMA EndsSending ==
  ASSUME Stacks, Sends, NEW t \in Threads, NEW s \in Stages, SendOutput(t, s)
  PROVE  /\ s \in Selectors
         /\ \A o : SendsIn(work, t, o) <=> o = s
         /\ \A u \in Threads : \A o : SendsIn(work', u, o) <=> u # t /\ SendsIn(work, u, o)
<1>1. At(t, "send", s) /\ work' = [work EXCEPT ![t] = <<>> \o Tail(work[t])]
  BY DEF SendOutput, Proceed
<1> DEFINE w == work[t]
           v == <<>> \o Tail(w)
<1>2. w \in Seq(Operation) /\ w # <<>> /\ w[1] = Op("send", s) /\ Len(w) \in Nat /\ Len(w) >= 1
  BY <1>1, AtIs
<1>3. \A i \in 1 .. Len(w) : w[i].op = "send" => i = 1 /\ w[i].stage \in Selectors
  BY DEF Sends
<1>4. work'[t] = v /\ \A u \in Threads : u # t => work'[u] = work[u]
  BY <1>1 DEF Stacks
<1> HIDE DEF w
<1>5. s \in Selectors
  BY <1>2, <1>3 DEF Op
<1>6. ASSUME NEW o PROVE SendsIn(work, t, o) <=> o = s
  <2>1. SendsIn(work, t, o) <=> Op("send", s) = Op("send", o)
    BY <1>2 DEF SendsIn, w
  <2>2. Op("send", s).stage = s /\ Op("send", o).stage = o
    BY DEF Op
  <2> QED
    BY <2>1, <2>2
<1>7. ASSUME NEW o PROVE ~ SendsIn(work', t, o)
  <2> SUFFICES ASSUME v # <<>>, Head(v) = Op("send", o) PROVE FALSE
    BY <1>4 DEF SendsIn
  <2>1. v = Tail(w) /\ Tail(w) \in Seq(Operation) /\ Len(Tail(w)) = Len(w) - 1
    BY <1>2
  <2>2. Len(w) >= 2 /\ Head(v) = w[2]
    BY <1>2, <2>1
  <2>3. w[2].op = "send" /\ 2 \in 1 .. Len(w)
    BY <1>2, <2>2 DEF Op
  <2> QED
    BY <1>3, <2>3
<1>8. ASSUME NEW u \in Threads, NEW o, u # t PROVE SendsIn(work', u, o) <=> SendsIn(work, u, o)
  BY <1>4, <1>8 DEF SendsIn
<1> QED
  BY <1>5, <1>6, <1>7, <1>8

\* A stage changes its status when it is initialised and when it is deleted.
LEMMA StatusStep ==
  ASSUME [Next]_vars
  PROVE  \/ status' = status
         \/ \E s \in Stages : InitStage(s) \/ InitFails(s) \/ DeleteStage(s)
<1>1. CASE UNCHANGED vars
  BY <1>1 DEF vars
<1>2. CASE Build
  <2>1. ASSUME NEW s \in Stages, InitSuccessors(s) PROVE status' = status
    BY <2>1 DEF InitSuccessors, buildVars
  <2> QED
    BY <1>2, <2>1 DEF Build
<1>3. CASE BuildFailed \/ ReceiveRecord \/ LeaveLoop \/ my_signal_handler
  BY <1>3 DEF BuildFailed, ReceiveRecord, LeaveLoop, my_signal_handler, buildVars
<1>4. ASSUME NEW t \in Threads, Evaluate(t) PROVE status' = status
  BY <1>4 DEF Evaluate, EvalFilter, EvalAgg, EvalSelector, SendOutput, LockStorage, UnlockStorage,
              buildVars
<1>5. CASE Store
  BY <1>5 DEF Store, StoreNew, StoreExisting, buildVars
<1>6. ASSUME NEW t, NEW a, NEW name, SendOne(t, a, name) PROVE status' = status
  BY <1>6 DEF SendOne, buildVars
<1>7. CASE Destroy
  <2>1. ASSUME NEW s \in Stages, DestroyStage(s) PROVE status' = status
    BY <2>1 DEF DestroyStage, buildVars
  <2>2. ASSUME NEW a \in Aggs, SetStop(a) \/ JoinTimeoutThread(a) \/ FlushEnds(a)
        PROVE  status' = status
    BY <2>2 DEF SetStop, JoinTimeoutThread, FlushEnds, buildVars
  <2> QED
    BY <1>6, <1>7, <2>1, <2>2 DEF Destroy
<1>8. ASSUME NEW a \in Aggs, check_timeouts(a) PROVE status' = status
  <2>1. CASE TimerLoop(a) \/ SweepEnds(a) \/ WakeUp(a)
    BY <2>1 DEF TimerLoop, SweepEnds, WakeUp, buildVars
  <2> QED
    BY <1>4, <1>6, <1>8, <2>1, Names DEF check_timeouts
<1> QED
  BY <1>1, <1>2, <1>3, <1>4, <1>5, <1>7, <1>8, Names DEF Next

\* What a change of the status of s means to its receiver.
LEMMA StreamChange ==
  ASSUME NEW s \in Selectors, NEW new,
         status \in [Stages -> {"constructed", "ready", "failed", "destroyed"}],
         status' = [status EXCEPT ![s] = new]
  PROVE  StreamOf' = [StreamOf EXCEPT ![s] = CASE new = "ready"     -> "open"
                                               [] new = "destroyed" -> "closed"
                                               [] OTHER             -> "new"]
<1>1. \A o \in Selectors : status'[o] = IF o = s THEN new ELSE status[o]
  BY DEF Selectors
<1> QED
  BY <1>1 DEF StreamOf, StreamIn

\* Only selectors have a receiver.
LEMMA NoStreamChange ==
  ASSUME status \in [Stages -> {"constructed", "ready", "failed", "destroyed"}],
         NEW s \in Stages, s \notin Selectors, NEW new, status' = [status EXCEPT ![s] = new]
  PROVE  StreamOf' = StreamOf
<1>1. \A o \in Selectors : status'[o] = status[o]
  BY DEF Selectors
<1> QED
  BY <1>1 DEF StreamOf, StreamIn

LEMMA WriterKept ==
  ASSUME OneThreadPerStage, Silent
  PROVE  WriterOf' = WriterOf
<1> SUFFICES ASSUME NEW s \in Selectors
             PROVE  WriterIn(work', s) = WriterIn(work, s)
  BY DEF WriterOf
<1>1. \A u \in Threads : SendsIn(work', u, s) <=> SendsIn(work, u, s)
  BY DEF Silent, At, SendsIn
<1>2. \A t, u \in Threads : SendsIn(work, t, s) /\ SendsIn(work, u, s) => t = u
  BY DEF OneThreadPerStage, Evaluating, SendsIn, At, Selectors
<1> QED
  BY <1>1, <1>2, SameWriter

\* The initialisation of a selector opens its stream.
LEMMA InitStreams ==
  ASSUME IInv, Life, NEW s \in Stages, InitStage(s) \/ InitFails(s), WriterOf' = WriterOf
  PROVE  [Streams!Next]_(Streams!vars)
<1>1. /\ Stacks /\ "main" \in Threads /\ At("main", "initSelf", s)
      /\ status \in [Stages -> {"constructed", "ready", "failed", "destroyed"}]
  BY Names DEF IInv, TypeOK, Core, InitStage, InitFails
<1>2. status[s] = "constructed"
  <2> DEFINE w == work["main"]
  <2>1. w[1].op = "initSelf" /\ w[1].stage = s /\ 1 \in 1 .. Len(w)
    BY <1>1, AtIs
  <2> HIDE DEF w
  <2>2. s \in Claims("init", w[1])
    BY <2>1 DEF Claims, Footprint
  <2>3. Left("init", w, s)
    BY <2>1, <2>2 DEF Left
  <2> QED
    BY <2>3 DEF Life, Building, w
<1>3. PICK new \in {"ready", "failed"} : status' = [status EXCEPT ![s] = new]
  BY DEF InitStage, InitFails
<1>4. CASE s \notin Selectors
  BY <1>1, <1>3, <1>4, NoStreamChange, MappingIs
<1>5. CASE s \in Selectors
  <2>1. StreamOf[s] = "new" /\ StreamOf = [StreamOf EXCEPT ![s] = "new"]
    BY <1>2, <1>5 DEF StreamOf, StreamIn
  <2>2. CASE new = "ready"
    <3>1. StreamOf' = [StreamOf EXCEPT ![s] = "open"]
      BY <1>1, <1>3, <1>5, <2>2, StreamChange
    <3>2. Streams!Open(s)
      BY <2>1, <3>1, MappingIs
    <3> QED
      BY <1>5, <3>2 DEF Streams!Next
  <2>3. CASE new = "failed"
    <3>1. StreamOf' = [StreamOf EXCEPT ![s] = "new"]
      BY <1>1, <1>3, <1>5, <2>3, StreamChange
    <3> QED
      BY <2>1, <3>1, MappingIs
  <2> QED
    BY <1>3, <2>2, <2>3
<1> QED
  BY <1>4, <1>5

\* Its destructor closes the stream, and nobody is writing.
LEMMA DeleteStreams ==
  ASSUME IInv, Life, NEW s \in Stages, DeleteStage(s), Silent, WriterOf' = WriterOf,
         OnlyLiveStagesEvaluate'
  PROVE  [Streams!Next]_(Streams!vars)
<1>1. /\ Stacks /\ status \in [Stages -> {"constructed", "ready", "failed", "destroyed"}]
      /\ status' = [status EXCEPT ![s] = "destroyed"]
  BY DEF IInv, Core, TypeOK, DeleteStage
<1>2. CASE s \notin Selectors
  BY <1>1, <1>2, NoStreamChange, MappingIs
<1>3. CASE s \in Selectors
  <2>1. StreamOf' = [StreamOf EXCEPT ![s] = "closed"]
    BY <1>1, <1>3, StreamChange
  <2>2. StreamOf[s] # "closed"
    <3> DEFINE w == work["main"]
    <3>1. /\ Closing(w) /\ w[1].op = "delete" /\ w[1].stage = s
      BY DeleteIs
    <3>2. 1 \in 1 .. Len(w)
      <4>1. At("main", "delete", s) /\ "main" \in Threads
        BY Names DEF DeleteStage
      <4> QED
        BY <1>1, <4>1, AtIs
    <3> HIDE DEF w
    <3>3. Left("delete", w, s)
      <4>1. s \in Claims("delete", w[1])
        BY <3>1 DEF Claims, Doomed
      <4> QED
        BY <3>2, <4>1 DEF Left
    <3>4. status[s] # "destroyed"
      BY <3>1, <3>3 DEF Closing
    <3> QED
      BY <1>3, <3>4 DEF StreamOf, StreamIn
  <2>3. ASSUME NEW u \in Threads PROVE ~ SendsIn(work, u, s)
    <3> SUFFICES ASSUME SendsIn(work, u, s) PROVE FALSE
      OBVIOUS
    <3>1. At(u, "send", s)'
      BY DEF Silent, SendsIn, At
    <3>2. status'[s] = "ready"
      BY <3>1 DEF OnlyLiveStagesEvaluate, Evaluating
    <3> QED
      BY <1>1, <3>2
  <2>4. WriterOf[s] = NoStage
    BY <1>3, <2>3, WriterIs DEF WriterOf
  <2>5. Streams!Close(s)
    BY <2>1, <2>2, <2>4, MappingIs
  <2> QED
    BY <1>3, <2>5 DEF Streams!Next
<1> QED
  BY <1>2, <1>3

\* A selector that is evaluated begins a message.
LEMMA BeginStreams ==
  ASSUME IInv, NEW t \in Threads, NEW s \in Stages, EvalSelector(t, s),
         OnlyLiveStagesEvaluate, OneThreadPerStage, OneThreadPerStage'
  PROVE  [Streams!Next]_(Streams!vars)
<1>1. /\ Stacks /\ At(t, "eval", s) /\ s \in Selectors /\ status' = status
  BY DEF IInv, Core, EvalSelector, Selectors, buildVars
<1>2. /\ \A o : ~ SendsIn(work, t, o)
      /\ \A u \in Threads : \A o : SendsIn(work', u, o) <=> IF u = t THEN o = s ELSE SendsIn(work, u, o)
  BY <1>1, BeginsSending
<1>3. \A u \in Threads : ~ SendsIn(work, u, s)
  BY <1>1, <1>2, OneSender
<1>4. StreamOf[s] = "open" /\ StreamOf' = StreamOf
  <2>1. status[s] = "ready"
    BY <1>1 DEF OnlyLiveStagesEvaluate, Evaluating
  <2> QED
    BY <1>1, <2>1 DEF StreamOf, StreamIn
<1>5. WriterOf[s] = NoStage
  BY <1>1, <1>3, WriterIs DEF WriterOf
<1>6. WriterIn(work', s) = t
  <2>1. SendsIn(work', t, s) /\ \A u \in Threads : SendsIn(work', u, s) => u = t
    BY <1>2, <1>3
  <2> QED
    BY <2>1, WriterIs
<1>7. ASSUME NEW o \in Selectors, o # s PROVE WriterIn(work', o) = WriterIn(work, o)
  <2>1. \A u \in Threads : SendsIn(work', u, o) <=> SendsIn(work, u, o)
    BY <1>2, <1>7
  <2>2. \A u, r \in Threads : SendsIn(work, u, o) /\ SendsIn(work, r, o) => u = r
    BY DEF OneThreadPerStage, Evaluating, SendsIn, At, Selectors
  <2> QED
    BY <2>1, <2>2, SameWriter
<1>8. WriterOf' = [WriterOf EXCEPT ![s] = t]
  BY <1>6, <1>7 DEF WriterOf
<1>9. Streams!BeginMessage(s, t)
  BY <1>4, <1>5, <1>8, MappingIs
<1> QED
  BY <1>1, <1>9 DEF Streams!Next

\* trap_send returns and the message is written.
LEMMA EndStreams ==
  ASSUME IInv, Life, NEW t \in Threads, NEW s \in Stages, SendOutput(t, s), OneThreadPerStage
  PROVE  [Streams!Next]_(Streams!vars)
<1>1. /\ Stacks /\ Sends /\ At(t, "send", s) /\ status' = status
  BY DEF IInv, Core, Life, SendOutput, buildVars
<1>2. /\ s \in Selectors
      /\ \A o : SendsIn(work, t, o) <=> o = s
      /\ \A u \in Threads : \A o : SendsIn(work', u, o) <=> u # t /\ SendsIn(work, u, o)
  BY <1>1, EndsSending
<1>3. \A u \in Threads : SendsIn(work, u, s) => u = t
  BY <1>1, OneSender
<1>4. StreamOf' = StreamOf
  BY <1>1 DEF StreamOf
<1>5. WriterOf[s] = t
  BY <1>2, <1>3, WriterIs DEF WriterOf
<1>6. WriterIn(work', s) = NoStage
  BY <1>2, <1>3, WriterIs
<1>7. ASSUME NEW o \in Selectors, o # s PROVE WriterIn(work', o) = WriterIn(work, o)
  <2>1. \A u \in Threads : SendsIn(work', u, o) <=> SendsIn(work, u, o)
    BY <1>2, <1>7
  <2>2. \A u, r \in Threads : SendsIn(work, u, o) /\ SendsIn(work, r, o) => u = r
    BY DEF OneThreadPerStage, Evaluating, SendsIn, At, Selectors
  <2> QED
    BY <2>1, <2>2, SameWriter
<1>8. WriterOf' = [WriterOf EXCEPT ![s] = NoStage]
  BY <1>6, <1>7 DEF WriterOf
\* The assumptions allow NoStage to be "main", and the step is a stutter then.
<1>9. CASE t # NoStage
  <2>1. Streams!EndMessage(s)
    BY <1>4, <1>5, <1>8, <1>9, MappingIs
  <2> QED
    BY <1>2, <2>1 DEF Streams!Next
<1>10. CASE t = NoStage
  <2>1. WriterOf' = WriterOf
    BY <1>5, <1>8, <1>10 DEF WriterOf
  <2> QED
    BY <1>4, <2>1, MappingIs
<1> QED
  BY <1>9, <1>10

LEMMA StreamsStep ==
  ASSUME IInv, IInv', Life, OnlyLiveStagesEvaluate, OnlyLiveStagesEvaluate',
         OneThreadPerStage, OneThreadPerStage', [Next]_vars
  PROVE  [Streams!Next]_(Streams!vars)
<1>1. Silent \/ \E t \in Threads, s \in Stages : EvalSelector(t, s) \/ SendOutput(t, s)
  BY LifeStep
<1>2. CASE \E t \in Threads, s \in Stages : EvalSelector(t, s) \/ SendOutput(t, s)
  BY <1>2, BeginStreams, EndStreams
<1>3. CASE Silent
  <2>1. WriterOf' = WriterOf
    BY <1>3, WriterKept
  <2>2. CASE status' = status
    <3>1. StreamOf' = StreamOf
      BY <2>2 DEF StreamOf
    <3> QED
      BY <2>1, <3>1, MappingIs
  <2>3. CASE \E s \in Stages : InitStage(s) \/ InitFails(s)
    BY <2>1, <2>3, InitStreams
  <2>4. CASE \E s \in Stages : DeleteStage(s)
    BY <1>3, <2>1, <2>4, DeleteStreams
  <2> QED
    BY <2>2, <2>3, <2>4, StatusStep
<1> QED
  BY <1>1, <1>2, <1>3

LEMMA StreamsInit ==
  ASSUME Init
  PROVE  Streams!Init
<1>1. \A s \in Stages : status[s] = "constructed"
  BY DEF Init
<1>2. StreamOf = [o \in Selectors |-> "new"]
  BY <1>1 DEF StreamOf, StreamIn, Selectors
<1>3. IInv /\ Life
  BY InitInvariant, InitLife
<1>4. ASSUME NEW o \in Selectors, NEW u \in Threads PROVE ~ SendsIn(work, u, o)
  <2> SUFFICES ASSUME At(u, "send", o) PROVE FALSE
    BY DEF SendsIn, At
  <2>1. o \in Stages /\ status[o] = "ready"
    BY <1>3, LiveInvariant DEF OnlyLiveStagesEvaluate, Evaluating, Selectors
  <2> QED
    BY <1>1, <2>1
<1>5. WriterOf = [o \in Selectors |-> NoStage]
  BY <1>4, WriterIs DEF WriterOf
<1> QED
  BY <1>2, <1>5, MappingIs

\* For every tree of stages: no message is written by two threads at once, before its
\* selector is ready or after the end of the stream, and ~Selector never ends a stream
\* while a timeout thread is in the middle of a message.
THEOREM ImplementsOutputStreamsTheorem == Spec => ImplementsOutputStreams
<1>1. Init => Streams!Init
  BY StreamsInit
<1>2. /\ IInv /\ IInv' /\ Life /\ OnlyLiveStagesEvaluate /\ OnlyLiveStagesEvaluate'
      /\ OneThreadPerStage /\ OneThreadPerStage' /\ [Next]_vars
      => [Streams!Next]_(Streams!vars)
  BY StreamsStep
<1> QED
  BY <1>1, <1>2, LifeHolds, OnlyLiveStagesEvaluateTheorem, OneThreadPerStageTheorem, PTL
     DEF Spec, ImplementsOutputStreams, Streams!Spec
=============================================================================
