--------------------------- MODULE PipelinesProofs ---------------------------
(***************************************************************************)
(* Which thread may be in which stage, for every tree of stages: the       *)
(* destructor of an aggregator needs no mutex, and no stage is evaluated   *)
(* by two threads at once.                                                 *)
(***************************************************************************)
EXTENDS Pipelines, TLAPS

-----------------------------------------------------------------------------
(* The tree of stages.                                                     *)

LEMMA SuccessorIsStage ==
  ASSUME NEW s \in Stages
  PROVE  /\ Succ[s] \in Seq(Stages)
         /\ \A i \in DOMAIN Succ[s] : Succ[s][i] \in Stages
BY StageAssumption

LEMMA BelowBasics ==
  ASSUME NEW s \in Stages
  PROVE  /\ Below(s) \subseteq Stages
         /\ s \in Below(s)
         /\ Closed(Below(s))
<1>1. Below(s) \subseteq Stages /\ s \in Below(s)
  BY DEF Below
<1>2. ASSUME NEW r \in Below(s), NEW i \in DOMAIN Succ[r]
      PROVE  Succ[r][i] \in Below(s)
  <2>1. r \in Stages /\ Succ[r][i] \in Stages
    BY <1>1, <1>2, SuccessorIsStage
  <2>2. ASSUME NEW C \in SUBSET Stages, s \in C, Closed(C)
        PROVE  Succ[r][i] \in C
    <3>1. r \in C
      BY <2>2 DEF Below
    <3> QED
      BY <2>2, <3>1 DEF Closed
  <2> QED
    BY <2>1, <2>2 DEF Below
<1> QED
  BY <1>1, <1>2 DEF Closed

\* Below(s) is the least closed set with s.
LEMMA BelowLeast ==
  ASSUME NEW s \in Stages, NEW C \in SUBSET Stages, s \in C, Closed(C)
  PROVE  Below(s) \subseteq C
BY DEF Below

\* What is strictly below s is reached through a successor of a stage below s.
LEMMA BelowStep ==
  ASSUME NEW s \in Stages, NEW r \in Below(s), r # s
  PROVE  \E q \in Below(s) : \E i \in DOMAIN Succ[q] : r = Succ[q][i]
<1> DEFINE C == {q \in Below(s) : q = s \/ \E p \in Below(s) : \E i \in DOMAIN Succ[p] :
                                                     q = Succ[p][i]}
<1>1. C \in SUBSET Stages /\ s \in C
  BY BelowBasics
<1>2. Closed(C)
  <2> SUFFICES ASSUME NEW q \in C, NEW i \in DOMAIN Succ[q]
               PROVE  Succ[q][i] \in C
    BY DEF Closed
  <2>1. q \in Below(s) /\ Succ[q][i] \in Below(s)
    BY BelowBasics DEF Closed
  <2> QED
    BY <2>1
<1>3. Below(s) \subseteq C
  BY <1>1, <1>2, BelowLeast
<1> QED
  BY <1>3

\* A set that is entered only at its top: what of Below(x) is not below y is
\* closed, as y itself is not below x.
LEMMA Disjoint ==
  ASSUME NEW x \in Stages, NEW y \in Stages, x \notin Below(y), y \notin Below(x)
  PROVE  Below(x) \cap Below(y) = {}
<1> DEFINE C == {q \in Below(x) : q \notin Below(y)}
<1>1. C \in SUBSET Stages /\ x \in C
  BY BelowBasics
<1>2. Closed(C)
  <2> SUFFICES ASSUME NEW q \in C, NEW i \in DOMAIN Succ[q]
               PROVE  Succ[q][i] \in C
    BY DEF Closed
  <2>1. q \in Stages /\ Succ[q][i] \in Below(x)
    BY BelowBasics DEF Closed
  <2> SUFFICES ASSUME Succ[q][i] \in Below(y)
               PROVE  FALSE
    BY <2>1
  <2>2. Succ[q][i] # y
    BY <2>1
  <2>3. PICK p \in Below(y) : \E j \in DOMAIN Succ[p] : Succ[q][i] = Succ[p][j]
    BY <2>2, BelowStep
  <2>4. p = q
    BY <2>1, <2>3, BelowBasics, TreeAssumption
  <2> QED
    BY <2>3, <2>4
<1>3. Below(x) \subseteq C
  BY <1>1, <1>2, BelowLeast
<1> QED
  BY <1>3

\* A successor of a stage that is below y is below y, or is y.
LEMMA Parent ==
  ASSUME NEW s \in Stages, NEW i \in DOMAIN Succ[s], NEW y \in Stages,
         Succ[s][i] \in Below(y), Succ[s][i] # y
  PROVE  s \in Below(y)
<1>1. PICK p \in Below(y) : \E j \in DOMAIN Succ[p] : Succ[s][i] = Succ[p][j]
  BY BelowStep
<1>2. p = s
  BY <1>1, BelowBasics, TreeAssumption
<1> QED
  BY <1>1, <1>2

\* The subtrees of two successors of a stage have nothing in common, and the stage
\* is in neither.
LEMMA Siblings ==
  ASSUME NEW s \in Stages, NEW i \in DOMAIN Succ[s]
  PROVE  /\ s \notin Below(Succ[s][i])
         /\ Below(Succ[s][i]) \subseteq Below(s)
         /\ \A j \in DOMAIN Succ[s] : i # j => Below(Succ[s][i]) \cap Below(Succ[s][j]) = {}
<1>1. \A k \in DOMAIN Succ[s] : Succ[s][k] \in Stages /\ s \notin Below(Succ[s][k])
  BY SuccessorIsStage, TreeAssumption
<1>2. Below(Succ[s][i]) \subseteq Below(s)
  <2>1. Succ[s][i] \in Below(s)
    BY BelowBasics DEF Closed
  <2> QED
    BY <1>1, <2>1, BelowLeast, BelowBasics
<1>3. ASSUME NEW j \in DOMAIN Succ[s], i # j
      PROVE  Below(Succ[s][i]) \cap Below(Succ[s][j]) = {}
  <2>1. Succ[s][i] # Succ[s][j]
    BY <1>3, TreeAssumption
  <2>2. Succ[s][i] \notin Below(Succ[s][j])
    BY <1>1, <2>1, Parent
  <2>3. Succ[s][j] \notin Below(Succ[s][i])
    BY <1>1, <2>1, Parent
  <2> QED
    BY <1>1, <2>2, <2>3, Disjoint
<1> QED
  BY <1>1, <1>2, <1>3

LEMMA RootsApart ==
  ASSUME NEW i \in DOMAIN Root
  PROVE  /\ Root[i] \in Stages
         /\ \A s \in Stages : Root[i] \in Below(s) => Root[i] = s
         /\ \A j \in DOMAIN Root : i # j => Below(Root[i]) \cap Below(Root[j]) = {}
<1>1. \A k \in DOMAIN Root : Root[k] \in Stages
  BY StageAssumption
<1>2. ASSUME NEW k \in DOMAIN Root, NEW s \in Stages, Root[k] \in Below(s)
      PROVE  Root[k] = s
  <2> SUFFICES ASSUME Root[k] # s  PROVE FALSE
    OBVIOUS
  <2>1. PICK q \in Below(s) : \E j \in DOMAIN Succ[q] : Root[k] = Succ[q][j]
    BY <1>2, BelowStep
  <2> QED
    BY <2>1, BelowBasics, TreeAssumption
<1>3. ASSUME NEW j \in DOMAIN Root, i # j
      PROVE  Below(Root[i]) \cap Below(Root[j]) = {}
  <2>1. Root[i] # Root[j]
    BY <1>3, TreeAssumption
  <2> QED
    BY <1>1, <1>2, <2>1, Disjoint
<1> QED
  BY <1>1, <1>2, <1>3

\* Stage s is fed by aggregator a: its records come from a's storage.
Feeds(a, s) == a \in Aggs /\ s \in Below(a) /\ s # a

LEMMA OneFeeds ==
  ASSUME NEW a, NEW b, NEW s, Feeds(a, s), Feeds(b, s)
  PROVE  a = b
<1> SUFFICES ASSUME a # b  PROVE FALSE
  OBVIOUS
<1>1. a \in Stages /\ b \in Stages /\ a \in Aggs /\ b \in Aggs
  BY DEF Feeds, Aggs
<1>2. a \notin Below(b) /\ b \notin Below(a)
  BY <1>1, TreeAssumption
<1> QED
  BY <1>1, <1>2, Disjoint DEF Feeds

LEMMA FedIsNoAgg ==
  ASSUME NEW a, NEW s, Feeds(a, s)
  PROVE  s \notin Aggs /\ s \in Stages
BY TreeAssumption, BelowBasics DEF Feeds, Aggs

LEMMA FedBelow ==
  ASSUME NEW a, NEW s \in Stages, NEW i \in DOMAIN Succ[s]
  PROVE  /\ s \in Aggs /\ a = s => Feeds(a, Succ[s][i])
         /\ Feeds(a, s) => Feeds(a, Succ[s][i])
         /\ Feeds(a, Succ[s][i]) => Feeds(a, s) \/ a = s
<1>1. s \notin Below(Succ[s][i]) /\ Succ[s][i] \in Stages
  BY Siblings, SuccessorIsStage
<1>2. s # Succ[s][i]
  BY <1>1, BelowBasics
<1>3. ASSUME s \in Aggs PROVE Feeds(s, Succ[s][i])
  BY <1>2, <1>3, BelowBasics DEF Feeds, Closed
<1>4. ASSUME Feeds(a, s) PROVE Feeds(a, Succ[s][i])
  <2>1. a \in Stages /\ a \in Aggs /\ s \in Below(a)
    BY <1>4 DEF Feeds, Aggs
  <2>2. Succ[s][i] \in Below(a)
    BY <2>1, BelowBasics DEF Closed
  <2>3. Succ[s][i] # a
    <3> SUFFICES ASSUME Succ[s][i] = a  PROVE FALSE
      OBVIOUS
    <3>1. s \in Below(Succ[s][i])
      BY <2>1
    <3> QED
      BY <3>1, <1>1
  <2> QED
    BY <2>1, <2>2, <2>3 DEF Feeds
<1>5. ASSUME Feeds(a, Succ[s][i]) PROVE Feeds(a, s) \/ a = s
  <2>1. a \in Stages /\ a \in Aggs
    BY <1>5 DEF Feeds, Aggs
  <2>2. s \in Below(a)
    BY <1>5, <2>1, Parent DEF Feeds
  <2> QED
    BY <2>1, <2>2 DEF Feeds
<1> QED
  BY <1>3, <1>4, <1>5

-----------------------------------------------------------------------------
(* The stack of a thread.                                                  *)

OpNames == {"init", "initSelf", "processing", "eval", "send", "lock", "store", "unlock",
            "loop", "sweep", "sleep", "destroy", "setStop", "join", "flush", "delete"}
Operation == [op : OpNames, stage : Stages \cup {NoStage}]

\* o pushes what aggregator a sends; o needs a mutex; o is part of destruction.
OwnedBy(o, a) == o.op \in {"eval", "send"} /\ Feeds(a, o.stage)
Owned(o)      == \E a \in Aggs : OwnedBy(o, a)
Critical(o)   == o.op \in {"store", "sweep", "unlock"}
Ending(o)     == o.op \in {"destroy", "setStop", "join", "flush", "delete"}

\* Operations of aggregators name an aggregator; a timeout thread only works on
\* its own one and on what that one feeds.
MayDo(t, o) ==
  /\ o.op \in {"lock", "store", "sweep", "unlock", "join", "flush"} => o.stage \in Aggs
  /\ IF t = "main" THEN o.op \notin {"loop", "sweep", "sleep"}
     ELSE \/ OwnedBy(o, t)
          \/ o.op \in {"loop", "lock", "sweep", "unlock", "sleep"} /\ o.stage = t

\* A mutex is asked for before anything else, and for the critical operations of
\* one storage only.
LockFirst(w) ==
  /\ \A i \in 1 .. Len(w) :
       w[i].op = "lock" => i = 1 /\ \E j \in 2 .. Len(w) : Critical(w[j])
  /\ \A i, j \in 1 .. Len(w) :
       /\ w[i].op = "lock" \/ Critical(w[i])
       /\ w[j].op = "lock" \/ Critical(w[j])
       => w[i].stage = w[j].stage

\* Before a critical operation come only those that belong to it.
HoldPrefix(w) ==
  \A j \in 1 .. Len(w) : Critical(w[j]) =>
    \A i \in 1 .. j - 1 : w[i].op \in {"lock", "sweep"} \/ Owned(w[i])

\* What a pushes, it pushes from its store, its sweep or its flush.
OwnedPrefix(w) ==
  \A i \in 1 .. Len(w), a \in Aggs : OwnedBy(w[i], a) =>
    \E j \in i + 1 .. Len(w) : /\ w[j].op \in {"unlock", "sweep", "flush"}
                               /\ w[j].stage = a
                               /\ \A k \in i .. j - 1 : Owned(w[k])

SweepUnlocks(w) ==
  \A i \in 1 .. Len(w) : w[i].op = "sweep" =>
    \E j \in i + 1 .. Len(w) : w[j].op = "unlock"

\* Destruction is not mixed with anything but the flushes it makes.
EndPhase(w) ==
  (\E i \in 1 .. Len(w) : Ending(w[i]))
    => \A i \in 1 .. Len(w) : Ending(w[i]) \/ Owned(w[i])

Shape(t, w) ==
  /\ w \in Seq(Operation)
  /\ \A i \in 1 .. Len(w) : MayDo(t, w[i])
  /\ LockFirst(w) /\ HoldPrefix(w) /\ OwnedPrefix(w) /\ SweepUnlocks(w) /\ EndPhase(w)

\* By its stack, the thread is inside the critical section of a.
Holds(w, a) ==
  /\ \E j \in 1 .. Len(w) : Critical(w[j]) /\ w[j].stage = a
  /\ w[1].op # "lock"

\* v is w with its first operation replaced by ops.
Pushed(v, ops, w) ==
  /\ v \in Seq(Operation) /\ ops \in Seq(Operation) /\ w \in Seq(Operation)
  /\ Len(w) \in Nat /\ Len(w) >= 1 /\ Len(ops) \in Nat
  /\ Len(v) = Len(ops) + Len(w) - 1
  /\ \A i \in 1 .. Len(ops) : v[i] = ops[i]
  /\ \A i \in Len(ops) + 1 .. Len(v) : v[i] = w[i - Len(ops) + 1]
  /\ \A i \in 2 .. Len(w) : v[i + Len(ops) - 1] = w[i]

LEMMA PushIs ==
  ASSUME NEW w \in Seq(Operation), w # <<>>, NEW ops \in Seq(Operation)
  PROVE  Pushed(ops \o Tail(w), ops, w)
<1>1. /\ Len(w) \in Nat /\ Len(w) >= 1 /\ Len(ops) \in Nat
      /\ Tail(w) \in Seq(Operation) /\ Len(Tail(w)) = Len(w) - 1
      /\ \A i \in 1 .. Len(w) - 1 : Tail(w)[i] = w[i + 1]
  OBVIOUS
<1> DEFINE u == Tail(w)
           v == ops \o u
<1>2. u \in Seq(Operation) /\ Len(u) = Len(w) - 1 /\ \A i \in 1 .. Len(u) : u[i] = w[i + 1]
  BY <1>1
<1> HIDE DEF u
<1>3. /\ v \in Seq(Operation)
      /\ Len(v) = Len(ops) + Len(u)
      /\ \A i \in 1 .. Len(ops) : v[i] = ops[i]
      /\ \A i \in Len(ops) + 1 .. Len(ops) + Len(u) : v[i] = u[i - Len(ops)]
  BY <1>1, <1>2
<1> HIDE DEF v
<1>4. \A i \in Len(ops) + 1 .. Len(v) : v[i] = w[i - Len(ops) + 1]
  <2> SUFFICES ASSUME NEW i \in Len(ops) + 1 .. Len(v)
               PROVE  v[i] = w[i - Len(ops) + 1]
    OBVIOUS
  <2>1. i - Len(ops) \in 1 .. Len(u) /\ v[i] = u[i - Len(ops)]
    BY <1>1, <1>2, <1>3
  <2> QED
    BY <2>1, <1>2
<1>5. \A i \in 2 .. Len(w) : v[i + Len(ops) - 1] = w[i]
  <2> SUFFICES ASSUME NEW i \in 2 .. Len(w)
               PROVE  v[i + Len(ops) - 1] = w[i]
    OBVIOUS
  <2>1. i + Len(ops) - 1 \in Len(ops) + 1 .. Len(v)
    BY <1>1, <1>2, <1>3
  <2>2. (i + Len(ops) - 1) - Len(ops) + 1 = i
    BY <1>1
  <2> QED
    BY <2>1, <2>2, <1>4
<1>6. Pushed(v, ops, w)
  BY <1>1, <1>2, <1>3, <1>4, <1>5 DEF Pushed
<1> QED
  BY <1>6 DEF v, u

LEMMA NothingCritical ==
  ASSUME NEW t, NEW w, Shape(t, w), Len(w) >= 1,
         ~ Critical(w[1]), w[1].op # "lock", ~ Owned(w[1])
  PROVE  \A i \in 1 .. Len(w) : ~ Critical(w[i]) /\ w[i].op # "lock"
<1>1. Len(w) \in Nat
  BY DEF Shape
<1>2. \A i \in 1 .. Len(w) : ~ Critical(w[i])
  <2> SUFFICES ASSUME NEW i \in 1 .. Len(w), Critical(w[i])
               PROVE  FALSE
    OBVIOUS
  <2>1. i # 1 /\ 1 \in 1 .. i - 1
    BY <1>1
  <2>2. w[1].op \in {"lock", "sweep"} \/ Owned(w[1])
    BY <2>1 DEF Shape, HoldPrefix
  <2> QED
    BY <2>2 DEF Critical
<1> QED
  BY <1>1, <1>2 DEF Shape, LockFirst

\* An operation of v is one of ops or one of the others of w.
LEMMA PushedFrom ==
  ASSUME NEW v, NEW ops, NEW w, Pushed(v, ops, w), NEW i \in 1 .. Len(v)
  PROVE  \/ i \in 1 .. Len(ops) /\ v[i] = ops[i]
         \/ /\ i - Len(ops) + 1 \in 2 .. Len(w)
            /\ i - Len(ops) >= 1
            /\ v[i] = w[i - Len(ops) + 1]
BY DEF Pushed

LEMMA PushedTo ==
  ASSUME NEW v, NEW ops, NEW w, Pushed(v, ops, w), NEW i \in 2 .. Len(w)
  PROVE  /\ i + Len(ops) - 1 \in Len(ops) + 1 .. Len(v)
         /\ i + Len(ops) - 1 \in 1 .. Len(v)
         /\ v[i + Len(ops) - 1] = w[i]
BY DEF Pushed

LEMMA PushedMayDo ==
  ASSUME NEW t, NEW v, NEW ops, NEW w, Pushed(v, ops, w), Shape(t, w),
         \A i \in 1 .. Len(ops) : MayDo(t, ops[i])
  PROVE  /\ v \in Seq(Operation)
         /\ \A i \in 1 .. Len(v) : MayDo(t, v[i])
<1>1. ASSUME NEW i \in 1 .. Len(v) PROVE MayDo(t, v[i])
  <2>1. CASE i \in 1 .. Len(ops) /\ v[i] = ops[i]
    BY <2>1
  <2>2. CASE i - Len(ops) + 1 \in 2 .. Len(w) /\ v[i] = w[i - Len(ops) + 1]
    <3>1. i - Len(ops) + 1 \in 1 .. Len(w)
      BY <2>2 DEF Pushed
    <3> QED
      BY <2>2, <3>1 DEF Shape
  <2> QED
    BY <2>1, <2>2, PushedFrom
<1> QED
  BY <1>1 DEF Pushed

\* What an aggregator pushes below the first operation keeps its place, whatever
\* that operation is replaced by.
LEMMA OwnedPrefixKept ==
  ASSUME NEW t, NEW v, NEW ops, NEW w, Pushed(v, ops, w), Shape(t, w),
         NEW a \in Aggs, NEW i \in 2 .. Len(w), OwnedBy(w[i], a)
  PROVE  \E j \in (i + Len(ops) - 1) + 1 .. Len(v) :
           /\ v[j].op \in {"unlock", "sweep", "flush"}
           /\ v[j].stage = a
           /\ \A k \in i + Len(ops) - 1 .. j - 1 : Owned(v[k])
<1>1. Len(w) \in Nat /\ Len(ops) \in Nat /\ Len(v) = Len(ops) + Len(w) - 1
  BY DEF Pushed
<1>2. PICK j \in i + 1 .. Len(w) : /\ w[j].op \in {"unlock", "sweep", "flush"}
                                   /\ w[j].stage = a
                                   /\ \A k \in i .. j - 1 : Owned(w[k])
  BY <1>1 DEF Shape, OwnedPrefix
<1>3. j \in 2 .. Len(w)
  BY <1>1
<1>4. v[j + Len(ops) - 1] = w[j] /\ j + Len(ops) - 1 \in (i + Len(ops) - 1) + 1 .. Len(v)
  <2>1. v[j + Len(ops) - 1] = w[j]
    BY <1>3, PushedTo
  <2>2. j + Len(ops) - 1 \in (i + Len(ops) - 1) + 1 .. Len(v)
    BY <1>1, <1>3
  <2> QED
    BY <2>1, <2>2
<1>5. ASSUME NEW k \in i + Len(ops) - 1 .. (j + Len(ops) - 1) - 1
      PROVE  Owned(v[k])
  <2>1. k - Len(ops) + 1 \in i .. j - 1 /\ k - Len(ops) + 1 \in 2 .. Len(w)
    BY <1>1, <1>3
  <2>2. v[(k - Len(ops) + 1) + Len(ops) - 1] = w[k - Len(ops) + 1]
    BY <2>1, PushedTo
  <2>3. (k - Len(ops) + 1) + Len(ops) - 1 = k
    BY <1>1
  <2> QED
    BY <1>2, <2>1, <2>2, <2>3
<1> QED
  BY <1>2, <1>4, <1>5

\* The same for the other shapes: nothing critical, nothing locked.
LEMMA QuietShape ==
  ASSUME NEW t, NEW v, v \in Seq(Operation),
         \A i \in 1 .. Len(v) : MayDo(t, v[i]) /\ ~ Critical(v[i]) /\ v[i].op # "lock",
         OwnedPrefix(v), EndPhase(v)
  PROVE  Shape(t, v)
<1>1. Len(v) \in Nat
  OBVIOUS
<1>2. LockFirst(v)
  BY DEF LockFirst
<1>3. HoldPrefix(v)
  BY <1>1 DEF HoldPrefix
<1>4. SweepUnlocks(v)
  BY DEF SweepUnlocks, Critical
<1> QED
  BY <1>2, <1>3, <1>4 DEF Shape

\* A stack that is in no critical section, and its first operation replaced by
\* operations that neither ask for a mutex nor need one.
LEMMA PlainPush ==
  ASSUME NEW t, NEW v, NEW ops, NEW w, Pushed(v, ops, w), Shape(t, w),
         ~ Critical(w[1]), w[1].op # "lock", ~ Owned(w[1]),
         \A i \in 1 .. Len(ops) : /\ MayDo(t, ops[i]) /\ ~ Critical(ops[i])
                                  /\ ops[i].op # "lock" /\ ~ Owned(ops[i]),
         \/ Ending(w[1]) /\ \A i \in 1 .. Len(ops) : Ending(ops[i])
         \/ ~ Ending(w[1]) /\ \A i \in 1 .. Len(ops) : ~ Ending(ops[i])
         \/ Len(w) = 1 /\ \A i \in 1 .. Len(ops) : Ending(ops[i])
  PROVE  /\ Shape(t, v)
         /\ \A i \in 1 .. Len(v) : ~ Critical(v[i])
         /\ \A i \in 1 .. Len(w) : ~ Critical(w[i])
<1>1. Len(w) \in Nat /\ Len(w) >= 1 /\ Len(ops) \in Nat /\ Len(v) = Len(ops) + Len(w) - 1
  BY DEF Pushed
<1>2. \A i \in 1 .. Len(w) : ~ Critical(w[i]) /\ w[i].op # "lock"
  BY <1>1, NothingCritical
<1>3. \A i \in 1 .. Len(v) : ~ Critical(v[i]) /\ v[i].op # "lock"
  <2> SUFFICES ASSUME NEW i \in 1 .. Len(v)
               PROVE  ~ Critical(v[i]) /\ v[i].op # "lock"
    OBVIOUS
  <2>1. \/ i \in 1 .. Len(ops) /\ v[i] = ops[i]
        \/ i - Len(ops) + 1 \in 1 .. Len(w) /\ v[i] = w[i - Len(ops) + 1]
    BY <1>1, PushedFrom
  <2> QED
    BY <2>1, <1>2
<1>4. OwnedPrefix(v)
  <2> SUFFICES ASSUME NEW i \in 1 .. Len(v), NEW a \in Aggs, OwnedBy(v[i], a)
               PROVE  \E j \in i + 1 .. Len(v) : /\ v[j].op \in {"unlock", "sweep", "flush"}
                                                 /\ v[j].stage = a
                                                 /\ \A k \in i .. j - 1 : Owned(v[k])
    BY DEF OwnedPrefix
  <2>1. i - Len(ops) + 1 \in 2 .. Len(w) /\ v[i] = w[i - Len(ops) + 1]
    BY PushedFrom DEF Owned
  <2> DEFINE n == i - Len(ops) + 1
  <2>2. n \in 2 .. Len(w) /\ OwnedBy(w[n], a) /\ n + Len(ops) - 1 = i
    BY <2>1, <1>1
  <2> HIDE DEF n
  <2> QED
    BY <2>2, OwnedPrefixKept
<1>5. EndPhase(v)
  <2>1. CASE Ending(w[1]) /\ \A i \in 1 .. Len(ops) : Ending(ops[i])
    <3>1. \A i \in 1 .. Len(w) : Ending(w[i]) \/ Owned(w[i])
      BY <1>1, <2>1 DEF Shape, EndPhase
    <3>2. ASSUME NEW i \in 1 .. Len(v) PROVE Ending(v[i]) \/ Owned(v[i])
      <4>1. \/ i \in 1 .. Len(ops) /\ v[i] = ops[i]
            \/ i - Len(ops) + 1 \in 1 .. Len(w) /\ v[i] = w[i - Len(ops) + 1]
        BY <1>1, PushedFrom
      <4> QED
        BY <4>1, <2>1, <3>1
    <3> QED
      BY <3>2 DEF EndPhase
  <2>2. CASE ~ Ending(w[1]) /\ \A i \in 1 .. Len(ops) : ~ Ending(ops[i])
    <3>1. \A i \in 1 .. Len(w) : ~ Ending(w[i])
      BY <1>1, <2>2 DEF Shape, EndPhase
    <3>2. ASSUME NEW i \in 1 .. Len(v) PROVE ~ Ending(v[i])
      <4>1. \/ i \in 1 .. Len(ops) /\ v[i] = ops[i]
            \/ i - Len(ops) + 1 \in 1 .. Len(w) /\ v[i] = w[i - Len(ops) + 1]
        BY <1>1, PushedFrom
      <4> QED
        BY <4>1, <2>2, <3>1
    <3> QED
      BY <3>2 DEF EndPhase
  <2>3. CASE Len(w) = 1 /\ \A i \in 1 .. Len(ops) : Ending(ops[i])
    <3>1. \A i \in 1 .. Len(v) : Ending(v[i])
      BY <1>1, <2>3, PushedFrom
    <3> QED
      BY <3>1 DEF EndPhase
  <2> QED
    BY <2>1, <2>2, <2>3
<1>6. v \in Seq(Operation) /\ \A i \in 1 .. Len(v) : MayDo(t, v[i])
  BY PushedMayDo
<1> QED
  BY <1>2, <1>3, <1>4, <1>5, <1>6, QuietShape

\* The first operation is done and nothing takes its place.
Popped(v, w) ==
  \A i \in 1 .. Len(v) : v[i].op # "lock" /\ i + 1 \in 2 .. Len(w) /\ v[i] = w[i + 1]

LEMMA PopShape ==
  ASSUME NEW t, NEW v, NEW w, Pushed(v, <<>>, w), Shape(t, w)
  PROVE  Shape(t, v) /\ Popped(v, w)
<1>1. Len(w) \in Nat /\ Len(w) >= 1 /\ Len(v) = Len(w) - 1
  BY DEF Pushed
<1>2. \A i \in 1 .. Len(v) : i + 1 \in 2 .. Len(w) /\ v[i] = w[i + 1]
  BY DEF Pushed
<1>3. \A i \in 1 .. Len(v) : v[i].op # "lock"
  BY <1>1, <1>2 DEF Shape, LockFirst
<1>4. LockFirst(v)
  <2>1. \A i, j \in 1 .. Len(v) : Critical(v[i]) /\ Critical(v[j]) => v[i].stage = v[j].stage
    BY <1>1, <1>2 DEF Shape, LockFirst
  <2> QED
    BY <1>3, <2>1 DEF LockFirst
<1>5. HoldPrefix(v)
  <2> SUFFICES ASSUME NEW j \in 1 .. Len(v), Critical(v[j]), NEW i \in 1 .. j - 1
               PROVE  v[i].op \in {"lock", "sweep"} \/ Owned(v[i])
    BY DEF HoldPrefix
  <2>1. j + 1 \in 1 .. Len(w) /\ i + 1 \in 1 .. (j + 1) - 1 /\ i \in 1 .. Len(v)
    BY <1>1
  <2>2. w[i + 1].op \in {"lock", "sweep"} \/ Owned(w[i + 1])
    BY <2>1, <1>2 DEF Shape, HoldPrefix
  <2> QED
    BY <2>1, <2>2, <1>2
<1>6. OwnedPrefix(v)
  <2> SUFFICES ASSUME NEW i \in 1 .. Len(v), NEW a \in Aggs, OwnedBy(v[i], a)
               PROVE  \E j \in i + 1 .. Len(v) : /\ v[j].op \in {"unlock", "sweep", "flush"}
                                                 /\ v[j].stage = a
                                                 /\ \A k \in i .. j - 1 : Owned(v[k])
    BY DEF OwnedPrefix
  <2> DEFINE n == i + 1
  <2>1. Len(<<>>) = 0 /\ n \in 2 .. Len(w) /\ OwnedBy(w[n], a) /\ n + 0 - 1 = i
    BY <1>1, <1>2
  <2> HIDE DEF n
  <2> QED
    BY <2>1, OwnedPrefixKept
<1>7. SweepUnlocks(v)
  <2> SUFFICES ASSUME NEW i \in 1 .. Len(v), v[i].op = "sweep"
               PROVE  \E j \in i + 1 .. Len(v) : v[j].op = "unlock"
    BY DEF SweepUnlocks
  <2>1. i + 1 \in 1 .. Len(w) /\ w[i + 1].op = "sweep"
    BY <1>1, <1>2
  <2>2. PICK j \in (i + 1) + 1 .. Len(w) : w[j].op = "unlock"
    BY <2>1 DEF Shape, SweepUnlocks
  <2>3. j - 1 \in i + 1 .. Len(v) /\ j - 1 \in 1 .. Len(v) /\ (j - 1) + 1 = j
    BY <1>1, <2>2
  <2> QED
    BY <2>2, <2>3, <1>2
<1>8. EndPhase(v)
  <2> SUFFICES ASSUME NEW i \in 1 .. Len(v), Ending(v[i]), NEW j \in 1 .. Len(v)
               PROVE  Ending(v[j]) \/ Owned(v[j])
    BY DEF EndPhase
  <2>1. i + 1 \in 1 .. Len(w) /\ j + 1 \in 1 .. Len(w)
    BY <1>1
  <2> QED
    BY <1>2, <2>1 DEF Shape, EndPhase
<1>9. \A i \in 1 .. Len(<<>>) : MayDo(t, <<>>[i])
  OBVIOUS
<1>10. v \in Seq(Operation) /\ \A i \in 1 .. Len(v) : MayDo(t, v[i])
  BY <1>9, PushedMayDo
<1> QED
  BY <1>2, <1>3, <1>4, <1>5, <1>6, <1>7, <1>8, <1>10 DEF Shape, Popped

\* A step in what a feeds pushes more of what a feeds, and changes no lock.
LEMMA OwnedPush ==
  ASSUME NEW t, NEW v, NEW ops, NEW w, Pushed(v, ops, w), Shape(t, w),
         NEW a \in Aggs, OwnedBy(w[1], a),
         \A i \in 1 .. Len(ops) : MayDo(t, ops[i]) /\ OwnedBy(ops[i], a)
  PROVE  /\ Shape(t, v)
         /\ \A b : Holds(v, b) <=> Holds(w, b)
<1>1. Len(w) \in Nat /\ Len(w) >= 1 /\ Len(ops) \in Nat /\ Len(v) = Len(ops) + Len(w) - 1
  BY DEF Pushed
<1>2. \A o : OwnedBy(o, a) => Owned(o) /\ ~ Critical(o) /\ ~ Ending(o) /\ o.op \notin {"lock", "sweep"}
  BY DEF OwnedBy, Owned, Critical, Ending
<1>3. \A i \in 1 .. Len(v) : \/ i \in 1 .. Len(ops) /\ v[i] = ops[i] /\ OwnedBy(v[i], a)
                            \/ /\ i - Len(ops) + 1 \in 2 .. Len(w) /\ i > Len(ops)
                               /\ v[i] = w[i - Len(ops) + 1]
  BY <1>1, PushedFrom
<1>4. \A i \in 1 .. Len(w) : w[i].op # "lock"
  BY <1>1, <1>2 DEF Shape, LockFirst
<1>5. \A i \in 1 .. Len(v) : v[i].op # "lock"
  BY <1>1, <1>2, <1>3, <1>4
<1>6. ASSUME NEW i \in 1 .. Len(v), v[i].op = "sweep" \/ Critical(v[i]) \/ Ending(v[i])
      PROVE  i - Len(ops) + 1 \in 2 .. Len(w) /\ i > Len(ops) /\ v[i] = w[i - Len(ops) + 1]
  BY <1>2, <1>3, <1>6
<1>7. LockFirst(v)
  <2>1. ASSUME NEW i \in 1 .. Len(v), NEW j \in 1 .. Len(v), Critical(v[i]), Critical(v[j])
        PROVE  v[i].stage = v[j].stage
    <3>1. i - Len(ops) + 1 \in 2 .. Len(w) /\ v[i] = w[i - Len(ops) + 1]
      BY <1>6, <2>1
    <3>2. j - Len(ops) + 1 \in 2 .. Len(w) /\ v[j] = w[j - Len(ops) + 1]
      BY <1>6, <2>1
    <3>3. i - Len(ops) + 1 \in 1 .. Len(w) /\ j - Len(ops) + 1 \in 1 .. Len(w)
      BY <1>1, <3>1, <3>2
    <3> QED
      BY <2>1, <3>1, <3>2, <3>3 DEF Shape, LockFirst
  <2> QED
    BY <1>5, <2>1 DEF LockFirst
<1>8. HoldPrefix(v)
  <2> SUFFICES ASSUME NEW j \in 1 .. Len(v), Critical(v[j]), NEW i \in 1 .. j - 1
               PROVE  v[i].op \in {"lock", "sweep"} \/ Owned(v[i])
    BY DEF HoldPrefix
  <2>1. j - Len(ops) + 1 \in 1 .. Len(w) /\ v[j] = w[j - Len(ops) + 1]
    BY <1>1, <1>6
  <2>2. i \in 1 .. Len(v)
    BY <1>1
  <2>3. CASE OwnedBy(v[i], a)
    BY <2>3, <1>2
  <2>4. CASE i - Len(ops) + 1 \in 2 .. Len(w) /\ v[i] = w[i - Len(ops) + 1]
    <3>1. i - Len(ops) + 1 \in 1 .. (j - Len(ops) + 1) - 1
      BY <1>1, <2>4
    <3> QED
      BY <2>1, <2>4, <3>1 DEF Shape, HoldPrefix
  <2> QED
    BY <1>3, <2>2, <2>3, <2>4
<1>9. OwnedPrefix(v)
  <2> SUFFICES ASSUME NEW i \in 1 .. Len(v), NEW b \in Aggs, OwnedBy(v[i], b)
               PROVE  \E j \in i + 1 .. Len(v) : /\ v[j].op \in {"unlock", "sweep", "flush"}
                                                 /\ v[j].stage = b
                                                 /\ \A k \in i .. j - 1 : Owned(v[k])
    BY DEF OwnedPrefix
  <2>1. CASE i \in 1 .. Len(ops) /\ OwnedBy(v[i], a)
    <3>1. a = b
      BY <2>1, OneFeeds DEF OwnedBy
    <3>2. PICK j \in 2 .. Len(w) : /\ w[j].op \in {"unlock", "sweep", "flush"}
                                   /\ w[j].stage = a
                                   /\ \A k \in 1 .. j - 1 : Owned(w[k])
      BY <1>1 DEF Shape, OwnedPrefix
    <3>3. /\ j + Len(ops) - 1 \in i + 1 .. Len(v)
          /\ v[j + Len(ops) - 1] = w[j]
      BY <1>1, <2>1, <3>2, PushedTo
    <3>4. ASSUME NEW k \in i .. (j + Len(ops) - 1) - 1 PROVE Owned(v[k])
      <4>1. k \in 1 .. Len(v)
        BY <1>1, <3>2
      <4>2. CASE OwnedBy(v[k], a)
        BY <4>2, <1>2
      <4>3. CASE k - Len(ops) + 1 \in 2 .. Len(w) /\ v[k] = w[k - Len(ops) + 1]
        <5>1. k - Len(ops) + 1 \in 1 .. j - 1
          BY <1>1, <3>2, <4>3
        <5> QED
          BY <3>2, <4>3, <5>1
      <4> QED
        BY <4>1, <4>2, <4>3, <1>3
    <3> QED
      BY <3>1, <3>2, <3>3, <3>4
  <2>2. CASE i - Len(ops) + 1 \in 2 .. Len(w) /\ v[i] = w[i - Len(ops) + 1]
    <3> DEFINE n == i - Len(ops) + 1
    <3>1. n \in 2 .. Len(w) /\ OwnedBy(w[n], b) /\ n + Len(ops) - 1 = i
      BY <2>2, <1>1
    <3> HIDE DEF n
    <3> QED
      BY <3>1, OwnedPrefixKept
  <2> QED
    BY <2>1, <2>2, <1>3
<1>10. SweepUnlocks(v)
  <2> SUFFICES ASSUME NEW i \in 1 .. Len(v), v[i].op = "sweep"
               PROVE  \E j \in i + 1 .. Len(v) : v[j].op = "unlock"
    BY DEF SweepUnlocks
  <2> DEFINE n == i - Len(ops) + 1
  <2>1. n \in 1 .. Len(w) /\ w[n].op = "sweep" /\ i = n + Len(ops) - 1
    BY <1>1, <1>6
  <2> HIDE DEF n
  <2>2. PICK j \in n + 1 .. Len(w) : w[j].op = "unlock"
    BY <2>1 DEF Shape, SweepUnlocks
  <2>3. j \in 2 .. Len(w) /\ j + Len(ops) - 1 \in i + 1 .. Len(v)
    BY <1>1, <2>1
  <2>4. v[j + Len(ops) - 1] = w[j]
    BY <2>3, PushedTo
  <2> QED
    BY <2>2, <2>3, <2>4
<1>11. EndPhase(v)
  <2> SUFFICES ASSUME NEW i \in 1 .. Len(v), Ending(v[i]), NEW j \in 1 .. Len(v)
               PROVE  Ending(v[j]) \/ Owned(v[j])
    BY DEF EndPhase
  <2>1. i - Len(ops) + 1 \in 1 .. Len(w) /\ Ending(w[i - Len(ops) + 1])
    BY <1>1, <1>6
  <2>2. \A k \in 1 .. Len(w) : Ending(w[k]) \/ Owned(w[k])
    BY <2>1 DEF Shape, EndPhase
  <2>3. CASE OwnedBy(v[j], a)
    BY <2>3, <1>2
  <2>4. CASE j - Len(ops) + 1 \in 2 .. Len(w) /\ v[j] = w[j - Len(ops) + 1]
    BY <1>1, <2>2, <2>4
  <2> QED
    BY <2>3, <2>4, <1>3
<1>12. ASSUME NEW b PROVE Holds(v, b) <=> Holds(w, b)
  <2>1. w[1].op # "lock" /\ ~ Critical(w[1])
    BY <1>2
  <2>2. Holds(v, b) => Holds(w, b)
    <3> SUFFICES ASSUME NEW j \in 1 .. Len(v), Critical(v[j]), v[j].stage = b
                 PROVE  Holds(w, b)
      BY <2>1 DEF Holds
    <3>0. j - Len(ops) + 1 \in 2 .. Len(w) /\ v[j] = w[j - Len(ops) + 1]
      BY <1>6
    <3>1. j - Len(ops) + 1 \in 1 .. Len(w) /\ v[j] = w[j - Len(ops) + 1]
      BY <1>1, <3>0
    <3> QED
      BY <2>1, <3>1 DEF Holds
  <2>3. Holds(w, b) => Holds(v, b)
    <3> SUFFICES ASSUME NEW j \in 1 .. Len(w), Critical(w[j]), w[j].stage = b
                 PROVE  Holds(v, b)
      BY DEF Holds
    <3>1. j \in 2 .. Len(w)
      BY <1>1, <2>1
    <3>2. j + Len(ops) - 1 \in 1 .. Len(v) /\ v[j + Len(ops) - 1] = w[j] /\ 1 \in 1 .. Len(v)
      BY <1>1, <3>1, PushedTo
    <3> QED
      BY <3>2, <1>5 DEF Holds
  <2> QED
    BY <2>2, <2>3
<1>13. v \in Seq(Operation) /\ \A i \in 1 .. Len(v) : MayDo(t, v[i])
  BY PushedMayDo
<1> QED
  BY <1>7, <1>8, <1>9, <1>10, <1>11, <1>12, <1>13 DEF Shape

\* An aggregator pushes an aggregate and stays in its critical section, or in its
\* flush.
LEMMA SendPush ==
  ASSUME NEW t, NEW v, NEW ops, NEW w, Pushed(v, ops, w), Shape(t, w),
         NEW a \in Aggs, w[1].stage = a, w[1].op \in {"store", "sweep", "flush"},
         Len(ops) >= 1, ops[Len(ops)].stage = a,
         ops[Len(ops)].op = IF w[1].op = "store" THEN "unlock" ELSE w[1].op,
         \A i \in 1 .. Len(ops) : MayDo(t, ops[i]),
         \A i \in 1 .. Len(ops) - 1 : OwnedBy(ops[i], a)
  PROVE  /\ Shape(t, v)
         /\ \A b : Holds(v, b) <=> Holds(w, b)
<1> DEFINE L == Len(ops)
<1>1. /\ Len(w) \in Nat /\ Len(w) >= 1 /\ L \in Nat /\ L >= 1
      /\ Len(v) = L + Len(w) - 1
  BY DEF Pushed
<1>2. \A o : OwnedBy(o, a) => Owned(o) /\ ~ Critical(o) /\ ~ Ending(o) /\ o.op \notin {"lock", "sweep"}
  BY DEF OwnedBy, Owned, Critical, Ending
<1> DEFINE From(i) == \/ i \in 1 .. L - 1 /\ OwnedBy(v[i], a)
                      \/ i = L /\ v[i] = ops[L]
                      \/ i - L + 1 \in 2 .. Len(w) /\ i > L /\ v[i] = w[i - L + 1]
<1>3. ASSUME NEW i \in 1 .. Len(v) PROVE From(i)
  <2>1. CASE i \in 1 .. L /\ v[i] = ops[i]
    BY <1>1, <2>1
  <2>2. CASE i - L + 1 \in 2 .. Len(w) /\ i - L >= 1 /\ v[i] = w[i - L + 1]
    BY <1>1, <2>2
  <2> QED
    BY <2>1, <2>2, PushedFrom
<1>4. v[L] = ops[L] /\ L \in 1 .. Len(v)
  BY <1>1 DEF Pushed
<1>5. /\ ~ Owned(w[1]) /\ w[1].op # "lock" /\ ops[L].op # "lock" /\ ~ Owned(ops[L])
      /\ Critical(ops[L]) <=> Critical(w[1])
      /\ Ending(ops[L]) <=> Ending(w[1])
      /\ ops[L].op = "sweep" <=> w[1].op = "sweep"
      /\ Ending(w[1]) <=> w[1].op = "flush"
      /\ Critical(w[1]) <=> w[1].op # "flush"
  BY DEF Owned, OwnedBy, Critical, Ending
<1>6. \A i \in 2 .. Len(w) : Critical(w[i]) => w[1].op = "sweep" /\ w[i].stage = a
  <2> SUFFICES ASSUME NEW i \in 2 .. Len(w), Critical(w[i])
               PROVE  w[1].op = "sweep" /\ w[i].stage = a
    OBVIOUS
  <2>1. 1 \in 1 .. i - 1 /\ i \in 1 .. Len(w) /\ 1 \in 1 .. Len(w)
    BY <1>1
  <2>2. w[1].op \in {"lock", "sweep"} \/ Owned(w[1])
    BY <2>1 DEF Shape, HoldPrefix
  <2>3. w[1].op = "sweep"
    BY <2>2, <1>5
  <2>4. Critical(w[1])
    BY <2>3 DEF Critical
  <2> QED
    BY <2>1, <2>3, <2>4 DEF Shape, LockFirst
<1>7. \A i \in 1 .. Len(w) : w[i].op # "lock"
  BY <1>1, <1>5 DEF Shape, LockFirst
<1>8. \A i \in 1 .. Len(v) : v[i].op # "lock" /\ (Critical(v[i]) => v[i].stage = a)
  <2> SUFFICES ASSUME NEW i \in 1 .. Len(v)
               PROVE  v[i].op # "lock" /\ (Critical(v[i]) => v[i].stage = a)
    OBVIOUS
  <2>1. CASE OwnedBy(v[i], a)
    BY <2>1, <1>2
  <2>2. CASE v[i] = ops[L]
    BY <2>2, <1>5
  <2>3. CASE i - L + 1 \in 2 .. Len(w) /\ v[i] = w[i - L + 1]
    <3>1. i - L + 1 \in 1 .. Len(w)
      BY <1>1, <2>3
    <3> QED
      BY <2>3, <3>1, <1>6, <1>7
  <2> QED
    BY <1>3, <2>1, <2>2, <2>3
<1>9. LockFirst(v)
  BY <1>8 DEF LockFirst
<1>10. HoldPrefix(v)
  <2> SUFFICES ASSUME NEW j \in 1 .. Len(v), Critical(v[j]), NEW i \in 1 .. j - 1
               PROVE  v[i].op \in {"lock", "sweep"} \/ Owned(v[i])
    BY DEF HoldPrefix
  <2>1. i \in 1 .. Len(v) /\ i < j
    BY <1>1
  <2>2. CASE OwnedBy(v[i], a)
    BY <2>2, <1>2
  <2>3. CASE i >= L
    <3>1. j - L + 1 \in 2 .. Len(w) /\ v[j] = w[j - L + 1]
      BY <1>1, <1>3, <2>1, <2>3
    <3>2. w[1].op = "sweep"
      BY <3>1, <1>6
    <3>3. CASE i = L
      BY <3>2, <3>3, <1>4, <1>5
    <3>4. CASE i # L
      <4>1. i - L + 1 \in 2 .. Len(w) /\ v[i] = w[i - L + 1]
        <5>1. i \notin 1 .. L - 1 /\ i # L
          BY <1>1, <2>3, <3>4
        <5> QED
          BY <1>3, <2>1, <5>1
      <4>2. i - L + 1 \in 1 .. (j - L + 1) - 1 /\ j - L + 1 \in 1 .. Len(w)
        BY <1>1, <2>1, <3>1, <4>1
      <4> QED
        BY <3>1, <4>1, <4>2 DEF Shape, HoldPrefix
    <3> QED
      BY <3>3, <3>4
  <2> QED
    BY <1>1, <1>3, <2>1, <2>2, <2>3
<1>11. OwnedPrefix(v)
  <2> SUFFICES ASSUME NEW i \in 1 .. Len(v), NEW b \in Aggs, OwnedBy(v[i], b)
               PROVE  \E j \in i + 1 .. Len(v) : /\ v[j].op \in {"unlock", "sweep", "flush"}
                                                 /\ v[j].stage = b
                                                 /\ \A k \in i .. j - 1 : Owned(v[k])
    BY DEF OwnedPrefix
  <2>1. CASE i \in 1 .. L - 1 /\ OwnedBy(v[i], a)
    <3>1. a = b
      BY <2>1, OneFeeds DEF OwnedBy
    <3>2. L \in i + 1 .. Len(v) /\ v[L].op \in {"unlock", "sweep", "flush"} /\ v[L].stage = a
      BY <1>1, <1>4, <2>1
    <3>3. ASSUME NEW k \in i .. L - 1 PROVE Owned(v[k])
      <4>1. k \in 1 .. Len(v) /\ k < L
        BY <1>1
      <4>2. ~ (k = L) /\ ~ (k > L)
        BY <1>1, <4>1
      <4>3. OwnedBy(v[k], a)
        BY <1>3, <4>1, <4>2
      <4> QED
        BY <4>3, <1>2
    <3> QED
      BY <3>1, <3>2, <3>3
  <2>2. CASE i = L /\ v[i] = ops[L]
    BY <2>2, <1>5 DEF Owned
  <2>3. CASE i - L + 1 \in 2 .. Len(w) /\ v[i] = w[i - L + 1]
    <3> DEFINE n == i - L + 1
    <3>1. n \in 2 .. Len(w) /\ OwnedBy(w[n], b) /\ n + Len(ops) - 1 = i
      BY <2>3, <1>1
    <3> HIDE DEF n
    <3> QED
      BY <3>1, OwnedPrefixKept
  <2> QED
    BY <2>1, <2>2, <2>3, <1>3
<1>12. SweepUnlocks(v)
  <2> SUFFICES ASSUME NEW i \in 1 .. Len(v), v[i].op = "sweep"
               PROVE  \E j \in i + 1 .. Len(v) : v[j].op = "unlock"
    BY DEF SweepUnlocks
  <2>1. i - L + 1 \in 1 .. Len(w) /\ i >= L /\ w[i - L + 1].op = "sweep"
    <3>1. CASE OwnedBy(v[i], a)
      BY <3>1, <1>2
    <3>2. CASE i = L /\ v[i] = ops[L]
      BY <3>2, <1>1, <1>5
    <3>3. CASE i - L + 1 \in 2 .. Len(w) /\ i > L /\ v[i] = w[i - L + 1]
      BY <3>3, <1>1
    <3> QED
      BY <1>3, <3>1, <3>2, <3>3
  <2>2. PICK j \in (i - L + 1) + 1 .. Len(w) : w[j].op = "unlock"
    BY <2>1 DEF Shape, SweepUnlocks
  <2>3. j \in 2 .. Len(w) /\ j + L - 1 \in i + 1 .. Len(v)
    BY <1>1, <2>1, <2>2
  <2>4. v[j + L - 1] = w[j]
    BY <2>3, PushedTo
  <2> QED
    BY <2>2, <2>3, <2>4
<1>13. EndPhase(v)
  <2>1. CASE Ending(w[1])
    <3>1. \A i \in 1 .. Len(w) : Ending(w[i]) \/ Owned(w[i])
      BY <1>1, <2>1 DEF Shape, EndPhase
    <3>2. ASSUME NEW i \in 1 .. Len(v) PROVE Ending(v[i]) \/ Owned(v[i])
      <4>1. CASE OwnedBy(v[i], a)
        BY <4>1, <1>2
      <4>2. CASE v[i] = ops[L]
        BY <4>2, <2>1, <1>5
      <4>3. CASE i - L + 1 \in 2 .. Len(w) /\ v[i] = w[i - L + 1]
        BY <4>3, <3>1, <1>1
      <4> QED
        BY <1>3, <4>1, <4>2, <4>3
    <3> QED
      BY <3>2 DEF EndPhase
  <2>2. CASE ~ Ending(w[1])
    <3>1. \A i \in 1 .. Len(w) : ~ Ending(w[i])
      BY <1>1, <1>5, <2>2 DEF Shape, EndPhase
    <3>2. ASSUME NEW i \in 1 .. Len(v) PROVE ~ Ending(v[i])
      <4>1. CASE OwnedBy(v[i], a)
        BY <4>1, <1>2
      <4>2. CASE v[i] = ops[L]
        BY <4>2, <2>2, <1>5
      <4>3. CASE i - L + 1 \in 2 .. Len(w) /\ v[i] = w[i - L + 1]
        BY <4>3, <3>1, <1>1
      <4> QED
        BY <1>3, <4>1, <4>2, <4>3
    <3> QED
      BY <3>2 DEF EndPhase
  <2> QED
    BY <2>1, <2>2
<1>14. ASSUME NEW b PROVE Holds(v, b) <=> Holds(w, b)
  <2>1. v[1].op # "lock" /\ w[1].op # "lock"
    BY <1>1, <1>4, <1>5, <1>8
  <2>2. CASE Critical(w[1])
    <3>1. Holds(w, b) <=> b = a
      BY <1>1, <1>6, <2>1, <2>2 DEF Holds
    <3>2. Holds(v, b) <=> b = a
      BY <1>1, <1>4, <1>5, <1>8, <2>1, <2>2 DEF Holds
    <3> QED
      BY <3>1, <3>2
  <2>3. CASE ~ Critical(w[1])
    <3>1. \A i \in 1 .. Len(w) : ~ Critical(w[i])
      BY <1>1, <1>5, <1>6, <2>3
    <3>2. ASSUME NEW i \in 1 .. Len(v) PROVE ~ Critical(v[i])
      <4>1. CASE OwnedBy(v[i], a)
        BY <4>1, <1>2
      <4>2. CASE v[i] = ops[L]
        BY <4>2, <2>3, <1>5
      <4>3. CASE i - L + 1 \in 2 .. Len(w) /\ v[i] = w[i - L + 1]
        BY <4>3, <3>1, <1>1
      <4> QED
        BY <1>3, <4>1, <4>2, <4>3
    <3> QED
      BY <3>1, <3>2 DEF Holds
  <2> QED
    BY <2>2, <2>3
<1>15. v \in Seq(Operation) /\ \A i \in 1 .. Len(v) : MayDo(t, v[i])
  BY PushedMayDo
<1> QED
  BY <1>9, <1>10, <1>11, <1>12, <1>13, <1>14, <1>15 DEF Shape

\* A sweep that ends leaves the unlock to be done.
LEMMA SweepPop ==
  ASSUME NEW t, NEW v, NEW w, Pushed(v, <<>>, w), Shape(t, w), w[1].op = "sweep"
  PROVE  \A b : Holds(v, b) <=> Holds(w, b)
<1>1. Len(w) \in Nat /\ Len(w) >= 1 /\ Len(v) = Len(w) - 1 /\ Critical(w[1])
  BY DEF Pushed, Critical
<1>2. \A i \in 1 .. Len(w) : Critical(w[i]) => w[i].stage = w[1].stage
  BY <1>1 DEF Shape, LockFirst
<1>3. PICK j \in 2 .. Len(w) : Critical(w[j])
  BY <1>1 DEF Shape, SweepUnlocks, Critical
<1>4. \A i \in 1 .. Len(v) : v[i].op # "lock" /\ i + 1 \in 2 .. Len(w) /\ v[i] = w[i + 1]
  <2>1. Popped(v, w)
    BY PopShape
  <2> QED
    BY <2>1 DEF Popped
<1>5. j - 1 \in 1 .. Len(v) /\ v[j - 1] = w[j]
  BY <1>1, <1>3, <1>4
<1> SUFFICES ASSUME NEW b PROVE Holds(v, b) <=> Holds(w, b)
  OBVIOUS
<1>6. Holds(w, b) <=> b = w[1].stage
  BY <1>1, <1>2 DEF Holds
<1>7. Holds(v, b) => b = w[1].stage
  BY <1>1, <1>2, <1>4 DEF Holds
<1>8. b = w[1].stage => Holds(v, b)
  <2>1. j \in 1 .. Len(w) /\ 1 \in 1 .. Len(v)
    BY <1>1, <1>3
  <2>2. Critical(v[j - 1]) /\ v[j - 1].stage = w[1].stage
    BY <1>2, <1>3, <1>5, <2>1
  <2> QED
    BY <1>4, <1>5, <2>1, <2>2 DEF Holds
<1> QED
  BY <1>6, <1>7, <1>8

\* What a thread pushes when it asks for the mutex of a.
Request(ops, a) ==
  \/ ops = <<Op("lock", a), Op("store", a)>>
  \/ ops = <<Op("lock", a), Op("sweep", a), Op("unlock", a), Op("sleep", a)>>

\* It does so outside of every critical section, and waits for the mutex first.
LEMMA AskForLock ==
  ASSUME NEW t, NEW v, NEW ops, NEW w, Pushed(v, ops, w), Shape(t, w),
         ~ Critical(w[1]), w[1].op # "lock", ~ Owned(w[1]), ~ Ending(w[1]),
         NEW a \in Aggs, Request(ops, a), \A i \in 1 .. Len(ops) : MayDo(t, ops[i])
  PROVE  /\ Shape(t, v)
         /\ \A b : ~ Holds(v, b) /\ ~ Holds(w, b)
<1> DEFINE L == Len(ops)
<1>1. /\ Len(w) \in Nat /\ Len(w) >= 1 /\ L \in {2, 4} /\ Len(v) = L + Len(w) - 1
      /\ ops[1].op = "lock" /\ ops[1].stage = a
      /\ L = 2 => ops[2].op = "store" /\ ops[2].stage = a
      /\ L = 4 => /\ ops[2].op = "sweep" /\ ops[2].stage = a
                 /\ ops[3].op = "unlock" /\ ops[3].stage = a
                 /\ ops[4].op = "sleep" /\ ops[4].stage = a
  <2>1. Len(w) \in Nat /\ Len(w) >= 1 /\ Len(v) = L + Len(w) - 1
    BY DEF Pushed
  <2>2. CASE ops = <<Op("lock", a), Op("store", a)>>
    <3>1. L = 2 /\ ops[1] = Op("lock", a) /\ ops[2] = Op("store", a)
      BY <2>2
    <3> QED
      BY <2>1, <3>1 DEF Op
  <2>3. CASE ops = <<Op("lock", a), Op("sweep", a), Op("unlock", a), Op("sleep", a)>>
    <3>1. /\ L = 4 /\ ops[1] = Op("lock", a) /\ ops[2] = Op("sweep", a)
          /\ ops[3] = Op("unlock", a) /\ ops[4] = Op("sleep", a)
      BY <2>3
    <3> QED
      BY <2>1, <3>1 DEF Op
  <2> QED
    BY <2>2, <2>3 DEF Request
<1>2. \A i \in 1 .. Len(w) : ~ Critical(w[i]) /\ w[i].op # "lock"
  BY <1>1, NothingCritical
<1>3. \A i \in 1 .. Len(w) : ~ Ending(w[i])
  BY <1>1 DEF Shape, EndPhase
<1>4. \A i \in 1 .. L : v[i] = ops[i]
  BY DEF Pushed
<1> DEFINE Below2(i) == i - L + 1 \in 2 .. Len(w) /\ i > L /\ v[i] = w[i - L + 1]
<1>5. ASSUME NEW i \in 1 .. Len(v) PROVE i \in 1 .. L \/ Below2(i)
  BY <1>1, PushedFrom
<1>6. ASSUME NEW i \in 1 .. Len(v), Below2(i)
      PROVE  ~ Critical(v[i]) /\ v[i].op # "lock" /\ ~ Ending(v[i])
  <2>1. i - L + 1 \in 1 .. Len(w)
    BY <1>1, <1>6
  <2> QED
    BY <1>2, <1>3, <1>6, <2>1
<1>7. ASSUME NEW i \in 1 .. L
      PROVE  /\ ~ Ending(v[i]) /\ ~ Owned(v[i])
             /\ v[i].op = "lock" <=> i = 1
             /\ Critical(v[i]) <=> i = 2 \/ (L = 4 /\ i = 3)
             /\ v[i].stage = a
             /\ v[i].op = "sweep" => i = 2 /\ L = 4
  <2>1. v[i] = ops[i] /\ (i = 1 \/ i = 2 \/ (L = 4 /\ i = 3) \/ (L = 4 /\ i = 4))
    BY <1>1, <1>4
  <2>2. v[i].stage = a
    BY <1>1, <2>1
  <2>3. /\ i = 1 => v[i].op = "lock"
        /\ i = 2 => v[i].op = IF L = 4 THEN "sweep" ELSE "store"
        /\ i = 3 => v[i].op = "unlock"
        /\ i = 4 => v[i].op = "sleep"
    BY <1>1, <2>1
  <2> HIDE DEF L
  <2>4. ~ Ending(v[i]) /\ ~ Owned(v[i])
    BY <2>1, <2>3 DEF Ending, Owned, OwnedBy
  <2>5. /\ v[i].op = "lock" <=> i = 1
        /\ v[i].op = "sweep" => i = 2 /\ L = 4
    BY <2>1, <2>3
  <2>6. Critical(v[i]) <=> i = 2 \/ (L = 4 /\ i = 3)
    BY <2>1, <2>3 DEF Critical
  <2> QED
    BY <2>2, <2>4, <2>5, <2>6
<1>8. \A i \in 1 .. Len(v) : v[i].op = "lock" \/ Critical(v[i]) => i \in 1 .. L
  BY <1>5, <1>6
<1>9. 2 \in 1 .. L /\ 2 \in 2 .. Len(v) /\ 1 \in 1 .. L
  BY <1>1
<1>10. LockFirst(v)
  BY <1>7, <1>8, <1>9 DEF LockFirst
<1>11. HoldPrefix(v)
  <2> SUFFICES ASSUME NEW j \in 1 .. Len(v), Critical(v[j]), NEW i \in 1 .. j - 1
               PROVE  v[i].op \in {"lock", "sweep"}
    BY DEF HoldPrefix
  <2>1. j = 2 \/ (L = 4 /\ j = 3)
    BY <1>7, <1>8
  <2>2. i = 1 \/ (L = 4 /\ i = 2)
    BY <2>1
  <2> QED
    BY <1>1, <1>4, <1>9, <2>2
<1>12. OwnedPrefix(v)
  <2> SUFFICES ASSUME NEW i \in 1 .. Len(v), NEW b \in Aggs, OwnedBy(v[i], b)
               PROVE  \E j \in i + 1 .. Len(v) : /\ v[j].op \in {"unlock", "sweep", "flush"}
                                                 /\ v[j].stage = b
                                                 /\ \A k \in i .. j - 1 : Owned(v[k])
    BY DEF OwnedPrefix
  <2>1. Below2(i)
    BY <1>5, <1>7 DEF Owned
  <2> DEFINE n == i - L + 1
  <2>2. n \in 2 .. Len(w) /\ OwnedBy(w[n], b) /\ n + Len(ops) - 1 = i
    BY <2>1, <1>1
  <2> HIDE DEF n
  <2> QED
    BY <2>2, OwnedPrefixKept
<1>13. SweepUnlocks(v)
  <2> SUFFICES ASSUME NEW i \in 1 .. Len(v), v[i].op = "sweep"
               PROVE  \E j \in i + 1 .. Len(v) : v[j].op = "unlock"
    BY DEF SweepUnlocks
  <2>1. Critical(v[i])
    BY DEF Critical
  <2>2. i = 2 /\ L = 4
    BY <1>7, <1>8, <2>1
  <2>3. 3 \in i + 1 .. Len(v) /\ v[3].op = "unlock"
    BY <1>1, <1>4, <2>2
  <2> QED
    BY <2>3
<1>14. EndPhase(v)
  BY <1>5, <1>6, <1>7 DEF EndPhase
<1>15. v \in Seq(Operation) /\ \A i \in 1 .. Len(v) : MayDo(t, v[i])
  BY PushedMayDo
<1>16. ASSUME NEW b PROVE ~ Holds(v, b) /\ ~ Holds(w, b)
  BY <1>2, <1>7, <1>9 DEF Holds
<1> QED
  BY <1>10, <1>11, <1>12, <1>13, <1>14, <1>15, <1>16 DEF Shape

-----------------------------------------------------------------------------
(* The inductive invariant.                                                *)

Stacks ==
  /\ work \in [Threads -> Seq(Operation)]
  /\ \A t \in Threads : Shape(t, work[t])

\* A mutex is held by the thread whose stack says so.
Locks == \A t \in Threads, a \in Aggs : lock[a] = t <=> Holds(work[t], a)

\* The thread of an aggregator is joined before the flush, and stays ended.
Joins ==
  \A a \in Aggs, i \in 1 .. Len(work["main"]) :
    work["main"][i] = Op("flush", a) =>
      \/ work[a] = <<>>
      \/ \E k \in 1 .. i - 1 : work["main"][k] = Op("join", a)

\* The stages an operation will initialise.
Footprint(o) == IF o.op = "init" THEN Below(o.stage)
                ELSE IF o.op = "initSelf" THEN {o.stage} ELSE {}

\* Every stage is initialised once: its thread has not been started.
Fresh ==
  /\ \A i, j \in 1 .. Len(work["main"]) :
       i # j => Footprint(work["main"][i]) \cap Footprint(work["main"][j]) = {}
  /\ \A i \in 1 .. Len(work["main"]) :
       \A a \in Aggs \cap Footprint(work["main"][i]) : work[a] = <<>>

\* An initialisation names a stage.
Inits ==
  \A i \in 1 .. Len(work["main"]) :
    work["main"][i].op \in {"init", "initSelf"} => work["main"][i].stage \in Stages

Core == Stacks /\ Locks /\ Joins /\ Fresh /\ Inits
IInv == TypeOK /\ Core

LEMMA Names ==
  /\ Aggs \subseteq Stages
  /\ "main" \in Threads /\ Aggs \subseteq Threads
  /\ "main" \notin Aggs /\ "free" \notin Threads /\ "free" \notin Aggs /\ NoStage \notin Aggs
  /\ \A t \in Threads : t # "main" => t \in Aggs
BY StageAssumption DEF Aggs, Threads

LEMMA OpIs ==
  ASSUME NEW name \in OpNames, NEW s \in Stages \cup {NoStage}
  PROVE  Op(name, s) \in Operation /\ Op(name, s).op = name /\ Op(name, s).stage = s
BY DEF Op, Operation

LEMMA FunctionIsSeq ==
  ASSUME NEW S, NEW n \in Nat, NEW f \in [1 .. n -> S]
  PROVE  f \in Seq(S) /\ Len(f) = n
<1>1. DOMAIN f = 1 .. n /\ \A i \in 1 .. n : f[i] \in S
  OBVIOUS
<1>2. f \in Seq(S)
  OBVIOUS
<1>3. Len(f) = n
  BY <1>1, <1>2
<1> QED
  BY <1>2, <1>3

LEMMA OpAllIs ==
  ASSUME NEW name \in OpNames, NEW ss \in Seq(Stages)
  PROVE  /\ OpAll(name, ss) \in Seq(Operation)
         /\ Len(OpAll(name, ss)) = Len(ss)
         /\ \A i \in 1 .. Len(ss) : OpAll(name, ss)[i] = Op(name, ss[i]) /\ ss[i] \in Stages
<1>1. DOMAIN ss = 1 .. Len(ss) /\ Len(ss) \in Nat /\ \A i \in 1 .. Len(ss) : ss[i] \in Stages
  OBVIOUS
<1>2. \A i \in 1 .. Len(ss) : Op(name, ss[i]) \in Operation
  BY <1>1, OpIs
<1>3. OpAll(name, ss) = [i \in 1 .. Len(ss) |-> Op(name, ss[i])]
  BY <1>1 DEF OpAll
<1>4. OpAll(name, ss) \in [1 .. Len(ss) -> Operation]
  BY <1>2, <1>3
<1>5. OpAll(name, ss) \in Seq(Operation) /\ Len(OpAll(name, ss)) = Len(ss)
  BY <1>1, <1>4, FunctionIsSeq
<1> QED
  BY <1>1, <1>3, <1>5

\* The same with one more operation behind it.
OpsThen(ops, name, ss, o) ==
  /\ ops \in Seq(Operation)
  /\ Len(ops) = Len(ss) + 1
  /\ Len(ss) \in Nat
  /\ \A i \in 1 .. Len(ss) : ops[i] = Op(name, ss[i])
  /\ ops[Len(ss) + 1] = o

LEMMA OpAllThen ==
  ASSUME NEW name \in OpNames, NEW ss \in Seq(Stages), NEW o \in Operation
  PROVE  OpsThen(OpAll(name, ss) \o <<o>>, name, ss, o)
<1> DEFINE f == OpAll(name, ss)
<1>1. Len(ss) \in Nat
  OBVIOUS
<1>2. f \in Seq(Operation) /\ Len(f) = Len(ss)
  BY OpAllIs
<1>3. \A i \in 1 .. Len(ss) : f[i] = Op(name, ss[i])
  BY OpAllIs
<1> HIDE DEF f
<1>4. /\ f \o <<o>> \in Seq(Operation) /\ Len(f \o <<o>>) = Len(ss) + 1
      /\ \A i \in 1 .. Len(ss) : (f \o <<o>>)[i] = f[i]
      /\ (f \o <<o>>)[Len(ss) + 1] = o
  BY <1>1, <1>2
<1>5. OpsThen(f \o <<o>>, name, ss, o)
  BY <1>1, <1>3, <1>4 DEF OpsThen
<1> QED
  BY <1>5 DEF f

\* Thread t is about to do Op(name, s): its stack is not empty.
LEMMA AtIs ==
  ASSUME Stacks, NEW t \in Threads, NEW name, NEW s, At(t, name, s)
  PROVE  /\ work[t] \in Seq(Operation) /\ work[t] # <<>>
         /\ Len(work[t]) \in Nat /\ Len(work[t]) >= 1
         /\ work[t][1] = Op(name, s)
         /\ work[t][1].op = name /\ work[t][1].stage = s
         /\ Shape(t, work[t]) /\ MayDo(t, work[t][1])
<1>1. work[t] \in Seq(Operation) /\ work[t] # <<>> /\ Head(work[t]) = Op(name, s) /\ Shape(t, work[t])
  BY DEF Stacks, At
<1>2. Len(work[t]) \in Nat /\ Len(work[t]) >= 1 /\ work[t][1] = Op(name, s)
  BY <1>1
<1> QED
  BY <1>1, <1>2 DEF Op, Shape

\* One thread replaces its first operation and no mutex changes hands.
LEMMA StackStep ==
  ASSUME Stacks, Locks, NEW t \in Threads, NEW name, NEW s, At(t, name, s),
         NEW ops \in Seq(Operation), Proceed(t, ops), lock' = lock,
         \A v : Pushed(v, ops, work[t])
                => Shape(t, v) /\ \A b \in Aggs : Holds(v, b) <=> Holds(work[t], b)
  PROVE  /\ Stacks' /\ Locks'
         /\ Pushed(work'[t], ops, work[t])
         /\ \A u \in Threads : u # t => work'[u] = work[u]
<1> DEFINE v == ops \o Tail(work[t])
<1>1. Pushed(v, ops, work[t])
  BY AtIs, PushIs
<1>2. v \in Seq(Operation) /\ Shape(t, v) /\ \A b \in Aggs : Holds(v, b) <=> Holds(work[t], b)
  BY <1>1 DEF Pushed
<1>3. work' = [work EXCEPT ![t] = v]
  BY DEF Proceed
<1> HIDE DEF v
<1>4. work'[t] = v /\ \A u \in Threads : u # t => work'[u] = work[u]
  BY <1>3 DEF Stacks
<1>5. Stacks'
  BY <1>2, <1>3, <1>4 DEF Stacks
<1>6. Locks'
  BY <1>2, <1>4 DEF Locks
<1> QED
  BY <1>1, <1>4, <1>5, <1>6

\* The rest of the invariant is kept by a step that pushes no initialisation, joins
\* a thread that has ended, and pushes a flush only behind such a join.
LEMMA FrameStep ==
  ASSUME Stacks, Joins, Fresh, Inits, NEW t \in Threads, NEW ops,
         Pushed(work'[t], ops, work[t]),
         \A u \in Threads : u # t => work'[u] = work[u],
         t = "main" =>
           /\ work[t][1].op = "join" => work[work[t][1].stage] = <<>>
           /\ \A i \in 1 .. Len(ops) : ops[i].op \notin {"init", "initSelf"}
           /\ \A i \in 1 .. Len(ops) : ops[i].op = "flush" =>
                \/ work[ops[i].stage] = <<>>
                \/ \E k \in 1 .. i - 1 : ops[k] = Op("join", ops[i].stage)
  PROVE  Joins' /\ Fresh' /\ Inits'
<1> DEFINE w == work["main"]
           v == work'["main"]
<1>1. CASE t # "main"
  <2>1. Len(work[t]) >= 1
    BY DEF Pushed
  <2>2. work[t] # <<>>
    BY <2>1
  <2>3. v = w /\ \A a \in Aggs : work[a] = <<>> => work'[a] = <<>>
    BY <1>1, <2>2, Names
  <2>4. Joins'
    BY <2>3 DEF Joins
  <2>5. Fresh'
    BY <2>3 DEF Fresh
  <2>6. Inits'
    BY <2>3 DEF Inits
  <2> QED
    BY <2>4, <2>5, <2>6
<1>2. CASE t = "main"
  <2>1. \A a \in Aggs : work'[a] = work[a]
    BY <1>2, Names
  <2>2. Pushed(v, ops, w) /\ (w[1].op = "join" => work[w[1].stage] = <<>>)
    BY <1>2
  <2>3. /\ Len(w) \in Nat /\ Len(ops) \in Nat /\ Len(v) = Len(ops) + Len(w) - 1
        /\ \A i \in 1 .. Len(ops) : v[i] = ops[i]
    BY <2>2 DEF Pushed
  <2>4. ASSUME NEW i \in 1 .. Len(v)
        PROVE  \/ i \in 1 .. Len(ops) /\ v[i] = ops[i] /\ v[i].op \notin {"init", "initSelf"}
               \/ /\ i - Len(ops) + 1 \in 1 .. Len(w)
                  /\ v[i] = w[i - Len(ops) + 1]
    <3>1. CASE i \in 1 .. Len(ops) /\ v[i] = ops[i]
      BY <1>2, <3>1
    <3>2. CASE i - Len(ops) + 1 \in 2 .. Len(w) /\ v[i] = w[i - Len(ops) + 1]
      BY <2>3, <3>2
    <3> QED
      BY <2>2, <3>1, <3>2, PushedFrom
  <2> HIDE DEF v, w
  <2>5. Joins'
    <3> SUFFICES ASSUME NEW a \in Aggs, NEW i \in 1 .. Len(v), v[i] = Op("flush", a)
                 PROVE  work'[a] = <<>> \/ \E k \in 1 .. i - 1 : v[k] = Op("join", a)
      BY DEF Joins, v
    <3>0. v[i].op = "flush" /\ v[i].stage = a
      BY DEF Op
    <3>1. CASE i \in 1 .. Len(ops) /\ v[i] = ops[i]
      <4>1. work[a] = <<>> \/ \E k \in 1 .. i - 1 : ops[k] = Op("join", a)
        BY <1>2, <3>0, <3>1
      <4>2. \A k \in 1 .. i - 1 : k \in 1 .. Len(ops)
        BY <2>3, <3>1
      <4> QED
        BY <2>1, <2>3, <4>1, <4>2
    <3>2. CASE i - Len(ops) + 1 \in 1 .. Len(w) /\ v[i] = w[i - Len(ops) + 1]
      <4>1. work[a] = <<>> \/ \E k \in 1 .. (i - Len(ops) + 1) - 1 : w[k] = Op("join", a)
        BY <3>2 DEF Joins, w
      <4>2. CASE work[a] = <<>>
        BY <4>2, <2>1
      <4>3. CASE \E k \in 1 .. (i - Len(ops) + 1) - 1 : w[k] = Op("join", a)
        <5>1. PICK k \in 1 .. (i - Len(ops) + 1) - 1 : w[k] = Op("join", a)
          BY <4>3
        <5>2. CASE k = 1
          BY <2>1, <2>2, <5>1, <5>2 DEF Op
        <5>3. CASE k # 1
          <6>1. i - Len(ops) + 1 \in 1 .. Len(w) /\ i \in Int
            BY <2>3, <3>2
          <6>2. k \in 2 .. Len(w) /\ k + Len(ops) - 1 \in 1 .. i - 1
            BY <2>3, <5>1, <5>3, <6>1
          <6>3. v[k + Len(ops) - 1] = w[k]
            BY <2>2, <6>2, PushedTo
          <6> QED
            BY <5>1, <6>2, <6>3
        <5> QED
          BY <5>2, <5>3
      <4> QED
        BY <4>1, <4>2, <4>3
    <3> QED
      BY <2>4, <3>1, <3>2
  <2>6. \A i \in 1 .. Len(v) : Footprint(v[i]) # {} =>
          i - Len(ops) + 1 \in 1 .. Len(w) /\ v[i] = w[i - Len(ops) + 1]
    BY <2>4 DEF Footprint
  <2>7. \A i, j \in 1 .. Len(v) : i # j => Footprint(v[i]) \cap Footprint(v[j]) = {}
    <3> SUFFICES ASSUME NEW i \in 1 .. Len(v), NEW j \in 1 .. Len(v), i # j,
                        Footprint(v[i]) # {}, Footprint(v[j]) # {}
                 PROVE  Footprint(v[i]) \cap Footprint(v[j]) = {}
      OBVIOUS
    <3>1. /\ i - Len(ops) + 1 \in 1 .. Len(w) /\ v[i] = w[i - Len(ops) + 1]
          /\ j - Len(ops) + 1 \in 1 .. Len(w) /\ v[j] = w[j - Len(ops) + 1]
      BY <2>6
    <3>2. i - Len(ops) + 1 # j - Len(ops) + 1
      BY <2>3
    <3> QED
      BY <3>1, <3>2 DEF Fresh, w
  <2>8. ASSUME NEW i \in 1 .. Len(v), NEW a \in Aggs \cap Footprint(v[i])
        PROVE  work'[a] = <<>>
    <3>1. i - Len(ops) + 1 \in 1 .. Len(w) /\ a \in Footprint(w[i - Len(ops) + 1])
      BY <2>6
    <3>2. work[a] = <<>>
      BY <3>1 DEF Fresh, w
    <3> QED
      BY <2>1, <3>2
  <2>9. Fresh'
    BY <2>7, <2>8 DEF Fresh, v
  <2>10. Inits'
    BY <2>4 DEF Inits, v, w
  <2> QED
    BY <2>5, <2>9, <2>10
<1> QED
  BY <1>1, <1>2

\* Most steps have nothing to do with joins and flushes.
LEMMA OtherStep ==
  ASSUME Stacks, Joins, Fresh, Inits, NEW t \in Threads, NEW ops,
         Pushed(work'[t], ops, work[t]),
         \A u \in Threads : u # t => work'[u] = work[u],
         t = "main" => /\ work[t][1].op # "join"
                       /\ \A i \in 1 .. Len(ops) : ops[i].op \notin {"flush", "init", "initSelf"}
  PROVE  Joins' /\ Fresh' /\ Inits'
BY FrameStep

-----------------------------------------------------------------------------
(* The steps that read and push operations only.                           *)

\* A step outside of critical sections.
LEMMA PlainStep ==
  ASSUME Core, NEW t \in Threads, NEW name, NEW s, At(t, name, s),
         NEW ops \in Seq(Operation), Proceed(t, ops), lock' = lock,
         name \notin {"store", "sweep", "unlock", "lock"},
         ~ Owned(Op(name, s)),
         \A i \in 1 .. Len(ops) : /\ MayDo(t, ops[i]) /\ ~ Critical(ops[i])
                                  /\ ops[i].op # "lock" /\ ~ Owned(ops[i]),
         \/ Ending(Op(name, s)) /\ \A i \in 1 .. Len(ops) : Ending(ops[i])
         \/ ~ Ending(Op(name, s)) /\ \A i \in 1 .. Len(ops) : ~ Ending(ops[i])
         \/ Len(work[t]) = 1 /\ \A i \in 1 .. Len(ops) : Ending(ops[i])
  PROVE  /\ Stacks' /\ Locks'
         /\ Pushed(work'[t], ops, work[t])
         /\ \A u \in Threads : u # t => work'[u] = work[u]
<1>1. Stacks /\ Locks
  BY DEF Core
<1>2. /\ work[t][1] = Op(name, s) /\ work[t][1].op = name /\ Shape(t, work[t])
  BY <1>1, AtIs
<1>3. ~ Critical(work[t][1]) /\ work[t][1].op # "lock" /\ ~ Owned(work[t][1])
  BY <1>2 DEF Critical
<1>4. ASSUME NEW v, Pushed(v, ops, work[t])
      PROVE  Shape(t, v) /\ \A b \in Aggs : Holds(v, b) <=> Holds(work[t], b)
  <2>1. /\ Shape(t, v)
        /\ \A i \in 1 .. Len(v) : ~ Critical(v[i])
        /\ \A i \in 1 .. Len(work[t]) : ~ Critical(work[t][i])
    BY <1>2, <1>3, <1>4, PlainPush
  <2> QED
    BY <2>1 DEF Holds
<1> QED
  BY <1>1, <1>4, StackStep

\* A step in a stage that a feeds.
LEMMA OwnedStep ==
  ASSUME Core, NEW t \in Threads, NEW name, NEW s, At(t, name, s),
         NEW ops \in Seq(Operation), Proceed(t, ops), lock' = lock,
         NEW a \in Aggs, OwnedBy(Op(name, s), a),
         \A i \in 1 .. Len(ops) : MayDo(t, ops[i]) /\ OwnedBy(ops[i], a)
  PROVE  Core'
<1>1. Stacks /\ Locks /\ Joins /\ Fresh /\ Inits
  BY DEF Core
<1>2. /\ work[t][1] = Op(name, s) /\ work[t][1].op = name /\ Shape(t, work[t])
  BY <1>1, AtIs
<1>3. OwnedBy(work[t][1], a) /\ work[t][1].op # "join"
  BY <1>2 DEF OwnedBy
<1>4. ASSUME NEW v, Pushed(v, ops, work[t])
      PROVE  Shape(t, v) /\ \A b \in Aggs : Holds(v, b) <=> Holds(work[t], b)
  BY <1>2, <1>3, <1>4, OwnedPush
<1>5. /\ Stacks' /\ Locks' /\ Pushed(work'[t], ops, work[t])
      /\ \A u \in Threads : u # t => work'[u] = work[u]
  BY <1>1, <1>4, StackStep
<1>6. \A i \in 1 .. Len(ops) : ops[i].op \notin {"flush", "init", "initSelf"}
  BY DEF OwnedBy
<1>7. Joins' /\ Fresh' /\ Inits'
  BY <1>1, <1>3, <1>5, <1>6, OtherStep
<1> QED
  BY <1>5, <1>7 DEF Core

\* The operations that push a record into a stage stay in the same ownership.
LEMMA EvalStep ==
  ASSUME Core, NEW t \in Threads, NEW s \in Stages, NEW name \in {"eval", "send"},
         At(t, name, s),
         NEW ops \in Seq(Operation), Proceed(t, ops), lock' = lock,
         \A i \in 1 .. Len(ops) : /\ ops[i].op \in {"eval", "send"}
                                  /\ \A a \in Aggs : Feeds(a, ops[i].stage) <=> Feeds(a, s)
  PROVE  Core'
<1>1. Stacks /\ Locks /\ Joins /\ Fresh /\ Inits
  BY DEF Core
<1>2. /\ work[t][1].op = name /\ MayDo(t, work[t][1]) /\ work[t][1].stage = s
  BY <1>1, AtIs
<1>3. Op(name, s).op = name /\ Op(name, s).stage = s
  BY DEF Op
<1>4. t # "main" => Feeds(t, s)
  BY <1>2 DEF MayDo, OwnedBy
<1>5. \A i \in 1 .. Len(ops) : MayDo(t, ops[i])
  BY <1>4, Names DEF MayDo, OwnedBy
<1>6. CASE \E a \in Aggs : Feeds(a, s)
  <2>1. PICK a \in Aggs : Feeds(a, s)
    BY <1>6
  <2>2. OwnedBy(Op(name, s), a) /\ \A i \in 1 .. Len(ops) : OwnedBy(ops[i], a)
    BY <1>3, <2>1 DEF OwnedBy
  <2> QED
    BY <1>5, <2>2, OwnedStep
<1>7. CASE ~ \E a \in Aggs : Feeds(a, s)
  <2>1. ~ Owned(Op(name, s)) /\ \A i \in 1 .. Len(ops) : ~ Owned(ops[i])
    BY <1>3, <1>7 DEF Owned, OwnedBy
  <2>2. ~ Ending(Op(name, s)) /\ name \notin {"store", "sweep", "unlock", "lock", "join"}
    BY <1>3 DEF Ending
  <2>3. \A i \in 1 .. Len(ops) : /\ ~ Critical(ops[i]) /\ ops[i].op # "lock" /\ ~ Ending(ops[i])
                                 /\ ops[i].op \notin {"flush", "init", "initSelf"}
    BY DEF Critical, Ending
  <2>4. /\ Stacks' /\ Locks' /\ Pushed(work'[t], ops, work[t])
        /\ \A u \in Threads : u # t => work'[u] = work[u]
    BY <1>5, <2>1, <2>2, <2>3, PlainStep
  <2>5. Joins' /\ Fresh' /\ Inits'
    BY <1>1, <1>2, <2>2, <2>3, <2>4, OtherStep
  <2> QED
    BY <2>4, <2>5 DEF Core
<1> QED
  BY <1>6, <1>7

LEMMA EmptyOps ==
  <<>> \in Seq(Operation) /\ \A i \in 1 .. Len(<<>>) : FALSE
OBVIOUS

LEMMA EvalPop ==
  ASSUME Core, NEW t \in Threads, NEW s \in Stages, NEW name \in {"eval", "send"},
         At(t, name, s), Proceed(t, <<>>), lock' = lock
  PROVE  Core'
<1> DEFINE ops == <<>>
<1>1. ops \in Seq(Operation) /\ \A i \in 1 .. Len(ops) : FALSE
  BY EmptyOps
<1>2. Proceed(t, ops)
  OBVIOUS
<1> HIDE DEF ops
<1> QED
  BY <1>1, <1>2, EvalStep

LEMMA SendIs ==
  ASSUME NEW s \in Stages
  PROVE  /\ send(s) \in Seq(Operation) /\ Succ[s] \in Seq(Stages)
         /\ Len(send(s)) = Len(Succ[s])
         /\ \A i \in 1 .. Len(send(s)) : /\ i \in DOMAIN Succ[s]
                                         /\ send(s)[i] = Op("eval", Succ[s][i])
                                         /\ send(s)[i].op = "eval"
                                         /\ send(s)[i].stage = Succ[s][i]
<1>1. Succ[s] \in Seq(Stages)
  BY SuccessorIsStage
<1>2. DOMAIN Succ[s] = 1 .. Len(Succ[s])
  BY <1>1
<1>3. /\ send(s) \in Seq(Operation)
      /\ Len(send(s)) = Len(Succ[s])
      /\ \A i \in 1 .. Len(Succ[s]) : send(s)[i] = Op("eval", Succ[s][i])
  <2>1. "eval" \in OpNames
    BY DEF OpNames
  <2> QED
    BY <1>1, <2>1, OpAllIs DEF send
<1> QED
  BY <1>1, <1>2, <1>3 DEF Op

LEMMA FilterSteps ==
  ASSUME Core, NEW t \in Threads, NEW s \in Stages, EvalFilter(t, s)
  PROVE  Core'
<1>1. At(t, "eval", s) /\ s \notin Aggs /\ lock' = lock
  BY DEF EvalFilter, Aggs, aggVars
<1>2. CASE Proceed(t, send(s))
  <2>1. ASSUME NEW i \in 1 .. Len(send(s)), NEW a \in Aggs
        PROVE  send(s)[i].op = "eval" /\ (Feeds(a, send(s)[i].stage) <=> Feeds(a, s))
    <3>1. i \in DOMAIN Succ[s] /\ send(s)[i].op = "eval" /\ send(s)[i].stage = Succ[s][i]
      BY SendIs
    <3>2. a # s
      BY <1>1
    <3> QED
      BY <3>1, <3>2, FedBelow
  <2>2. \A i \in 1 .. Len(send(s)) : send(s)[i].op \in {"eval", "send"}
    BY SendIs
  <2> QED
    BY <1>1, <1>2, <2>1, <2>2, SendIs, EvalStep
<1>3. CASE Proceed(t, <<>>)
  BY <1>1, <1>3, EvalPop
<1> QED
  BY <1>2, <1>3 DEF EvalFilter

LEMMA SelectorSteps ==
  ASSUME Core, NEW t \in Threads, NEW s \in Stages, EvalSelector(t, s) \/ SendOutput(t, s)
  PROVE  Core'
<1>1. CASE EvalSelector(t, s)
  <2> DEFINE ops == <<Op("send", s)>>
  <2>1. At(t, "eval", s) /\ s \notin Aggs /\ lock' = lock /\ Proceed(t, ops)
    BY <1>1 DEF EvalSelector, Aggs, aggVars
  <2>2. Op("send", s) \in Operation /\ Op("send", s).op = "send" /\ Op("send", s).stage = s
    <3>1. "send" \in OpNames
      BY DEF OpNames
    <3> QED
      BY <3>1, OpIs
  <2>3. ops \in Seq(Operation) /\ Len(ops) = 1 /\ ops[1] = Op("send", s)
    BY <2>2
  <2>4. \A i \in 1 .. Len(ops) : /\ ops[i].op \in {"eval", "send"}
                                 /\ \A a \in Aggs : Feeds(a, ops[i].stage) <=> Feeds(a, s)
    BY <2>2, <2>3
  <2> HIDE DEF ops
  <2> QED
    BY <2>1, <2>3, <2>4, EvalStep
<1>2. CASE SendOutput(t, s)
  <2>1. At(t, "send", s) /\ lock' = lock /\ Proceed(t, <<>>)
    BY <1>2 DEF SendOutput, aggVars
  <2> QED
    BY <2>1, EvalPop
<1> QED
  BY <1>1, <1>2

LEMMA PlainPop ==
  ASSUME Core, NEW t \in Threads, NEW name, NEW s, At(t, name, s), Proceed(t, <<>>), lock' = lock,
         name \notin {"store", "sweep", "unlock", "lock"}, ~ Owned(Op(name, s))
  PROVE  /\ Stacks' /\ Locks'
         /\ Pushed(work'[t], <<>>, work[t])
         /\ \A u \in Threads : u # t => work'[u] = work[u]
         /\ name # "join" => Core'
<1> DEFINE ops == <<>>
<1>1. ops \in Seq(Operation) /\ \A i \in 1 .. Len(ops) : FALSE
  BY EmptyOps
<1>2. Proceed(t, ops)
  OBVIOUS
<1> HIDE DEF ops
<1>3. /\ \A i \in 1 .. Len(ops) : /\ MayDo(t, ops[i]) /\ ~ Critical(ops[i])
                                  /\ ops[i].op # "lock" /\ ~ Owned(ops[i])
      /\ \A i \in 1 .. Len(ops) : Ending(ops[i]) /\ ~ Ending(ops[i])
      /\ \A i \in 1 .. Len(ops) : ops[i].op \notin {"flush", "init", "initSelf"}
  BY <1>1
<1>4. /\ Stacks' /\ Locks' /\ Pushed(work'[t], ops, work[t])
      /\ \A u \in Threads : u # t => work'[u] = work[u]
  <2>1. \/ Ending(Op(name, s)) /\ \A i \in 1 .. Len(ops) : Ending(ops[i])
        \/ ~ Ending(Op(name, s)) /\ \A i \in 1 .. Len(ops) : ~ Ending(ops[i])
    BY <1>3
  <2> QED
    BY <1>1, <1>2, <1>3, <2>1, PlainStep
<1>5. ASSUME name # "join" PROVE Core'
  <2>1. Stacks /\ Joins /\ Fresh /\ Inits /\ work[t][1].op # "join"
    BY <1>5, AtIs DEF Core
  <2>2. Joins' /\ Fresh' /\ Inits'
    BY <1>3, <1>4, <2>1, OtherStep
  <2> QED
    BY <1>4, <2>2 DEF Core
<1> QED
  BY <1>4, <1>5 DEF ops

\* A thread asks for the mutex of a.
LEMMA RequestStep ==
  ASSUME Core, NEW t \in Threads, NEW name, NEW s, At(t, name, s),
         NEW a \in Aggs, NEW ops, Request(ops, a), Proceed(t, ops), lock' = lock,
         name \notin {"store", "sweep", "unlock", "lock", "join"},
         ~ Owned(Op(name, s)), ~ Ending(Op(name, s)),
         \A i \in 1 .. Len(ops) : MayDo(t, ops[i])
  PROVE  Core'
<1>1. Stacks /\ Locks /\ Joins /\ Fresh /\ Inits
  BY DEF Core
<1>2. /\ work[t][1] = Op(name, s) /\ work[t][1].op = name /\ Shape(t, work[t])
  BY <1>1, AtIs
<1>3. /\ \A n \in {"lock", "store", "sweep", "unlock", "sleep"} : Op(n, a) \in Operation
  BY Names, OpIs DEF OpNames
<1>4. ops \in Seq(Operation) /\ \A i \in 1 .. Len(ops) : ops[i].op \notin {"flush", "init", "initSelf"}
  <2>1. CASE ops = <<Op("lock", a), Op("store", a)>>
    <3>1. ops \in Seq(Operation) /\ Len(ops) = 2 /\ ops[1] = Op("lock", a) /\ ops[2] = Op("store", a)
      BY <1>3, <2>1
    <3> QED
      BY <3>1 DEF Op
  <2>2. CASE ops = <<Op("lock", a), Op("sweep", a), Op("unlock", a), Op("sleep", a)>>
    <3>1. /\ ops \in Seq(Operation) /\ Len(ops) = 4
          /\ ops[1] = Op("lock", a) /\ ops[2] = Op("sweep", a)
          /\ ops[3] = Op("unlock", a) /\ ops[4] = Op("sleep", a)
      BY <1>3, <2>2
    <3> QED
      BY <3>1 DEF Op
  <2> QED
    BY <2>1, <2>2 DEF Request
<1>5. ~ Critical(work[t][1]) /\ work[t][1].op # "lock" /\ ~ Owned(work[t][1]) /\ ~ Ending(work[t][1])
  BY <1>2 DEF Critical
<1>6. ASSUME NEW v, Pushed(v, ops, work[t])
      PROVE  Shape(t, v) /\ \A b \in Aggs : Holds(v, b) <=> Holds(work[t], b)
  BY <1>2, <1>5, <1>6, AskForLock
<1>7. /\ Stacks' /\ Locks' /\ Pushed(work'[t], ops, work[t])
      /\ \A u \in Threads : u # t => work'[u] = work[u]
  BY <1>1, <1>4, <1>6, StackStep
<1>8. Joins' /\ Fresh' /\ Inits'
  BY <1>1, <1>2, <1>4, <1>7, OtherStep
<1> QED
  BY <1>7, <1>8 DEF Core

LEMMA AggEvalSteps ==
  ASSUME Core, NEW t \in Threads, NEW a \in Stages, EvalAgg(t, a)
  PROVE  Core'
<1>1. a \in Aggs /\ At(t, "eval", a) /\ lock' = lock
  BY DEF EvalAgg, Aggs
<1>2. work[t][1].op = "eval" /\ work[t][1].stage = a /\ MayDo(t, work[t][1])
  BY <1>1, AtIs DEF Core
<1>3. ~ Owned(Op("eval", a)) /\ ~ Ending(Op("eval", a))
  BY <1>1, FedIsNoAgg DEF Owned, OwnedBy, Op, Ending
<1>4. t = "main"
  <2> SUFFICES ASSUME t # "main" PROVE FALSE
    OBVIOUS
  <2>1. Feeds(t, a)
    BY <1>2 DEF MayDo, OwnedBy
  <2> QED
    BY <1>1, <2>1, FedIsNoAgg
<1>5. CASE Proceed(t, <<>>)
  BY <1>1, <1>3, <1>5, PlainPop
<1>6. CASE Proceed(t, <<Op("lock", a), Op("store", a)>>)
  <2> DEFINE ops == <<Op("lock", a), Op("store", a)>>
  <2>1. Request(ops, a)
    BY DEF Request
  <2>2. Len(ops) = 2 /\ ops[1] = Op("lock", a) /\ ops[2] = Op("store", a)
    OBVIOUS
  <2>3. \A i \in 1 .. Len(ops) : ops[i].op \in {"lock", "store"} /\ ops[i].stage = a
    BY <2>2 DEF Op
  <2> HIDE DEF ops
  <2>4. \A i \in 1 .. Len(ops) : MayDo(t, ops[i])
    BY <1>1, <1>4, <2>3 DEF MayDo
  <2>5. Proceed(t, ops)
    BY <1>6 DEF ops
  <2> QED
    BY <1>1, <1>3, <2>1, <2>4, <2>5, RequestStep
<1> QED
  BY <1>5, <1>6 DEF EvalAgg

LEMMA TimerSteps ==
  ASSUME Core, NEW a \in Aggs, TimerLoop(a) \/ WakeUp(a)
  PROVE  Core'
<1>0. a \in Threads /\ a # "main" /\ a \in Stages
  BY Names
<1>1. CASE TimerLoop(a)
  <2>1. At(a, "loop", a) /\ lock' = lock
    BY <1>1 DEF TimerLoop, aggVars
  <2>2. ~ Owned(Op("loop", a)) /\ ~ Ending(Op("loop", a))
    BY DEF Owned, OwnedBy, Op, Ending
  <2>3. CASE Proceed(a, <<>>)
    BY <1>0, <2>1, <2>2, <2>3, PlainPop
  <2>4. CASE Proceed(a, <<Op("lock", a), Op("sweep", a), Op("unlock", a), Op("sleep", a)>>)
    <3> DEFINE ops == <<Op("lock", a), Op("sweep", a), Op("unlock", a), Op("sleep", a)>>
    <3>1. Request(ops, a)
      BY DEF Request
    <3>2. /\ Len(ops) = 4 /\ ops[1] = Op("lock", a) /\ ops[2] = Op("sweep", a)
          /\ ops[3] = Op("unlock", a) /\ ops[4] = Op("sleep", a)
      OBVIOUS
    <3>3. \A i \in 1 .. Len(ops) : ops[i].op \in {"lock", "sweep", "unlock", "sleep"} /\ ops[i].stage = a
      BY <3>2 DEF Op
    <3> HIDE DEF ops
    <3>4. \A i \in 1 .. Len(ops) : MayDo(a, ops[i])
      BY <1>0, <3>3 DEF MayDo
    <3>5. Proceed(a, ops)
      BY <2>4 DEF ops
    <3> QED
      BY <1>0, <2>1, <2>2, <3>1, <3>4, <3>5, RequestStep
  <2> QED
    BY <1>1, <2>3, <2>4 DEF TimerLoop
<1>2. CASE WakeUp(a)
  <2> DEFINE ops == <<Op("loop", a)>>
  <2>1. At(a, "sleep", a) /\ lock' = lock /\ Proceed(a, ops)
    BY <1>2 DEF WakeUp, aggVars
  <2>2. Op("loop", a) \in Operation /\ Op("loop", a).op = "loop" /\ Op("loop", a).stage = a
    <3>1. "loop" \in OpNames
      BY DEF OpNames
    <3> QED
      BY <1>0, <3>1, OpIs
  <2>3. ops \in Seq(Operation) /\ Len(ops) = 1 /\ ops[1] = Op("loop", a)
    BY <2>2
  <2> HIDE DEF ops
  <2>4. \A i \in 1 .. Len(ops) : /\ MayDo(a, ops[i]) /\ ~ Critical(ops[i])
                                 /\ ops[i].op # "lock" /\ ~ Owned(ops[i])
                                 /\ ~ Ending(ops[i])
                                 /\ ops[i].op \notin {"flush", "init", "initSelf"}
    BY <1>0, <2>2, <2>3 DEF MayDo, Critical, Owned, OwnedBy, Ending
  <2>5. ~ Owned(Op("sleep", a)) /\ ~ Ending(Op("sleep", a))
    BY DEF Owned, OwnedBy, Op, Ending
  <2>6. /\ Stacks' /\ Locks' /\ Pushed(work'[a], ops, work[a])
        /\ \A u \in Threads : u # a => work'[u] = work[u]
    BY <1>0, <2>1, <2>3, <2>4, <2>5, PlainStep
  <2>7. Joins' /\ Fresh' /\ Inits'
    BY <1>0, <2>4, <2>6, OtherStep DEF Core
  <2> QED
    BY <2>6, <2>7 DEF Core
<1> QED
  BY <1>1, <1>2

-----------------------------------------------------------------------------
(* The steps of the critical sections.                                     *)

\* The first operation goes, whatever happens to the mutexes.
LEMMA PopStacks ==
  ASSUME Stacks, NEW t \in Threads, NEW name, NEW s, At(t, name, s), Proceed(t, <<>>)
  PROVE  /\ Stacks'
         /\ Shape(t, work'[t]) /\ Popped(work'[t], work[t])
         /\ Pushed(work'[t], <<>>, work[t])
         /\ \A u \in Threads : u # t => work'[u] = work[u]
<1> DEFINE v == <<>> \o Tail(work[t])
<1>1. Pushed(v, <<>>, work[t]) /\ Shape(t, work[t])
  BY AtIs, PushIs, EmptyOps
<1>2. v \in Seq(Operation) /\ Shape(t, v) /\ Popped(v, work[t])
  BY <1>1, PopShape DEF Pushed
<1>3. work' = [work EXCEPT ![t] = v]
  BY DEF Proceed
<1> HIDE DEF v
<1>4. work'[t] = v /\ \A u \in Threads : u # t => work'[u] = work[u]
  BY <1>3 DEF Stacks
<1>5. Stacks'
  BY <1>2, <1>3, <1>4 DEF Stacks
<1> QED
  BY <1>1, <1>2, <1>4, <1>5

LEMMA LockSteps ==
  ASSUME IInv, NEW t \in Threads, NEW s \in Stages, LockStorage(t, s)
  PROVE  Core'
<1>1. At(t, "lock", s) /\ lock[s] = "free" /\ Proceed(t, <<>>) /\ lock' = [lock EXCEPT ![s] = t]
  BY DEF LockStorage
<1>2. Stacks /\ Locks /\ Joins /\ Fresh /\ Inits /\ lock \in [Aggs -> Threads \cup {"free"}]
  BY DEF IInv, Core, TypeOK
<1> DEFINE w == work[t]
           v == work'[t]
<1>3. /\ w[1].op = "lock" /\ w[1].stage = s /\ Shape(t, w) /\ s \in Aggs
      /\ Len(w) \in Nat /\ Len(w) >= 1
  BY <1>1, <1>2, AtIs DEF MayDo
<1>4. /\ Stacks' /\ Shape(t, v) /\ Popped(v, w) /\ Pushed(v, <<>>, w)
      /\ \A u \in Threads : u # t => work'[u] = work[u]
  BY <1>1, <1>2, PopStacks
<1>5. Joins' /\ Fresh' /\ Inits'
  <2>1. w[1].op # "join" /\ \A i \in 1 .. Len(<<>>) : <<>>[i].op \notin {"flush", "init", "initSelf"}
    BY <1>3, EmptyOps
  <2> QED
    BY <1>2, <1>4, <2>1, OtherStep
<1>6. \A b \in Aggs : ~ Holds(w, b)
  BY <1>3 DEF Holds
<1>7. Holds(v, s)
  <2>1. PICK j \in 2 .. Len(w) : Critical(w[j]) /\ w[j].stage = s
    <3>1. PICK j \in 2 .. Len(w) : Critical(w[j])
      BY <1>3 DEF Shape, LockFirst
    <3>2. j \in 1 .. Len(w) /\ 1 \in 1 .. Len(w)
      BY <1>3
    <3>3. w[j].stage = s
      BY <1>3, <3>1, <3>2 DEF Shape, LockFirst
    <3> QED
      BY <3>1, <3>3
  <2>2. j - 1 \in 1 .. Len(v) /\ 1 \in 1 .. Len(v) /\ v[j - 1] = w[j]
    <3>1. Len(v) = Len(w) - 1 /\ Len(<<>>) = 0
      BY <1>4 DEF Pushed
    <3>2. j - 1 \in 1 .. Len(v) /\ 1 \in 1 .. Len(v) /\ (j - 1) + 1 = j
      BY <1>3, <3>1
    <3> QED
      BY <1>4, <3>2 DEF Popped
  <2> QED
    BY <1>4, <2>1, <2>2 DEF Holds, Popped
<1>8. \A b \in Aggs : Holds(v, b) => b = s
  <2> SUFFICES ASSUME NEW b \in Aggs, NEW j \in 1 .. Len(v), Critical(v[j]), v[j].stage = b
               PROVE  b = s
    BY DEF Holds
  <2>1. j + 1 \in 2 .. Len(w) /\ v[j] = w[j + 1]
    BY <1>4 DEF Popped
  <2>2. j + 1 \in 1 .. Len(w) /\ 1 \in 1 .. Len(w)
    BY <1>3, <2>1
  <2> QED
    BY <1>3, <2>1, <2>2 DEF Shape, LockFirst
<1>9. Locks'
  <2> SUFFICES ASSUME NEW u \in Threads, NEW b \in Aggs
               PROVE  lock'[b] = u <=> Holds(work'[u], b)
    BY DEF Locks
  <2>1. u # "free"
    BY Names
  <2>2. lock'[b] = IF b = s THEN t ELSE lock[b]
    BY <1>1, <1>2
  <2>3. lock[b] = u <=> Holds(work[u], b)
    BY <1>2 DEF Locks
  <2>4. CASE u = t
    BY <1>6, <1>7, <1>8, <2>2, <2>3, <2>4
  <2>5. CASE u # t
    BY <1>1, <1>4, <2>1, <2>2, <2>3, <2>5
  <2> QED
    BY <2>4, <2>5
<1> QED
  BY <1>4, <1>5, <1>9 DEF Core

LEMMA UnlockSteps ==
  ASSUME IInv, NEW t \in Threads, NEW s \in Stages, UnlockStorage(t, s)
  PROVE  Core'
<1>1. At(t, "unlock", s) /\ Proceed(t, <<>>) /\ lock' = [lock EXCEPT ![s] = "free"]
  BY DEF UnlockStorage
<1>2. Stacks /\ Locks /\ Joins /\ Fresh /\ Inits /\ lock \in [Aggs -> Threads \cup {"free"}]
  BY DEF IInv, Core, TypeOK
<1> DEFINE w == work[t]
           v == work'[t]
<1>3. /\ w[1].op = "unlock" /\ w[1].stage = s /\ Shape(t, w) /\ s \in Aggs
      /\ Len(w) \in Nat /\ Len(w) >= 1
  BY <1>1, <1>2, AtIs DEF MayDo
<1>4. /\ Stacks' /\ Shape(t, v) /\ Popped(v, w) /\ Pushed(v, <<>>, w)
      /\ \A u \in Threads : u # t => work'[u] = work[u]
  BY <1>1, <1>2, PopStacks
<1>5. Joins' /\ Fresh' /\ Inits'
  <2>1. w[1].op # "join" /\ \A i \in 1 .. Len(<<>>) : <<>>[i].op \notin {"flush", "init", "initSelf"}
    BY <1>3, EmptyOps
  <2> QED
    BY <1>2, <1>4, <2>1, OtherStep
<1>6. \A j \in 2 .. Len(w) : ~ Critical(w[j])
  <2> SUFFICES ASSUME NEW j \in 2 .. Len(w), Critical(w[j])
               PROVE  FALSE
    OBVIOUS
  <2>1. 1 \in 1 .. j - 1 /\ j \in 1 .. Len(w)
    BY <1>3
  <2>2. w[1].op \in {"lock", "sweep"} \/ Owned(w[1])
    BY <1>3, <2>1 DEF Shape, HoldPrefix
  <2> QED
    BY <1>3, <2>2 DEF Owned, OwnedBy
<1>7. \A b \in Aggs : ~ Holds(v, b)
  BY <1>4, <1>6 DEF Popped, Holds
<1>8. \A b \in Aggs : Holds(w, b) => b = s
  BY <1>3, <1>6 DEF Holds
<1>9. Holds(w, s)
  <2>1. 1 \in 1 .. Len(w) /\ Critical(w[1])
    BY <1>3 DEF Critical
  <2> QED
    BY <1>3, <2>1 DEF Holds
<1>10. Locks'
  <2> SUFFICES ASSUME NEW u \in Threads, NEW b \in Aggs
               PROVE  lock'[b] = u <=> Holds(work'[u], b)
    BY DEF Locks
  <2>1. u # "free"
    BY Names
  <2>2. lock'[b] = IF b = s THEN "free" ELSE lock[b]
    BY <1>1, <1>2
  <2>3. (lock[b] = u <=> Holds(work[u], b)) /\ lock[s] = t
    BY <1>2, <1>3, <1>9 DEF Locks
  <2>4. CASE u = t
    BY <1>7, <1>8, <2>1, <2>2, <2>3, <2>4
  <2>5. CASE u # t
    BY <1>4, <2>1, <2>2, <2>3, <2>5
  <2> QED
    BY <2>4, <2>5
<1> QED
  BY <1>4, <1>5, <1>10 DEF Core

LEMMA SweepEndSteps ==
  ASSUME Core, NEW a \in Aggs, SweepEnds(a)
  PROVE  Core'
<1>0. a \in Threads /\ a # "main"
  BY Names
<1>1. At(a, "sweep", a) /\ Proceed(a, <<>>) /\ lock' = lock
  BY DEF SweepEnds, aggVars
<1>2. Stacks /\ Locks /\ Joins /\ Fresh /\ Inits
  BY DEF Core
<1>3. work[a][1].op = "sweep" /\ Shape(a, work[a])
  BY <1>0, <1>1, <1>2, AtIs
<1>4. /\ Stacks' /\ Pushed(work'[a], <<>>, work[a])
      /\ \A u \in Threads : u # a => work'[u] = work[u]
  BY <1>0, <1>1, <1>2, PopStacks
<1>5. \A b : Holds(work'[a], b) <=> Holds(work[a], b)
  BY <1>3, <1>4, SweepPop
<1>6. Locks'
  BY <1>1, <1>2, <1>4, <1>5 DEF Locks
<1>7. Joins' /\ Fresh' /\ Inits'
  BY <1>0, <1>2, <1>4, OtherStep
<1> QED
  BY <1>4, <1>6, <1>7 DEF Core

\* ops sends a record to the successors of a, and then does o.
SendsThen(ops, a, o) ==
  /\ ops \in Seq(Operation) /\ Len(ops) \in Nat /\ Len(ops) >= 1
  /\ ops[Len(ops)] = o
  /\ \A i \in 1 .. Len(ops) - 1 : /\ ops[i].op = "eval" /\ i \in DOMAIN Succ[a]
                                  /\ ops[i].stage = Succ[a][i]

\* An aggregate leaves the storage of a, or a record enters it.
LEMMA SendStep ==
  ASSUME Core, NEW t \in Threads, NEW a \in Aggs, NEW name \in {"store", "sweep", "flush"},
         At(t, name, a), NEW ops, Proceed(t, ops), lock' = lock,
         SendsThen(ops, a, Op(IF name = "store" THEN "unlock" ELSE name, a))
  PROVE  Core'
<1> DEFINE L == Len(ops)
<1>0. /\ ops \in Seq(Operation) /\ L \in Nat /\ L >= 1
      /\ ops[L] = Op(IF name = "store" THEN "unlock" ELSE name, a)
      /\ \A i \in 1 .. L - 1 : /\ ops[i].op = "eval" /\ i \in DOMAIN Succ[a]
                               /\ ops[i].stage = Succ[a][i]
  BY DEF SendsThen
<1>1. Stacks /\ Locks /\ Joins /\ Fresh /\ Inits
  BY DEF Core
<1>2. /\ work[t][1] = Op(name, a) /\ work[t][1].op = name /\ work[t][1].stage = a
      /\ Shape(t, work[t]) /\ MayDo(t, work[t][1]) /\ Len(work[t]) \in Nat /\ Len(work[t]) >= 1
  BY <1>1, AtIs
<1>3. /\ ops[L].stage = a /\ ops[L].op = IF name = "store" THEN "unlock" ELSE name
      /\ ops[L].op \in {"unlock", "sweep", "flush"}
  BY <1>0 DEF Op
<1>4. t # "main" => t = a /\ name = "sweep"
  BY <1>2 DEF MayDo, OwnedBy
<1>5. t = "main" => name # "sweep"
  BY <1>2 DEF MayDo
<1>6. \A i \in 1 .. L - 1 : OwnedBy(ops[i], a)
  <2> SUFFICES ASSUME NEW i \in 1 .. L - 1 PROVE OwnedBy(ops[i], a)
    OBVIOUS
  <2>1. a \in Stages /\ i \in DOMAIN Succ[a] /\ ops[i].op = "eval" /\ ops[i].stage = Succ[a][i]
    BY <1>0, Names
  <2>2. Feeds(a, Succ[a][i])
    BY <2>1, FedBelow
  <2> QED
    BY <2>1, <2>2 DEF OwnedBy
<1>7. ASSUME NEW i \in 1 .. L PROVE MayDo(t, ops[i])
  <2>1. CASE i = L
    BY <1>0, <1>3, <1>4, <1>5, <2>1, Names DEF MayDo
  <2>2. CASE i # L
    <3>1. i \in 1 .. L - 1
      BY <1>0, <2>2
    <3>2. OwnedBy(ops[i], a) /\ ops[i].op = "eval"
      BY <1>0, <1>6, <3>1
    <3> QED
      BY <1>4, <3>2 DEF MayDo
  <2> QED
    BY <2>1, <2>2
<1>8. ASSUME NEW v, Pushed(v, ops, work[t])
      PROVE  Shape(t, v) /\ \A b \in Aggs : Holds(v, b) <=> Holds(work[t], b)
  <2>1. /\ work[t][1].op \in {"store", "sweep", "flush"}
        /\ ops[L].op = IF work[t][1].op = "store" THEN "unlock" ELSE work[t][1].op
    BY <1>2, <1>3
  <2> QED
    BY <1>0, <1>2, <1>3, <1>6, <1>7, <1>8, <2>1, SendPush
<1>9. /\ Stacks' /\ Locks' /\ Pushed(work'[t], ops, work[t])
      /\ \A u \in Threads : u # t => work'[u] = work[u]
  BY <1>0, <1>1, <1>8, StackStep
<1>10. \A i \in 1 .. L : ops[i].op \notin {"init", "initSelf"}
  <2> SUFFICES ASSUME NEW i \in 1 .. L PROVE ops[i].op \notin {"init", "initSelf"}
    OBVIOUS
  <2>1. i = L \/ i \in 1 .. L - 1
    BY <1>0
  <2> QED
    BY <1>0, <1>3, <2>1
<1>11. ASSUME t = "main", NEW i \in 1 .. L, ops[i].op = "flush"
       PROVE  work[ops[i].stage] = <<>>
  <2>1. i = L \/ i \in 1 .. L - 1
    BY <1>0
  <2>2. i = L /\ name = "flush"
    BY <1>0, <1>3, <1>11, <2>1
  <2>3. 1 \in 1 .. Len(work["main"]) /\ work["main"][1] = Op("flush", a)
    BY <1>2, <1>11, <2>2
  <2>4. work[a] = <<>> \/ \E k \in 1 .. 1 - 1 : work["main"][k] = Op("join", a)
    BY <1>1, <2>3 DEF Joins
  <2> QED
    BY <1>3, <2>2, <2>4
<1>12. Joins' /\ Fresh' /\ Inits'
  BY <1>1, <1>2, <1>9, <1>10, <1>11, FrameStep
<1> QED
  BY <1>9, <1>12 DEF Core

LEMMA SendThen ==
  ASSUME NEW a \in Stages, NEW o \in Operation
  PROVE  SendsThen(send(a) \o <<o>>, a, o)
<1> DEFINE ops == OpAll("eval", Succ[a]) \o <<o>>
<1>1. "eval" \in OpNames /\ Succ[a] \in Seq(Stages)
  BY SuccessorIsStage DEF OpNames
<1>2. ops = OpAll("eval", Succ[a]) \o <<o>>
  OBVIOUS
<1> HIDE DEF ops
<1>3. /\ ops \in Seq(Operation) /\ Len(ops) = Len(Succ[a]) + 1 /\ Len(Succ[a]) \in Nat
      /\ ops[Len(Succ[a]) + 1] = o
      /\ \A i \in 1 .. Len(Succ[a]) : ops[i] = Op("eval", Succ[a][i])
  <2>1. OpsThen(ops, "eval", Succ[a], o)
    BY <1>1, OpAllThen DEF ops
  <2> QED
    BY <2>1 DEF OpsThen
<1>4. DOMAIN Succ[a] = 1 .. Len(Succ[a])
  BY <1>1
<1>5. ASSUME NEW i \in 1 .. Len(ops) - 1
      PROVE  ops[i].op = "eval" /\ i \in DOMAIN Succ[a] /\ ops[i].stage = Succ[a][i]
  <2>1. i \in 1 .. Len(Succ[a])
    BY <1>3
  <2>2. ops[i] = Op("eval", Succ[a][i])
    BY <1>3, <2>1
  <2> QED
    BY <1>4, <2>1, <2>2 DEF Op
<1>6. SendsThen(ops, a, o)
  BY <1>3, <1>5 DEF SendsThen
<1> QED
  BY <1>2, <1>6 DEF send

LEMMA StoreSteps ==
  ASSUME Core, NEW a \in Aggs, StoreNew(a) \/ StoreExisting(a)
  PROVE  Core'
<1>1. "main" \in Threads /\ a \in Stages
  BY Names
<1>2. At("main", "store", a) /\ lock' = lock
  BY DEF StoreNew, StoreExisting, aggVars
<1>3. Op("unlock", a) \in Operation
  <2>1. "unlock" \in OpNames
    BY DEF OpNames
  <2> QED
    BY <1>1, <2>1, OpIs
<1>4. CASE Proceed("main", <<Op("unlock", a)>>)
  <2> DEFINE ops == <<Op("unlock", a)>>
  <2>1. ops \in Seq(Operation) /\ Len(ops) = 1 /\ ops[1] = Op("unlock", a)
    BY <1>3
  <2>2. Proceed("main", ops)
    BY <1>4
  <2> HIDE DEF ops
  <2>3. SendsThen(ops, a, Op("unlock", a))
    BY <2>1 DEF SendsThen
  <2> QED
    BY <1>1, <1>2, <2>2, <2>3, SendStep
<1>5. CASE Proceed("main", send(a) \o <<Op("unlock", a)>>)
  <2>1. SendsThen(send(a) \o <<Op("unlock", a)>>, a, Op("unlock", a))
    BY <1>1, <1>3, SendThen
  <2> QED
    BY <1>1, <1>2, <1>5, <2>1, SendStep
<1>6. CASE Proceed("main", <<>> \o <<Op("unlock", a)>>)
  <2>1. <<>> \o <<Op("unlock", a)>> = <<Op("unlock", a)>>
    BY <1>3
  <2> QED
    BY <1>4, <1>6, <2>1
<1> QED
  BY <1>4, <1>5, <1>6 DEF StoreNew, StoreExisting

LEMMA SendOneSteps ==
  ASSUME Core, NEW t \in Threads, NEW a \in Aggs, NEW name \in {"sweep", "flush"},
         SendOne(t, a, name)
  PROVE  Core'
<1>1. a \in Stages
  BY Names
<1>2. At(t, name, a) /\ lock' = lock /\ Proceed(t, send(a) \o <<Op(name, a)>>)
  BY DEF SendOne
<1>3. Op(name, a) \in Operation
  <2>1. name \in OpNames
    BY DEF OpNames
  <2> QED
    BY <1>1, <2>1, OpIs
<1>4. SendsThen(send(a) \o <<Op(name, a)>>, a, Op(name, a))
  BY <1>1, <1>3, SendThen
<1>5. name \in {"store", "sweep", "flush"} /\ name # "store"
  OBVIOUS
<1> QED
  BY <1>2, <1>4, <1>5, SendStep

-----------------------------------------------------------------------------
(* The steps of building and of destruction.                               *)

\* While something else than destruction is to be done there is no flush.
LEMMA NoFlush ==
  ASSUME NEW t, NEW w, Shape(t, w), NEW i \in 1 .. Len(w), ~ Ending(w[i]), ~ Owned(w[i])
  PROVE  \A j \in 1 .. Len(w) : w[j].op # "flush"
BY DEF Shape, EndPhase, Ending

LEMMA InitSuccessorsStep ==
  ASSUME Core, NEW s \in Stages, InitSuccessors(s)
  PROVE  Core'
<1> DEFINE ops == OpAll("init", Succ[s]) \o <<Op("initSelf", s)>>
           w   == work["main"]
           v   == work'["main"]
           n   == Len(Succ[s])
<1>1. Stacks /\ Locks /\ Joins /\ Fresh /\ Inits /\ "main" \in Threads
  BY Names DEF Core
<1>2. At("main", "init", s) /\ Proceed("main", ops) /\ lock' = lock
  BY DEF InitSuccessors, aggVars
<1>3. Op("initSelf", s) \in Operation /\ "init" \in OpNames
  BY OpIs DEF OpNames
<1>4. OpsThen(ops, "init", Succ[s], Op("initSelf", s))
  BY <1>3, OpAllThen, SuccessorIsStage
<1> HIDE DEF ops
<1>5. /\ ops \in Seq(Operation) /\ Len(ops) = n + 1 /\ n \in Nat
      /\ \A i \in 1 .. n : ops[i] = Op("init", Succ[s][i])
      /\ ops[n + 1] = Op("initSelf", s)
  BY <1>4 DEF OpsThen
<1>6. DOMAIN Succ[s] = 1 .. n
  BY SuccessorIsStage
<1> HIDE DEF n
<1>7. ASSUME NEW i \in 1 .. Len(ops)
      PROVE  /\ ops[i].op \in {"init", "initSelf"} /\ ops[i].stage \in Stages
             /\ Footprint(ops[i]) = IF i = n + 1 THEN {s} ELSE Below(Succ[s][i])
             /\ i = n + 1 \/ i \in DOMAIN Succ[s]
  <2>1. CASE i = n + 1
    BY <1>5, <2>1 DEF Op, Footprint
  <2>2. CASE i \in 1 .. n
    <3>0. ops[i] = Op("init", Succ[s][i])
      BY <1>5, <2>2
    <3>1. ops[i].op = "init" /\ ops[i].stage = Succ[s][i]
      BY <3>0 DEF Op
    <3>2. i # n + 1
      BY <1>5, <2>2
    <3> QED
      BY <1>6, <2>2, <3>1, <3>2, SuccessorIsStage DEF Footprint
  <2> QED
    BY <1>5, <2>1, <2>2
<1>8. \A i \in 1 .. Len(ops) : /\ MayDo("main", ops[i]) /\ ~ Critical(ops[i])
                               /\ ops[i].op # "lock" /\ ~ Owned(ops[i]) /\ ~ Ending(ops[i])
  BY <1>7 DEF MayDo, Critical, Owned, OwnedBy, Ending
<1>9. ~ Owned(Op("init", s)) /\ ~ Ending(Op("init", s))
  BY DEF Owned, OwnedBy, Op, Ending
<1>10. /\ Stacks' /\ Locks' /\ Pushed(v, ops, w)
       /\ \A u \in Threads : u # "main" => work'[u] = work[u]
  BY <1>1, <1>2, <1>5, <1>8, <1>9, PlainStep
<1>11. /\ Len(w) \in Nat /\ Len(w) >= 1 /\ w[1] = Op("init", s)
       /\ Len(v) = n + Len(w) /\ \A i \in 1 .. Len(ops) : v[i] = ops[i]
  <2>1. Len(w) \in Nat /\ Len(w) >= 1 /\ w[1] = Op("init", s)
    BY <1>1, <1>2, AtIs
  <2>2. Len(v) = Len(ops) + Len(w) - 1 /\ \A i \in 1 .. Len(ops) : v[i] = ops[i]
    BY <1>10 DEF Pushed
  <2> HIDE DEF v, w
  <2>3. Len(v) = n + Len(w)
    BY <1>5, <2>1, <2>2
  <2> QED
    BY <2>1, <2>2, <2>3
<1>12. \A a \in Aggs : work'[a] = work[a]
  BY <1>10, Names
<1> HIDE DEF v, w
<1>13. Joins'
  <2>1. n + 1 \in 1 .. Len(v) /\ n + 1 \in 1 .. Len(ops) /\ v[n + 1] = ops[n + 1]
    BY <1>5, <1>11
  <2>2. Shape("main", v)
    BY <1>1, <1>10 DEF Stacks, v
  <2>3. \A j \in 1 .. Len(v) : v[j].op # "flush"
    BY <1>8, <2>1, <2>2, NoFlush
  <2> QED
    BY <2>3 DEF Joins, Op, v
<1>14. Footprint(w[1]) = Below(s) /\ 1 \in 1 .. Len(w)
  BY <1>11 DEF Footprint, Op
<1> DEFINE From(i) == IF i <= Len(ops) THEN 1 ELSE i - Len(ops) + 1
<1> HIDE DEF From
<1>15. ASSUME NEW i \in 1 .. Len(v)
       PROVE  /\ From(i) \in 1 .. Len(w)
              /\ From(i) = 1 <=> i \in 1 .. Len(ops)
              /\ Footprint(v[i]) \subseteq Footprint(w[From(i)])
              /\ v[i].op \in {"init", "initSelf"} => v[i].stage \in Stages
  <2>1. CASE i \in 1 .. Len(ops)
    <3>1. From(i) = 1 /\ v[i] = ops[i]
      BY <1>11, <2>1 DEF From
    <3>2. Footprint(ops[i]) \subseteq Below(s)
      BY <1>7, <2>1, Siblings, BelowBasics
    <3> QED
      BY <1>7, <1>14, <2>1, <3>1, <3>2
  <2>2. CASE ~ (i \in 1 .. Len(ops))
    <3>1. i - Len(ops) + 1 \in 2 .. Len(w) /\ v[i] = w[i - Len(ops) + 1]
      BY <1>10, <2>2, PushedFrom DEF v, w
    <3>2. From(i) = i - Len(ops) + 1 /\ From(i) \in 1 .. Len(w) /\ From(i) # 1
      BY <1>5, <1>11, <2>2, <3>1 DEF From
    <3>3. v[i] = w[From(i)]
      BY <3>1, <3>2
    <3>4. v[i].op \in {"init", "initSelf"} => v[i].stage \in Stages
      BY <1>1, <3>2, <3>3 DEF Inits, w
    <3> QED
      BY <2>2, <3>2, <3>3, <3>4
  <2> QED
    BY <2>1, <2>2
<1>16. ASSUME NEW i \in 1 .. Len(v), NEW j \in 1 .. Len(v), i # j
       PROVE  Footprint(v[i]) \cap Footprint(v[j]) = {}
  <2>1. CASE i \in 1 .. Len(ops) /\ j \in 1 .. Len(ops)
    <3>1. /\ Footprint(v[i]) = IF i = n + 1 THEN {s} ELSE Below(Succ[s][i])
          /\ Footprint(v[j]) = IF j = n + 1 THEN {s} ELSE Below(Succ[s][j])
          /\ i = n + 1 \/ i \in DOMAIN Succ[s]
          /\ j = n + 1 \/ j \in DOMAIN Succ[s]
      BY <1>7, <1>11, <2>1
    <3> QED
      BY <1>16, <3>1, Siblings
  <2>2. CASE ~ (i \in 1 .. Len(ops) /\ j \in 1 .. Len(ops))
    <3>1. From(i) # From(j)
      BY <1>5, <1>11, <1>16, <2>2 DEF From
    <3>2. /\ From(i) \in 1 .. Len(w) /\ Footprint(v[i]) \subseteq Footprint(w[From(i)])
          /\ From(j) \in 1 .. Len(w) /\ Footprint(v[j]) \subseteq Footprint(w[From(j)])
      BY <1>15
    <3>3. Footprint(w[From(i)]) \cap Footprint(w[From(j)]) = {}
      BY <1>1, <3>1, <3>2 DEF Fresh, w
    <3> QED
      BY <3>2, <3>3
  <2> QED
    BY <2>1, <2>2
<1>17. ASSUME NEW i \in 1 .. Len(v), NEW a \in Aggs \cap Footprint(v[i])
       PROVE  work'[a] = <<>>
  <2>1. From(i) \in 1 .. Len(w) /\ a \in Footprint(w[From(i)])
    BY <1>15, <1>17
  <2> QED
    BY <1>1, <1>12, <2>1 DEF Fresh, w
<1>18. Fresh'
  BY <1>16, <1>17 DEF Fresh, v
<1>19. Inits'
  BY <1>15 DEF Inits, v
<1> QED
  BY <1>10, <1>13, <1>18, <1>19 DEF Core

\* A timeout thread that has not started, or is about to.
LEMMA NewThread ==
  ASSUME NEW a \in Aggs, NEW timer \in {<<>>, <<Op("loop", a)>>}
  PROVE  timer \in Seq(Operation) /\ Shape(a, timer) /\ \A b : ~ Holds(timer, b)
<1>1. a # "main" /\ a \in Stages
  BY Names
<1>2. Op("loop", a) \in Operation /\ Op("loop", a).op = "loop" /\ Op("loop", a).stage = a
  <2>1. "loop" \in OpNames
    BY DEF OpNames
  <2> QED
    BY <1>1, <2>1, OpIs
<1>3. /\ timer \in Seq(Operation)
      /\ \A i \in 1 .. Len(timer) : timer[i] = Op("loop", a)
  <2>1. CASE timer = <<>>
    BY <2>1
  <2>2. CASE timer = <<Op("loop", a)>>
    <3>1. timer \in Seq(Operation) /\ Len(timer) = 1 /\ timer[1] = Op("loop", a)
      BY <1>2, <2>2
    <3> QED
      BY <3>1
  <2> QED
    BY <2>1, <2>2
<1>4. \A i \in 1 .. Len(timer) : /\ MayDo(a, timer[i]) /\ ~ Critical(timer[i])
                                 /\ timer[i].op # "lock" /\ ~ Ending(timer[i])
                                 /\ ~ Owned(timer[i])
  BY <1>1, <1>2, <1>3 DEF MayDo, Critical, Ending, Owned, OwnedBy
<1>5. OwnedPrefix(timer) /\ EndPhase(timer)
  BY <1>4 DEF OwnedPrefix, EndPhase, Owned
<1>6. Shape(a, timer)
  BY <1>3, <1>4, <1>5, QuietShape
<1> QED
  BY <1>3, <1>4, <1>6 DEF Holds

LEMMA InitStageStep ==
  ASSUME Core, NEW s \in Stages, InitStage(s)
  PROVE  Core'
<1>1. Stacks /\ Locks /\ Joins /\ Fresh /\ Inits /\ "main" \in Threads /\ s # "main"
  BY Names, StageAssumption DEF Core
<1>2. PICK timer \in (IF Kind[s] = "agg" THEN {<<>>, <<Op("loop", s)>>} ELSE {<<>>}) :
        work' = [t \in Threads |-> CASE t = "main" -> Tail(work[t])
                                    [] t = s      -> timer
                                    [] OTHER      -> work[t]]
  BY DEF InitStage
<1>3. At("main", "initSelf", s) /\ lock' = lock
  BY DEF InitStage, aggVars
<1> DEFINE w == work["main"]
           v == Tail(w)
<1>4. work'["main"] = v
  BY <1>1, <1>2
<1>5. ASSUME NEW a \in Aggs PROVE work'[a] = IF a = s THEN timer ELSE work[a]
  BY <1>2, Names
<1>6. /\ w \in Seq(Operation) /\ w # <<>> /\ Len(w) \in Nat /\ Len(w) >= 1
      /\ w[1].op = "initSelf" /\ w[1].stage = s /\ Shape("main", w)
  BY <1>1, <1>3, AtIs
<1>7. Pushed(v, <<>>, w)
  <2>1. Pushed(<<>> \o Tail(w), <<>>, w)
    BY <1>6, PushIs, EmptyOps
  <2>2. <<>> \o Tail(w) = Tail(w)
    BY <1>6
  <2> QED
    BY <2>1, <2>2
<1>8. Shape("main", v) /\ Popped(v, w) /\ v \in Seq(Operation)
  BY <1>6, <1>7, PopShape DEF Pushed
<1>9. ~ Critical(w[1]) /\ w[1].op # "lock" /\ ~ Owned(w[1]) /\ ~ Ending(w[1])
  BY <1>6 DEF Critical, Owned, OwnedBy, Ending
<1>10. \A i \in 1 .. Len(w) : ~ Critical(w[i]) /\ w[i].op # "flush"
  <2>1. 1 \in 1 .. Len(w)
    BY <1>6
  <2> QED
    BY <1>6, <1>9, <2>1, NothingCritical, NoFlush
<1>11. \A i \in 1 .. Len(v) : /\ i + 1 \in 1 .. Len(w) /\ i + 1 # 1 /\ v[i] = w[i + 1]
  BY <1>6, <1>8 DEF Popped
<1> HIDE DEF v, w
<1>12. s \in Aggs => timer \in {<<>>, <<Op("loop", s)>>}
  BY DEF Aggs
<1>13. Stacks'
  <2>1. ASSUME NEW t \in Threads PROVE work'[t] \in Seq(Operation) /\ Shape(t, work'[t])
    <3>1. CASE t = "main"
      BY <1>4, <1>8, <3>1
    <3>2. CASE t \in Aggs /\ t = s
      BY <1>5, <1>12, <3>2, NewThread
    <3>3. CASE t \in Aggs /\ t # s
      BY <1>1, <1>5, <3>3 DEF Stacks
    <3> QED
      BY <3>1, <3>2, <3>3, Names
  <2>2. work' = [t \in Threads |-> work'[t]]
    BY <1>2
  <2> QED
    BY <2>1, <2>2 DEF Stacks
<1>14. 1 \in 1 .. Len(w) /\ Footprint(w[1]) = {s}
  BY <1>6 DEF Footprint
<1>15. s \in Aggs => work[s] = <<>>
  BY <1>1, <1>14 DEF Fresh, w
<1>16. Locks'
  <2> SUFFICES ASSUME NEW t \in Threads, NEW b \in Aggs
               PROVE  lock[b] = t <=> Holds(work'[t], b)
    BY <1>3 DEF Locks
  <2>1. lock[b] = t <=> Holds(work[t], b)
    BY <1>1 DEF Locks
  <2>2. CASE t = "main"
    <3>1. ~ Holds(w, b)
      BY <1>10 DEF Holds
    <3>2. ~ Holds(v, b)
      BY <1>10, <1>11 DEF Holds
    <3> QED
      BY <1>4, <2>1, <2>2, <3>1, <3>2 DEF w
  <2>3. CASE t \in Aggs /\ t = s
    <3>1. work'[t] = timer /\ work[t] = <<>>
      BY <1>5, <1>15, <2>3
    <3>2. ~ Holds(work[t], b) /\ ~ Holds(work'[t], b)
      BY <1>12, <2>3, <3>1, NewThread
    <3> QED
      BY <2>1, <3>2
  <2>4. CASE t \in Aggs /\ t # s
    BY <1>5, <2>1, <2>4
  <2> QED
    BY <2>2, <2>3, <2>4, Names
<1>17. Joins'
  BY <1>4, <1>10, <1>11 DEF Joins, Op
<1>18. \A i, j \in 1 .. Len(v) : i # j => Footprint(v[i]) \cap Footprint(v[j]) = {}
  <2> SUFFICES ASSUME NEW i \in 1 .. Len(v), NEW j \in 1 .. Len(v), i # j
               PROVE  Footprint(v[i]) \cap Footprint(v[j]) = {}
    OBVIOUS
  <2>1. /\ i + 1 \in 1 .. Len(w) /\ j + 1 \in 1 .. Len(w) /\ i + 1 # j + 1
        /\ v[i] = w[i + 1] /\ v[j] = w[j + 1]
    BY <1>11
  <2> QED
    BY <1>1, <2>1 DEF Fresh, w
<1>19. ASSUME NEW i \in 1 .. Len(v), NEW a \in Aggs \cap Footprint(v[i])
       PROVE  work'[a] = <<>>
  <2>1. i + 1 \in 1 .. Len(w) /\ i + 1 # 1 /\ v[i] = w[i + 1]
    BY <1>11
  <2>2. a # s
    <3>1. Footprint(w[1]) \cap Footprint(w[i + 1]) = {}
      BY <1>1, <1>14, <2>1 DEF Fresh, w
    <3> QED
      BY <1>14, <2>1, <3>1
  <2>3. work[a] = <<>>
    BY <1>1, <2>1 DEF Fresh, w
  <2> QED
    BY <1>5, <2>2, <2>3
<1>20. Fresh'
  BY <1>4, <1>18, <1>19 DEF Fresh
<1>21. Inits'
  BY <1>1, <1>4, <1>11 DEF Inits, w
<1> QED
  BY <1>13, <1>16, <1>17, <1>20, <1>21 DEF Core

\* The other operations that end, or are skipped, leave nothing behind.
LEMMA LastSteps ==
  ASSUME Core, NEW s \in Stages,
         InitFails(s) \/ SetStop(s) \/ FlushEnds(s) \/ DeleteStage(s)
  PROVE  Core'
<1>1. "main" \in Threads
  BY Names
<1>2. PICK name \in {"initSelf", "setStop", "flush", "delete"} :
        At("main", name, s) /\ Proceed("main", <<>>) /\ lock' = lock
  BY DEF InitFails, SetStop, FlushEnds, DeleteStage, aggVars
<1>3. ~ Owned(Op(name, s))
  BY DEF Owned, OwnedBy, Op
<1> QED
  BY <1>1, <1>2, <1>3, PlainPop

LEMMA JoinStep ==
  ASSUME Core, NEW a \in Aggs, JoinTimeoutThread(a)
  PROVE  Core'
<1>1. Stacks /\ Joins /\ Fresh /\ Inits /\ "main" \in Threads
  BY Names DEF Core
<1>2. At("main", "join", a) /\ Proceed("main", <<>>) /\ lock' = lock /\ work[a] = <<>>
  BY DEF JoinTimeoutThread, aggVars
<1>3. ~ Owned(Op("join", a))
  BY DEF Owned, OwnedBy, Op
<1>4. /\ Stacks' /\ Locks' /\ Pushed(work'["main"], <<>>, work["main"])
      /\ \A u \in Threads : u # "main" => work'[u] = work[u]
  BY <1>1, <1>2, <1>3, PlainPop
<1>5. work["main"][1].op = "join" /\ work["main"][1].stage = a
  BY <1>1, <1>2, AtIs
<1> DEFINE ops == <<>>
<1>6. Pushed(work'["main"], ops, work["main"]) /\ \A i \in 1 .. Len(ops) : FALSE
  BY <1>4, EmptyOps
<1> HIDE DEF ops
<1>7. Joins' /\ Fresh' /\ Inits'
  BY <1>1, <1>2, <1>4, <1>5, <1>6, FrameStep
<1> QED
  BY <1>4, <1>7 DEF Core

\* Destruction begins when nothing else is to be done.
LEMMA LeaveSteps ==
  ASSUME Core, BuildFailed \/ LeaveLoop
  PROVE  Core'
<1> DEFINE ops == OpAll("destroy", Root)
<1>1. Stacks /\ Joins /\ Fresh /\ Inits /\ "main" \in Threads
  BY Names DEF Core
<1>2. work["main"] = <<Op("processing", NoStage)>> /\ Proceed("main", ops) /\ lock' = lock
  BY DEF BuildFailed, LeaveLoop, MainAt, Do, Op, aggVars
<1>3. At("main", "processing", NoStage) /\ Len(work["main"]) = 1
  BY <1>2 DEF At
<1>4. "destroy" \in OpNames /\ Root \in Seq(Stages)
  BY StageAssumption DEF OpNames
<1>5. /\ ops \in Seq(Operation) /\ Len(ops) = Len(Root)
      /\ \A i \in 1 .. Len(Root) : ops[i] = Op("destroy", Root[i])
  BY <1>4, OpAllIs
<1> HIDE DEF ops
<1>6. ASSUME NEW i \in 1 .. Len(ops) PROVE ops[i].op = "destroy"
  <2>1. ops[i] = Op("destroy", Root[i])
    BY <1>5
  <2> QED
    BY <2>1 DEF Op
<1>7. \A i \in 1 .. Len(ops) : /\ MayDo("main", ops[i]) /\ ~ Critical(ops[i]) /\ Ending(ops[i])
                               /\ ops[i].op # "lock" /\ ~ Owned(ops[i])
                               /\ ops[i].op \notin {"flush", "init", "initSelf"}
  BY <1>6 DEF MayDo, Critical, Owned, OwnedBy, Ending
<1>8. ~ Owned(Op("processing", NoStage)) /\ work["main"][1].op # "join"
  BY <1>2 DEF Owned, OwnedBy, Op
<1>9. /\ Stacks' /\ Locks' /\ Pushed(work'["main"], ops, work["main"])
      /\ \A u \in Threads : u # "main" => work'[u] = work[u]
  BY <1>1, <1>2, <1>3, <1>5, <1>7, <1>8, PlainStep
<1>10. Joins' /\ Fresh' /\ Inits'
  BY <1>1, <1>7, <1>8, <1>9, OtherStep
<1> QED
  BY <1>9, <1>10 DEF Core

\* A record enters the tree at the roots, which no aggregator feeds.
LEMMA ReceiveStep ==
  ASSUME Core, ReceiveRecord
  PROVE  Core'
<1> DEFINE ops == OpAll("eval", Root) \o <<Op("processing", NoStage)>>
           n   == Len(Root)
<1>1. Stacks /\ Joins /\ Fresh /\ Inits /\ "main" \in Threads
  BY Names DEF Core
<1>2. At("main", "processing", NoStage) /\ Proceed("main", ops) /\ lock' = lock
  BY DEF ReceiveRecord, MainAt, At, Do, Op, aggVars
<1>3. "eval" \in OpNames /\ Root \in Seq(Stages) /\ Op("processing", NoStage) \in Operation
  BY StageAssumption, OpIs DEF OpNames
<1>4. OpsThen(ops, "eval", Root, Op("processing", NoStage))
  BY <1>3, OpAllThen
<1> HIDE DEF ops
<1>5. /\ ops \in Seq(Operation) /\ Len(ops) = n + 1 /\ n \in Nat
      /\ \A i \in 1 .. n : ops[i] = Op("eval", Root[i])
      /\ ops[n + 1] = Op("processing", NoStage)
  BY <1>4 DEF OpsThen
<1>6. DOMAIN Root = 1 .. n
  BY <1>3
<1> HIDE DEF n
<1>7. ASSUME NEW i \in 1 .. Len(ops)
      PROVE  ops[i].op \in {"eval", "processing"} /\ ~ Owned(ops[i])
  <2>1. CASE i = n + 1
    BY <1>5, <2>1 DEF Op, Owned, OwnedBy
  <2>2. CASE i \in 1 .. n
    <3>0. ops[i] = Op("eval", Root[i])
      BY <1>5, <2>2
    <3>1. ops[i].op = "eval" /\ ops[i].stage = Root[i]
      BY <3>0 DEF Op
    <3>2. ASSUME NEW a \in Aggs PROVE ~ Feeds(a, Root[i])
      <4>1. a \in Stages
        BY Names
      <4> QED
        BY <1>6, <2>2, <4>1, RootsApart DEF Feeds
    <3> QED
      BY <3>1, <3>2 DEF Owned, OwnedBy
  <2> QED
    BY <1>5, <2>1, <2>2
<1>8. \A i \in 1 .. Len(ops) : /\ MayDo("main", ops[i]) /\ ~ Critical(ops[i]) /\ ~ Ending(ops[i])
                               /\ ops[i].op # "lock" /\ ~ Owned(ops[i])
                               /\ ops[i].op \notin {"flush", "init", "initSelf"}
  BY <1>7 DEF MayDo, Critical, Ending
<1>9. /\ ~ Owned(Op("processing", NoStage)) /\ ~ Ending(Op("processing", NoStage))
      /\ work["main"][1].op # "join"
  <2>1. work["main"][1].op = "processing"
    BY <1>1, <1>2, AtIs
  <2> QED
    BY <2>1 DEF Owned, OwnedBy, Op, Ending
<1>10. /\ Stacks' /\ Locks' /\ Pushed(work'["main"], ops, work["main"])
       /\ \A u \in Threads : u # "main" => work'[u] = work[u]
  BY <1>1, <1>2, <1>5, <1>8, <1>9, PlainStep
<1>11. Joins' /\ Fresh' /\ Inits'
  BY <1>1, <1>8, <1>9, <1>10, OtherStep
<1> QED
  BY <1>10, <1>11 DEF Core

\* ops destroys a stage: the operations h of its destructor, then its successors.
Destroys(ops, h) ==
  /\ ops \in Seq(Operation) /\ Len(h) \in Nat /\ Len(ops) >= Len(h)
  /\ \A i \in 1 .. Len(h) : ops[i] = h[i]
  /\ \A i \in Len(h) + 1 .. Len(ops) : ops[i].op = "destroy"

LEMMA DestroysIs ==
  ASSUME NEW s \in Stages, NEW h \in Seq(Operation)
  PROVE  Destroys(h \o OpAll("destroy", Succ[s]), h)
<1> DEFINE r == OpAll("destroy", Succ[s])
<1>1. "destroy" \in OpNames /\ Succ[s] \in Seq(Stages)
  BY SuccessorIsStage DEF OpNames
<1>2. /\ r \in Seq(Operation) /\ Len(r) = Len(Succ[s])
      /\ \A i \in 1 .. Len(Succ[s]) : r[i] = Op("destroy", Succ[s][i])
  BY <1>1, OpAllIs
<1> HIDE DEF r
<1>0. Len(r) \in Nat
  BY <1>2
<1>3. ASSUME NEW i \in 1 .. Len(r) PROVE r[i].op = "destroy"
  <2>1. r[i] = Op("destroy", Succ[s][i])
    BY <1>2
  <2> QED
    BY <2>1 DEF Op
<1> DEFINE ops == h \o r
<1>4. /\ ops \in Seq(Operation) /\ Len(h) \in Nat /\ Len(ops) = Len(h) + Len(r)
      /\ \A i \in 1 .. Len(h) : ops[i] = h[i]
      /\ \A i \in Len(h) + 1 .. Len(h) + Len(r) : ops[i] = r[i - Len(h)]
  BY <1>2
<1> HIDE DEF ops
<1>5. ASSUME NEW i \in Len(h) + 1 .. Len(ops) PROVE ops[i].op = "destroy"
  <2>1. i - Len(h) \in 1 .. Len(r) /\ ops[i] = r[i - Len(h)]
    BY <1>0, <1>4
  <2> QED
    BY <1>3, <2>1
<1>6. Destroys(ops, h)
  BY <1>0, <1>4, <1>5 DEF Destroys
<1> QED
  BY <1>6 DEF ops, r

LEMMA DestroyStep ==
  ASSUME Core, NEW s \in Stages, DestroyStage(s)
  PROVE  Core'
<1> DEFINE h == IF Kind[s] = "agg"
                THEN <<Op("setStop", s), Op("join", s), Op("flush", s), Op("delete", s)>>
                ELSE <<Op("delete", s)>>
           ops == h \o OpAll("destroy", Succ[s])
<1>1. Stacks /\ Joins /\ Fresh /\ Inits /\ "main" \in Threads
  BY Names DEF Core
<1>2. At("main", "destroy", s) /\ Proceed("main", ops) /\ lock' = lock
  BY DEF DestroyStage, aggVars
<1>3. \A x \in {"setStop", "join", "flush", "delete"} : Op(x, s) \in Operation
  BY OpIs DEF OpNames
<1>4. /\ h \in Seq(Operation)
      /\ \A i \in 1 .. Len(h) : /\ h[i].op \in {"setStop", "join", "flush", "delete"}
                                /\ h[i].stage = s
                                /\ h[i].op # "delete" => s \in Aggs
                                /\ h[i].op = "flush" => i = 3 /\ h[2] = Op("join", s)
  <2>1. CASE Kind[s] = "agg"
    <3>1. /\ h \in Seq(Operation) /\ Len(h) = 4
          /\ h[1] = Op("setStop", s) /\ h[2] = Op("join", s)
          /\ h[3] = Op("flush", s) /\ h[4] = Op("delete", s)
      BY <1>3, <2>1
    <3>2. s \in Aggs
      BY <2>1 DEF Aggs
    <3> HIDE DEF h
    <3>3. \A i \in 1 .. Len(h) : i \in {1, 2, 3, 4}
      BY <3>1
    <3> QED
      BY <3>1, <3>2, <3>3 DEF Op
  <2>2. CASE Kind[s] # "agg"
    <3>1. h \in Seq(Operation) /\ Len(h) = 1 /\ h[1] = Op("delete", s)
      BY <1>3, <2>2
    <3> HIDE DEF h
    <3> QED
      BY <3>1 DEF Op
  <2> QED
    BY <2>1, <2>2
<1> HIDE DEF h
<1>5. Destroys(ops, h)
  BY <1>4, DestroysIs
<1> HIDE DEF ops
<1>6. /\ ops \in Seq(Operation) /\ Len(h) \in Nat /\ Len(ops) \in Nat
      /\ \A i \in 1 .. Len(h) : ops[i] = h[i]
      /\ \A i \in Len(h) + 1 .. Len(ops) : ops[i].op = "destroy"
  BY <1>5 DEF Destroys
<1>7. ASSUME NEW i \in 1 .. Len(ops)
      PROVE  /\ ops[i].op \in {"destroy", "setStop", "join", "flush", "delete"}
             /\ ops[i].op \in {"join", "flush"} => ops[i].stage \in Aggs
             /\ ops[i].op = "flush" => /\ 2 \in 1 .. i - 1
                                       /\ ops[2] = Op("join", ops[i].stage)
  <2>1. CASE i \in 1 .. Len(h)
    <3>1. ops[i] = h[i]
      BY <1>6, <2>1
    <3>2. /\ h[i].op \in {"setStop", "join", "flush", "delete"} /\ h[i].stage = s
          /\ h[i].op # "delete" => s \in Aggs
          /\ h[i].op = "flush" => i = 3 /\ h[2] = Op("join", s)
      BY <1>4, <2>1
    <3>3. ASSUME i = 3 PROVE 2 \in 1 .. i - 1 /\ ops[2] = h[2]
      <4>1. 2 \in 1 .. Len(h) /\ 2 \in 1 .. i - 1
        BY <1>6, <2>1, <3>3
      <4> QED
        BY <1>6, <4>1
    <3> QED
      BY <3>1, <3>2, <3>3
  <2>2. CASE i \in Len(h) + 1 .. Len(ops)
    BY <1>6, <2>2
  <2> QED
    BY <1>6, <2>1, <2>2
<1>8. \A i \in 1 .. Len(ops) : /\ MayDo("main", ops[i]) /\ ~ Critical(ops[i]) /\ Ending(ops[i])
                               /\ ops[i].op # "lock" /\ ~ Owned(ops[i])
                               /\ ops[i].op \notin {"init", "initSelf"}
  BY <1>7 DEF MayDo, Critical, Owned, OwnedBy, Ending
<1>9. ~ Owned(Op("destroy", s)) /\ Ending(Op("destroy", s)) /\ work["main"][1].op # "join"
  <2>1. work["main"][1].op = "destroy"
    BY <1>1, <1>2, AtIs
  <2> QED
    BY <2>1 DEF Owned, OwnedBy, Op, Ending
<1>10. /\ Stacks' /\ Locks' /\ Pushed(work'["main"], ops, work["main"])
       /\ \A u \in Threads : u # "main" => work'[u] = work[u]
  BY <1>1, <1>2, <1>6, <1>8, <1>9, PlainStep
<1>11. \A i \in 1 .. Len(ops) : ops[i].op = "flush" =>
         \E k \in 1 .. i - 1 : ops[k] = Op("join", ops[i].stage)
  BY <1>7
<1>12. Joins' /\ Fresh' /\ Inits'
  BY <1>1, <1>8, <1>9, <1>10, <1>11, FrameStep
<1> QED
  BY <1>10, <1>12 DEF Core

-----------------------------------------------------------------------------
(* The invariant holds.                                                    *)

LEMMA StackStages ==
  ASSUME NEW w \in Seq(Operation), NEW i \in DOMAIN w
  PROVE  w[i].stage \in Stages \cup {NoStage}
<1>1. w[i] \in Operation
  OBVIOUS
<1> QED
  BY <1>1 DEF Operation

LEMMA InitInvariant ==
  ASSUME Init
  PROVE  IInv
<1> DEFINE w == OpAll("init", Root) \o <<Op("processing", NoStage)>>
           n == Len(Root)
<1>1. /\ "main" \in Threads /\ work["main"] = w
      /\ \A a \in Aggs : work[a] = <<>>
      /\ work = [t \in Threads |-> work[t]]
  BY Names DEF Init, Do, Op
<1>2. "init" \in OpNames /\ Root \in Seq(Stages) /\ Op("processing", NoStage) \in Operation
  BY StageAssumption, OpIs DEF OpNames
<1>3. OpsThen(w, "init", Root, Op("processing", NoStage))
  BY <1>2, OpAllThen
<1> HIDE DEF w
<1>4. /\ w \in Seq(Operation) /\ Len(w) = n + 1 /\ n \in Nat
      /\ \A i \in 1 .. n : w[i] = Op("init", Root[i])
      /\ w[n + 1] = Op("processing", NoStage)
  BY <1>3 DEF OpsThen
<1>5. DOMAIN Root = 1 .. n
  BY <1>2
<1> HIDE DEF n
<1>6. ASSUME NEW i \in 1 .. Len(w)
      PROVE  /\ w[i].op \in {"init", "processing"}
             /\ w[i].op = "init" => w[i].stage \in Stages
             /\ i = n + 1 => Footprint(w[i]) = {}
             /\ i # n + 1 => i \in DOMAIN Root /\ Footprint(w[i]) = Below(Root[i])
  <2>1. CASE i = n + 1
    BY <1>4, <2>1 DEF Op, Footprint
  <2>2. CASE i \in 1 .. n
    <3>1. w[i] = Op("init", Root[i])
      BY <1>4, <2>2
    <3>2. w[i].op = "init" /\ w[i].stage = Root[i] /\ i # n + 1 /\ i \in DOMAIN Root
      BY <1>4, <1>5, <2>2, <3>1 DEF Op
    <3>3. Footprint(w[i]) = Below(Root[i])
      BY <3>2 DEF Footprint
    <3> QED
      BY <3>2, <3>3, RootsApart
  <2> QED
    BY <1>4, <2>1, <2>2
<1>7. \A i \in 1 .. Len(w) : /\ MayDo("main", w[i]) /\ ~ Critical(w[i]) /\ ~ Ending(w[i])
                             /\ w[i].op # "lock" /\ ~ Owned(w[i])
  BY <1>6 DEF MayDo, Critical, Ending, Owned, OwnedBy
<1>8. Shape("main", w)
  <2>1. OwnedPrefix(w) /\ EndPhase(w)
    BY <1>7 DEF OwnedPrefix, EndPhase, Owned
  <2> QED
    BY <1>4, <1>7, <2>1, QuietShape
<1>9. ASSUME NEW t \in Threads
      PROVE  /\ work[t] \in Seq(Operation) /\ Shape(t, work[t])
             /\ \A a \in Aggs : ~ Holds(work[t], a)
  <2>1. CASE t = "main"
    BY <1>1, <1>4, <1>7, <1>8, <2>1 DEF Holds
  <2>2. CASE t \in Aggs
    BY <1>1, <2>2, NewThread
  <2> QED
    BY <2>1, <2>2, Names
<1>10. Stacks
  BY <1>1, <1>9 DEF Stacks
<1>11. Locks
  <2>1. \A a \in Aggs : lock[a] = "free"
    BY DEF Init
  <2> QED
    BY <1>9, <2>1, Names DEF Locks
<1>12. Joins
  <2>1. \A i \in 1 .. Len(w) : w[i].op # "flush"
    BY <1>6
  <2> QED
    BY <1>1, <2>1 DEF Joins, Op
<1>13. Fresh
  <2>1. ASSUME NEW i \in 1 .. Len(w), NEW j \in 1 .. Len(w), i # j
        PROVE  Footprint(w[i]) \cap Footprint(w[j]) = {}
    BY <1>6, <2>1, RootsApart
  <2> QED
    BY <1>1, <2>1 DEF Fresh
<1>14. Inits
  BY <1>1, <1>6 DEF Inits
<1>15. TypeOK
  <2>1. \A t \in Threads : \A i \in DOMAIN work[t] : work[t][i].stage \in Stages \cup {NoStage}
    BY <1>9, StackStages
  <2>2. /\ status \in [Stages -> {"constructed", "ready", "failed", "destroyed"}]
        /\ retVal \in BOOLEAN /\ stopFlag \in BOOLEAN /\ stop \in BOOLEAN /\ once \in BOOLEAN
        /\ timeFrom \in [Aggs -> {"clock", "records"}]
        /\ lock \in [Aggs -> Threads \cup {"free"}]
    BY DEF Init
  <2>3. /\ stored \in [Aggs -> 0 .. MaxStored]
        /\ received \in 0 .. MaxRecords
        /\ eofs \in [Selectors -> Nat]
    BY BoundAssumption DEF Init
  <2> QED
    BY <2>1, <2>2, <2>3 DEF TypeOK
<1> QED
  BY <1>10, <1>11, <1>12, <1>13, <1>14, <1>15 DEF IInv, Core

\* The types of everything but the stacks.
Types ==
  /\ status \in [Stages -> {"constructed", "ready", "failed", "destroyed"}]
  /\ retVal \in BOOLEAN /\ stopFlag \in BOOLEAN /\ stop \in BOOLEAN /\ once \in BOOLEAN
  /\ timeFrom \in [Aggs -> {"clock", "records"}]
  /\ lock \in [Aggs -> Threads \cup {"free"}]
  /\ stored \in [Aggs -> 0 .. MaxStored]
  /\ received \in 0 .. MaxRecords
  /\ eofs \in [Selectors -> Nat]

LEMMA EvaluateSteps ==
  ASSUME IInv, NEW t \in Threads, Evaluate(t)
  PROVE  Core' /\ Types'
<1>1. Types /\ Core
  BY DEF IInv, TypeOK, Types
<1>2. PICK s \in Stages :
        \/ EvalFilter(t, s) \/ EvalAgg(t, s) \/ EvalSelector(t, s) \/ SendOutput(t, s)
        \/ LockStorage(t, s) \/ UnlockStorage(t, s)
  BY DEF Evaluate
<1>3. CASE EvalFilter(t, s)
  BY <1>1, <1>3, FilterSteps DEF EvalFilter, Types, buildVars, flagVars, aggVars, ioVars
<1>4. CASE EvalAgg(t, s)
  <2>1. Core'
    BY <1>1, <1>4, AggEvalSteps
  <2>2. timeFrom' \in [Aggs -> {"clock", "records"}]
    BY <1>1, <1>4 DEF EvalAgg, Types
  <2>3. Types'
    BY <1>1, <1>4, <2>2 DEF EvalAgg, Types, buildVars, ioVars
  <2> QED
    BY <2>1, <2>3
<1>5. CASE EvalSelector(t, s)
  BY <1>1, <1>5, SelectorSteps DEF EvalSelector, Types, buildVars, flagVars, aggVars, ioVars
<1>6. CASE SendOutput(t, s)
  BY <1>1, <1>6, SelectorSteps DEF SendOutput, Types, buildVars, flagVars, aggVars, ioVars
<1>7. CASE LockStorage(t, s)
  BY <1>1, <1>7, LockSteps DEF LockStorage, Types, buildVars, flagVars, ioVars
<1>8. CASE UnlockStorage(t, s)
  BY <1>1, <1>8, UnlockSteps DEF UnlockStorage, Types, buildVars, flagVars, ioVars
<1> QED
  BY <1>2, <1>3, <1>4, <1>5, <1>6, <1>7, <1>8

LEMMA SendOneTypes ==
  ASSUME IInv, NEW t \in Threads, NEW a \in Aggs, NEW name \in {"sweep", "flush"},
         SendOne(t, a, name)
  PROVE  Core' /\ Types'
<1>1. Types /\ Core
  BY DEF IInv, TypeOK, Types
<1>2. Core'
  BY <1>1, SendOneSteps
<1>3. stored[a] \in 0 .. MaxStored /\ stored[a] > 0 /\ MaxStored \in Nat
  BY <1>1, BoundAssumption DEF Types, SendOne
<1>4. stored' = [stored EXCEPT ![a] = stored[a] - 1] /\ stored[a] - 1 \in 0 .. MaxStored
  BY <1>3 DEF SendOne
<1>5. Types'
  BY <1>1, <1>4 DEF SendOne, Types, buildVars, flagVars, ioVars
<1> QED
  BY <1>2, <1>5

LEMMA TimeoutSteps ==
  ASSUME IInv, NEW a \in Aggs, check_timeouts(a)
  PROVE  Core' /\ Types'
<1>0. a \in Threads
  BY Names
<1>1. Types /\ Core
  BY DEF IInv, TypeOK, Types
<1>2. CASE TimerLoop(a)
  BY <1>1, <1>2, TimerSteps DEF TimerLoop, Types, buildVars, flagVars, aggVars, ioVars
<1>3. CASE SendOne(a, a, "sweep")
  BY <1>0, <1>3, SendOneTypes
<1>4. CASE SweepEnds(a)
  BY <1>1, <1>4, SweepEndSteps DEF SweepEnds, Types, buildVars, flagVars, aggVars, ioVars
<1>5. CASE WakeUp(a)
  BY <1>1, <1>5, TimerSteps DEF WakeUp, Types, buildVars, flagVars, aggVars, ioVars
<1>6. CASE Evaluate(a)
  BY <1>0, <1>6, EvaluateSteps
<1> QED
  BY <1>2, <1>3, <1>4, <1>5, <1>6 DEF check_timeouts

LEMMA BuildSteps ==
  ASSUME IInv, Build
  PROVE  Core' /\ Types'
<1>1. Types /\ Core
  BY DEF IInv, TypeOK, Types
<1>2. PICK s \in Stages : InitSuccessors(s) \/ InitStage(s) \/ InitFails(s)
  BY DEF Build
<1>3. CASE InitSuccessors(s)
  BY <1>1, <1>3, InitSuccessorsStep DEF InitSuccessors, Types, buildVars, flagVars, aggVars, ioVars
<1>4. CASE InitStage(s)
  BY <1>1, <1>4, InitStageStep DEF InitStage, Types, flagVars, aggVars, ioVars
<1>5. CASE InitFails(s)
  BY <1>1, <1>5, LastSteps DEF InitFails, Types, flagVars, aggVars, ioVars
<1> QED
  BY <1>2, <1>3, <1>4, <1>5

LEMMA StoreTypes ==
  ASSUME IInv, Store
  PROVE  Core' /\ Types'
<1>1. Types /\ Core
  BY DEF IInv, TypeOK, Types
<1>2. PICK a \in Aggs : StoreNew(a) \/ StoreExisting(a)
  BY DEF Store
<1>3. Core'
  BY <1>1, <1>2, StoreSteps
<1>4. CASE StoreNew(a)
  <2>1. stored[a] \in 0 .. MaxStored /\ stored[a] < MaxStored /\ MaxStored \in Nat
    BY <1>1, <1>4, BoundAssumption DEF Types, StoreNew
  <2>2. stored' = [stored EXCEPT ![a] = stored[a] + 1] /\ stored[a] + 1 \in 0 .. MaxStored
    BY <1>4, <2>1 DEF StoreNew
  <2>3. Types'
    BY <1>1, <1>4, <2>2 DEF StoreNew, Types, buildVars, flagVars, ioVars
  <2> QED
    BY <1>3, <2>3
<1>5. CASE StoreExisting(a)
  BY <1>1, <1>3, <1>5 DEF StoreExisting, Types, buildVars, flagVars, aggVars, ioVars
<1> QED
  BY <1>2, <1>4, <1>5

LEMMA DestroySteps ==
  ASSUME IInv, Destroy
  PROVE  Core' /\ Types'
<1>0. "main" \in Threads /\ Aggs \subseteq Stages
  BY Names
<1>1. Types /\ Core
  BY DEF IInv, TypeOK, Types
<1>2. ASSUME NEW s \in Stages, DestroyStage(s) PROVE Core' /\ Types'
  BY <1>1, <1>2, DestroyStep DEF DestroyStage, Types, buildVars, flagVars, aggVars, ioVars
<1>3. ASSUME NEW s \in Stages, DeleteStage(s) PROVE Core' /\ Types'
  <2>1. Core'
    BY <1>1, <1>3, LastSteps
  <2>2. eofs' \in [Selectors -> Nat]
    <3>1. CASE Kind[s] = "selector"
      <4>1. s \in Selectors /\ eofs' = [eofs EXCEPT ![s] = eofs[s] + 1]
        BY <1>3, <3>1 DEF DeleteStage, Selectors
      <4>2. eofs \in [Selectors -> Nat] /\ eofs[s] + 1 \in Nat
        BY <1>1, <4>1 DEF Types
      <4> QED
        BY <4>1, <4>2
    <3>2. CASE Kind[s] # "selector"
      BY <1>1, <1>3, <3>2 DEF DeleteStage, Types
    <3> QED
      BY <3>1, <3>2
  <2>3. Types'
    BY <1>1, <1>3, <2>2 DEF DeleteStage, Types, flagVars, aggVars
  <2> QED
    BY <2>1, <2>3
<1>4. ASSUME NEW a \in Aggs, SetStop(a) PROVE Core' /\ Types'
  BY <1>0, <1>1, <1>4, LastSteps DEF SetStop, Types, buildVars, aggVars, ioVars
<1>5. ASSUME NEW a \in Aggs, JoinTimeoutThread(a) PROVE Core' /\ Types'
  BY <1>1, <1>5, JoinStep DEF JoinTimeoutThread, Types, buildVars, flagVars, aggVars, ioVars
<1>6. ASSUME NEW a \in Aggs, SendOne("main", a, "flush") PROVE Core' /\ Types'
  BY <1>0, <1>6, SendOneTypes
<1>7. ASSUME NEW a \in Aggs, FlushEnds(a) PROVE Core' /\ Types'
  BY <1>0, <1>1, <1>7, LastSteps DEF FlushEnds, Types, buildVars, flagVars, aggVars, ioVars
<1> QED
  BY <1>2, <1>3, <1>4, <1>5, <1>6, <1>7 DEF Destroy

\* A step of the signal handler, or no step at all.
LEMMA QuietSteps ==
  ASSUME IInv, my_signal_handler \/ UNCHANGED vars
  PROVE  Core' /\ Types'
<1>1. Types /\ Stacks /\ Locks /\ Joins /\ Fresh /\ Inits
  BY DEF IInv, TypeOK, Types, Core
<1>2. work' = work /\ lock' = lock
  BY DEF my_signal_handler, aggVars, vars
<1>3. Stacks' /\ Locks'
  BY <1>1, <1>2 DEF Stacks, Locks
<1>4. Joins' /\ Fresh' /\ Inits'
  BY <1>1, <1>2 DEF Joins, Fresh, Inits
<1>5. Types'
  BY <1>1 DEF my_signal_handler, Types, vars, buildVars, aggVars, ioVars
<1> QED
  BY <1>3, <1>4, <1>5 DEF Core

LEMMA InvariantStep ==
  ASSUME IInv, [Next]_vars
  PROVE  IInv'
<1>0. "main" \in Threads
  BY Names
<1>1. Types /\ Core
  BY DEF IInv, TypeOK, Types
<1>2. Core' /\ Types'
  <2>1. CASE Build
    BY <2>1, BuildSteps
  <2>2. CASE BuildFailed \/ LeaveLoop
    BY <1>1, <2>2, LeaveSteps
       DEF BuildFailed, LeaveLoop, Types, buildVars, flagVars, aggVars, ioVars
  <2>3. CASE ReceiveRecord
    <3>1. received + 1 \in 0 .. MaxRecords
      BY <1>1, <2>3, BoundAssumption DEF Types, ReceiveRecord
    <3> QED
      BY <1>1, <2>3, <3>1, ReceiveStep DEF ReceiveRecord, Types, buildVars, flagVars, aggVars
  <2>4. CASE my_signal_handler \/ UNCHANGED vars
    BY <2>4, QuietSteps
  <2>5. CASE Evaluate("main")
    BY <1>0, <2>5, EvaluateSteps
  <2>6. CASE Store
    BY <2>6, StoreTypes
  <2>7. CASE Destroy
    BY <2>7, DestroySteps
  <2>8. CASE \E a \in Aggs : check_timeouts(a)
    BY <2>8, TimeoutSteps
  <2> QED
    BY <2>1, <2>2, <2>3, <2>4, <2>5, <2>6, <2>7, <2>8 DEF Next
<1>3. \A t \in Threads : \A i \in DOMAIN work'[t] : work'[t][i].stage \in Stages \cup {NoStage}
  <2>1. \A t \in Threads : work'[t] \in Seq(Operation)
    BY <1>2 DEF Core, Stacks
  <2> QED
    BY <2>1, StackStages
<1>4. TypeOK'
  BY <1>2, <1>3 DEF TypeOK, Types
<1> QED
  BY <1>2, <1>4 DEF IInv

LEMMA InvariantHolds == Spec => []IInv
<1>1. Init => IInv
  BY InitInvariant
<1>2. IInv /\ [Next]_vars => IInv'
  BY InvariantStep
<1> QED
  BY <1>1, <1>2, PTL DEF Spec

-----------------------------------------------------------------------------
(* The theorems.                                                           *)

\* The state of the backend is always of its type: the stacks name stages, and a
\* storage neither loses an aggregate it does not have nor grows past its bound.
THEOREM TypeCorrect == Spec => []TypeOK
<1>1. IInv => TypeOK
  BY DEF IInv
<1> QED
  BY <1>1, InvariantHolds, PTL

LEMMA FlushInvariant ==
  ASSUME IInv
  PROVE  FlushNeedsNoMutex
<1>1. Stacks /\ Locks /\ Joins /\ lock \in [Aggs -> Threads \cup {"free"}] /\ "main" \in Threads
  BY Names DEF IInv, Core, TypeOK
<1> SUFFICES ASSUME NEW a \in Aggs, At("main", "flush", a)
             PROVE  lock[a] = "free" /\ work[a] = <<>>
  BY DEF FlushNeedsNoMutex
<1> DEFINE w == work["main"]
<1>2. /\ w[1] = Op("flush", a) /\ w[1].op = "flush" /\ 1 \in 1 .. Len(w) /\ Shape("main", w)
  BY <1>1, AtIs
<1>3. work[a] = <<>>
  BY <1>1, <1>2 DEF Joins
<1>4. ASSUME NEW t \in Threads, lock[a] = t
      PROVE  FALSE
  <2>1. PICK j \in 1 .. Len(work[t]) : Critical(work[t][j]) /\ work[t][j].stage = a
    BY <1>1, <1>4 DEF Locks, Holds
  <2>2. CASE t = "main"
    <3>1. Ending(w[j]) \/ Owned(w[j])
      BY <1>2, <2>1, <2>2 DEF Shape, EndPhase, Ending
    <3> QED
      BY <2>1, <2>2, <3>1 DEF Critical, Ending, Owned, OwnedBy
  <2>3. CASE t # "main"
    <3>1. MayDo(t, work[t][j])
      BY <1>1, <2>1 DEF Stacks, Shape
    <3>2. t = a
      BY <2>1, <2>3, <3>1 DEF MayDo, Critical, OwnedBy
    <3> QED
      BY <1>3, <2>1, <3>2
  <2> QED
    BY <2>2, <2>3
<1>5. lock[a] \in Threads \cup {"free"}
  BY <1>1
<1> QED
  BY <1>3, <1>4, <1>5

\* For every tree of stages, ~Agg may flush its storage without the storage_mutex:
\* nobody holds it and the timeout thread has ended (aggregator.cpp:584-586).
THEOREM FlushNeedsNoMutexTheorem == Spec => []FlushNeedsNoMutex
<1>1. IInv => FlushNeedsNoMutex
  BY FlushInvariant
<1> QED
  BY <1>1, InvariantHolds, PTL

\* A thread in a stage that a feeds holds the mutex of a, or is the main thread
\* flushing a, whose timeout thread has ended.
LEMMA FedUnderMutex ==
  ASSUME IInv, NEW t \in Threads, NEW s \in Stages, Evaluating(t, s),
         NEW a \in Aggs, Feeds(a, s)
  PROVE  lock[a] = t \/ (t = "main" /\ work[a] = <<>>)
<1>1. Stacks /\ Locks /\ Joins
  BY DEF IInv, Core
<1> DEFINE w == work[t]
<1>2. /\ Shape(t, w) /\ Len(w) \in Nat /\ 1 \in 1 .. Len(w)
      /\ w[1].op \in {"eval", "send"} /\ w[1].stage = s
  <2>1. PICK name \in {"eval", "send"} : At(t, name, s)
    BY DEF Evaluating
  <2> QED
    BY <1>1, <2>1, AtIs
<1>3. PICK j \in 2 .. Len(w) : /\ w[j].op \in {"unlock", "sweep", "flush"}
                               /\ w[j].stage = a
                               /\ \A k \in 1 .. j - 1 : Owned(w[k])
  <2>1. OwnedBy(w[1], a)
    BY <1>2 DEF OwnedBy
  <2> QED
    BY <1>2, <2>1 DEF Shape, OwnedPrefix
<1>4. j \in 1 .. Len(w) /\ MayDo(t, w[j]) /\ w[j] \in Operation
  BY <1>2, <1>3 DEF Shape
<1>5. CASE Critical(w[j])
  <2>1. Holds(w, a)
    BY <1>2, <1>3, <1>4, <1>5 DEF Holds
  <2> QED
    BY <1>1, <2>1 DEF Locks
<1>6. CASE w[j].op = "flush"
  <2>1. t = "main"
    BY <1>4, <1>6 DEF MayDo, OwnedBy
  <2>2. w[j] = Op("flush", a)
    BY <1>3, <1>4, <1>6 DEF Op, Operation
  <2>3. \A k \in 1 .. j - 1 : w[k] # Op("join", a)
    BY <1>3 DEF Owned, OwnedBy, Op
  <2> QED
    BY <1>1, <1>4, <2>1, <2>2, <2>3 DEF Joins
<1> QED
  BY <1>3, <1>5, <1>6 DEF Critical

LEMMA OneThreadInvariant ==
  ASSUME IInv
  PROVE  OneThreadPerStage
<1>1. Stacks
  BY DEF IInv, Core
\* A timeout thread is in a stage that its own aggregator feeds.
<1>2. ASSUME NEW t \in Threads, t # "main", NEW s \in Stages, Evaluating(t, s)
      PROVE  t \in Aggs /\ Feeds(t, s) /\ work[t] # <<>>
  <2>1. PICK name \in {"eval", "send"} : At(t, name, s)
    BY <1>2 DEF Evaluating
  <2>2. /\ MayDo(t, work[t][1]) /\ work[t][1].op = name /\ work[t][1].stage = s
        /\ work[t] # <<>>
    BY <1>1, <2>1, AtIs
  <2> QED
    BY <1>2, <2>2, Names DEF MayDo, OwnedBy
\* The other thread is then the main thread, and one of them holds the mutex.
<1>3. ASSUME NEW t \in Threads, NEW u \in Threads, t # u, u # "main",
             NEW s \in Stages, Evaluating(t, s), Evaluating(u, s)
      PROVE  FALSE
  <2>1. u \in Aggs /\ Feeds(u, s) /\ work[u] # <<>>
    BY <1>2, <1>3
  <2>2. t = "main"
    BY <1>2, <1>3, <2>1, OneFeeds
  <2>3. lock[u] = t /\ lock[u] = u
    BY <1>3, <2>1, FedUnderMutex
  <2> QED
    BY <1>3, <2>3
<1> SUFFICES ASSUME NEW t \in Threads, NEW u \in Threads, NEW s \in Stages, t # u,
                    Evaluating(t, s), Evaluating(u, s)
             PROVE  FALSE
  BY DEF OneThreadPerStage
<1> QED
  BY <1>3

\* For every tree of stages no stage is ever evaluated by two threads at once: the
\* output record of a selector and the buffer of a filter need no mutex of their own.
THEOREM OneThreadPerStageTheorem == Spec => []OneThreadPerStage
<1>1. IInv => OneThreadPerStage
  BY OneThreadInvariant
<1> QED
  BY <1>1, InvariantHolds, PTL
=============================================================================
