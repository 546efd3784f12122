-------------------------- MODULE RuleCompilerProofs --------------------------
(***************************************************************************)
(* Proofs about RuleCompiler, for all rules that the grammar delivers: the *)
(* visitors forget what they have noted in one branch before they come to  *)
(* the next one, and the Builder adds stages to vectors that exist.        *)
(* What the checkers accept and what the Builder builds is therefore said  *)
(* place by place, without any visitor: see RulePlaces.                    *)
(***************************************************************************)
EXTENDS RulePlaces, BitsProofs, SequenceTheorems, FiniteSetTheorems, TLAPS

-----------------------------------------------------------------------------
(* The kinds of nodes.                                                     *)

LEMMA DepthIs ==
  /\ Depth("program") = 1 /\ Depth("main") = 2 /\ Depth("filter") = 3
  /\ Depth("grouper") = 4 /\ Depth("window") = 5 /\ Depth("aggregator") = 6
  /\ Depth("group-filter") = 7 /\ Depth("selector") = 8
<1>1. ASSUME NEW i \in 1 .. 8 PROVE Depth(Kinds[i]) = i
  <2>1. \A j \in DOMAIN Kinds : Kinds[j] = Kinds[i] <=> j = i
    BY DEF Kinds
  <2>2. QED
    BY <2>1 DEF Depth, Kinds
<1>2. QED
  BY <1>1 DEF Kinds

LEMMA KindIs ==
  ASSUME NEW k \in ToSet(Kinds)
  PROVE  k \in {"program", "main", "filter", "grouper", "window", "aggregator",
                "group-filter", "selector"}
BY DEF ToSet, Kinds

-----------------------------------------------------------------------------
(* The elements of sequences.                                              *)

LEMMA SeqIs ==
  ASSUME NEW S, NEW s \in Seq(S)
  PROVE  Len(s) \in Nat /\ DOMAIN s = 1 .. Len(s) /\ \A i \in 1 .. Len(s) : s[i] \in S
OBVIOUS

LEMMA ToSetConcat ==
  ASSUME NEW S, NEW s \in Seq(S), NEW t \in Seq(S)
  PROVE  ToSet(s \o t) = ToSet(s) \cup ToSet(t)
<1>1. /\ DOMAIN s = 1 .. Len(s) /\ DOMAIN t = 1 .. Len(t)
      /\ DOMAIN (s \o t) = 1 .. Len(s) + Len(t)
      /\ Len(s) \in Nat /\ Len(t) \in Nat
  OBVIOUS
<1>2. \A i \in 1 .. Len(s) : (s \o t)[i] = s[i]
  OBVIOUS
<1>3. \A i \in 1 .. Len(t) : (s \o t)[Len(s) + i] = t[i]
  OBVIOUS
<1>4. \A i \in 1 .. Len(s) + Len(t) : i \in 1 .. Len(s) \/ \E j \in 1 .. Len(t) : i = Len(s) + j
  <2>1. TAKE i \in 1 .. Len(s) + Len(t)
  <2>2. CASE i > Len(s)
    <3>1. i - Len(s) \in 1 .. Len(t) /\ i = Len(s) + (i - Len(s))
      BY <1>1, <2>2
    <3>2. QED
      BY <3>1
  <2>3. QED
    BY <1>1, <2>2
<1>5. \A i \in 1 .. Len(t) : Len(s) + i \in 1 .. Len(s) + Len(t)
  BY <1>1
<1>6. \A i \in 1 .. Len(s) : i \in 1 .. Len(s) + Len(t)
  BY <1>1
<1>7. ToSet(s \o t) \subseteq ToSet(s) \cup ToSet(t)
  <2>1. SUFFICES ASSUME NEW i \in 1 .. Len(s) + Len(t)
                 PROVE  (s \o t)[i] \in ToSet(s) \cup ToSet(t)
    BY <1>1 DEF ToSet
  <2>2. CASE i \in 1 .. Len(s)
    BY <1>1, <1>2, <2>2 DEF ToSet
  <2>3. CASE \E j \in 1 .. Len(t) : i = Len(s) + j
    BY <1>1, <1>3, <2>3 DEF ToSet
  <2>4. QED
    BY <1>4, <2>2, <2>3
<1>8. ToSet(s) \subseteq ToSet(s \o t)
  BY <1>1, <1>2, <1>6 DEF ToSet
<1>9. ToSet(t) \subseteq ToSet(s \o t)
  BY <1>1, <1>3, <1>5 DEF ToSet
<1>10. QED
  BY <1>7, <1>8, <1>9

LEMMA ToSetHeadTail ==
  ASSUME NEW S, NEW s \in Seq(S), s # <<>>
  PROVE  ToSet(s) = {Head(s)} \cup ToSet(Tail(s))
<1>1. /\ Len(s) \in Nat \ {0} /\ DOMAIN s = 1 .. Len(s)
      /\ DOMAIN Tail(s) = 1 .. Len(s) - 1 /\ Head(s) = s[1]
      /\ \A i \in 1 .. Len(s) - 1 : Tail(s)[i] = s[i + 1]
  OBVIOUS
<1>2. 1 .. Len(s) = {1} \cup {i + 1 : i \in 1 .. Len(s) - 1}
  <2>1. \A i \in 1 .. Len(s) : i = 1 \/ (i - 1 \in 1 .. Len(s) - 1 /\ i = (i - 1) + 1)
    BY <1>1
  <2>2. 1 .. Len(s) \subseteq {1} \cup {i + 1 : i \in 1 .. Len(s) - 1}
    BY <2>1
  <2>3. {1} \cup {i + 1 : i \in 1 .. Len(s) - 1} \subseteq 1 .. Len(s)
    BY <1>1
  <2>4. QED
    BY <2>2, <2>3
<1>3. {s[i] : i \in 1 .. Len(s)} = {s[1]} \cup {s[i + 1] : i \in 1 .. Len(s) - 1}
  BY <1>2
<1>4. {s[i + 1] : i \in 1 .. Len(s) - 1} = {Tail(s)[i] : i \in 1 .. Len(s) - 1}
  BY <1>1
<1>5. QED
  BY <1>1, <1>3, <1>4 DEF ToSet

-----------------------------------------------------------------------------
(* The walk.                                                               *)

Name     == {None} \cup STRING
Function == [name : STRING, func : STRING, param : Name]
WorkItem == [op : {"visit", "leave"}, node : Nodes, path : Seq(Name)]

\* The kinds of nodes to which the visitor of a pass returns.
Returns(p) ==
  CASE p = "check" -> {"filter", "grouper", "window", "aggregator", "group-filter"}
    [] p = "alias" -> {"aggregator"}
    [] p = "build" -> {"main", "filter", "grouper", "window", "aggregator", "group-filter"}
    [] OTHER       -> {}

\* Only outermost branches are left, and they have paths of one name.
PlaceOK(item, p) ==
  LET kind == item.node.kind IN
  /\ kind = "program" => item.path = <<>>
  /\ kind = "main"    => item.path # <<>>
  /\ item.op = "leave" => /\ kind \in Returns(p)
                          /\ kind = "main" => Len(item.path) = 1

\* What comes before a node to leave is inside it.
Inside(a, b) ==
  \/ Depth(b.node.kind) < Depth(a.node.kind)
  \/ /\ a.op = "visit" /\ a.node.kind = "main" /\ Len(a.path) > 1
     /\ b.node.kind = "main"

\* What is inside an outermost branch.
Deep(item) ==
  \/ Depth(item.node.kind) > 2
  \/ item.node.kind = "main" /\ Len(item.path) > 1
EndsMain(item) == item.op = "leave" /\ item.node.kind = "main"

WorkOK(w, p) ==
  /\ w \in Seq(WorkItem)
  /\ \A i \in 1 .. Len(w) : PlaceOK(w[i], p)
  /\ \A i, j \in 1 .. Len(w) : i < j /\ w[j].op = "leave" => Inside(w[i], w[j])
  /\ p = "build" =>
       \A i \in 1 .. Len(w) :
         Deep(w[i]) => \E j \in i .. Len(w) : EndsMain(w[j])

EnteredIn(w) == {item \in ToSet(w) : item.op = "leave"}

LEMMA NodeIs ==
  ASSUME NEW n \in Nodes
  PROVE  /\ n.kind \in ToSet(Kinds)
         /\ n.next \in Seq([name : Name, node : Nodes])
         /\ \A i \in 1 .. Len(n.next) : Follows(n.next[i], n)
         /\ n.kind = "grouper" => n.body \in Seq(STRING) /\ n.body # <<>>
         /\ n.kind = "aggregator" =>
              n.body \in Seq(Function) /\ n.body # <<>>
<1>1. n.next \in Seq([name : Name, node : Nodes])
  BY GrammarAssumption DEF Grammar, Name
<1>2. DOMAIN n.next = 1 .. Len(n.next)
  BY <1>1
<1>3. QED
  BY <1>1, <1>2, GrammarAssumption DEF Grammar, Name, Function

LEMMA PathLengths ==
  ASSUME NEW q \in Seq(Name)
  PROVE  /\ Len(q) = 1 => ~ (Len(q) > 1)
         /\ q # <<>> /\ Len(q) # 1 => Len(q) > 1
<1> DEFINE n == Len(q)
<1>1. n \in Nat /\ (q # <<>> => n # 0)
  OBVIOUS
<1> HIDE DEF n
<1>2. (n = 1 => ~ (n > 1)) /\ (n # 0 /\ n # 1 => n > 1)
  BY <1>1
<1>3. QED
  BY <1>1, <1>2 DEF n

LEMMA ItemIs ==
  ASSUME NEW a \in WorkItem
  PROVE  /\ a.node \in Nodes /\ a.path \in Seq(Name) /\ a.op \in {"visit", "leave"}
         /\ a.node.kind \in ToSet(Kinds) /\ Depth(a.node.kind) \in 1 .. 8
<1>1. a.node \in Nodes /\ a.path \in Seq(Name) /\ a.op \in {"visit", "leave"}
  BY DEF WorkItem
<1>2. a.node.kind \in ToSet(Kinds)
  BY <1>1, NodeIs
<1>3. QED
  BY <1>1, <1>2, KindIs, DepthIs

\* What comes after what is left does not depend on it.
LEMMA SkipWork ==
  ASSUME NEW p, NEW w, WorkOK(w, p), w # <<>>
  PROVE  /\ WorkOK(Tail(w), p)
         /\ Head(w) \in WorkItem /\ PlaceOK(Head(w), p)
         /\ \A i \in 1 .. Len(Tail(w)) :
              Tail(w)[i].op = "leave" => Inside(Head(w), Tail(w)[i])
         /\ p = "build" /\ Deep(Head(w)) /\ ~ EndsMain(Head(w)) =>
              \E j \in 1 .. Len(Tail(w)) : EndsMain(Tail(w)[j])
<1>1. /\ w \in Seq(WorkItem) /\ Len(w) \in Nat \ {0}
      /\ Tail(w) \in Seq(WorkItem) /\ Len(Tail(w)) = Len(w) - 1
      /\ Head(w) = w[1] /\ w[1] \in WorkItem
      /\ \A i \in 1 .. Len(Tail(w)) : Tail(w)[i] = w[i + 1] /\ i + 1 \in 1 .. Len(w)
  BY DEF WorkOK
<1>2. \A i \in 1 .. Len(Tail(w)) : PlaceOK(Tail(w)[i], p)
  BY <1>1 DEF WorkOK
<1>3. \A i, j \in 1 .. Len(Tail(w)) :
        i < j /\ Tail(w)[j].op = "leave" => Inside(Tail(w)[i], Tail(w)[j])
  BY <1>1 DEF WorkOK
<1>4. ASSUME p = "build", NEW i \in 1 .. Len(w), Deep(w[i]), ~ EndsMain(w[i])
      PROVE  \E j \in i .. Len(Tail(w)) : EndsMain(Tail(w)[j])
  <2>1. PICK k \in i .. Len(w) : EndsMain(w[k])
    BY <1>4 DEF WorkOK
  <2>2. k # i
    BY <1>4, <2>1
  <2>3. k - 1 \in i .. Len(Tail(w)) /\ k - 1 + 1 = k /\ k - 1 \in 1 .. Len(Tail(w))
    BY <1>1, <2>2
  <2>4. QED
    BY <1>1, <2>1, <2>3
<1>5. ASSUME p = "build", NEW i \in 1 .. Len(Tail(w)), Deep(Tail(w)[i])
      PROVE  \E j \in i .. Len(Tail(w)) : EndsMain(Tail(w)[j])
  <2>1. PICK k \in i + 1 .. Len(w) : EndsMain(w[k])
    BY <1>1, <1>5 DEF WorkOK
  <2>2. k - 1 \in i .. Len(Tail(w)) /\ k - 1 + 1 = k /\ k - 1 \in 1 .. Len(Tail(w))
    BY <1>1
  <2>3. QED
    BY <1>1, <2>1, <2>2
<1>6. WorkOK(Tail(w), p)
  BY <1>1, <1>2, <1>3, <1>5 DEF WorkOK
<1>7. PlaceOK(w[1], p)
  BY <1>1 DEF WorkOK
<1>8. \A i \in 1 .. Len(Tail(w)) : Tail(w)[i].op = "leave" => Inside(w[1], Tail(w)[i])
  BY <1>1 DEF WorkOK
<1>9. p = "build" /\ Deep(w[1]) /\ ~ EndsMain(w[1]) =>
        \E j \in 1 .. Len(Tail(w)) : EndsMain(Tail(w)[j])
  BY <1>1, <1>4
<1>10. QED
  BY <1>1, <1>6, <1>7, <1>8, <1>9

\* A visitor leaves the innermost of the stages that it has entered.
LEMMA LeaveWork ==
  ASSUME NEW p, NEW w, WorkOK(w, p), w # <<>>
  PROVE  /\ Head(w).op = "visit" => EnteredIn(w) = EnteredIn(Tail(w))
         /\ Head(w).op = "leave" =>
              /\ EnteredIn(w) = EnteredIn(Tail(w)) \cup {Head(w)}
              /\ \A e \in EnteredIn(Tail(w)) : Depth(e.node.kind) < Depth(Head(w).node.kind)
<1>1. ToSet(w) = {Head(w)} \cup ToSet(Tail(w))
  BY ToSetHeadTail DEF WorkOK
<1>2. DOMAIN Tail(w) = 1 .. Len(Tail(w))
  BY SkipWork DEF WorkOK
<1>3. \A e \in EnteredIn(Tail(w)) : Inside(Head(w), e)
  BY <1>2, SkipWork DEF EnteredIn, ToSet
<1>4. QED
  BY <1>1, <1>3 DEF EnteredIn, Inside

\* The items that are put before the rest.
Before(w, more, p) ==
  /\ more \in Seq(WorkItem)
  /\ \A i \in 1 .. Len(more) : PlaceOK(more[i], p)
  /\ \A i, j \in 1 .. Len(more) : i < j /\ more[j].op = "leave" => Inside(more[i], more[j])
  /\ \A i \in 1 .. Len(more), j \in 1 .. Len(w) : w[j].op = "leave" => Inside(more[i], w[j])
  /\ p = "build" =>
       \A i \in 1 .. Len(more) : Deep(more[i]) =>
         \/ \E j \in i .. Len(more) : EndsMain(more[j])
         \/ \E j \in 1 .. Len(w) : EndsMain(w[j])

LEMMA PutBefore ==
  ASSUME NEW p, NEW w, WorkOK(w, p), NEW more, Before(w, more, p)
  PROVE  WorkOK(more \o w, p) /\ EnteredIn(more \o w) = EnteredIn(more) \cup EnteredIn(w)
<1> DEFINE v == more \o w
           m == Len(more)
<1>1. /\ more \in Seq(WorkItem) /\ w \in Seq(WorkItem)
      /\ m \in Nat /\ Len(w) \in Nat
      /\ v \in Seq(WorkItem) /\ Len(v) = m + Len(w)
  BY DEF WorkOK, Before
<1>2. \A i \in 1 .. m : v[i] = more[i] /\ i \in 1 .. Len(v)
  BY <1>1
<1>3. \A i \in 1 .. Len(w) : v[m + i] = w[i] /\ m + i \in 1 .. Len(v)
  BY <1>1
<1>4. \A i \in 1 .. Len(v) : i \in 1 .. m \/ (i - m \in 1 .. Len(w) /\ v[i] = w[i - m] /\ i > m)
  <2>1. TAKE i \in 1 .. Len(v)
  <2>2. CASE i > m
    <3>1. i - m \in 1 .. Len(w) /\ m + (i - m) = i
      BY <1>1, <2>2
    <3>2. QED
      BY <1>3, <2>2, <3>1
  <2>3. QED
    BY <1>1, <2>2
<1> HIDE DEF v, m
<1>5. ASSUME NEW i \in 1 .. Len(v) PROVE PlaceOK(v[i], p)
  BY <1>2, <1>4 DEF WorkOK, Before, m
<1>6. ASSUME NEW i \in 1 .. Len(v), NEW j \in 1 .. Len(v), i < j, v[j].op = "leave"
      PROVE  Inside(v[i], v[j])
  <2>1. CASE i \in 1 .. m /\ j \in 1 .. m
    BY <1>2, <1>6, <2>1 DEF Before, m
  <2>2. CASE i \in 1 .. m /\ ~ j \in 1 .. m
    BY <1>2, <1>4, <1>6, <2>2 DEF Before, m
  <2>3. CASE ~ i \in 1 .. m
    <3>1. ~ j \in 1 .. m
      BY <1>1, <1>6, <2>3
    <3>2. i - m \in 1 .. Len(w) /\ j - m \in 1 .. Len(w) /\ i - m < j - m
          /\ v[i] = w[i - m] /\ v[j] = w[j - m]
      BY <1>1, <1>4, <1>6, <2>3, <3>1
    <3>3. QED
      BY <1>6, <3>2 DEF WorkOK
  <2>4. QED
    BY <2>1, <2>2, <2>3
<1>7. ASSUME p = "build", NEW i \in 1 .. Len(v), Deep(v[i])
      PROVE  \E j \in i .. Len(v) : EndsMain(v[j])
  <2>1. CASE i \in 1 .. m
    <3>1. CASE \E j \in i .. m : EndsMain(more[j])
      <4>1. PICK j \in i .. m : EndsMain(more[j])
        BY <3>1
      <4>2. j \in 1 .. m /\ j \in i .. Len(v)
        BY <1>1, <2>1
      <4>3. QED
        BY <1>2, <4>1, <4>2
    <3>2. CASE \E j \in 1 .. Len(w) : EndsMain(w[j])
      <4>1. PICK j \in 1 .. Len(w) : EndsMain(w[j])
        BY <3>2
      <4>2. m + j \in i .. Len(v)
        BY <1>1, <2>1
      <4>3. QED
        BY <1>3, <4>1, <4>2
    <3>3. QED
      BY <1>2, <1>7, <2>1, <3>1, <3>2 DEF Before, m
  <2>2. CASE ~ i \in 1 .. m
    <3>1. i - m \in 1 .. Len(w) /\ v[i] = w[i - m]
      BY <1>4, <2>2
    <3>2. PICK j \in i - m .. Len(w) : EndsMain(w[j])
      BY <1>7, <3>1 DEF WorkOK
    <3>3. j \in 1 .. Len(w) /\ m + j \in i .. Len(v)
      BY <1>1, <3>1
    <3>4. QED
      BY <1>3, <3>2, <3>3
  <2>3. QED
    BY <2>1, <2>2
<1>8. WorkOK(v, p)
  BY <1>1, <1>5, <1>6, <1>7 DEF WorkOK
<1>9. ToSet(v) = ToSet(more) \cup ToSet(w)
  BY <1>1, ToSetConcat DEF v
<1>10. QED
  BY <1>8, <1>9 DEF EnteredIn, v

\* Branches are visited inside their node; the successors of the program are
\* outermost branches.
LEMMA SuccessorsAre ==
  ASSUME NEW n \in Nodes, NEW q \in Seq(Name), n.kind = "main" => q # <<>>,
         n.kind = "program" => q = <<>>
  PROVE  /\ Successors(n, q) \in Seq(WorkItem)
         /\ \A i \in 1 .. Len(Successors(n, q)) :
              LET a == Successors(n, q)[i] IN
              /\ a.op = "visit" /\ \A p : PlaceOK(a, p)
              /\ \/ Depth(n.kind) < Depth(a.node.kind)
                 \/ n.kind = "main" /\ a.node.kind = "main" /\ Len(a.path) > 1
              /\ n.kind = "program" => ~ Deep(a)
<1> DEFINE N == Len(n.next)
           Path(i) == IF n.next[i].name = None THEN q ELSE Append(q, n.next[i].name)
           A(i) == Item("visit", n.next[i].node, Path(i))
<1>1. /\ N \in Nat /\ DOMAIN n.next = 1 .. N
      /\ \A i \in 1 .. N : n.next[i] \in [name : Name, node : Nodes] /\ Follows(n.next[i], n)
  <2>1. n.next \in Seq([name : Name, node : Nodes])
    BY NodeIs
  <2>2. N \in Nat /\ DOMAIN n.next = 1 .. N
        /\ \A i \in 1 .. N : n.next[i] \in [name : Name, node : Nodes]
    BY <2>1, SeqIs
  <2>3. \A i \in 1 .. N : Follows(n.next[i], n)
    BY NodeIs
  <2>4. QED
    BY <2>2, <2>3
<1>2. Successors(n, q) = [i \in 1 .. N |-> A(i)]
  BY <1>1 DEF Successors
<1>3. ASSUME NEW i \in 1 .. N
      PROVE  /\ A(i) \in WorkItem /\ A(i).op = "visit" /\ \A p : PlaceOK(A(i), p)
             /\ \/ Depth(n.kind) < Depth(A(i).node.kind)
                \/ n.kind = "main" /\ A(i).node.kind = "main" /\ Len(A(i).path) > 1
             /\ n.kind = "program" => ~ Deep(A(i))
  <2> DEFINE m == n.next[i].node
             k == n.next[i].name
  <2>1. m \in Nodes /\ k \in Name /\ Follows(n.next[i], n)
    BY <1>1
  <2>2. Path(i) \in Seq(Name)
    BY <2>1
  <2>3. /\ A(i) = [op |-> "visit", node |-> m, path |-> Path(i)]
        /\ A(i) \in WorkItem
    BY <2>1, <2>2 DEF Item, WorkItem
  <2>4. m.kind \in ToSet(Kinds) /\ n.kind \in ToSet(Kinds)
    BY <2>1, NodeIs
  <2>5. m.kind = "main" => Path(i) = Append(q, k)
    BY <2>1 DEF Follows
  <2>6. m.kind = "main" => Path(i) # <<>> /\ Len(Path(i)) = Len(q) + 1
    BY <2>1, <2>5
  <2>7. n.kind = "main" /\ m.kind = "main" => Len(Path(i)) > 1
    <3>1. n.kind = "main" => Len(q) > 0
      OBVIOUS
    <3>2. QED
      BY <2>6, <3>1
  <2>8. m.kind # "program"
    <3>1. Depth(m.kind) > Depth(n.kind) \/ m.kind = "main"
      BY <2>1 DEF Follows
    <3>2. Depth(n.kind) \in 1 .. 8
      BY <2>4, KindIs, DepthIs
    <3>3. QED
      BY <3>1, <3>2, DepthIs
  <2>9. \A p : PlaceOK(A(i), p)
    BY <2>3, <2>6, <2>8 DEF PlaceOK
  <2>10. \/ Depth(n.kind) < Depth(m.kind)
         \/ n.kind = "main" /\ m.kind = "main" /\ Len(Path(i)) > 1
    BY <2>1, <2>7 DEF Follows
  <2>11. ASSUME n.kind = "program" PROVE ~ Deep(A(i))
    <3>1. m.kind = "main"
      BY <2>1, <2>11 DEF Follows
    <3>2. Len(Path(i)) = 1
      BY <2>6, <2>11, <3>1
    <3>3. QED
      <4>1. ~ (Len(A(i).path) > 1)
        BY <2>2, <2>3, <3>2, PathLengths
      <4>2. ~ (Depth(A(i).node.kind) > 2)
        BY <2>3, <3>1, DepthIs
      <4>3. QED
        BY <4>1, <4>2 DEF Deep
  <2>12. QED
    BY <2>3, <2>9, <2>10, <2>11
<1> HIDE DEF A, N
<1>4. Successors(n, q) \in Seq(WorkItem) /\ Len(Successors(n, q)) = N
  BY <1>1, <1>2, <1>3
<1>5. QED
  BY <1>2, <1>3, <1>4

\* A node whose successors are visited and that is not left.
LEMMA DescendWork ==
  ASSUME NEW p, NEW w, WorkOK(w, p), w # <<>>, Head(w).op = "visit",
         p = "build" => ~ (Head(w).node.kind = "main" /\ Len(Head(w).path) = 1)
  PROVE  LET v == Successors(Head(w).node, Head(w).path) \o Tail(w)
         IN WorkOK(v, p) /\ EnteredIn(v) = EnteredIn(w)
<1> DEFINE a == Head(w)
           n == a.node
           more == Successors(n, a.path)
<1>1. /\ WorkOK(Tail(w), p) /\ a \in WorkItem /\ PlaceOK(a, p)
      /\ \A i \in 1 .. Len(Tail(w)) : Tail(w)[i].op = "leave" => Inside(a, Tail(w)[i])
      /\ p = "build" /\ Deep(a) /\ ~ EndsMain(a) =>
           \E j \in 1 .. Len(Tail(w)) : EndsMain(Tail(w)[j])
  BY SkipWork
<1>2. n \in Nodes /\ a.path \in Seq(Name) /\ n.kind \in ToSet(Kinds)
  BY <1>1, NodeIs DEF WorkItem
<1>3. /\ more \in Seq(WorkItem)
      /\ \A i \in 1 .. Len(more) :
           /\ more[i].op = "visit" /\ PlaceOK(more[i], p)
           /\ \/ Depth(n.kind) < Depth(more[i].node.kind)
              \/ n.kind = "main" /\ more[i].node.kind = "main" /\ Len(more[i].path) > 1
           /\ n.kind = "program" => ~ Deep(more[i])
  <2>1. (n.kind = "main" => a.path # <<>>) /\ (n.kind = "program" => a.path = <<>>)
    BY <1>1 DEF PlaceOK
  <2>2. QED
    BY <1>2, <2>1, SuccessorsAre
<1> HIDE DEF more
<1>4. ASSUME NEW i \in 1 .. Len(more), NEW j \in 1 .. Len(Tail(w)), Tail(w)[j].op = "leave"
      PROVE  Inside(more[i], Tail(w)[j])
  <2> DEFINE b == Tail(w)[j]
  <2>1. Inside(a, b)
    BY <1>1, <1>4
  <2>2. b \in WorkItem
    BY <1>1 DEF WorkOK
  <2>3. more[i] \in WorkItem
    BY <1>3
  <2>4. Depth(b.node.kind) \in Int /\ Depth(n.kind) \in Int /\ Depth(more[i].node.kind) \in Int
    <3>1. Depth(n.kind) \in Int
      BY <1>1, ItemIs
    <3>2. Depth(b.node.kind) \in Int
      BY <2>2, ItemIs
    <3>3. Depth(more[i].node.kind) \in Int
      BY <2>3, ItemIs
    <3>4. QED
      BY <3>1, <3>2, <3>3
  <2>5. CASE Depth(b.node.kind) < Depth(n.kind)
    BY <1>3, <2>4, <2>5 DEF Inside
  <2>6. CASE b.node.kind = "main" /\ n.kind = "main"
    BY <1>3, <2>4, <2>6 DEF Inside
  <2>7. QED
    BY <2>1, <2>5, <2>6 DEF Inside
<1>5. ASSUME p = "build", NEW i \in 1 .. Len(more), Deep(more[i])
      PROVE  \E j \in 1 .. Len(Tail(w)) : EndsMain(Tail(w)[j])
  <2>1. n.kind # "program"
    BY <1>3, <1>5
  <2>2. n.kind = "main" => Len(a.path) > 1
    <3>1. n.kind = "main" => a.path # <<>> /\ Len(a.path) # 1
      BY <1>1, <1>5 DEF PlaceOK
    <3>2. QED
      BY <1>2, <3>1, PathLengths
  <2>3. Deep(a)
    BY <1>2, <2>1, <2>2, KindIs, DepthIs DEF Deep
  <2>4. QED
    BY <1>1, <1>5, <2>3 DEF EndsMain
<1>6. Before(Tail(w), more, p)
  BY <1>3, <1>4, <1>5 DEF Before
<1>7. EnteredIn(more) = {}
  <2>1. DOMAIN more = 1 .. Len(more)
    BY <1>3
  <2>2. \A i \in DOMAIN more : more[i].op = "visit"
    BY <1>3, <2>1
  <2>3. QED
    BY <2>2 DEF EnteredIn, ToSet
<1>8. WorkOK(more \o Tail(w), p) /\ EnteredIn(more \o Tail(w)) = EnteredIn(Tail(w))
  <2>1. WorkOK(Tail(w), p)
    BY <1>1
  <2>2. /\ WorkOK(more \o Tail(w), p)
        /\ EnteredIn(more \o Tail(w)) = EnteredIn(more) \cup EnteredIn(Tail(w))
    BY <1>6, <2>1, PutBefore
  <2>3. QED
    BY <1>7, <2>2
<1>9. QED
  BY <1>8, LeaveWork DEF more

\* A node that is left after its successors.
LEMMA EnterWork ==
  ASSUME NEW p, NEW w, WorkOK(w, p), w # <<>>, Head(w).op = "visit",
         Head(w).node.kind \in Returns(p),
         Head(w).node.kind = "main" => Len(Head(w).path) = 1
  PROVE  LET a == Head(w)
             leave == Item("leave", a.node, a.path)
             v == Successors(a.node, a.path) \o <<leave>> \o Tail(w)
         IN /\ WorkOK(v, p) /\ EnteredIn(v) = EnteredIn(w) \cup {leave}
            /\ \A e \in EnteredIn(w) : Depth(e.node.kind) < Depth(a.node.kind)
<1> DEFINE a == Head(w)
           n == a.node
           leave == Item("leave", n, a.path)
           more == Successors(n, a.path)
<1>1. /\ WorkOK(Tail(w), p) /\ a \in WorkItem /\ PlaceOK(a, p)
      /\ \A i \in 1 .. Len(Tail(w)) : Tail(w)[i].op = "leave" => Inside(a, Tail(w)[i])
      /\ p = "build" /\ Deep(a) /\ ~ EndsMain(a) =>
           \E j \in 1 .. Len(Tail(w)) : EndsMain(Tail(w)[j])
  BY SkipWork
<1>2. n \in Nodes /\ a.path \in Seq(Name) /\ n.kind \in ToSet(Kinds) /\ n.kind # "program"
  BY <1>1, NodeIs DEF WorkItem, Returns
<1>3. /\ more \in Seq(WorkItem)
      /\ \A i \in 1 .. Len(more) :
           /\ more[i].op = "visit" /\ PlaceOK(more[i], p)
           /\ \/ Depth(n.kind) < Depth(more[i].node.kind)
              \/ n.kind = "main" /\ more[i].node.kind = "main" /\ Len(more[i].path) > 1
  <2>1. (n.kind = "main" => a.path # <<>>) /\ (n.kind = "program" => a.path = <<>>)
    BY <1>1 DEF PlaceOK
  <2>2. QED
    BY <1>2, <2>1, SuccessorsAre
<1> HIDE DEF more
<1>4. leave \in WorkItem /\ PlaceOK(leave, p) /\ leave.op = "leave" /\ leave.node = n
  BY <1>1, <1>2 DEF Item, WorkItem, PlaceOK
<1>5. \A j \in 1 .. Len(Tail(w)) :
        Tail(w)[j].op = "leave" => Depth(Tail(w)[j].node.kind) < Depth(n.kind)
  <2>1. ~ (a.node.kind = "main" /\ Len(a.path) > 1)
    <3>1. a.node.kind = "main" => Len(a.path) = 1
      OBVIOUS
    <3>2. QED
      BY <1>2, <3>1, PathLengths
  <2>2. QED
    BY <1>1, <2>1 DEF Inside
<1>6. Before(Tail(w), <<leave>>, p)
  <2>1. \A j \in 1 .. Len(Tail(w)) : Tail(w)[j].op = "leave" => Inside(leave, Tail(w)[j])
    BY <1>4, <1>5 DEF Inside
  <2>2. p = "build" /\ Deep(leave) =>
          EndsMain(leave) \/ \E j \in 1 .. Len(Tail(w)) : EndsMain(Tail(w)[j])
    <3>1. Deep(leave) => Deep(a)
      BY <1>4 DEF Deep, Item
    <3>2. QED
      BY <1>1, <1>4, <3>1 DEF EndsMain
  <2>3. /\ <<leave>> \in Seq(WorkItem) /\ Len(<<leave>>) = 1 /\ <<leave>>[1] = leave
    BY <1>4
  <2> HIDE DEF leave
  <2>4. \A i \in 1 .. Len(<<leave>>) : i = 1 /\ <<leave>>[i] = leave
    BY <2>3
  <2>5. 1 \in 1 .. Len(<<leave>>)
    BY <2>3
  <2>6. QED
    BY <1>4, <2>1, <2>2, <2>3, <2>4, <2>5 DEF Before
<1>7. ToSet(<<leave>>) = {leave}
  BY DEF ToSet
<1> DEFINE rest == <<leave>> \o Tail(w)
<1>8. WorkOK(rest, p) /\ EnteredIn(rest) = EnteredIn(Tail(w)) \cup {leave}
  BY <1>1, <1>4, <1>6, <1>7, PutBefore DEF EnteredIn
<1>9. /\ rest \in Seq(WorkItem) /\ Len(rest) = 1 + Len(Tail(w)) /\ Tail(w) \in Seq(WorkItem)
      /\ rest[1] = leave /\ \A j \in 2 .. Len(rest) : rest[j] = Tail(w)[j - 1]
  BY <1>1, <1>4 DEF WorkOK
<1> HIDE DEF rest
<1>10. ASSUME NEW i \in 1 .. Len(more), NEW j \in 1 .. Len(rest), rest[j].op = "leave"
       PROVE  Inside(more[i], rest[j])
  <2> DEFINE b == rest[j]
  <2>1. b \in WorkItem
    BY <1>9
  <2>2. more[i] \in WorkItem
    BY <1>3
  <2>3. Depth(b.node.kind) \in Int /\ Depth(n.kind) \in Int /\ Depth(more[i].node.kind) \in Int
    <3>1. Depth(n.kind) \in Int
      BY <1>1, ItemIs
    <3>2. Depth(b.node.kind) \in Int
      BY <2>1, ItemIs
    <3>3. Depth(more[i].node.kind) \in Int
      BY <2>2, ItemIs
    <3>4. QED
      BY <3>1, <3>2, <3>3
  <2>4. CASE j = 1
    BY <1>3, <1>4, <1>9, <2>4 DEF Inside
  <2>5. CASE j # 1
    <3>1. j - 1 \in 1 .. Len(Tail(w)) /\ b = Tail(w)[j - 1]
      BY <1>9, <2>5
    <3>2. Depth(b.node.kind) < Depth(n.kind)
      BY <1>5, <1>10, <3>1
    <3>3. CASE Depth(n.kind) < Depth(more[i].node.kind)
      BY <2>3, <3>2, <3>3 DEF Inside
    <3>4. CASE n.kind = "main" /\ more[i].node.kind = "main"
      BY <3>2, <3>4 DEF Inside
    <3>5. QED
      BY <1>3, <3>3, <3>4
  <2>6. QED
    BY <2>4, <2>5
<1>11. ASSUME p = "build", NEW i \in 1 .. Len(more), Deep(more[i])
       PROVE  \E j \in 1 .. Len(rest) : EndsMain(rest[j])
  <2>1. CASE n.kind = "main"
    BY <1>4, <1>9, <2>1 DEF EndsMain
  <2>2. CASE n.kind # "main"
    <3>1. Deep(a) /\ ~ EndsMain(a)
      BY <1>2, <2>2, KindIs, DepthIs DEF Deep, EndsMain
    <3>2. PICK j \in 1 .. Len(Tail(w)) : EndsMain(Tail(w)[j])
      BY <1>1, <1>11, <3>1
    <3>3. j + 1 \in 2 .. Len(rest) /\ j + 1 - 1 = j /\ j + 1 \in 1 .. Len(rest)
      BY <1>9
    <3>4. QED
      BY <1>9, <3>2, <3>3
  <2>3. QED
    BY <2>1, <2>2
<1>12. Before(rest, more, p)
  BY <1>3, <1>10, <1>11 DEF Before
<1>13. EnteredIn(more) = {}
  <2>1. DOMAIN more = 1 .. Len(more)
    BY <1>3
  <2>2. \A i \in DOMAIN more : more[i].op = "visit"
    BY <1>3, <2>1
  <2>3. QED
    BY <2>2 DEF EnteredIn, ToSet
<1>14. WorkOK(more \o rest, p) /\ EnteredIn(more \o rest) = EnteredIn(rest)
  BY <1>8, <1>12, <1>13, PutBefore
<1>15. more \o rest = more \o <<leave>> \o Tail(w)
  BY <1>3, <1>4, <1>9, ConcatAssociative DEF rest
<1>16. EnteredIn(w) = EnteredIn(Tail(w))
  BY LeaveWork
<1>17. \A e \in EnteredIn(w) : Depth(e.node.kind) < Depth(n.kind)
  <2>1. DOMAIN Tail(w) = 1 .. Len(Tail(w))
    BY <1>9
  <2>2. QED
    BY <1>5, <1>16, <2>1 DEF EnteredIn, ToSet
<1>18. QED
  BY <1>8, <1>14, <1>15, <1>16, <1>17 DEF more

LEMMA StartWork ==
  ASSUME NEW p, NEW n \in Programs
  PROVE  LET w == <<Item("visit", n, <<>>)>>
         IN /\ WorkOK(w, p) /\ EnteredIn(w) = {}
            /\ WorkOK(<<>>, p) /\ EnteredIn(<<>>) = {}
<1> DEFINE a == Item("visit", n, <<>>)
<1>1. n \in Nodes /\ n.kind = "program"
  BY GrammarAssumption
<1>2. a \in WorkItem /\ a.op = "visit" /\ a.node.kind = "program" /\ a.path = <<>>
  BY <1>1 DEF Item, WorkItem
<1>3. PlaceOK(a, p) /\ ~ Deep(a)
  BY <1>2, DepthIs DEF PlaceOK, Deep
<1> HIDE DEF a
<1>4. /\ <<a>> \in Seq(WorkItem) /\ Len(<<a>>) = 1 /\ <<a>>[1] = a
      /\ \A i \in 1 .. 1 : i = 1
  BY <1>2
<1>5. \A i \in 1 .. Len(<<a>>) : <<a>>[i] = a
  BY <1>4
<1>6. WorkOK(<<a>>, p)
  BY <1>2, <1>3, <1>4, <1>5 DEF WorkOK
<1>7. EnteredIn(<<a>>) = {}
  BY <1>2 DEF EnteredIn, ToSet
<1>8. WorkOK(<<>>, p) /\ EnteredIn(<<>>) = {}
  BY DEF WorkOK, EnteredIn, ToSet
<1>9. QED
  BY <1>6, <1>7, <1>8 DEF a

-----------------------------------------------------------------------------
(* The steps of the walk.                                                  *)

WorkInv ==
  /\ ast \in Programs
  /\ pass \in ToSet(Passes)
  /\ WorkOK(work, pass)
  /\ pass \in {"inter", "done"} => work = <<>>

next == Head(work)

\* What happens to the stages above: they stay, one more is entered, or the
\* innermost one is left.
Stay == Entered' = Entered

Enter ==
  /\ Entered' = Entered \cup {Item("leave", next.node, next.path)}
  /\ \A e \in Entered : Depth(e.node.kind) < Depth(next.node.kind)

Leave ==
  /\ Entered = Entered' \cup {next}
  /\ \A e \in Entered' : Depth(e.node.kind) < Depth(next.node.kind)

LEMMA Skips ==
  ASSUME WorkInv, work # <<>>, Skip, UNCHANGED walkVars
  PROVE  /\ WorkInv'
         /\ next.op = "visit" => Stay
         /\ next.op = "leave" => Leave
<1>1. WorkOK(Tail(work), pass)
  BY SkipWork DEF WorkInv
<1>2. Entered = EnteredIn(work) /\ Entered' = EnteredIn(Tail(work))
  BY DEF Entered, EnteredIn, Skip
<1>3. WorkInv'
  BY <1>1 DEF WorkInv, Skip, walkVars
<1>4. QED
  BY <1>2, <1>3, LeaveWork DEF WorkInv, Stay, Leave, next

LEMMA Descends ==
  ASSUME WorkInv, work # <<>>, next.op = "visit", Descend, UNCHANGED walkVars,
         pass = "build" => ~ (next.node.kind = "main" /\ Len(next.path) = 1)
  PROVE  WorkInv' /\ Stay
<1> DEFINE v == Successors(next.node, next.path) \o Tail(work)
<1>1. WorkOK(v, pass) /\ EnteredIn(v) = EnteredIn(work)
  BY DescendWork DEF WorkInv, next
<1>2. work' = v
  BY DEF Descend, next, path
<1> HIDE DEF v
<1>3. Entered = EnteredIn(work) /\ Entered' = EnteredIn(v)
  BY <1>2 DEF Entered, EnteredIn
<1>4. QED
  BY <1>1, <1>2, <1>3 DEF WorkInv, walkVars, Stay

LEMMA Enters ==
  ASSUME WorkInv, work # <<>>, next.op = "visit", DescendAndLeave, UNCHANGED walkVars,
         next.node.kind \in Returns(pass), next.node.kind = "main" => Len(next.path) = 1
  PROVE  WorkInv' /\ Enter
<1> DEFINE v == Successors(next.node, next.path)
                \o <<Item("leave", next.node, next.path)>> \o Tail(work)
<1>1. /\ WorkOK(v, pass)
      /\ EnteredIn(v) = EnteredIn(work) \cup {Item("leave", next.node, next.path)}
      /\ \A e \in EnteredIn(work) : Depth(e.node.kind) < Depth(next.node.kind)
  BY EnterWork DEF WorkInv, next
<1>2. work' = v
  BY DEF DescendAndLeave, next, path
<1> HIDE DEF v
<1>3. Entered = EnteredIn(work) /\ Entered' = EnteredIn(v)
  BY <1>2 DEF Entered, EnteredIn
<1>4. QED
  BY <1>1, <1>2, <1>3 DEF WorkInv, walkVars, Enter

LEMMA NextItem ==
  ASSUME WorkInv, work # <<>>
  PROVE  next \in WorkItem /\ PlaceOK(next, pass)
BY SkipWork DEF WorkInv, next

LEMMA NextEntered ==
  ASSUME WorkInv, work # <<>>, next.op = "leave"
  PROVE  next \in Entered
BY ToSetHeadTail DEF WorkInv, WorkOK, next, Entered

\* The bodies above, after a step.
LEMMA StayBodies ==
  ASSUME Stay
  PROVE  /\ \A k : EnteredOf(k)' = EnteredOf(k)
         /\ \A k, x : BodyAbove(k, x)' = BodyAbove(k, x)
BY DEF Stay, EnteredOf, BodyAbove

LEMMA EnterBodies ==
  ASSUME WorkInv, work # <<>>, Enter
  PROVE  /\ \A k : k = next.node.kind =>
              /\ EnteredOf(k) = {} /\ EnteredOf(k)' # {}
              /\ \A x : BodyAbove(k, x)' = next.node.body
         /\ \A k : k # next.node.kind => EnteredOf(k)' = EnteredOf(k)
         /\ \A k, x : k # next.node.kind => BodyAbove(k, x)' = BodyAbove(k, x)
<1> DEFINE leave == Item("leave", next.node, next.path)
<1>1. leave.op = "leave" /\ leave.node = next.node
  BY DEF Item
<1> HIDE DEF leave
<1>2. Depth(next.node.kind) \in 1 .. 8
  BY NextItem, ItemIs
<1>3. \A e \in Entered : e.node.kind # next.node.kind
  BY <1>2 DEF Enter
<1>4. Entered' = Entered \cup {leave}
  BY DEF Enter, leave
<1>5. \A k : k = next.node.kind => EnteredOf(k) = {} /\ EnteredOf(k)' = {leave}
  BY <1>1, <1>3, <1>4 DEF EnteredOf
<1>6. \A k : k # next.node.kind => EnteredOf(k)' = EnteredOf(k)
  BY <1>1, <1>4 DEF EnteredOf
<1>7. ASSUME NEW k, k # next.node.kind, NEW x PROVE BodyAbove(k, x)' = BodyAbove(k, x)
  <2>1. EnteredOf(k)' = EnteredOf(k)
    BY <1>6, <1>7
  <2>2. QED
    BY <2>1 DEF BodyAbove
<1>8. ASSUME NEW k, k = next.node.kind, NEW x PROVE BodyAbove(k, x)' = next.node.body
  <2>1. EnteredOf(k)' = {leave}
    BY <1>5, <1>8
  <2>2. QED
    BY <1>1, <2>1 DEF BodyAbove
<1>9. QED
  BY <1>5, <1>6, <1>7, <1>8

LEMMA LeaveBodies ==
  ASSUME WorkInv, work # <<>>, Leave
  PROVE  /\ \A k : k = next.node.kind =>
              /\ EnteredOf(k) # {} /\ EnteredOf(k)' = {}
              /\ \A x : BodyAbove(k, x)' = x
         /\ \A k : k # next.node.kind => EnteredOf(k)' = EnteredOf(k)
         /\ \A k, x : k # next.node.kind => BodyAbove(k, x)' = BodyAbove(k, x)
<1>1. Depth(next.node.kind) \in 1 .. 8
  BY NextItem, ItemIs
<1>2. \A e \in Entered' : e.node.kind # next.node.kind
  BY <1>1 DEF Leave
<1>3. next \in Entered
  BY DEF Leave
<1>4. \A k : k = next.node.kind => EnteredOf(k)' = {} /\ EnteredOf(k) # {}
  BY <1>2, <1>3 DEF EnteredOf
<1>5. \A k : k # next.node.kind => EnteredOf(k)' = EnteredOf(k)
  BY DEF EnteredOf, Leave
<1>6. ASSUME NEW k, k # next.node.kind, NEW x PROVE BodyAbove(k, x)' = BodyAbove(k, x)
  <2>1. EnteredOf(k)' = EnteredOf(k)
    BY <1>5, <1>6
  <2>2. QED
    BY <2>1 DEF BodyAbove
<1>7. ASSUME NEW k, k = next.node.kind, NEW x PROVE BodyAbove(k, x)' = x
  <2>1. EnteredOf(k)' = {}
    BY <1>4, <1>7
  <2>2. QED
    BY <2>1 DEF BodyAbove
<1>8. QED
  BY <1>4, <1>5, <1>6, <1>7

-----------------------------------------------------------------------------
(* The checkers.                                                           *)

NoNotes == [stack |-> <<>>, keys |-> {}, gro |-> {}, agg |-> {}, aggrVars |-> {}]

\* The members exist, and are empty while no checker is at work.
CheckInv ==
  /\ check.stack \in Seq(ToSet(Kinds))
  /\ check = [stack |-> check.stack, keys |-> check.keys, gro |-> check.gro,
              agg |-> check.agg, aggrVars |-> check.aggrVars]
  /\ IF pass = "check" THEN CheckNotes ELSE check = NoNotes

StackNotes ==
  /\ ToSet(check.stack) = {item.node.kind : item \in Entered}
  /\ \A i, j \in DOMAIN check.stack : i < j => Depth(check.stack[i]) < Depth(check.stack[j])

BodyNotes ==
  /\ check.keys = IF KeysAbove = <<>> THEN {} ELSE FirstKey(KeysAbove)
  /\ check.gro = ToSet(KeysAbove)
  /\ check.agg = IF FunctionsAbove = <<>> THEN {} ELSE ToSet(Params(FunctionsAbove))
  /\ check.aggrVars = Names(FunctionsAbove)

LEMMA NotesAre == CheckNotes <=> StackNotes /\ BodyNotes
BY DEF CheckNotes, StackNotes, BodyNotes

LEMMA EmptyNotes ==
  ASSUME Entered = {}, check.stack \in Seq(ToSet(Kinds)),
         check = [stack |-> check.stack, keys |-> check.keys, gro |-> check.gro,
                  agg |-> check.agg, aggrVars |-> check.aggrVars]
  PROVE  CheckNotes <=> check = NoNotes
<1>1. KeysAbove = <<>> /\ FunctionsAbove = <<>>
  BY DEF KeysAbove, FunctionsAbove, BodyAbove, EnteredOf
<1>2. ToSet(KeysAbove) = {} /\ Names(FunctionsAbove) = {}
  BY <1>1 DEF ToSet, Names
<1>3. ToSet(check.stack) = {} <=> check.stack = <<>>
  <2> DEFINE s == check.stack
  <2>1. Len(s) \in Nat /\ DOMAIN s = 1 .. Len(s) /\ (Len(s) = 0 <=> s = <<>>)
    OBVIOUS
  <2> HIDE DEF s
  <2>2. Len(s) # 0 => 1 \in DOMAIN s
    BY <2>1
  <2>3. Len(s) = 0 => DOMAIN s = {}
    BY <2>1
  <2>4. ToSet(s) = {} <=> s = <<>>
    BY <2>1, <2>2, <2>3 DEF ToSet
  <2>5. QED
    BY <2>4 DEF s
<1>4. check = NoNotes <=> /\ check.stack = <<>> /\ check.keys = {} /\ check.gro = {}
                          /\ check.agg = {} /\ check.aggrVars = {}
  BY DEF NoNotes
<1>5. CheckNotes => check = NoNotes
  BY <1>1, <1>2, <1>3, <1>4 DEF CheckNotes
<1>6. ASSUME check = NoNotes PROVE CheckNotes
  <2>1. check.stack = <<>> /\ DOMAIN check.stack = {}
    BY <1>4, <1>6
  <2>2. {item.node.kind : item \in Entered} = {}
    OBVIOUS
  <2>3. QED
    BY <1>1, <1>2, <1>3, <1>4, <1>6, <2>1, <2>2 DEF CheckNotes
<1>7. QED
  BY <1>5, <1>6

\* What is put on top of the stack is deeper than all that is there.
LEMMA PushNotes ==
  ASSUME WorkInv, work # <<>>, Enter, check.stack \in Seq(ToSet(Kinds)), StackNotes,
         check'.stack = Append(check.stack, next.node.kind)
  PROVE  check'.stack \in Seq(ToSet(Kinds)) /\ StackNotes'
<1> DEFINE s == check.stack
           k == next.node.kind
           n == Len(s)
<1>1. next.node.kind \in ToSet(Kinds)
  BY NextItem, ItemIs
<1>2. /\ n \in Nat /\ DOMAIN s = 1 .. n
      /\ Append(s, k) \in Seq(ToSet(Kinds)) /\ DOMAIN Append(s, k) = 1 .. n + 1
      /\ Append(s, k)[n + 1] = k
      /\ \A i \in 1 .. n : Append(s, k)[i] = s[i]
  BY <1>1
<1>3. ToSet(Append(s, k)) = ToSet(s) \cup {k}
  <2>1. 1 .. n + 1 = 1 .. n \cup {n + 1}
    BY <1>2
  <2>2. QED
    BY <1>2, <2>1 DEF ToSet
<1>4. Entered' = Entered \cup {Item("leave", next.node, next.path)}
  BY DEF Enter
<1>5. {item.node.kind : item \in Entered'} = {item.node.kind : item \in Entered} \cup {k}
  <2>1. Item("leave", next.node, next.path).node.kind = k
    BY DEF Item
  <2>2. QED
    BY <1>4, <2>1
<1>6. ASSUME NEW i \in 1 .. n + 1, NEW j \in 1 .. n + 1, i < j
      PROVE  Depth(Append(s, k)[i]) < Depth(Append(s, k)[j])
  <2>1. i \in 1 .. n
    BY <1>2, <1>6
  <2>2. CASE j \in 1 .. n
    BY <1>2, <1>6, <2>1, <2>2 DEF StackNotes
  <2>3. CASE j = n + 1
    <3>1. s[i] \in ToSet(s)
      BY <1>2, <2>1 DEF ToSet
    <3>2. PICK e \in Entered : e.node.kind = s[i]
      BY <3>1 DEF StackNotes
    <3>3. Depth(s[i]) < Depth(k)
      BY <3>2 DEF Enter
    <3>4. QED
      BY <1>2, <2>1, <2>3, <3>3
  <2>4. QED
    BY <1>2, <2>2, <2>3
<1>7. QED
  BY <1>2, <1>3, <1>5, <1>6 DEF StackNotes

\* What is taken off the stack is the innermost stage.
LEMMA PopNotes ==
  ASSUME WorkInv, work # <<>>, Leave, check.stack \in Seq(ToSet(Kinds)), StackNotes,
         check'.stack = Front(check.stack)
  PROVE  check'.stack \in Seq(ToSet(Kinds)) /\ StackNotes'
<1> DEFINE s == check.stack
           k == next.node.kind
           n == Len(s)
           above == {item.node.kind : item \in Entered'}
<1>1. {item.node.kind : item \in Entered} = above \cup {k}
  BY DEF Leave
<1>2. \A x \in above : Depth(x) < Depth(k)
  BY DEF Leave
<1>3. Depth(k) \in 1 .. 8
  BY NextItem, ItemIs
<1>4. n \in Nat /\ DOMAIN s = 1 .. n
  OBVIOUS
<1>5. PICK m \in 1 .. n : s[m] = k
  <2>1. k \in ToSet(s)
    BY <1>1 DEF StackNotes
  <2>2. QED
    BY <1>4, <2>1 DEF ToSet
<1>6. \A i \in 1 .. n : s[i] \in above \cup {k}
  BY <1>1, <1>4 DEF StackNotes, ToSet
<1>7. m = n
  <2>1. SUFFICES ASSUME m < n PROVE FALSE
    BY <1>4, <1>5
  <2>2. n \in 1 .. n
    BY <1>4, <1>5
  <2>3. Depth(k) < Depth(s[n])
    BY <1>4, <1>5, <2>1, <2>2 DEF StackNotes
  <2>4. s[n] \in above \cup {k}
    BY <1>6, <2>2
  <2>5. QED
    <3>1. CASE s[n] = k
      BY <1>3, <2>3, <3>1
    <3>2. CASE s[n] \in above
      <4>1. Depth(s[n]) < Depth(k)
        BY <1>2, <3>2
      <4>2. PICK e \in Entered' : e.node.kind = s[n]
        BY <3>2
      <4>3. e \in WorkItem
        <5>1. e \in Entered
          BY <4>2 DEF Leave
        <5>2. QED
          BY <5>1, SeqIs DEF Entered, ToSet, WorkInv, WorkOK
      <4>4. Depth(s[n]) \in 1 .. 8
        BY <4>2, <4>3, ItemIs
      <4>5. QED
        BY <1>3, <2>3, <4>1, <4>4
    <3>3. QED
      BY <2>4, <3>1, <3>2
<1>8. /\ Front(s) \in Seq(ToSet(Kinds)) /\ DOMAIN Front(s) = 1 .. n - 1
      /\ \A i \in 1 .. n - 1 : Front(s)[i] = s[i] /\ i \in 1 .. n /\ i < n
  <2>1. n >= 1
    BY <1>4, <1>5
  <2>2. QED
    BY <1>4, <2>1 DEF Front
<1>9. \A i \in 1 .. n - 1 : Depth(s[i]) < Depth(k)
  BY <1>4, <1>5, <1>7, <1>8 DEF StackNotes
<1>10. ToSet(Front(s)) = above
  <2>1. ASSUME NEW i \in 1 .. n - 1 PROVE s[i] \in above
    <3>1. s[i] \in above \cup {k}
      BY <1>6, <1>8
    <3>2. s[i] # k
      BY <1>3, <1>9
    <3>3. QED
      BY <3>1, <3>2
  <2>2. ASSUME NEW x \in above PROVE \E i \in 1 .. n - 1 : s[i] = x
    <3>1. PICK i \in 1 .. n : s[i] = x
      <4>1. x \in ToSet(s)
        BY <1>1 DEF StackNotes
      <4>2. QED
        BY <1>4, <4>1 DEF ToSet
    <3>2. x # k
      BY <1>2, <1>3
    <3>3. i # n
      BY <1>5, <1>7, <3>1, <3>2
    <3> HIDE DEF n, s, k, above
    <3>4. i \in 1 .. n - 1
      BY <1>4, <3>3
    <3>5. QED
      BY <3>1, <3>4
  <2> DEFINE t == Front(s)
  <2>3. DOMAIN t = 1 .. n - 1 /\ \A i \in 1 .. n - 1 : t[i] = s[i]
    BY <1>8
  <2> HIDE DEF t, s, above, n
  <2>4. ToSet(t) \subseteq above
    BY <2>1, <2>3 DEF ToSet
  <2>5. above \subseteq ToSet(t)
    BY <2>2, <2>3 DEF ToSet
  <2>6. QED
    BY <2>4, <2>5 DEF t
<1>11. \A i, j \in 1 .. n - 1 : i < j => Depth(Front(s)[i]) < Depth(Front(s)[j])
  BY <1>4, <1>8 DEF StackNotes
<1>12. QED
  BY <1>8, <1>10, <1>11 DEF StackNotes

\* The keys and functions above, after a step.
LEMMA StayAbove ==
  ASSUME Stay
  PROVE  KeysAbove' = KeysAbove /\ FunctionsAbove' = FunctionsAbove
BY StayBodies DEF KeysAbove, FunctionsAbove

LEMMA EnterAbove ==
  ASSUME WorkInv, work # <<>>, Enter
  PROVE  /\ KeysAbove' = IF next.node.kind = "grouper" THEN next.node.body ELSE KeysAbove
         /\ FunctionsAbove' = IF next.node.kind = "aggregator" THEN next.node.body
                              ELSE FunctionsAbove
BY EnterBodies DEF KeysAbove, FunctionsAbove

LEMMA LeaveAbove ==
  ASSUME WorkInv, work # <<>>, Leave
  PROVE  /\ KeysAbove' = IF next.node.kind = "grouper" THEN <<>> ELSE KeysAbove
         /\ FunctionsAbove' = IF next.node.kind = "aggregator" THEN <<>> ELSE FunctionsAbove
BY LeaveBodies DEF KeysAbove, FunctionsAbove

\* Without a step of a checker the notes stay true.
LEMMA StayNotes ==
  ASSUME Stay, UNCHANGED check
  PROVE  CheckNotes' <=> CheckNotes
<1>1. KeysAbove' = KeysAbove /\ FunctionsAbove' = FunctionsAbove /\ Entered' = Entered
  BY StayAbove DEF Stay
<1>2. QED
  BY <1>1 DEF CheckNotes

\* The passes in their order.
LEMMA PassOrder ==
  ASSUME NextPass
  PROVE  \/ pass = "parse" /\ pass' = "check"
         \/ pass = "check" /\ pass' = "alias"
         \/ pass = "alias" /\ pass' = "inter" /\ work' = <<>>
         \/ pass = "build" /\ pass' = "done"  /\ work' = <<>>
<1>1. PICK i \in DOMAIN Passes : Passes[i] = pass /\ pass' = Passes[i + 1]
  BY DEF NextPass
<1>2. i \in 1 .. 6
  BY DEF Passes
<1>3. i = 1 \/ i = 2 \/ i = 3 \/ i = 4 \/ i = 5 \/ i = 6
  BY <1>2
<1>4. /\ Passes[1] = "parse" /\ Passes[2] = "check" /\ Passes[3] = "alias"
      /\ Passes[4] = "inter" /\ Passes[5] = "build" /\ Passes[6] = "done"
  BY DEF Passes
<1>5. pass # "inter" /\ pass # "done" /\ (pass = "alias" \/ pass = "build" => work' = <<>>)
  BY DEF NextPass
<1>6. QED
  BY <1>1, <1>3, <1>4, <1>5

\* A visitor starts and ends above all stages.
LEMMA Starts ==
  ASSUME WorkInv, NextPass \/ check_inter_repr
  PROVE  WorkInv' /\ Entered = {} /\ Stay
<1>1. work = <<>>
  BY DEF WorkInv, NextPass, check_inter_repr
<1>2. Entered = {}
  BY <1>1 DEF Entered, ToSet
<1>3. ast' = ast /\ ast \in Programs
  BY DEF WorkInv, NextPass, check_inter_repr
<1>4. pass' \in {"check", "alias", "inter", "build", "done"}
  BY PassOrder DEF check_inter_repr
<1>5. pass' \in ToSet(Passes)
  BY <1>4 DEF Passes, ToSet
<1>6. work' \in {<<>>, <<Item("visit", ast, <<>>)>>}
  BY DEF NextPass, check_inter_repr
<1>7. pass' \in {"inter", "done"} => work' = <<>>
  BY PassOrder DEF check_inter_repr
<1>8. \A p : /\ WorkOK(<<Item("visit", ast, <<>>)>>, p) /\ WorkOK(<<>>, p)
             /\ EnteredIn(<<Item("visit", ast, <<>>)>>) = {} /\ EnteredIn(<<>>) = {}
  BY <1>3, StartWork
<1>9. WorkOK(work', pass') /\ EnteredIn(work') = {}
  BY <1>6, <1>8
<1>10. Entered' = {}
  BY <1>9 DEF Entered, EnteredIn
<1>11. QED
  BY <1>2, <1>3, <1>7, <1>9, <1>10, <1>5 DEF WorkInv, Stay

\* The steps of the checkers keep the notes true.
LEMMA CheckSteps ==
  ASSUME WorkInv, CheckInv, Check
  PROVE  WorkInv' /\ CheckInv'
<1> DEFINE kind == next.node.kind
           pushed == [stack |-> Append(check.stack, kind), keys |-> check.keys,
                      gro |-> check.gro, agg |-> check.agg, aggrVars |-> check.aggrVars]
<1>1. /\ pass = "check" /\ pass' = pass /\ UNCHANGED walkVars /\ work # <<>>
  BY DEF Check, CheckInner, CheckFilter, CheckGrouper, CheckWindow, CheckAggregator,
         CheckGroupFilter, CheckSelector, CheckLeave, CheckRest, At, Active, walkVars
<1>2. /\ check.stack \in Seq(ToSet(Kinds)) /\ StackNotes /\ BodyNotes
      /\ check = [stack |-> check.stack, keys |-> check.keys, gro |-> check.gro,
                  agg |-> check.agg, aggrVars |-> check.aggrVars]
  BY <1>1, NotesAre DEF CheckInv
<1>3. ASSUME check'.stack \in Seq(ToSet(Kinds)), StackNotes', BodyNotes',
             check' = [stack |-> check'.stack, keys |-> check'.keys, gro |-> check'.gro,
                       agg |-> check'.agg, aggrVars |-> check'.aggrVars]
      PROVE  CheckInv'
  <2>1. CheckNotes'
    BY <1>3 DEF CheckNotes, StackNotes, BodyNotes
  <2>2. QED
    BY <1>1, <1>3, <2>1 DEF CheckInv
<1>4. ASSUME WorkInv', Stay, UNCHANGED check PROVE WorkInv' /\ CheckInv'
  BY <1>1, <1>4, StayNotes DEF CheckInv
<1>5. Push(check) = pushed
  BY <1>2 DEF Push, next
<1>6. ASSUME NEW k \in Returns("check"), At("check", "visit", k), DescendAndLeave
      PROVE  /\ WorkInv' /\ Enter /\ kind = k
             /\ check'.stack = pushed.stack => check'.stack \in Seq(ToSet(Kinds)) /\ StackNotes'
  <2>1. next.op = "visit" /\ kind = k
    BY <1>6 DEF At, next
  <2>2. kind # "main"
    BY <1>6, <2>1 DEF Returns
  <2>3. WorkInv' /\ Enter
    BY <1>1, <1>6, <2>1, <2>2, Enters
  <2>4. QED
    BY <1>1, <1>2, <2>1, <2>3, PushNotes
<1>7. /\ "filter" \in Returns("check") /\ "grouper" \in Returns("check")
      /\ "window" \in Returns("check") /\ "aggregator" \in Returns("check")
      /\ "group-filter" \in Returns("check")
  BY DEF Returns
<1>8. ASSUME NEW k \in {"filter", "window", "group-filter"}, At("check", "visit", k),
             DescendAndLeave, check' = Push(check)
      PROVE  WorkInv' /\ CheckInv'
  <2>1. WorkInv' /\ Enter /\ kind = k /\ check' = pushed
        /\ check'.stack \in Seq(ToSet(Kinds)) /\ StackNotes'
    BY <1>5, <1>6, <1>7, <1>8
  <2>2. KeysAbove' = KeysAbove /\ FunctionsAbove' = FunctionsAbove
    BY <1>1, <1>8, <2>1, EnterAbove
  <2>3. BodyNotes'
    BY <1>2, <2>1, <2>2 DEF BodyNotes
  <2>4. QED
    BY <1>3, <2>1, <2>3
<1>9. CASE CheckGrouper
  <2>1. check' = [pushed EXCEPT !.keys = FirstKey(next.node.body), !.gro = ToSet(next.node.body)]
    BY <1>5, <1>9 DEF CheckGrouper, body, next
  <2>2. WorkInv' /\ Enter /\ kind = "grouper"
        /\ check'.stack \in Seq(ToSet(Kinds)) /\ StackNotes'
    BY <1>6, <1>7, <1>9, <2>1 DEF CheckGrouper
  <2>3. KeysAbove' = next.node.body /\ FunctionsAbove' = FunctionsAbove
    BY <1>1, <2>2, EnterAbove
  <2>4. next.node.body # <<>>
    BY <1>1, <2>2, NextItem, ItemIs, NodeIs
  <2>5. BodyNotes'
    BY <1>2, <2>1, <2>3, <2>4 DEF BodyNotes
  <2>6. QED
    BY <1>3, <2>1, <2>2, <2>5
<1>10. CASE CheckAggregator
  <2>1. check' = [pushed EXCEPT !.agg = ToSet(Params(next.node.body)),
                                !.aggrVars = Names(next.node.body)]
    BY <1>5, <1>10 DEF CheckAggregator, body, next
  <2>2. WorkInv' /\ Enter /\ kind = "aggregator"
        /\ check'.stack \in Seq(ToSet(Kinds)) /\ StackNotes'
    BY <1>6, <1>7, <1>10, <2>1 DEF CheckAggregator
  <2>3. KeysAbove' = KeysAbove /\ FunctionsAbove' = next.node.body
    BY <1>1, <2>2, EnterAbove
  <2>4. next.node.body # <<>>
    BY <1>1, <2>2, NextItem, ItemIs, NodeIs
  <2>5. BodyNotes'
    BY <1>2, <2>1, <2>3, <2>4 DEF BodyNotes
  <2>6. QED
    BY <1>3, <2>1, <2>2, <2>5
<1>11. CASE CheckLeave
  <2> DEFINE popped == [stack |-> Front(check.stack), keys |-> check.keys,
                        gro |-> check.gro, agg |-> check.agg, aggrVars |-> check.aggrVars]
  <2>1. [check EXCEPT !.stack = Front(@)] = popped
    BY <1>2
  <2>2. check' = CASE kind = "grouper"    -> [popped EXCEPT !.keys = {}, !.gro = {}]
                   [] kind = "aggregator" -> [popped EXCEPT !.agg = {}, !.aggrVars = {}]
                   [] OTHER               -> popped
    BY <1>11, <2>1 DEF CheckLeave, next
  <2>3. next.op = "leave"
    BY <1>11 DEF CheckLeave, next
  <2>4. WorkInv' /\ Leave
    BY <1>1, <1>11, <2>3, Skips DEF CheckLeave
  <2>5. check'.stack = Front(check.stack)
    BY <2>2
  <2>6. check'.stack \in Seq(ToSet(Kinds)) /\ StackNotes'
    BY <1>1, <1>2, <2>4, <2>5, PopNotes
  <2>7. /\ KeysAbove' = IF kind = "grouper" THEN <<>> ELSE KeysAbove
        /\ FunctionsAbove' = IF kind = "aggregator" THEN <<>> ELSE FunctionsAbove
    BY <1>1, <2>4, LeaveAbove
  <2>8. ToSet(<<>>) = {} /\ Names(<<>>) = {}
    BY DEF ToSet, Names
  <2>9. BodyNotes'
    <3>1. CASE kind = "grouper"
      BY <1>2, <2>2, <2>7, <2>8, <3>1 DEF BodyNotes
    <3>2. CASE kind = "aggregator"
      BY <1>2, <2>2, <2>7, <2>8, <3>2 DEF BodyNotes
    <3>3. CASE kind # "grouper" /\ kind # "aggregator"
      BY <1>2, <2>2, <2>7, <3>3 DEF BodyNotes
    <3>4. QED
      BY <3>1, <3>2, <3>3
  <2>10. check' = [stack |-> check'.stack, keys |-> check'.keys, gro |-> check'.gro,
                   agg |-> check'.agg, aggrVars |-> check'.aggrVars]
    BY <2>2
  <2>11. QED
    BY <1>3, <2>4, <2>6, <2>9, <2>10
<1>12. CASE CheckInner
  <2>1. next.op = "visit" /\ Descend /\ UNCHANGED check
    BY <1>12 DEF CheckInner, next
  <2>2. WorkInv' /\ Stay
    BY <1>1, <2>1, Descends
  <2>3. QED
    BY <1>4, <2>1, <2>2
<1>13. CASE CheckSelector
  <2>1. next.op = "visit" /\ Skip /\ UNCHANGED check
    BY <1>13 DEF CheckSelector, At, next
  <2>2. WorkInv' /\ Stay
    BY <1>1, <2>1, Skips
  <2>3. QED
    BY <1>4, <2>1, <2>2
<1>14. CheckFilter \/ CheckWindow \/ CheckGroupFilter => WorkInv' /\ CheckInv'
  BY <1>8 DEF CheckFilter, CheckWindow, CheckGroupFilter
<1>15. QED
  BY <1>9, <1>10, <1>11, <1>12, <1>13, <1>14 DEF Check

\* Parsing the group-filters comes before all notes.
LEMMA ParseSteps ==
  ASSUME WorkInv, Parse
  PROVE  /\ WorkInv' /\ Stay
         /\ pass = "parse" /\ UNCHANGED <<pass, check, aggr, buildVars>>
         /\ (vars' = vars \/ \E gf : vars' = [vars EXCEPT !.gf = gf])
<1>1. /\ pass = "parse" /\ work # <<>> /\ UNCHANGED walkVars
      /\ (Skip \/ Descend)
      /\ UNCHANGED <<pass, check, aggr, buildVars>>
      /\ (vars' = vars \/ \E gf : vars' = [vars EXCEPT !.gf = gf])
  <2>1. CASE parse_filter_body
    BY <2>1 DEF parse_filter_body, At, Active, walkVars
  <2>2. CASE ParseOther
    BY <2>2 DEF ParseOther, Active, walkVars, checkVars
  <2>3. QED
    BY <2>1, <2>2 DEF Parse
<1>2. next.op = "visit"
  <2>1. next.op # "leave"
    BY <1>1, NextItem DEF PlaceOK, Returns
  <2>2. QED
    BY <1>1, <2>1, NextItem, ItemIs
<1>3. WorkInv' /\ Stay
  BY <1>1, <1>2, Skips, Descends
<1>4. QED
  BY <1>1, <1>3

-----------------------------------------------------------------------------
(* The variables and their aliases.                                        *)

VariableSet == {Variable(f.name, FieldOf(f)) : f \in Function}

VarsOK ==
  /\ vars = [gf |-> vars.gf, agg |-> vars.agg, sel |-> vars.sel]
  /\ \A q \in DOMAIN vars.agg : vars.agg[q] \in Seq(VariableSet)

\* The last aggregator has variables, and there is none while nobody looks for it.
AliasInv ==
  /\ VarsOK
  /\ IF pass = "alias" THEN AliasNotes /\ (aggr # None => aggr \in DOMAIN vars.agg)
     ELSE aggr = None

LEMMA SuffixOfConcat ==
  ASSUME NEW S, NEW s \in Seq(S), NEW t \in Seq(S)
  PROVE  IsSuffix(s, t \o s)
<1> DEFINE u == t \o s
           r == Reverse(s)
           q == Reverse(u)
<1>1. /\ Len(s) \in Nat /\ Len(t) \in Nat /\ Len(u) = Len(t) + Len(s) /\ u \in Seq(S)
      /\ \A i \in 1 .. Len(s) : u[Len(t) + i] = s[i] /\ s[i] \in S
  OBVIOUS
<1>2. \A i \in 1 .. Len(u) : u[i] \in S
  BY <1>1
<1> HIDE DEF u
<1>3. \A i \in 1 .. Len(s) : Len(s) - i + 1 \in 1 .. Len(s)
  BY <1>1
<1>4. r \in [1 .. Len(s) -> S] /\ \A i \in 1 .. Len(s) : r[i] = s[Len(s) - i + 1]
  BY <1>1, <1>3 DEF Reverse
<1>5. \A i \in 1 .. Len(u) : Len(u) - i + 1 \in 1 .. Len(u)
  BY <1>1
<1>6. q \in [1 .. Len(u) -> S] /\ \A i \in 1 .. Len(u) : q[i] = u[Len(u) - i + 1]
  BY <1>1, <1>2, <1>5 DEF Reverse
<1> HIDE DEF r, q
<1>7. r \in Seq(S) /\ Len(r) = Len(s) /\ q \in Seq(S) /\ Len(q) = Len(u)
  <2>1. Len(s) \in Nat /\ Len(u) \in Nat
    BY <1>1
  <2>2. r \in Seq(S) /\ Len(r) = Len(s)
    BY <2>1, <1>4
  <2>3. q \in Seq(S) /\ Len(q) = Len(u)
    BY <2>1, <1>6
  <2>4. QED
    BY <2>2, <2>3
<1>8. Len(r) <= Len(q)
  BY <1>1, <1>7
<1>9. \A i \in 1 .. Len(s) : r[i] = q[i]
  <2>1. TAKE i \in 1 .. Len(s)
  <2>2. Len(u) - i + 1 = Len(t) + (Len(s) - i + 1) /\ i \in 1 .. Len(u)
    BY <1>1
  <2>3. q[i] = u[Len(t) + (Len(s) - i + 1)]
    BY <1>6, <2>2
  <2>4. QED
    BY <1>1, <1>3, <1>4, <2>3
<1>10. SubSeq(r, 1, Len(r)) = [i \in 1 .. Len(r) |-> r[i]]
       /\ SubSeq(q, 1, Len(r)) = [i \in 1 .. Len(r) |-> q[i]]
  BY <1>1, <1>7, <1>8
<1>11. IsPrefix(r, q)
  BY <1>7, <1>8, <1>9, <1>10 DEF IsPrefix
<1>12. QED
  BY <1>11 DEF IsSuffix, r, q, u

LEMMA VariablesAre ==
  ASSUME NEW fs \in Seq(Function)
  PROVE  AggregatorVariables(fs) \in Seq(VariableSet)
<1>1. Len(fs) \in Nat /\ DOMAIN fs = 1 .. Len(fs) /\ \A i \in 1 .. Len(fs) : fs[i] \in Function
  BY SeqIs
<1>2. \A i \in 1 .. Len(fs) : Variable(fs[i].name, FieldOf(fs[i])) \in VariableSet
  BY <1>1 DEF VariableSet
<1>3. AggregatorVariables(fs) \in [1 .. Len(fs) -> VariableSet]
  BY <1>1, <1>2 DEF AggregatorVariables
<1>4. QED
  BY <1>1, <1>3

LEMMA StayAlias ==
  ASSUME Stay, aggr' = aggr, vars'.agg = vars.agg
  PROVE  AliasNotes' <=> AliasNotes
<1>1. FunctionsAbove' = FunctionsAbove /\ EnteredOf("aggregator")' = EnteredOf("aggregator")
  BY StayAbove, StayBodies
<1>2. QED
  BY <1>1 DEF AliasNotes

\* Changing the other variables keeps those of the aggregators.
LEMMA OtherVariables ==
  ASSUME VarsOK,
         \/ vars' = vars
         \/ \E x : vars' = [vars EXCEPT !.gf = x]
         \/ \E x : vars' = [vars EXCEPT !.sel = x]
  PROVE  VarsOK' /\ vars'.agg = vars.agg
<1>1. vars' = [gf |-> vars'.gf, agg |-> vars'.agg, sel |-> vars'.sel] /\ vars'.agg = vars.agg
  BY DEF VarsOK
<1>2. QED
  BY <1>1 DEF VarsOK

\* The steps of Alias4variables keep the aliases true.
LEMMA AliasSteps ==
  ASSUME WorkInv, AliasInv, Alias
  PROVE  WorkInv' /\ AliasInv' /\ pass' = pass /\ pass = "alias" /\ check' = check
<1> DEFINE kind == next.node.kind
           new  == AggregatorVariables(next.node.body)
<1>1. /\ pass = "alias" /\ pass' = pass /\ UNCHANGED walkVars /\ work # <<>> /\ check' = check
  BY DEF Alias, AliasAggregator, LeaveAggregator, AliasGroupFilter, AliasSelector, AliasOther,
         AliasRest, At, Active, walkVars, checkVars
<1>2. VarsOK /\ AliasNotes /\ (aggr # None => aggr \in DOMAIN vars.agg)
  BY <1>1 DEF AliasInv
<1>3. ASSUME Stay, aggr' = aggr,
             \/ vars' = vars
             \/ \E x : vars' = [vars EXCEPT !.gf = x]
             \/ \E x : vars' = [vars EXCEPT !.sel = x]
      PROVE  AliasInv'
  <2>1. VarsOK' /\ vars'.agg = vars.agg
    BY <1>2, <1>3, OtherVariables
  <2>2. AliasNotes'
    BY <1>2, <1>3, <2>1, StayAlias
  <2>3. QED
    BY <1>1, <1>2, <1>3, <2>1, <2>2 DEF AliasInv
<1>4. CASE AliasAggregator
  <2>1. next.op = "visit" /\ kind = "aggregator" /\ DescendAndLeave
    BY <1>4 DEF AliasAggregator, At, next
  <2>2. WorkInv' /\ Enter
    BY <1>1, <2>1, Enters DEF Returns
  <2>3. FunctionsAbove' = next.node.body /\ EnteredOf("aggregator")' # {}
    BY <1>1, <2>1, <2>2, EnterAbove, EnterBodies
  <2>4. aggr' = next.path /\ aggr' # None
    <3>1. aggr' = next.path
      BY <1>4 DEF AliasAggregator, path, next
    <3>2. next.path \in Seq(Name)
      BY <1>1, NextItem, ItemIs
    <3>3. QED
      BY <3>1, <3>2, NoneAssumption DEF Name
  <2>5. new \in Seq(VariableSet)
    <3>1. next.node \in Nodes
      BY <1>1, NextItem, ItemIs
    <3>2. next.node.body \in Seq(Function)
      BY <2>1, <3>1, NodeIs
    <3>3. QED
      BY <3>2, VariablesAre
  <2> DEFINE agg == add_var(vars.agg, next.path, new)
             old == get_vars(vars.agg, next.path)
  <2>6. old \in Seq(VariableSet)
    BY <1>2 DEF VarsOK, get_vars
  <2>7. /\ DOMAIN agg = DOMAIN vars.agg \cup {next.path}
        /\ agg[next.path] = old \o new
        /\ \A q \in DOMAIN vars.agg : q # next.path => agg[q] = vars.agg[q]
    BY DEF add_var
  <2>8. vars' = [gf |-> vars.gf, agg |-> agg, sel |-> vars.sel]
    <3>1. vars' = [vars EXCEPT !.agg = agg]
      BY <1>4 DEF AliasAggregator, path, body, next
    <3> HIDE DEF agg
    <3>2. QED
      BY <1>2, <3>1 DEF VarsOK
  <2> HIDE DEF agg, old, new
  <2>9. vars'.agg = agg /\ vars' = [gf |-> vars'.gf, agg |-> vars'.agg, sel |-> vars'.sel]
    BY <2>8
  <2>10. old \o new \in Seq(VariableSet) /\ IsSuffix(new, old \o new)
    BY <2>5, <2>6, SuffixOfConcat
  <2>11. \A q \in DOMAIN agg : agg[q] \in Seq(VariableSet)
    BY <1>2, <2>7, <2>10 DEF VarsOK
  <2>12. VarsOK'
    BY <2>9, <2>11 DEF VarsOK
  <2>13. AggregatorVariables(FunctionsAbove') = new
    BY <2>3 DEF new
  <2>14. IsSuffix(AggregatorVariables(FunctionsAbove'), vars'.agg[aggr'])
    BY <2>4, <2>7, <2>9, <2>10, <2>13
  <2>15. AliasNotes'
    BY <2>3, <2>4, <2>14 DEF AliasNotes
  <2>16. aggr' \in DOMAIN vars'.agg
    BY <2>4, <2>7, <2>9
  <2>17. QED
    BY <1>1, <2>2, <2>12, <2>15, <2>16 DEF AliasInv
<1>5. CASE LeaveAggregator
  <2>1. next.op = "leave" /\ kind = "aggregator" /\ Skip /\ aggr' = None /\ vars' = vars
    BY <1>5 DEF LeaveAggregator, At, next
  <2>2. WorkInv' /\ Leave
    BY <1>1, <2>1, Skips
  <2>3. EnteredOf("aggregator")' = {}
    BY <1>1, <2>1, <2>2, LeaveBodies
  <2>4. AliasNotes'
    BY <2>1, <2>3 DEF AliasNotes
  <2>5. VarsOK'
    BY <1>2, <2>1, OtherVariables
  <2>6. QED
    BY <1>1, <2>1, <2>2, <2>4, <2>5 DEF AliasInv
<1>6. CASE AliasGroupFilter
  <2>1. /\ next.op = "visit" /\ Descend /\ aggr' = aggr
        /\ \E x : vars' = [vars EXCEPT !.gf = x]
    BY <1>6 DEF AliasGroupFilter, At, next
  <2>2. WorkInv' /\ Stay
    BY <1>1, <2>1, Descends
  <2>3. QED
    BY <1>1, <1>3, <2>1, <2>2
<1>7. CASE AliasSelector
  <2>1. /\ next.op = "visit" /\ Skip /\ aggr' = aggr
        /\ (vars' = vars \/ \E x : vars' = [vars EXCEPT !.sel = x])
    BY <1>7 DEF AliasSelector, At, next
  <2>2. WorkInv' /\ Stay
    BY <1>1, <2>1, Skips
  <2>3. QED
    BY <1>1, <1>3, <2>1, <2>2
<1>8. CASE AliasOther
  <2>1. next.op = "visit" /\ Descend /\ aggr' = aggr /\ vars' = vars
    BY <1>8 DEF AliasOther, next
  <2>2. WorkInv' /\ Stay
    BY <1>1, <2>1, Descends
  <2>3. QED
    BY <1>1, <1>3, <2>1, <2>2
<1>9. QED
  BY <1>1, <1>4, <1>5, <1>6, <1>7, <1>8 DEF Alias

-----------------------------------------------------------------------------
(* The Builder.                                                            *)

IsVector(v) == \E S : v \in Seq(S)

LEMMA AppendVector ==
  ASSUME NEW v, IsVector(v), NEW e
  PROVE  /\ IsVector(Append(v, e)) /\ Len(v) \in Nat /\ Len(Append(v, e)) = Len(v) + 1
         /\ Append(v, e)[Len(v) + 1] = e
         /\ \A i \in 1 .. Len(v) : Append(v, e)[i] = v[i]
<1>1. PICK S : v \in Seq(S)
  BY DEF IsVector
<1>2. v \in Seq(S \cup {e}) /\ e \in S \cup {e}
  BY <1>1
<1>3. Append(v, e) \in Seq(S \cup {e})
  BY <1>2
<1>4. QED
  BY <1>2, <1>3 DEF IsVector

LEMMA FrontVector ==
  ASSUME NEW v, IsVector(v), Len(v) >= 1
  PROVE  /\ IsVector(Front(v)) /\ Len(v) \in Nat /\ Len(Front(v)) = Len(v) - 1
         /\ Last(v) = v[Len(v)]
         /\ \A i \in 1 .. Len(v) - 1 : Front(v)[i] = v[i]
<1>1. PICK S : v \in Seq(S)
  BY DEF IsVector
<1>2. Len(v) \in Nat /\ Len(v) >= 1 /\ Len(v) - 1 \in 0 .. Len(v)
  BY <1>1
<1>3. Front(v) \in Seq(S) /\ Len(Front(v)) = Len(v) - 1
  <2> DEFINE n == Len(v) - 1
             f == SubSeq(v, 1, n)
  <2>1. n \in Nat
    BY <1>2
  <2>2. f \in Seq(S) /\ Len(f) = IF 1 <= n THEN n - 1 + 1 ELSE 0
    BY <1>1, <1>2, SubSeqProperties
  <2>3. Front(v) = f
    BY DEF Front
  <2> HIDE DEF n, f
  <2>4. Len(f) = n
    <3> DEFINE l == Len(f)
    <3>1. l = IF 1 <= n THEN n - 1 + 1 ELSE 0
      BY <2>2
    <3> HIDE DEF l
    <3>2. l = n
      BY <2>1, <3>1
    <3>3. QED
      BY <3>2 DEF l
  <2>5. Front(v) \in Seq(S) /\ Len(Front(v)) = n
    BY <2>2, <2>3, <2>4
  <2>6. QED
    BY <2>5 DEF n
<1>4. \A i \in 1 .. Len(v) - 1 : Front(v)[i] = v[i]
  BY <1>1, <1>2 DEF Front
<1>5. QED
  BY <1>1, <1>2, <1>3, <1>4 DEF IsVector, Last

\* The last n elements exist and are vectors.
TopVectors(v, n) ==
  /\ IsVector(v) /\ n \in 0 .. Len(v)
  /\ \A i \in Len(v) - n + 1 .. Len(v) : IsVector(v[i])

LEMMA EmptyVector == IsVector(<<>>)
<1>1. <<>> \in Seq({})
  OBVIOUS
<1>2. QED
  BY <1>1 DEF IsVector

LEMMA PushVector ==
  ASSUME NEW v, NEW n, TopVectors(v, n)
  PROVE  TopVectors(Append(v, <<>>), n + 1)
<1> DEFINE u == Append(v, <<>>)
           l == Len(v)
<1>1. /\ IsVector(u) /\ l \in Nat /\ Len(u) = l + 1 /\ u[l + 1] = <<>>
      /\ \A i \in 1 .. l : u[i] = v[i]
  BY AppendVector DEF TopVectors
<1>2. n \in 0 .. l /\ \A i \in l - n + 1 .. l : IsVector(v[i])
  BY DEF TopVectors
<1> HIDE DEF u, l
<1>3. ASSUME NEW i \in (l + 1) - (n + 1) + 1 .. l + 1 PROVE IsVector(u[i])
  <2>1. CASE i = l + 1
    BY <1>1, <2>1, EmptyVector
  <2>2. CASE i # l + 1
    <3>1. i \in 1 .. l /\ i \in l - n + 1 .. l
      BY <1>1, <1>2, <2>2
    <3>2. QED
      BY <1>1, <1>2, <3>1
  <2>3. QED
    BY <2>1, <2>2
<1>4. n + 1 \in 0 .. l + 1
  BY <1>1, <1>2
<1>5. QED
  BY <1>1, <1>3, <1>4 DEF TopVectors, u

LEMMA PopVector ==
  ASSUME NEW v, NEW n, TopVectors(v, n), n >= 1
  PROVE  TopVectors(Front(v), n - 1)
<1> DEFINE u == Front(v)
           l == Len(v)
<1>1. l \in Nat /\ n \in 0 .. l /\ l >= 1
  <2>1. l \in Nat
    BY DEF TopVectors, IsVector
  <2>2. n \in 0 .. l
    BY DEF TopVectors
  <2> HIDE DEF l
  <2>3. QED
    BY <2>1, <2>2
<1>2. IsVector(u) /\ Len(u) = l - 1 /\ \A i \in 1 .. l - 1 : u[i] = v[i]
  BY <1>1, FrontVector DEF TopVectors
<1>3. \A i \in l - n + 1 .. l : IsVector(v[i])
  BY DEF TopVectors
<1> HIDE DEF u, l
<1>4. ASSUME NEW i \in (l - 1) - (n - 1) + 1 .. l - 1 PROVE IsVector(u[i])
  <2>1. i \in 1 .. l - 1 /\ i \in l - n + 1 .. l
    BY <1>1
  <2>2. QED
    BY <1>2, <1>3, <2>1
<1>5. n - 1 \in 0 .. l - 1
  BY <1>1
<1>6. QED
  BY <1>2, <1>4, <1>5 DEF TopVectors, u

\* A stage is added to the vector on top.
LEMMA AddStage ==
  ASSUME NEW v, NEW n, TopVectors(v, n), n >= 1, NEW stage
  PROVE  TopVectors(Append(Front(v), Append(Last(v), stage)), n)
<1> DEFINE f == Front(v)
           e == Append(Last(v), stage)
           u == Append(f, e)
           l == Len(v)
<1>1. l \in Nat /\ n \in 0 .. l /\ l >= 1
  <2>1. l \in Nat
    BY DEF TopVectors, IsVector
  <2>2. n \in 0 .. l
    BY DEF TopVectors
  <2> HIDE DEF l
  <2>3. QED
    BY <2>1, <2>2
<1>2. \A i \in l - n + 1 .. l : IsVector(v[i])
  BY DEF TopVectors
<1>3. IsVector(f) /\ Len(f) = l - 1 /\ Last(v) = v[l] /\ \A i \in 1 .. l - 1 : f[i] = v[i]
  BY <1>1, FrontVector DEF TopVectors
<1> HIDE DEF l, f
<1>4. IsVector(v[l])
  BY <1>1, <1>2
<1>5. IsVector(e)
  BY <1>3, <1>4, AppendVector
<1> HIDE DEF e
<1>6. /\ IsVector(u) /\ Len(u) = Len(f) + 1 /\ u[Len(f) + 1] = e
      /\ \A i \in 1 .. Len(f) : u[i] = f[i]
  BY <1>3, AppendVector
<1>7. Len(u) = l /\ u[l] = e /\ \A i \in 1 .. l - 1 : u[i] = v[i]
  BY <1>1, <1>3, <1>6
<1> HIDE DEF u
<1>8. ASSUME NEW i \in l - n + 1 .. l PROVE IsVector(u[i])
  <2>1. CASE i = l
    BY <1>5, <1>7, <2>1
  <2>2. CASE i # l
    <3>1. i \in 1 .. l - 1
      BY <1>1, <2>2
    <3>2. QED
      BY <1>2, <1>7, <3>1
  <2>3. QED
    BY <2>1, <2>2
<1>9. QED
  BY <1>1, <1>6, <1>7, <1>8 DEF TopVectors, u, f, e

\* The stages above for which there is a vector on top of b_stack.
Owners == {"main", "filter", "aggregator", "group-filter"}
Opened == {item.node.kind : item \in Entered} \cap Owners

VectorsOpen == TopVectors(b_stack, Cardinality(Opened))

\* The options are those of the stages above, and empty while no stage is built.
BuildInv ==
  /\ counter \in Nat
  /\ IsVector(b_stack)
  /\ IF pass = "build" THEN BuildNotes /\ VectorsOpen
     ELSE opt = [gro |-> <<>>, win |-> None]

LEMMA OpenedFinite == IsFiniteSet(Opened) /\ Cardinality(Opened) \in Nat
<1>1. IsFiniteSet(Owners)
  <2>1. Owners = {"main"} \cup {"filter"} \cup {"aggregator"} \cup {"group-filter"}
    BY DEF Owners
  <2>2. QED
    BY <2>1, FS_Singleton, FS_Union
<1>2. QED
  BY <1>1, FS_Subset, FS_CardinalityType DEF Opened

\* All that is deeper than an outermost branch comes before it is left.
LEMMA MainOpened ==
  ASSUME WorkInv, work # <<>>, pass = "build", Deep(next), ~ EndsMain(next)
  PROVE  "main" \in Opened
<1>1. PICK j \in 1 .. Len(Tail(work)) : EndsMain(Tail(work)[j])
  BY SkipWork DEF WorkInv, next
<1>2. DOMAIN Tail(work) = 1 .. Len(Tail(work))
  BY DEF WorkInv, WorkOK
<1>3. Tail(work)[j] \in ToSet(work)
  BY <1>1, <1>2, ToSetHeadTail DEF WorkInv, WorkOK, ToSet
<1>4. QED
  BY <1>1, <1>3 DEF EndsMain, Opened, Owners, Entered

LEMMA OpenedEnter ==
  ASSUME WorkInv, work # <<>>, Enter
  PROVE  /\ next.node.kind \in Owners => Cardinality(Opened') = Cardinality(Opened) + 1
         /\ next.node.kind \notin Owners => Opened' = Opened
<1> DEFINE k == next.node.kind
           leave == Item("leave", next.node, next.path)
<1>1. leave.node = next.node
  BY DEF Item
<1>2. Entered' = Entered \cup {leave}
  BY DEF Enter
<1>3. Opened' = (Opened \cup {k}) \cap Owners
  BY <1>1, <1>2 DEF Opened
<1>4. Depth(k) \in 1 .. 8
  BY NextItem, ItemIs
<1>5. k \notin Opened
  BY <1>4 DEF Opened, Enter
<1>6. k \notin Owners => Opened' = Opened
  BY <1>3 DEF Opened
<1>7. k \in Owners => Opened' = Opened \cup {k}
  BY <1>3 DEF Opened
<1>8. QED
  BY <1>5, <1>6, <1>7, OpenedFinite, FS_AddElement

LEMMA OpenedLeave ==
  ASSUME WorkInv, work # <<>>, Leave
  PROVE  /\ next.node.kind \in Owners => Cardinality(Opened) = Cardinality(Opened') + 1
         /\ next.node.kind \notin Owners => Opened' = Opened
         /\ next.node.kind = "main" => Opened' = {}
<1> DEFINE k == next.node.kind
<1>1. Entered = Entered' \cup {next}
  BY DEF Leave
<1>2. Opened = (Opened' \cup {k}) \cap Owners
  BY <1>1 DEF Opened
<1>3. Depth(k) \in 1 .. 8
  BY NextItem, ItemIs
<1>4. \A x \in Opened' : Depth(x) < Depth(k)
  BY DEF Opened, Leave
<1>5. k \notin Opened'
  BY <1>3, <1>4
<1>6. k \notin Owners => Opened' = Opened
  BY <1>2 DEF Opened
<1>7. k \in Owners => Opened = Opened' \cup {k}
  BY <1>2 DEF Opened
<1>8. IsFiniteSet(Opened')
  BY <1>1, <1>2, OpenedFinite, FS_Subset DEF Opened
<1>9. k \in Owners => Cardinality(Opened) = Cardinality(Opened') + 1
  BY <1>5, <1>7, <1>8, FS_AddElement
<1>10. k = "main" => Opened' = {}
  BY <1>4, DepthIs DEF Opened, Owners
<1>11. QED
  BY <1>6, <1>9, <1>10

\* Leaving a stage, there is a vector below its own.
LEMMA OwnerLeft ==
  ASSUME WorkInv, work # <<>>, pass = "build", Leave,
         next.node.kind \in {"filter", "aggregator", "group-filter"}
  PROVE  Cardinality(Opened) >= 2 /\ Cardinality(Opened') = Cardinality(Opened) - 1
<1> DEFINE n == Cardinality(Opened)
           m == Cardinality(Opened')
<1>1. n = m + 1
  BY OpenedLeave DEF Owners
<1>2. Opened' \subseteq Opened
  BY DEF Opened, Leave
<1>3. IsFiniteSet(Opened')
  BY <1>2, OpenedFinite, FS_Subset
<1>4. m \in Nat
  BY <1>3, FS_CardinalityType
<1>5. "main" \in Opened
  <2>1. Deep(next) /\ ~ EndsMain(next)
    BY DepthIs DEF Deep, EndsMain
  <2>2. QED
    BY <2>1, MainOpened
<1>6. "main" \in Opened'
  <2>1. Entered = Entered' \cup {next}
    BY DEF Leave
  <2>2. QED
    BY <1>5, <2>1 DEF Opened
<1>7. m # 0
  BY <1>3, <1>6, FS_EmptySet
<1> HIDE DEF n, m
<1>8. n >= 2 /\ m = n - 1
  BY <1>1, <1>4, <1>7
<1>9. QED
  BY <1>8 DEF n, m

\* The options after a step of the walk.
LEMMA StayOptions ==
  ASSUME Stay, opt' = opt, BuildNotes
  PROVE  BuildNotes'
<1>1. KeysAbove' = KeysAbove /\ BodyAbove("window", None)' = BodyAbove("window", None)
  BY StayAbove, StayBodies
<1>2. QED
  BY <1>1 DEF BuildNotes

\* Entering or leaving a stage that has no options.
LEMMA OtherOptions ==
  ASSUME WorkInv, work # <<>>, Enter \/ Leave, opt' = opt, BuildNotes,
         next.node.kind # "grouper", next.node.kind # "window"
  PROVE  BuildNotes'
<1>1. KeysAbove' = KeysAbove
  BY EnterAbove, LeaveAbove
<1>2. BodyAbove("window", None)' = BodyAbove("window", None)
  BY EnterBodies, LeaveBodies
<1>3. QED
  BY <1>1, <1>2 DEF BuildNotes

\* The steps of the Builder keep its notes true and find their vectors.
LEMMA BuildSteps ==
  ASSUME WorkInv, BuildInv, Build
  PROVE  WorkInv' /\ BuildInv' /\ pass = "build" /\ UNCHANGED <<pass, check, vars, aggr>>
<1> DEFINE kind == next.node.kind
           n == Cardinality(Opened)
<1>1. /\ pass = "build" /\ UNCHANGED walkVars /\ work # <<>>
      /\ UNCHANGED <<pass, check, vars, aggr>>
  BY DEF Build, BuildProgram, unpack_main_branch, BuildStage, LeaveFilter, BuildGrouper,
         LeaveGrouper, BuildWindow, LeaveWindow, LeaveAggregatorStage, LeaveGroupFilter,
         BuildSelector, BuildRest, At, Active, walkVars, checkVars
<1>2. counter \in Nat /\ IsVector(b_stack) /\ BuildNotes /\ TopVectors(b_stack, n)
  BY <1>1 DEF BuildInv, VectorsOpen
<1>3. opt = [gro |-> KeysAbove, win |-> BodyAbove("window", None)]
  BY <1>2 DEF BuildNotes
<1>4. n \in Nat
  BY OpenedFinite
<1> HIDE DEF n
<1>5. ASSUME counter' \in Nat, BuildNotes', TopVectors(b_stack', Cardinality(Opened'))
      PROVE  BuildInv'
  BY <1>1, <1>5 DEF BuildInv, VectorsOpen, TopVectors
<1>6. ASSUME next.op = "visit", DescendAndLeave, kind \in Returns("build"),
             kind = "main" => Len(next.path) = 1
      PROVE  WorkInv' /\ Enter
  BY <1>1, <1>6, Enters
<1>7. /\ "filter" \in Returns("build") /\ "grouper" \in Returns("build")
      /\ "window" \in Returns("build") /\ "aggregator" \in Returns("build")
      /\ "group-filter" \in Returns("build") /\ "main" \in Returns("build")
  BY DEF Returns
<1>8. ASSUME Enter, kind \in Owners, kind # "grouper", kind # "window",
             b_stack' = Append(b_stack, <<>>), opt' = opt, counter' = counter
      PROVE  BuildInv'
  <2>1. Cardinality(Opened') = n + 1
    BY <1>1, <1>8, OpenedEnter DEF n
  <2>2. TopVectors(b_stack', n + 1)
    BY <1>2, <1>8, PushVector
  <2>3. BuildNotes'
    BY <1>1, <1>2, <1>8, OtherOptions
  <2>4. QED
    BY <1>2, <1>5, <1>8, <2>1, <2>2, <2>3
<1>9. ASSUME Leave, kind \in Owners, kind # "main", kind # "grouper", kind # "window",
             NEW stage, PopAndAdd(stage), opt' = opt, counter' = counter
      PROVE  BuildInv'
  <2>1. kind \in {"filter", "aggregator", "group-filter"}
    BY <1>9 DEF Owners
  <2>2. n >= 2 /\ Cardinality(Opened') = n - 1
    BY <1>1, <1>9, <2>1, OwnerLeft DEF n
  <2>3. n - 1 >= 1 /\ n >= 1
    BY <1>4, <2>2
  <2>4. TopVectors(Front(b_stack), n - 1)
    BY <1>2, <2>3, PopVector
  <2>5. TopVectors(b_stack', n - 1)
    <3>1. b_stack' = Append(Front(Front(b_stack)), Append(Last(Front(b_stack)), stage))
      BY <1>9 DEF PopAndAdd
    <3>2. QED
      BY <2>3, <2>4, <3>1, AddStage
  <2>6. BuildNotes'
    BY <1>1, <1>2, <1>9, OtherOptions
  <2>7. QED
    BY <1>2, <1>5, <1>9, <2>2, <2>5, <2>6
<1>10. CASE BuildProgram
  <2>1. next.op = "visit" /\ kind \in Inner /\ opt' = opt /\ counter' = counter
    BY <1>10 DEF BuildProgram, next
  <2>2. CASE kind = "main" /\ Len(next.path) = 1
    <3>1. b_stack' = Append(b_stack, <<>>) /\ DescendAndLeave
      BY <1>10, <2>2 DEF BuildProgram, next, path
    <3>2. WorkInv' /\ Enter
      BY <1>6, <1>7, <2>1, <2>2, <3>1
    <3>3. QED
      BY <1>1, <1>8, <2>1, <2>2, <3>1, <3>2 DEF Owners
  <2>3. CASE ~ (kind = "main" /\ Len(next.path) = 1)
    <3>1. b_stack' = b_stack /\ Descend
      BY <1>10, <2>3 DEF BuildProgram, next, path
    <3>2. WorkInv' /\ Stay
      BY <1>1, <2>1, <2>3, <3>1, Descends
    <3>3. BuildNotes'
      BY <1>2, <2>1, <3>2, StayOptions
    <3>4. Opened' = Opened
      BY <3>2 DEF Stay, Opened
    <3>5. QED
      BY <1>1, <1>2, <1>5, <2>1, <3>1, <3>2, <3>3, <3>4 DEF n
  <2>4. QED
    BY <2>2, <2>3
<1>11. CASE unpack_main_branch
  <2>1. /\ next.op = "leave" /\ kind = "main" /\ Skip /\ opt' = opt /\ counter' = counter
        /\ b_stack' = Append(Front(b_stack), None)
    BY <1>11 DEF unpack_main_branch, At, next
  <2>2. WorkInv' /\ Leave
    BY <1>1, <2>1, Skips
  <2>3. Opened' = {}
    BY <1>1, <2>1, <2>2, OpenedLeave
  <2>4. n = 1
    <3>1. n = Cardinality(Opened') + 1
      BY <1>1, <2>1, <2>2, OpenedLeave DEF n, Owners
    <3>2. QED
      BY <2>3, <3>1, FS_EmptySet
  <2>5. IsVector(b_stack')
    <3>1. TopVectors(Front(b_stack), n - 1)
      BY <1>2, <2>4, PopVector
    <3>2. QED
      BY <2>1, <3>1, AppendVector DEF TopVectors
  <2>6. TopVectors(b_stack', 0)
    <3>1. Len(b_stack') \in Nat
      BY <2>5 DEF IsVector
    <3> DEFINE l == Len(b_stack')
    <3> HIDE DEF l
    <3>2. 0 \in 0 .. l /\ \A i \in l - 0 + 1 .. l : FALSE
      BY <3>1 DEF l
    <3>3. QED
      BY <2>5, <3>2 DEF TopVectors, l
  <2>7. BuildNotes'
    BY <1>1, <1>2, <2>1, <2>2, OtherOptions
  <2>8. Cardinality(Opened') = 0
    BY <2>3, FS_EmptySet
  <2>9. QED
    BY <1>1, <1>2, <1>5, <2>1, <2>2, <2>6, <2>7, <2>8
<1>12. CASE BuildStage
  <2>1. /\ next.op = "visit" /\ kind \in {"filter", "aggregator", "group-filter"}
        /\ DescendAndLeave /\ b_stack' = Append(b_stack, <<>>)
        /\ opt' = opt /\ counter' = counter
    BY <1>12 DEF BuildStage, At, next
  <2>2. WorkInv' /\ Enter
    BY <1>6, <1>7, <2>1
  <2>3. QED
    BY <1>1, <1>8, <2>1, <2>2 DEF Owners
<1>13. CASE LeaveFilter \/ LeaveAggregatorStage \/ LeaveGroupFilter
  <2>1. /\ next.op = "leave" /\ kind \in {"filter", "aggregator", "group-filter"}
        /\ Skip /\ opt' = opt /\ counter' = counter
    BY <1>13 DEF LeaveFilter, LeaveAggregatorStage, LeaveGroupFilter, At, next
  <2>2. \E stage : PopAndAdd(stage)
    BY <1>13 DEF LeaveFilter, LeaveAggregatorStage, LeaveGroupFilter
  <2>3. WorkInv' /\ Leave
    BY <1>1, <2>1, Skips
  <2>4. QED
    BY <1>1, <1>9, <2>1, <2>2, <2>3 DEF Owners
<1>14. ASSUME Enter \/ Leave, kind \in {"grouper", "window"}, BuildNotes',
              b_stack' = b_stack, counter' = counter
       PROVE  BuildInv'
  <2>1. Opened' = Opened
    BY <1>1, <1>14, OpenedEnter, OpenedLeave DEF Owners
  <2>2. QED
    BY <1>2, <1>5, <1>14, <2>1 DEF n
<1>15. CASE BuildGrouper
  <2>1. /\ next.op = "visit" /\ kind = "grouper" /\ DescendAndLeave
        /\ b_stack' = b_stack /\ counter' = counter
        /\ opt' = [opt EXCEPT !.gro = @ \o next.node.body]
    BY <1>15 DEF BuildGrouper, At, next, body
  <2>2. WorkInv' /\ Enter
    BY <1>6, <1>7, <2>1
  <2>3. EnteredOf("grouper") = {} /\ KeysAbove' = next.node.body
        /\ BodyAbove("window", None)' = BodyAbove("window", None)
    BY <1>1, <2>1, <2>2, EnterBodies, EnterAbove
  <2>4. KeysAbove = <<>>
    BY <2>3 DEF KeysAbove, BodyAbove
  <2>5. <<>> \o next.node.body = next.node.body
    <3>1. next.node \in Nodes
      BY <1>1, NextItem, ItemIs
    <3>2. next.node.body \in Seq(STRING)
      BY <2>1, <3>1, NodeIs
    <3>3. QED
      BY <3>2
  <2>6. opt' = [gro |-> next.node.body, win |-> BodyAbove("window", None)]
    BY <1>3, <2>1, <2>4, <2>5
  <2>7. BuildNotes'
    BY <2>3, <2>6 DEF BuildNotes
  <2>8. QED
    BY <1>1, <1>14, <2>1, <2>2, <2>7
<1>16. CASE LeaveGrouper
  <2>1. /\ next.op = "leave" /\ kind = "grouper" /\ Skip
        /\ b_stack' = b_stack /\ counter' = counter
        /\ opt' = [opt EXCEPT !.gro = <<>>]
    BY <1>16 DEF LeaveGrouper, At, next
  <2>2. WorkInv' /\ Leave
    BY <1>1, <2>1, Skips
  <2>3. KeysAbove' = <<>> /\ BodyAbove("window", None)' = BodyAbove("window", None)
    BY <1>1, <2>1, <2>2, LeaveBodies, LeaveAbove
  <2>4. opt' = [gro |-> <<>>, win |-> BodyAbove("window", None)]
    BY <1>3, <2>1
  <2>5. BuildNotes'
    BY <2>3, <2>4 DEF BuildNotes
  <2>6. QED
    BY <1>1, <1>14, <2>1, <2>2, <2>5
<1>17. CASE BuildWindow
  <2>1. /\ next.op = "visit" /\ kind = "window" /\ DescendAndLeave
        /\ b_stack' = b_stack /\ counter' = counter
        /\ opt' = [opt EXCEPT !.win = next.node.body]
    BY <1>17 DEF BuildWindow, At, next, body
  <2>2. WorkInv' /\ Enter
    BY <1>6, <1>7, <2>1
  <2>3. KeysAbove' = KeysAbove /\ BodyAbove("window", None)' = next.node.body
    BY <1>1, <2>1, <2>2, EnterBodies, EnterAbove
  <2>4. opt' = [gro |-> KeysAbove, win |-> next.node.body]
    BY <1>3, <2>1
  <2>5. BuildNotes'
    BY <2>3, <2>4 DEF BuildNotes
  <2>6. QED
    BY <1>1, <1>14, <2>1, <2>2, <2>5
<1>18. CASE LeaveWindow
  <2>1. /\ next.op = "leave" /\ kind = "window" /\ Skip
        /\ b_stack' = b_stack /\ counter' = counter
        /\ opt' = [opt EXCEPT !.win = None]
    BY <1>18 DEF LeaveWindow, At, next
  <2>2. WorkInv' /\ Leave
    BY <1>1, <2>1, Skips
  <2>3. KeysAbove' = KeysAbove /\ BodyAbove("window", None)' = None
    BY <1>1, <2>1, <2>2, LeaveBodies, LeaveAbove
  <2>4. opt' = [gro |-> KeysAbove, win |-> None]
    BY <1>3, <2>1
  <2>5. BuildNotes'
    BY <2>3, <2>4 DEF BuildNotes
  <2>6. QED
    BY <1>1, <1>14, <2>1, <2>2, <2>5
<1>19. CASE BuildSelector
  <2>1. /\ next.op = "visit" /\ kind = "selector" /\ Skip
        /\ opt' = opt /\ counter' = counter + 1
        /\ \E stage : b_stack' = Append(Front(b_stack), Append(Last(b_stack), stage))
    BY <1>19 DEF BuildSelector, At, next
  <2>2. WorkInv' /\ Stay
    BY <1>1, <2>1, Skips
  <2>3. Opened' = Opened
    BY <2>2 DEF Stay, Opened
  <2>4. n >= 1
    <3>1. Deep(next) /\ ~ EndsMain(next)
      BY <2>1, DepthIs DEF Deep, EndsMain
    <3>2. "main" \in Opened
      BY <1>1, <3>1, MainOpened
    <3>3. n # 0
      BY <3>2, OpenedFinite, FS_EmptySet DEF n
    <3>4. QED
      BY <1>4, <3>3
  <2>5. TopVectors(b_stack', n)
    BY <1>2, <2>1, <2>4, AddStage
  <2>6. BuildNotes'
    BY <1>2, <2>1, <2>2, StayOptions
  <2>7. QED
    BY <1>1, <1>2, <1>5, <2>1, <2>2, <2>3, <2>5, <2>6 DEF n
<1>20. QED
  BY <1>1, <1>10, <1>11, <1>12, <1>13, <1>15, <1>16, <1>17, <1>18, <1>19 DEF Build

-----------------------------------------------------------------------------
(* All visitors together.                                                  *)

Inv == WorkInv /\ error \in BOOLEAN /\ CheckInv /\ AliasInv /\ BuildInv

\* While no stage is entered, the visitors have noted nothing.
LEMMA NothingEntered ==
  ASSUME Inv, Entered = {}
  PROVE  /\ check = NoNotes /\ aggr = None
         /\ opt = [gro |-> <<>>, win |-> None] /\ Opened = {}
<1>1. check = NoNotes
  BY EmptyNotes DEF Inv, CheckInv
<1>2. aggr = None
  BY DEF Inv, AliasInv, AliasNotes, EnteredOf
<1>3. KeysAbove = <<>> /\ BodyAbove("window", None) = None
  BY DEF KeysAbove, BodyAbove, EnteredOf
<1>4. opt = [gro |-> <<>>, win |-> None]
  BY <1>3 DEF Inv, BuildInv, BuildNotes
<1>5. QED
  BY <1>1, <1>2, <1>4 DEF Opened

LEMMA InitInv ==
  ASSUME Init
  PROVE  Inv
<1>1. WorkInv
  <2>1. ast \in Programs /\ pass = "parse" /\ work = <<Item("visit", ast, <<>>)>>
    BY DEF Init
  <2>2. WorkOK(work, pass)
    BY <2>1, StartWork
  <2>3. QED
    BY <2>1, <2>2 DEF WorkInv, Passes, ToSet
<1>2. CheckInv
  <2>1. check = NoNotes /\ pass = "parse"
    BY DEF Init, NoNotes
  <2>2. <<>> \in Seq(ToSet(Kinds))
    OBVIOUS
  <2>3. QED
    BY <2>1, <2>2 DEF CheckInv, NoNotes
<1>3. AliasInv
  <2>1. vars = [gf |-> NoVars, agg |-> NoVars, sel |-> NoVars] /\ aggr = None
        /\ pass = "parse"
    BY DEF Init
  <2>2. DOMAIN NoVars = {}
    BY DEF NoVars
  <2>3. QED
    BY <2>1, <2>2 DEF AliasInv, VarsOK
<1>4. BuildInv
  BY EmptyVector DEF Init, BuildInv
<1>5. QED
  BY <1>1, <1>2, <1>3, <1>4 DEF Inv, Init

\* The next visitor finds the members as the first one did.
LEMMA PassInv ==
  ASSUME Inv, NextPass \/ check_inter_repr
  PROVE  Inv'
<1>1. WorkInv' /\ Entered = {} /\ Stay
  BY Starts DEF Inv
<1>2. /\ check = NoNotes /\ aggr = None
      /\ opt = [gro |-> <<>>, win |-> None] /\ Opened = {}
  BY <1>1, NothingEntered
<1>3. UNCHANGED <<check, vars, aggr, opt, b_stack, counter>>
  BY DEF NextPass, check_inter_repr, checkVars, buildVars
<1>4. error' \in BOOLEAN
  BY DEF Inv, NextPass, check_inter_repr, checkVars
<1>5. check.stack \in Seq(ToSet(Kinds)) /\ check = [stack |-> check.stack,
        keys |-> check.keys, gro |-> check.gro, agg |-> check.agg, aggrVars |-> check.aggrVars]
  BY DEF Inv, CheckInv
<1>6. CheckInv'
  <2>1. CheckNotes
    BY <1>1, <1>2, <1>5, EmptyNotes
  <2>2. CheckNotes'
    BY <1>1, <1>3, <2>1, StayNotes
  <2>3. QED
    BY <1>2, <1>3, <1>5, <2>2 DEF CheckInv
<1>7. AliasInv'
  <2>1. EnteredOf("aggregator")' = {}
    BY <1>1 DEF EnteredOf, Stay
  <2>2. AliasNotes'
    BY <1>2, <1>3, <2>1 DEF AliasNotes
  <2>3. VarsOK'
    BY <1>3, OtherVariables DEF Inv, AliasInv
  <2>4. QED
    BY <1>2, <1>3, <2>2, <2>3 DEF AliasInv
<1>8. BuildInv'
  <2>1. KeysAbove = <<>> /\ BodyAbove("window", None) = None
    BY <1>1 DEF KeysAbove, BodyAbove, EnteredOf
  <2>2. BuildNotes'
    BY <1>1, <1>2, <1>3, <2>1, StayOptions DEF BuildNotes
  <2>3. Cardinality(Opened') = 0
    <3>1. Opened' = {}
      BY <1>1, <1>2 DEF Opened, Stay
    <3>2. QED
      BY <3>1, FS_EmptySet
  <2>4. IsVector(b_stack)
    BY DEF Inv, BuildInv
  <2>5. TopVectors(b_stack, 0)
    <3>1. Len(b_stack) \in Nat
      BY <2>4 DEF IsVector
    <3> DEFINE l == Len(b_stack)
    <3> HIDE DEF l
    <3>2. 0 \in 0 .. l /\ \A i \in l - 0 + 1 .. l : FALSE
      BY <3>1 DEF l
    <3>3. QED
      BY <2>4, <3>2 DEF TopVectors, l
  <2>6. VectorsOpen'
    BY <1>3, <2>3, <2>5 DEF VectorsOpen
  <2>7. QED
    BY <1>2, <1>3, <2>2, <2>4, <2>6 DEF Inv, BuildInv
<1>9. QED
  BY <1>1, <1>4, <1>6, <1>7, <1>8 DEF Inv

LEMMA NextInv ==
  ASSUME Inv, [Next]_allVars
  PROVE  Inv'
<1>1. CASE NextPass \/ check_inter_repr
  BY <1>1, PassInv
<1>2. CASE Parse
  <2>1. /\ WorkInv' /\ Stay /\ pass = "parse" /\ UNCHANGED <<pass, check, aggr, buildVars>>
        /\ (vars' = vars \/ \E gf : vars' = [vars EXCEPT !.gf = gf])
    BY <1>2, ParseSteps DEF Inv
  <2>2. CheckInv' /\ BuildInv'
    BY <2>1 DEF Inv, CheckInv, BuildInv, buildVars
  <2>3. VarsOK'
    BY <2>1, OtherVariables DEF Inv, AliasInv
  <2>4. AliasInv'
    BY <2>1, <2>3 DEF Inv, AliasInv
  <2>5. error' \in BOOLEAN
    <3>1. CASE error' = (body \in Malformed)
      BY <3>1
    <3>2. CASE error' = error
      BY <3>2 DEF Inv
    <3>3. QED
      BY <1>2, <3>1, <3>2 DEF Parse, parse_filter_body, ParseOther, checkVars
  <2>6. QED
    BY <2>1, <2>2, <2>4, <2>5 DEF Inv
<1>3. CASE Check
  <2>1. WorkInv' /\ CheckInv'
    BY <1>3, CheckSteps DEF Inv
  <2>2. pass = "check" /\ UNCHANGED <<pass, vars, aggr, buildVars>>
    BY <1>3 DEF Check, CheckInner, CheckFilter, CheckGrouper, CheckWindow, CheckAggregator,
                CheckGroupFilter, CheckSelector, CheckLeave, CheckRest, At, Active, walkVars
  <2>3. VarsOK'
    BY <2>2, OtherVariables DEF Inv, AliasInv
  <2>4. AliasInv' /\ BuildInv'
    BY <2>2, <2>3 DEF Inv, AliasInv, BuildInv, buildVars
  <2>5. error' \in BOOLEAN
    BY <1>3 DEF Inv, Check, CheckInner, CheckFilter, CheckGrouper, CheckWindow,
                CheckAggregator, CheckGroupFilter, CheckSelector, CheckLeave, Reject,
                Check_branch_names
  <2>6. QED
    BY <2>1, <2>4, <2>5 DEF Inv
<1>4. CASE Alias
  <2>1. WorkInv' /\ AliasInv' /\ pass' = pass /\ pass = "alias" /\ check' = check
    BY <1>4, AliasSteps DEF Inv
  <2>2. UNCHANGED <<error, buildVars>>
    BY <1>4 DEF Alias, AliasAggregator, LeaveAggregator, AliasGroupFilter, AliasSelector,
                AliasOther, AliasRest, checkVars
  <2>3. CheckInv' /\ BuildInv'
    BY <2>1, <2>2 DEF Inv, CheckInv, BuildInv, buildVars
  <2>4. QED
    BY <2>1, <2>2, <2>3 DEF Inv
<1>5. CASE Build
  <2>1. WorkInv' /\ BuildInv' /\ pass = "build" /\ UNCHANGED <<pass, check, vars, aggr>>
    BY <1>5, BuildSteps DEF Inv
  <2>2. error' = error
    BY <1>5 DEF Build, BuildProgram, unpack_main_branch, BuildStage, LeaveFilter, BuildGrouper,
                LeaveGrouper, BuildWindow, LeaveWindow, LeaveAggregatorStage,
                LeaveGroupFilter, BuildSelector, BuildRest, checkVars
  <2>3. VarsOK'
    BY <2>1, OtherVariables DEF Inv, AliasInv
  <2>4. CheckInv' /\ AliasInv'
    BY <2>1, <2>3 DEF Inv, CheckInv, AliasInv
  <2>5. QED
    BY <2>1, <2>2, <2>4 DEF Inv
<1>6. CASE UNCHANGED allVars
  <2>1. Stay /\ UNCHANGED <<ast, pass, work, error, check, vars, aggr, opt, b_stack, counter>>
    BY <1>6 DEF allVars, Stay, Entered
  <2>2. WorkInv'
    BY <2>1 DEF Inv, WorkInv
  <2>3. CheckInv'
    BY <2>1, StayNotes DEF Inv, CheckInv
  <2>4. VarsOK' /\ (AliasNotes' <=> AliasNotes)
    BY <2>1, OtherVariables, StayAlias DEF Inv, AliasInv
  <2>5. AliasInv'
    BY <2>1, <2>4 DEF Inv, AliasInv
  <2>6. BuildInv'
    <3>1. Opened' = Opened
      BY <2>1 DEF Opened, Stay
    <3>2. BuildNotes => BuildNotes'
      BY <2>1, StayOptions
    <3>3. QED
      BY <2>1, <3>1, <3>2 DEF Inv, BuildInv, VectorsOpen
  <2>7. QED
    BY <2>1, <2>2, <2>3, <2>5, <2>6 DEF Inv
<1>7. QED
  BY <1>1, <1>2, <1>3, <1>4, <1>5, <1>6 DEF Next

LEMMA Invariant == Spec => []Inv
<1>1. Init => Inv
  BY InitInv
<1>2. Inv /\ [Next]_allVars => Inv'
  BY NextInv
<1>3. QED
  BY <1>1, <1>2, PTL DEF Spec

-----------------------------------------------------------------------------
(* The places of rules.                                                    *)

LEMMA Levels ==
  ASSUME NEW rules
  PROVE  /\ PlacesAt(rules)[0] = {Place(rules, {}, <<>>)}
         /\ \A n \in 1 .. Nesting :
              PlacesAt(rules)[n] = UNION {PlacesAfter(p) : p \in PlacesAt(rules)[n - 1]}
<1> DEFINE First == {Place(rules, {}, <<>>)}
           Below(s) == UNION {PlacesAfter(p) : p \in s}
           Upto(m, g) == g[0] = First /\ \A n \in 1 .. m : g[n] = Below(g[n - 1])
           T == {m \in Nat : \E g : Upto(m, g)}
           Whole(g) == g = [n \in 0 .. Nesting |-> IF n = 0 THEN First ELSE Below(g[n - 1])]
<1> USE NestingAssumption
<1>1. 0 \in T
  <2>1. Upto(0, [n \in {0} |-> First])
    OBVIOUS
  <2>2. QED
    BY <2>1
<1>2. ASSUME NEW m \in Nat, m \in T PROVE m + 1 \in T
  <2>1. PICK g : Upto(m, g)
    BY <1>2
  <2> HIDE DEF Below, First
  <2> DEFINE h == [n \in 0 .. m + 1 |-> IF n = m + 1 THEN Below(g[m]) ELSE g[n]]
  <2>2. h[0] = First
    BY <2>1
  <2>3. ASSUME NEW n \in 1 .. m + 1 PROVE h[n] = Below(h[n - 1])
    <3>1. n - 1 \in 0 .. m + 1 /\ n - 1 # m + 1 /\ h[n - 1] = g[n - 1]
      OBVIOUS
    <3>2. CASE n = m + 1
      BY <3>1, <3>2
    <3>3. CASE n # m + 1
      <4>1. n \in 1 .. m /\ h[n] = g[n]
        BY <3>3
      <4>2. QED
        BY <2>1, <3>1, <4>1
    <3>4. QED
      BY <3>2, <3>3
  <2>4. Upto(m + 1, h)
    <3> HIDE DEF h
    <3>1. QED
      BY <2>2, <2>3
  <2>5. \E k : Upto(m + 1, k)
    <3> HIDE DEF h, Upto
    <3>1. QED
      BY <2>4
  <2>6. QED
    BY <2>5
<1>3. Nat \subseteq T
  <2> HIDE DEF T
  <2>1. QED
    BY <1>1, <1>2, SetInduction
<1>4. PICK g : Upto(Nesting, g)
  BY <1>3
<1> HIDE DEF Below, First
<1>5. Whole([n \in 0 .. Nesting |-> g[n]])
  <2> DEFINE f == [n \in 0 .. Nesting |-> g[n]]
  <2>1. f[0] = First
    BY <1>4
  <2>2. ASSUME NEW n \in 0 .. Nesting, n # 0 PROVE f[n] = Below(f[n - 1])
    <3>1. n \in 1 .. Nesting /\ n - 1 \in 0 .. Nesting
      BY <2>2
    <3>2. f[n] = g[n] /\ f[n - 1] = g[n - 1]
      BY <3>1
    <3>3. QED
      BY <1>4, <3>1, <3>2
  <2>3. \A n \in 0 .. Nesting : f[n] = IF n = 0 THEN First ELSE Below(f[n - 1])
    <3> HIDE DEF f
    <3>1. QED
      BY <2>1, <2>2
  <2>4. f = [n \in 0 .. Nesting |-> f[n]]
    OBVIOUS
  <2>5. [n \in 0 .. Nesting |-> f[n]]
          = [n \in 0 .. Nesting |-> IF n = 0 THEN First ELSE Below(f[n - 1])]
    <3> HIDE DEF f
    <3>1. QED
      BY <2>3
  <2>6. f = [n \in 0 .. Nesting |-> IF n = 0 THEN First ELSE Below(f[n - 1])]
    <3> HIDE DEF f
    <3>1. QED
      BY <2>4, <2>5
  <2>7. QED
    <3> HIDE DEF f
    <3>1. Whole(f)
      BY <2>6
    <3>2. QED
      BY <3>1 DEF f
<1>6. PlacesAt(rules) = CHOOSE f : Whole(f)
  BY DEF PlacesAt, Below, First
<1>7. Whole(PlacesAt(rules))
  <2> HIDE DEF Whole
  <2>1. QED
    BY <1>5, <1>6
<1>8. \A n \in 0 .. Nesting :
        PlacesAt(rules)[n] = IF n = 0 THEN First ELSE Below(PlacesAt(rules)[n - 1])
  <2> DEFINE f == PlacesAt(rules)
  <2>1. Whole(f)
    BY <1>7
  <2> HIDE DEF f
  <2>2. \A n \in 0 .. Nesting : f[n] = IF n = 0 THEN First ELSE Below(f[n - 1])
    BY <2>1
  <2>3. QED
    BY <2>2 DEF f
<1>9. 0 \in 0 .. Nesting /\ \A n \in 1 .. Nesting : n \in 0 .. Nesting /\ n # 0
  OBVIOUS
<1>10. QED
  BY <1>8, <1>9 DEF Below, First

\* The places are those that hold the first one and what comes after each of them.
LEMMA PlacesInduction ==
  ASSUME NEW rules, NEW T, Place(rules, {}, <<>>) \in T,
         \A p \in T : PlacesAfter(p) \subseteq T
  PROVE  PlacesOf(rules) \subseteq T
<1> DEFINE f == PlacesAt(rules)
           S == {n \in Nat : n \in 0 .. Nesting => f[n] \subseteq T}
<1> USE NestingAssumption
<1>1. f[0] = {Place(rules, {}, <<>>)}
      /\ \A n \in 1 .. Nesting : f[n] = UNION {PlacesAfter(p) : p \in f[n - 1]}
  BY Levels
<1> HIDE DEF f
<1>2. 0 \in S
  BY <1>1
<1>3. ASSUME NEW n \in Nat, n \in S PROVE n + 1 \in S
  <2>1. SUFFICES ASSUME n + 1 \in 0 .. Nesting PROVE f[n + 1] \subseteq T
    OBVIOUS
  <2>2. n \in 0 .. Nesting /\ n + 1 \in 1 .. Nesting /\ (n + 1) - 1 = n
    BY <2>1
  <2>3. f[n] \subseteq T
    BY <1>3, <2>2
  <2>4. f[n + 1] = UNION {PlacesAfter(p) : p \in f[n]}
    BY <1>1, <2>2
  <2>5. QED
    BY <2>3, <2>4
<1>4. Nat \subseteq S
  <2> HIDE DEF S
  <2>1. QED
    BY <1>2, <1>3, SetInduction
<1>5. \A n \in 0 .. Nesting : f[n] \subseteq T
  BY <1>4
<1>6. QED
  BY <1>5 DEF PlacesOf, f

LEMMA NoSuccessors ==
  ASSUME NEW n, NEW q, n.next = <<>>
  PROVE  ToSet(Successors(n, q)) = {}
BY DEF Successors, ToSet

LEMMA PlacesClosed ==
  ASSUME NEW rules \in Programs
  PROVE  /\ Place(rules, {}, <<>>) \in PlacesOf(rules)
         /\ \A p \in PlacesOf(rules) : PlacesAfter(p) \subseteq PlacesOf(rules)
<1> DEFINE f == PlacesAt(rules)
<1> USE NestingAssumption
<1>1. f[0] = {Place(rules, {}, <<>>)}
      /\ \A n \in 1 .. Nesting : f[n] = UNION {PlacesAfter(p) : p \in f[n - 1]}
  BY Levels
<1>2. \A p \in f[Nesting] : p.node.next = <<>>
  OBVIOUS
<1>3. PlacesOf(rules) = UNION {f[n] : n \in 0 .. Nesting}
  BY DEF PlacesOf
<1> HIDE DEF f
<1>4. 0 \in 0 .. Nesting
  OBVIOUS
<1>5. ASSUME NEW n \in 0 .. Nesting, NEW p \in f[n]
      PROVE  PlacesAfter(p) \subseteq UNION {f[k] : k \in 0 .. Nesting}
  <2>1. CASE n = Nesting
    <3>1. p.node.next = <<>>
      BY <1>2, <2>1
    <3>2. PlacesAfter(p) = {}
      BY <3>1, NoSuccessors DEF PlacesAfter
    <3>3. QED
      BY <3>2
  <2>2. CASE n # Nesting
    <3>1. n + 1 \in 1 .. Nesting /\ n + 1 \in 0 .. Nesting /\ (n + 1) - 1 = n
      BY <2>2
    <3>2. f[n + 1] = UNION {PlacesAfter(r) : r \in f[n]}
      BY <1>1, <3>1
    <3>3. QED
      BY <3>1, <3>2
  <2>3. QED
    BY <2>1, <2>2
<1>6. QED
  BY <1>1, <1>3, <1>4, <1>5

\* What is above a place are stages that the checkers return to.
PlaceTyped(p) ==
  /\ p = Place(p.node, p.above, p.path)
  /\ p.node \in Nodes /\ p.path \in Seq(Name)
  /\ p.node.kind = "main" => p.path # <<>>
  /\ p.node.kind = "program" => p.path = <<>>
  /\ \A n \in p.above : n.kind \in Returns("check")

LEMMA StageBelow ==
  ASSUME NEW n \in Nodes, NEW q \in Seq(Name), n.kind = "main" => q # <<>>,
         n.kind = "program" => q = <<>>, NEW a \in ToSet(Successors(n, q))
  PROVE  /\ a \in WorkItem /\ a.op = "visit"
         /\ a.node.kind = "main" => a.path # <<>>
         /\ a.node.kind = "program" => a.path = <<>>
         /\ n.kind \notin Inner => n.kind \in Returns("check")
         /\ n.kind # "selector"
         /\ n.kind = "group-filter" => a.node.kind = "selector"
<1> DEFINE s == Successors(n, q)
<1>1. s \in Seq(WorkItem) /\ \A i \in 1 .. Len(s) :
             LET b == s[i] IN
             /\ b.op = "visit" /\ \A p : PlaceOK(b, p)
             /\ \/ Depth(n.kind) < Depth(b.node.kind)
                \/ n.kind = "main" /\ b.node.kind = "main" /\ Len(b.path) > 1
  BY SuccessorsAre
<1> HIDE DEF s
<1>2. PICK i \in 1 .. Len(s) : a = s[i]
  BY <1>1 DEF ToSet, s
<1>3. a \in WorkItem /\ a.op = "visit" /\ PlaceOK(a, "check")
      /\ (Depth(n.kind) < Depth(a.node.kind) \/ n.kind = "main")
  BY <1>1, <1>2
<1>4. Depth(a.node.kind) \in 1 .. 8
  BY <1>3, ItemIs
<1>5. n.kind # "selector"
  BY <1>3, <1>4, DepthIs
<1>6. n.kind \in ToSet(Kinds)
  BY NodeIs
<1>7. n.kind \notin Inner => n.kind \in Returns("check")
  BY <1>5, <1>6, KindIs DEF Inner, Returns
<1>8. n.kind = "group-filter" => a.node.kind = "selector"
  <2>1. a.node.kind \in ToSet(Kinds)
    BY <1>3, ItemIs
  <2>2. n.kind = "group-filter" => Depth(a.node.kind) > 7
    BY <1>3, DepthIs
  <2>3. QED
    BY <2>1, <2>2, KindIs, DepthIs
<1>9. QED
  BY <1>3, <1>5, <1>7, <1>8 DEF PlaceOK

LEMMA PlaceIs ==
  ASSUME NEW rules \in Programs
  PROVE  \A p \in PlacesOf(rules) : PlaceTyped(p)
<1> DEFINE T == {p \in PlacesOf(rules) : PlaceTyped(p)}
<1>1. rules \in Nodes /\ rules.kind = "program"
  BY GrammarAssumption
<1>2. PlaceTyped(Place(rules, {}, <<>>))
  BY <1>1 DEF PlaceTyped, Place
<1>3. ASSUME NEW p, PlaceTyped(p), NEW r \in PlacesAfter(p) PROVE PlaceTyped(r)
  <2>1. PICK a \in ToSet(Successors(p.node, p.path)) :
          r = Place(a.node, IF p.node.kind \in Inner THEN p.above ELSE p.above \cup {p.node},
                    a.path)
    BY DEF PlacesAfter
  <2>2. /\ a \in WorkItem
        /\ a.node.kind = "main" => a.path # <<>>
        /\ a.node.kind = "program" => a.path = <<>>
        /\ p.node.kind \notin Inner => p.node.kind \in Returns("check")
    BY <1>3, StageBelow DEF PlaceTyped
  <2>3. a.node \in Nodes /\ a.path \in Seq(Name)
    BY <2>2, ItemIs
  <2>4. /\ r.node = a.node /\ r.path = a.path
        /\ r.above = IF p.node.kind \in Inner THEN p.above ELSE p.above \cup {p.node}
        /\ r = Place(r.node, r.above, r.path)
    BY <2>1 DEF Place
  <2>5. \A n \in r.above : n.kind \in Returns("check")
    BY <1>3, <2>2, <2>4 DEF PlaceTyped
  <2>6. QED
    BY <2>2, <2>3, <2>4, <2>5 DEF PlaceTyped
<1>4. /\ Place(rules, {}, <<>>) \in PlacesOf(rules)
      /\ \A p \in PlacesOf(rules) : PlacesAfter(p) \subseteq PlacesOf(rules)
  BY PlacesClosed
<1>5. Place(rules, {}, <<>>) \in T /\ \A p \in T : PlacesAfter(p) \subseteq T
  BY <1>2, <1>3, <1>4
<1> HIDE DEF T
<1>6. PlacesOf(rules) \subseteq T
  BY <1>5, PlacesInduction
<1>7. QED
  BY <1>6 DEF T

-----------------------------------------------------------------------------
(* How a visitor comes to the places.                                      *)

Leaves(w) == {item.node : item \in EnteredIn(w)}

LeavesAfter(w, i) == {w[j].node : j \in {k \in 1 .. Len(w) : k > i /\ w[k].op = "leave"}}

\* The nodes to visit, each with the stages that are left after it.
Visits(w) ==
  {Place(w[i].node, LeavesAfter(w, i), w[i].path)
     : i \in {k \in 1 .. Len(w) : w[k].op = "visit"}}

VisitsUpTo(w, m) ==
  {Place(w[i].node, LeavesAfter(w, i), w[i].path) : i \in {k \in 1 .. m : w[k].op = "visit"}}

\* What is visited in w comes after the first m items of v.
VisitsSplit(v, m, w) == Visits(v) = VisitsUpTo(v, m) \cup Visits(w)

LEMMA LeavesShift ==
  ASSUME NEW S, NEW v \in Seq(S), NEW w \in Seq(S), NEW m \in Nat, Len(v) = m + Len(w),
         \A j \in 1 .. Len(w) : v[m + j] = w[j]
  PROVE  /\ LeavesAfter(v, m) = Leaves(w)
         /\ \A i \in 1 .. Len(w) : LeavesAfter(v, m + i) = LeavesAfter(w, i)
<1> DEFINE n == Len(w)
<1>1. n \in Nat /\ DOMAIN w = 1 .. n /\ Len(v) = m + n
  OBVIOUS
<1> HIDE DEF n
<1>2. ASSUME NEW i \in 0 .. n
      PROVE  LeavesAfter(v, m + i) = {w[j].node : j \in {k \in 1 .. n : k > i /\ w[k].op = "leave"}}
  <2> DEFINE A == {k \in 1 .. m + n : k > m + i /\ v[k].op = "leave"}
             B == {k \in 1 .. n : k > i /\ w[k].op = "leave"}
  <2>1. ASSUME NEW k \in A PROVE \E j \in B : v[k] = w[j]
    <3>1. k - m \in 1 .. n /\ k - m > i /\ m + (k - m) = k
      BY <1>1
    <3>2. v[k] = w[k - m]
      BY <3>1 DEF n
    <3>3. QED
      BY <3>1, <3>2
  <2>2. ASSUME NEW j \in B PROVE \E k \in A : v[k] = w[j]
    <3>1. m + j \in 1 .. m + n /\ m + j > m + i
      BY <1>1
    <3>2. v[m + j] = w[j]
      BY DEF n
    <3>3. QED
      BY <3>1, <3>2
  <2>3. LeavesAfter(v, m + i) = {v[k].node : k \in A}
    BY <1>1 DEF LeavesAfter
  <2> HIDE DEF A, B
  <2>4. {v[k].node : k \in A} = {w[j].node : j \in B}
    BY <2>1, <2>2
  <2>5. QED
    BY <2>3, <2>4 DEF B
<1>3. LeavesAfter(v, m) = Leaves(w)
  <2>1. m + 0 = m /\ 0 \in 0 .. n
    BY <1>1
  <2>2. LeavesAfter(v, m) = {w[j].node : j \in {k \in 1 .. n : k > 0 /\ w[k].op = "leave"}}
    BY <1>2, <2>1
  <2>3. \A k \in 1 .. n : k > 0
    BY <1>1
  <2>4. Leaves(w) = {w[j].node : j \in {k \in 1 .. n : w[k].op = "leave"}}
    BY <1>1 DEF Leaves, EnteredIn, ToSet
  <2>5. QED
    BY <2>2, <2>3, <2>4
<1>4. ASSUME NEW i \in 1 .. n PROVE LeavesAfter(v, m + i) = LeavesAfter(w, i)
  <2>1. i \in 0 .. n
    BY <1>1
  <2>2. QED
    BY <1>2, <2>1 DEF LeavesAfter, n
<1>5. QED
  BY <1>3, <1>4 DEF n

LEMMA VisitsShift ==
  ASSUME NEW S, NEW v \in Seq(S), NEW w \in Seq(S), NEW m \in Nat, Len(v) = m + Len(w),
         \A j \in 1 .. Len(w) : v[m + j] = w[j]
  PROVE  VisitsSplit(v, m, w)
<1> DEFINE n == Len(w)
           P(i) == Place(v[i].node, LeavesAfter(v, i), v[i].path)
           A == {k \in 1 .. m : v[k].op = "visit"}
           B == {k \in 1 .. n : w[k].op = "visit"}
           C == {k \in 1 .. m + n : v[k].op = "visit"}
<1>1. n \in Nat /\ Len(v) = m + n
  OBVIOUS
<1>2. \A j \in 1 .. n : v[m + j] = w[j] /\ LeavesAfter(v, m + j) = LeavesAfter(w, j)
  BY LeavesShift
<1>3. Visits(w) = {Place(w[j].node, LeavesAfter(w, j), w[j].path) : j \in B}
  BY DEF Visits
<1>4. Visits(v) = {P(i) : i \in C}
  BY <1>1 DEF Visits
<1> HIDE DEF n
<1>5. \A j \in B : m + j \in C /\ P(m + j) = Place(w[j].node, LeavesAfter(w, j), w[j].path)
  <2>1. TAKE j \in B
  <2>2. j \in 1 .. n /\ m + j \in 1 .. m + n
    BY <1>1
  <2>3. v[m + j] = w[j] /\ LeavesAfter(v, m + j) = LeavesAfter(w, j)
    BY <1>2, <2>2
  <2>4. QED
    BY <2>2, <2>3
<1>6. \A i \in C : i \in A \/ (i - m \in B /\ P(i) = P(m + (i - m)))
  <2>1. TAKE i \in C
  <2>2. CASE i \in 1 .. m
    BY <2>2
  <2>3. CASE i \notin 1 .. m
    <3>1. i - m \in 1 .. n /\ m + (i - m) = i
      BY <1>1, <2>3
    <3>2. v[m + (i - m)] = w[i - m]
      BY <1>2, <3>1
    <3>3. QED
      BY <3>1, <3>2
  <2>4. QED
    BY <2>2, <2>3
<1>7. A \subseteq C
  BY <1>1
<1> HIDE DEF P, A, B, C
<1>8. {P(i) : i \in C} = {P(i) : i \in A} \cup {P(m + j) : j \in B}
  BY <1>5, <1>6, <1>7
<1>9. {P(m + j) : j \in B} = {Place(w[j].node, LeavesAfter(w, j), w[j].path) : j \in B}
  BY <1>5
<1>10. QED
  BY <1>3, <1>4, <1>8, <1>9 DEF P, A, VisitsUpTo, VisitsSplit

\* The next item taken off.
LEMMA VisitsTail ==
  ASSUME NEW S, NEW w \in Seq(S), w # <<>>
  PROVE  Visits(w) = (IF Head(w).op = "visit"
                      THEN {Place(Head(w).node, Leaves(Tail(w)), Head(w).path)} ELSE {})
                     \cup Visits(Tail(w))
<1>1. /\ Tail(w) \in Seq(S) /\ Len(w) = 1 + Len(Tail(w)) /\ Head(w) = w[1]
      /\ \A j \in 1 .. Len(Tail(w)) : w[1 + j] = Tail(w)[j]
  OBVIOUS
<1>2. 1 \in Nat /\ 1 .. 1 = {1}
  OBVIOUS
<1> DEFINE t == Tail(w)
<1> HIDE DEF t
<1>3. t \in Seq(S) /\ Len(w) = 1 + Len(t) /\ \A j \in 1 .. Len(t) : w[1 + j] = t[j]
  BY <1>1 DEF t
<1>4. LeavesAfter(w, 1) = Leaves(t)
  BY <1>2, <1>3, LeavesShift
<1>5. VisitsSplit(w, 1, t)
  BY <1>2, <1>3, VisitsShift
<1>6. CASE Head(w).op = "visit"
  <2>1. {k \in 1 .. 1 : w[k].op = "visit"} = {1}
    BY <1>1, <1>2, <1>6
  <2>2. QED
    BY <1>1, <1>4, <1>5, <1>6, <2>1 DEF t, VisitsUpTo, VisitsSplit
<1>7. CASE Head(w).op # "visit"
  <2>1. {k \in 1 .. 1 : w[k].op = "visit"} = {}
    BY <1>1, <1>2, <1>7
  <2>2. QED
    BY <1>5, <1>7, <2>1 DEF t, VisitsUpTo, VisitsSplit
<1>8. QED
  BY <1>6, <1>7

\* Nodes to visit put before the others.
LEMMA VisitsPut ==
  ASSUME NEW S, NEW more \in Seq(S), NEW w \in Seq(S),
         \A i \in 1 .. Len(more) : more[i].op = "visit"
  PROVE  Visits(more \o w) = {Place(a.node, Leaves(w), a.path) : a \in ToSet(more)} \cup Visits(w)
<1> DEFINE m == Len(more)
           v == more \o w
<1>1. /\ m \in Nat /\ v \in Seq(S) /\ Len(v) = m + Len(w) /\ DOMAIN more = 1 .. m
      /\ \A i \in 1 .. m : v[i] = more[i]
      /\ \A j \in 1 .. Len(w) : v[m + j] = w[j]
  OBVIOUS
<1>2. \A i \in 1 .. m : v[i] = more[i] /\ v[i].op = "visit"
  BY <1>1
<1>3. ToSet(more) = {v[i] : i \in 1 .. m}
  BY <1>1 DEF ToSet
<1>4. Len(w) \in Nat
  OBVIOUS
<1> HIDE DEF m, v
<1>0. /\ m \in Nat /\ v \in Seq(S) /\ Len(v) = m + Len(w)
      /\ \A j \in 1 .. Len(w) : v[m + j] = w[j]
  BY <1>1
<1>5. LeavesAfter(v, m) = Leaves(w)
  BY <1>0, LeavesShift
<1>6. VisitsSplit(v, m, w)
  BY <1>0, VisitsShift
<1>7. ASSUME NEW i \in 1 .. m PROVE LeavesAfter(v, i) = Leaves(w)
  <2>1. ASSUME NEW k \in 1 .. m + Len(w), v[k].op = "leave" PROVE k > i <=> k > m
    <3>1. k \notin 1 .. m
      BY <1>2, <2>1
    <3>2. QED
      BY <1>1, <1>4, <3>1
  <2>2. {k \in 1 .. Len(v) : k > i /\ v[k].op = "leave"}
          = {k \in 1 .. Len(v) : k > m /\ v[k].op = "leave"}
    BY <1>1, <2>1
  <2>3. QED
    BY <1>5, <2>2 DEF LeavesAfter
<1>8. {k \in 1 .. m : v[k].op = "visit"} = 1 .. m
  BY <1>2
<1>9. {Place(v[i].node, LeavesAfter(v, i), v[i].path) : i \in 1 .. m}
        = {Place(a.node, Leaves(w), a.path) : a \in ToSet(more)}
  BY <1>3, <1>7
<1>10. QED
  BY <1>6, <1>8, <1>9 DEF v, VisitsUpTo, VisitsSplit

LEMMA LeavesPut ==
  ASSUME NEW S, NEW w \in Seq(S), NEW a \in S, a.op = "leave"
  PROVE  /\ Leaves(<<a>> \o w) = Leaves(w) \cup {a.node}
         /\ Visits(<<a>> \o w) = Visits(w)
<1> DEFINE v == <<a>> \o w
<1>1. v \in Seq(S) /\ v # <<>> /\ Head(v) = a /\ Tail(v) = w
  OBVIOUS
<1> HIDE DEF v
<1>2. ToSet(v) = {a} \cup ToSet(w)
  BY <1>1, ToSetHeadTail
<1>3. EnteredIn(v) = EnteredIn(w) \cup {a}
  BY <1>2 DEF EnteredIn
<1>4. Visits(v) = Visits(w)
  BY <1>1, VisitsTail
<1>5. QED
  BY <1>3, <1>4 DEF Leaves, v

-----------------------------------------------------------------------------
(* The places that a visitor has dealt with.                               *)

\* What a visitor that returns to some kinds of stages sees of a place.
Seen(p, q) == Place(p.node, {n \in p.above : n.kind \in Returns(q)}, p.path)

\* Parse_filter_bodies does not look below a group-filter.
Unvisited(q) == IF q = "parse" THEN {"selector"} ELSE {}

\* D are places that have been dealt with, w leads to all the others in P.
Covered(D, P, rules, w, q) ==
  /\ D \subseteq P
  /\ Visits(w) \subseteq {Seen(p, q) : p \in P}
  /\ LET start == Place(rules, {}, <<>>) IN start \in D \/ Seen(start, q) \in Visits(w)
  /\ \A p \in D : \A r \in PlacesAfter(p) :
       r \in D \/ Seen(r, q) \in Visits(w) \/ r.node.kind \in Unvisited(q)

LEMMA CoveredStart ==
  ASSUME NEW rules \in Programs, NEW q
  PROVE  Covered({}, PlacesOf(rules), rules, <<Item("visit", rules, <<>>)>>, q)
<1> DEFINE a == Item("visit", rules, <<>>)
           w == <<a>>
           start == Place(rules, {}, <<>>)
<1>1. /\ w \in Seq({a}) /\ w # <<>> /\ Head(w) = a /\ Tail(w) = <<>>
  OBVIOUS
<1>2. a.op = "visit" /\ a.node = rules /\ a.path = <<>>
  BY DEF Item
<1>3. Leaves(<<>>) = {} /\ Visits(<<>>) = {}
  BY DEF Leaves, EnteredIn, ToSet, Visits
<1> HIDE DEF a, w
<1>4. Visits(w) = {start}
  BY <1>1, <1>2, <1>3, VisitsTail
<1>5. Seen(start, q) = start
  BY DEF Seen, Place
<1>6. start \in PlacesOf(rules)
  BY PlacesClosed
<1>7. QED
  BY <1>4, <1>5, <1>6 DEF Covered, w, a

\* When nothing is left to visit, all has been dealt with.
LEMMA CoveredEnd ==
  ASSUME NEW rules \in Programs, NEW q, NEW D, Covered(D, PlacesOf(rules), rules, <<>>, q)
  PROVE  \A p \in PlacesOf(rules) : p \in D \/ p.node.kind \in Unvisited(q)
<1> DEFINE T == {p \in PlacesOf(rules) : p \in D \/ p.node.kind \in Unvisited(q)}
<1>1. Visits(<<>>) = {}
  BY DEF Visits
<1>2. /\ Place(rules, {}, <<>>) \in PlacesOf(rules)
      /\ \A p \in PlacesOf(rules) : PlacesAfter(p) \subseteq PlacesOf(rules)
  BY PlacesClosed
<1>3. Place(rules, {}, <<>>) \in T
  BY <1>1, <1>2 DEF Covered
<1>4. ASSUME NEW p \in T PROVE PlacesAfter(p) \subseteq T
  <2>1. CASE p \in D
    BY <1>1, <1>2, <2>1 DEF Covered
  <2>2. CASE p.node.kind \in Unvisited(q)
    <3>1. p.node.kind = "selector"
      BY <2>2 DEF Unvisited
    <3>2. PlaceTyped(p)
      BY PlaceIs
    <3>3. ToSet(Successors(p.node, p.path)) = {}
      BY <3>1, <3>2, StageBelow DEF PlaceTyped
    <3>4. QED
      BY <3>3 DEF PlacesAfter
  <2>3. QED
    BY <2>1, <2>2
<1> HIDE DEF T
<1>5. PlacesOf(rules) \subseteq T
  BY <1>3, <1>4, PlacesInduction
<1>6. QED
  BY <1>5 DEF T

\* Leaving a stage changes nothing.
LEMMA CoveredLeave ==
  ASSUME NEW D, NEW P, NEW rules, NEW q, NEW S, NEW w \in Seq(S), w # <<>>,
         Head(w).op # "visit", Covered(D, P, rules, w, q)
  PROVE  Covered(D, P, rules, Tail(w), q)
<1>1. Visits(w) = Visits(Tail(w))
  BY VisitsTail
<1>2. QED
  BY <1>1 DEF Covered

\* The places that are visited with the next item.
Here(P, w, q) == {p \in P : Seen(p, q) = Place(Head(w).node, Leaves(Tail(w)), Head(w).path)}

\* After a visit its successors in M are visited, with the stages above them.
Onward(n, L, M, q) ==
  {Place(a.node, IF n.kind \in Returns(q) THEN L \cup {n} ELSE L, a.path) : a \in M}

LEMMA CoveredVisit ==
  ASSUME NEW rules \in Programs, NEW q \in {"parse", "check", "alias"}, NEW D, NEW S,
         NEW w \in Seq(S), w # <<>>, Head(w).op = "visit",
         Covered(D, PlacesOf(rules), rules, w, q),
         NEW M \in SUBSET ToSet(Successors(Head(w).node, Head(w).path)),
         \A a \in ToSet(Successors(Head(w).node, Head(w).path)) :
           a \in M \/ a.node.kind \in Unvisited(q),
         NEW v, Visits(v) = Onward(Head(w).node, Leaves(Tail(w)), M, q) \cup Visits(Tail(w))
  PROVE  Covered(D \cup Here(PlacesOf(rules), w, q), PlacesOf(rules), rules, v, q)
<1> DEFINE P == PlacesOf(rules)
           n == Head(w).node
           names == Head(w).path
           L == Leaves(Tail(w))
           this == Place(n, L, names)
           after == ToSet(Successors(n, names))
           above(p) == IF n.kind \in Inner THEN p.above ELSE p.above \cup {n}
           X == Here(P, w, q)
           start == Place(rules, {}, <<>>)
<1>1. Visits(w) = {this} \cup Visits(Tail(w))
  BY VisitsTail
<1>2. \A p \in P : PlacesAfter(p) \subseteq P /\ PlaceTyped(p)
  BY PlacesClosed, PlaceIs
<1>3. \A k \in Inner : k \notin Returns(q)
  BY DEF Inner, Returns
<1>4. ASSUME NEW p \in X
      PROVE  /\ PlacesAfter(p) = {Place(a.node, above(p), a.path) : a \in after}
             /\ \A a : Seen(Place(a.node, above(p), a.path), q)
                         = Place(a.node, IF n.kind \in Returns(q) THEN L \cup {n} ELSE L, a.path)
  <2>1. /\ Seen(p, q) = this
        /\ p.node = n /\ p.path = names /\ {k \in p.above : k.kind \in Returns(q)} = L
    BY DEF Here, Seen, Place
  <2>2. {k \in above(p) : k.kind \in Returns(q)}
          = IF n.kind \in Returns(q) THEN L \cup {n} ELSE L
    BY <1>3, <2>1
  <2>3. PlacesAfter(p) = {Place(a.node, above(p), a.path) : a \in after}
    BY <2>1 DEF PlacesAfter
  <2> HIDE DEF above, L
  <2>4. QED
    BY <2>2, <2>3 DEF Seen, Place
<1>5. X \subseteq P
  BY DEF Here
<1>6. ASSUME NEW p \in P, Seen(p, q) = this PROVE p \in X
  BY <1>6 DEF Here
<1>7. Onward(n, L, M, q)
        = {Place(a.node, IF n.kind \in Returns(q) THEN L \cup {n} ELSE L, a.path) : a \in M}
  BY DEF Onward
<1>8. Visits(v) = Onward(n, L, M, q) \cup Visits(Tail(w))
  OBVIOUS
<1>9. M \subseteq after /\ \A a \in after : a \in M \/ a.node.kind \in Unvisited(q)
  OBVIOUS
<1>10. /\ D \subseteq P /\ Visits(w) \subseteq {Seen(p, q) : p \in P}
       /\ start \in P /\ (start \in D \/ Seen(start, q) \in Visits(w))
       /\ \A p \in D : \A r \in PlacesAfter(p) :
            r \in D \/ Seen(r, q) \in Visits(w) \/ r.node.kind \in Unvisited(q)
  BY PlacesClosed DEF Covered
<1> HIDE DEF P, n, names, L, this, after, above, X, start
<1>11. PICK p0 \in X : TRUE
  BY <1>1, <1>6, <1>10
<1>12. Visits(v) \subseteq {Seen(p, q) : p \in P}
  <2>1. ASSUME NEW a \in M
        PROVE  Place(a.node, IF n.kind \in Returns(q) THEN L \cup {n} ELSE L, a.path)
                 \in {Seen(p, q) : p \in P}
    <3>1. Place(a.node, above(p0), a.path) \in PlacesAfter(p0)
      BY <1>4, <1>9, <1>11
    <3>2. Place(a.node, above(p0), a.path) \in P
      BY <1>2, <1>5, <1>11, <3>1
    <3>3. QED
      BY <1>4, <1>11, <3>2
  <2>2. QED
    BY <1>1, <1>7, <1>8, <1>10, <2>1
<1>13. start \in D \cup X \/ Seen(start, q) \in Visits(v)
  BY <1>1, <1>6, <1>8, <1>10
<1>14. ASSUME NEW p \in D, NEW r \in PlacesAfter(p)
       PROVE  r \in D \cup X \/ Seen(r, q) \in Visits(v) \/ r.node.kind \in Unvisited(q)
  <2>1. r \in P
    BY <1>2, <1>10
  <2>2. QED
    BY <1>1, <1>6, <1>8, <1>10, <2>1
<1>15. ASSUME NEW p \in X, NEW r \in PlacesAfter(p)
       PROVE  Seen(r, q) \in Visits(v) \/ r.node.kind \in Unvisited(q)
  <2>1. PICK a \in after : r = Place(a.node, above(p), a.path)
    BY <1>4
  <2>2. CASE a \in M
    BY <1>4, <1>7, <1>8, <2>1, <2>2
  <2>3. CASE a.node.kind \in Unvisited(q)
    <3>1. r.node = a.node
      BY <2>1 DEF Place
    <3>2. QED
      BY <2>3, <3>1
  <2>4. QED
    BY <1>9, <2>2, <2>3
<1>16. Covered(D \cup X, P, rules, v, q)
  BY <1>5, <1>10, <1>12, <1>13, <1>14, <1>15 DEF Covered, start
<1>17. QED
  BY <1>16 DEF X, P
-----------------------------------------------------------------------------
(* The stack of the checker of stages.                                     *)

Sorted(s) == \A i, j \in DOMAIN s : i < j => Depth(s[i]) < Depth(s[j])

If(k, s) == IF k \in ToSet(s) THEN <<k>> ELSE <<>>

\* The first kind of a sorted sequence taken off, if it is there.
LEMMA Strip ==
  ASSUME NEW s \in Seq(ToSet(Kinds)), Sorted(s), NEW k \in ToSet(Kinds),
         \A x \in ToSet(s) : x = k \/ Depth(k) < Depth(x)
  PROVE  \E t \in Seq(ToSet(Kinds)) :
           s = If(k, s) \o t /\ Sorted(t) /\ ToSet(t) = ToSet(s) \ {k}
<1>1. Len(s) \in Nat /\ DOMAIN s = 1 .. Len(s)
  OBVIOUS
<1>2. \A x \in ToSet(Kinds) : Depth(x) \in Int
  BY KindIs, DepthIs
<1>3. CASE k \notin ToSet(s)
  <2>1. s = <<>> \o s
    OBVIOUS
  <2>2. If(k, s) = <<>>
    BY <1>3 DEF If
  <2>3. ToSet(s) = ToSet(s) \ {k}
    BY <1>3
  <2>4. QED
    BY <2>1, <2>2, <2>3
<1>4. CASE k \in ToSet(s)
  <2> DEFINE t == Tail(s)
             n == Len(s)
  <2>1. PICK m \in 1 .. n : s[m] = k
    BY <1>1, <1>4 DEF ToSet
  <2>2. s # <<>> /\ 1 \in 1 .. n
    BY <2>1, <1>1
  <2>3. m = 1
    <3>1. SUFFICES ASSUME m # 1 PROVE FALSE
      OBVIOUS
    <3>2. Depth(s[1]) < Depth(k)
      BY <1>1, <2>1, <2>2, <3>1 DEF Sorted
    <3>3. s[1] \in ToSet(s) /\ s[1] \in ToSet(Kinds)
      BY <1>1, <2>2 DEF ToSet
    <3>4. s[1] = k \/ Depth(k) < Depth(s[1])
      BY <3>3
    <3>5. Depth(k) \in Int /\ Depth(s[1]) \in Int
      BY <1>2, <3>3
    <3>6. QED
      BY <3>2, <3>4, <3>5
  <2>4. /\ t \in Seq(ToSet(Kinds)) /\ DOMAIN t = 1 .. n - 1
        /\ \A i \in 1 .. n - 1 : t[i] = s[i + 1] /\ i + 1 \in 1 .. n /\ t[i] \in ToSet(Kinds)
        /\ s = <<s[1]>> \o t /\ Head(s) = s[1]
    BY <2>2
  <2>5. ToSet(s) = {k} \cup ToSet(t)
    BY <2>1, <2>2, <2>3, <2>4, ToSetHeadTail
  <2> HIDE DEF t
  <2>6. \A i \in 1 .. n - 1 : Depth(k) < Depth(t[i])
    <3>1. TAKE i \in 1 .. n - 1
    <3>2. i + 1 \in 1 .. n /\ 1 < i + 1
      BY <1>1
    <3>3. Depth(s[1]) < Depth(s[i + 1])
      BY <1>1, <2>2, <3>2 DEF Sorted
    <3>4. QED
      BY <2>1, <2>3, <2>4, <3>3
  <2>7. k \notin ToSet(t)
    <3>1. \A i \in 1 .. n - 1 : t[i] # k
      BY <1>2, <2>4, <2>6
    <3>2. QED
      BY <2>4, <3>1 DEF ToSet
  <2>8. Sorted(t)
    <3>1. ASSUME NEW i \in 1 .. n - 1, NEW j \in 1 .. n - 1, i < j
          PROVE  Depth(t[i]) < Depth(t[j])
      <4>1. i + 1 \in 1 .. n /\ j + 1 \in 1 .. n /\ i + 1 < j + 1
        BY <1>1, <3>1
      <4>2. Depth(s[i + 1]) < Depth(s[j + 1])
        BY <1>1, <4>1 DEF Sorted
      <4>3. QED
        BY <2>4, <4>2
    <3>2. QED
      BY <2>4, <3>1 DEF Sorted
  <2>9. If(k, s) = <<s[1]>>
    BY <1>4, <2>1, <2>3 DEF If
  <2>10. ToSet(t) = ToSet(s) \ {k}
    BY <2>5, <2>7
  <2>11. QED
    BY <2>4, <2>8, <2>9, <2>10
<1>5. QED
  BY <1>3, <1>4

\* A window or a group-filter comes with a grouper or an aggregator.
Combined(K) ==
  "window" \in K \/ "group-filter" \in K => "grouper" \in K \/ "aggregator" \in K

LEMMA KindsAre ==
  /\ "filter" \in ToSet(Kinds) /\ "grouper" \in ToSet(Kinds) /\ "window" \in ToSet(Kinds)
  /\ "aggregator" \in ToSet(Kinds) /\ "group-filter" \in ToSet(Kinds)
<1>1. 3 \in DOMAIN Kinds /\ 4 \in DOMAIN Kinds /\ 5 \in DOMAIN Kinds /\ 6 \in DOMAIN Kinds
      /\ 7 \in DOMAIN Kinds
  BY DEF Kinds
<1>2. Kinds[3] = "filter" /\ Kinds[4] = "grouper" /\ Kinds[5] = "window"
      /\ Kinds[6] = "aggregator" /\ Kinds[7] = "group-filter"
  BY DEF Kinds
<1>3. QED
  BY <1>1, <1>2 DEF ToSet

LEMMA Pair ==
  ASSUME NEW x, NEW y
  PROVE  <<x>> \o <<y>> = <<x, y>>
<1> DEFINE s == <<x>> \o <<y>>
           t == <<x, y>>
<1>1. <<x>> \in Seq({x, y}) /\ <<y>> \in Seq({x, y})
  OBVIOUS
<1>2. s \in Seq({x, y}) /\ Len(s) = 2 /\ s[1] = x /\ s[2] = y
  BY <1>1
<1>3. t = [i \in 1 .. 2 |-> t[i]] /\ t[1] = x /\ t[2] = y
  OBVIOUS
<1> HIDE DEF s, t
<1>4. s = [i \in 1 .. 2 |-> s[i]]
  BY <1>2
<1>5. \A i \in 1 .. 2 : s[i] = t[i]
  BY <1>2, <1>3
<1>6. QED
  BY <1>3, <1>4, <1>5 DEF s, t

Joined(k, w, a, h) == k \o w \o a \o h

\* What is joined, and how.
JoinedOf(S, k, w, a, h) ==
  /\ Joined(k, w, a, h) \in Seq(S)
  /\ ToSet(Joined(k, w, a, h)) = ToSet(k) \cup ToSet(w) \cup ToSet(a) \cup ToSet(h)
  /\ Joined(k, w, a, h) = k \o (w \o (a \o h))

Regrouped(x, y, z) == (x \o y) \o z = x \o (y \o z)

LEMMA Regroup ==
  ASSUME NEW S, NEW x \in Seq(S), NEW y \in Seq(S), NEW z \in Seq(S)
  PROVE  Regrouped(x, y, z)
BY ConcatAssociative, Z3 DEF Regrouped

LEMMA FourTogether ==
  ASSUME NEW S, NEW k \in Seq(S), NEW w \in Seq(S), NEW a \in Seq(S), NEW h \in Seq(S)
  PROVE  JoinedOf(S, k, w, a, h)
<1>1. \A x, y \in Seq(S) : x \o y \in Seq(S)
  OBVIOUS
<1>2. \A x, y \in Seq(S) : ToSet(x \o y) = ToSet(x) \cup ToSet(y)
  BY ToSetConcat
<1> DEFINE u == k \o w
           v == u \o a
           b == a \o h
<1>3. u \in Seq(S) /\ b \in Seq(S)
  BY <1>1
<1> HIDE DEF u, b
<1>4. v \in Seq(S) /\ ToSet(v) = ToSet(u) \cup ToSet(a)
  BY <1>1, <1>2, <1>3
<1> HIDE DEF v
<1>5. v \o h \in Seq(S) /\ ToSet(v \o h) = ToSet(v) \cup ToSet(h)
  BY <1>1, <1>2, <1>4
<1>6. ToSet(u) = ToSet(k) \cup ToSet(w)
  BY <1>2 DEF u
<1>7. Regrouped(u, a, h)
  BY <1>3, Regroup, Zenon
<1>8. Regrouped(k, w, b)
  BY <1>3, Regroup, Zenon
<1>9. QED
  <2>1. Joined(k, w, a, h) = v \o h
    BY DEF v, u, Joined
  <2>2. ToSet(v \o h) = ToSet(k) \cup ToSet(w) \cup ToSet(a) \cup ToSet(h)
    BY <1>4, <1>5, <1>6
  <2>3. v \o h = k \o (w \o (a \o h))
    BY <1>7, <1>8 DEF u, v, b, Regrouped
  <2>4. QED
    BY <1>5, <2>1, <2>2, <2>3 DEF JoinedOf

LEMMA Combination ==
  ASSUME NEW s \in Seq(Returns("check")), Sorted(s)
  PROVE  s \in allowedComb <=> Combined(ToSet(s))
<1> DEFINE K == ToSet(s)
           Ks == Seq(ToSet(Kinds))
           Alone == {<<"window">>, <<"group-filter">>, <<"window", "group-filter">>}
           F == {<<>>, <<"filter">>}
           G == {<<>>, <<"grouper">>}
           W == {<<>>, <<"window">>}
           A == {<<>>, <<"aggregator">>}
           H == {<<>>, <<"group-filter">>}
<1>0. /\ ToSet(<<>>) = {} /\ ToSet(<<"filter">>) = {"filter"}
      /\ ToSet(<<"grouper">>) = {"grouper"} /\ ToSet(<<"window">>) = {"window"}
      /\ ToSet(<<"aggregator">>) = {"aggregator"} /\ ToSet(<<"group-filter">>) = {"group-filter"}
      /\ <<>> \in Ks /\ <<"filter">> \in Ks /\ <<"grouper">> \in Ks /\ <<"window">> \in Ks
      /\ <<"aggregator">> \in Ks /\ <<"group-filter">> \in Ks
  <2>1. /\ ToSet(<<>>) = {} /\ ToSet(<<"filter">>) = {"filter"}
        /\ ToSet(<<"grouper">>) = {"grouper"} /\ ToSet(<<"window">>) = {"window"}
        /\ ToSet(<<"aggregator">>) = {"aggregator"} /\ ToSet(<<"group-filter">>) = {"group-filter"}
    BY DEF ToSet
  <2>2. /\ <<>> \in Ks /\ <<"filter">> \in Ks /\ <<"grouper">> \in Ks /\ <<"window">> \in Ks
        /\ <<"aggregator">> \in Ks /\ <<"group-filter">> \in Ks
    BY KindsAre
  <2>3. QED
    BY <2>1, <2>2
<1>1. /\ s \in Ks
      /\ K \subseteq {"filter", "grouper", "window", "aggregator", "group-filter"}
  <2>1. Returns("check") = {"filter", "grouper", "window", "aggregator", "group-filter"}
    BY DEF Returns
  <2>2. Returns("check") \subseteq ToSet(Kinds)
    BY <2>1, KindsAre
  <2>3. s \in Seq(ToSet(Kinds))
    BY <2>2, SeqIs
  <2>4. \A i \in DOMAIN s : s[i] \in Returns("check")
    OBVIOUS
  <2>5. QED
    BY <2>1, <2>3, <2>4 DEF ToSet
<1>2. ASSUME NEW k \in G, NEW w \in W, NEW a \in A, NEW h \in H
      PROVE  /\ k \in Ks /\ w \in Ks /\ a \in Ks /\ h \in Ks /\ Joined(k, w, a, h) \in Ks
             /\ ToSet(Joined(k, w, a, h)) = ToSet(k) \cup ToSet(w) \cup ToSet(a) \cup ToSet(h)
             /\ Joined(k, w, a, h) = k \o (w \o (a \o h))
  <2>1. k \in Ks /\ w \in Ks /\ a \in Ks /\ h \in Ks
    <3>1. /\ k = <<>> \/ k = <<"grouper">>
          /\ w = <<>> \/ w = <<"window">>
          /\ a = <<>> \/ a = <<"aggregator">>
          /\ h = <<>> \/ h = <<"group-filter">>
      OBVIOUS
    <3>2. QED
      BY <1>0, <3>1
  <2>2. QED
    <3> DEFINE S == ToSet(Kinds)
    <3>1. k \in Seq(S) /\ w \in Seq(S) /\ a \in Seq(S) /\ h \in Seq(S)
      BY <2>1
    <3> HIDE DEF S
    <3>2. JoinedOf(S, k, w, a, h)
      BY <3>1, FourTogether
    <3>3. QED
      BY <2>1, <3>2 DEF S, JoinedOf
<1>3. s \in allowedComb <=>
        \E f \in F, k \in G, w \in W, a \in A, h \in H :
          Joined(k, w, a, h) \notin Alone /\ s = f \o Joined(k, w, a, h)
  <2> DEFINE R == {Joined(k, w, a, h) : k \in G, w \in W, a \in A, h \in H}
  <2>1. allowedComb = {f \o g : f \in F, g \in R \ Alone}
    BY DEF allowedComb, Joined
  <2> HIDE DEF F, G, W, A, H, Alone
  <2>2. \A g : g \in R <=> \E k \in G, w \in W, a \in A, h \in H : g = Joined(k, w, a, h)
    OBVIOUS
  <2> HIDE DEF R
  <2>3. s \in allowedComb <=> \E f \in F, g \in R : g \notin Alone /\ s = f \o g
    BY <2>1
  <2>4. QED
    BY <2>2, <2>3
<1>4. \A g \in Alone : ToSet(g) # {} /\ ToSet(g) \subseteq {"window", "group-filter"}
  <2>1. ToSet(<<"window">>) = {"window"} /\ ToSet(<<"group-filter">>) = {"group-filter"}
        /\ ToSet(<<"window", "group-filter">>) = {"window", "group-filter"}
    BY DEF ToSet
  <2>2. QED
    BY <2>1
<1>5. ASSUME Combined(K) PROVE s \in allowedComb
  <2>1. PICK s1 \in Ks : s = If("filter", s) \o s1 /\ Sorted(s1) /\ ToSet(s1) = K \ {"filter"}
    <3>1. \A x \in ToSet(s) : x = "filter" \/ Depth("filter") < Depth(x)
      BY <1>1, DepthIs
    <3>2. s \in Seq(ToSet(Kinds)) /\ Sorted(s) /\ "filter" \in ToSet(Kinds)
      BY <1>1, KindsAre
    <3>3. QED
      BY <3>1, <3>2, Strip
  <2>2. PICK s2 \in Ks : s1 = If("grouper", s1) \o s2 /\ Sorted(s2)
                         /\ ToSet(s2) = ToSet(s1) \ {"grouper"}
    <3>1. \A x \in ToSet(s1) : x = "grouper" \/ Depth("grouper") < Depth(x)
      BY <1>1, <2>1, DepthIs
    <3>2. s1 \in Seq(ToSet(Kinds)) /\ Sorted(s1) /\ "grouper" \in ToSet(Kinds)
      BY <1>1, <2>1, KindsAre
    <3>3. QED
      BY <3>1, <3>2, Strip
  <2>3. PICK s3 \in Ks : s2 = If("window", s2) \o s3 /\ Sorted(s3)
                         /\ ToSet(s3) = ToSet(s2) \ {"window"}
    <3>1. \A x \in ToSet(s2) : x = "window" \/ Depth("window") < Depth(x)
      BY <1>1, <2>1, <2>2, DepthIs
    <3>2. s2 \in Seq(ToSet(Kinds)) /\ Sorted(s2) /\ "window" \in ToSet(Kinds)
      BY <1>1, <2>1, <2>2, KindsAre
    <3>3. QED
      BY <3>1, <3>2, Strip
  <2>4. PICK s4 \in Ks : s3 = If("aggregator", s3) \o s4 /\ Sorted(s4)
                         /\ ToSet(s4) = ToSet(s3) \ {"aggregator"}
    <3>1. \A x \in ToSet(s3) : x = "aggregator" \/ Depth("aggregator") < Depth(x)
      BY <1>1, <2>1, <2>2, <2>3, DepthIs
    <3>2. s3 \in Seq(ToSet(Kinds)) /\ Sorted(s3) /\ "aggregator" \in ToSet(Kinds)
      BY <1>1, <2>1, <2>2, <2>3, KindsAre
    <3>3. QED
      BY <3>1, <3>2, Strip
  <2>5. PICK s5 \in Ks : s4 = If("group-filter", s4) \o s5 /\ Sorted(s5)
                         /\ ToSet(s5) = ToSet(s4) \ {"group-filter"}
    <3>1. \A x \in ToSet(s4) : x = "group-filter" \/ Depth("group-filter") < Depth(x)
      BY <1>1, <2>1, <2>2, <2>3, <2>4, DepthIs
    <3>2. s4 \in Seq(ToSet(Kinds)) /\ Sorted(s4) /\ "group-filter" \in ToSet(Kinds)
      BY <1>1, <2>1, <2>2, <2>3, <2>4, KindsAre
    <3>3. QED
      BY <3>1, <3>2, Strip
  <2> DEFINE f == If("filter", s)
             k == If("grouper", s1)
             w == If("window", s2)
             a == If("aggregator", s3)
             h == If("group-filter", s4)
  <2>6. f \in F /\ k \in G /\ w \in W /\ a \in A /\ h \in H
    BY DEF If
  <2>7. s5 = <<>>
    <3>1. ToSet(s5) = {}
      BY <1>1, <2>1, <2>2, <2>3, <2>4, <2>5
    <3>2. Len(s5) \in Nat /\ DOMAIN s5 = 1 .. Len(s5) /\ (Len(s5) = 0 => s5 = <<>>)
      OBVIOUS
    <3>3. Len(s5) # 0 => 1 \in DOMAIN s5
      BY <3>2
    <3>4. DOMAIN s5 = {}
      BY <3>1 DEF ToSet
    <3>5. QED
      BY <3>2, <3>3, <3>4
  <2> HIDE DEF f, k, w, a, h, F, G, W, A, H, Alone
  <2>8. h \in Ks /\ Joined(k, w, a, h) = k \o (w \o (a \o h))
    BY <1>2, <2>6
  <2>9. s4 = h
    <3>1. s4 = h \o <<>>
      BY <2>5, <2>7 DEF h
    <3>2. QED
      BY <2>8, <3>1
  <2>10. s1 = Joined(k, w, a, h)
    BY <2>2, <2>3, <2>4, <2>8, <2>9 DEF k, w, a
  <2>11. Joined(k, w, a, h) \notin Alone
    <3>1. ASSUME s1 \in Alone PROVE FALSE
      <4>1. ToSet(s1) # {} /\ ToSet(s1) \subseteq {"window", "group-filter"}
        BY <1>4, <3>1
      <4>2. ToSet(s1) = K \ {"filter"}
        BY <2>1
      <4>3. "window" \in K \/ "group-filter" \in K
        BY <4>1, <4>2
      <4>4. "grouper" \in K \/ "aggregator" \in K
        BY <1>5, <4>3 DEF Combined
      <4>5. "grouper" \in ToSet(s1) \/ "aggregator" \in ToSet(s1)
        BY <4>2, <4>4
      <4>6. QED
        BY <4>1, <4>5
    <3>2. QED
      BY <2>10, <3>1
  <2>12. QED
    BY <1>3, <2>1, <2>6, <2>10, <2>11 DEF f
<1>6. ASSUME s \in allowedComb PROVE Combined(K)
  <2>1. PICK f \in F, k \in G, w \in W, a \in A, h \in H :
          Joined(k, w, a, h) \notin Alone /\ s = f \o Joined(k, w, a, h)
    BY <1>3, <1>6
  <2>2. SUFFICES ASSUME "grouper" \notin K, "aggregator" \notin K
                 PROVE  "window" \notin K /\ "group-filter" \notin K
    BY DEF Combined
  <2>3. /\ k \in Ks /\ w \in Ks /\ a \in Ks /\ h \in Ks /\ Joined(k, w, a, h) \in Ks
        /\ ToSet(Joined(k, w, a, h)) = ToSet(k) \cup ToSet(w) \cup ToSet(a) \cup ToSet(h)
        /\ Joined(k, w, a, h) = k \o (w \o (a \o h))
    BY <1>2
  <2>4. f \in Ks /\ ToSet(f) \subseteq {"filter"}
    <3>1. f = <<>> \/ f = <<"filter">>
      OBVIOUS
    <3>2. QED
      BY <1>0, <3>1
  <2>5. K = ToSet(f) \cup ToSet(Joined(k, w, a, h))
    <3> DEFINE r == Joined(k, w, a, h)
    <3>1. r \in Seq(ToSet(Kinds)) /\ f \in Seq(ToSet(Kinds)) /\ s = f \o r
      BY <2>1, <2>3, <2>4
    <3> HIDE DEF r
    <3>2. ToSet(f \o r) = ToSet(f) \cup ToSet(r)
      BY <3>1, ToSetConcat
    <3>3. QED
      BY <3>1, <3>2 DEF r
  <2>6. k = <<>> /\ a = <<>>
    <3>1. k = <<"grouper">> => "grouper" \in ToSet(k)
      BY <1>0
    <3>2. a = <<"aggregator">> => "aggregator" \in ToSet(a)
      BY <1>0
    <3>3. "grouper" \notin ToSet(k) /\ "aggregator" \notin ToSet(a)
      BY <2>2, <2>3, <2>5
    <3>4. (k = <<>> \/ k = <<"grouper">>) /\ (a = <<>> \/ a = <<"aggregator">>)
      OBVIOUS
    <3>5. QED
      BY <3>1, <3>2, <3>3, <3>4
  <2>7. Joined(k, w, a, h) = w \o h
    BY <2>3, <2>6
  <2>8. w = <<>> /\ h = <<>>
    <3>1. w \o h \notin Alone
      BY <2>1, <2>7
    <3>2. <<"window">> \o <<>> = <<"window">> /\ <<>> \o <<"group-filter">> = <<"group-filter">>
      BY <1>0, ConcatEmptySeq
    <3>3. <<"window">> \o <<"group-filter">> = <<"window", "group-filter">>
      BY Pair
    <3>4. (w = <<>> \/ w = <<"window">>) /\ (h = <<>> \/ h = <<"group-filter">>)
      OBVIOUS
    <3>5. QED
      BY <3>1, <3>2, <3>3, <3>4
  <2>9. ToSet(<<>>) = {}
    BY DEF ToSet
  <2>10. K \subseteq {"filter"}
    BY <2>3, <2>4, <2>5, <2>6, <2>8, <2>9
  <2>11. QED
    BY <2>10
<1>7. QED
  BY <1>5, <1>6

-----------------------------------------------------------------------------
(* What a checker has noted of the place it looks at.                      *)

\* There is one stage of a kind above, if any.
LEMMA OneAbove ==
  ASSUME WorkInv, NEW k, NEW a \in EnteredOf(k), NEW b \in EnteredOf(k)
  PROVE  a = b
<1>1. work \in Seq(WorkItem) /\ DOMAIN work = 1 .. Len(work) /\ Len(work) \in Nat
  BY DEF WorkInv, WorkOK
<1>2. a \in ToSet(work) /\ b \in ToSet(work) /\ a.op = "leave" /\ b.op = "leave"
      /\ a.node.kind = k /\ b.node.kind = k
  BY DEF EnteredOf, Entered
<1>3. PICK i \in 1 .. Len(work) : work[i] = a
  BY <1>1, <1>2 DEF ToSet
<1>4. PICK j \in 1 .. Len(work) : work[j] = b
  BY <1>1, <1>2 DEF ToSet
<1>5. Depth(k) \in 1 .. 8
  BY <1>1, <1>2, <1>3, ItemIs
<1>6. ~ Inside(a, b) /\ ~ Inside(b, a)
  BY <1>2, <1>5 DEF Inside
<1>7. \A m, n \in 1 .. Len(work) : m < n /\ work[n].op = "leave" => Inside(work[m], work[n])
  BY DEF WorkInv, WorkOK
<1>8. ~ (i < j) /\ ~ (j < i)
  BY <1>2, <1>3, <1>4, <1>6, <1>7
<1>9. QED
  BY <1>1, <1>3, <1>4, <1>8

\* The stages above a place, seen from the nodes still to leave.
BodiesOf(k) == {item.node.body : item \in EnteredOf(k)}

LEMMA BodiesAre ==
  ASSUME WorkInv, NEW k, NEW x
  PROVE  BodiesOf(k) = IF EnteredOf(k) = {} THEN {} ELSE {BodyAbove(k, x)}
<1>1. CASE EnteredOf(k) = {}
  BY <1>1 DEF BodiesOf
<1>2. CASE EnteredOf(k) # {}
  <2> DEFINE a == CHOOSE item \in EnteredOf(k) : TRUE
  <2>1. a \in EnteredOf(k)
    BY <1>2
  <2>2. BodyAbove(k, x) = a.node.body
    BY <1>2 DEF BodyAbove
  <2> HIDE DEF a
  <2>3. EnteredOf(k) = {a}
    BY <2>1, OneAbove
  <2>4. QED
    BY <1>2, <2>2, <2>3 DEF BodiesOf
<1>3. QED
  BY <1>1, <1>2

\* A place with these stages above it is the one the checker looks at.
Above(p) == p.above = {item.node : item \in Entered}

LEMMA NotesFit ==
  ASSUME WorkInv, BodyNotes, NEW p, Above(p)
  PROVE  /\ KeysOf(p) = check.gro /\ FirstKeysOf(p) = check.keys
         /\ ParamsOf(p) = check.agg /\ VariablesOf(p) = check.aggrVars
<1>1. \A k : BodiesAbove(p, k) = BodiesOf(k)
  BY DEF BodiesAbove, BodiesOf, Above, EnteredOf
<1>2. ToSet(<<>>) = {} /\ Names(<<>>) = {}
  BY DEF ToSet, Names
<1>3. ASSUME NEW k, NEW a \in EnteredOf(k) PROVE a.node \in Nodes /\ a.node.kind = k
  BY SeqIs, ItemIs DEF EnteredOf, Entered, WorkInv, WorkOK, ToSet
<1>4. KeysOf(p) = check.gro /\ FirstKeysOf(p) = check.keys
  <2>1. CASE EnteredOf("grouper") = {}
    <3>1. KeysAbove = <<>> /\ BodiesAbove(p, "grouper") = {}
      BY <1>1, <2>1, BodiesAre DEF KeysAbove, BodyAbove
    <3>2. check.gro = {} /\ check.keys = {}
      BY <1>2, <3>1 DEF BodyNotes
    <3>3. KeysOf(p) = {} /\ FirstKeysOf(p) = {}
      BY <3>1 DEF KeysOf, FirstKeysOf
    <3>4. QED
      BY <3>2, <3>3
  <2>2. CASE EnteredOf("grouper") # {}
    <3>1. BodiesAbove(p, "grouper") = {KeysAbove}
      BY <1>1, <2>2, BodiesAre DEF KeysAbove
    <3>2. KeysAbove # <<>>
      <4>1. PICK a \in EnteredOf("grouper") : KeysAbove = a.node.body
        BY <2>2 DEF KeysAbove, BodyAbove
      <4>2. QED
        BY <1>3, <4>1, NodeIs
    <3>3. check.gro = ToSet(KeysAbove) /\ check.keys = FirstKey(KeysAbove)
      BY <3>2 DEF BodyNotes
    <3>4. KeysOf(p) = ToSet(KeysAbove) /\ FirstKeysOf(p) = FirstKey(KeysAbove)
      BY <3>1 DEF KeysOf, FirstKeysOf
    <3>5. QED
      BY <3>3, <3>4
  <2>3. QED
    BY <2>1, <2>2
<1>5. ParamsOf(p) = check.agg /\ VariablesOf(p) = check.aggrVars
  <2>1. CASE EnteredOf("aggregator") = {}
    <3>1. FunctionsAbove = <<>> /\ BodiesAbove(p, "aggregator") = {}
      BY <1>1, <2>1, BodiesAre DEF FunctionsAbove, BodyAbove
    <3>2. check.agg = {} /\ check.aggrVars = {}
      BY <1>2, <3>1 DEF BodyNotes
    <3>3. ParamsOf(p) = {} /\ VariablesOf(p) = {}
      BY <3>1 DEF ParamsOf, VariablesOf
    <3>4. QED
      BY <3>2, <3>3
  <2>2. CASE EnteredOf("aggregator") # {}
    <3>1. BodiesAbove(p, "aggregator") = {FunctionsAbove}
      BY <1>1, <2>2, BodiesAre DEF FunctionsAbove
    <3>2. FunctionsAbove # <<>>
      <4>1. PICK a \in EnteredOf("aggregator") : FunctionsAbove = a.node.body
        BY <2>2 DEF FunctionsAbove, BodyAbove
      <4>2. QED
        BY <1>3, <4>1, NodeIs
    <3>3. check.agg = ToSet(Params(FunctionsAbove)) /\ check.aggrVars = Names(FunctionsAbove)
      BY <3>2 DEF BodyNotes
    <3>4. /\ ParamsOf(p) = ToSet(Params(FunctionsAbove))
          /\ VariablesOf(p) = Names(FunctionsAbove)
      BY <3>1 DEF ParamsOf, VariablesOf
    <3>5. QED
      BY <3>3, <3>4
  <2>3. QED
    BY <2>1, <2>2
<1>6. QED
  BY <1>4, <1>5

\* The kinds on the stack are those of the stages above the place.
LEMMA StackFits ==
  ASSUME WorkInv, pass = "check", StackNotes, check.stack \in Seq(ToSet(Kinds)),
         NEW p, Above(p)
  PROVE  check.stack \in allowedComb <=> Combines(p)
<1> DEFINE s == check.stack
<1>1. ToSet(s) = KindsAbove(p)
  BY DEF StackNotes, KindsAbove, Above
<1>2. ASSUME NEW a \in Entered PROVE a.node.kind \in Returns("check")
  <2>1. \A i \in 1 .. Len(work) : PlaceOK(work[i], "check")
    BY DEF WorkInv, WorkOK
  <2>2. work \in Seq(WorkItem) /\ DOMAIN work = 1 .. Len(work)
    BY DEF WorkInv, WorkOK
  <2>3. QED
    BY <2>1, <2>2 DEF Entered, ToSet, PlaceOK
<1>3. ToSet(s) \subseteq Returns("check")
  BY <1>2 DEF StackNotes
<1>4. s \in Seq(Returns("check"))
  <2>1. Len(s) \in Nat /\ DOMAIN s = 1 .. Len(s) /\ s = [i \in 1 .. Len(s) |-> s[i]]
    OBVIOUS
  <2>2. \A i \in 1 .. Len(s) : s[i] \in Returns("check")
    BY <1>3, <2>1 DEF ToSet
  <2> HIDE DEF s
  <2>3. QED
    BY <2>1, <2>2
<1>5. Sorted(s)
  BY DEF StackNotes, Sorted
<1>6. s \in allowedComb <=> Combined(ToSet(s))
  BY <1>4, <1>5, Combination
<1>7. QED
  BY <1>1, <1>6 DEF Combined, Combines, Has

-----------------------------------------------------------------------------
(* The steps of a visitor, and the places it has dealt with.               *)

LEMMA VisitIs ==
  ASSUME NEW q, NEW w, WorkOK(w, q), w # <<>>, Head(w).op = "visit"
  PROVE  LET n == Head(w).node
             names == Head(w).path
             s == Successors(n, names)
         IN /\ n \in Nodes /\ names \in Seq(Name) /\ w \in Seq(WorkItem)
            /\ n.kind = "main" => names # <<>>
            /\ n.kind = "program" => names = <<>>
            /\ s \in Seq(WorkItem) /\ \A i \in 1 .. Len(s) : s[i].op = "visit"
<1> DEFINE n == Head(w).node
           names == Head(w).path
<1>1. Head(w) \in WorkItem /\ PlaceOK(Head(w), q)
  BY SkipWork
<1>2. n \in Nodes /\ names \in Seq(Name)
  BY <1>1, ItemIs
<1>3. n.kind = "main" => names # <<>>
  BY <1>1 DEF PlaceOK
<1>4. n.kind = "program" => names = <<>>
  BY <1>1 DEF PlaceOK
<1>5. w \in Seq(WorkItem)
  BY DEF WorkOK
<1> HIDE DEF n, names
<1>6. /\ Successors(n, names) \in Seq(WorkItem)
      /\ \A i \in 1 .. Len(Successors(n, names)) : Successors(n, names)[i].op = "visit"
  BY <1>2, <1>3, <1>4, SuccessorsAre
<1>7. QED
  BY <1>2, <1>3, <1>4, <1>5, <1>6 DEF n, names

\* The places of the next visit.
LEMMA HereIs ==
  ASSUME NEW rules \in Programs, NEW q, NEW D, NEW w, WorkOK(w, q), w # <<>>,
         Head(w).op = "visit", Covered(D, PlacesOf(rules), rules, w, q)
  PROVE  /\ Here(PlacesOf(rules), w, q) # {}
         /\ \A p \in Here(PlacesOf(rules), w, q) :
              /\ p \in PlacesOf(rules) /\ p.node = Head(w).node /\ p.path = Head(w).path
              /\ q = "check" => p.above = {item.node : item \in EnteredIn(w)}
<1> DEFINE this == Place(Head(w).node, Leaves(Tail(w)), Head(w).path)
           P == PlacesOf(rules)
<1>1. Visits(w) = {this} \cup Visits(Tail(w))
  BY VisitsTail DEF WorkOK
<1>2. PICK p \in P : Seen(p, q) = this
  BY <1>1 DEF Covered
<1>3. EnteredIn(w) = EnteredIn(Tail(w))
  BY LeaveWork
<1>4. ASSUME NEW r \in Here(P, w, q)
      PROVE  /\ r \in P /\ r.node = Head(w).node /\ r.path = Head(w).path
             /\ q = "check" => r.above = {item.node : item \in EnteredIn(w)}
  <2>1. r \in P /\ Seen(r, q) = this
    BY DEF Here
  <2>2. /\ r.node = Head(w).node /\ r.path = Head(w).path
        /\ {n \in r.above : n.kind \in Returns(q)} = Leaves(Tail(w))
    BY <2>1 DEF Seen, Place
  <2>3. PlaceTyped(r)
    BY <2>1, PlaceIs
  <2>4. q = "check" => r.above = Leaves(Tail(w))
    BY <2>2, <2>3 DEF PlaceTyped
  <2>5. QED
    BY <1>3, <2>1, <2>2, <2>4 DEF Leaves
<1>5. p \in Here(P, w, q)
  BY <1>2 DEF Here
<1>6. QED
  BY <1>4, <1>5

\* Parse_filter_bodies and the checkers skip only what has nothing to visit below.
LEMMA CoveredSkip ==
  ASSUME NEW rules \in Programs, NEW q \in {"parse", "check"}, NEW D, NEW w, WorkOK(w, q),
         w # <<>>, Head(w).op = "visit", Covered(D, PlacesOf(rules), rules, w, q),
         \/ Head(w).node.kind = "selector"
         \/ q = "parse" /\ Head(w).node.kind = "group-filter"
  PROVE  Covered(D \cup Here(PlacesOf(rules), w, q), PlacesOf(rules), rules, Tail(w), q)
<1> DEFINE n == Head(w).node
           names == Head(w).path
           after == ToSet(Successors(n, names))
<1>1. n \in Nodes /\ names \in Seq(Name) /\ w \in Seq(WorkItem) /\ n.kind # "main"
      /\ n.kind # "program"
  BY VisitIs
<1>2. ASSUME NEW a \in after PROVE a.node.kind \in Unvisited(q)
  <2>1. n.kind # "selector" /\ a \in WorkItem
    BY <1>1, StageBelow
  <2>2. q = "parse" /\ n.kind = "group-filter"
    BY <2>1
  <2>3. a.node.kind = "selector"
    BY <1>1, <2>2, StageBelow
  <2>4. QED
    BY <2>2, <2>3 DEF Unvisited
<1>3. Visits(Tail(w)) = Onward(n, Leaves(Tail(w)), {}, q) \cup Visits(Tail(w))
  BY DEF Onward
<1>4. {} \in SUBSET after /\ \A a \in after : a \in {} \/ a.node.kind \in Unvisited(q)
  BY <1>2
<1>5. q \in {"parse", "check", "alias"}
  OBVIOUS
<1> HIDE DEF n, names, after
<1>6. QED
  BY <1>1, <1>3, <1>4, <1>5, CoveredVisit DEF n, names, after

\* A node is not left, and its successors are visited next.
LEMMA CoveredDescend ==
  ASSUME NEW rules \in Programs, NEW q \in {"parse", "check"}, NEW D, NEW w, WorkOK(w, q),
         w # <<>>, Head(w).op = "visit", Covered(D, PlacesOf(rules), rules, w, q),
         Head(w).node.kind \notin Returns(q)
  PROVE  Covered(D \cup Here(PlacesOf(rules), w, q), PlacesOf(rules), rules,
                 Successors(Head(w).node, Head(w).path) \o Tail(w), q)
<1> DEFINE n == Head(w).node
           names == Head(w).path
           s == Successors(n, names)
           t == Tail(w)
           v == s \o t
<1>1. w \in Seq(WorkItem) /\ s \in Seq(WorkItem) /\ \A i \in 1 .. Len(s) : s[i].op = "visit"
  BY VisitIs
<1>2. t \in Seq(WorkItem)
  BY <1>1
<1> HIDE DEF s, t
<1>3. Visits(v) = {Place(a.node, Leaves(t), a.path) : a \in ToSet(s)} \cup Visits(t)
  BY <1>1, <1>2, VisitsPut
<1>4. Visits(v) = Onward(n, Leaves(t), ToSet(s), q) \cup Visits(t)
  BY <1>3 DEF Onward
<1>5. ToSet(s) \in SUBSET ToSet(s) /\ \A a \in ToSet(s) : a \in ToSet(s)
  OBVIOUS
<1>6. q \in {"parse", "check", "alias"}
  OBVIOUS
<1> HIDE DEF v, n, names
<1>7. QED
  BY <1>1, <1>4, <1>5, <1>6, CoveredVisit DEF v, n, names, s, t

\* A stage is left after its successors.
LEMMA CoveredEnter ==
  ASSUME NEW rules \in Programs, NEW q \in {"parse", "check"}, NEW D, NEW w, WorkOK(w, q),
         w # <<>>, Head(w).op = "visit", Covered(D, PlacesOf(rules), rules, w, q),
         Head(w).node.kind \in Returns(q)
  PROVE  Covered(D \cup Here(PlacesOf(rules), w, q), PlacesOf(rules), rules,
                 Successors(Head(w).node, Head(w).path)
                   \o <<Item("leave", Head(w).node, Head(w).path)>> \o Tail(w), q)
<1> DEFINE n == Head(w).node
           names == Head(w).path
           s == Successors(n, names)
           t == Tail(w)
           leave == Item("leave", n, names)
           rest == <<leave>> \o t
           v == s \o <<leave>> \o t
<1>1. /\ w \in Seq(WorkItem) /\ s \in Seq(WorkItem) /\ \A i \in 1 .. Len(s) : s[i].op = "visit"
      /\ n \in Nodes /\ names \in Seq(Name)
  BY VisitIs
<1>2. leave \in WorkItem /\ leave.op = "leave" /\ leave.node = n
  BY <1>1 DEF Item, WorkItem
<1>3. t \in Seq(WorkItem)
  BY <1>1
<1> HIDE DEF s, t, leave
<1>4. Leaves(rest) = Leaves(t) \cup {n} /\ Visits(rest) = Visits(t)
  BY <1>2, <1>3, LeavesPut
<1>5. rest \in Seq(WorkItem) /\ v = s \o rest
  <2>1. rest \in Seq(WorkItem) /\ <<leave>> \in Seq(WorkItem)
    BY <1>2, <1>3
  <2>2. v = s \o rest
    BY <1>1, <1>3, <2>1, ConcatAssociative
  <2>3. QED
    BY <2>1, <2>2
<1> HIDE DEF rest
<1>6. Visits(v) = {Place(a.node, Leaves(rest), a.path) : a \in ToSet(s)} \cup Visits(rest)
  <2> HIDE DEF n, names, v
  <2>1. Visits(s \o rest) = {Place(a.node, Leaves(rest), a.path) : a \in ToSet(s)} \cup Visits(rest)
    BY <1>1, <1>5, VisitsPut, Zenon
  <2>2. QED
    BY <1>5, <2>1
<1>7. Visits(v) = Onward(n, Leaves(t), ToSet(s), q) \cup Visits(t)
  BY <1>4, <1>6 DEF Onward
<1>8. ToSet(s) \in SUBSET ToSet(s) /\ \A a \in ToSet(s) : a \in ToSet(s)
  OBVIOUS
<1>9. q \in {"parse", "check", "alias"}
  OBVIOUS
<1> HIDE DEF v, n, names
<1>10. QED
  BY <1>1, <1>7, <1>8, <1>9, CoveredVisit DEF v, n, names, s, t, leave

-----------------------------------------------------------------------------
(* The verdict of the checkers.                                            *)

\* How the checkers walk.
LEMMA CheckMoves ==
  ASSUME Check
  PROVE  /\ pass = "check" /\ ~ error /\ work # <<>> /\ ast' = ast /\ pass' = pass /\ vars' = vars
         /\ \/ next.op = "leave" /\ Skip /\ error' = error
            \/ /\ next.op = "visit" /\ Descend
               /\ next.node.kind \notin Returns("check") /\ next.node.kind # "selector"
            \/ next.op = "visit" /\ DescendAndLeave /\ next.node.kind \in Returns("check")
            \/ next.op = "visit" /\ Skip /\ next.node.kind = "selector"
<1>1. pass = "check" /\ ~ error /\ work # <<>> /\ ast' = ast /\ pass' = pass /\ vars' = vars
  BY DEF Check, CheckInner, CheckFilter, CheckGrouper, CheckWindow, CheckAggregator,
         CheckGroupFilter, CheckSelector, CheckLeave, CheckRest, At, Active, walkVars
<1>2. Returns("check") = {"filter", "grouper", "window", "aggregator", "group-filter"}
  BY DEF Returns
<1>3. CASE CheckLeave
  BY <1>1, <1>3 DEF CheckLeave, next
<1>4. CASE CheckInner
  BY <1>1, <1>2, <1>4 DEF CheckInner, next, Inner
<1>5. CASE CheckSelector
  BY <1>1, <1>5 DEF CheckSelector, At, next
<1>6. CASE CheckFilter \/ CheckGrouper \/ CheckWindow \/ CheckAggregator \/ CheckGroupFilter
  <2>1. \E k \in Returns("check") : At("check", "visit", k) /\ DescendAndLeave
    BY <1>2, <1>6 DEF CheckFilter, CheckGrouper, CheckWindow, CheckAggregator, CheckGroupFilter
  <2>2. QED
    BY <1>1, <2>1 DEF At, next
<1>7. QED
  BY <1>3, <1>4, <1>5, <1>6 DEF Check

\* A group-filter that was parsed, and variables that are those of a group-filter.
Known(p) == p.path \in DOMAIN vars.gf /\ p.node.body \notin Malformed

NamesKnown ==
  \A q \in DOMAIN vars.gf :
    \E p \in Places("group-filter") : p.path = q /\ Names(vars.gf[q]) = ToSet(p.node.body)

\* The checkers reject a place if and only if it does not fit what is above it.
LEMMA Verdict ==
  ASSUME WorkInv, CheckInv, Check, next.op = "visit",
         NEW p \in AllPlaces, p.node = next.node, p.path = next.path, Above(p),
         GroupFiltersApart, NamesKnown, next.node.kind = "group-filter" => Known(p)
  PROVE  error' <=> ~ PassesChecks(p)
<1> DEFINE kind == next.node.kind
           text == next.node.body
           dup == HasDuplicates(next.node)
<1>1. pass = "check" /\ work # <<>>
  BY CheckMoves
<1>2. check.stack \in Seq(ToSet(Kinds)) /\ StackNotes /\ BodyNotes
  BY <1>1, NotesAre DEF CheckInv
<1>3. /\ KeysOf(p) = check.gro /\ FirstKeysOf(p) = check.keys
      /\ ParamsOf(p) = check.agg /\ VariablesOf(p) = check.aggrVars
  BY <1>2, NotesFit
<1>4. check.stack \in allowedComb <=> Combines(p)
  BY <1>1, <1>2, StackFits
<1>5. body = text /\ path = next.path
  BY DEF body, path, next
<1>6. Check_branch_names <=> kind # "main" /\ dup
  BY DEF Check_branch_names, next
<1>7. PassesChecks(p) <=>
        /\ kind # "main" => ~ dup
        /\ kind \in {"filter", "group-filter"} => text \notin Malformed
        /\ kind = "grouper" => FirstKey(text) \cap {"TIME_FIRST", "TIME_LAST", "COUNT"} = {}
        /\ kind = "aggregator" => FirstParam(text) \cap check.keys = {}
        /\ kind = "group-filter" =>
             \A name \in ToSet(text) : name \in check.aggrVars \/ string_isUnirec(name)
        /\ kind = "selector" =>
             /\ Combines(p)
             /\ check.gro \cup check.agg # {} =>
                  OutputKeywords(text) \subseteq Times \cup (check.gro \cup check.agg)
  BY <1>3 DEF PassesChecks
<1> HIDE DEF kind, text, dup
<1>8. ASSUME CheckInner PROVE error' <=> ~ PassesChecks(p)
  <2>1. kind \in {"program", "main"} /\ error' = Check_branch_names
    BY <1>8 DEF CheckInner, Reject, Inner, kind, next
  <2>2. QED
    BY <1>6, <1>7, <2>1
<1>9. ASSUME CheckFilter PROVE error' <=> ~ PassesChecks(p)
  <2>1. kind = "filter" /\ error' = (Check_branch_names \/ body \in Malformed)
    BY <1>9 DEF CheckFilter, At, Reject, kind, next
  <2>2. QED
    BY <1>5, <1>6, <1>7, <2>1
<1>10. ASSUME CheckGrouper PROVE error' <=> ~ PassesChecks(p)
  <2>1. /\ kind = "grouper"
        /\ error' = (Check_branch_names
                     \/ FirstKey(body) \cap {"TIME_FIRST", "TIME_LAST", "COUNT"} # {})
    BY <1>10 DEF CheckGrouper, At, Reject, kind, next
  <2>2. QED
    BY <1>5, <1>6, <1>7, <2>1
<1>11. ASSUME CheckWindow PROVE error' <=> ~ PassesChecks(p)
  <2>1. kind = "window" /\ error' = Check_branch_names
    BY <1>11 DEF CheckWindow, At, Reject, kind, next
  <2>2. QED
    BY <1>6, <1>7, <2>1
<1>12. ASSUME CheckAggregator PROVE error' <=> ~ PassesChecks(p)
  <2>1. /\ kind = "aggregator"
        /\ error' = (Check_branch_names \/ FirstParam(body) \cap check.keys # {})
    BY <1>12 DEF CheckAggregator, At, Reject, kind, next
  <2>2. QED
    BY <1>5, <1>6, <1>7, <2>1
<1>13. ASSUME CheckGroupFilter PROVE error' <=> ~ PassesChecks(p)
  <2>1. /\ kind = "group-filter"
        /\ error' = (\/ Check_branch_names
                     \/ \E name \in Names(get_vars(vars.gf, path)) :
                          name \notin check.aggrVars /\ ~ string_isUnirec(name))
    BY <1>13 DEF CheckGroupFilter, At, Reject, kind, next
  <2>2. p \in Places("group-filter") /\ Known(p)
    BY <2>1 DEF Places, kind
  <2>3. path \in DOMAIN vars.gf /\ path = p.path /\ text \notin Malformed
    BY <1>5, <2>2 DEF Known, text
  <2>4. get_vars(vars.gf, path) = vars.gf[path]
    BY <2>3 DEF get_vars
  <2>5. PICK r \in Places("group-filter") :
          r.path = path /\ Names(vars.gf[path]) = ToSet(r.node.body)
    BY <2>3 DEF NamesKnown
  <2>6. Names(get_vars(vars.gf, path)) = ToSet(text)
    BY <2>2, <2>3, <2>4, <2>5 DEF GroupFiltersApart, text
  <2>7. error' <=> (kind # "main" /\ dup)
                   \/ \E name \in ToSet(text) : name \notin check.aggrVars /\ ~ string_isUnirec(name)
    BY <1>6, <2>1, <2>6
  <2>8. QED
    BY <1>7, <2>1, <2>3, <2>7
<1>14. ASSUME CheckSelector PROVE error' <=> ~ PassesChecks(p)
  <2>1. kind = "selector" /\ error' = (check.stack \notin allowedComb \/ ~ Check_selector)
    BY <1>14 DEF CheckSelector, At, Reject, kind, next
  <2>2. ~ dup
    <3>1. next.node \in Nodes /\ next.path \in Seq(Name)
      BY <1>1, NextItem, ItemIs
    <3>2. ToSet(Successors(next.node, next.path)) = {}
      BY <2>1, <3>1, StageBelow DEF kind
    <3>3. DOMAIN Successors(next.node, next.path) = {}
      BY <3>2 DEF ToSet
    <3>4. DOMAIN next.node.next = {}
      BY <3>3 DEF Successors
    <3>5. QED
      BY <3>4 DEF HasDuplicates, dup
  <2>3. Check_selector <=>
          (check.gro \cup check.agg # {} =>
             OutputKeywords(text) \subseteq {"TIME_FIRST", "TIME_LAST"} \cup check.gro \cup check.agg)
    BY <1>5 DEF Check_selector
  <2>4. {"TIME_FIRST", "TIME_LAST"} \cup check.gro \cup check.agg
          = Times \cup (check.gro \cup check.agg)
    BY DEF Times
  <2>5. Check_selector <=>
          (check.gro \cup check.agg # {} =>
             OutputKeywords(text) \subseteq Times \cup (check.gro \cup check.agg))
    BY <2>3, <2>4
  <2>6. QED
    BY <1>4, <1>7, <2>1, <2>2, <2>5
<1>15. ~ CheckLeave
  BY DEF CheckLeave, next
<1>16. QED
  BY <1>8, <1>9, <1>10, <1>11, <1>12, <1>13, <1>14, <1>15 DEF Check

Rejected == \E p \in AllPlaces : ~ PassesChecks(p)

\* While the group-filters are parsed, and while the checkers are at work: unless the
\* rules were rejected for one of their places, those that were dealt with are good.
ParseHeld ==
  /\ NamesKnown
  /\ error => Rejected
  /\ ~ error => \E D : /\ Covered(D, AllPlaces, ast, work, "parse")
                       /\ \A p \in D : p.node.kind = "group-filter" => Known(p)

CheckHeld ==
  /\ NamesKnown /\ \A p \in Places("group-filter") : Known(p)
  /\ error => Rejected
  /\ ~ error => \E D : /\ Covered(D, AllPlaces, ast, work, "check")
                       /\ \A p \in D : PassesChecks(p)

PlacesInv ==
  GroupFiltersApart =>
    /\ pass = "parse" => ParseHeld
    /\ pass = "check" => CheckHeld
    /\ Checked => \A p \in AllPlaces : PassesChecks(p)

LEMMA PlacesInit ==
  ASSUME Init
  PROVE  PlacesInv
<1>1. ast \in Programs /\ pass = "parse" /\ error = FALSE
      /\ work = <<Item("visit", ast, <<>>)>> /\ vars.gf = NoVars
  BY DEF Init
<1>2. Covered({}, AllPlaces, ast, work, "parse")
  BY <1>1, CoveredStart DEF AllPlaces
<1>3. NamesKnown
  BY <1>1 DEF NamesKnown, NoVars
<1>4. ~ Checked /\ pass # "check"
  BY <1>1 DEF Checked
<1>5. ParseHeld
  BY <1>1, <1>2, <1>3 DEF ParseHeld
<1>6. QED
  BY <1>4, <1>5 DEF PlacesInv

LEMMA PlacesParse ==
  ASSUME WorkInv, VarsOK, PlacesInv, Parse
  PROVE  PlacesInv'
<1> DEFINE P == PlacesOf(ast)
           X == Here(P, work, "parse")
<1>1. /\ pass = "parse" /\ ~ error /\ work # <<>> /\ ast' = ast /\ pass' = pass
      /\ ast \in Programs /\ WorkOK(work, "parse")
  BY DEF Parse, parse_filter_body, ParseOther, At, Active, walkVars, WorkInv
<1>2. SUFFICES ASSUME GroupFiltersApart PROVE ParseHeld'
  BY <1>1 DEF PlacesInv, GroupFiltersApart, Places, AllPlaces, Checked
<1>3. NamesKnown
  BY <1>1, <1>2 DEF PlacesInv, ParseHeld
<1>4. PICK D : /\ Covered(D, P, ast, work, "parse")
               /\ \A p \in D : p.node.kind = "group-filter" => Known(p)
  BY <1>1, <1>2 DEF PlacesInv, ParseHeld, AllPlaces
<1>5. Head(work).op = "visit"
  <2>1. Head(work) \in WorkItem /\ PlaceOK(Head(work), "parse")
    BY <1>1, SkipWork
  <2>2. Head(work).op # "leave"
    BY <2>1 DEF PlaceOK, Returns
  <2>3. QED
    BY <2>1, <2>2, ItemIs
<1>6. X # {} /\ \A p \in X : p \in P /\ p.node = Head(work).node /\ p.path = Head(work).path
  BY <1>1, <1>4, <1>5, HereIs
<1>7. AllPlaces = P /\ AllPlaces' = P
  BY <1>1 DEF AllPlaces
<1> HIDE DEF P, X
<1>8. CASE parse_filter_body
  <2>1. /\ Head(work).node.kind = "group-filter"
        /\ error' = (body \in Malformed)
        /\ work' = Tail(work)
        /\ vars' = IF error' THEN vars
                   ELSE [vars EXCEPT !.gf = add_vars(@, path,
                           [i \in DOMAIN body |-> Variable(body[i], None)])]
    BY <1>8 DEF parse_filter_body, At, Skip
  <2>2. body = Head(work).node.body /\ path = Head(work).path
    BY DEF body, path
  <2>3. CASE body \in Malformed
    <3>1. error' /\ vars' = vars
      BY <2>1, <2>3
    <3>2. PICK p \in X : TRUE
      BY <1>6
    <3>3. ~ PassesChecks(p)
      BY <1>6, <2>1, <2>2, <2>3 DEF PassesChecks
    <3>4. Rejected'
      BY <1>6, <1>7, <3>3 DEF Rejected
    <3>5. NamesKnown'
      BY <1>3, <1>7, <3>1 DEF NamesKnown, Places
    <3>6. QED
      BY <3>1, <3>4, <3>5 DEF ParseHeld
  <2>4. CASE body \notin Malformed
    <3> DEFINE new == [i \in DOMAIN body |-> Variable(body[i], None)]
               gf == add_vars(vars.gf, path, new)
    <3>1. ~ error' /\ vars' = [vars EXCEPT !.gf = gf]
      BY <2>1, <2>4
    <3>2. Names(new) = ToSet(body)
      BY DEF Names, ToSet, Variable
    <3>3. /\ DOMAIN gf = DOMAIN vars.gf \cup {path}
          /\ \A q \in DOMAIN gf : gf[q] = IF q \in DOMAIN vars.gf THEN vars.gf[q] ELSE new
      BY DEF add_vars
    <3> HIDE DEF new, gf
    <3>4. vars'.gf = gf
      BY <3>1 DEF VarsOK
    <3>5. PICK p \in X : TRUE
      BY <1>6
    <3>6. p \in Places("group-filter") /\ p.path = path /\ p.node.body = body
      BY <1>6, <1>7, <2>1, <2>2, <3>5 DEF Places
    <3>7. ASSUME NEW q \in DOMAIN gf
          PROVE  \E r \in Places("group-filter") : r.path = q /\ Names(gf[q]) = ToSet(r.node.body)
      <4>1. CASE q \in DOMAIN vars.gf
        BY <1>3, <3>3, <4>1 DEF NamesKnown
      <4>2. CASE q \notin DOMAIN vars.gf
        <5>1. q = path /\ gf[q] = new
          BY <3>3, <4>2
        <5>2. QED
          BY <3>2, <3>6, <5>1
      <4>3. QED
        BY <4>1, <4>2
    <3>8. NamesKnown'
      BY <1>7, <3>4, <3>7 DEF NamesKnown, Places
    <3>9. Covered(D \cup X, P, ast, Tail(work), "parse")
      BY <1>1, <1>4, <1>5, <2>1, CoveredSkip DEF P, X
    <3>10. \A r \in D \cup X : r.node.kind = "group-filter" =>
             r.path \in DOMAIN gf /\ r.node.body \notin Malformed
      BY <1>4, <1>6, <2>2, <2>4, <3>3 DEF Known
    <3>11. \E E : /\ Covered(E, AllPlaces', ast', work', "parse")
                  /\ \A r \in E : r.node.kind = "group-filter" => Known(r)'
      BY <1>1, <1>7, <2>1, <3>4, <3>9, <3>10 DEF Known
    <3>12. QED
      BY <3>1, <3>8, <3>11 DEF ParseHeld
  <2>5. QED
    BY <2>3, <2>4
<1>9. CASE ParseOther
  <2>1. /\ Head(work).node.kind # "group-filter" /\ ~ error' /\ vars' = vars
        /\ work' = Successors(Head(work).node, Head(work).path) \o Tail(work)
    BY <1>1, <1>9 DEF ParseOther, Descend, path, checkVars
  <2>2. Head(work).node.kind \notin Returns("parse")
    BY DEF Returns
  <2>3. Covered(D \cup X, P, ast, Successors(Head(work).node, Head(work).path) \o Tail(work),
                "parse")
    BY <1>1, <1>4, <1>5, <2>2, CoveredDescend DEF P, X
  <2>4. \A r \in D \cup X : r.node.kind = "group-filter" => Known(r)'
    BY <1>4, <1>6, <2>1 DEF Known
  <2>5. NamesKnown'
    BY <1>3, <1>7, <2>1 DEF NamesKnown, Places
  <2>6. \E E : /\ Covered(E, AllPlaces', ast', work', "parse")
               /\ \A r \in E : r.node.kind = "group-filter" => Known(r)'
    BY <1>1, <1>7, <2>1, <2>3, <2>4
  <2>7. QED
    BY <2>1, <2>5, <2>6 DEF ParseHeld
<1>10. QED
  BY <1>8, <1>9 DEF Parse

LEMMA PlacesCheck ==
  ASSUME WorkInv, CheckInv, PlacesInv, Check
  PROVE  PlacesInv'
<1> DEFINE P == PlacesOf(ast)
           X == Here(P, work, "check")
<1>1. /\ pass = "check" /\ ~ error /\ work # <<>> /\ ast' = ast /\ pass' = pass /\ vars' = vars
      /\ ast \in Programs /\ WorkOK(work, "check")
  BY CheckMoves DEF WorkInv
<1>2. SUFFICES ASSUME GroupFiltersApart PROVE CheckHeld'
  BY <1>1 DEF PlacesInv, GroupFiltersApart, Places, AllPlaces, Checked
<1>3. AllPlaces = P /\ AllPlaces' = P
  BY <1>1 DEF AllPlaces
<1>4. NamesKnown /\ \A p \in Places("group-filter") : Known(p)
  BY <1>1, <1>2 DEF PlacesInv, CheckHeld
<1>5. PICK D : Covered(D, P, ast, work, "check") /\ \A p \in D : PassesChecks(p)
  BY <1>1, <1>2, <1>3 DEF PlacesInv, CheckHeld
<1> HIDE DEF P, X
<1>6. NamesKnown' /\ \A p \in Places("group-filter")' : Known(p)'
  BY <1>1, <1>3, <1>4 DEF NamesKnown, Places, Known
<1>7. SUFFICES /\ error' => \E p \in P : ~ PassesChecks(p)
               /\ ~ error' => \E E : /\ Covered(E, P, ast, work', "check")
                                     /\ \A p \in E : PassesChecks(p)
  BY <1>1, <1>3, <1>6 DEF CheckHeld, Rejected
<1>8. CASE next.op = "leave"
  <2>1. ~ error' /\ work' = Tail(work)
    BY <1>1, <1>8, CheckMoves DEF Skip
  <2>2. Covered(D, P, ast, Tail(work), "check")
    BY <1>1, <1>5, <1>8, CoveredLeave DEF next, WorkOK
  <2>3. QED
    BY <1>5, <2>1, <2>2
<1>9. CASE next.op = "visit"
  <2>0. Head(work).op = "visit"
    BY <1>9 DEF next
  <2>1. /\ X # {}
        /\ \A p \in X : /\ p \in P /\ p.node = next.node /\ p.path = next.path
                        /\ p.above = {item.node : item \in EnteredIn(work)}
    BY <1>1, <1>5, <2>0, HereIs DEF P, X, next
  <2>2. Entered = EnteredIn(work)
    BY DEF Entered, EnteredIn
  <2>3. ASSUME NEW p \in X PROVE error' <=> ~ PassesChecks(p)
    <3>1. p \in AllPlaces /\ p.node = next.node /\ p.path = next.path /\ Above(p)
      BY <1>3, <2>1, <2>2 DEF Above
    <3>2. next.node.kind = "group-filter" => Known(p)
      BY <1>4, <3>1 DEF Places
    <3>3. QED
      BY <1>2, <1>4, <1>9, <3>1, <3>2, Verdict
  <2>4. Covered(D \cup X, P, ast, work', "check")
    <3>1. CASE Skip /\ next.node.kind = "selector"
      <4>1. Covered(D \cup X, P, ast, Tail(work), "check")
        BY <1>1, <1>5, <2>0, <3>1, CoveredSkip DEF P, X, next
      <4>2. QED
        BY <3>1, <4>1 DEF Skip
    <3>2. CASE Descend /\ next.node.kind \notin Returns("check")
      <4>1. Covered(D \cup X, P, ast, Successors(Head(work).node, Head(work).path) \o Tail(work),
                    "check")
        BY <1>1, <1>5, <2>0, <3>2, CoveredDescend DEF P, X, next
      <4>2. QED
        BY <3>2, <4>1 DEF Descend, path
    <3>3. CASE DescendAndLeave /\ next.node.kind \in Returns("check")
      <4>1. Covered(D \cup X, P, ast,
                    Successors(Head(work).node, Head(work).path)
                      \o <<Item("leave", Head(work).node, Head(work).path)>> \o Tail(work),
                    "check")
        BY <1>1, <1>5, <2>0, <3>3, CoveredEnter DEF P, X, next
      <4>2. QED
        BY <3>3, <4>1 DEF DescendAndLeave, path
    <3>4. QED
      BY <1>9, <3>1, <3>2, <3>3, CheckMoves
  <2>5. CASE error'
    BY <2>1, <2>3, <2>5
  <2>6. CASE ~ error'
    <3>1. \A p \in D \cup X : PassesChecks(p)
      BY <1>5, <2>3, <2>6
    <3>2. QED
      BY <2>4, <2>6, <3>1
  <2>7. QED
    BY <2>5, <2>6
<1>10. QED
  BY <1>8, <1>9, CheckMoves

LEMMA PlacesPass ==
  ASSUME WorkInv, PlacesInv, NextPass
  PROVE  PlacesInv'
<1> DEFINE P == PlacesOf(ast)
<1>1. ~ error /\ error' = error /\ work = <<>> /\ ast' = ast /\ vars' = vars /\ ast \in Programs
  BY DEF NextPass, WorkInv, checkVars
<1>2. SUFFICES ASSUME GroupFiltersApart
               PROVE  /\ pass' # "parse"
                      /\ pass' = "check" => CheckHeld'
                      /\ Checked' => \A p \in AllPlaces' : PassesChecks(p)
  BY <1>1 DEF PlacesInv, GroupFiltersApart, Places, AllPlaces
<1>3. AllPlaces = P /\ AllPlaces' = P
  BY <1>1 DEF AllPlaces
<1> HIDE DEF P
<1>4. CASE pass = "parse"
  <2>1. pass' = "check" /\ ~ Checked'
    BY <1>4, PassOrder DEF Checked
  <2>2. work' = <<Item("visit", ast, <<>>)>>
    BY <1>4 DEF NextPass
  <2>3. NamesKnown
    BY <1>2, <1>4 DEF PlacesInv, ParseHeld
  <2>4. PICK D : /\ Covered(D, P, ast, <<>>, "parse")
                 /\ \A p \in D : p.node.kind = "group-filter" => Known(p)
    BY <1>1, <1>2, <1>3, <1>4 DEF PlacesInv, ParseHeld
  <2>5. \A p \in P : p \in D \/ p.node.kind = "selector"
    BY <1>1, <2>4, CoveredEnd DEF P, Unvisited
  <2>6. NamesKnown' /\ \A p \in Places("group-filter")' : Known(p)'
    BY <1>1, <1>3, <2>3, <2>4, <2>5 DEF NamesKnown, Places, Known
  <2>7. Covered({}, P, ast, work', "check")
    BY <1>1, <2>2, CoveredStart DEF P
  <2>8. \E E : Covered(E, AllPlaces', ast', work', "check") /\ \A p \in E : PassesChecks(p)
    BY <1>1, <1>3, <2>7
  <2>9. CheckHeld'
    BY <1>1, <2>6, <2>8 DEF CheckHeld
  <2>10. QED
    BY <2>1, <2>9
<1>5. CASE pass = "check"
  <2>1. pass' = "alias"
    BY <1>5, PassOrder
  <2>2. PICK D : Covered(D, P, ast, <<>>, "check") /\ \A p \in D : PassesChecks(p)
    BY <1>1, <1>2, <1>3, <1>5 DEF PlacesInv, CheckHeld
  <2>3. \A p \in P : p \in D
    BY <1>1, <2>2, CoveredEnd DEF P, Unvisited
  <2>4. QED
    BY <1>3, <2>1, <2>2, <2>3
<1>6. CASE pass \notin {"parse", "check"}
  <2>1. pass' # "parse" /\ pass' # "check"
    BY <1>6, PassOrder
  <2>2. \A p \in AllPlaces : PassesChecks(p)
    BY <1>2, <1>6 DEF PlacesInv, Checked
  <2>3. QED
    BY <1>3, <2>1, <2>2
<1>7. QED
  BY <1>4, <1>5, <1>6

\* What has been checked stays checked.
LEMMA PlacesStay ==
  ASSUME PlacesInv, ast' = ast, Checked, Checked'
  PROVE  PlacesInv'
<1>1. AllPlaces' = AllPlaces /\ (GroupFiltersApart' <=> GroupFiltersApart)
  BY DEF AllPlaces, GroupFiltersApart, Places
<1>2. pass' # "parse" /\ pass' # "check"
  BY DEF Checked
<1>3. QED
  BY <1>1, <1>2 DEF PlacesInv

LEMMA PlacesNext ==
  ASSUME Inv, PlacesInv, [Next]_allVars
  PROVE  PlacesInv'
<1>1. CASE NextPass
  BY <1>1, PlacesPass DEF Inv
<1>2. CASE Parse
  BY <1>2, PlacesParse DEF Inv, AliasInv
<1>3. CASE Check
  BY <1>3, PlacesCheck DEF Inv
<1>4. CASE Alias
  <2>1. pass' = pass /\ pass = "alias" /\ ast' = ast
    BY <1>4 DEF Alias, AliasAggregator, LeaveAggregator, AliasGroupFilter, AliasSelector,
                AliasOther, AliasRest, At, Active, walkVars
  <2>2. QED
    BY <2>1, PlacesStay DEF Checked
<1>5. CASE check_inter_repr
  <2>1. pass = "inter" /\ pass' = "build" /\ ast' = ast
    BY <1>5 DEF check_inter_repr
  <2>2. QED
    BY <2>1, PlacesStay DEF Checked
<1>6. CASE Build
  <2>1. pass = "build" /\ pass' = pass /\ ast' = ast
    BY <1>6 DEF Build, BuildProgram, unpack_main_branch, BuildStage, LeaveFilter, BuildGrouper,
                LeaveGrouper, BuildWindow, LeaveWindow, LeaveAggregatorStage,
                LeaveGroupFilter, BuildSelector, BuildRest, At, Active, walkVars
  <2>2. QED
    BY <2>1, PlacesStay DEF Checked
<1>7. CASE UNCHANGED allVars
  <2>1. UNCHANGED <<ast, pass, work, error, vars>>
    BY <1>7 DEF allVars
  <2>2. AllPlaces' = AllPlaces /\ (GroupFiltersApart' <=> GroupFiltersApart)
        /\ (NamesKnown' <=> NamesKnown) /\ (Rejected' <=> Rejected) /\ (Checked' <=> Checked)
        /\ \A p : Known(p)' <=> Known(p)
    BY <2>1 DEF AllPlaces, GroupFiltersApart, Places, NamesKnown, Known, Rejected, Checked
  <2>3. (ParseHeld' <=> ParseHeld) /\ (CheckHeld' <=> CheckHeld)
    BY <2>1, <2>2 DEF ParseHeld, CheckHeld, Places
  <2>4. QED
    BY <2>1, <2>2, <2>3 DEF PlacesInv
<1>8. QED
  BY <1>1, <1>2, <1>3, <1>4, <1>5, <1>6, <1>7 DEF Next

-----------------------------------------------------------------------------
(* The reference for the Builder, level by level and place by place.       *)

Turns(places, n, from, u) ==
  /\ u[0] = Numbered(<<>>, n)
  /\ \A i \in 1 .. Len(places) : u[i] = Then(u[i - 1], from[<<places[i], u[i - 1].next>>])
  /\ InTurn(places, n, from) = u[Len(places)]

LEMMA InTurnIs ==
  ASSUME NEW places, Len(places) \in Nat, NEW n0, NEW from
  PROVE  \E u : Turns(places, n0, from, u)
<1> DEFINE N == Len(places)
           First == Numbered(<<>>, n0)
           Step(n, s) == Then(s, from[<<places[n], s.next>>])
           Upto(m, g) == g[0] = First /\ \A n \in 1 .. m : g[n] = Step(n, g[n - 1])
           T == {m \in Nat : \E g : Upto(m, g)}
           Whole(g) == g = [n \in 0 .. N |-> IF n = 0 THEN First ELSE Step(n, g[n - 1])]
<1> HIDE DEF N
<1>0. N \in Nat
  BY DEF N
<1> USE <1>0
<1>1. 0 \in T
  <2> HIDE DEF Step, First
  <2>1. Upto(0, [n \in {0} |-> First])
    OBVIOUS
  <2>2. QED
    BY <2>1
<1>2. ASSUME NEW m \in Nat, m \in T PROVE m + 1 \in T
  <2> HIDE DEF Step, First
  <2>1. PICK g : Upto(m, g)
    BY <1>2
  <2> DEFINE h == [n \in 0 .. m + 1 |-> IF n = m + 1 THEN Step(m + 1, g[m]) ELSE g[n]]
  <2>2. h[0] = First
    BY <2>1
  <2>3. ASSUME NEW n \in 1 .. m + 1 PROVE h[n] = Step(n, h[n - 1])
    <3>1. n - 1 \in 0 .. m + 1 /\ n - 1 # m + 1 /\ h[n - 1] = g[n - 1]
      OBVIOUS
    <3>2. CASE n = m + 1
      BY <3>1, <3>2
    <3>3. CASE n # m + 1
      <4>1. n \in 1 .. m /\ h[n] = g[n]
        BY <3>3
      <4>2. QED
        BY <2>1, <3>1, <4>1
    <3>4. QED
      BY <3>2, <3>3
  <2>4. Upto(m + 1, h)
    <3> HIDE DEF h
    <3>1. QED
      BY <2>2, <2>3
  <2>5. \E k : Upto(m + 1, k)
    <3> HIDE DEF h, Upto
    <3>1. QED
      BY <2>4
  <2>6. QED
    BY <2>5
<1>3. Nat \subseteq T
  <2> HIDE DEF T
  <2>1. QED
    BY <1>1, <1>2, SetInduction
<1>4. PICK g : Upto(N, g)
  <2> HIDE DEF Upto
  <2>1. QED
    BY <1>3
<1> HIDE DEF Step, First
<1>5. Whole([n \in 0 .. N |-> g[n]])
  <2> DEFINE f == [n \in 0 .. N |-> g[n]]
  <2>1. f[0] = First
    BY <1>4
  <2>2. ASSUME NEW n \in 0 .. N, n # 0 PROVE f[n] = Step(n, f[n - 1])
    <3>1. n \in 1 .. N /\ n - 1 \in 0 .. N
      BY <2>2
    <3>2. f[n] = g[n] /\ f[n - 1] = g[n - 1]
      BY <3>1
    <3>3. QED
      BY <1>4, <3>1, <3>2
  <2>3. \A n \in 0 .. N : f[n] = IF n = 0 THEN First ELSE Step(n, f[n - 1])
    <3> HIDE DEF f
    <3>1. QED
      BY <2>1, <2>2
  <2>4. f = [n \in 0 .. N |-> f[n]]
    OBVIOUS
  <2>5. [n \in 0 .. N |-> f[n]]
          = [n \in 0 .. N |-> IF n = 0 THEN First ELSE Step(n, f[n - 1])]
    <3> HIDE DEF f
    <3>1. QED
      BY <2>3
  <2>6. f = [n \in 0 .. N |-> IF n = 0 THEN First ELSE Step(n, f[n - 1])]
    <3> HIDE DEF f
    <3>1. QED
      BY <2>4, <2>5
  <2>7. QED
    <3> HIDE DEF f
    <3>1. Whole(f)
      BY <2>6
    <3>2. QED
      BY <3>1 DEF f
<1> DEFINE u == CHOOSE f : Whole(f)
<1>6. Whole(u)
  <2> HIDE DEF Whole
  <2>1. QED
    BY <1>5
<1>7. InTurn(places, n0, from) = u[N]
  BY DEF InTurn, Step, First, N
<1> HIDE DEF u
<1>8. \A n \in 0 .. N : u[n] = IF n = 0 THEN First ELSE Step(n, u[n - 1])
  BY <1>6
<1>9. 0 \in 0 .. N /\ \A n \in 1 .. N : n \in 0 .. N /\ n # 0
  OBVIOUS
<1>10. u[0] = First /\ \A n \in 1 .. N : u[n] = Step(n, u[n - 1])
  BY <1>8, <1>9
<1>11. Turns(places, n0, from, u)
  BY <1>7, <1>10 DEF First, Step, N, Turns
<1>12. QED
  BY <1>11

LEMMA StageLevels ==
  ASSUME NEW rules, NEW as, NEW p \in PlacesOf(rules), NEW c \in Nat
  PROVE  /\ StagesAt(rules, as)[0][<<p, c>>] = StageOf(p, as, c, Numbered(<<>>, c))
         /\ \A l \in 1 .. Nesting :
              StagesAt(rules, as)[l][<<p, c>>]
                = StageOf(p, as, c, InTurn(NextPlaces(p), c, StagesAt(rules, as)[l - 1]))
<1> DEFINE P == PlacesOf(rules)
           First == [x \in P \X Nat |-> StageOf(x[1], as, x[2], Numbered(<<>>, x[2]))]
           Step(n, s) == [x \in P \X Nat |->
                            StageOf(x[1], as, x[2], InTurn(NextPlaces(x[1]), x[2], s))]
           Upto(m, g) == g[0] = First /\ \A n \in 1 .. m : g[n] = Step(n, g[n - 1])
           T == {m \in Nat : \E g : Upto(m, g)}
           Whole(g) == g = [n \in 0 .. Nesting |-> IF n = 0 THEN First ELSE Step(n, g[n - 1])]
<1> USE NestingAssumption
<1>1. 0 \in T
  <2> HIDE DEF Step, First
  <2>1. Upto(0, [n \in {0} |-> First])
    OBVIOUS
  <2>2. QED
    BY <2>1
<1>2. ASSUME NEW m \in Nat, m \in T PROVE m + 1 \in T
  <2> HIDE DEF Step, First
  <2>1. PICK g : Upto(m, g)
    BY <1>2
  <2> DEFINE h == [n \in 0 .. m + 1 |-> IF n = m + 1 THEN Step(m + 1, g[m]) ELSE g[n]]
  <2>2. h[0] = First
    BY <2>1
  <2>3. ASSUME NEW n \in 1 .. m + 1 PROVE h[n] = Step(n, h[n - 1])
    <3>1. n - 1 \in 0 .. m + 1 /\ n - 1 # m + 1 /\ h[n - 1] = g[n - 1]
      OBVIOUS
    <3>2. CASE n = m + 1
      BY <3>1, <3>2
    <3>3. CASE n # m + 1
      <4>1. n \in 1 .. m /\ h[n] = g[n]
        BY <3>3
      <4>2. QED
        BY <2>1, <3>1, <4>1
    <3>4. QED
      BY <3>2, <3>3
  <2>4. Upto(m + 1, h)
    <3> HIDE DEF h
    <3>1. QED
      BY <2>2, <2>3
  <2>5. \E k : Upto(m + 1, k)
    <3> HIDE DEF h, Upto
    <3>1. QED
      BY <2>4
  <2>6. QED
    BY <2>5
<1>3. Nat \subseteq T
  <2> HIDE DEF T
  <2>1. QED
    BY <1>1, <1>2, SetInduction
<1>4. PICK g : Upto(Nesting, g)
  <2> HIDE DEF Upto
  <2>1. QED
    BY <1>3
<1> HIDE DEF Step, First
<1>5. Whole([n \in 0 .. Nesting |-> g[n]])
  <2> DEFINE f == [n \in 0 .. Nesting |-> g[n]]
  <2>1. f[0] = First
    BY <1>4
  <2>2. ASSUME NEW n \in 0 .. Nesting, n # 0 PROVE f[n] = Step(n, f[n - 1])
    <3>1. n \in 1 .. Nesting /\ n - 1 \in 0 .. Nesting
      BY <2>2
    <3>2. f[n] = g[n] /\ f[n - 1] = g[n - 1]
      BY <3>1
    <3>3. QED
      BY <1>4, <3>1, <3>2
  <2>3. \A n \in 0 .. Nesting : f[n] = IF n = 0 THEN First ELSE Step(n, f[n - 1])
    <3> HIDE DEF f
    <3>1. QED
      BY <2>1, <2>2
  <2>4. f = [n \in 0 .. Nesting |-> f[n]]
    OBVIOUS
  <2>5. [n \in 0 .. Nesting |-> f[n]]
          = [n \in 0 .. Nesting |-> IF n = 0 THEN First ELSE Step(n, f[n - 1])]
    <3> HIDE DEF f
    <3>1. QED
      BY <2>3
  <2>6. f = [n \in 0 .. Nesting |-> IF n = 0 THEN First ELSE Step(n, f[n - 1])]
    <3> HIDE DEF f
    <3>1. QED
      BY <2>4, <2>5
  <2>7. QED
    <3> HIDE DEF f
    <3>1. Whole(f)
      BY <2>6
    <3>2. QED
      BY <3>1 DEF f
<1>6. StagesAt(rules, as) = CHOOSE f : Whole(f)
  <2> HIDE DEF P
  <2> DEFINE Body(f) == [n \in 0 .. Nesting |->
               [x \in P \X Nat |->
                  StageOf(x[1], as, x[2], IF n = 0 THEN Numbered(<<>>, x[2])
                                      ELSE InTurn(NextPlaces(x[1]), x[2], f[n - 1]))]]
  <2>1. StagesAt(rules, as) = CHOOSE f : f = Body(f)
    BY DEF StagesAt, P
  <2>2. ASSUME NEW f PROVE Body(f) = [n \in 0 .. Nesting |-> IF n = 0 THEN First ELSE Step(n, f[n - 1])]
    BY DEF First, Step
  <2> HIDE DEF Body
  <2>3. \A f : f = Body(f) <=> Whole(f)
    BY <2>2
  <2>4. QED
    BY <2>1, <2>3
<1>7. Whole(StagesAt(rules, as))
  <2> HIDE DEF Whole
  <2>1. QED
    BY <1>5, <1>6
<1>8. \A n \in 0 .. Nesting :
        StagesAt(rules, as)[n] = IF n = 0 THEN First ELSE Step(n, StagesAt(rules, as)[n - 1])
  <2> DEFINE f == StagesAt(rules, as)
  <2>1. Whole(f)
    BY <1>7
  <2> HIDE DEF f
  <2>2. \A n \in 0 .. Nesting : f[n] = IF n = 0 THEN First ELSE Step(n, f[n - 1])
    BY <2>1
  <2>3. QED
    BY <2>2 DEF f
<1>9. 0 \in 0 .. Nesting /\ \A n \in 1 .. Nesting : n \in 0 .. Nesting /\ n # 0
  OBVIOUS
<1>10. /\ StagesAt(rules, as)[0] = First
       /\ \A l \in 1 .. Nesting : StagesAt(rules, as)[l] = Step(l, StagesAt(rules, as)[l - 1])
  BY <1>8, <1>9
<1>11. <<p, c>> \in P \X Nat
  OBVIOUS
<1>12. StagesAt(rules, as)[0][<<p, c>>] = StageOf(p, as, c, Numbered(<<>>, c))
  <2>1. First[<<p, c>>] = StageOf(p, as, c, Numbered(<<>>, c))
    BY <1>11 DEF First
  <2>2. QED
    BY <1>10, <2>1
<1>13. ASSUME NEW l \in 1 .. Nesting
       PROVE  StagesAt(rules, as)[l][<<p, c>>]
                = StageOf(p, as, c, InTurn(NextPlaces(p), c, StagesAt(rules, as)[l - 1]))
  <2> DEFINE s == StagesAt(rules, as)[l - 1]
  <2> HIDE DEF s
  <2>1. Step(l, s)[<<p, c>>] = StageOf(p, as, c, InTurn(NextPlaces(p), c, s))
    BY <1>11 DEF Step
  <2>2. StagesAt(rules, as)[l] = Step(l, s)
    BY <1>10 DEF s
  <2>3. QED
    BY <2>1, <2>2 DEF s
<1>14. QED
  BY <1>12, <1>13

-----------------------------------------------------------------------------
(* The vectors under construction.                                         *)

\* The stages of some places and the next interface.
Typed(r) == IsVector(r.stages) /\ r.next \in Nat

LEMMA ConcatVectors ==
  ASSUME NEW r, NEW s, NEW t, IsVector(r), IsVector(s), IsVector(t)
  PROVE  /\ IsVector(s \o t) /\ Regrouped(r, s, t)
         /\ s \o <<>> = s /\ <<>> \o s = s
<1>1. PICK R : r \in Seq(R)
  BY DEF IsVector
<1>2. PICK S : s \in Seq(S)
  BY DEF IsVector
<1>3. PICK T : t \in Seq(T)
  BY DEF IsVector
<1> DEFINE U == R \cup S \cup T
<1>4. r \in Seq(U) /\ s \in Seq(U) /\ t \in Seq(U)
  BY <1>1, <1>2, <1>3
<1> HIDE DEF U
<1>5. s \o t \in Seq(U)
  BY <1>4
<1>6. Regrouped(r, s, t)
  BY <1>4, Regroup
<1>7. s \o <<>> = s /\ <<>> \o s = s
  BY <1>2
<1>8. QED
  BY <1>5, <1>6, <1>7 DEF IsVector

LEMMA OneStage ==
  ASSUME NEW e
  PROVE  IsVector(<<e>>) /\ \A v : IsVector(v) => Append(v, e) = v \o <<e>>
<1>1. <<e>> \in Seq({e})
  OBVIOUS
<1>2. ASSUME NEW v, IsVector(v) PROVE Append(v, e) = v \o <<e>>
  <2>1. PICK S : v \in Seq(S)
    BY <1>2 DEF IsVector
  <2>2. v \in Seq(S \cup {e}) /\ e \in S \cup {e}
    BY <2>1
  <2>3. QED
    BY <2>2
<1>3. QED
  BY <1>1, <1>2 DEF IsVector

LEMMA ThenIs ==
  ASSUME NEW d, NEW m
  PROVE  /\ Then(d, m).stages = d.stages \o m.stages
         /\ Then(d, m).next = m.next
         /\ Typed(d) /\ Typed(m) => Typed(Then(d, m))
<1>1. Then(d, m).stages = d.stages \o m.stages /\ Then(d, m).next = m.next
  BY DEF Then, Numbered
<1>2. ASSUME Typed(d), Typed(m) PROVE Typed(Then(d, m))
  <2>1. IsVector(d.stages) /\ IsVector(m.stages) /\ m.next \in Nat
    BY <1>2 DEF Typed
  <2>2. IsVector(d.stages \o m.stages)
    BY <2>1, ConcatVectors
  <2>3. QED
    BY <1>1, <2>1, <2>2 DEF Typed
<1>3. QED
  BY <1>1, <1>2

\* What the Builder has built: the pipelines, and above them the vectors of the
\* stages that it has still to leave, the innermost one last.
Vectors(n, v, c) == [open |-> n, at |-> [i \in 0 .. n |-> v[i]], next |-> c]

Top(b) == b.at[b.open]

IsBuilt(b) ==
  /\ b.open \in Nat /\ b.next \in Nat /\ b = Vectors(b.open, b.at, b.next)
  /\ \A i \in 0 .. b.open : IsVector(b.at[i])

Plus(b, stages, c) ==
  [open |-> b.open, next |-> c,
   at |-> [i \in 0 .. b.open |-> IF i = b.open THEN b.at[i] \o stages ELSE b.at[i]]]

OpenOn(b) ==
  [open |-> b.open + 1, next |-> b.next,
   at |-> [i \in 0 .. b.open + 1 |-> IF i = b.open + 1 THEN <<>> ELSE b.at[i]]]

CloseOn(b, stages) ==
  [open |-> b.open - 1, next |-> b.next,
   at |-> [i \in 0 .. b.open - 1 |-> IF i = b.open - 1 THEN b.at[i] \o stages ELSE b.at[i]]]

LEMMA PlusBuilt ==
  ASSUME NEW b, IsBuilt(b), NEW s, IsVector(s), NEW c \in Nat
  PROVE  /\ IsBuilt(Plus(b, s, c))
         /\ Plus(b, s, c).open = b.open /\ Plus(b, s, c).next = c
         /\ Plus(b, <<>>, b.next) = b
<1>1. ASSUME NEW i \in 0 .. b.open
      PROVE  IsVector(IF i = b.open THEN b.at[i] \o s ELSE b.at[i]) /\ b.at[i] \o <<>> = b.at[i]
  BY ConcatVectors DEF IsBuilt
<1>2. IsBuilt(Plus(b, s, c))
  BY <1>1 DEF IsBuilt, Plus, Vectors
<1>3. [i \in 0 .. b.open |-> IF i = b.open THEN b.at[i] \o <<>> ELSE b.at[i]]
        = [i \in 0 .. b.open |-> b.at[i]]
  BY <1>1
<1>4. Plus(b, <<>>, b.next) = b
  BY <1>3 DEF Plus, IsBuilt, Vectors
<1>5. QED
  BY <1>2, <1>4 DEF Plus

LEMMA PlusTwice ==
  ASSUME NEW b, IsBuilt(b), NEW s, IsVector(s), NEW t, IsVector(t), NEW c, NEW d
  PROVE  Plus(Plus(b, s, c), t, d) = Plus(b, s \o t, d)
<1> DEFINE f == Plus(b, s, c).at
<1>1. ASSUME NEW i \in 0 .. b.open
      PROVE  (IF i = b.open THEN f[i] \o t ELSE f[i])
               = IF i = b.open THEN b.at[i] \o (s \o t) ELSE b.at[i]
  <2>1. f[i] = IF i = b.open THEN b.at[i] \o s ELSE b.at[i]
    BY DEF Plus
  <2>2. Regrouped(b.at[i], s, t)
    BY ConcatVectors DEF IsBuilt
  <2>3. QED
    BY <2>1, <2>2 DEF Regrouped
<1>2. f = Plus(b, s, c).at /\ Plus(b, s, c).open = b.open
  BY DEF Plus
<1> HIDE DEF f
<1>3. [i \in 0 .. b.open |-> IF i = b.open THEN f[i] \o t ELSE f[i]]
        = [i \in 0 .. b.open |-> IF i = b.open THEN b.at[i] \o (s \o t) ELSE b.at[i]]
  BY <1>1
<1>4. Plus(Plus(b, s, c), t, d)
        = [open |-> b.open, next |-> d,
           at |-> [i \in 0 .. b.open |-> IF i = b.open THEN f[i] \o t ELSE f[i]]]
  <2> DEFINE a == Plus(b, s, c)
  <2> HIDE DEF a
  <2>1. a.at = f /\ a.open = b.open
    BY <1>2 DEF a
  <2>2. Plus(a, t, d)
          = [open |-> a.open, next |-> d,
             at |-> [i \in 0 .. a.open |-> IF i = a.open THEN a.at[i] \o t ELSE a.at[i]]]
    BY DEF Plus
  <2>3. QED
    BY <2>1, <2>2 DEF a
<1>5. QED
  BY <1>3, <1>4 DEF Plus

\* What is added to a new vector is added to the one below when it is closed.
LEMMA OpenAndClose ==
  ASSUME NEW b, IsBuilt(b)
  PROVE  /\ IsBuilt(OpenOn(b)) /\ OpenOn(b).next = b.next
         /\ \A s, t, c : IsVector(s) =>
              /\ Top(Plus(OpenOn(b), s, c)) = s
              /\ CloseOn(Plus(OpenOn(b), s, c), t) = Plus(b, t, c)
<1> DEFINE o == OpenOn(b)
<1>1. /\ b.open \in Nat /\ b.open + 1 \in Nat /\ (b.open + 1) - 1 = b.open
      /\ b.open # b.open + 1 /\ b.open + 1 \in 0 .. b.open + 1
      /\ 0 .. b.open \subseteq 0 .. b.open + 1
      /\ \A i \in 0 .. b.open : i # b.open + 1
      /\ \A i \in 0 .. b.open + 1 : i # b.open + 1 => i \in 0 .. b.open
  BY DEF IsBuilt
<1>2. /\ o.open = b.open + 1 /\ o.next = b.next
      /\ o.at = [i \in 0 .. b.open + 1 |-> IF i = b.open + 1 THEN <<>> ELSE b.at[i]]
  BY DEF OpenOn
<1>3. IsBuilt(o)
  <2>1. \A i \in 0 .. b.open + 1 : IsVector(o.at[i])
    BY <1>1, <1>2, EmptyVector DEF IsBuilt
  <2>2. o = Vectors(o.open, o.at, o.next)
    BY <1>2 DEF OpenOn, Vectors
  <2>3. b.next \in Nat
    BY DEF IsBuilt
  <2> HIDE DEF o
  <2>4. QED
    BY <1>1, <1>2, <2>1, <2>2, <2>3 DEF IsBuilt
<1> HIDE DEF o
<1>4. ASSUME NEW s, NEW t, NEW c, IsVector(s)
      PROVE  /\ Top(Plus(o, s, c)) = s /\ CloseOn(Plus(o, s, c), t) = Plus(b, t, c)
  <2> DEFINE a == Plus(o, s, c)
  <2>1. /\ a.open = b.open + 1 /\ a.next = c
        /\ a.at = [i \in 0 .. b.open + 1 |-> IF i = b.open + 1 THEN o.at[i] \o s ELSE o.at[i]]
    BY <1>2 DEF Plus
  <2> HIDE DEF a
  <2>2. a.at[b.open + 1] = s
    <3>1. a.at[b.open + 1] = o.at[b.open + 1] \o s /\ o.at[b.open + 1] = <<>>
      BY <1>1, <1>2, <2>1
    <3>2. <<>> \o s = s
      BY <1>4, ConcatVectors
    <3>3. QED
      BY <3>1, <3>2
  <2>3. ASSUME NEW i \in 0 .. b.open PROVE a.at[i] = b.at[i]
    BY <1>1, <1>2, <2>1
  <2>4. CloseOn(a, t)
          = [open |-> b.open, next |-> c,
             at |-> [i \in 0 .. b.open |-> IF i = b.open THEN a.at[i] \o t ELSE a.at[i]]]
    BY <1>1, <2>1 DEF CloseOn
  <2>5. [i \in 0 .. b.open |-> IF i = b.open THEN a.at[i] \o t ELSE a.at[i]]
          = [i \in 0 .. b.open |-> IF i = b.open THEN b.at[i] \o t ELSE b.at[i]]
    BY <2>3
  <2>6. CloseOn(a, t) = Plus(b, t, c)
    BY <2>4, <2>5 DEF Plus
  <2>7. QED
    BY <2>1, <2>2, <2>6 DEF a, Top
<1>5. QED
  BY <1>2, <1>3, <1>4 DEF o

\* The last n vectors of b_stack, above the pipelines.
Held(n, stack, pipes, c) ==
  [open |-> n, next |-> c,
   at |-> [i \in 0 .. n |-> IF i = 0 THEN pipes ELSE stack[Len(stack) - n + i]]]

LEMMA HeldBuilt ==
  ASSUME NEW n, NEW v, TopVectors(v, n), NEW r, IsVector(r), NEW c \in Nat
  PROVE  IsBuilt(Held(n, v, r, c))
<1> DEFINE l == Len(v)
<1>1. l \in Nat /\ n \in 0 .. l /\ \A i \in l - n + 1 .. l : IsVector(v[i])
  BY DEF TopVectors, IsVector
<1> HIDE DEF l
<1>2. ASSUME NEW i \in 0 .. n, i # 0 PROVE IsVector(v[l - n + i])
  <2>1. l - n + i \in l - n + 1 .. l
    BY <1>1, <1>2
  <2>2. QED
    BY <1>1, <2>1
<1> DEFINE h == Held(n, v, r, c)
<1>3. /\ h.open = n /\ h.next = c
      /\ h.at = [i \in 0 .. n |-> IF i = 0 THEN r ELSE v[l - n + i]]
      /\ h = Vectors(n, h.at, c)
  BY DEF Held, Vectors, l
<1> HIDE DEF h
<1>4. \A i \in 0 .. n : IsVector(h.at[i])
  BY <1>2, <1>3
<1>5. QED
  BY <1>1, <1>3, <1>4 DEF IsBuilt, h

LEMMA HeldOpen ==
  ASSUME NEW n, NEW v, TopVectors(v, n), NEW r, NEW c
  PROVE  Held(n + 1, Append(v, <<>>), r, c) = OpenOn(Held(n, v, r, c))
<1> DEFINE l == Len(v)
           u == Append(v, <<>>)
           a == Held(n, v, r, c).at
<1>1. l \in Nat /\ n \in 0 .. l
  BY DEF TopVectors, IsVector
<1>2. Len(u) = l + 1 /\ u[l + 1] = <<>> /\ \A i \in 1 .. l : u[i] = v[i]
  BY AppendVector DEF TopVectors
<1>3. Held(n, v, r, c).open = n /\ Held(n, v, r, c).next = c
      /\ a = [i \in 0 .. n |-> IF i = 0 THEN r ELSE v[l - n + i]]
  BY DEF Held
<1> HIDE DEF l, u, a
<1>4. ASSUME NEW i \in 0 .. n + 1
      PROVE  (IF i = 0 THEN r ELSE u[(l + 1) - (n + 1) + i]) = IF i = n + 1 THEN <<>> ELSE a[i]
  <2>1. (l + 1) - (n + 1) + i = l - n + i
    BY <1>1
  <2>2. CASE i = n + 1
    <3>1. l - n + i = l + 1 /\ i # 0
      BY <1>1, <2>2
    <3>2. QED
      BY <1>2, <2>1, <2>2, <3>1
  <2>3. CASE i # n + 1 /\ i # 0
    <3>1. i \in 0 .. n /\ l - n + i \in 1 .. l
      BY <1>1, <2>3
    <3>2. QED
      BY <1>2, <1>3, <2>1, <2>3, <3>1
  <2>4. CASE i = 0
    <3>1. i \in 0 .. n /\ i # n + 1
      BY <1>1, <2>4
    <3>2. QED
      BY <1>3, <2>4, <3>1
  <2>5. QED
    BY <2>2, <2>3, <2>4
<1>5. [i \in 0 .. n + 1 |-> IF i = 0 THEN r ELSE u[(l + 1) - (n + 1) + i]]
        = [i \in 0 .. n + 1 |-> IF i = n + 1 THEN <<>> ELSE a[i]]
  BY <1>4
<1>6. Held(n + 1, u, r, c)
        = [open |-> n + 1, next |-> c,
           at |-> [i \in 0 .. n + 1 |-> IF i = 0 THEN r ELSE u[(l + 1) - (n + 1) + i]]]
  BY <1>2 DEF Held
<1>7. OpenOn(Held(n, v, r, c))
        = [open |-> n + 1, next |-> c,
           at |-> [i \in 0 .. n + 1 |-> IF i = n + 1 THEN <<>> ELSE a[i]]]
  BY <1>3 DEF OpenOn, a
<1>8. QED
  BY <1>5, <1>6, <1>7 DEF u

\* A stage is added to the vector on top.
LEMMA HeldPlus ==
  ASSUME NEW n, NEW v, TopVectors(v, n), n >= 1, NEW r, NEW c, NEW d, NEW stage
  PROVE  Held(n, Append(Front(v), Append(Last(v), stage)), r, d)
           = Plus(Held(n, v, r, c), <<stage>>, d)
<1> DEFINE l == Len(v)
           f == Front(v)
           e == Append(Last(v), stage)
           u == Append(f, e)
           a == Held(n, v, r, c).at
<1>1. l \in Nat /\ n \in 0 .. l
  BY DEF TopVectors, IsVector
<1>2. l >= 1
  BY <1>1
<1>3. IsVector(f) /\ Len(f) = l - 1 /\ Last(v) = v[l] /\ \A i \in 1 .. l - 1 : f[i] = v[i]
  BY <1>2, FrontVector DEF TopVectors
<1>4. IsVector(v[l])
  <2>1. \A i \in l - n + 1 .. l : IsVector(v[i])
    BY DEF TopVectors
  <2> HIDE DEF l
  <2>2. l \in l - n + 1 .. l
    BY <1>1
  <2>3. QED
    BY <2>1, <2>2
<1>5. e = v[l] \o <<stage>>
  BY <1>3, <1>4, OneStage
<1>6. Held(n, v, r, c).open = n
      /\ a = [i \in 0 .. n |-> IF i = 0 THEN r ELSE v[l - n + i]]
  BY DEF Held
<1> HIDE DEF f, e
<1>7. Len(u) = Len(f) + 1 /\ u[Len(f) + 1] = e /\ \A i \in 1 .. Len(f) : u[i] = f[i]
  BY <1>3, AppendVector
<1> HIDE DEF l, u, a
<1>8. Len(u) = l /\ u[l] = v[l] \o <<stage>> /\ \A i \in 1 .. l - 1 : u[i] = v[i]
  BY <1>1, <1>3, <1>5, <1>7
<1>9. ASSUME NEW i \in 0 .. n
      PROVE  (IF i = 0 THEN r ELSE u[l - n + i]) = IF i = n THEN a[i] \o <<stage>> ELSE a[i]
  <2>1. CASE i = n
    <3>1. l - n + i = l /\ i # 0
      BY <1>1, <2>1
    <3>2. a[i] = v[l]
      BY <1>6, <3>1
    <3>3. QED
      BY <1>8, <2>1, <3>1, <3>2
  <2>2. CASE i # n /\ i # 0
    <3>1. l - n + i \in 1 .. l - 1
      BY <1>1, <2>2
    <3>2. QED
      BY <1>6, <1>8, <2>2, <3>1
  <2>3. CASE i # n /\ i = 0
    BY <1>6, <2>3
  <2>4. QED
    BY <2>1, <2>2, <2>3
<1>10. [i \in 0 .. n |-> IF i = 0 THEN r ELSE u[l - n + i]]
         = [i \in 0 .. n |-> IF i = n THEN a[i] \o <<stage>> ELSE a[i]]
  BY <1>9
<1>11. QED
  BY <1>6, <1>8, <1>10 DEF Held, Plus, u, f, e, a

\* The vector on top is closed with a stage for the one below.
LEMMA HeldClose ==
  ASSUME NEW n, NEW v, TopVectors(v, n), n >= 2, NEW r, NEW c, NEW stage
  PROVE  LET below == Front(v)
         IN Held(n - 1, Append(Front(below), Append(Last(below), stage)), r, c)
              = CloseOn(Held(n, v, r, c), <<stage>>)
<1> DEFINE l == Len(v)
           f == Front(v)
           a == Held(n, v, r, c).at
           b == Held(n - 1, f, r, c).at
<1>1. l \in Nat /\ n \in 0 .. l
  BY DEF TopVectors, IsVector
<1>2. l >= 1 /\ n - 1 >= 1 /\ n >= 1
  BY <1>1
<1>3. Len(f) = l - 1 /\ \A i \in 1 .. l - 1 : f[i] = v[i]
  BY <1>2, FrontVector DEF TopVectors
<1>4. TopVectors(f, n - 1)
  BY <1>2, PopVector
<1>5. Held(n - 1, Append(Front(f), Append(Last(f), stage)), r, c)
        = Plus(Held(n - 1, f, r, c), <<stage>>, c)
  BY <1>2, <1>4, HeldPlus
<1>6. /\ Held(n, v, r, c).open = n /\ Held(n, v, r, c).next = c
      /\ a = [i \in 0 .. n |-> IF i = 0 THEN r ELSE v[l - n + i]]
      /\ Held(n - 1, f, r, c).open = n - 1
      /\ b = [i \in 0 .. n - 1 |-> IF i = 0 THEN r ELSE f[Len(f) - (n - 1) + i]]
  BY DEF Held
<1> HIDE DEF l, f, a, b
<1>7. ASSUME NEW i \in 0 .. n - 1 PROVE b[i] = a[i]
  <2>1. i \in 0 .. n
    BY <1>1
  <2>2. CASE i = 0
    BY <1>6, <2>1, <2>2
  <2>3. CASE i # 0
    <3>1. (l - 1) - (n - 1) + i = l - n + i /\ l - n + i \in 1 .. l - 1
      BY <1>1, <2>3
    <3>2. b[i] = f[l - n + i]
      BY <1>3, <1>6, <2>3, <3>1
    <3>3. QED
      BY <1>3, <1>6, <2>1, <2>3, <3>1, <3>2
  <2>4. QED
    BY <2>2, <2>3
<1>8. [i \in 0 .. n - 1 |-> IF i = n - 1 THEN b[i] \o <<stage>> ELSE b[i]]
        = [i \in 0 .. n - 1 |-> IF i = n - 1 THEN a[i] \o <<stage>> ELSE a[i]]
  BY <1>7
<1>9. Plus(Held(n - 1, f, r, c), <<stage>>, c) = CloseOn(Held(n, v, r, c), <<stage>>)
  <2> DEFINE g == Held(n - 1, f, r, c)
             h == Held(n, v, r, c)
  <2>1. g.open = n - 1 /\ g.at = b /\ h.open = n /\ h.next = c /\ h.at = a
    BY <1>6 DEF a, b
  <2> HIDE DEF g, h
  <2>2. Plus(g, <<stage>>, c)
          = [open |-> n - 1, next |-> c,
             at |-> [i \in 0 .. n - 1 |-> IF i = n - 1 THEN b[i] \o <<stage>> ELSE b[i]]]
    BY <2>1 DEF Plus
  <2>3. CloseOn(h, <<stage>>)
          = [open |-> n - 1, next |-> c,
             at |-> [i \in 0 .. n - 1 |-> IF i = n - 1 THEN a[i] \o <<stage>> ELSE a[i]]]
    BY <2>1 DEF CloseOn
  <2>4. QED
    BY <1>8, <2>2, <2>3 DEF g, h
<1>10. QED
  BY <1>5, <1>9 DEF f

\* The vector of an outermost branch goes to the pipelines.
LEMMA HeldUnpack ==
  ASSUME NEW v, TopVectors(v, 1), NEW r, NEW c, NEW u
  PROVE  /\ Top(Held(1, v, r, c)) = Last(v)
         /\ Held(0, u, r \o Last(v), c) = CloseOn(Held(1, v, r, c), Last(v))
<1>1. Len(v) \in Nat /\ 1 \in 0 .. Len(v)
  BY DEF TopVectors, IsVector
<1>2. Len(v) >= 1 /\ Len(v) - 1 + 1 = Len(v)
  BY <1>1
<1>3. Last(v) = v[Len(v)]
  BY DEF Last
<1> DEFINE h == Held(1, v, r, c)
<1>4. h.open = 1 /\ h.next = c /\ h.at[0] = r /\ h.at[1] = Last(v)
  <2>1. h.at = [i \in 0 .. 1 |-> IF i = 0 THEN r ELSE v[Len(v) - 1 + i]]
        /\ h.open = 1 /\ h.next = c
    BY DEF Held
  <2> HIDE DEF h
  <2>2. 0 \in 0 .. 1 /\ 1 \in 0 .. 1
    OBVIOUS
  <2>3. QED
    BY <1>2, <1>3, <2>1, <2>2
<1> HIDE DEF h
<1>5. 1 - 1 = 0 /\ \A i \in 0 .. 0 : i = 0
  OBVIOUS
<1>6. CloseOn(h, Last(v))
        = [open |-> 0, next |-> c, at |-> [i \in 0 .. 0 |-> h.at[0] \o Last(v)]]
  BY <1>4, <1>5 DEF CloseOn
<1>7. Held(0, u, r \o Last(v), c)
        = [open |-> 0, next |-> c, at |-> [i \in 0 .. 0 |-> r \o Last(v)]]
  BY <1>5 DEF Held
<1>8. QED
  BY <1>4, <1>6, <1>7 DEF h, Top

-----------------------------------------------------------------------------
(* What is next to a place, and what the Builder makes of it.              *)

LEMMA NextPlacesAre ==
  ASSUME NEW p, PlaceTyped(p)
  PROVE  LET s == Successors(p.node, p.path)
             above == IF p.node.kind \in Inner THEN p.above ELSE p.above \cup {p.node}
         IN /\ Len(s) \in Nat /\ Len(NextPlaces(p)) = Len(s)
            /\ p.node.next = <<>> => Len(s) = 0
            /\ \A i \in 1 .. Len(s) :
                 /\ NextPlaces(p)[i] = Place(s[i].node, above, s[i].path)
                 /\ NextPlaces(p)[i] \in PlacesAfter(p)
<1> DEFINE s == Successors(p.node, p.path)
           above == IF p.node.kind \in Inner THEN p.above ELSE p.above \cup {p.node}
           N == Len(p.node.next)
           F(i) == Place(s[i].node, above, s[i].path)
<1>1. N \in Nat /\ DOMAIN p.node.next = 1 .. N
  BY NodeIs DEF PlaceTyped
<1>2. s \in Seq(WorkItem)
  BY SuccessorsAre DEF PlaceTyped
<1>3. DOMAIN s = 1 .. N
  BY <1>1 DEF Successors
<1>4. Len(s) = N
  <2> HIDE DEF s, N
  <2>1. Len(s) \in Nat /\ DOMAIN s = 1 .. Len(s)
    BY <1>2
  <2>2. QED
    BY <1>1, <1>3, <2>1
<1>5. NextPlaces(p) = [i \in 1 .. N |-> F(i)]
  BY <1>1 DEF NextPlaces
<1>6. \A i \in 1 .. N : F(i) \in PlacesAfter(p)
  <2>1. PlacesAfter(p) = {Place(a.node, above, a.path) : a \in ToSet(s)}
    BY DEF PlacesAfter
  <2>2. \A i \in 1 .. N : s[i] \in ToSet(s)
    BY <1>3 DEF ToSet
  <2>3. QED
    BY <2>1, <2>2
<1>7. p.node.next = <<>> => N = 0
  OBVIOUS
<1> HIDE DEF F, N
<1>8. NextPlaces(p) \in Seq(PlacesAfter(p)) /\ Len(NextPlaces(p)) = N
  BY <1>1, <1>5, <1>6
<1>9. QED
  BY <1>1, <1>4, <1>5, <1>6, <1>7, <1>8 DEF F

LEMMA NextPlacesIn ==
  ASSUME NEW p, PlaceTyped(p)
  PROVE  /\ Len(NextPlaces(p)) \in Nat
         /\ p.node.next = <<>> => Len(NextPlaces(p)) = 0
         /\ \A i \in 1 .. Len(NextPlaces(p)) : NextPlaces(p)[i] \in PlacesAfter(p)
<1> DEFINE s == Successors(p.node, p.path)
<1> HIDE DEF s
<1>1. /\ Len(s) \in Nat /\ Len(NextPlaces(p)) = Len(s)
      /\ p.node.next = <<>> => Len(s) = 0
      /\ \A i \in 1 .. Len(s) : NextPlaces(p)[i] \in PlacesAfter(p)
  BY NextPlacesAre DEF s
<1>2. QED
  BY <1>1

\* The stages of the places next to a place, one after another.
Follow(rules, as, l, p, c, u) ==
  LET s == NextPlaces(p) IN
  /\ u[0] = Numbered(<<>>, c)
  /\ \A i \in 1 .. Len(s) :
       /\ l \in 1 .. Nesting
       /\ s[i] \in PlacesAt(rules)[Nesting - (l - 1)]
       /\ u[i] = Then(u[i - 1], StagesAt(rules, as)[l - 1][<<s[i], u[i - 1].next>>])
  /\ StagesAt(rules, as)[l][<<p, c>>] = StageOf(p, as, c, u[Len(s)])

LEMMA LevelIn ==
  ASSUME NEW rules, NEW l \in 0 .. Nesting, NEW p \in PlacesAt(rules)[Nesting - l]
  PROVE  p \in PlacesOf(rules)
<1>1. Nesting - l \in 0 .. Nesting
  BY NestingAssumption
<1> DEFINE k == Nesting - l
<1> HIDE DEF k
<1>2. k \in 0 .. Nesting /\ p \in PlacesAt(rules)[k]
  BY <1>1 DEF k
<1>3. QED
  BY <1>2 DEF PlacesOf

LEMMA FollowExists ==
  ASSUME NEW rules \in Programs, NEW as, NEW l \in 0 .. Nesting,
         NEW p \in PlacesAt(rules)[Nesting - l], NEW c \in Nat
  PROVE  \E u : Follow(rules, as, l, p, c, u)
<1>1. p \in PlacesOf(rules) /\ PlaceTyped(p)
  BY LevelIn, PlaceIs
<1>0. /\ StagesAt(rules, as)[0][<<p, c>>] = StageOf(p, as, c, Numbered(<<>>, c))
      /\ \A k \in 1 .. Nesting :
           StagesAt(rules, as)[k][<<p, c>>]
             = StageOf(p, as, c, InTurn(NextPlaces(p), c, StagesAt(rules, as)[k - 1]))
  BY <1>1, StageLevels
<1> USE NestingAssumption
<1> DEFINE s == NextPlaces(p)
<1>2. /\ Len(s) \in Nat /\ (p.node.next = <<>> => Len(s) = 0)
      /\ \A i \in 1 .. Len(s) : s[i] \in PlacesAfter(p)
  BY <1>1, NextPlacesIn
<1>3. CASE l = 0
  <2>1. p.node.next = <<>>
    <3>1. Nesting - l = Nesting
      BY <1>3
    <3>2. QED
      BY <3>1
  <2> DEFINE u == [i \in {0} |-> Numbered(<<>>, c)]
  <2>2. u[0] = Numbered(<<>>, c)
    OBVIOUS
  <2>3. StagesAt(rules, as)[0][<<p, c>>] = StageOf(p, as, c, Numbered(<<>>, c))
    BY <1>0
  <2>4. Len(s) = 0 /\ 1 .. 0 = {}
    BY <1>2, <2>1
  <2> HIDE DEF u
  <2>5. Follow(rules, as, l, p, c, u)
    BY <1>3, <2>2, <2>3, <2>4 DEF Follow
  <2>6. QED
    BY <2>5
<1>4. CASE l # 0
  <2>1. l \in 1 .. Nesting
    BY <1>4
  <2> DEFINE from == StagesAt(rules, as)[l - 1]
  <2>2. StagesAt(rules, as)[l][<<p, c>>] = StageOf(p, as, c, InTurn(s, c, from))
    BY <1>0, <2>1
  <2> HIDE DEF from, s
  <2>3. PICK u : Turns(s, c, from, u)
    BY <1>2, InTurnIs
  <2>4. PlacesAfter(p) \subseteq PlacesAt(rules)[Nesting - (l - 1)]
    <3> DEFINE k == Nesting - (l - 1)
    <3>1. k \in 1 .. Nesting /\ k - 1 = Nesting - l
      BY <2>1
    <3> HIDE DEF k
    <3>2. PlacesAt(rules)[k] = UNION {PlacesAfter(r) : r \in PlacesAt(rules)[k - 1]}
      BY <3>1, Levels
    <3>3. p \in PlacesAt(rules)[k - 1]
      BY <3>1
    <3>4. QED
      BY <3>2, <3>3 DEF k
  <2>5. Follow(rules, as, l, p, c, u)
    BY <1>2, <2>1, <2>2, <2>3, <2>4 DEF Follow, Turns, from, s
  <2>6. QED
    BY <2>5
<1>5. QED
  BY <1>3, <1>4

LEMMA StageTyped ==
  ASSUME NEW p, NEW as, NEW c \in Nat, NEW below, Typed(below)
  PROVE  Typed(StageOf(p, as, c, below))
<1> DEFINE kind == p.node.kind
<1>1. IsVector(below.stages) /\ below.next \in Nat
  BY DEF Typed
<1>2. \A e, n : Numbered(<<e>>, n).stages = <<e>> /\ Numbered(<<e>>, n).next = n
  BY DEF Numbered
<1>3. \A e, n : n \in Nat => Typed(Numbered(<<e>>, n))
  BY <1>2, OneStage, Zenon DEF Typed
<1>4. c + 1 \in Nat
  OBVIOUS
<1>5. CASE kind = "selector"
  <2>1. StageOf(p, as, c, below)
          = Numbered(<<Built("selector", OptionsOf(p, as), c, <<>>)>>, c + 1)
    BY <1>5 DEF StageOf
  <2>2. QED
    BY <1>3, <1>4, <2>1
<1>6. CASE kind = "aggregator"
  <2>1. StageOf(p, as, c, below)
          = Numbered(<<Built("aggregator", OptionsOf(p, as), None, below.stages)>>, below.next)
    BY <1>6 DEF StageOf
  <2>2. QED
    BY <1>1, <1>3, <2>1
<1>7. CASE kind \in {"filter", "group-filter"}
  <2>1. StageOf(p, as, c, below)
          = Numbered(<<Built("filter", OptionsOf(p, as), None, below.stages)>>, below.next)
    BY <1>7 DEF StageOf
  <2>2. QED
    BY <1>1, <1>3, <2>1
<1>8. CASE kind \notin {"selector", "aggregator", "filter", "group-filter"}
  <2>1. StageOf(p, as, c, below) = below
    BY <1>8 DEF StageOf
  <2>2. QED
    BY <2>1
<1>9. QED
  BY <1>5, <1>6, <1>7, <1>8

LevelTyped(rules, as, l) ==
  \A p \in PlacesAt(rules)[Nesting - l] : \A c \in Nat : Typed(StagesAt(rules, as)[l][<<p, c>>])

\* The stages of the places next to a place, up to each of them.
LEMMA FollowTyped ==
  ASSUME NEW rules \in Programs, NEW as, NEW l \in 0 .. Nesting,
         NEW p \in PlacesAt(rules)[Nesting - l], NEW c \in Nat, NEW u,
         Follow(rules, as, l, p, c, u), l # 0 => LevelTyped(rules, as, l - 1)
  PROVE  \A i \in 0 .. Len(NextPlaces(p)) : Typed(u[i])
<1> DEFINE at == StagesAt(rules, as)
           s == NextPlaces(p)
           N == Len(s)
           U == {i \in Nat : i \in 0 .. N => Typed(u[i])}
<1>1. p \in PlacesOf(rules) /\ PlaceTyped(p)
  BY LevelIn, PlaceIs
<1>2. N \in Nat
  BY <1>1, NextPlacesIn
<1>3. /\ u[0] = Numbered(<<>>, c)
      /\ \A i \in 1 .. N :
           /\ l \in 1 .. Nesting
           /\ s[i] \in PlacesAt(rules)[Nesting - (l - 1)]
           /\ u[i] = Then(u[i - 1], at[l - 1][<<s[i], u[i - 1].next>>])
  BY DEF Follow
<1>4. l # 0 => \A q \in PlacesAt(rules)[Nesting - (l - 1)] : \A n \in Nat :
                 Typed(at[l - 1][<<q, n>>])
  BY Zenon DEF LevelTyped
<1> HIDE DEF s, N, at
<1>5. 0 \in U
  <2>1. Typed(Numbered(<<>>, c))
    BY EmptyVector DEF Typed, Numbered
  <2>2. QED
    BY <1>3, <2>1
<1>6. ASSUME NEW i \in Nat, i \in U PROVE i + 1 \in U
  <2>1. SUFFICES ASSUME i + 1 \in 0 .. N PROVE Typed(u[i + 1])
    OBVIOUS
  <2>2. i + 1 \in 1 .. N /\ (i + 1) - 1 = i /\ i \in 0 .. N
    BY <1>2, <2>1
  <2>3. Typed(u[i])
    BY <1>6, <2>2
  <2>4. /\ l # 0 /\ s[i + 1] \in PlacesAt(rules)[Nesting - (l - 1)]
        /\ u[i + 1] = Then(u[i], at[l - 1][<<s[i + 1], u[i].next>>])
    BY <1>3, <2>2
  <2>5. u[i].next \in Nat
    BY <2>3 DEF Typed
  <2>6. Typed(at[l - 1][<<s[i + 1], u[i].next>>])
    BY <1>4, <2>4, <2>5
  <2>7. QED
    BY <2>3, <2>4, <2>6, ThenIs
<1>7. Nat \subseteq U
  <2> HIDE DEF U
  <2>1. QED
    BY <1>5, <1>6, SetInduction
<1>8. QED
  BY <1>2, <1>7 DEF N, s

LEMMA StagesTyped ==
  ASSUME NEW rules \in Programs, NEW as
  PROVE  \A l \in 0 .. Nesting : LevelTyped(rules, as, l)
<1> DEFINE Good(l) == LevelTyped(rules, as, l)
           T == {l \in Nat : l \in 0 .. Nesting => Good(l)}
<1> USE NestingAssumption
<1>1. ASSUME NEW l \in 0 .. Nesting, l # 0 => Good(l - 1)
      PROVE  Good(l)
  <2>1. SUFFICES ASSUME NEW p \in PlacesAt(rules)[Nesting - l], NEW c \in Nat
                 PROVE  Typed(StagesAt(rules, as)[l][<<p, c>>])
    BY Zenon DEF LevelTyped
  <2>2. PICK u : Follow(rules, as, l, p, c, u)
    BY FollowExists
  <2>3. \A i \in 0 .. Len(NextPlaces(p)) : Typed(u[i])
    BY <1>1, <2>2, FollowTyped
  <2>4. Len(NextPlaces(p)) \in 0 .. Len(NextPlaces(p))
    <3>1. PlaceTyped(p)
      BY LevelIn, PlaceIs
    <3> DEFINE n == Len(NextPlaces(p))
    <3>2. n \in Nat
      BY <3>1, NextPlacesIn
    <3> HIDE DEF n
    <3>3. n \in 0 .. n
      BY <3>2
    <3>4. QED
      BY <3>3 DEF n
  <2>5. Typed(u[Len(NextPlaces(p))])
    BY <2>3, <2>4
  <2>6. StagesAt(rules, as)[l][<<p, c>>] = StageOf(p, as, c, u[Len(NextPlaces(p))])
    BY <2>2 DEF Follow
  <2>7. QED
    BY <2>5, <2>6, StageTyped
<1> HIDE DEF Good
<1>2. 0 \in T
  <2>1. 0 \in 0 .. Nesting
    OBVIOUS
  <2>2. Good(0)
    BY <1>1, <2>1
  <2>3. QED
    BY <2>2
<1>3. ASSUME NEW l \in Nat, l \in T PROVE l + 1 \in T
  <2>1. ASSUME l + 1 \in 0 .. Nesting PROVE Good(l + 1)
    <3>1. l \in 0 .. Nesting /\ (l + 1) - 1 = l
      BY <2>1
    <3>2. Good(l)
      BY <1>3, <3>1
    <3>3. Good((l + 1) - 1)
      BY <3>1, <3>2
    <3>4. QED
      BY <1>1, <2>1, <3>3
  <2>2. QED
    BY <2>1
<1>4. Nat \subseteq T
  <2> HIDE DEF T
  <2>1. QED
    BY <1>2, <1>3, SetInduction
<1>5. \A l \in 0 .. Nesting : Good(l)
  BY <1>4
<1>6. QED
  BY <1>5 DEF Good

-----------------------------------------------------------------------------
(* What the work that is left will make of what has been built.            *)

\* The stages above what comes before w, and above what is at i in w.
StagesIn(w) == {n \in Leaves(w) : n.kind \notin Inner}
StagesAfter(w, i) == {n \in LeavesAfter(w, i) : n.kind \notin Inner}

\* What it means to leave a node.
Left(as, item, above, b) ==
  LET kind    == item.node.kind
      options == OptionsOf(Place(item.node, above, item.path), as)
  IN CASE kind = "main"       -> CloseOn(b, Top(b))
       [] kind = "aggregator" -> CloseOn(b, <<Built("aggregator", options, None, Top(b))>>)
       [] kind \in {"filter", "group-filter"} ->
            CloseOn(b, <<Built("filter", options, None, Top(b))>>)
       [] OTHER -> b

\* A visit adds the stages of its place.
Takes(rules, as, item, above, b, d) ==
  LET p == Place(item.node, above, item.path) IN
  \/ item.op = "leave" /\ d = Left(as, item, above, b)
  \/ /\ item.op = "visit"
     /\ \E l \in 0 .. Nesting :
          /\ p \in PlacesAt(rules)[Nesting - l]
          /\ LET more == StagesAt(rules, as)[l][<<p, b.next>>]
             IN d = Plus(b, more.stages, more.next)

Trace(rules, as, w, f, m) ==
  \A i \in 1 .. m : Takes(rules, as, w[i], StagesAfter(w, i), f[i - 1], f[i])

Leads(rules, as, w, b, d) ==
  \E f : f[0] = b /\ f[Len(w)] = d /\ Trace(rules, as, w, f, Len(w))

LEMMA LeadsEmpty ==
  ASSUME NEW rules, NEW as, NEW b, NEW d
  PROVE  Leads(rules, as, <<>>, b, d) => b = d
BY DEF Leads

LEMMA LeadsRest ==
  ASSUME NEW rules, NEW as, NEW b, NEW d, NEW S, NEW w \in Seq(S), w # <<>>,
         Leads(rules, as, w, b, d)
  PROVE  \E c : /\ Takes(rules, as, Head(w), StagesIn(Tail(w)), b, c)
                /\ Leads(rules, as, Tail(w), c, d)
<1>1. PICK f : f[0] = b /\ f[Len(w)] = d /\ Trace(rules, as, w, f, Len(w))
  BY DEF Leads
<1> DEFINE t == Tail(w)
           n == Len(t)
<1>2. t \in Seq(S) /\ n \in Nat /\ Len(w) = 1 + n /\ Head(w) = w[1]
      /\ \A i \in 1 .. n : w[1 + i] = t[i]
  OBVIOUS
<1> HIDE DEF t
<1>3. 1 \in Nat /\ \A i \in 1 .. Len(t) : w[1 + i] = t[i]
  BY <1>2
<1>4. LeavesAfter(w, 1) = Leaves(t) /\ \A i \in 1 .. n : LeavesAfter(w, 1 + i) = LeavesAfter(t, i)
  BY <1>2, <1>3, LeavesShift
<1> HIDE DEF n
<1>5. StagesAfter(w, 1) = StagesIn(t) /\ \A i \in 1 .. n : StagesAfter(w, 1 + i) = StagesAfter(t, i)
  BY <1>4 DEF StagesAfter, StagesIn
<1>6. \A i \in 1 .. 1 + n : Takes(rules, as, w[i], StagesAfter(w, i), f[i - 1], f[i])
  BY <1>1, <1>2 DEF Trace
<1> DEFINE g == [i \in 0 .. n |-> f[i + 1]]
<1>7. g[0] = f[1] /\ g[n] = d
  BY <1>1, <1>2
<1>8. ASSUME NEW i \in 1 .. n
      PROVE  Takes(rules, as, t[i], StagesAfter(t, i), g[i - 1], g[i])
  <2>1. 1 + i \in 1 .. 1 + n /\ (1 + i) - 1 = i /\ (i - 1) + 1 = i
        /\ i + 1 = 1 + i /\ i \in 0 .. n /\ i - 1 \in 0 .. n
    BY <1>2
  <2>2. g[i] = f[1 + i] /\ g[i - 1] = f[i]
    BY <2>1
  <2>3. Takes(rules, as, w[1 + i], StagesAfter(w, 1 + i), f[i], f[1 + i])
    BY <1>6, <2>1
  <2>4. QED
    BY <1>2, <1>5, <2>2, <2>3
<1>9. Leads(rules, as, t, f[1], d)
  <2> HIDE DEF g
  <2>1. Trace(rules, as, t, g, n)
    BY <1>8 DEF Trace
  <2>2. QED
    BY <1>7, <2>1 DEF Leads, n
<1>10. Takes(rules, as, Head(w), StagesIn(t), b, f[1])
  <2>1. 1 \in 1 .. 1 + n /\ 1 - 1 = 0
    BY <1>2
  <2>2. Takes(rules, as, w[1], StagesAfter(w, 1), f[0], f[1])
    BY <1>6, <2>1
  <2>3. QED
    BY <1>1, <1>2, <1>5, <2>2
<1>11. QED
  BY <1>9, <1>10 DEF t

\* Nodes to visit put before the others.
LEMMA LeadsPut ==
  ASSUME NEW rules, NEW as, NEW d, NEW S, NEW more \in Seq(S), NEW w \in Seq(S),
         \A i \in 1 .. Len(more) : more[i].op = "visit",
         NEW g,
         \A i \in 1 .. Len(more) :
           Takes(rules, as, more[i], StagesIn(w), g[i - 1], g[i]),
         Leads(rules, as, w, g[Len(more)], d)
  PROVE  Leads(rules, as, more \o w, g[0], d)
<1> DEFINE m == Len(more)
           n == Len(w)
           v == more \o w
<1>1. /\ m \in Nat /\ n \in Nat /\ v \in Seq(S) /\ Len(v) = m + n
      /\ \A i \in 1 .. m : v[i] = more[i]
      /\ \A j \in 1 .. n : v[m + j] = w[j]
  OBVIOUS
<1>2. \A i \in 1 .. m : v[i].op = "visit"
  BY <1>1
<1>3. PICK f : f[0] = g[m] /\ f[n] = d /\ Trace(rules, as, w, f, n)
  BY DEF Leads
<1>4. \A i \in 1 .. m : Takes(rules, as, more[i], StagesIn(w), g[i - 1], g[i])
  OBVIOUS
<1> HIDE DEF v, m
<1>5. /\ m \in Nat /\ v \in Seq(S) /\ Len(v) = m + Len(w)
      /\ \A j \in 1 .. Len(w) : v[m + j] = w[j]
  BY <1>1
<1>6. LeavesAfter(v, m) = Leaves(w)
      /\ \A i \in 1 .. Len(w) : LeavesAfter(v, m + i) = LeavesAfter(w, i)
  BY <1>5, LeavesShift, Zenon
<1>7. \A i \in 1 .. n : StagesAfter(v, m + i) = StagesAfter(w, i)
  BY <1>6 DEF StagesAfter
<1> HIDE DEF n
<1>8. ASSUME NEW i \in 1 .. m PROVE StagesAfter(v, i) = StagesIn(w)
  <2>1. ASSUME NEW k \in 1 .. m + n, v[k].op = "leave" PROVE k > i <=> k > m
    <3>1. k \notin 1 .. m
      BY <1>2, <2>1
    <3>2. QED
      BY <1>1, <3>1
  <2>2. {k \in 1 .. Len(v) : k > i /\ v[k].op = "leave"}
          = {k \in 1 .. Len(v) : k > m /\ v[k].op = "leave"}
    BY <1>1, <2>1
  <2>3. LeavesAfter(v, i) = LeavesAfter(v, m)
    BY <2>2 DEF LeavesAfter
  <2>4. QED
    BY <1>6, <2>3 DEF StagesAfter, StagesIn
<1> DEFINE h == [i \in 0 .. m + n |-> IF i <= m THEN g[i] ELSE f[i - m]]
<1>9. h[0] = g[0] /\ h[m + n] = d
  <2>1. 0 \in 0 .. m + n /\ m + n \in 0 .. m + n /\ 0 <= m /\ (m + n) - m = n
        /\ (m + n <= m => n = 0 /\ m + n = m)
    BY <1>1
  <2>2. QED
    BY <1>3, <2>1
<1>10. ASSUME NEW i \in 1 .. m + n
       PROVE  Takes(rules, as, v[i], StagesAfter(v, i), h[i - 1], h[i])
  <2>1. CASE i \in 1 .. m
    <3>1. i \in 0 .. m + n /\ i - 1 \in 0 .. m + n /\ i <= m /\ i - 1 <= m
      BY <1>1, <2>1
    <3>2. h[i] = g[i] /\ h[i - 1] = g[i - 1]
      BY <3>1
    <3> HIDE DEF h
    <3>3. Takes(rules, as, more[i], StagesIn(w), g[i - 1], g[i])
      BY <1>4, <2>1
    <3>4. v[i] = more[i] /\ StagesAfter(v, i) = StagesIn(w)
      BY <1>1, <1>8, <2>1
    <3>5. QED
      BY <3>2, <3>3, <3>4
  <2>2. CASE i \notin 1 .. m
    <3>1. /\ i - m \in 1 .. n /\ m + (i - m) = i /\ (i - m) - 1 = (i - 1) - m
          /\ i \in 0 .. m + n /\ i - 1 \in 0 .. m + n /\ ~ (i <= m)
          /\ i - 1 <= m => i - 1 = m /\ (i - m) - 1 = 0
      BY <1>1, <2>2
    <3>2. h[i] = f[i - m] /\ h[i - 1] = f[(i - m) - 1]
      BY <1>3, <3>1
    <3> HIDE DEF h
    <3>3. v[i] = w[i - m] /\ StagesAfter(v, i) = StagesAfter(w, i - m)
      BY <1>1, <1>7, <3>1
    <3>4. Takes(rules, as, w[i - m], StagesAfter(w, i - m), f[(i - m) - 1], f[i - m])
      BY <1>3, <3>1 DEF Trace
    <3>5. QED
      BY <3>2, <3>3, <3>4
  <2>3. QED
    BY <2>1, <2>2
<1> HIDE DEF h
<1>11. Trace(rules, as, v, h, Len(v)) /\ h[Len(v)] = d
  BY <1>1, <1>9, <1>10 DEF Trace
<1>12. Leads(rules, as, v, h[0], d)
  BY <1>11 DEF Leads
<1>13. QED
  BY <1>9, <1>12 DEF v

\* One item put before the others.
LEMMA LeadsOne ==
  ASSUME NEW rules, NEW as, NEW b, NEW c, NEW d, NEW S, NEW a \in S, NEW w \in Seq(S),
         Takes(rules, as, a, StagesIn(w), b, c), Leads(rules, as, w, c, d)
  PROVE  Leads(rules, as, <<a>> \o w, b, d)
<1> DEFINE n == Len(w)
           v == <<a>> \o w
<1>1. /\ n \in Nat /\ v \in Seq(S) /\ Len(v) = 1 + n /\ v[1] = a
      /\ \A j \in 1 .. n : v[1 + j] = w[j]
  OBVIOUS
<1>2. PICK f : f[0] = c /\ f[n] = d /\ Trace(rules, as, w, f, n)
  BY DEF Leads
<1> HIDE DEF v
<1>3. 1 \in Nat /\ Len(v) = 1 + Len(w) /\ \A j \in 1 .. Len(w) : v[1 + j] = w[j]
  BY <1>1
<1>4. LeavesAfter(v, 1) = Leaves(w)
      /\ \A i \in 1 .. Len(w) : LeavesAfter(v, 1 + i) = LeavesAfter(w, i)
  BY <1>1, <1>3, LeavesShift
<1>5. StagesAfter(v, 1) = StagesIn(w) /\ \A i \in 1 .. n : StagesAfter(v, 1 + i) = StagesAfter(w, i)
  BY <1>4 DEF StagesAfter, StagesIn
<1> HIDE DEF n
<1> DEFINE h == [i \in 0 .. 1 + n |-> IF i = 0 THEN b ELSE f[i - 1]]
<1>6. h[0] = b /\ h[1] = c /\ h[1 + n] = d
  BY <1>1, <1>2
<1>7. ASSUME NEW i \in 1 .. 1 + n
      PROVE  Takes(rules, as, v[i], StagesAfter(v, i), h[i - 1], h[i])
  <2>1. CASE i = 1
    <3>1. h[i - 1] = b /\ h[i] = c
      BY <1>6, <2>1
    <3> HIDE DEF h
    <3>2. QED
      BY <1>1, <1>5, <2>1, <3>1
  <2>2. CASE i # 1
    <3>1. i - 1 \in 1 .. n /\ 1 + (i - 1) = i /\ i \in 0 .. 1 + n /\ i - 1 \in 0 .. 1 + n
          /\ i # 0 /\ i - 1 # 0
      BY <1>1, <2>2
    <3>2. h[i] = f[i - 1] /\ h[i - 1] = f[(i - 1) - 1]
      BY <3>1
    <3> HIDE DEF h
    <3>3. v[i] = w[i - 1] /\ StagesAfter(v, i) = StagesAfter(w, i - 1)
      BY <1>1, <1>5, <3>1
    <3>4. Takes(rules, as, w[i - 1], StagesAfter(w, i - 1), f[(i - 1) - 1], f[i - 1])
      BY <1>2, <3>1 DEF Trace
    <3>5. QED
      BY <3>2, <3>3, <3>4
  <2>3. QED
    BY <2>1, <2>2
<1> HIDE DEF h
<1>8. Trace(rules, as, v, h, Len(v)) /\ h[Len(v)] = d
  BY <1>1, <1>6, <1>7 DEF Trace
<1>9. Leads(rules, as, v, b, d)
  BY <1>6, <1>8 DEF Leads
<1>10. QED
  BY <1>9 DEF v

-----------------------------------------------------------------------------
(* A visit, and the visits of what is next to it.                          *)

LEMMA LeadsBelow ==
  ASSUME NEW rules \in Programs, NEW as, NEW l \in 0 .. Nesting,
         NEW p \in PlacesAt(rules)[Nesting - l], NEW b, IsBuilt(b), NEW u,
         Follow(rules, as, l, p, b.next, u), NEW w \in Seq(WorkItem),
         StagesIn(w) = IF p.node.kind \in Inner THEN p.above ELSE p.above \cup {p.node},
         NEW d,
         LET below == u[Len(NextPlaces(p))]
         IN Leads(rules, as, w, Plus(b, below.stages, below.next), d)
  PROVE  Leads(rules, as, Successors(p.node, p.path) \o w, b, d)
<1> DEFINE s == Successors(p.node, p.path)
           t == NextPlaces(p)
           N == Len(s)
           g == [i \in 0 .. N |-> Plus(b, u[i].stages, u[i].next)]
<1>1. p \in PlacesOf(rules) /\ PlaceTyped(p)
  BY LevelIn, PlaceIs
<1>2. s \in Seq(WorkItem) /\ \A i \in 1 .. N : s[i].op = "visit"
  BY <1>1, SuccessorsAre DEF PlaceTyped
<1>3. /\ N \in Nat /\ Len(t) = N
      /\ \A i \in 1 .. N : t[i] = Place(s[i].node, StagesIn(w), s[i].path)
  BY <1>1, NextPlacesAre
<1>4. b.next \in Nat
  BY DEF IsBuilt
<1>5. \A i \in 0 .. N : Typed(u[i])
  <2>1. l # 0 => LevelTyped(rules, as, l - 1)
    <3>1. l # 0 => l - 1 \in 0 .. Nesting
      BY NestingAssumption
    <3>2. QED
      BY <3>1, StagesTyped
  <2>2. \A i \in 0 .. Len(t) : Typed(u[i])
    BY <1>4, <2>1, FollowTyped
  <2>3. QED
    BY <1>3, <2>2
<1>6. /\ u[0] = Numbered(<<>>, b.next)
      /\ \A i \in 1 .. N :
           /\ l \in 1 .. Nesting
           /\ t[i] \in PlacesAt(rules)[Nesting - (l - 1)]
           /\ u[i] = Then(u[i - 1], StagesAt(rules, as)[l - 1][<<t[i], u[i - 1].next>>])
  BY <1>3 DEF Follow
<1>7. Leads(rules, as, w, Plus(b, u[N].stages, u[N].next), d)
  BY <1>3
<1> HIDE DEF s, t, N
<1>8. g[0] = b
  <2>1. 0 \in 0 .. N
    BY <1>3
  <2>2. g[0] = Plus(b, <<>>, b.next)
    BY <1>6, <2>1 DEF Numbered
  <2>3. QED
    BY <2>2, EmptyVector, <1>4, PlusBuilt
<1>9. ASSUME NEW i \in 1 .. N
      PROVE  Takes(rules, as, s[i], StagesIn(w), g[i - 1], g[i])
  <2> DEFINE k == l - 1
             c == u[i - 1].next
             more == StagesAt(rules, as)[k][<<t[i], c>>]
  <2>1. i - 1 \in 0 .. N /\ i \in 0 .. N /\ k \in 0 .. Nesting
    <3>1. l \in 1 .. Nesting
      BY <1>6
    <3>2. k \in 0 .. Nesting
      BY <3>1, NestingAssumption
    <3> HIDE DEF k
    <3>3. N \in Nat
      BY <1>3
    <3>4. QED
      BY <3>2, <3>3
  <2>2. g[i - 1] = Plus(b, u[i - 1].stages, c) /\ g[i] = Plus(b, u[i].stages, u[i].next)
    BY <2>1
  <2>3. t[i] \in PlacesAt(rules)[Nesting - k] /\ u[i] = Then(u[i - 1], more)
    BY <1>6
  <2>4. IsVector(u[i - 1].stages) /\ c \in Nat
    BY <1>5, <2>1 DEF Typed
  <2> HIDE DEF g, k, c
  <2>5. Typed(more)
    <3>1. LevelTyped(rules, as, k)
      BY <2>1, StagesTyped
    <3>2. QED
      BY <2>3, <2>4, <3>1 DEF LevelTyped
  <2> HIDE DEF more
  <2>6. u[i].stages = u[i - 1].stages \o more.stages /\ u[i].next = more.next
    <3> DEFINE before == u[i - 1]
               after == u[i]
    <3>1. after = Then(before, more)
      BY <2>3
    <3> HIDE DEF before, after
    <3>2. after.stages = before.stages \o more.stages /\ after.next = more.next
      BY <3>1, ThenIs, Zenon
    <3>3. QED
      BY <3>2 DEF before, after
  <2>7. g[i - 1].next = c
    <3> DEFINE v == u[i - 1].stages
    <3>1. IsVector(v) /\ g[i - 1] = Plus(b, v, c)
      BY <2>2, <2>4
    <3> HIDE DEF v
    <3>2. Plus(b, v, c).next = c
      BY <2>4, <3>1, PlusBuilt
    <3>3. QED
      BY <3>1, <3>2
  <2>8. g[i] = Plus(g[i - 1], more.stages, more.next)
    <3>1. IsVector(more.stages)
      BY <2>5, Zenon DEF Typed
    <3>2. QED
      BY <2>2, <2>4, <2>6, <3>1, PlusTwice
  <2>9. Takes(rules, as, s[i], StagesIn(w), g[i - 1], g[i])
    <3>1. t[i] = Place(s[i].node, StagesIn(w), s[i].path)
      BY <1>3
    <3>2. more = StagesAt(rules, as)[k][<<t[i], g[i - 1].next>>]
      BY <2>7 DEF more
    <3>3. s[i].op = "visit"
      BY <1>2 DEF N
    <3>4. QED
      BY <2>1, <2>3, <2>8, <3>1, <3>2, <3>3, Zenon DEF Takes
  <2>10. QED
    BY <2>9
<1>10. Leads(rules, as, w, g[N], d)
  <2>1. N \in 0 .. N
    BY <1>3
  <2>2. QED
    BY <1>7, <2>1
<1> HIDE DEF g
<1>11. Leads(rules, as, s \o w, g[0], d)
  <2>1. \A i \in 1 .. Len(s) : s[i].op = "visit"
    BY <1>2 DEF N
  <2>2. \A i \in 1 .. Len(s) : Takes(rules, as, s[i], StagesIn(w), g[i - 1], g[i])
    BY <1>9 DEF N
  <2>3. Leads(rules, as, w, g[Len(s)], d)
    BY <1>10 DEF N
  <2>4. QED
    BY <1>2, <2>1, <2>2, <2>3, LeadsPut
<1>12. QED
  BY <1>8, <1>11 DEF s

\* A visit of place p that makes c of b.
Visited(rules, as, p, b, c, l, u) ==
  LET below == u[Len(NextPlaces(p))]
      more  == StageOf(p, as, b.next, below)
  IN /\ p \in PlacesAt(rules)[Nesting - l] /\ Follow(rules, as, l, p, b.next, u)
     /\ Typed(below) /\ c = Plus(b, more.stages, more.next)

LEMMA VisitFollows ==
  ASSUME NEW rules \in Programs, NEW as, NEW a \in WorkItem, a.op = "visit", NEW above,
         NEW b, IsBuilt(b), NEW c, Takes(rules, as, a, above, b, c)
  PROVE  \E l \in 0 .. Nesting : \E u :
           Visited(rules, as, Place(a.node, above, a.path), b, c, l, u)
<1> DEFINE p == Place(a.node, above, a.path)
<1>1. PICK l \in 0 .. Nesting :
        /\ p \in PlacesAt(rules)[Nesting - l]
        /\ LET more == StagesAt(rules, as)[l][<<p, b.next>>]
           IN c = Plus(b, more.stages, more.next)
  BY DEF Takes
<1> HIDE DEF p
<1>2. b.next \in Nat
  BY DEF IsBuilt
<1>3. PICK u : Follow(rules, as, l, p, b.next, u)
  BY <1>1, <1>2, FollowExists
<1>4. l # 0 => LevelTyped(rules, as, l - 1)
  <2>1. l # 0 => l - 1 \in 0 .. Nesting
    BY NestingAssumption
  <2>2. QED
    BY <2>1, StagesTyped
<1> DEFINE n == Len(NextPlaces(p))
<1>5. \A i \in 0 .. n : Typed(u[i])
  BY <1>1, <1>2, <1>3, <1>4, FollowTyped
<1>6. n \in Nat
  <2>1. PlaceTyped(p)
    BY <1>1, LevelIn, PlaceIs
  <2>2. QED
    BY <2>1, NextPlacesIn
<1>7. StagesAt(rules, as)[l][<<p, b.next>>] = StageOf(p, as, b.next, u[n])
  BY <1>3 DEF Follow
<1> HIDE DEF n
<1>8. Typed(u[n])
  BY <1>5, <1>6
<1>9. Visited(rules, as, p, b, c, l, u)
  BY <1>1, <1>3, <1>7, <1>8 DEF n, Visited
<1>10. QED
  BY <1>9 DEF p

\* The program and the branches below the outermost ones add nothing.
LEMMA LeadsDescend ==
  ASSUME NEW rules \in Programs, NEW as, NEW a \in WorkItem, a.op = "visit",
         a.node.kind \in Inner, NEW t \in Seq(WorkItem), NEW b, IsBuilt(b), NEW c,
         Takes(rules, as, a, StagesIn(t), b, c), NEW d, Leads(rules, as, t, c, d)
  PROVE  Leads(rules, as, Successors(a.node, a.path) \o t, b, d)
<1> DEFINE p == Place(a.node, StagesIn(t), a.path)
<1>1. p.node = a.node /\ p.path = a.path /\ p.above = StagesIn(t)
  BY DEF Place
<1>20. PICK l \in 0 .. Nesting : \E u : Visited(rules, as, p, b, c, l, u)
  BY VisitFollows
<1>21. PICK u : Visited(rules, as, p, b, c, l, u)
  BY <1>20
<1>2. LET below == u[Len(NextPlaces(p))]
          more  == StageOf(p, as, b.next, below)
      IN /\ p \in PlacesAt(rules)[Nesting - l] /\ Follow(rules, as, l, p, b.next, u)
         /\ Typed(below) /\ c = Plus(b, more.stages, more.next)
  BY <1>21 DEF Visited
<1> HIDE DEF p
<1> DEFINE below == u[Len(NextPlaces(p))]
<1>3. StageOf(p, as, b.next, below) = below
  BY <1>1 DEF StageOf, Inner
<1>4. Leads(rules, as, t, Plus(b, below.stages, below.next), d)
  BY <1>2, <1>3
<1>5. StagesIn(t) = IF p.node.kind \in Inner THEN p.above ELSE p.above \cup {p.node}
  BY <1>1
<1>6. Leads(rules, as, Successors(p.node, p.path) \o t, b, d)
  BY <1>2, <1>4, <1>5, LeadsBelow
<1>7. QED
  BY <1>1, <1>6

\* A node that is left after what is below it: on is what is built on when it is visited.
LEMMA LeadsEnter ==
  ASSUME NEW rules \in Programs, NEW as, NEW a \in WorkItem, a.op = "visit",
         NEW t \in Seq(WorkItem), NEW b, IsBuilt(b), NEW c,
         Takes(rules, as, a, StagesIn(t), b, c), NEW d, Leads(rules, as, t, c, d),
         NEW on, IsBuilt(on), on.next = b.next,
         \A below : Typed(below) =>
           LET p    == Place(a.node, StagesIn(t), a.path)
               more == StageOf(p, as, b.next, below)
           IN Left(as, Item("leave", a.node, a.path), StagesIn(t),
                   Plus(on, below.stages, below.next))
                = Plus(b, more.stages, more.next)
  PROVE  Leads(rules, as, Successors(a.node, a.path)
                            \o <<Item("leave", a.node, a.path)>> \o t, on, d)
<1> DEFINE p == Place(a.node, StagesIn(t), a.path)
           leave == Item("leave", a.node, a.path)
           w == <<leave>> \o t
           s == Successors(a.node, a.path)
<1>1. p.node = a.node /\ p.path = a.path /\ p.above = StagesIn(t)
  BY DEF Place
<1>20. PICK l \in 0 .. Nesting : \E u : Visited(rules, as, p, b, c, l, u)
  BY VisitFollows
<1>21. PICK u : Visited(rules, as, p, b, c, l, u)
  BY <1>20
<1>2. LET below == u[Len(NextPlaces(p))]
          more  == StageOf(p, as, b.next, below)
      IN /\ p \in PlacesAt(rules)[Nesting - l] /\ Follow(rules, as, l, p, b.next, u)
         /\ Typed(below) /\ c = Plus(b, more.stages, more.next)
  BY <1>21 DEF Visited
<1> DEFINE below == u[Len(NextPlaces(p))]
           e == Plus(on, below.stages, below.next)
<1>3. leave \in WorkItem /\ leave.op = "leave" /\ leave.node = a.node
  BY ItemIs DEF Item, WorkItem
<1>4. Left(as, leave, StagesIn(t), e) = c
  BY <1>2
<1>5. Takes(rules, as, leave, StagesIn(t), e, c)
  BY <1>3, <1>4 DEF Takes
<1>6. s \in Seq(WorkItem)
  <2>1. PlaceTyped(p)
    BY <1>2, LevelIn, PlaceIs
  <2>2. QED
    BY <1>1, <2>1, SuccessorsAre DEF PlaceTyped
<1> HIDE DEF p, leave, s, e
<1>7. Leads(rules, as, w, e, d)
  BY <1>3, <1>5, LeadsOne
<1>8. Leaves(w) = Leaves(t) \cup {a.node}
  BY <1>3, LeavesPut
<1>9. w \in Seq(WorkItem) /\ s \o <<leave>> \o t = s \o w
  <2>1. <<leave>> \in Seq(WorkItem)
    BY <1>3
  <2>2. QED
    BY <1>6, <2>1, ConcatAssociative
<1>10. StagesIn(w) = IF p.node.kind \in Inner THEN p.above ELSE p.above \cup {p.node}
  BY <1>1, <1>8 DEF StagesIn
<1> HIDE DEF w
<1>11. Leads(rules, as, Successors(p.node, p.path) \o w, on, d)
  BY <1>2, <1>7, <1>10, <1>9, LeadsBelow DEF e
<1>12. QED
  BY <1>1, <1>9, <1>11 DEF s, leave

\* Groupers and windows add nothing, the others open a vector.
LEMMA LeadsStage ==
  ASSUME NEW rules \in Programs, NEW as, NEW a \in WorkItem, a.op = "visit",
         a.node.kind \in Returns("build"), NEW t \in Seq(WorkItem), NEW b, IsBuilt(b), NEW c,
         Takes(rules, as, a, StagesIn(t), b, c), NEW d, Leads(rules, as, t, c, d)
  PROVE  Leads(rules, as, Successors(a.node, a.path)
                            \o <<Item("leave", a.node, a.path)>> \o t,
               IF a.node.kind \in Owners THEN OpenOn(b) ELSE b, d)
<1> DEFINE p == Place(a.node, StagesIn(t), a.path)
           leave == Item("leave", a.node, a.path)
           kind == a.node.kind
           on == IF kind \in Owners THEN OpenOn(b) ELSE b
<1>1. p.node = a.node /\ leave.node = a.node /\ leave.path = a.path
  BY DEF Place, Item
<1>2. IsBuilt(on) /\ on.next = b.next
  BY OpenAndClose
<1>3. ASSUME NEW below, Typed(below)
      PROVE  LET x == StageOf(p, as, b.next, below)
             IN Left(as, leave, StagesIn(t), Plus(on, below.stages, below.next))
                  = Plus(b, x.stages, x.next)
  <2> DEFINE more == StageOf(p, as, b.next, below)
             e == Plus(on, below.stages, below.next)
             options == OptionsOf(p, as)
  <2>1. Place(leave.node, StagesIn(t), leave.path) = p
    BY <1>1
  <2>2. IsVector(below.stages)
    BY <1>3 DEF Typed
  <2>3. ASSUME kind \in Owners
        PROVE  Top(e) = below.stages /\ \A x : CloseOn(e, x) = Plus(b, x, below.next)
    BY <2>2, <2>3, OpenAndClose
  <2> HIDE DEF p, leave, e, on
  <2>4. CASE kind = "main"
    <3>1. Left(as, leave, StagesIn(t), e) = CloseOn(e, Top(e))
      BY <1>1, <2>4 DEF Left
    <3>2. more = below
      BY <1>1, <2>4 DEF StageOf
    <3>3. Left(as, leave, StagesIn(t), e) = Plus(b, more.stages, more.next)
      BY <2>3, <2>4, <3>1, <3>2 DEF Owners
    <3>4. QED
      BY <3>3 DEF e
  <2>5. CASE kind = "aggregator"
    <3>1. Left(as, leave, StagesIn(t), e)
            = CloseOn(e, <<Built("aggregator", options, None, Top(e))>>)
      BY <1>1, <2>1, <2>5 DEF Left
    <3>2. more = Numbered(<<Built("aggregator", options, None, below.stages)>>, below.next)
      BY <1>1, <2>5 DEF StageOf
    <3> DEFINE y == Built("aggregator", options, None, below.stages)
    <3> HIDE DEF more, options
    <3>3. more.stages = <<y>> /\ more.next = below.next
      <4>1. more = Numbered(<<y>>, below.next)
        BY <3>2
      <4> HIDE DEF y
      <4>2. QED
        BY <4>1 DEF Numbered
    <3>4. Left(as, leave, StagesIn(t), e) = Plus(b, more.stages, more.next)
      <4>1. Top(e) = below.stages /\ \A x : CloseOn(e, x) = Plus(b, x, below.next)
        BY <2>5, <2>3 DEF Owners
      <4>2. Left(as, leave, StagesIn(t), e) = CloseOn(e, <<y>>)
        BY <3>1, <4>1
      <4> HIDE DEF y
      <4>3. QED
        BY <3>3, <4>1, <4>2
    <3>5. QED
      BY <3>4 DEF e, more
  <2>6. CASE kind \in {"filter", "group-filter"}
    <3>1. Left(as, leave, StagesIn(t), e)
            = CloseOn(e, <<Built("filter", options, None, Top(e))>>)
      BY <1>1, <2>1, <2>6 DEF Left
    <3>2. more = Numbered(<<Built("filter", options, None, below.stages)>>, below.next)
      BY <1>1, <2>6 DEF StageOf
    <3> DEFINE y == Built("filter", options, None, below.stages)
    <3> HIDE DEF more, options
    <3>3. more.stages = <<y>> /\ more.next = below.next
      <4>1. more = Numbered(<<y>>, below.next)
        BY <3>2
      <4> HIDE DEF y
      <4>2. QED
        BY <4>1 DEF Numbered
    <3>4. Left(as, leave, StagesIn(t), e) = Plus(b, more.stages, more.next)
      <4>1. Top(e) = below.stages /\ \A x : CloseOn(e, x) = Plus(b, x, below.next)
        BY <2>6, <2>3 DEF Owners
      <4>2. Left(as, leave, StagesIn(t), e) = CloseOn(e, <<y>>)
        BY <3>1, <4>1
      <4> HIDE DEF y
      <4>3. QED
        BY <3>3, <4>1, <4>2
    <3>5. QED
      BY <3>4 DEF e, more
  <2>7. CASE kind \in {"grouper", "window"}
    <3>1. Left(as, leave, StagesIn(t), e) = e
      BY <1>1, <2>7 DEF Left
    <3>2. more = below
      BY <1>1, <2>7 DEF StageOf
    <3>3. on = b
      BY <2>7 DEF Owners, on
    <3>4. QED
      BY <3>1, <3>2, <3>3 DEF e
  <2>8. kind \in {"main", "filter", "grouper", "window", "aggregator", "group-filter"}
    BY DEF Returns
  <2>9. Left(as, leave, StagesIn(t), e) = Plus(b, more.stages, more.next)
    BY <2>4, <2>5, <2>6, <2>7, <2>8 DEF e
  <2>10. QED
    BY <2>9 DEF e
<1> HIDE DEF on
<1>4. Leads(rules, as, Successors(a.node, a.path) \o <<leave>> \o t, on, d)
  BY <1>2, <1>3, LeadsEnter
<1>5. QED
  BY <1>4 DEF on

\* A selector is built at once.
LEMMA LeadsSelector ==
  ASSUME NEW rules \in Programs, NEW as, NEW a \in WorkItem, a.op = "visit",
         a.node.kind = "selector", NEW above, NEW b, IsBuilt(b), NEW c,
         Takes(rules, as, a, above, b, c)
  PROVE  LET options == OptionsOf(Place(a.node, above, a.path), as)
         IN c = Plus(b, <<Built("selector", options, b.next, <<>>)>>, b.next + 1)
<1> DEFINE p == Place(a.node, above, a.path)
           y == Built("selector", OptionsOf(p, as), b.next, <<>>)
<1>1. p.node = a.node
  BY DEF Place
<1>20. PICK l \in 0 .. Nesting : \E u : Visited(rules, as, p, b, c, l, u)
  BY VisitFollows
<1>21. PICK u : Visited(rules, as, p, b, c, l, u)
  BY <1>20
<1> HIDE DEF p
<1> DEFINE more == StageOf(p, as, b.next, u[Len(NextPlaces(p))])
<1>2. c = Plus(b, more.stages, more.next)
  BY <1>21 DEF Visited
<1>3. more = Numbered(<<y>>, b.next + 1)
  BY <1>1 DEF StageOf
<1> HIDE DEF y, more
<1>4. more.stages = <<y>> /\ more.next = b.next + 1
  BY <1>3 DEF Numbered
<1>5. QED
  BY <1>2, <1>4 DEF y, p

-----------------------------------------------------------------------------
(* The options of the stages.                                              *)

\* The stages above what is left, seen from the place of the next item.
LEMMA OverFits ==
  ASSUME WorkInv, work # <<>>, NEW k, k \notin Inner,
         next.op = "leave" => next.node.kind # k, NEW p, p.above = StagesIn(Tail(work)), NEW x
  PROVE  BodyOver(p, k, x) = BodyAbove(k, x)
<1>1. EnteredIn(work) = IF next.op = "leave" THEN EnteredIn(Tail(work)) \cup {next}
                        ELSE EnteredIn(Tail(work))
  <2>1. next.op = "visit" \/ next.op = "leave"
    BY NextItem, ItemIs
  <2>2. WorkOK(work, pass)
    BY DEF WorkInv
  <2>3. QED
    BY <2>1, <2>2, LeaveWork DEF next
<1>2. Entered = EnteredIn(work)
  BY DEF Entered, EnteredIn
<1>3. EnteredOf(k) = {item \in EnteredIn(Tail(work)) : item.node.kind = k}
  BY <1>1, <1>2 DEF EnteredOf
<1>4. p.above = {n \in {item.node : item \in EnteredIn(Tail(work))} : n.kind \notin Inner}
  BY DEF StagesIn, Leaves
<1>5. BodiesAbove(p, k) = BodiesOf(k)
  BY <1>3, <1>4 DEF BodiesAbove, BodiesOf
<1>6. Has(p, k) <=> EnteredOf(k) # {}
  BY <1>3, <1>4 DEF Has, KindsAbove
<1>7. CASE EnteredOf(k) = {}
  BY <1>6, <1>7 DEF BodyOver, BodyAbove
<1>8. CASE EnteredOf(k) # {}
  <2>1. BodiesAbove(p, k) = {BodyAbove(k, x)}
    BY <1>5, <1>8, BodiesAre
  <2>2. QED
    BY <1>6, <1>8, <2>1 DEF BodyOver
<1>9. QED
  BY <1>7, <1>8

LEMMA AggregatorOptions ==
  ASSUME WorkInv, work # <<>>, BuildNotes, next.op = "leave", next.node.kind = "aggregator"
  PROVE  OptionsOf(Place(next.node, StagesIn(Tail(work)), next.path), vars)
           = [keys |-> opt.gro,
              window |-> set_timeout(IF opt.win = None THEN get_max_window ELSE opt.win),
              functions |-> Functions(next.node.body)]
<1> DEFINE p == Place(next.node, StagesIn(Tail(work)), next.path)
<1>1. p.node = next.node /\ p.above = StagesIn(Tail(work))
  BY DEF Place
<1> HIDE DEF p
<1>2. BodyOver(p, "grouper", <<>>) = KeysAbove
        /\ BodyOver(p, "window", None) = BodyAbove("window", None)
  BY <1>1, OverFits DEF KeysAbove, Inner
<1>3. opt.gro = KeysAbove /\ opt.win = BodyAbove("window", None)
  BY DEF BuildNotes
<1>4. QED
  BY <1>1, <1>2, <1>3 DEF OptionsOf, p

\* The options of the other stages, as the Builder computes them.
LEMMA OtherStageOptions ==
  ASSUME NEW n, NEW above, NEW q, NEW as
  PROVE  LET options == OptionsOf(Place(n, above, q), as) IN
         /\ n.kind = "filter" => options = n.body
         /\ n.kind = "group-filter" =>
              options = apply_aliases(n.body, get_vars(as.gf, q), replace_in_group_filter)
         /\ n.kind = "selector" =>
              options = apply_aliases(sel_opt(n.body), get_vars(as.sel, q), replace_in_selector)
<1> DEFINE p == Place(n, above, q)
<1>1. p.node = n /\ p.path = q
  BY DEF Place
<1> HIDE DEF p
<1>2. n.kind = "filter" => OptionsOf(p, as) = n.body
  BY <1>1 DEF OptionsOf
<1>3. n.kind = "group-filter" =>
        OptionsOf(p, as) = apply_aliases(n.body, get_vars(as.gf, q), replace_in_group_filter)
  BY <1>1 DEF OptionsOf
<1>4. n.kind = "selector" =>
        OptionsOf(p, as) = apply_aliases(sel_opt(n.body), get_vars(as.sel, q), replace_in_selector)
  BY <1>1 DEF OptionsOf
<1>5. QED
  BY <1>2, <1>3, <1>4 DEF p

-----------------------------------------------------------------------------
(* What the Builder has built, and what it will have built in the end.     *)

Now == Held(Cardinality(Opened), b_stack, root, counter)

Goal(rules, as) ==
  LET built == PipelinesOf(rules, as)
  IN Plus(Held(0, <<>>, <<>>, 0), built.stages, built.next)

\* What is left to visit and to leave makes what is to be built of what has been built.
BuiltInv ==
  /\ IsVector(root)
  /\ pass \notin {"build", "done"} => root = <<>> /\ counter = 0
  /\ pass = "build" => Leads(ast, vars, work, Now, Goal(ast, vars))
  /\ BuiltPlaceByPlace

LEMMA PipelinesTyped ==
  ASSUME NEW rules \in Programs, NEW as
  PROVE  Typed(PipelinesOf(rules, as))
<1> DEFINE start == Place(rules, {}, <<>>)
<1>1. Nesting \in 0 .. Nesting /\ Nesting - Nesting = 0
  BY NestingAssumption
<1>2. start \in PlacesAt(rules)[Nesting - Nesting]
  BY <1>1, Levels
<1>3. LevelTyped(rules, as, Nesting)
  BY <1>1, StagesTyped
<1> HIDE DEF start
<1>4. 0 \in Nat
  OBVIOUS
<1>5. Typed(StagesAt(rules, as)[Nesting][<<start, 0>>])
  BY <1>2, <1>3, <1>4 DEF LevelTyped
<1>6. QED
  BY <1>5 DEF PipelinesOf, start

\* Before the Builder takes its first step.
LEMMA LeadsStart ==
  ASSUME NEW rules \in Programs, NEW as, NEW stack
  PROVE  Leads(rules, as, <<Item("visit", rules, <<>>)>>, Held(0, stack, <<>>, 0),
               Goal(rules, as))
<1> DEFINE a == Item("visit", rules, <<>>)
           zero == Held(0, <<>>, <<>>, 0)
           start == Place(rules, {}, <<>>)
           built == PipelinesOf(rules, as)
<1>1. Held(0, stack, <<>>, 0) = zero
  BY DEF Held
<1>2. rules \in Nodes
  BY GrammarAssumption
<1>3. a \in WorkItem /\ a.op = "visit" /\ a.node = rules /\ a.path = <<>>
  BY <1>2 DEF Item, WorkItem
<1>4. StagesIn(<<>>) = {}
  BY DEF StagesIn, Leaves, EnteredIn, ToSet
<1>5. Nesting \in 0 .. Nesting /\ Nesting - Nesting = 0
  BY NestingAssumption
<1>6. start \in PlacesAt(rules)[Nesting - Nesting]
  BY <1>5, Levels
<1>7. zero.next = 0
  BY DEF Held
<1>8. Place(a.node, StagesIn(<<>>), a.path) = start
  BY <1>3, <1>4
<1>9. built = StagesAt(rules, as)[Nesting][<<start, 0>>]
  BY DEF PipelinesOf
<1>10. Goal(rules, as) = Plus(zero, built.stages, built.next)
  BY DEF Goal
<1> HIDE DEF a, zero, start, built
<1>11. Takes(rules, as, a, StagesIn(<<>>), zero, Goal(rules, as))
  BY <1>3, <1>5, <1>6, <1>7, <1>8, <1>9, <1>10 DEF Takes
<1>12. Leads(rules, as, <<>>, Goal(rules, as), Goal(rules, as))
  <2> DEFINE f == [i \in {0} |-> Goal(rules, as)]
  <2>1. f[0] = Goal(rules, as) /\ Len(<<>>) = 0 /\ 1 .. 0 = {}
    OBVIOUS
  <2> HIDE DEF f
  <2>2. QED
    BY <2>1 DEF Leads, Trace
<1>13. Leads(rules, as, <<a>> \o <<>>, zero, Goal(rules, as))
  <2>1. <<>> \in Seq(WorkItem)
    OBVIOUS
  <2>2. QED
    BY <1>3, <1>11, <1>12, <2>1, LeadsOne
<1>14. <<a>> \o <<>> = <<a>>
  BY <1>3
<1>15. QED
  BY <1>1, <1>13, <1>14 DEF a, zero

\* When nothing is left to do.
LEMMA LeadsEnd ==
  ASSUME NEW rules \in Programs, NEW as, NEW stack, NEW pipes, NEW c,
         Leads(rules, as, <<>>, Held(0, stack, pipes, c), Goal(rules, as))
  PROVE  LET built == PipelinesOf(rules, as) IN pipes = built.stages /\ c = built.next
<1> DEFINE built == PipelinesOf(rules, as)
           h == Held(0, stack, pipes, c)
           zero == Held(0, <<>>, <<>>, 0)
<1>1. h = Goal(rules, as)
  BY LeadsEmpty
<1>2. Goal(rules, as) = Plus(zero, built.stages, built.next)
  BY DEF Goal
<1>3. 0 \in 0 .. 0
  OBVIOUS
<1>4. h.at[0] = pipes /\ h.next = c /\ zero.at[0] = <<>> /\ zero.open = 0
  BY <1>3 DEF Held
<1>5. IsVector(built.stages)
  BY PipelinesTyped DEF Typed
<1> HIDE DEF built, h, zero
<1> DEFINE g == Plus(zero, built.stages, built.next)
<1>6. g.at[0] = zero.at[0] \o built.stages /\ g.next = built.next
  BY <1>3, <1>4 DEF Plus
<1>7. <<>> \o built.stages = built.stages
  BY <1>5, ConcatVectors
<1>8. h = g
  BY <1>1, <1>2
<1> HIDE DEF g
<1>9. QED
  BY <1>4, <1>6, <1>7, <1>8 DEF built

\* A step of the Builder does what the next item stands for.
LEMMA BuiltSteps ==
  ASSUME WorkInv, BuildInv, BuiltInv, Build
  PROVE  BuiltInv'
<1> DEFINE kind == next.node.kind
           n == Cardinality(Opened)
           t == Tail(work)
           g == Goal(ast, vars)
<1>1. /\ pass = "build" /\ UNCHANGED walkVars /\ work # <<>>
      /\ UNCHANGED <<ast, pass, vars>>
  BY DEF Build, BuildProgram, unpack_main_branch, BuildStage, LeaveFilter, BuildGrouper,
         LeaveGrouper, BuildWindow, LeaveWindow, LeaveAggregatorStage, LeaveGroupFilter,
         BuildSelector, BuildRest, At, Active, walkVars
<1>2. /\ counter \in Nat /\ IsVector(root) /\ BuildNotes /\ TopVectors(b_stack, n)
      /\ Leads(ast, vars, work, Now, g)
  BY <1>1 DEF BuildInv, VectorsOpen, BuiltInv
<1>3. n \in Nat
  BY OpenedFinite
<1>4. Now = Held(n, b_stack, root, counter)
  BY DEF Now
<1>5. ast \in Programs /\ next \in WorkItem /\ work \in Seq(WorkItem) /\ t \in Seq(WorkItem)
  <2>1. ast \in Programs /\ work \in Seq(WorkItem)
    BY DEF WorkInv, WorkOK
  <2>2. QED
    BY <1>1, <2>1, NextItem
<1> HIDE DEF n, g
<1>6. IsBuilt(Now)
  BY <1>2, <1>4, HeldBuilt
<1>7. PICK c : /\ Takes(ast, vars, next, StagesIn(t), Now, c)
               /\ Leads(ast, vars, t, c, g)
  BY <1>1, <1>2, <1>5, LeadsRest DEF next
<1> HIDE DEF t
<1>8. ASSUME Leads(ast, vars, work', Now', g), IsVector(root')
      PROVE  BuiltInv'
  <2>1. g = Goal(ast, vars)' /\ ~ Accepted'
    BY <1>1 DEF g, Accepted
  <2>2. QED
    BY <1>1, <1>8, <2>1 DEF BuiltInv, BuiltPlaceByPlace
<1>9. ASSUME next.op = "visit", DescendAndLeave, kind \in Returns("build"),
             kind = "main" => Len(next.path) = 1, root' = root, counter' = counter,
             b_stack' = IF kind \in Owners THEN Append(b_stack, <<>>) ELSE b_stack
      PROVE  BuiltInv'
  <2>1. WorkInv' /\ Enter
    BY <1>1, <1>9, Enters
  <2>2. work' = Successors(next.node, next.path)
                \o <<Item("leave", next.node, next.path)>> \o t
    BY <1>9 DEF DescendAndLeave, next, path, t
  <2>3. Leads(ast, vars, work', IF kind \in Owners THEN OpenOn(Now) ELSE Now, g)
    BY <1>5, <1>6, <1>7, <1>9, <2>2, LeadsStage
  <2>4. Now' = IF kind \in Owners THEN OpenOn(Now) ELSE Now
    <3>1. CASE kind \in Owners
      <4>1. Cardinality(Opened') = n + 1
        BY <1>1, <2>1, <3>1, OpenedEnter DEF n
      <4>2. Now' = Held(n + 1, Append(b_stack, <<>>), root, counter)
        BY <1>9, <3>1, <4>1 DEF Now
      <4>3. QED
        BY <1>2, <1>4, <3>1, <4>2, HeldOpen
    <3>2. CASE kind \notin Owners
      <4>1. Opened' = Opened
        BY <1>1, <2>1, <3>2, OpenedEnter
      <4>2. QED
        BY <1>9, <3>2, <4>1 DEF Now
    <3>3. QED
      BY <3>1, <3>2
  <2>5. QED
    BY <1>2, <1>8, <1>9, <2>3, <2>4
\* Leaving the node: it is enough to have done what this stands for.
<1>10. ASSUME next.op = "leave", Skip, Now' = Left(vars, next, StagesIn(t), Now), IsVector(root')
       PROVE  BuiltInv'
  <2>1. c = Left(vars, next, StagesIn(t), Now)
    BY <1>7, <1>10 DEF Takes
  <2>2. work' = t
    BY <1>10 DEF Skip, t
  <2>3. QED
    BY <1>7, <1>8, <1>10, <2>1, <2>2
<1>11. ASSUME next.op = "leave", Skip, kind \in {"filter", "aggregator", "group-filter"},
              NEW stage, PopAndAdd(stage), root' = root, counter' = counter,
              Left(vars, next, StagesIn(t), Now) = CloseOn(Now, <<stage>>)
       PROVE  BuiltInv'
  <2>1. WorkInv' /\ Leave
    BY <1>1, <1>11, Skips
  <2>2. n >= 2 /\ Cardinality(Opened') = n - 1
    BY <1>1, <1>11, <2>1, OwnerLeft DEF n
  <2>3. b_stack' = Append(Front(Front(b_stack)), Append(Last(Front(b_stack)), stage))
    BY <1>11 DEF PopAndAdd
  <2>4. Now' = Held(n - 1, Append(Front(Front(b_stack)), Append(Last(Front(b_stack)), stage)),
                    root, counter)
    BY <1>11, <2>2, <2>3 DEF Now
  <2>5. Now' = CloseOn(Now, <<stage>>)
    BY <1>2, <1>4, <2>2, <2>4, HeldClose
  <2>6. QED
    BY <1>2, <1>10, <1>11, <2>5
\* The vector on top holds the successors of the stage that is left.
<1>12. n >= 1 => Top(Now) = Last(b_stack)
  <2>1. SUFFICES ASSUME n >= 1 PROVE Top(Now) = Last(b_stack)
    OBVIOUS
  <2>2. Now.open = n
        /\ Now.at = [i \in 0 .. n |-> IF i = 0 THEN root ELSE b_stack[Len(b_stack) - n + i]]
    BY <1>4 DEF Held
  <2>3. n \in 0 .. n /\ n # 0
    BY <1>3, <2>1
  <2>4. Len(b_stack) \in Nat
    BY <1>2 DEF TopVectors, IsVector
  <2>5. Len(b_stack) - n + n = Len(b_stack)
    BY <1>3, <2>4
  <2>6. QED
    BY <2>2, <2>3, <2>5 DEF Top, Last
<1>13. CASE BuildProgram
  <2>1. next.op = "visit" /\ kind \in Inner /\ root' = root /\ counter' = counter
    BY <1>13 DEF BuildProgram, next
  <2>2. CASE kind = "main" /\ Len(next.path) = 1
    <3>1. b_stack' = Append(b_stack, <<>>) /\ DescendAndLeave
      BY <1>13, <2>2 DEF BuildProgram, next, path
    <3>2. QED
      BY <1>9, <2>1, <2>2, <3>1 DEF Owners, Returns
  <2>3. CASE ~ (kind = "main" /\ Len(next.path) = 1)
    <3>1. b_stack' = b_stack /\ Descend
      BY <1>13, <2>3 DEF BuildProgram, next, path
    <3>2. WorkInv' /\ Stay
      BY <1>1, <2>1, <2>3, <3>1, Descends
    <3>3. Opened' = Opened
      BY <3>2 DEF Stay, Opened
    <3>4. Now' = Now
      BY <2>1, <3>1, <3>3 DEF Now
    <3>5. work' = Successors(next.node, next.path) \o t
      BY <3>1 DEF Descend, next, path, t
    <3>6. Leads(ast, vars, work', Now, g)
      BY <1>5, <1>6, <1>7, <2>1, <3>5, LeadsDescend
    <3>7. QED
      BY <1>2, <1>8, <2>1, <3>4, <3>6
  <2>4. QED
    BY <2>2, <2>3
<1>14. CASE unpack_main_branch
  <2>1. /\ next.op = "leave" /\ kind = "main" /\ Skip /\ counter' = counter
        /\ root' = root \o Last(b_stack)
    BY <1>14 DEF unpack_main_branch, At, next
  <2>2. WorkInv' /\ Leave
    BY <1>1, <2>1, Skips
  <2>3. Opened' = {} /\ n = Cardinality(Opened') + 1
    BY <1>1, <2>1, <2>2, OpenedLeave DEF Owners, n
  <2>4. Cardinality(Opened') = 0 /\ n = 1
    BY <2>3, FS_EmptySet
  <2>5. Now' = Held(0, b_stack', root \o Last(b_stack), counter)
    BY <2>1, <2>4 DEF Now
  <2>6. Top(Now) = Last(b_stack) /\ Now' = CloseOn(Now, Last(b_stack))
    BY <1>2, <1>4, <2>4, <2>5, HeldUnpack
  <2>7. Left(vars, next, StagesIn(t), Now) = CloseOn(Now, Top(Now))
    BY <2>1 DEF Left
  <2>8. IsVector(Last(b_stack))
    <3>1. Len(b_stack) \in Nat /\ 1 \in 0 .. Len(b_stack)
          /\ \A i \in Len(b_stack) - 1 + 1 .. Len(b_stack) : IsVector(b_stack[i])
      BY <1>2, <2>4 DEF TopVectors, IsVector
    <3>2. Len(b_stack) \in Len(b_stack) - 1 + 1 .. Len(b_stack)
      BY <3>1
    <3>3. QED
      BY <3>1, <3>2 DEF Last
  <2>9. IsVector(root')
    BY <1>2, <2>1, <2>8, ConcatVectors
  <2>10. QED
    BY <1>10, <2>1, <2>6, <2>7, <2>9
<1>15. CASE BuildStage
  <2>1. /\ next.op = "visit" /\ kind \in {"filter", "aggregator", "group-filter"}
        /\ DescendAndLeave /\ b_stack' = Append(b_stack, <<>>)
        /\ root' = root /\ counter' = counter
    BY <1>15 DEF BuildStage, At, next
  <2>2. QED
    BY <1>9, <2>1 DEF Owners, Returns
<1>16. CASE BuildGrouper \/ BuildWindow
  <2>1. /\ next.op = "visit" /\ kind \in {"grouper", "window"}
        /\ DescendAndLeave /\ b_stack' = b_stack
        /\ root' = root /\ counter' = counter
    BY <1>16 DEF BuildGrouper, BuildWindow, At, next
  <2>2. QED
    BY <1>9, <2>1 DEF Owners, Returns
<1>17. CASE LeaveGrouper \/ LeaveWindow
  <2>1. /\ next.op = "leave" /\ kind \in {"grouper", "window"} /\ Skip
        /\ b_stack' = b_stack /\ root' = root /\ counter' = counter
    BY <1>17 DEF LeaveGrouper, LeaveWindow, At, next
  <2>2. WorkInv' /\ Leave
    BY <1>1, <2>1, Skips
  <2>3. Opened' = Opened
    BY <1>1, <2>1, <2>2, OpenedLeave DEF Owners
  <2>4. Now' = Now
    BY <2>1, <2>3 DEF Now
  <2>5. Left(vars, next, StagesIn(t), Now) = Now
    BY <2>1 DEF Left
  <2>6. QED
    BY <1>2, <1>10, <2>1, <2>4, <2>5
<1>18. ASSUME next.op = "leave", Skip, kind \in {"filter", "aggregator", "group-filter"},
              NEW options,
              OptionsOf(Place(next.node, StagesIn(t), next.path), vars) = options,
              PopAndAdd(Built(IF kind = "aggregator" THEN "aggregator" ELSE "filter",
                              options, None, Last(b_stack))),
              root' = root, counter' = counter
       PROVE  BuiltInv'
  <2>1. WorkInv' /\ Leave
    BY <1>1, <1>18, Skips
  <2>2. n >= 2
    BY <1>1, <1>18, <2>1, OwnerLeft DEF n
  <2>3. Top(Now) = Last(b_stack)
    BY <1>3, <1>12, <2>2
  <2> DEFINE stage == Built(IF kind = "aggregator" THEN "aggregator" ELSE "filter",
                            options, None, Last(b_stack))
  <2>4. Left(vars, next, StagesIn(t), Now) = CloseOn(Now, <<stage>>)
    <3>1. CASE kind = "aggregator"
      BY <1>18, <2>3, <3>1 DEF Left
    <3>2. CASE kind \in {"filter", "group-filter"}
      BY <1>18, <2>3, <3>2 DEF Left
    <3>3. QED
      BY <1>18, <3>1, <3>2
  <2> HIDE DEF stage
  <2>5. PopAndAdd(stage)
    BY <1>18 DEF stage
  <2>6. QED
    BY <1>11, <1>18, <2>4, <2>5
<1>19. CASE LeaveFilter
  <2>1. /\ next.op = "leave" /\ kind = "filter" /\ Skip
        /\ PopAndAdd(Built("filter", next.node.body, None, Last(b_stack)))
        /\ root' = root /\ counter' = counter
    BY <1>19 DEF LeaveFilter, At, next, body
  <2>2. OptionsOf(Place(next.node, StagesIn(t), next.path), vars) = next.node.body
    BY <2>1, OtherStageOptions
  <2>3. QED
    BY <1>18, <2>1, <2>2
<1>20. CASE LeaveGroupFilter
  <2> DEFINE options == apply_aliases(next.node.body, get_vars(vars.gf, next.path),
                                      replace_in_group_filter)
  <2>1. /\ next.op = "leave" /\ kind = "group-filter" /\ Skip
        /\ PopAndAdd(Built("filter", options, None, Last(b_stack)))
        /\ root' = root /\ counter' = counter
    BY <1>20 DEF LeaveGroupFilter, At, next, body, path
  <2>2. OptionsOf(Place(next.node, StagesIn(t), next.path), vars) = options
    BY <2>1, OtherStageOptions
  <2> HIDE DEF options
  <2>3. QED
    BY <1>18, <2>1, <2>2
<1>21. CASE LeaveAggregatorStage
  <2> DEFINE options == [keys |-> opt.gro,
                         window |-> set_timeout(IF opt.win = None THEN get_max_window
                                                ELSE opt.win),
                         functions |-> Functions(next.node.body)]
  <2>1. /\ next.op = "leave" /\ kind = "aggregator" /\ Skip
        /\ PopAndAdd(Built("aggregator", options, None, Last(b_stack)))
        /\ root' = root /\ counter' = counter
    BY <1>21 DEF LeaveAggregatorStage, At, next, body
  <2>2. OptionsOf(Place(next.node, StagesIn(t), next.path), vars) = options
    BY <1>1, <1>2, <2>1, AggregatorOptions DEF t
  <2> HIDE DEF options
  <2>3. QED
    BY <1>18, <2>1, <2>2
<1>22. CASE BuildSelector
  <2> DEFINE options == apply_aliases(sel_opt(next.node.body), get_vars(vars.sel, next.path),
                                      replace_in_selector)
             stage == Built("selector", options, counter, <<>>)
  <2>1. /\ next.op = "visit" /\ kind = "selector" /\ Skip
        /\ root' = root /\ counter' = counter + 1
        /\ b_stack' = Append(Front(b_stack), Append(Last(b_stack), stage))
    BY <1>22 DEF BuildSelector, At, next, body, path
  <2>2. OptionsOf(Place(next.node, StagesIn(t), next.path), vars) = options
    BY <2>1, OtherStageOptions
  <2> HIDE DEF options
  <2>3. Now.next = counter
    BY <1>4 DEF Held
  <2>4. c = Plus(Now, <<stage>>, counter + 1)
    BY <1>5, <1>6, <1>7, <2>1, <2>2, <2>3, LeadsSelector
  <2> HIDE DEF stage
  <2>5. WorkInv' /\ Stay
    BY <1>1, <2>1, Skips
  <2>6. Opened' = Opened
    BY <2>5 DEF Stay, Opened
  <2>7. n >= 1
    <3>1. Deep(next) /\ ~ EndsMain(next)
      BY <2>1, DepthIs DEF Deep, EndsMain
    <3>2. "main" \in Opened
      BY <1>1, <3>1, MainOpened
    <3>3. n # 0
      BY <3>2, OpenedFinite, FS_EmptySet DEF n
    <3>4. QED
      BY <1>3, <3>3
  <2>8. Now' = Held(n, Append(Front(b_stack), Append(Last(b_stack), stage)), root, counter + 1)
    BY <2>1, <2>6 DEF Now, n
  <2>9. Now' = Plus(Now, <<stage>>, counter + 1)
    BY <1>2, <1>4, <2>7, <2>8, HeldPlus
  <2>10. work' = t
    BY <2>1 DEF Skip, t
  <2>11. QED
    BY <1>2, <1>7, <1>8, <2>1, <2>4, <2>9, <2>10
<1>23. QED
  BY <1>13, <1>14, <1>15, <1>16, <1>17, <1>19, <1>20, <1>21, <1>22 DEF Build

LEMMA BuiltInit ==
  ASSUME Init
  PROVE  BuiltInv
<1>1. root = <<>> /\ counter = 0 /\ pass = "parse"
  BY DEF Init
<1>2. QED
  BY <1>1, EmptyVector DEF BuiltInv, BuiltPlaceByPlace, Accepted

\* The Builder starts with the whole program, and has finished when nothing is left.
LEMMA BuiltNext ==
  ASSUME Inv, BuiltInv, [Next]_allVars
  PROVE  BuiltInv'
<1>1. CASE NextPass
  <2>1. work = <<>> /\ UNCHANGED <<ast, vars, root, counter>>
    BY <1>1 DEF NextPass, buildVars
  <2>2. CASE pass # "build"
    <3>1. pass' \notin {"build", "done"} /\ pass \notin {"build", "done"}
      BY <1>1, <2>2, PassOrder
    <3>2. QED
      BY <2>1, <3>1 DEF BuiltInv, BuiltPlaceByPlace, Accepted
  <2>3. CASE pass = "build"
    <3>1. pass' = "done"
      BY <1>1, <2>3, PassOrder
    <3>2. Entered = {}
      BY <2>1 DEF Entered, ToSet
    <3>3. Opened = {}
      BY <3>2 DEF Opened
    <3>4. Cardinality(Opened) = 0
      BY <3>3, FS_EmptySet
    <3>5. Leads(ast, vars, <<>>, Held(0, b_stack, root, counter), Goal(ast, vars))
      BY <2>1, <2>3, <3>4 DEF BuiltInv, Now
    <3>6. ast \in Programs
      BY DEF Inv, WorkInv
    <3>7. LET built == PipelinesOf(ast, vars) IN root = built.stages /\ counter = built.next
      BY <3>5, <3>6, LeadsEnd
    <3>8. BuiltPlaceByPlace'
      BY <2>1, <3>7 DEF BuiltPlaceByPlace
    <3>9. QED
      BY <2>1, <3>1, <3>8 DEF BuiltInv
  <2>4. QED
    BY <2>2, <2>3
<1>2. CASE check_inter_repr
  <2>1. /\ pass = "inter" /\ pass' = "build" /\ work' = <<Item("visit", ast, <<>>)>>
        /\ UNCHANGED <<ast, vars, b_stack, root, counter>>
    BY <1>2 DEF check_inter_repr, buildVars
  <2>2. ast \in Programs /\ Entered = {} /\ Stay
    BY <1>2, Starts DEF Inv, WorkInv
  <2>3. Opened' = {}
    BY <2>2 DEF Opened, Stay
  <2>4. Cardinality(Opened') = 0
    BY <2>3, FS_EmptySet
  <2>5. root = <<>> /\ counter = 0
    BY <2>1 DEF BuiltInv
  <2>6. Now' = Held(0, b_stack, <<>>, 0)
    BY <2>1, <2>4, <2>5 DEF Now
  <2>7. Leads(ast, vars, work', Now', Goal(ast, vars))
    BY <2>1, <2>2, <2>6, LeadsStart
  <2>8. (pass = "build" => Leads(ast, vars, work, Now, Goal(ast, vars)))'
    BY <2>1, <2>7
  <2>9. QED
    BY <2>1, <2>5, <2>8, EmptyVector DEF BuiltInv, BuiltPlaceByPlace, Accepted
<1>3. CASE Parse \/ Check \/ Alias
  <2>1. CASE Parse
    <3>1. pass = "parse" /\ UNCHANGED <<pass, buildVars>>
      BY <2>1, ParseSteps DEF Inv
    <3>2. QED
      BY <3>1 DEF buildVars, BuiltInv, BuiltPlaceByPlace, Accepted
  <2>2. CASE Check
    <3>1. pass = "check" /\ UNCHANGED <<pass, buildVars>>
      BY <2>2 DEF Check, CheckInner, CheckFilter, CheckGrouper, CheckWindow, CheckAggregator,
                  CheckGroupFilter, CheckSelector, CheckLeave, CheckRest, At, Active, walkVars
    <3>2. QED
      BY <3>1 DEF buildVars, BuiltInv, BuiltPlaceByPlace, Accepted
  <2>3. CASE Alias
    <3>1. pass = "alias" /\ UNCHANGED <<pass, buildVars>>
      BY <2>3 DEF Alias, AliasAggregator, LeaveAggregator, AliasGroupFilter, AliasSelector,
                  AliasOther, AliasRest, At, Active, walkVars
    <3>2. QED
      BY <3>1 DEF buildVars, BuiltInv, BuiltPlaceByPlace, Accepted
  <2>4. QED
    BY <1>3, <2>1, <2>2, <2>3
<1>4. CASE Build
  BY <1>4, BuiltSteps DEF Inv
<1>5. CASE UNCHANGED allVars
  <2>1. UNCHANGED <<ast, pass, work, vars, b_stack, root, counter>>
    BY <1>5 DEF allVars
  <2>2. Now' = Now /\ Goal(ast, vars)' = Goal(ast, vars)
    BY <2>1 DEF Now, Opened, Entered
  <2>3. BuiltPlaceByPlace' <=> BuiltPlaceByPlace
    BY <2>1 DEF BuiltPlaceByPlace, Accepted
  <2>4. QED
    BY <2>1, <2>2, <2>3 DEF BuiltInv
<1>6. QED
  BY <1>1, <1>2, <1>3, <1>4, <1>5 DEF Next

-----------------------------------------------------------------------------
(* The theorems.                                                           *)

\* The state is typed, and a visitor that has finished has left nothing in its
\* members (parsing/ast/*.h, backend/builder.h).
THEOREM TypeCorrect == Spec => []TypeOK
<1>1. Inv => TypeOK
  <2>1. ASSUME Inv PROVE TypeOK
    <3>1. pass \in ToSet(Passes) /\ error \in BOOLEAN /\ counter \in Nat
      BY <2>1 DEF Inv, WorkInv, BuildInv
    <3>2. aggr = None \/ aggr \in DOMAIN vars.agg
      BY <2>1 DEF Inv, AliasInv
    <3>3. ASSUME work = <<>>
          PROVE  check = NoNotes /\ opt = [gro |-> <<>>, win |-> None] /\ aggr = None
      <4>1. Entered = {}
        BY <3>3 DEF Entered, ToSet
      <4>2. QED
        BY <2>1, <4>1, NothingEntered
    <3>4. QED
      BY <3>1, <3>2, <3>3 DEF TypeOK, NoNotes
  <2>2. QED
    BY <2>1
<1>2. QED
  BY <1>1, Invariant, PTL

\* In every branch the members of the visitors hold what the stages above say:
\* the checkers compare with the keys and functions of this path, the selector is
\* given the aliases of the aggregator above it, and the Builder gives the aggregator
\* its own keys and window (parsing/ast/ast_check_*.cpp, ast_alias4variables.cpp,
\* backend/builder.cpp).
THEOREM NotesOfPathTheorem == Spec => []NotesOfPath
<1>1. Inv => NotesOfPath
  BY DEF Inv, CheckInv, AliasInv, BuildInv, NotesOfPath
<1>2. QED
  BY <1>1, Invariant, PTL

\* The Builder never reads or adds a stage to a vector that it has deleted, or that
\* does not exist, provided that the value that stands for a deleted vector is no
\* sequence (backend/builder.cpp).
THEOREM VectorsInUseTheorem ==
  ASSUME \A S : None \notin Seq(S)
  PROVE  Spec => []VectorsInUse
<1>1. ASSUME Inv, pass = "build", work # <<>>
      PROVE  LET op   == next.op
                 kind == next.node.kind
                 used == CASE op = "visit" /\ kind = "selector" -> 1
                           [] op = "leave" /\ kind = "main"     -> 1
                           [] op = "leave" /\ kind \in {"filter", "aggregator", "group-filter"} -> 2
                           [] OTHER -> 0
             IN used <= Len(b_stack) /\ \A i \in 0 .. used - 1 : b_stack[Len(b_stack) - i] # None
  <2> DEFINE op   == next.op
             kind == next.node.kind
             used == CASE op = "visit" /\ kind = "selector" -> 1
                       [] op = "leave" /\ kind = "main"     -> 1
                       [] op = "leave" /\ kind \in {"filter", "aggregator", "group-filter"} -> 2
                       [] OTHER -> 0
             n == Cardinality(Opened)
             l == Len(b_stack)
  <2>1. WorkInv /\ TopVectors(b_stack, n)
    BY <1>1 DEF Inv, BuildInv, VectorsOpen
  <2> DEFINE deep  == op = "visit" /\ kind = "selector"
             main  == op = "leave" /\ kind = "main"
             stage == op = "leave" /\ kind \in {"filter", "aggregator", "group-filter"}
  <2>2. /\ used \in {0, 1, 2}
        /\ used = 1 => deep \/ main
        /\ used = 2 => stage
    OBVIOUS
  <2>3. l \in Nat /\ n \in 0 .. l /\ \A i \in l - n + 1 .. l : IsVector(b_stack[i])
    BY <2>1 DEF TopVectors, IsVector
  <2>4. deep \/ main => n >= 1
    <3>1. deep => Opened # {}
      BY <1>1, <2>1, MainOpened, DepthIs DEF Deep, EndsMain
    <3>2. main => Opened # {}
      BY <1>1, <2>1, NextEntered DEF Opened, Owners
    <3>3. Opened # {} => n >= 1
      BY OpenedFinite, FS_EmptySet
    <3>4. QED
      BY <3>1, <3>2, <3>3
  <2>5. stage => n >= 2
    <3>1. SUFFICES ASSUME stage PROVE n >= 2
      OBVIOUS
    <3>2. next \in Entered
      BY <1>1, <2>1, <3>1, NextEntered
    <3>3. "main" \in Opened
      BY <1>1, <2>1, <3>1, MainOpened, DepthIs DEF Deep, EndsMain
    <3>4. {kind} \cup {"main"} \subseteq Opened
      BY <3>1, <3>2, <3>3 DEF Opened, Owners
    <3>5. kind # "main"
      BY <3>1
    <3> HIDE DEF kind, n
    <3>6. Cardinality({kind} \cup {"main"}) = 2
      <4>1. IsFiniteSet({kind}) /\ Cardinality({kind}) = 1
        BY FS_Singleton
      <4>2. "main" \notin {kind}
        BY <3>5
      <4>3. QED
        BY <4>1, <4>2, FS_AddElement
    <3>7. Cardinality(Opened) >= 2
      <4>1. Cardinality({kind} \cup {"main"}) <= Cardinality(Opened)
        BY <3>4, OpenedFinite, FS_Subset
      <4>2. QED
        BY <3>6, <4>1, OpenedFinite
    <3>8. QED
      BY <3>7 DEF n
  <2> HIDE DEF used, n, l, deep, main, stage
  <2>6. used <= l
    BY <2>2, <2>3, <2>4, <2>5
  <2>7. ASSUME NEW i \in 0 .. used - 1 PROVE b_stack[l - i] # None
    <3>1. l - i \in l - n + 1 .. l
      BY <2>2, <2>3, <2>4, <2>5
    <3>2. IsVector(b_stack[l - i])
      BY <2>3, <3>1
    <3>3. QED
      BY <3>2 DEF IsVector
  <2>8. QED
    BY <2>6, <2>7 DEF used, l
<1>2. Inv => VectorsInUse
  BY <1>1 DEF VectorsInUse, next
<1>3. QED
  BY <1>2, Invariant, PTL

\* The verdict of the checkers is that of the single places.  Each checker walks
\* over the rules once, with a stack of stages, sets of keys and flags that it fills
\* on the way down and empties on the way up; what it says of a stage depends on the
\* stages above that stage only, nothing of a sibling branch is left in its members,
\* no place is passed over, and rules are rejected only because of a place that does
\* not fit (parsing/ast/ast_check_*.cpp and ast_filter_bodies.cpp, which parses the
\* bodies of filters, too), provided that equal paths do not lead to different group-filters.
THEOREM CheckedPlaceByPlaceTheorem == Spec => []CheckedPlaceByPlace
<1>1. Init => PlacesInv
  BY PlacesInit
<1>2. Inv /\ PlacesInv /\ [Next]_allVars => PlacesInv'
  BY PlacesNext
<1>3. ASSUME Inv, PlacesInv PROVE CheckedPlaceByPlace
  <2>1. pass = "parse" \/ pass = "check" \/ Checked
    BY DEF Checked
  <2>2. CASE pass = "parse" \/ pass = "check"
    BY <1>3, <2>2 DEF PlacesInv, ParseHeld, CheckHeld, Rejected, CheckedPlaceByPlace, Checked
  <2>3. CASE Checked
    BY <1>3, <2>3 DEF PlacesInv, CheckedPlaceByPlace
  <2>4. QED
    BY <2>1, <2>2, <2>3
<1>4. Inv /\ PlacesInv => CheckedPlaceByPlace
  BY <1>3
<1>5. QED
  BY <1>1, <1>2, <1>4, Invariant, PTL DEF Spec

\* In every state in which rules have been accepted, the stages, their order, their
\* options and the numbers of the selectors are those that the places of the rules
\* and the aliases of their paths say (backend/builder.cpp).
THEOREM BuiltPlaceByPlaceTheorem == Spec => []BuiltPlaceByPlace
<1>1. Init => BuiltInv
  BY BuiltInit
<1>2. Inv /\ BuiltInv /\ [Next]_allVars => BuiltInv'
  BY BuiltNext
<1>3. BuiltInv => BuiltPlaceByPlace
  BY DEF BuiltInv
<1>4. QED
  BY <1>1, <1>2, <1>3, Invariant, PTL DEF Spec
=============================================================================
