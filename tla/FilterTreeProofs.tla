-------------------------- MODULE FilterTreeProofs --------------------------
(***************************************************************************)
(* What a filter lets through, for every expression over any comparable    *)
(* leaves, every width of integers and addresses, all records and whatever *)
(* the memory of a new node holds.  First the two recursive functions,     *)
(* what a tree evaluates to and what an expression means; then every kind  *)
(* of leaf; the invariant says of every item of the parser's stack that    *)
(* its tree evaluates to what its expression means, and what a negation    *)
(* would make of it.                                                       *)
(***************************************************************************)
EXTENDS FilterTree, BitsProofs, SequenceTheorems

-----------------------------------------------------------------------------
(* The value of a tree.                                                    *)

\* The children of a node are older than the node.
Children(nodes) ==
  /\ Len(nodes) \in Nat
  /\ \A n \in 1 .. Len(nodes) : nodes[n].left \in 0 .. n - 1 /\ nodes[n].right \in 0 .. n - 1

LEMMA OperValue ==
  ASSUME NEW opcode, NEW value, NEW data
  PROVE  ff3_oper_eval_V2(opcode, value, data) \in {-1, 0, 1}
BY DEF ff3_oper_eval_V2, Bool

LEMMA NodeValueInt ==
  ASSUME NEW n, NEW left, NEW right, NEW r
  PROVE  NodeValue(n, left, right, r) \in Int
<1>1. ff3_oper_eval_V2(n.opcode, n.values[1].value, data_func(r, n.field)) \in Int
  BY OperValue
<1> QED
  BY <1>1 DEF NodeValue, Bool

\* ff3_eval_node: what the recursion of a tree computes.
LEMMA EvalDef ==
  ASSUME NEW nodes, Children(nodes), NEW r
  PROVE  /\ ff3_eval_node(nodes, r)[0] = -1
         /\ \A n \in 1 .. Len(nodes) :
              ff3_eval_node(nodes, r)[n] =
                NodeValue(nodes[n], ff3_eval_node(nodes, r)[nodes[n].left],
                          ff3_eval_node(nodes, r)[nodes[n].right], r)
<1> DEFINE L == Len(nodes)
           Upto(k, f) == /\ f \in [0 .. k -> Int]
                         /\ f[0] = -1
                         /\ \A n \in 1 .. k : f[n] = NodeValue(nodes[n], f[nodes[n].left],
                                                               f[nodes[n].right], r)
           T == {k \in Nat : k <= L => \E f : Upto(k, f)}
<1>1. /\ L \in Nat
      /\ \A n \in 1 .. L : nodes[n].left \in 0 .. n - 1 /\ nodes[n].right \in 0 .. n - 1
  BY DEF Children
<1> HIDE DEF L
<1>2. 0 \in T
  <2> DEFINE f == [n \in 0 .. 0 |-> -1]
  <2>1. Upto(0, f)
    OBVIOUS
  <2> HIDE DEF f, Upto
  <2> QED
    BY <2>1
<1>3. ASSUME NEW k \in Nat, k \in T
      PROVE  k + 1 \in T
  <2> SUFFICES ASSUME k + 1 <= L PROVE \E f : Upto(k + 1, f)
    OBVIOUS
  <2>1. PICK f : Upto(k, f)
    BY <1>1, <1>3
  <2> DEFINE new == NodeValue(nodes[k + 1], f[nodes[k + 1].left], f[nodes[k + 1].right], r)
             g   == [n \in 0 .. k + 1 |-> IF n = k + 1 THEN new ELSE f[n]]
  <2>2. new \in Int
    BY NodeValueInt
  <2> HIDE DEF new
  <2>3. /\ g \in [0 .. k + 1 -> Int] /\ g[k + 1] = new
        /\ \A n \in 0 .. k : g[n] = f[n]
    BY <2>1, <2>2
  <2> HIDE DEF g
  <2>4. g[0] = -1
    BY <2>1, <2>3
  <2>5. ASSUME NEW n \in 1 .. k + 1
        PROVE  g[n] = NodeValue(nodes[n], g[nodes[n].left], g[nodes[n].right], r)
    <3>1. nodes[n].left \in 0 .. k /\ nodes[n].right \in 0 .. k
      BY <1>1
    <3>2. g[nodes[n].left] = f[nodes[n].left] /\ g[nodes[n].right] = f[nodes[n].right]
      BY <2>3, <3>1
    <3>3. CASE n = k + 1
      BY <2>3, <3>2, <3>3 DEF new
    <3>4. CASE n # k + 1
      <4>1. n \in 1 .. k /\ n \in 0 .. k
        BY <3>4
      <4> QED
        BY <2>1, <2>3, <3>2, <4>1
    <3> QED
      BY <3>3, <3>4
  <2>6. Upto(k + 1, g)
    BY <2>3, <2>4, <2>5
  <2> QED
    BY <2>6
<1>4. PICK f : Upto(L, f)
  <2> HIDE DEF Upto
  <2> HIDE DEF T
  <2>1. L \in T
    BY <1>1, <1>2, <1>3, SetInduction
  <2> QED
    BY <1>1, <2>1 DEF T
<1> DEFINE Def(v) == v = [n \in 0 .. L |-> IF n = NULL THEN -1
                                           ELSE NodeValue(nodes[n], v[nodes[n].left],
                                                          v[nodes[n].right], r)]
           val == CHOOSE v : Def(v)
<1>5. Def(f)
  <2>1. \A n \in 0 .. L : f[n] = IF n = NULL THEN -1
                                 ELSE NodeValue(nodes[n], f[nodes[n].left],
                                                f[nodes[n].right], r)
    <3> TAKE n \in 0 .. L
    <3>1. CASE n = 0
      BY <1>4, <3>1 DEF NULL
    <3>2. CASE n # 0
      BY <1>4, <3>2 DEF NULL
    <3> QED
      BY <3>1, <3>2
  <2>2. f \in [0 .. L -> Int]
    BY <1>4
  <2> QED
    BY <2>1, <2>2
<1>6. ff3_eval_node(nodes, r) = val
  BY DEF ff3_eval_node, val, L
<1>7. Def(val)
  <2> HIDE DEF Def
  <2> QED
    BY <1>5 DEF val
<1> HIDE DEF val
<1>8. val[0] = -1 /\ \A n \in 1 .. L : val[n] = NodeValue(nodes[n], val[nodes[n].left],
                                                          val[nodes[n].right], r)
  <2>1. \A n \in 0 .. L : val[n] = IF n = NULL THEN -1
                                   ELSE NodeValue(nodes[n], val[nodes[n].left],
                                                  val[nodes[n].right], r)
    BY <1>7
  <2>2. 0 \in 0 .. L /\ \A n \in 1 .. L : n \in 0 .. L /\ n # 0
    BY <1>1
  <2> QED
    BY <2>1, <2>2 DEF NULL
<1> QED
  BY <1>6, <1>8 DEF L

\* Nodes that two heaps have in common have the same value in both.
LEMMA EvalAgree ==
  ASSUME NEW nodes, NEW more, Children(nodes), Children(more), NEW r,
         NEW k \in Nat, k <= Len(nodes), k <= Len(more),
         \A n \in 1 .. k : nodes[n] = more[n]
  PROVE  \A n \in 0 .. k : ff3_eval_node(nodes, r)[n] = ff3_eval_node(more, r)[n]
<1> DEFINE f == ff3_eval_node(nodes, r)
           g == ff3_eval_node(more, r)
           T == {m \in Nat : \A n \in 0 .. m : n <= k => f[n] = g[n]}
<1>1. /\ f[0] = -1 /\ g[0] = -1
      /\ \A n \in 1 .. k : f[n] = NodeValue(nodes[n], f[nodes[n].left], f[nodes[n].right], r)
      /\ \A n \in 1 .. k : g[n] = NodeValue(more[n], g[more[n].left], g[more[n].right], r)
  <2>1. Len(nodes) \in Nat /\ Len(more) \in Nat
    BY DEF Children
  <2>2. \A n \in 1 .. k : n \in 1 .. Len(nodes) /\ n \in 1 .. Len(more)
    BY <2>1
  <2> QED
    BY <2>2, EvalDef
<1>2. \A n \in 1 .. k : nodes[n].left \in 0 .. n - 1 /\ nodes[n].right \in 0 .. n - 1
  BY DEF Children
<1> HIDE DEF f, g
<1>3. 0 \in T
  BY <1>1
<1>4. ASSUME NEW m \in Nat, m \in T
      PROVE  m + 1 \in T
  <2> SUFFICES ASSUME m + 1 <= k PROVE f[m + 1] = g[m + 1]
    BY <1>4
  <2>1. m + 1 \in 1 .. k
    OBVIOUS
  <2>2. nodes[m + 1].left \in 0 .. m /\ nodes[m + 1].right \in 0 .. m
    BY <1>2, <2>1
  <2>3. f[nodes[m + 1].left] = g[nodes[m + 1].left]
        /\ f[nodes[m + 1].right] = g[nodes[m + 1].right]
    BY <1>4, <2>2
  <2> QED
    BY <1>1, <2>1, <2>3
<1>5. k \in T
  <2> HIDE DEF T
  <2> QED
    BY <1>3, <1>4, SetInduction
<1> QED
  BY <1>5 DEF f, g

-----------------------------------------------------------------------------
(* The meaning of an expression.                                           *)

Expr ==
  [op : {"leaf"}, leaf : Leaves] \cup [op : {"any"}] \cup [op : {"not"}, arg : Nat]
  \cup [op : {"AND", "OR"}, left : Nat, right : Nat]

\* The parts of an expression are parsed before it.
Ordered(es) ==
  /\ es \in Seq(Expr)
  /\ \A e \in 1 .. Len(es) :
       /\ es[e].op = "not" => es[e].arg \in 1 .. e - 1
       /\ es[e].op \in {"AND", "OR"} => es[e].left \in 1 .. e - 1 /\ es[e].right \in 1 .. e - 1

LEMMA Operations ==
  ASSUME NEW x \in Expr
  PROVE  /\ x.op \in {"leaf", "any", "not", "AND", "OR"}
         /\ x.op = "leaf" => x.leaf \in Leaves
         /\ x = [op |-> x.op, leaf |-> x.leaf] \/ x = [op |-> x.op]
            \/ x = [op |-> x.op, arg |-> x.arg]
            \/ x = [op |-> x.op, left |-> x.left, right |-> x.right]
BY DEF Expr

\* The meaning depends on that of older expressions only.
LEMMA MeaningLocal ==
  ASSUME NEW es, Ordered(es), NEW e \in 1 .. Len(es), NEW f, NEW g,
         \A x \in 1 .. e - 1 : f[x] = g[x]
  PROVE  Meaning(es, f, e) = Meaning(es, g, e)
<1>1. /\ Len(es) \in Nat /\ es[e] \in Expr
      /\ es[e].op = "not" => es[e].arg \in 1 .. e - 1
      /\ es[e].op \in {"AND", "OR"} => es[e].left \in 1 .. e - 1 /\ es[e].right \in 1 .. e - 1
  BY DEF Ordered
<1>2. es[e].op \in {"leaf", "any", "not", "AND", "OR"}
  BY <1>1, Operations
<1>3. CASE es[e].op = "leaf"
  BY <1>3 DEF Meaning
<1>4. CASE es[e].op = "any"
  BY <1>4 DEF Meaning
<1>5. CASE es[e].op = "not"
  <2> DEFINE a == es[e].arg
  <2>1. a \in 1 .. e - 1 /\ a \in 1 .. Len(es) /\ f[a] = g[a]
    BY <1>1, <1>5
  <2>2. es[a].op = "not" => es[a].arg \in 1 .. a - 1
    BY <2>1 DEF Ordered
  <2>3. es[a].op = "not" => f[es[a].arg] = g[es[a].arg]
    <3> SUFFICES ASSUME es[a].op = "not" PROVE f[es[a].arg] = g[es[a].arg]
      OBVIOUS
    <3>1. es[a].arg \in 1 .. e - 1
      BY <1>1, <2>1, <2>2
    <3> QED
      BY <3>1
  <2> HIDE DEF a
  <2>4. Negation(es, f, a) = Negation(es, g, a)
    BY <2>1, <2>3 DEF Negation
  <2> QED
    BY <1>5, <2>4 DEF Meaning, a
<1>6. CASE es[e].op \in {"AND", "OR"}
  BY <1>1, <1>6 DEF Meaning
<1> QED
  BY <1>2, <1>3, <1>4, <1>5, <1>6

LEMMA MeaningRecords ==
  ASSUME NEW es, Ordered(es), NEW e \in 1 .. Len(es), NEW f,
         \A x \in 1 .. e - 1 : f[x] \subseteq Records
  PROVE  Meaning(es, f, e) \subseteq Records
<1>1. /\ Len(es) \in Nat /\ es[e] \in Expr
      /\ es[e].op = "not" => es[e].arg \in 1 .. e - 1
      /\ es[e].op \in {"AND", "OR"} => es[e].left \in 1 .. e - 1 /\ es[e].right \in 1 .. e - 1
  BY DEF Ordered
<1>2. es[e].op \in {"leaf", "any", "not", "AND", "OR"}
  BY <1>1, Operations
<1>3. CASE es[e].op \in {"leaf", "any"}
  BY <1>3 DEF Meaning
<1>4. CASE es[e].op = "not"
  <2> DEFINE a == es[e].arg
  <2>1. a \in 1 .. e - 1 /\ a \in 1 .. Len(es) /\ f[a] \subseteq Records
    BY <1>1, <1>4
  <2>2. es[a].op = "not" => es[a].arg \in 1 .. a - 1
    BY <2>1 DEF Ordered
  <2>3. es[a].op = "not" => f[es[a].arg] \subseteq Records
    <3> SUFFICES ASSUME es[a].op = "not" PROVE f[es[a].arg] \subseteq Records
      OBVIOUS
    <3>1. es[a].arg \in 1 .. e - 1
      BY <1>1, <2>1, <2>2
    <3> QED
      BY <3>1
  <2> HIDE DEF a
  <2>4. Negation(es, f, a) \subseteq Records
    BY <2>1, <2>3 DEF Negation
  <2> QED
    BY <1>4, <2>4 DEF Meaning, a
<1>5. CASE es[e].op \in {"AND", "OR"}
  BY <1>1, <1>5 DEF Meaning
<1> QED
  BY <1>2, <1>3, <1>4, <1>5

\* Means: what the recursion over the expressions computes.
LEMMA MeansDef ==
  ASSUME NEW es, Ordered(es)
  PROVE  \A e \in 1 .. Len(es) : /\ Means(es)[e] = Meaning(es, Means(es), e)
                                 /\ Means(es)[e] \subseteq Records
<1> DEFINE L == Len(es)
           Upto(k, f) == /\ f \in [1 .. k -> SUBSET Records]
                         /\ \A e \in 1 .. k : f[e] = Meaning(es, f, e)
           T == {k \in Nat : k <= L => \E f : Upto(k, f)}
<1>1. L \in Nat
  BY DEF Ordered
<1>2. 0 \in T
  <2> DEFINE f == [e \in 1 .. 0 |-> Records]
  <2>1. Upto(0, f)
    OBVIOUS
  <2> HIDE DEF f, Upto
  <2> QED
    BY <2>1
<1>3. ASSUME NEW k \in Nat, k \in T
      PROVE  k + 1 \in T
  <2> SUFFICES ASSUME k + 1 <= L PROVE \E f : Upto(k + 1, f)
    OBVIOUS
  <2>1. PICK f : Upto(k, f)
    BY <1>1, <1>3
  <2> DEFINE new == Meaning(es, f, k + 1)
             g   == [e \in 1 .. k + 1 |-> IF e = k + 1 THEN new ELSE f[e]]
  <2>2. new \subseteq Records
    <3>1. k + 1 \in 1 .. Len(es)
      BY <1>1
    <3>2. \A x \in 1 .. (k + 1) - 1 : f[x] \subseteq Records
      BY <2>1
    <3> QED
      BY <3>1, <3>2, MeaningRecords
  <2> HIDE DEF new
  <2>3. /\ g \in [1 .. k + 1 -> SUBSET Records] /\ g[k + 1] = new
        /\ \A e \in 1 .. k : g[e] = f[e]
    BY <2>1, <2>2
  <2> HIDE DEF g
  <2>4. ASSUME NEW e \in 1 .. k + 1
        PROVE  g[e] = Meaning(es, g, e)
    <3>1. e \in 1 .. Len(es) /\ \A x \in 1 .. e - 1 : g[x] = f[x]
      BY <1>1, <2>3
    <3>2. Meaning(es, g, e) = Meaning(es, f, e)
      BY <3>1, MeaningLocal
    <3>3. CASE e = k + 1
      BY <2>3, <3>2, <3>3 DEF new
    <3>4. CASE e # k + 1
      <4>1. e \in 1 .. k
        BY <3>4
      <4> QED
        BY <2>1, <2>3, <3>2, <4>1
    <3> QED
      BY <3>3, <3>4
  <2>5. Upto(k + 1, g)
    BY <2>3, <2>4
  <2> QED
    BY <2>5
<1>4. PICK f : Upto(L, f)
  <2> HIDE DEF Upto
  <2> HIDE DEF L
  <2> HIDE DEF T
  <2>1. L \in T
    BY <1>1, <1>2, <1>3, SetInduction
  <2> QED
    BY <1>1, <2>1 DEF T
<1> DEFINE Def(m) == m = [e \in 1 .. Len(es) |-> Meaning(es, m, e)]
           means == CHOOSE m : Def(m)
<1>5. Def(f)
  BY <1>4
<1>6. Means(es) = means
  BY DEF Means, means
<1>7. Def(means)
  <2> HIDE DEF Def
  <2> QED
    BY <1>5 DEF means
<1> HIDE DEF means
<1>8. \A e \in 1 .. L : means[e] = Meaning(es, means, e)
  BY <1>7
<1> DEFINE U == {k \in Nat : \A e \in 1 .. k : e <= L => means[e] \subseteq Records}
<1>9. 0 \in U
  OBVIOUS
<1>10. ASSUME NEW k \in Nat, k \in U
       PROVE  k + 1 \in U
  <2> SUFFICES ASSUME k + 1 <= L PROVE means[k + 1] \subseteq Records
    BY <1>10
  <2>1. k + 1 \in 1 .. Len(es) /\ \A x \in 1 .. (k + 1) - 1 : means[x] \subseteq Records
    BY <1>1, <1>10
  <2> QED
    BY <1>8, <2>1, MeaningRecords
<1>11. L \in U
  <2> HIDE DEF L
  <2> HIDE DEF U
  <2> QED
    BY <1>1, <1>9, <1>10, SetInduction
<1>12. \A e \in 1 .. L : means[e] \subseteq Records
  BY <1>1, <1>11
<1> QED
  BY <1>6, <1>8, <1>12

\* A further expression changes no meaning.
LEMMA MeansAgree ==
  ASSUME NEW es, NEW more, Ordered(es), Ordered(more),
         Len(more) = Len(es) + 1, \A e \in 1 .. Len(es) : more[e] = es[e]
  PROVE  \A e \in 1 .. Len(es) : Means(more)[e] = Means(es)[e]
<1> DEFINE f == Means(es)
           g == Means(more)
           L == Len(es)
           T == {k \in Nat : \A e \in 1 .. k : e <= L => f[e] = g[e]}
<1>1. L \in Nat
  BY DEF Ordered
<1>2. 0 \in T
  OBVIOUS
<1>3. ASSUME NEW k \in Nat, k \in T
      PROVE  k + 1 \in T
  <2> SUFFICES ASSUME k + 1 <= L PROVE f[k + 1] = g[k + 1]
    BY <1>3
  <2> DEFINE e == k + 1
  <2>1. e \in 1 .. Len(es) /\ e \in 1 .. Len(more)
    BY <1>1
  <2>2. \A x \in 1 .. e - 1 : f[x] = g[x]
    BY <1>3
  <2>3. f[e] = Meaning(es, f, e) /\ g[e] = Meaning(more, g, e)
    BY <2>1, MeansDef
  <2>4. Meaning(es, f, e) = Meaning(es, g, e)
    BY <2>1, <2>2, MeaningLocal
  <2> HIDE DEF g
  <2>5. Meaning(es, g, e) = Meaning(more, g, e)
    <3>1. more[e] = es[e]
      BY <2>1
    <3>2. es[e].op = "not" => es[e].arg \in 1 .. Len(es)
      BY <2>1 DEF Ordered
    <3>3. es[e].op = "not" => more[es[e].arg] = es[es[e].arg]
      BY <3>2
    <3> HIDE DEF e
    <3>4. es[e].op = "not" => Negation(es, g, es[e].arg) = Negation(more, g, es[e].arg)
      BY <3>3 DEF Negation
    <3> QED
      BY <2>1, <3>1, <3>4, Operations DEF Meaning, Ordered
  <2> QED
    BY <2>3, <2>4, <2>5
<1>4. L \in T
  <2> HIDE DEF L
  <2> HIDE DEF T
  <2> QED
    BY <1>1, <1>2, <1>3, SetInduction
<1> QED
  BY <1>1, <1>4

-----------------------------------------------------------------------------
(* Bits, masks and networks.                                               *)

LEMMA ZeroBits ==
  \A b \in Nat : ~ HasBit(0, b)
<1> DEFINE T == {b \in Nat : Shifted(0)[b] = 0}
<1>1. /\ Shifted(0)[0] = 0
      /\ \A b \in Nat : Shifted(0)[b + 1] = Shifted(0)[b] \div 2
  BY ShiftedDef
<1>2. 0 \div 2 = 0 /\ 0 % 2 = 0
  OBVIOUS
<1>3. 0 \in T
  BY <1>1
<1>4. \A b \in Nat : b \in T => b + 1 \in T
  BY <1>1, <1>2
<1>5. Nat \subseteq T
  <2> HIDE DEF T
  <2> QED
    BY <1>3, <1>4, SetInduction
<1> QED
  BY <1>2, <1>5 DEF HasBit

LEMMA ZeroNumber ==
  ASSUME NEW w \in Nat
  PROVE  0 \in UInt(w) /\ UInt(w) \subseteq Nat
<1>1. Pow[w] \in Nat \ {0}
  BY PowDef
<1> QED
  BY <1>1 DEF UInt

\* No bit survives a mask of none.
LEMMA ZeroMask ==
  ASSUME NEW w \in Nat, NEW x
  PROVE  BitAnd(x, 0, w) = 0
<1>1. BitAnd(x, 0, w) \in UInt(w)
  BY BitAndBits
<1>2. \A b \in 0 .. w - 1 : HasBit(BitAnd(x, 0, w), b) <=> HasBit(x, b) /\ HasBit(0, b)
  BY BitAndBits
<1>3. \A b \in 0 .. w - 1 : ~ HasBit(0, b)
  BY ZeroBits
<1>4. 0 \in UInt(w)
  BY ZeroNumber
<1> QED
  BY <1>1, <1>2, <1>3, <1>4, BitsDetermine

\* FFAT_IS_UI and FFAT_INS_UI: all bits of the literal, or none of them.
LEMMA BitTests ==
  ASSUME NEW w \in Nat, NEW x \in UInt(w), NEW m \in UInt(w)
  PROVE  /\ BitAnd(x, m, w) = m <=> \A b \in 0 .. w - 1 : HasBit(m, b) => HasBit(x, b)
         /\ BitAnd(x, m, w) = 0 <=> \A b \in 0 .. w - 1 : HasBit(m, b) => ~ HasBit(x, b)
<1> DEFINE y == BitAnd(x, m, w)
<1>1. /\ y \in UInt(w)
      /\ \A b \in 0 .. w - 1 : HasBit(y, b) <=> HasBit(x, b) /\ HasBit(m, b)
  BY BitAndBits
<1>2. \A b \in 0 .. w - 1 : ~ HasBit(0, b)
  BY ZeroBits
<1>3. 0 \in UInt(w)
  BY ZeroNumber
<1> HIDE DEF y
<1>4. (\A b \in 0 .. w - 1 : HasBit(m, b) => HasBit(x, b)) => y = m
  <2> SUFFICES ASSUME \A b \in 0 .. w - 1 : HasBit(m, b) => HasBit(x, b) PROVE y = m
    OBVIOUS
  <2>1. \A b \in 0 .. w - 1 : HasBit(y, b) <=> HasBit(m, b)
    BY <1>1
  <2> QED
    BY <1>1, <2>1, BitsDetermine
<1>5. (\A b \in 0 .. w - 1 : HasBit(m, b) => ~ HasBit(x, b)) => y = 0
  <2> SUFFICES ASSUME \A b \in 0 .. w - 1 : HasBit(m, b) => ~ HasBit(x, b) PROVE y = 0
    OBVIOUS
  <2>1. \A b \in 0 .. w - 1 : HasBit(y, b) <=> HasBit(0, b)
    BY <1>1, <1>2
  <2> QED
    BY <1>1, <1>3, <2>1, BitsDetermine
<1>6. y = m => \A b \in 0 .. w - 1 : HasBit(m, b) => HasBit(x, b)
  BY <1>1
<1>7. y = 0 => \A b \in 0 .. w - 1 : HasBit(m, b) => ~ HasBit(x, b)
  BY <1>1, <1>2
<1> QED
  BY <1>4, <1>5, <1>6, <1>7 DEF y

LEMMA MaskBits ==
  ASSUME NEW n \in Nat
  PROVE  /\ CellMask(n) \in UInt(CellBits)
         /\ \A b \in 0 .. CellBits - 1 : HasBit(CellMask(n), b) <=> b >= CellBits - n
         /\ n > 0 /\ CellBits > 0 => CellMask(n) # 0
<1> DEFINE B == {b \in 0 .. CellBits - 1 : b >= CellBits - n}
<1>0. CellBits \in Nat
  BY LeafAssumption
<1>1. /\ CellMask(n) \in UInt(CellBits)
      /\ \A b \in 0 .. CellBits - 1 : HasBit(CellMask(n), b) <=> b \in B
  BY <1>0, NumberBits DEF CellMask
<1>2. \A b \in 0 .. CellBits - 1 : HasBit(CellMask(n), b) <=> b >= CellBits - n
  BY <1>1
<1>3. ASSUME n > 0, CellBits > 0
      PROVE  CellMask(n) # 0
  <2>1. CellBits - 1 \in 0 .. CellBits - 1 /\ CellBits - 1 \in Nat /\ CellBits - 1 >= CellBits - n
    BY <1>0, <1>3
  <2>2. HasBit(CellMask(n), CellBits - 1) /\ ~ HasBit(0, CellBits - 1)
    BY <1>2, <2>1, ZeroBits
  <2> QED
    BY <2>2
<1> QED
  BY <1>1, <1>2, <1>3

\* Two cells are the same under a mask when their first bits are.
LEMMA MaskedCells ==
  ASSUME NEW n \in Nat, NEW x, NEW y
  PROVE  BitAnd(x, CellMask(n), CellBits) = BitAnd(y, CellMask(n), CellBits)
         <=> Agree(n, x, y)
<1> DEFINE c == CellMask(n)
           u == BitAnd(x, c, CellBits)
           v == BitAnd(y, c, CellBits)
<1>0. CellBits \in Nat
  BY LeafAssumption
<1>1. /\ u \in UInt(CellBits)
      /\ \A b \in 0 .. CellBits - 1 : HasBit(u, b) <=> HasBit(x, b) /\ HasBit(c, b)
  BY <1>0, BitAndBits
<1>2. /\ v \in UInt(CellBits)
      /\ \A b \in 0 .. CellBits - 1 : HasBit(v, b) <=> HasBit(y, b) /\ HasBit(c, b)
  BY <1>0, BitAndBits
<1>3. \A b \in 0 .. CellBits - 1 : HasBit(c, b) <=> b >= CellBits - n
  BY MaskBits
<1> HIDE DEF u, v, c
<1>4. u = v => Agree(n, x, y)
  BY <1>1, <1>2, <1>3 DEF Agree
<1>5. Agree(n, x, y) => u = v
  <2> SUFFICES ASSUME Agree(n, x, y) PROVE u = v
    OBVIOUS
  <2>1. \A b \in 0 .. CellBits - 1 : HasBit(u, b) <=> HasBit(v, b)
    BY <1>1, <1>2, <1>3 DEF Agree
  <2> QED
    BY <1>0, <1>1, <1>2, <2>1, BitsDetermine
<1> QED
  BY <1>4, <1>5 DEF u, v, c

\* A network with a prefix is compared as it reads, in both versions.
LEMMA NetworkLeaf ==
  ASSUME NEW lit \in Net4 \cup Net6, lit.prefix > 0, NEW a \in Address
  PROVE  ff3_oper_eval_V2(AddressOpcode(str_to_addr(lit)), str_to_addr(lit), a) > 0
         <=> InNetwork(lit, a)
<1> DEFINE v == str_to_addr(lit)
           p == lit.prefix
<1>1. /\ CellBits \in Nat /\ p \in 0 .. 2 * CellBits /\ p \in Nat /\ p > 0 /\ CellBits > 0
      /\ lit.ver \in {4, 6} /\ (lit.ver = 4 => lit.hi = 0 /\ p \in 0 .. CellBits)
  <2>1. CellBits \in Nat
    BY LeafAssumption
  <2>2. CASE lit \in Net4
    BY <2>1, <2>2 DEF Net4
  <2>3. CASE lit \in Net6
    BY <2>1, <2>3 DEF Net6
  <2> QED
    BY <2>2, <2>3
<1>2. HighPart(p) \in Nat \ {0} /\ LowPart(p) \in Nat
  BY <1>1 DEF HighPart, LowPart
<1>3. v.ver = lit.ver
  BY DEF str_to_addr
<1>4. CASE lit.ver = 4
  <2>1. /\ v.mask.hi = 0 /\ v.mask.lo = CellMask(p)
        /\ v.ip.hi = BitAnd(lit.hi, 0, CellBits)
        /\ v.ip.lo = BitAnd(lit.lo, CellMask(p), CellBits)
    BY <1>4 DEF str_to_addr
  <2>2. CellMask(p) # 0
    BY <1>1, MaskBits
  <2> HIDE DEF v
  <2>3. AddressOpcode(v) = <<"EQ", "ADP">>
    BY <1>3, <1>4, <2>1, <2>2 DEF AddressOpcode
  <2>4. BitAnd(a.hi, 0, CellBits) = 0 /\ BitAnd(lit.hi, 0, CellBits) = 0
    BY <1>1, ZeroMask
  <2>5. BitAnd(a.lo, CellMask(p), CellBits) = BitAnd(lit.lo, CellMask(p), CellBits)
        <=> Agree(p, a.lo, lit.lo)
    BY <1>1, MaskedCells
  <2>6. InPrefix(a, v) <=> InNetwork(lit, a)
    BY <1>3, <1>4, <2>1, <2>4, <2>5 DEF InPrefix, InNetwork
  <2> QED
    BY <2>3, <2>6 DEF ff3_oper_eval_V2, Bool, v
<1>5. CASE lit.ver = 6
  <2>1. /\ v.mask.hi = CellMask(HighPart(p)) /\ v.mask.lo = CellMask(LowPart(p))
        /\ v.ip.hi = BitAnd(lit.hi, CellMask(HighPart(p)), CellBits)
        /\ v.ip.lo = BitAnd(lit.lo, CellMask(LowPart(p)), CellBits)
    BY <1>5 DEF str_to_addr
  <2>2. CellMask(HighPart(p)) # 0
    BY <1>1, <1>2, MaskBits
  <2> HIDE DEF v
  <2>3. AddressOpcode(v) = <<"EQ", "ADP">>
    <3>1. v.mask # [hi |-> 0, lo |-> 0]
      BY <2>1, <2>2
    <3> QED
      BY <1>3, <1>5, <3>1 DEF AddressOpcode
  <2>4. BitAnd(a.hi, CellMask(HighPart(p)), CellBits) = BitAnd(lit.hi, CellMask(HighPart(p)), CellBits)
        <=> Agree(HighPart(p), a.hi, lit.hi)
    BY <1>2, MaskedCells
  <2>5. BitAnd(a.lo, CellMask(LowPart(p)), CellBits) = BitAnd(lit.lo, CellMask(LowPart(p)), CellBits)
        <=> Agree(LowPart(p), a.lo, lit.lo)
    BY <1>2, MaskedCells
  <2>6. InPrefix(a, v) <=> InNetwork(lit, a)
    BY <1>3, <1>5, <2>1, <2>4, <2>5 DEF InPrefix, InNetwork, p
  <2> QED
    BY <2>3, <2>6 DEF ff3_oper_eval_V2, Bool, v
<1> QED
  BY <1>1, <1>4, <1>5

-----------------------------------------------------------------------------
(* The nodes of leaves.                                                    *)

\* The nodes there can be.
CastValue ==
  UNION {{ff3_type_cast(Type[l.field], l.literals[i]) : i \in DOMAIN l.literals} : l \in Leaves}

NodeType ==
  [oper : {"EQ", "GT", "LT", "ISSET", "IN", "EXIST", "YES", "NOT", "AND", "OR"},
   opcode : Opcode, field : DOMAIN Type \cup {""},
   values : Seq([value : CastValue, opcode : Opcode]), left : Nat, right : Nat]

LEMMA FunctionIsSeq ==
  ASSUME NEW S, NEW n \in Nat, NEW f \in [1 .. n -> S]
  PROVE  f \in Seq(S)
BY SeqDef

LEMMA LiteralKinds ==
  ASSUME NEW l \in Leaves, NEW i \in DOMAIN l.literals
  PROVE  /\ l.literals[i].kind \in {"num", "word", "time", "net"}
         /\ l.literals[i].kind = "num" => l.literals[i].val \in UInt(IntBits)
         /\ l.literals[i].kind = "net" => l.literals[i] \in Net4 \cup Net6
         /\ l.oper \in {"EQ", "GT", "LT", "ISSET", "IN"}
         /\ ItemOper(l) \in {"EQ", "GT", "LT", "ISSET"}
<1>1. l.literals \in Seq(Num \cup Word \cup Time \cup Net4 \cup Net6)
  BY LeafAssumption
<1>2. l.literals[i] \in Num \cup Word \cup Time \cup Net4 \cup Net6
  BY <1>1
<1>3. l.oper \in {"EQ", "GT", "LT", "ISSET", "IN", "EXIST"} /\ (l.oper = "EXIST" => l.literals = << >>)
  BY LeafAssumption
<1>4. l.oper # "EXIST"
  BY <1>3
<1> QED
  BY <1>2, <1>3, <1>4 DEF Num, Word, Time, Net4, Net6, ItemOper

LEMMA OpcodePair ==
  ASSUME NEW a \in {"EQ", "GT", "LT", "ISSET", "INS", "ERR"},
         NEW b \in {"UIn", "UI", "AD4", "AD6", "ADP", ""}
  PROVE  <<a, b>> \in Opcode
BY DEF Opcode

LEMMA AddressOpcodes ==
  ASSUME NEW v
  PROVE  AddressOpcode(v) \in Opcode
BY OpcodePair DEF AddressOpcode

\* What ff3_transform_mval and ff3_type_validate make of a literal.
LEMMA ItemOpcode ==
  ASSUME NEW l \in Leaves, LeafOk(l), NEW i \in DOMAIN l.literals
  PROVE  /\ ff3_type_validate(l, i) \in [value : CastValue, opcode : Opcode]
         /\ Type[l.field] = "uint" =>
              /\ ff3_type_validate(l, i).opcode = <<ItemOper(l), "UIn">>
              /\ l.literals[i].kind = "num" => ff3_type_validate(l, i).value = l.literals[i].val
         /\ Type[l.field] = "timestamp" =>
              ff3_type_validate(l, i).opcode = <<ItemOper(l), "UI">> /\ ItemOper(l) # "ISSET"
         /\ Type[l.field] = "addr" =>
              /\ ItemOper(l) = "EQ" /\ l.literals[i].kind = "net"
              /\ ff3_type_validate(l, i).value = str_to_addr(l.literals[i])
              /\ ff3_type_validate(l, i).opcode = AddressOpcode(str_to_addr(l.literals[i]))
         /\ Type[l.field] \in {"uint", "timestamp", "addr"}
<1> DEFINE type == Type[l.field]
           lit  == l.literals[i]
           v    == ff3_type_cast(type, lit)
           o    == ff3_validate(type, ItemOper(l), v)
<1>1. ff3_type_validate(l, i) = [value |-> v, opcode |-> o]
  BY DEF ff3_type_validate
<1>2. l.field \in DOMAIN Type /\ Castable(type, lit) /\ o[1] # "ERR"
  BY <1>1 DEF LeafOk
<1>3. type \in {"uint", "timestamp", "addr"}
  BY <1>2, LeafAssumption
<1>4. v \in CastValue
  BY DEF CastValue
<1>5. ItemOper(l) \in {"EQ", "GT", "LT", "ISSET"}
  BY LiteralKinds
<1>6. CASE type = "uint"
  <2>1. o = <<ItemOper(l), "UIn">>
    BY <1>6 DEF ff3_validate
  <2>2. o \in Opcode
    BY <1>5, <2>1, OpcodePair
  <2>3. lit.kind = "num" => v = lit.val
    BY <1>6 DEF ff3_type_cast
  <2> QED
    BY <1>1, <1>3, <1>4, <1>6, <2>1, <2>2, <2>3
<1>7. CASE type = "timestamp"
  <2>1. ItemOper(l) # "ISSET" /\ o = <<ItemOper(l), "UI">>
    BY <1>2, <1>7 DEF ff3_validate
  <2>2. o \in Opcode
    BY <1>5, <2>1, OpcodePair
  <2> QED
    BY <1>1, <1>3, <1>4, <1>7, <2>1, <2>2
<1>8. CASE type = "addr"
  <2>1. lit.kind = "net" /\ ItemOper(l) = "EQ" /\ o = AddressOpcode(v)
    BY <1>2, <1>8 DEF Castable, KindOf, ff3_validate
  <2>2. v = str_to_addr(lit)
    BY <1>8 DEF ff3_type_cast
  <2>3. o \in Opcode
    BY <2>1, AddressOpcodes
  <2> QED
    BY <1>1, <1>3, <1>4, <1>8, <2>1, <2>2, <2>3
<1> QED
  BY <1>3, <1>6, <1>7, <1>8

\* The comparison with a literal reads as it is written.
LEMMA ItemMeans ==
  ASSUME NEW l \in Leaves, LeafOk(l), Comparable(l), NEW i \in DOMAIN l.literals,
         NEW r \in Records
  PROVE  LET lit == l.literals[i]
             x   == r[l.field]
         IN /\ lit.kind = KindOf(Type[l.field])
            /\ ff3_oper_eval_V2(ff3_type_validate(l, i).opcode, ff3_type_validate(l, i).value, x) > 0 <=>
                 \/ ItemOper(l) = "EQ" /\ Equals(lit, x)
                 \/ ItemOper(l) = "GT" /\ x > lit.val
                 \/ ItemOper(l) = "LT" /\ x < lit.val
                 \/ ItemOper(l) = "ISSET" /\ HasBits(x, lit.val)
            /\ ItemOper(l) = "ISSET" =>
                 /\ ff3_type_validate(l, i).opcode = <<"ISSET", "UIn">>
                 /\ ff3_oper_eval_V2(<<"INS", "UIn">>, ff3_type_validate(l, i).value, x) > 0
                      <=> HasNoBit(x, lit.val)
<1> DEFINE lit == l.literals[i]
           x   == r[l.field]
           op  == ItemOper(l)
           val == ff3_type_validate(l, i).value
           o   == ff3_type_validate(l, i).opcode
<1>1. /\ lit.kind = KindOf(Type[l.field]) /\ (lit.kind = "net" => lit.prefix > 0)
      /\ Type[l.field] # "timestamp" /\ l.field \in DOMAIN Type
  <2>1. l.literals # << >>
    OBVIOUS
  <2> QED
    BY <2>1 DEF Comparable, LeafOk
<1>2. /\ op \in {"EQ", "GT", "LT", "ISSET"}
      /\ lit.kind = "num" => lit.val \in UInt(IntBits)
      /\ lit.kind = "net" => lit \in Net4 \cup Net6
  BY LiteralKinds
<1>3. CASE Type[l.field] = "uint"
  <2>1. lit.kind = "num" /\ o = <<op, "UIn">> /\ val = lit.val
    BY <1>1, <1>3, ItemOpcode DEF KindOf
  <2>2. x \in UInt(IntBits) /\ lit.val \in UInt(IntBits) /\ IntBits \in Nat
    BY <1>1, <1>2, <1>3, <2>1, LeafAssumption DEF Data
  <2>3. /\ BitAnd(x, lit.val, IntBits) = lit.val <=> HasBits(x, lit.val)
        /\ BitAnd(x, lit.val, IntBits) = 0 <=> HasNoBit(x, lit.val)
    BY <2>2, BitTests DEF HasBits, HasNoBit
  <2>4. Equals(lit, x) <=> x = lit.val
    BY <2>1 DEF Equals
  <2> HIDE DEF lit, x, op, val, o
  <2>5. op = "EQ" => (ff3_oper_eval_V2(o, val, x) > 0 <=> x = lit.val)
    BY <2>1 DEF ff3_oper_eval_V2, Bool
  <2>6. op = "GT" => (ff3_oper_eval_V2(o, val, x) > 0 <=> x > lit.val)
    BY <2>1 DEF ff3_oper_eval_V2, Bool
  <2>7. op = "LT" => (ff3_oper_eval_V2(o, val, x) > 0 <=> x < lit.val)
    BY <2>1 DEF ff3_oper_eval_V2, Bool
  <2>8. op = "ISSET" => (ff3_oper_eval_V2(o, val, x) > 0 <=> HasBits(x, lit.val))
    BY <2>1, <2>3 DEF ff3_oper_eval_V2, Bool
  <2>9. ff3_oper_eval_V2(<<"INS", "UIn">>, val, x) > 0 <=> HasNoBit(x, lit.val)
    BY <2>1, <2>3 DEF ff3_oper_eval_V2, Bool
  <2>10. ff3_oper_eval_V2(o, val, x) > 0 <=>
                 \/ op = "EQ" /\ Equals(lit, x)
                 \/ op = "GT" /\ x > lit.val
                 \/ op = "LT" /\ x < lit.val
                 \/ op = "ISSET" /\ HasBits(x, lit.val)
    BY <1>2, <2>4, <2>5, <2>6, <2>7, <2>8
  <2> QED
    BY <1>1, <2>1, <2>9, <2>10 DEF lit, x, op, val, o
<1>4. CASE Type[l.field] = "addr"
  <2>1. /\ op = "EQ" /\ lit.kind = "net" /\ val = str_to_addr(lit)
        /\ o = AddressOpcode(str_to_addr(lit))
    BY <1>4, ItemOpcode
  <2>2. x \in Address
    BY <1>1, <1>4, LeafAssumption DEF Data
  <2>3. ff3_oper_eval_V2(AddressOpcode(str_to_addr(lit)), str_to_addr(lit), x) > 0
        <=> InNetwork(lit, x)
    BY <1>1, <1>2, <2>1, <2>2, NetworkLeaf
  <2>4. Equals(lit, x) <=> InNetwork(lit, x)
    BY <2>1 DEF Equals
  <2> HIDE DEF lit, x, op, val, o
  <2>5. ff3_oper_eval_V2(o, val, x) > 0 <=> Equals(lit, x)
    BY <2>1, <2>3, <2>4
  <2> QED
    BY <1>1, <2>1, <2>5 DEF lit, x, op, val, o
<1>5. Type[l.field] \in {"uint", "timestamp", "addr"}
  BY ItemOpcode
<1> QED
  BY <1>1, <1>3, <1>4, <1>5

LEMMA LeafNode ==
  ASSUME NEW l \in Leaves, LeafOk(l), NEW garbage \in Garbage
  PROVE  LET node == ff3_new_leaf(l, garbage)
         IN /\ node \in NodeType
            /\ node.oper = l.oper /\ node.left = 0 /\ node.right = 0 /\ node.field = l.field
            /\ node.values = [i \in DOMAIN l.literals |-> ff3_type_validate(l, i)]
            /\ l.oper \notin {"IN", "EXIST"} =>
                 /\ 1 \in DOMAIN l.literals
                 /\ \A i \in DOMAIN l.literals : i = 1
                 /\ node.opcode = ff3_type_validate(l, 1).opcode
<1> DEFINE items == [i \in DOMAIN l.literals |-> ff3_type_validate(l, i)]
           o     == IF l.oper \in {"IN", "EXIST"} THEN garbage ELSE items[1].opcode
           node  == ff3_new_leaf(l, garbage)
<1>1. node = [oper |-> l.oper, opcode |-> o, field |-> l.field, values |-> items,
              left |-> 0, right |-> 0]
  BY DEF ff3_new_leaf, NULL
<1>2. /\ l.oper \in {"EQ", "GT", "LT", "ISSET", "IN", "EXIST"}
      /\ l.literals \in Seq(Num \cup Word \cup Time \cup Net4 \cup Net6)
      /\ l.oper \notin {"IN", "EXIST"} => Len(l.literals) = 1
      /\ garbage \in Opcode
  BY LeafAssumption
<1>3. l.field \in DOMAIN Type
  BY DEF LeafOk
<1>4. \A i \in DOMAIN l.literals : items[i] \in [value : CastValue, opcode : Opcode]
  BY ItemOpcode
<1>5. DOMAIN l.literals = 1 .. Len(l.literals) /\ Len(l.literals) \in Nat
  BY <1>2
<1>6. items \in Seq([value : CastValue, opcode : Opcode])
  <2> DEFINE S == [value : CastValue, opcode : Opcode]
  <2>1. items \in [1 .. Len(l.literals) -> S]
    BY <1>4, <1>5
  <2> HIDE DEF items, S
  <2>2. items \in Seq(S)
    BY <1>5, <2>1, FunctionIsSeq
  <2> QED
    BY <2>2 DEF S
<1>7. l.oper \notin {"IN", "EXIST"} =>
        /\ 1 \in DOMAIN l.literals
        /\ \A i \in DOMAIN l.literals : i = 1
        /\ items[1] = ff3_type_validate(l, 1) /\ o = ff3_type_validate(l, 1).opcode
  <2> SUFFICES ASSUME l.oper \notin {"IN", "EXIST"}
               PROVE  /\ 1 \in DOMAIN l.literals
                      /\ \A i \in DOMAIN l.literals : i = 1
                      /\ items[1] = ff3_type_validate(l, 1) /\ o = ff3_type_validate(l, 1).opcode
    OBVIOUS
  <2>1. DOMAIN l.literals = 1 .. 1
    BY <1>2, <1>5
  <2>2. 1 \in DOMAIN l.literals /\ \A i \in DOMAIN l.literals : i = 1
    BY <2>1
  <2>3. items[1] = ff3_type_validate(l, 1)
    BY <2>2
  <2> HIDE DEF items
  <2> QED
    BY <2>2, <2>3
<1>8. o \in Opcode
  BY <1>2, <1>4, <1>7
<1> HIDE DEF items, o, node
<1>9. node \in NodeType
  BY <1>1, <1>2, <1>3, <1>6, <1>8 DEF NodeType
<1> QED
  BY <1>1, <1>7, <1>9 DEF items, node

\* A new leaf lets through the records it means, whatever its children.
LEMMA LeafMatches ==
  ASSUME NEW l \in Leaves, LeafOk(l), Comparable(l), NEW garbage \in Garbage,
         NEW r \in Records, NEW a, NEW b
  PROVE  NodeValue(ff3_new_leaf(l, garbage), a, b, r) > 0 <=> LeafMeans(l, r)
<1> DEFINE node == ff3_new_leaf(l, garbage)
           x    == r[l.field]
           D    == DOMAIN l.literals
<1>1. /\ node.oper = l.oper /\ node.field = l.field
      /\ DOMAIN node.values = D /\ \A i \in D : node.values[i] = ff3_type_validate(l, i)
      /\ l.oper \notin {"IN", "EXIST"} =>
           1 \in D /\ (\A i \in D : i = 1) /\ node.opcode = ff3_type_validate(l, 1).opcode
  <2>1. node.values = [i \in D |-> ff3_type_validate(l, i)]
    BY LeafNode
  <2>2. DOMAIN node.values = D /\ \A i \in D : node.values[i] = ff3_type_validate(l, i)
    BY <2>1
  <2>3. node.oper = l.oper /\ node.field = l.field
    BY LeafNode
  <2>4. l.oper \notin {"IN", "EXIST"} =>
          1 \in D /\ (\A i \in D : i = 1) /\ node.opcode = ff3_type_validate(l, 1).opcode
    BY LeafNode
  <2> QED
    BY <2>2, <2>3, <2>4
<1>2. l.oper \in {"EQ", "GT", "LT", "ISSET", "IN", "EXIST"}
  BY LeafAssumption
<1> SUFFICES NodeValue(node, a, b, r) > 0 <=> LeafMeans(l, r)
  OBVIOUS
<1> HIDE DEF node
<1>3. CASE l.oper = "EXIST"
  BY <1>1, <1>3 DEF NodeValue, LeafMeans
<1>4. CASE l.oper = "IN"
  <2>1. \A i \in D : ff3_oper_eval_V2(ff3_type_validate(l, i).opcode, ff3_type_validate(l, i).value, x) > 0
                     <=> Equals(l.literals[i], x)
    BY <1>4, ItemMeans DEF ItemOper
  <2>2. NodeValue(node, a, b, r) > 0 <=>
          \E i \in D : ff3_oper_eval_V2(ff3_type_validate(l, i).opcode, ff3_type_validate(l, i).value, x) > 0
    BY <1>1, <1>4 DEF NodeValue, Bool, data_func
  <2>3. \A i \in D : l.literals[i].kind = KindOf(Type[l.field])
    BY ItemMeans
  <2>4. LeafMeans(l, r) <=> \E i \in D : Equals(l.literals[i], x)
    BY <1>4, <2>3 DEF LeafMeans
  <2> QED
    BY <2>1, <2>2, <2>4
<1>5. CASE l.oper \notin {"IN", "EXIST"}
  <2> DEFINE lit == l.literals[1]
             e   == ff3_oper_eval_V2(ff3_type_validate(l, 1).opcode, ff3_type_validate(l, 1).value, x)
  <2>1. NodeValue(node, a, b, r) = e
    BY <1>1, <1>2, <1>5 DEF NodeValue, data_func
  <2>2. /\ lit.kind = KindOf(Type[l.field])
        /\ e > 0 <=> \/ l.oper = "EQ" /\ Equals(lit, x)
                     \/ l.oper = "GT" /\ x > lit.val
                     \/ l.oper = "LT" /\ x < lit.val
                     \/ l.oper = "ISSET" /\ HasBits(x, lit.val)
    BY <1>1, <1>5, ItemMeans DEF ItemOper
  <2>3. {v \in {l.literals[i] : i \in D} : v.kind = KindOf(Type[l.field])} = {lit}
    BY <1>1, <1>5, <2>2
  <2> HIDE DEF e, lit, x
  <2>4. LeafMeans(l, r) <=> \/ l.oper = "EQ" /\ Equals(lit, x)
                            \/ l.oper = "GT" /\ x > lit.val
                            \/ l.oper = "LT" /\ x < lit.val
                            \/ l.oper = "ISSET" /\ HasBits(x, lit.val)
    BY <1>2, <1>5, <2>2, <2>3 DEF LeafMeans, x
  <2> QED
    BY <2>1, <2>2, <2>4
<1> QED
  BY <1>3, <1>4, <1>5

-----------------------------------------------------------------------------
(* What a reduction does to the nodes and to the expressions.              *)

LEMMA NewNode ==
  ASSUME NEW nodes \in Seq(NodeType), Children(nodes), NEW node \in NodeType,
         node.left <= Len(nodes), node.right <= Len(nodes)
  PROVE  LET more == Append(nodes, node)
             N    == Len(nodes) + 1
         IN /\ more \in Seq(NodeType) /\ Children(more)
            /\ Len(more) = N /\ more[N] = node
            /\ \A n \in 1 .. Len(nodes) : more[n] = nodes[n]
            /\ \A r : ff3_eval_node(more, r)[N] =
                        NodeValue(node, ff3_eval_node(nodes, r)[node.left],
                                  ff3_eval_node(nodes, r)[node.right], r)
<1> DEFINE more == Append(nodes, node)
           L    == Len(nodes)
           N    == L + 1
<1>1. /\ L \in Nat /\ more \in Seq(NodeType) /\ Len(more) = N /\ more[N] = node
      /\ \A n \in 1 .. L : more[n] = nodes[n]
  OBVIOUS
<1>2. node.left \in 0 .. L /\ node.right \in 0 .. L
  <2>1. node.left \in Nat /\ node.right \in Nat
    BY DEF NodeType
  <2>2. L \in Nat /\ node.left <= L /\ node.right <= L
    OBVIOUS
  <2> HIDE DEF L
  <2> QED
    BY <2>1, <2>2
<1>3. \A n \in 1 .. L : nodes[n].left \in 0 .. n - 1 /\ nodes[n].right \in 0 .. n - 1
  BY DEF Children
<1> HIDE DEF more
<1>4. \A n \in 1 .. N : more[n].left \in 0 .. n - 1 /\ more[n].right \in 0 .. n - 1
  <2> TAKE n \in 1 .. N
  <2>1. CASE n = N
    BY <1>1, <1>2, <2>1
  <2>2. CASE n # N
    <3>1. n \in 1 .. L
      BY <1>1, <2>2
    <3> QED
      BY <1>1, <1>3, <3>1
  <2> QED
    BY <2>1, <2>2
<1>5. Children(more)
  BY <1>1, <1>4 DEF Children
<1>6. ASSUME NEW r
      PROVE  ff3_eval_node(more, r)[N] =
                        NodeValue(node, ff3_eval_node(nodes, r)[node.left],
                                  ff3_eval_node(nodes, r)[node.right], r)
  <2>1. \A n \in 0 .. L : ff3_eval_node(nodes, r)[n] = ff3_eval_node(more, r)[n]
    <3>1. L <= Len(nodes) /\ L <= Len(more) /\ \A n \in 1 .. L : nodes[n] = more[n]
      BY <1>1
    <3> HIDE DEF L
    <3> QED
      BY <1>1, <1>5, <3>1, EvalAgree
  <2>2. N \in 1 .. Len(more)
    BY <1>1
  <2>3. ff3_eval_node(more, r)[N] =
          NodeValue(more[N], ff3_eval_node(more, r)[more[N].left],
                    ff3_eval_node(more, r)[more[N].right], r)
    BY <1>5, <2>2, EvalDef
  <2> QED
    BY <1>1, <1>2, <2>1, <2>3
<1> QED
  BY <1>1, <1>5, <1>6 DEF more

\* ff3_negate turns an opcode to and fro.
LEMMA Negated ==
  ASSUME NEW o \in Opcode, o[1] \in Negatable
  PROVE  /\ ff3_negate(o) \in Opcode
         /\ ff3_negate(o)[1] \in Negatable
         /\ ff3_negate(ff3_negate(o)) = o
         /\ o = <<"ISSET", "UIn">> => ff3_negate(o) = <<"INS", "UIn">>
         /\ o = <<"INS", "UIn">> => ff3_negate(o) = <<"ISSET", "UIn">>
<1> DEFINE b == o[2]
<1>1. b \in {"UIn", "UI", "AD4", "AD6", "ADP", ""} /\ o = <<o[1], b>>
  <2> DEFINE A == {"EQ", "GT", "LT", "ISSET", "INS", "ERR"}
             B == {"UIn", "UI", "AD4", "AD6", "ADP", ""}
  <2>1. o \in A \X B
    BY DEF Opcode
  <2> HIDE DEF A, B
  <2>2. o[2] \in B /\ o = <<o[1], o[2]>>
    BY <2>1
  <2> QED
    BY <2>2 DEF B
<1>2. o = <<"ISSET", b>> \/ o = <<"INS", b>>
  BY <1>1 DEF Negatable
<1> HIDE DEF b
<1>3. ff3_negate(<<"ISSET", b>>) = <<"INS", b>> /\ ff3_negate(<<"INS", b>>) = <<"ISSET", b>>
  BY DEF ff3_negate
<1>4. <<"ISSET", b>> \in Opcode /\ <<"INS", b>> \in Opcode
  BY <1>1, OpcodePair
<1>5. <<"ISSET", b>>[1] \in Negatable /\ <<"INS", b>>[1] \in Negatable
  BY DEF Negatable
<1>6. CASE o = <<"ISSET", b>>
  <2>1. ff3_negate(o) = <<"INS", b>> /\ ff3_negate(ff3_negate(o)) = o
    BY <1>3, <1>6
  <2>2. o = <<"ISSET", "UIn">> => b = "UIn"
    BY <1>6
  <2>3. o # <<"INS", "UIn">>
    BY <1>6
  <2> QED
    BY <1>4, <1>5, <2>1, <2>2, <2>3
<1>7. CASE o = <<"INS", b>>
  <2>1. ff3_negate(o) = <<"ISSET", b>> /\ ff3_negate(ff3_negate(o)) = o
    BY <1>3, <1>7
  <2>2. o = <<"INS", "UIn">> => b = "UIn"
    BY <1>7
  <2>3. o # <<"ISSET", "UIn">>
    BY <1>7
  <2> QED
    BY <1>4, <1>5, <2>1, <2>2, <2>3
<1> QED
  BY <1>2, <1>6, <1>7

\* A negation that is folded into the newest node.
Folded(nodes, L) == [nodes EXCEPT ![L].opcode = ff3_negate(@)]

LEMMA FoldedNode ==
  ASSUME NEW nodes \in Seq(NodeType), Children(nodes), NEW L, L = Len(nodes), L > 0,
         nodes[L].opcode[1] \in Negatable
  PROVE  LET more == Folded(nodes, L)
         IN /\ more \in Seq(NodeType) /\ Children(more) /\ Len(more) = L
            /\ \A n \in 1 .. L - 1 : more[n] = nodes[n]
            /\ more[L].oper = nodes[L].oper /\ more[L].field = nodes[L].field
            /\ more[L].values = nodes[L].values
            /\ more[L].opcode = ff3_negate(nodes[L].opcode)
            /\ more[L].left = nodes[L].left /\ more[L].right = nodes[L].right
<1> DEFINE more == Folded(nodes, L)
           neg  == ff3_negate(nodes[L].opcode)
           node == [nodes[L] EXCEPT !.opcode = neg]
<1>1. L \in Nat /\ L \in 1 .. L /\ nodes[L] \in NodeType
  OBVIOUS
<1>2. neg \in Opcode
  <2>1. nodes[L].opcode \in Opcode
    BY <1>1 DEF NodeType
  <2> QED
    BY <2>1, Negated
<1>3. more = [nodes EXCEPT ![L] = node]
  BY DEF Folded
<1> HIDE DEF more, neg
<1>4. /\ node \in NodeType
      /\ node.oper = nodes[L].oper /\ node.field = nodes[L].field
      /\ node.values = nodes[L].values /\ node.opcode = neg
      /\ node.left = nodes[L].left /\ node.right = nodes[L].right
  BY <1>1, <1>2 DEF NodeType
<1> HIDE DEF node
<1>5. /\ more \in Seq(NodeType) /\ Len(more) = L /\ more[L] = node
      /\ \A n \in 1 .. L - 1 : more[n] = nodes[n]
  BY <1>1, <1>3, <1>4
<1>6. Children(more)
  <2>1. \A n \in 1 .. L : nodes[n].left \in 0 .. n - 1 /\ nodes[n].right \in 0 .. n - 1
    BY DEF Children
  <2>2. \A n \in 1 .. L : more[n].left = nodes[n].left /\ more[n].right = nodes[n].right
    <3> TAKE n \in 1 .. L
    <3>1. CASE n = L
      BY <1>4, <1>5, <3>1
    <3>2. CASE n # L
      <4>1. n \in 1 .. L - 1
        BY <1>1, <3>2
      <4> QED
        BY <1>5, <4>1
    <3> QED
      BY <3>1, <3>2
  <2> QED
    BY <1>1, <1>5, <2>1, <2>2 DEF Children
<1> QED
  BY <1>4, <1>5, <1>6 DEF more, neg

LEMMA NewExpr ==
  ASSUME NEW es, Ordered(es), NEW e \in Expr,
         e.op = "not" => e.arg \in 1 .. Len(es),
         e.op \in {"AND", "OR"} => e.left \in 1 .. Len(es) /\ e.right \in 1 .. Len(es)
  PROVE  LET more == Append(es, e)
             N    == Len(es) + 1
         IN /\ Ordered(more) /\ Len(more) = N /\ more[N] = e /\ N \in Nat
            /\ Means(more)[N] = Meaning(more, Means(more), N)
            /\ \A x \in 1 .. Len(es) :
                 /\ Means(more)[x] = Means(es)[x]
                 /\ Negation(more, Means(more), x) = Negation(es, Means(es), x)
<1> DEFINE more == Append(es, e)
           L    == Len(es)
           N    == L + 1
<1>0. /\ es \in Seq(Expr)
      /\ \A x \in 1 .. Len(es) :
       /\ es[x].op = "not" => es[x].arg \in 1 .. x - 1
       /\ es[x].op \in {"AND", "OR"} => es[x].left \in 1 .. x - 1 /\ es[x].right \in 1 .. x - 1
  BY DEF Ordered
<1>1. /\ L \in Nat /\ more \in Seq(Expr) /\ Len(more) = N /\ more[N] = e
      /\ \A x \in 1 .. L : more[x] = es[x]
  BY <1>0
<1> HIDE DEF more
<1>2. Ordered(more)
  <2>1. ASSUME NEW x \in 1 .. Len(more)
        PROVE  /\ more[x].op = "not" => more[x].arg \in 1 .. x - 1
               /\ more[x].op \in {"AND", "OR"} =>
                    more[x].left \in 1 .. x - 1 /\ more[x].right \in 1 .. x - 1
    <3>1. CASE x = N
      BY <1>1, <3>1
    <3>2. CASE x # N
      <4>1. x \in 1 .. L
        BY <1>1, <3>2
      <4> QED
        BY <1>0, <1>1, <4>1
    <3> QED
      BY <3>1, <3>2
  <2> QED
    BY <1>1, <2>1 DEF Ordered
<1>3. \A x \in 1 .. L : Means(more)[x] = Means(es)[x]
  BY <1>1, <1>2, MeansAgree
<1>4. Means(more)[N] = Meaning(more, Means(more), N)
  <2>1. N \in 1 .. Len(more)
    BY <1>1
  <2> QED
    BY <1>2, <2>1, MeansDef
<1>5. ASSUME NEW x \in 1 .. L
      PROVE  Negation(more, Means(more), x) = Negation(es, Means(es), x)
  <2>1. more[x] = es[x] /\ Means(more)[x] = Means(es)[x]
    BY <1>1, <1>3
  <2>2. es[x].op = "not" => Means(more)[es[x].arg] = Means(es)[es[x].arg]
    <3> SUFFICES ASSUME es[x].op = "not" PROVE Means(more)[es[x].arg] = Means(es)[es[x].arg]
      OBVIOUS
    <3>1. es[x].arg \in 1 .. L
      BY <1>0, <1>1
    <3> QED
      BY <1>3, <3>1
  <2> QED
    BY <2>1, <2>2 DEF Negation
<1> QED
  BY <1>1, <1>2, <1>3, <1>4, <1>5 DEF more

-----------------------------------------------------------------------------
(* The trees of the parser: the structure.                                 *)

Item == [root : Nat, expr : Nat, misread : BOOLEAN]

\* The newest node is the root of the last item, and the roots of the items
\* before it are older.
TreesOK ==
  /\ heap \in Seq(NodeType)
  /\ Children(heap)
  /\ Ordered(exprs)
  /\ stack \in Seq(Item)
  /\ \A i \in 1 .. Len(stack) :
       stack[i].root \in 1 .. Len(heap) /\ stack[i].expr \in 1 .. Len(exprs)
  /\ \A i, j \in 1 .. Len(stack) : i < j => stack[i].root < stack[j].root
  /\ stack # <<>> => Top.root = Len(heap)

\* A reduction of n items: their new root is the newest node, and the trees of
\* the other items are left alone.
Grown(n, new) ==
  /\ new.heap \in Seq(NodeType)
  /\ Children(new.heap)
  /\ new.root = Len(new.heap) /\ new.root > 0
  /\ \A i \in 1 .. Len(stack) - n :
       /\ stack[i].root < new.root
       /\ \A m \in 1 .. stack[i].root : new.heap[m] = heap[m]

\* An expression of the grammar: its parts were parsed before it.
Part(e) ==
  /\ e \in Expr
  /\ e.op = "not" => e.arg \in 1 .. Len(exprs)
  /\ e.op \in {"AND", "OR"} => e.left \in 1 .. Len(exprs) /\ e.right \in 1 .. Len(exprs)

LEMMA AppendGrown ==
  ASSUME TreesOK, NEW node \in NodeType, node.left <= Len(heap), node.right <= Len(heap),
         NEW n \in 0 .. Len(stack)
  PROVE  Grown(n, [heap |-> Append(heap, node), root |-> Len(heap) + 1])
<1> DEFINE more == Append(heap, node)
           new  == [heap |-> more, root |-> Len(heap) + 1]
<1>1. heap \in Seq(NodeType) /\ Children(heap) /\ Len(stack) \in Nat /\ Len(heap) \in Nat
  BY DEF TreesOK
<1>2. /\ more \in Seq(NodeType) /\ Children(more) /\ Len(more) = Len(heap) + 1
      /\ \A m \in 1 .. Len(heap) : more[m] = heap[m]
  BY <1>1, NewNode
<1> HIDE DEF more
<1>3. ASSUME NEW i \in 1 .. Len(stack) - n
      PROVE  /\ stack[i].root < Len(heap) + 1
             /\ \A m \in 1 .. stack[i].root : more[m] = heap[m]
  <2>1. stack[i].root \in 1 .. Len(heap)
    <3>1. i \in 1 .. Len(stack)
      BY <1>1
    <3> QED
      BY <3>1 DEF TreesOK
  <2>2. \A m \in 1 .. stack[i].root : m \in 1 .. Len(heap)
    BY <1>1, <2>1
  <2> QED
    BY <1>1, <1>2, <2>1, <2>2
<1>4. new.heap = more /\ new.root = Len(heap) + 1
  OBVIOUS
<1> HIDE DEF new
<1>5. Grown(n, new)
  BY <1>1, <1>2, <1>3, <1>4 DEF Grown
<1> QED
  BY <1>5 DEF new, more

LEMMA FoldGrown ==
  ASSUME TreesOK, stack # <<>>, heap[Top.root].opcode[1] \in Negatable
  PROVE  Grown(1, [heap |-> Folded(heap, Top.root), root |-> Top.root])
<1> DEFINE L    == Top.root
           more == Folded(heap, L)
           new  == [heap |-> more, root |-> L]
<1>1. /\ heap \in Seq(NodeType) /\ Children(heap) /\ Len(stack) \in Nat /\ L = Len(heap)
      /\ Len(stack) \in 1 .. Len(stack) /\ Len(heap) \in Nat
  BY DEF TreesOK
<1>2. L > 0
  BY <1>1 DEF TreesOK
<1>3. heap[L].opcode[1] \in Negatable
  OBVIOUS
<1>4. \A i \in 1 .. Len(stack) - 1 : stack[i].root < L /\ stack[i].root \in 1 .. Len(heap)
  <2> TAKE i \in 1 .. Len(stack) - 1
  <2>1. i \in 1 .. Len(stack) /\ i < Len(stack)
    BY <1>1
  <2> QED
    BY <1>1, <2>1 DEF TreesOK, Top
<1> HIDE DEF L
<1>5. /\ more \in Seq(NodeType) /\ Children(more) /\ Len(more) = L
      /\ \A m \in 1 .. L - 1 : more[m] = heap[m]
  BY <1>1, <1>2, <1>3, FoldedNode
<1> HIDE DEF more
<1>6. \A i \in 1 .. Len(stack) - 1 : \A m \in 1 .. stack[i].root : more[m] = heap[m]
  <2> TAKE i \in 1 .. Len(stack) - 1
  <2> TAKE m \in 1 .. stack[i].root
  <2>1. m \in 1 .. L - 1
    BY <1>1, <1>4
  <2> QED
    BY <1>5, <2>1
<1>7. new.heap = more /\ new.root = L
  OBVIOUS
<1> HIDE DEF new
<1>8. Grown(1, new)
  BY <1>2, <1>4, <1>5, <1>6, <1>7 DEF Grown
<1> QED
  BY <1>8 DEF new, more, L

LEMMA InnerNode ==
  ASSUME NEW oper \in {"YES", "NOT", "AND", "OR"}, NEW garbage \in Garbage,
         NEW left \in Nat, NEW right \in Nat
  PROVE  LET node == Node(oper, garbage, left, right)
         IN /\ node \in NodeType /\ node.oper = oper /\ node.left = left /\ node.right = right
            /\ ~ IsLeaf(node)
<1>1. garbage \in Opcode
  BY LeafAssumption
<1>2. <<>> \in Seq([value : CastValue, opcode : Opcode])
  OBVIOUS
<1> QED
  BY <1>1, <1>2 DEF Node, NodeType, IsLeaf

LEMMA NewNodeGrown ==
  ASSUME TreesOK, NEW oper \in {"YES", "NOT", "AND", "OR"}, NEW garbage \in Garbage,
         NEW left \in 0 .. Len(heap), NEW right \in 0 .. Len(heap), NEW n \in 0 .. Len(stack),
         oper = "NOT" => n = 1 /\ stack # <<>> /\ right = Top.root
  PROVE  Grown(n, ff3_new_node(left, oper, right, garbage))
<1>1. CASE oper = "NOT" /\ heap[right].opcode[1] \in Negatable
  <2>1. ff3_new_node(left, oper, right, garbage)
        = [heap |-> Folded(heap, right), root |-> right]
    BY <1>1 DEF ff3_new_node, Folded
  <2>2. n = 1 /\ stack # <<>> /\ right = Top.root
    BY <1>1
  <2> QED
    BY <1>1, <2>1, <2>2, FoldGrown
<1>2. CASE ~ (oper = "NOT" /\ heap[right].opcode[1] \in Negatable)
  <2> DEFINE node == Node(oper, garbage, left, right)
  <2>1. ff3_new_node(left, oper, right, garbage)
        = [heap |-> Append(heap, node), root |-> Len(heap) + 1]
    BY <1>2 DEF ff3_new_node
  <2>2. left \in Nat /\ right \in Nat /\ left <= Len(heap) /\ right <= Len(heap)
    BY DEF TreesOK
  <2>3. node \in NodeType /\ node.left = left /\ node.right = right
    BY <2>2, InnerNode
  <2> HIDE DEF node
  <2> QED
    BY <2>1, <2>2, <2>3, AppendGrown
<1> QED
  BY <1>1, <1>2

\* The stack after a reduction.
LEMMA ReduceStack ==
  ASSUME TreesOK, NEW n \in 0 .. Len(stack), NEW new, new.root \in Nat, NEW e,
         NEW misread \in BOOLEAN, Reduce(n, new, e, misread), NEW K, K = Len(stack) - n
  PROVE  /\ stack' \in Seq(Item) /\ Len(stack') = K + 1
         /\ stack'[K + 1].root = new.root /\ stack'[K + 1].expr = Len(exprs) + 1
         /\ stack'[K + 1].misread = misread
         /\ \A i \in 1 .. K : stack'[i] = stack[i]
<1> DEFINE item == [root |-> new.root, expr |-> Len(exprs) + 1, misread |-> misread]
           rest == SubSeq(stack, 1, K)
<1>1. stack \in Seq(Item) /\ Len(stack) \in Nat /\ K \in Nat /\ K <= Len(stack) /\ Len(exprs) \in Nat
  BY DEF TreesOK, Ordered
<1>2. stack' = Append(rest, item)
  BY DEF Reduce
<1>3. item \in Item
  BY <1>1 DEF Item
<1>4. rest \in Seq(Item) /\ Len(rest) = K /\ \A i \in 1 .. K : rest[i] = stack[i]
  BY <1>1
<1>5. item.root = new.root /\ item.expr = Len(exprs) + 1 /\ item.misread = misread
  OBVIOUS
<1> HIDE DEF rest, item
<1>6. /\ stack' \in Seq(Item) /\ Len(stack') = K + 1 /\ stack'[K + 1] = item
      /\ \A i \in 1 .. K : stack'[i] = stack[i]
  BY <1>1, <1>2, <1>3, <1>4
<1> QED
  BY <1>5, <1>6

LEMMA ReduceTrees ==
  ASSUME TreesOK, NEW n \in 0 .. Len(stack), NEW new, Grown(n, new), NEW e, Part(e),
         NEW misread \in BOOLEAN, Reduce(n, new, e, misread)
  PROVE  TreesOK'
<1> DEFINE K == Len(stack) - n
<1>1. /\ Len(stack) \in Nat /\ K \in Nat /\ K <= Len(stack)
      /\ Ordered(exprs) /\ Len(exprs) \in Nat
  BY DEF TreesOK, Ordered
<1>2. heap' = new.heap /\ exprs' = Append(exprs, e)
  BY DEF Reduce
<1>3. new.root \in Nat
  BY DEF Grown
<1>4. /\ stack' \in Seq(Item) /\ Len(stack') = K + 1
      /\ stack'[K + 1].root = new.root /\ stack'[K + 1].expr = Len(exprs) + 1
      /\ \A i \in 1 .. K : stack'[i] = stack[i]
  BY <1>3, ReduceStack
<1> HIDE DEF K
<1>5. Ordered(exprs') /\ Len(exprs') = Len(exprs) + 1
  BY <1>1, <1>2, NewExpr DEF Part
<1>6. /\ new.root \in 1 .. Len(heap') /\ Len(heap') = new.root
      /\ heap' \in Seq(NodeType) /\ Children(heap')
  BY <1>2, <1>3 DEF Grown
<1>7. \A i \in 1 .. K : stack[i].root < new.root /\ stack[i].root \in 1 .. Len(heap)
                        /\ stack[i].expr \in 1 .. Len(exprs)
  BY <1>1 DEF TreesOK, Grown, K
<1>8. \A i \in 1 .. Len(stack') :
         stack'[i].root \in 1 .. Len(heap') /\ stack'[i].expr \in 1 .. Len(exprs')
  <2> TAKE i \in 1 .. Len(stack')
  <2>1. CASE i = K + 1
    BY <1>1, <1>4, <1>5, <1>6, <2>1
  <2>2. CASE i # K + 1
    <3>1. i \in 1 .. K
      BY <1>1, <1>4, <2>2
    <3>2. /\ stack'[i].root < new.root /\ stack'[i].root \in 1 .. Len(heap)
          /\ stack'[i].expr \in 1 .. Len(exprs)
      BY <1>4, <1>7, <3>1
    <3>3. stack'[i].root \in 1 .. Len(heap')
      <4>1. new.root \in Nat /\ Len(heap) \in Nat
        BY <1>3 DEF TreesOK
      <4> QED
        BY <1>6, <3>2, <4>1
    <3>4. stack'[i].expr \in 1 .. Len(exprs')
      BY <1>1, <1>5, <3>2
    <3> QED
      BY <3>3, <3>4
  <2> QED
    BY <2>1, <2>2
<1>9. \A i, j \in 1 .. Len(stack') : i < j => stack'[i].root < stack'[j].root
  <2> SUFFICES ASSUME NEW i \in 1 .. K + 1, NEW j \in 1 .. K + 1, i < j
               PROVE  stack'[i].root < stack'[j].root
    BY <1>4
  <2>1. i \in 1 .. K
    BY <1>1
  <2>2. CASE j = K + 1
    BY <1>4, <1>7, <2>1, <2>2
  <2>3. CASE j # K + 1
    <3>1. j \in 1 .. K /\ K \in 0 .. Len(stack)
      BY <1>1, <2>3
    <3>2. i \in 1 .. Len(stack) /\ j \in 1 .. Len(stack)
      BY <1>1, <2>1, <3>1
    <3>3. stack[i].root < stack[j].root
      BY <3>2 DEF TreesOK
    <3> QED
      BY <1>4, <2>1, <3>1, <3>3
  <2> QED
    BY <2>2, <2>3
<1>10. Top'.root = Len(heap')
  BY <1>4, <1>6 DEF Top
<1> QED
  BY <1>4, <1>5, <1>6, <1>8, <1>9, <1>10 DEF TreesOK

LEMMA TopItem ==
  ASSUME TreesOK, stack # <<>>
  PROVE  /\ Len(stack) \in 1 .. Len(stack) /\ 1 \in 0 .. Len(stack)
         /\ Top.root = Len(heap) /\ Len(heap) \in 1 .. Len(heap) /\ Len(heap) \in Nat
         /\ heap[Len(heap)] \in NodeType
         /\ Top.expr \in 1 .. Len(exprs) /\ Top.misread \in BOOLEAN
<1>1. stack \in Seq(Item) /\ Len(stack) \in Nat /\ Len(stack) # 0
  BY DEF TreesOK
<1>2. Len(stack) \in 1 .. Len(stack) /\ 1 \in 0 .. Len(stack)
  BY <1>1
<1>3. stack[Len(stack)] \in Item
  BY <1>1, <1>2
<1>4. /\ stack[Len(stack)].root \in 1 .. Len(heap) /\ stack[Len(stack)].expr \in 1 .. Len(exprs)
      /\ Top.root = Len(heap) /\ heap \in Seq(NodeType)
  BY <1>2 DEF TreesOK
<1> QED
  BY <1>2, <1>3, <1>4 DEF Top, Item

LEMMA SecondItem ==
  ASSUME TreesOK, Len(stack) >= 2
  PROVE  LET left == stack[Len(stack) - 1]
         IN /\ stack # <<>> /\ 2 \in 0 .. Len(stack)
            /\ Len(stack) - 1 \in 1 .. Len(stack)
            /\ left.root \in 1 .. Len(heap) /\ left.expr \in 1 .. Len(exprs)
            /\ left.misread \in BOOLEAN
<1>1. stack \in Seq(Item) /\ Len(stack) \in Nat
  BY DEF TreesOK
<1>2. stack # <<>> /\ 2 \in 0 .. Len(stack) /\ Len(stack) - 1 \in 1 .. Len(stack)
  BY <1>1
<1>3. stack[Len(stack) - 1] \in Item
  BY <1>1, <1>2
<1>4. stack[Len(stack) - 1].root \in 1 .. Len(heap) /\ stack[Len(stack) - 1].expr \in 1 .. Len(exprs)
  BY <1>2 DEF TreesOK
<1> QED
  BY <1>2, <1>3, <1>4 DEF Item

\* The expressions that the grammar builds.
LEMMA Parts ==
  /\ \A l \in Leaves : Part([op |-> "leaf", leaf |-> l])
  /\ Part([op |-> "any"])
  /\ \A a \in 1 .. Len(exprs) : a \in Nat => Part([op |-> "not", arg |-> a])
  /\ \A oper \in {"AND", "OR"} : \A a, b \in 1 .. Len(exprs) :
       a \in Nat /\ b \in Nat => Part([op |-> oper, left |-> a, right |-> b])
<1>1. \A l \in Leaves : Part([op |-> "leaf", leaf |-> l])
  BY DEF Part, Expr
<1>2. Part([op |-> "any"])
  BY DEF Part, Expr
<1>3. \A a \in 1 .. Len(exprs) : a \in Nat => Part([op |-> "not", arg |-> a])
  BY DEF Part, Expr
<1>4. \A oper \in {"AND", "OR"} : \A a, b \in 1 .. Len(exprs) :
        a \in Nat /\ b \in Nat => Part([op |-> oper, left |-> a, right |-> b])
  BY DEF Part, Expr
<1> QED
  BY <1>1, <1>2, <1>3, <1>4

LEMMA TreesNext == TreesOK /\ [Next]_vars => TreesOK'
<1> SUFFICES ASSUME TreesOK, [Next]_vars PROVE TreesOK'
  OBVIOUS
<1>0. Len(heap) \in Nat /\ Len(exprs) \in Nat /\ Len(stack) \in Nat
  BY DEF TreesOK, Ordered
<1>1. ASSUME NEW l \in Leaves, ReduceLeaf(l)
      PROVE  TreesOK'
  <2> DEFINE new(garbage) == [heap |-> Append(heap, ff3_new_leaf(l, garbage)), root |-> Len(heap) + 1]
  <2>1. PICK garbage \in Garbage : Reduce(0, new(garbage), [op |-> "leaf", leaf |-> l], FALSE)
    BY <1>1 DEF ReduceLeaf
  <2>2. LeafOk(l)
    BY <1>1 DEF ReduceLeaf
  <2>3. /\ ff3_new_leaf(l, garbage) \in NodeType /\ ff3_new_leaf(l, garbage).left = 0
        /\ ff3_new_leaf(l, garbage).right = 0
    BY <2>2, LeafNode
  <2>4. 0 \in 0 .. Len(stack)
    BY <1>0
  <2>5. Grown(0, new(garbage))
    BY <1>0, <2>3, <2>4, AppendGrown
  <2> HIDE DEF new
  <2> QED
    BY <2>1, <2>4, <2>5, Parts, ReduceTrees
<1>2. ASSUME NEW l \in Leaves, ReduceBadLeaf(l)
      PROVE  TreesOK'
  BY <1>2 DEF ReduceBadLeaf, TreesOK, Top, Grown
<1>3. CASE ReduceAny
  <2>1. PICK garbage \in Garbage :
          Reduce(0, ff3_new_node(NULL, "YES", NULL, garbage), [op |-> "any"], FALSE)
    BY <1>3 DEF ReduceAny
  <2>2. NULL \in 0 .. Len(heap) /\ 0 \in 0 .. Len(stack)
    BY <1>0 DEF NULL
  <2>3. Grown(0, ff3_new_node(NULL, "YES", NULL, garbage))
    BY <2>2, NewNodeGrown
  <2> QED
    BY <2>1, <2>2, <2>3, Parts, ReduceTrees
<1>4. CASE ReduceNot
  <2> DEFINE child   == heap[Top.root]
             misread == Top.misread \/ (~ IsLeaf(child) /\ child.opcode[1] \in Negatable)
  <2>1. PICK garbage \in Garbage :
          Reduce(1, ff3_new_node(NULL, "NOT", Top.root, garbage),
                 [op |-> "not", arg |-> Top.expr], misread)
    BY <1>4 DEF ReduceNot
  <2>2. stack # <<>>
    BY <1>4 DEF ReduceNot
  <2>3. /\ NULL \in 0 .. Len(heap) /\ 1 \in 0 .. Len(stack) /\ Top.root \in 0 .. Len(heap)
        /\ Top.expr \in 1 .. Len(exprs) /\ Top.expr \in Nat
    BY <1>0, <2>2, TopItem DEF NULL
  <2>4. Grown(1, ff3_new_node(NULL, "NOT", Top.root, garbage))
    BY <2>2, <2>3, NewNodeGrown
  <2>5. misread \in BOOLEAN
    OBVIOUS
  <2> HIDE DEF misread
  <2> QED
    BY <2>1, <2>3, <2>4, <2>5, Parts, ReduceTrees
<1>5. ASSUME NEW oper \in {"AND", "OR"}, ReduceBinary(oper)
      PROVE  TreesOK'
  <2> DEFINE left    == stack[Len(stack) - 1]
             misread == left.misread \/ Top.misread
  <2>1. PICK garbage \in Garbage :
          Reduce(2, ff3_new_node(left.root, oper, Top.root, garbage),
                 [op |-> oper, left |-> left.expr, right |-> Top.expr], misread)
    BY <1>5 DEF ReduceBinary
  <2>2. Len(stack) >= 2
    BY <1>5 DEF ReduceBinary
  <2>3. /\ stack # <<>> /\ 2 \in 0 .. Len(stack)
        /\ left.root \in 1 .. Len(heap) /\ left.expr \in 1 .. Len(exprs)
    BY <2>2, SecondItem
  <2>4. Top.root \in 1 .. Len(heap) /\ Top.expr \in 1 .. Len(exprs)
    BY <2>3, TopItem
  <2> HIDE DEF left
  <2>5. /\ left.root \in 0 .. Len(heap) /\ Top.root \in 0 .. Len(heap)
        /\ left.expr \in Nat /\ Top.expr \in Nat
    BY <1>0, <2>3, <2>4
  <2>6. Grown(2, ff3_new_node(left.root, oper, Top.root, garbage))
    BY <2>3, <2>5, NewNodeGrown
  <2>7. misread \in BOOLEAN
    OBVIOUS
  <2> HIDE DEF misread
  <2>8. Part([op |-> oper, left |-> left.expr, right |-> Top.expr])
    BY <2>3, <2>4, <2>5, Parts
  <2> QED
    BY <2>1, <2>3, <2>6, <2>7, <2>8, ReduceTrees
<1>6. CASE UNCHANGED vars
  BY <1>6 DEF vars, TreesOK, Top
<1> QED
  BY <1>1, <1>2, <1>3, <1>4, <1>5, <1>6 DEF Next

LEMMA TreesInit == Init => TreesOK
<1> SUFFICES ASSUME Init PROVE TreesOK
  OBVIOUS
<1>1. heap = <<>> /\ stack = <<>> /\ exprs = <<>>
  BY DEF Init
<1>2. heap \in Seq(NodeType) /\ stack \in Seq(Item) /\ exprs \in Seq(Expr)
  BY <1>1
<1>3. Len(heap) = 0 /\ Len(stack) = 0 /\ Len(exprs) = 0
  BY <1>1
<1>4. Children(heap) /\ Ordered(exprs)
  BY <1>2, <1>3 DEF Children, Ordered
<1> QED
  BY <1>1, <1>2, <1>3, <1>4 DEF TreesOK

\* The nodes of a filter are allocated from the leaves up by the parser of
\* ffilter_gram.y: children are older than their parents, and the root that
\* was reduced last is the newest node.
THEOREM TreesTheorem == Spec => []TreesOK
BY TreesInit, TreesNext, PTL DEF Spec

-----------------------------------------------------------------------------
(* The trees of the parser: what they evaluate to.                         *)

\* A negation of the node turns its opcode round.
Flips(n) == IsLeaf(n) /\ n.opcode[1] \in Negatable

Opposite(n, r) ==
  ff3_oper_eval_V2(ff3_negate(n.opcode), n.values[1].value, data_func(r, n.field)) > 0

\* A tree evaluates to what its expression means; turned round, a bit test
\* evaluates to what the negation means, and every other node is denied.
ItemOK(nodes, es, root, e) ==
  /\ \A r \in Records : ff3_eval(nodes, root, r) <=> r \in Means(es)[e]
  /\ IF Flips(nodes[root])
     THEN \A r \in Records : Opposite(nodes[root], r) <=> r \in Negation(es, Means(es), e)
     ELSE Negation(es, Means(es), e) = Records \ Means(es)[e]

ItemsOK ==
  \A i \in 1 .. Len(stack) :
    ~ stack[i].misread => ItemOK(heap, exprs, stack[i].root, stack[i].expr)

\* Later nodes and expressions leave an item as it is.
LEMMA ItemKept ==
  ASSUME NEW nodes, NEW more, Children(nodes), Children(more),
         NEW root \in Nat, root > 0, root <= Len(nodes), root <= Len(more),
         \A m \in 1 .. root : more[m] = nodes[m],
         NEW e, Part(e), Ordered(exprs), NEW x \in 1 .. Len(exprs),
         ItemOK(nodes, exprs, root, x)
  PROVE  ItemOK(more, Append(exprs, e), root, x)
<1> DEFINE es == Append(exprs, e)
<1>1. /\ Means(es)[x] = Means(exprs)[x]
      /\ Negation(es, Means(es), x) = Negation(exprs, Means(exprs), x)
  BY NewExpr DEF Part
<1> HIDE DEF es
<1>2. root \in 1 .. root /\ root \in 0 .. root
  OBVIOUS
<1>3. more[root] = nodes[root]
  BY <1>2
<1>4. ASSUME NEW r \in Records
      PROVE  ff3_eval(more, root, r) <=> ff3_eval(nodes, root, r)
  <2>1. ff3_eval_node(nodes, r)[root] = ff3_eval_node(more, r)[root]
    BY <1>2, EvalAgree
  <2> QED
    BY <2>1 DEF ff3_eval
<1>5. ItemOK(more, es, root, x)
  BY <1>1, <1>3, <1>4 DEF ItemOK
<1> QED
  BY <1>5 DEF es

LEMMA ReduceItems ==
  ASSUME TreesOK, ItemsOK, NEW n \in 0 .. Len(stack), NEW new, Grown(n, new), NEW e, Part(e),
         NEW misread \in BOOLEAN, Reduce(n, new, e, misread),
         ~ misread => ItemOK(new.heap, Append(exprs, e), new.root, Len(exprs) + 1)
  PROVE  ItemsOK'
<1> DEFINE K == Len(stack) - n
<1>1. /\ Len(stack) \in Nat /\ K \in Nat /\ K <= Len(stack)
      /\ Ordered(exprs) /\ Children(heap) /\ Len(heap) \in Nat
  BY DEF TreesOK
<1>2. heap' = new.heap /\ exprs' = Append(exprs, e)
  BY DEF Reduce
<1>3. /\ Len(stack') = K + 1
      /\ stack'[K + 1].root = new.root /\ stack'[K + 1].expr = Len(exprs) + 1
      /\ stack'[K + 1].misread = misread
      /\ \A i \in 1 .. K : stack'[i] = stack[i]
  <2>1. new.root \in Nat
    BY DEF Grown
  <2> QED
    BY <2>1, ReduceStack
<1> HIDE DEF K
<1> SUFFICES ASSUME NEW i \in 1 .. K + 1, ~ stack'[i].misread
             PROVE  ItemOK(heap', exprs', stack'[i].root, stack'[i].expr)
  BY <1>3 DEF ItemsOK
<1>4. CASE i = K + 1
  BY <1>2, <1>3, <1>4
<1>5. CASE i # K + 1
  <2>1. i \in 1 .. K /\ i \in 1 .. Len(stack)
    BY <1>1, <1>5 DEF K
  <2>2. stack'[i] = stack[i]
    BY <1>3, <2>1
  <2>3. ItemOK(heap, exprs, stack[i].root, stack[i].expr)
    BY <2>1, <2>2 DEF ItemsOK
  <2>4. /\ stack[i].root \in 1 .. Len(heap) /\ stack[i].expr \in 1 .. Len(exprs)
    BY <2>1 DEF TreesOK
  <2>5. /\ Children(new.heap) /\ stack[i].root < Len(new.heap)
        /\ \A m \in 1 .. stack[i].root : new.heap[m] = heap[m]
    BY <2>1 DEF Grown, K
  <2> DEFINE root == stack[i].root
             x    == stack[i].expr
             more == new.heap
  <2>6. root \in Nat /\ root > 0 /\ root <= Len(heap) /\ root <= Len(more)
    <3>1. Len(more) \in Nat
      BY <2>5 DEF Children
    <3> QED
      BY <1>1, <2>4, <2>5, <3>1
  <2> HIDE DEF root, x, more
  <2>7. ItemOK(more, Append(exprs, e), root, x)
    BY <1>1, <2>3, <2>4, <2>5, <2>6, ItemKept DEF root, x, more
  <2> QED
    BY <1>2, <2>2, <2>7 DEF root, x, more
<1> QED
  BY <1>4, <1>5

\* A new node.
LEMMA NodeItem ==
  ASSUME TreesOK, NEW node \in NodeType, node.left <= Len(heap), node.right <= Len(heap),
         NEW e, Part(e), NEW es, es = Append(exprs, e), NEW N, N = Len(exprs) + 1,
         \A r \in Records :
           NodeValue(node, ff3_eval_node(heap, r)[node.left], ff3_eval_node(heap, r)[node.right], r) > 0
             <=> r \in Meaning(es, Means(es), N),
         IF Flips(node)
         THEN \A r \in Records : Opposite(node, r) <=> r \in Negation(es, Means(es), N)
         ELSE Negation(es, Means(es), N) = Records \ Meaning(es, Means(es), N)
  PROVE  ItemOK(Append(heap, node), es, Len(heap) + 1, N)
<1> DEFINE more == Append(heap, node)
           L    == Len(heap) + 1
<1>1. heap \in Seq(NodeType) /\ Children(heap) /\ Ordered(exprs)
  BY DEF TreesOK
<1>2. /\ more[L] = node
      /\ \A r : ff3_eval_node(more, r)[L] =
                  NodeValue(node, ff3_eval_node(heap, r)[node.left],
                            ff3_eval_node(heap, r)[node.right], r)
  BY <1>1, NewNode
<1>3. Means(es)[N] = Meaning(es, Means(es), N)
  BY <1>1, NewExpr DEF Part
<1> HIDE DEF more, L
<1>4. ItemOK(more, es, L, N)
  BY <1>2, <1>3 DEF ItemOK, ff3_eval
<1> QED
  BY <1>4 DEF more, L

LEMMA LeafItem ==
  ASSUME TreesOK, NEW l \in Leaves, LeafOk(l), Comparable(l), NEW garbage \in Garbage
  PROVE  ItemOK(Append(heap, ff3_new_leaf(l, garbage)), Append(exprs, [op |-> "leaf", leaf |-> l]),
                Len(heap) + 1, Len(exprs) + 1)
<1> DEFINE node == ff3_new_leaf(l, garbage)
           e    == [op |-> "leaf", leaf |-> l]
           es   == Append(exprs, e)
           N    == Len(exprs) + 1
<1>1. /\ node \in NodeType
      /\ node.oper = l.oper /\ node.left = 0 /\ node.right = 0 /\ node.field = l.field
      /\ node.values = [i \in DOMAIN l.literals |-> ff3_type_validate(l, i)]
      /\ l.oper \notin {"IN", "EXIST"} =>
           /\ 1 \in DOMAIN l.literals
           /\ node.opcode = ff3_type_validate(l, 1).opcode
  BY LeafNode
<1>2. Len(heap) \in Nat /\ Ordered(exprs) /\ Len(exprs) \in Nat
  BY DEF TreesOK, Ordered
<1>3. Part(e) /\ es[N] = e
  <2>1. Part(e)
    BY Parts
  <2> HIDE DEF e
  <2> QED
    BY <1>2, <2>1, NewExpr DEF Part
<1>4. e.op = "leaf" /\ e.leaf = l
  OBVIOUS
<1>5. es = Append(exprs, e) /\ N = Len(exprs) + 1
  OBVIOUS
<1>6. \A r \in Records :
        NodeValue(node, ff3_eval_node(heap, r)[node.left], ff3_eval_node(heap, r)[node.right], r) > 0
          <=> LeafMeans(l, r)
  BY LeafMatches
<1> HIDE DEF node, e, es, N
<1>7. Meaning(es, Means(es), N) = {r \in Records : LeafMeans(l, r)}
  BY <1>3, <1>4 DEF Meaning
<1>8. \A r \in Records :
        NodeValue(node, ff3_eval_node(heap, r)[node.left], ff3_eval_node(heap, r)[node.right], r) > 0
          <=> r \in Meaning(es, Means(es), N)
  BY <1>6, <1>7
<1>9. node.left <= Len(heap) /\ node.right <= Len(heap)
  BY <1>1, <1>2
<1>10. SUFFICES IF Flips(node)
               THEN \A r \in Records : Opposite(node, r) <=> r \in Negation(es, Means(es), N)
               ELSE Negation(es, Means(es), N) = Records \ Meaning(es, Means(es), N)
  <2>1. ItemOK(Append(heap, node), es, Len(heap) + 1, N)
    BY <1>1, <1>3, <1>5, <1>8, <1>9, NodeItem
  <2> QED
    BY <2>1 DEF node, e, es, N
<1>11. CASE l.oper = "ISSET"
  <2>1. 1 \in DOMAIN l.literals /\ node.opcode = ff3_type_validate(l, 1).opcode
    BY <1>1, <1>11
  <2>2. /\ node.values[1].value = ff3_type_validate(l, 1).value
        /\ ItemOper(l) = "ISSET"
    BY <1>1, <1>11, <2>1 DEF ItemOper
  <2>3. ASSUME NEW r \in Records
        PROVE  /\ node.opcode = <<"ISSET", "UIn">>
               /\ Opposite(node, r) <=> HasNoBit(r[l.field], l.literals[1].val)
    <3>1. /\ ff3_type_validate(l, 1).opcode = <<"ISSET", "UIn">>
          /\ ff3_oper_eval_V2(<<"INS", "UIn">>, ff3_type_validate(l, 1).value, r[l.field]) > 0
               <=> HasNoBit(r[l.field], l.literals[1].val)
      BY <2>1, <2>2, ItemMeans
    <3>2. ff3_negate(<<"ISSET", "UIn">>) = <<"INS", "UIn">>
      BY DEF ff3_negate
    <3>3. data_func(r, node.field) = r[l.field]
      BY <1>1 DEF data_func
    <3> QED
      BY <2>1, <2>2, <3>1, <3>2, <3>3 DEF Opposite
  <2>4. Negation(es, Means(es), N)
        = {r \in Records : HasNoBit(r[l.field], l.literals[1].val)}
    BY <1>3, <1>4, <1>11 DEF Negation
  <2>5. CASE Records = {}
    BY <1>7, <2>4, <2>5
  <2>6. CASE Records # {}
    <3>1. node.opcode = <<"ISSET", "UIn">>
      BY <2>3, <2>6
    <3>2. Flips(node)
      BY <1>1, <1>11, <3>1 DEF Flips, IsLeaf, Negatable
    <3> QED
      BY <2>3, <2>4, <3>2
  <2> QED
    BY <2>5, <2>6
<1>12. CASE l.oper # "ISSET"
  <2>1. Negation(es, Means(es), N) = Records \ Means(es)[N]
    BY <1>3, <1>4, <1>12 DEF Negation
  <2>2. Means(es)[N] = Meaning(es, Means(es), N)
    BY <1>2, <1>3, NewExpr DEF Part, es, N
  <2>3. ~ Flips(node)
    <3> SUFFICES ASSUME Flips(node) PROVE FALSE
      OBVIOUS
    <3>1. l.oper \in {"EQ", "GT", "LT"}
      BY <1>1, <1>12 DEF Flips, IsLeaf
    <3>2. /\ 1 \in DOMAIN l.literals /\ node.opcode = ff3_type_validate(l, 1).opcode
          /\ ItemOper(l) \in {"EQ", "GT", "LT"}
      BY <1>1, <3>1 DEF ItemOper
    <3>3. node.opcode[1] \in {"EQ", "GT", "LT"}
      <4>1. /\ Type[l.field] = "uint" => node.opcode = <<ItemOper(l), "UIn">>
            /\ Type[l.field] = "timestamp" => node.opcode = <<ItemOper(l), "UI">>
            /\ Type[l.field] = "addr" => node.opcode = AddressOpcode(str_to_addr(l.literals[1]))
            /\ Type[l.field] \in {"uint", "timestamp", "addr"}
        BY <3>2, ItemOpcode
      <4>2. AddressOpcode(str_to_addr(l.literals[1]))[1] = "EQ"
        BY DEF AddressOpcode
      <4> QED
        BY <3>2, <4>1, <4>2
    <3> QED
      BY <3>3 DEF Flips, Negatable
  <2> QED
    BY <2>1, <2>2, <2>3
<1> QED
  BY <1>11, <1>12

\* YES lets everything through, and its negation nothing.
LEMMA AnyItem ==
  ASSUME TreesOK, NEW garbage \in Garbage
  PROVE  ItemOK(Append(heap, Node("YES", garbage, 0, 0)), Append(exprs, [op |-> "any"]),
                Len(heap) + 1, Len(exprs) + 1)
<1> DEFINE node == Node("YES", garbage, 0, 0)
           e    == [op |-> "any"]
           es   == Append(exprs, e)
           N    == Len(exprs) + 1
<1>1. /\ node \in NodeType /\ node.oper = "YES" /\ node.left = 0 /\ node.right = 0
      /\ ~ IsLeaf(node)
  BY InnerNode
<1>2. Len(heap) \in Nat /\ Ordered(exprs) /\ Len(exprs) \in Nat
  BY DEF TreesOK, Ordered
<1>3. Part(e) /\ es = Append(exprs, e) /\ N = Len(exprs) + 1 /\ e.op = "any"
  BY Parts
<1> HIDE DEF node, e, es, N
<1>4. es[N] = e /\ Means(es)[N] = Meaning(es, Means(es), N)
  BY <1>2, <1>3, NewExpr DEF Part
<1>5. Meaning(es, Means(es), N) = Records /\ Negation(es, Means(es), N) = Records \ Means(es)[N]
  BY <1>3, <1>4 DEF Meaning, Negation
<1>6. \A r \in Records :
        NodeValue(node, ff3_eval_node(heap, r)[node.left], ff3_eval_node(heap, r)[node.right], r) > 0
          <=> r \in Meaning(es, Means(es), N)
  BY <1>1, <1>5 DEF NodeValue
<1>7. node.left <= Len(heap) /\ node.right <= Len(heap) /\ ~ Flips(node)
  BY <1>1, <1>2 DEF Flips
<1>8. ItemOK(Append(heap, node), es, Len(heap) + 1, N)
  BY <1>1, <1>3, <1>4, <1>5, <1>6, <1>7, NodeItem
<1> QED
  BY <1>8 DEF node, e, es, N

\* AND and OR join the meanings of their operands.
LEMMA BinaryItem ==
  ASSUME TreesOK, NEW oper \in {"AND", "OR"}, NEW garbage \in Garbage,
         NEW left \in 1 .. Len(heap), NEW right \in 1 .. Len(heap),
         NEW a \in 1 .. Len(exprs), NEW b \in 1 .. Len(exprs),
         ItemOK(heap, exprs, left, a), ItemOK(heap, exprs, right, b)
  PROVE  ItemOK(Append(heap, Node(oper, garbage, left, right)),
                Append(exprs, [op |-> oper, left |-> a, right |-> b]),
                Len(heap) + 1, Len(exprs) + 1)
<1> DEFINE node == Node(oper, garbage, left, right)
           e    == [op |-> oper, left |-> a, right |-> b]
           es   == Append(exprs, e)
           N    == Len(exprs) + 1
<1>1. Len(heap) \in Nat /\ Ordered(exprs) /\ Len(exprs) \in Nat
  BY DEF TreesOK, Ordered
<1>2. left \in Nat /\ right \in Nat /\ left <= Len(heap) /\ right <= Len(heap)
      /\ a \in Nat /\ b \in Nat
  BY <1>1
<1>3. /\ node \in NodeType /\ node.oper = oper /\ node.left = left /\ node.right = right
      /\ ~ IsLeaf(node)
  BY <1>2, InnerNode
<1>4. /\ Part(e) /\ es = Append(exprs, e) /\ N = Len(exprs) + 1
      /\ e.op = oper /\ e.left = a /\ e.right = b
  BY <1>2, Parts
<1> HIDE DEF node, e, es, N
<1>5. /\ es[N] = e /\ Means(es)[N] = Meaning(es, Means(es), N)
      /\ Means(es)[a] = Means(exprs)[a] /\ Means(es)[b] = Means(exprs)[b]
  BY <1>1, <1>4, NewExpr DEF Part
<1>6. Negation(es, Means(es), N) = Records \ Means(es)[N]
  BY <1>4, <1>5 DEF Negation
<1>7. ASSUME NEW r \in Records
      PROVE  NodeValue(node, ff3_eval_node(heap, r)[node.left], ff3_eval_node(heap, r)[node.right], r) > 0
               <=> r \in Meaning(es, Means(es), N)
  <2>1. /\ ff3_eval_node(heap, r)[left] > 0 <=> r \in Means(es)[a]
        /\ ff3_eval_node(heap, r)[right] > 0 <=> r \in Means(es)[b]
    BY <1>5 DEF ItemOK, ff3_eval
  <2>2. CASE oper = "AND"
    <3>1. Meaning(es, Means(es), N) = Means(es)[a] \cap Means(es)[b]
      BY <1>4, <1>5, <2>2 DEF Meaning
    <3> QED
      BY <1>3, <2>1, <2>2, <3>1 DEF NodeValue, Bool
  <2>3. CASE oper = "OR"
    <3>1. Meaning(es, Means(es), N) = Means(es)[a] \cup Means(es)[b]
      BY <1>4, <1>5, <2>3 DEF Meaning
    <3> QED
      BY <1>3, <2>1, <2>3, <3>1 DEF NodeValue, Bool
  <2> QED
    BY <2>2, <2>3
<1>8. node.left <= Len(heap) /\ node.right <= Len(heap) /\ ~ Flips(node)
  BY <1>2, <1>3 DEF Flips
<1>9. ItemOK(Append(heap, node), es, Len(heap) + 1, N)
  BY <1>3, <1>4, <1>5, <1>6, <1>7, <1>8, NodeItem
<1> QED
  BY <1>9 DEF node, e, es, N

\* A negation that gets a node of its own.
LEMMA NotItem ==
  ASSUME TreesOK, NEW garbage \in Garbage, NEW right \in 1 .. Len(heap),
         NEW a \in 1 .. Len(exprs), ItemOK(heap, exprs, right, a), ~ Flips(heap[right])
  PROVE  ItemOK(Append(heap, Node("NOT", garbage, 0, right)),
                Append(exprs, [op |-> "not", arg |-> a]), Len(heap) + 1, Len(exprs) + 1)
<1> DEFINE node == Node("NOT", garbage, 0, right)
           e    == [op |-> "not", arg |-> a]
           es   == Append(exprs, e)
           N    == Len(exprs) + 1
<1>1. Len(heap) \in Nat /\ Ordered(exprs) /\ Len(exprs) \in Nat /\ Children(heap)
  BY DEF TreesOK, Ordered
<1>2. right \in Nat /\ right <= Len(heap) /\ a \in Nat /\ 0 \in Nat
  BY <1>1
<1>3. /\ node \in NodeType /\ node.oper = "NOT" /\ node.left = 0 /\ node.right = right
      /\ ~ IsLeaf(node)
  BY <1>2, InnerNode
<1>4. /\ Part(e) /\ es = Append(exprs, e) /\ N = Len(exprs) + 1
      /\ e.op = "not" /\ e.arg = a
  BY <1>2, Parts
<1> HIDE DEF node, e, es, N
<1>5. /\ es[N] = e /\ Means(es)[N] = Meaning(es, Means(es), N)
      /\ Means(es)[a] = Means(exprs)[a]
      /\ Negation(es, Means(es), a) = Negation(exprs, Means(exprs), a)
  BY <1>1, <1>4, NewExpr DEF Part
<1>6. Negation(exprs, Means(exprs), a) = Records \ Means(exprs)[a]
  BY DEF ItemOK
<1>7. Means(exprs)[a] \subseteq Records
  BY <1>1, MeansDef
<1>8. Meaning(es, Means(es), N) = Records \ Means(exprs)[a]
  BY <1>4, <1>5, <1>6 DEF Meaning
<1>9. Negation(es, Means(es), N) = Records \ Meaning(es, Means(es), N)
  <2>1. Negation(es, Means(es), N) = Means(exprs)[a]
    BY <1>4, <1>5 DEF Negation
  <2> QED
    BY <1>7, <1>8, <2>1
<1>10. ASSUME NEW r \in Records
       PROVE  NodeValue(node, ff3_eval_node(heap, r)[node.left], ff3_eval_node(heap, r)[node.right], r) > 0
                <=> r \in Meaning(es, Means(es), N)
  <2>1. ff3_eval_node(heap, r)[right] > 0 <=> r \in Means(exprs)[a]
    BY DEF ItemOK, ff3_eval
  <2>2. ff3_eval_node(heap, r)[right] \in Int
    BY <1>1, EvalDef, NodeValueInt
  <2> QED
    BY <1>3, <1>8, <2>1, <2>2 DEF NodeValue, Bool
<1>11. node.left <= Len(heap) /\ node.right <= Len(heap) /\ ~ Flips(node)
  BY <1>1, <1>2, <1>3 DEF Flips
<1>12. ItemOK(Append(heap, node), es, Len(heap) + 1, N)
  BY <1>3, <1>4, <1>9, <1>10, <1>11, NodeItem
<1> QED
  BY <1>12 DEF node, e, es, N

\* A negation that turns a bit test round; a second one turns it back.
LEMMA FoldItem ==
  ASSUME TreesOK, stack # <<>>, NEW a \in 1 .. Len(exprs),
         ItemOK(heap, exprs, Top.root, a), Flips(heap[Top.root])
  PROVE  ItemOK(Folded(heap, Top.root), Append(exprs, [op |-> "not", arg |-> a]),
                Top.root, Len(exprs) + 1)
<1> DEFINE L    == Top.root
           more == Folded(heap, L)
           e    == [op |-> "not", arg |-> a]
           es   == Append(exprs, e)
           N    == Len(exprs) + 1
           old  == heap[L]
           new  == more[L]
<1>1. /\ Len(heap) \in Nat /\ Ordered(exprs) /\ Len(exprs) \in Nat /\ Children(heap)
      /\ heap \in Seq(NodeType)
  BY DEF TreesOK, Ordered
<1>2. /\ L = Len(heap) /\ L > 0 /\ L \in 1 .. Len(heap) /\ old \in NodeType /\ a \in Nat
  BY <1>1, TopItem
<1>3. Flips(old) /\ ItemOK(heap, exprs, L, a)
  OBVIOUS
<1>4. /\ Part(e) /\ es = Append(exprs, e) /\ N = Len(exprs) + 1 /\ e.op = "not" /\ e.arg = a
  BY <1>2, Parts
<1> HIDE DEF e, es, N, L
<1>5. old.opcode[1] \in Negatable /\ IsLeaf(old)
  BY <1>3 DEF Flips
<1>6. /\ Children(more) /\ Len(more) = L
      /\ new.oper = old.oper /\ new.field = old.field /\ new.values = old.values
      /\ new.opcode = ff3_negate(old.opcode)
  BY <1>1, <1>2, <1>5, FoldedNode
<1> HIDE DEF more
<1>7. ff3_negate(old.opcode)[1] \in Negatable /\ ff3_negate(ff3_negate(old.opcode)) = old.opcode
  <2>1. old.opcode \in Opcode
    BY <1>2 DEF NodeType
  <2> QED
    BY <1>5, <2>1, Negated
<1>8. Flips(new)
  BY <1>5, <1>6, <1>7 DEF Flips, IsLeaf
<1>9. /\ es[N] = e /\ Means(es)[N] = Meaning(es, Means(es), N)
      /\ Means(es)[a] = Means(exprs)[a]
      /\ Negation(es, Means(es), a) = Negation(exprs, Means(exprs), a)
  BY <1>1, <1>4, NewExpr DEF Part
<1>10. /\ Means(es)[N] = Negation(exprs, Means(exprs), a)
       /\ Negation(es, Means(es), N) = Means(exprs)[a]
  <2>1. Meaning(es, Means(es), N) = Negation(es, Means(es), a)
    BY <1>4, <1>9 DEF Meaning
  <2>2. Negation(es, Means(es), N) = Means(es)[a]
    BY <1>4, <1>9 DEF Negation
  <2> QED
    BY <1>9, <2>1, <2>2
<1>11. ASSUME NEW r \in Records
       PROVE  /\ ff3_eval(heap, L, r) <=> ff3_oper_eval_V2(old.opcode, old.values[1].value,
                                                          data_func(r, old.field)) > 0
              /\ ff3_eval(more, L, r) <=> ff3_oper_eval_V2(new.opcode, new.values[1].value,
                                                          data_func(r, new.field)) > 0
  <2> DEFINE f == ff3_eval_node(heap, r)
             g == ff3_eval_node(more, r)
  <2>1. /\ f[L] = NodeValue(old, f[old.left], f[old.right], r)
        /\ g[L] = NodeValue(new, g[new.left], g[new.right], r)
    BY <1>1, <1>2, <1>6, EvalDef
  <2>2. \A x, y : NodeValue(old, x, y, r) = ff3_oper_eval_V2(old.opcode, old.values[1].value,
                                                            data_func(r, old.field))
    BY <1>5 DEF NodeValue, IsLeaf
  <2>3. \A x, y : NodeValue(new, x, y, r) = ff3_oper_eval_V2(new.opcode, new.values[1].value,
                                                            data_func(r, new.field))
    BY <1>5, <1>6 DEF NodeValue, IsLeaf
  <2> HIDE DEF new, old
  <2> QED
    BY <2>1, <2>2, <2>3 DEF ff3_eval
<1>12. ASSUME NEW r \in Records
       PROVE  /\ ff3_eval(more, L, r) <=> r \in Means(es)[N]
              /\ Opposite(new, r) <=> r \in Negation(es, Means(es), N)
  <2>1. ff3_eval(more, L, r) <=> Opposite(old, r)
    BY <1>6, <1>11 DEF Opposite
  <2>2. Opposite(old, r) <=> r \in Negation(exprs, Means(exprs), a)
    BY <1>3 DEF ItemOK
  <2>3. Opposite(new, r) <=> ff3_eval(heap, L, r)
    BY <1>6, <1>7, <1>11 DEF Opposite
  <2>4. ff3_eval(heap, L, r) <=> r \in Means(exprs)[a]
    BY <1>3 DEF ItemOK
  <2> QED
    BY <1>10, <2>1, <2>2, <2>3, <2>4
<1>13. ItemOK(more, es, L, N)
  BY <1>8, <1>12 DEF ItemOK
<1> QED
  BY <1>13 DEF more, e, es, L, N

AllComparable == \A l \in Leaves : Comparable(l)

LEMMA ItemsNext == AllComparable /\ TreesOK /\ ItemsOK /\ [Next]_vars => ItemsOK'
<1> SUFFICES ASSUME AllComparable, TreesOK, ItemsOK, [Next]_vars PROVE ItemsOK'
  OBVIOUS
<1>0. Len(heap) \in Nat /\ Len(exprs) \in Nat /\ Len(stack) \in Nat
  BY DEF TreesOK, Ordered
<1>1. ASSUME NEW l \in Leaves, ReduceLeaf(l)
      PROVE  ItemsOK'
  <2> DEFINE e            == [op |-> "leaf", leaf |-> l]
             new(garbage) == [heap |-> Append(heap, ff3_new_leaf(l, garbage)), root |-> Len(heap) + 1]
  <2>1. PICK garbage \in Garbage : Reduce(0, new(garbage), e, FALSE)
    BY <1>1 DEF ReduceLeaf
  <2>2. LeafOk(l) /\ Comparable(l)
    BY <1>1 DEF ReduceLeaf, AllComparable
  <2>3. /\ ff3_new_leaf(l, garbage) \in NodeType /\ ff3_new_leaf(l, garbage).left = 0
        /\ ff3_new_leaf(l, garbage).right = 0
    BY <2>2, LeafNode
  <2>4. 0 \in 0 .. Len(stack)
    BY <1>0
  <2>5. Grown(0, new(garbage))
    BY <1>0, <2>3, <2>4, AppendGrown
  <2>6. ItemOK(new(garbage).heap, Append(exprs, e), new(garbage).root, Len(exprs) + 1)
    BY <2>2, LeafItem
  <2>7. Part(e)
    BY Parts
  <2> HIDE DEF new, e
  <2> QED
    BY <2>1, <2>4, <2>5, <2>6, <2>7, ReduceItems
<1>2. ASSUME NEW l \in Leaves, ReduceBadLeaf(l)
      PROVE  ItemsOK'
  BY <1>2 DEF ReduceBadLeaf, ItemsOK
<1>3. CASE ReduceAny
  <2> DEFINE e            == [op |-> "any"]
             new(garbage) == ff3_new_node(0, "YES", 0, garbage)
  <2>1. PICK garbage \in Garbage : Reduce(0, new(garbage), e, FALSE)
    BY <1>3 DEF ReduceAny, NULL
  <2>2. 0 \in 0 .. Len(heap) /\ 0 \in 0 .. Len(stack)
    BY <1>0
  <2>3. Grown(0, new(garbage))
    BY <2>2, NewNodeGrown
  <2>4. new(garbage) = [heap |-> Append(heap, Node("YES", garbage, 0, 0)), root |-> Len(heap) + 1]
    BY DEF ff3_new_node
  <2>5. ItemOK(new(garbage).heap, Append(exprs, e), new(garbage).root, Len(exprs) + 1)
    <3>1. ItemOK(Append(heap, Node("YES", garbage, 0, 0)), Append(exprs, e),
                 Len(heap) + 1, Len(exprs) + 1)
      BY AnyItem
    <3> HIDE DEF e, new
    <3> QED
      BY <2>4, <3>1
  <2>6. Part(e)
    BY Parts
  <2> HIDE DEF new, e
  <2> QED
    BY <2>1, <2>2, <2>3, <2>5, <2>6, ReduceItems
<1>4. CASE ReduceNot
  <2> DEFINE child        == heap[Top.root]
             misread      == Top.misread \/ (~ IsLeaf(child) /\ child.opcode[1] \in Negatable)
             e            == [op |-> "not", arg |-> Top.expr]
             new(garbage) == ff3_new_node(0, "NOT", Top.root, garbage)
  <2>1. PICK garbage \in Garbage : Reduce(1, new(garbage), e, misread)
    BY <1>4 DEF ReduceNot, NULL
  <2>2. stack # <<>>
    BY <1>4 DEF ReduceNot
  <2>3. /\ 0 \in 0 .. Len(heap) /\ 1 \in 0 .. Len(stack) /\ Top.root \in 1 .. Len(heap)
        /\ Top.root \in 0 .. Len(heap) /\ Top.expr \in 1 .. Len(exprs) /\ Top.expr \in Nat
        /\ Len(stack) \in 1 .. Len(stack)
    BY <1>0, <2>2, TopItem
  <2>4. Grown(1, new(garbage))
    BY <2>2, <2>3, NewNodeGrown
  <2>5. misread \in BOOLEAN
    OBVIOUS
  <2>6. Part(e)
    BY <2>3, Parts
  <2>7. ASSUME ~ misread
        PROVE  ItemOK(new(garbage).heap, Append(exprs, e), new(garbage).root, Len(exprs) + 1)
    <3>1. ItemOK(heap, exprs, Top.root, Top.expr)
      BY <2>3, <2>7 DEF ItemsOK, Top
    <3>2. CASE Flips(child)
      <4>1. new(garbage) = [heap |-> Folded(heap, Top.root), root |-> Top.root]
        BY <3>2 DEF ff3_new_node, Folded, Flips
      <4>2. ItemOK(Folded(heap, Top.root), Append(exprs, e), Top.root, Len(exprs) + 1)
        BY <2>2, <2>3, <3>1, <3>2, FoldItem
      <4> HIDE DEF e, new
      <4> QED
        BY <4>1, <4>2
    <3>3. CASE ~ Flips(child)
      <4>1. child.opcode[1] \notin Negatable
        BY <2>7, <3>3 DEF Flips
      <4>2. new(garbage) = [heap |-> Append(heap, Node("NOT", garbage, 0, Top.root)),
                            root |-> Len(heap) + 1]
        BY <4>1 DEF ff3_new_node
      <4>3. ItemOK(Append(heap, Node("NOT", garbage, 0, Top.root)), Append(exprs, e),
                   Len(heap) + 1, Len(exprs) + 1)
        BY <2>3, <3>1, <3>3, NotItem
      <4> HIDE DEF e, new
      <4> QED
        BY <4>2, <4>3
    <3> QED
      BY <3>2, <3>3
  <2> HIDE DEF misread, new, e
  <2> QED
    BY <2>1, <2>3, <2>4, <2>5, <2>6, <2>7, ReduceItems
<1>5. ASSUME NEW oper \in {"AND", "OR"}, ReduceBinary(oper)
      PROVE  ItemsOK'
  <2> DEFINE left         == stack[Len(stack) - 1]
             misread      == left.misread \/ Top.misread
             e            == [op |-> oper, left |-> left.expr, right |-> Top.expr]
             new(garbage) == ff3_new_node(left.root, oper, Top.root, garbage)
  <2>1. PICK garbage \in Garbage : Reduce(2, new(garbage), e, misread)
    BY <1>5 DEF ReduceBinary
  <2>2. Len(stack) >= 2
    BY <1>5 DEF ReduceBinary
  <2>3. /\ stack # <<>> /\ 2 \in 0 .. Len(stack) /\ Len(stack) - 1 \in 1 .. Len(stack)
        /\ left.root \in 1 .. Len(heap) /\ left.expr \in 1 .. Len(exprs)
    BY <2>2, SecondItem
  <2>4. /\ Top.root \in 1 .. Len(heap) /\ Top.expr \in 1 .. Len(exprs)
        /\ Len(stack) \in 1 .. Len(stack)
    BY <2>3, TopItem
  <2>5. /\ left.root \in 0 .. Len(heap) /\ Top.root \in 0 .. Len(heap)
        /\ left.expr \in Nat /\ Top.expr \in Nat
    <3> HIDE DEF left
    <3> QED
      BY <1>0, <2>3, <2>4
  <2>6. Grown(2, new(garbage))
    <3> HIDE DEF left
    <3> QED
      BY <2>3, <2>5, NewNodeGrown
  <2>7. misread \in BOOLEAN
    OBVIOUS
  <2>8. Part(e)
    <3> HIDE DEF left
    <3> QED
      BY <2>3, <2>4, <2>5, Parts
  <2>9. ASSUME ~ misread
        PROVE  ItemOK(new(garbage).heap, Append(exprs, e), new(garbage).root, Len(exprs) + 1)
    <3>1. ItemOK(heap, exprs, left.root, left.expr) /\ ItemOK(heap, exprs, Top.root, Top.expr)
      BY <2>3, <2>4, <2>9 DEF ItemsOK, Top
    <3> HIDE DEF left
    <3>2. new(garbage) = [heap |-> Append(heap, Node(oper, garbage, left.root, Top.root)),
                          root |-> Len(heap) + 1]
      BY DEF ff3_new_node
    <3>3. ItemOK(Append(heap, Node(oper, garbage, left.root, Top.root)), Append(exprs, e),
                 Len(heap) + 1, Len(exprs) + 1)
      BY <2>3, <2>4, <3>1, BinaryItem
    <3> HIDE DEF e
    <3> QED
      BY <3>2, <3>3
  <2> HIDE DEF misread, e, new
  <2> QED
    BY <2>1, <2>3, <2>6, <2>7, <2>8, <2>9, ReduceItems
<1>6. CASE UNCHANGED vars
  BY <1>6 DEF vars, ItemsOK
<1> QED
  BY <1>1, <1>2, <1>3, <1>4, <1>5, <1>6 DEF Next

LEMMA ItemsInit == Init => ItemsOK
BY DEF Init, ItemsOK

LEMMA ItemsMatch == TreesOK /\ ItemsOK => MatchesMeaning
<1> SUFFICES ASSUME TreesOK, ItemsOK, NEW i \in DOMAIN stack, ~ stack[i].misread
             PROVE  {r \in Records : ff3_eval(heap, stack[i].root, r)} = Means(exprs)[stack[i].expr]
  BY DEF MatchesMeaning
<1>1. i \in 1 .. Len(stack)
  <2>1. stack \in Seq(Item)
    BY DEF TreesOK
  <2> QED
    BY <2>1
<1>2. ItemOK(heap, exprs, stack[i].root, stack[i].expr)
  BY <1>1 DEF ItemsOK
<1>3. Means(exprs)[stack[i].expr] \subseteq Records
  BY <1>1, MeansDef DEF TreesOK
<1> QED
  BY <1>2, <1>3 DEF ItemOK

\* The tree that Filter::init builds lets exactly those records through that
\* the expression describes: any nesting of AND, OR and NOT, over integers,
\* flags, lists and networks, whatever the new memory holds, as long as no
\* negation has read an opcode that was never set.
THEOREM MatchesMeaningTheorem ==
  ASSUME AllComparable
  PROVE  Spec => []MatchesMeaning
<1>1. Init => TreesOK /\ ItemsOK
  BY TreesInit, ItemsInit
<1>2. TreesOK /\ ItemsOK /\ [Next]_vars => (TreesOK /\ ItemsOK)'
  BY TreesNext, ItemsNext
<1>3. TreesOK /\ ItemsOK => MatchesMeaning
  BY ItemsMatch
<1> QED
  BY <1>1, <1>2, <1>3, PTL DEF Spec

-----------------------------------------------------------------------------
(* The places where a node hangs.                                          *)

\* References, for any nodes and any stack.
Places(nodes, items, n) ==
  {<<"stack", i>> : i \in {j \in DOMAIN items : items[j].root = n}}
  \cup {<<"left", m>> : m \in {k \in DOMAIN nodes : nodes[k].left = n}}
  \cup {<<"right", m>> : m \in {k \in DOMAIN nodes : nodes[k].right = n}}

HangsOnce(nodes, items, n) ==
  \E place \in Places(nodes, items, n) : Places(nodes, items, n) = {place}

\* The stack and the nodes after a reduction of k items to a new node: the
\* items that are popped are its children.
NewRoot(k, node, items, more) ==
  LET L == Len(heap)
      S == Len(stack)
  IN /\ k \in 0 .. 2 /\ k <= S
     /\ Len(more) = L + 1 /\ more[L + 1] = node
     /\ \A m \in 1 .. L : more[m] = heap[m]
     /\ Len(items) = S - k + 1 /\ items[S - k + 1].root = L + 1
     /\ \A i \in 1 .. S - k : items[i] = stack[i]
     /\ node.left = IF k = 2 THEN stack[S - 1].root ELSE 0
     /\ node.right = IF k = 0 THEN 0 ELSE stack[S].root

LEMMA OnePlace ==
  ASSUME NEW nodes, NEW items, NEW n, NEW q, q \in Places(nodes, items, n),
         \A p \in Places(nodes, items, n) : p = q
  PROVE  HangsOnce(nodes, items, n)
BY DEF HangsOnce

LEMMA NewRootHangs ==
  ASSUME TreesOK, NEW k, NEW node, NEW items \in Seq(Item), NEW more \in Seq(NodeType),
         NewRoot(k, node, items, more),
         \A n \in 1 .. Len(heap) : HangsOnce(heap, stack, n)
  PROVE  \A n \in 1 .. Len(more) : HangsOnce(more, items, n)
<1> DEFINE L == Len(heap)
           S == Len(stack)
           K == S - k
           N == L + 1
<1>1. /\ L \in Nat /\ S \in Nat /\ k \in 0 .. 2 /\ K \in Nat
      /\ DOMAIN heap = 1 .. L /\ DOMAIN stack = 1 .. S
  BY DEF TreesOK, NewRoot
<1>2. /\ Len(more) = N /\ more[N] = node /\ \A m \in 1 .. L : more[m] = heap[m]
      /\ Len(items) = K + 1 /\ items[K + 1].root = N /\ \A i \in 1 .. K : items[i] = stack[i]
      /\ node.left = IF k = 2 THEN stack[S - 1].root ELSE 0
      /\ node.right = IF k = 0 THEN 0 ELSE stack[S].root
  BY DEF NewRoot
<1>3. DOMAIN more = 1 .. N /\ DOMAIN items = 1 .. K + 1
  BY <1>2
<1>4. /\ \A m \in 1 .. L : heap[m].left \in 0 .. m - 1 /\ heap[m].right \in 0 .. m - 1
      /\ \A i \in 1 .. S : stack[i].root \in 1 .. L
      /\ \A i, j \in 1 .. S : i < j => stack[i].root < stack[j].root
  BY DEF TreesOK, Children
<1>5. \A n \in 1 .. L : HangsOnce(heap, stack, n)
  OBVIOUS
<1> HIDE DEF L, S, K
<1>6. K = S - k /\ N = L + 1
  BY DEF K
<1> HIDE DEF N
<1>7. ASSUME NEW n, NEW p
       PROVE  p \in Places(more, items, n) <=>
                \/ \E i \in 1 .. K + 1 : p = <<"stack", i>> /\ items[i].root = n
                \/ \E m \in 1 .. N : p = <<"left", m>> /\ more[m].left = n
                \/ \E m \in 1 .. N : p = <<"right", m>> /\ more[m].right = n
  <2> DEFINE I == 1 .. K + 1
             M == 1 .. N
  <2>1. I = DOMAIN items /\ M = DOMAIN more
    BY <1>3
  <2> HIDE DEF I, M
  <2>2. p \in Places(more, items, n) <=>
          \/ \E i \in I : p = <<"stack", i>> /\ items[i].root = n
          \/ \E m \in M : p = <<"left", m>> /\ more[m].left = n
          \/ \E m \in M : p = <<"right", m>> /\ more[m].right = n
    BY <2>1 DEF Places
  <2> QED
    BY <2>2 DEF I, M
\* A place of an old node after the step.
<1>8. ASSUME NEW n \in 1 .. L, NEW p
      PROVE  p \in Places(more, items, n) <=>
               \/ \E i \in 1 .. K : p = <<"stack", i>> /\ stack[i].root = n
               \/ \E m \in 1 .. L : p = <<"left", m>> /\ heap[m].left = n
               \/ \E m \in 1 .. L : p = <<"right", m>> /\ heap[m].right = n
               \/ p = <<"left", N>> /\ node.left = n
               \/ p = <<"right", N>> /\ node.right = n
  <2>1. (\E i \in 1 .. K + 1 : p = <<"stack", i>> /\ items[i].root = n)
        <=> (\E i \in 1 .. K : p = <<"stack", i>> /\ stack[i].root = n)
    <3>1. K + 1 \in 1 .. K + 1 /\ n # N
      BY <1>1, <1>6
    <3>2. \A i \in 1 .. K + 1 : i \in 1 .. K \/ i = K + 1
      BY <1>1
    <3>3. \A i \in 1 .. K : i \in 1 .. K + 1
      BY <1>1
    <3> QED
      BY <1>2, <3>1, <3>2, <3>3
  <2>2. \A m \in 1 .. N : m \in 1 .. L \/ m = N
    BY <1>1, <1>6
  <2>3. N \in 1 .. N /\ \A m \in 1 .. L : m \in 1 .. N
    BY <1>1, <1>6
  <2>4. (\E m \in 1 .. N : p = <<"left", m>> /\ more[m].left = n)
        <=> \/ \E m \in 1 .. L : p = <<"left", m>> /\ heap[m].left = n
            \/ p = <<"left", N>> /\ node.left = n
    BY <1>2, <2>2, <2>3
  <2>5. (\E m \in 1 .. N : p = <<"right", m>> /\ more[m].right = n)
        <=> \/ \E m \in 1 .. L : p = <<"right", m>> /\ heap[m].right = n
            \/ p = <<"right", N>> /\ node.right = n
    BY <1>2, <2>2, <2>3
  <2> QED
    BY <1>7, <2>1, <2>4, <2>5
\* And before it.
<1>9. ASSUME NEW n \in 1 .. L, NEW p
      PROVE  p \in Places(heap, stack, n) <=>
               \/ \E i \in 1 .. S : p = <<"stack", i>> /\ stack[i].root = n
               \/ \E m \in 1 .. L : p = <<"left", m>> /\ heap[m].left = n
               \/ \E m \in 1 .. L : p = <<"right", m>> /\ heap[m].right = n
  BY <1>1 DEF Places
<1>10. ASSUME NEW n \in 1 .. L, n # node.left, n # node.right
      PROVE  HangsOnce(more, items, n)
  <2>1. \A i \in 1 .. S : stack[i].root = n => i \in 1 .. K
    <3> SUFFICES ASSUME NEW i \in 1 .. S, stack[i].root = n, i \notin 1 .. K PROVE FALSE
      OBVIOUS
    <3>1. k # 0
      BY <1>1, <1>6
    <3>2. node.right = stack[S].root
      BY <1>2, <3>1
    <3>3. i # S
      BY <1>10, <3>2
    <3>4. k = 2 /\ i = S - 1
      BY <1>1, <1>6, <3>1, <3>3
    <3> QED
      BY <1>2, <1>10, <3>4
  <2>2. \A i \in 1 .. K : i \in 1 .. S
    BY <1>1, <1>6
  <2>3. \A p : p \in Places(more, items, n) <=> p \in Places(heap, stack, n)
    <3> TAKE p
    <3>1. (\E i \in 1 .. S : p = <<"stack", i>> /\ stack[i].root = n)
          <=> (\E i \in 1 .. K : p = <<"stack", i>> /\ stack[i].root = n)
      BY <2>1, <2>2
    <3> QED
      BY <1>8, <1>9, <1>10, <3>1
  <2>4. Places(more, items, n) = Places(heap, stack, n)
    BY <2>3
  <2> QED
    BY <1>5, <2>4 DEF HangsOnce
\* An item that was popped hangs below the new node.
<1>11. ASSUME NEW n \in 1 .. L, NEW j \in 1 .. S, j > K, stack[j].root = n,
             NEW q \in {<<"left", N>>, <<"right", N>>}, q \in Places(more, items, n),
             \A p \in {<<"left", N>>, <<"right", N>>} : p \in Places(more, items, n) => p = q
      PROVE  HangsOnce(more, items, n)
  <2>1. <<"stack", j>> \in Places(heap, stack, n)
    BY <1>9, <1>11
  <2>2. \A p \in Places(heap, stack, n) : p = <<"stack", j>>
    BY <1>5, <2>1 DEF HangsOnce
  <2>3. ASSUME NEW p \in Places(more, items, n)
        PROVE  p = q
    <3>1. CASE \E i \in 1 .. K : p = <<"stack", i>> /\ stack[i].root = n
      <4>1. PICK i \in 1 .. K : p = <<"stack", i>> /\ stack[i].root = n
        BY <3>1
      <4>2. i \in 1 .. S /\ i # j
        BY <1>1, <1>6, <1>11
      <4>3. p \in Places(heap, stack, n)
        BY <1>9, <4>1, <4>2
      <4> QED
        BY <2>2, <4>1, <4>2, <4>3
    <3>2. CASE \E m \in 1 .. L : p = <<"left", m>> /\ heap[m].left = n
      <4>1. p \in Places(heap, stack, n)
        BY <1>9, <3>2
      <4> QED
        BY <2>2, <3>2, <4>1
    <3>3. CASE \E m \in 1 .. L : p = <<"right", m>> /\ heap[m].right = n
      <4>1. p \in Places(heap, stack, n)
        BY <1>9, <3>3
      <4> QED
        BY <2>2, <3>3, <4>1
    <3>4. CASE p \in {<<"left", N>>, <<"right", N>>}
      BY <1>11, <3>4
    <3> QED
      BY <1>8, <3>1, <3>2, <3>3, <3>4
  <2> QED
    BY <1>11, <2>3, OnePlace
<1>12. ASSUME NEW n \in 1 .. L, n = node.left
       PROVE  HangsOnce(more, items, n)
  <2>1. k = 2 /\ n = stack[S - 1].root /\ node.right = stack[S].root
    BY <1>2, <1>12
  <2>2. S - 1 \in 1 .. S /\ S \in 1 .. S /\ S - 1 > K /\ S - 1 < S
    BY <1>1, <1>6, <2>1
  <2>3. node.right # n
    BY <1>4, <2>1, <2>2
  <2>4. <<"left", N>> \in Places(more, items, n)
    BY <1>8, <1>12
  <2>5. <<"right", N>> \notin Places(more, items, n)
    <3>1. \A m \in 1 .. L : m # N
      BY <1>1, <1>6
    <3> QED
      BY <1>8, <2>3, <3>1
  <2> QED
    BY <1>11, <2>1, <2>2, <2>4, <2>5
<1>13. ASSUME NEW n \in 1 .. L, n = node.right
       PROVE  HangsOnce(more, items, n)
  <2>1. k # 0 /\ n = stack[S].root
    BY <1>2, <1>13
  <2>2. S \in 1 .. S /\ S > K
    BY <1>1, <1>6, <2>1
  <2>3. node.left # n
    <3>1. CASE k = 2
      <4>1. S - 1 \in 1 .. S /\ S - 1 < S
        BY <1>1, <1>6, <3>1
      <4> QED
        BY <1>2, <1>4, <2>1, <2>2, <3>1, <4>1
    <3>2. CASE k # 2
      BY <1>2, <3>2
    <3> QED
      BY <3>1, <3>2
  <2>4. <<"right", N>> \in Places(more, items, n)
    BY <1>8, <1>13
  <2>5. <<"left", N>> \notin Places(more, items, n)
    <3>1. \A m \in 1 .. L : m # N
      BY <1>1, <1>6
    <3> QED
      BY <1>8, <2>3, <3>1
  <2> QED
    BY <1>11, <2>1, <2>2, <2>4, <2>5
\* The new node is only on the stack.
<1>14. HangsOnce(more, items, N)
  <2> DEFINE q == <<"stack", K + 1>>
  <2>1. K + 1 \in 1 .. K + 1
    BY <1>1
  <2>2. q \in Places(more, items, N)
    BY <1>2, <1>7, <2>1
  <2>3. \A m \in 1 .. N : more[m].left # N /\ more[m].right # N
    <3> TAKE m \in 1 .. N
    <3>1. CASE m = N
      <4>1. \A i \in 1 .. S : stack[i].root # N
        BY <1>1, <1>4, <1>6
      <4>2. k = 2 => S - 1 \in 1 .. S
        BY <1>1, <1>6
      <4>3. k # 0 => S \in 1 .. S
        BY <1>1, <1>6
      <4>4. N # 0
        BY <1>1, <1>6
      <4> QED
        BY <1>2, <3>1, <4>1, <4>2, <4>3, <4>4
    <3>2. CASE m # N
      <4>1. m \in 1 .. L
        BY <1>1, <1>6, <3>2
      <4>2. more[m].left \in 0 .. m - 1 /\ more[m].right \in 0 .. m - 1
        BY <1>2, <1>4, <4>1
      <4> QED
        BY <1>1, <1>6, <4>1, <4>2
    <3> QED
      BY <3>1, <3>2
  <2>4. \A i \in 1 .. K + 1 : items[i].root = N => i = K + 1
    <3> SUFFICES ASSUME NEW i \in 1 .. K + 1, i # K + 1 PROVE items[i].root # N
      OBVIOUS
    <3>1. i \in 1 .. K /\ i \in 1 .. S
      BY <1>1, <1>6
    <3>2. items[i].root = stack[i].root /\ stack[i].root \in 1 .. L
      BY <1>2, <1>4, <3>1
    <3> QED
      BY <1>1, <1>6, <3>2
  <2>5. ASSUME NEW p \in Places(more, items, N)
        PROVE  p = q
    <3>1. \/ \E i \in 1 .. K + 1 : p = <<"stack", i>> /\ items[i].root = N
          \/ \E m \in 1 .. N : p = <<"left", m>> /\ more[m].left = N
          \/ \E m \in 1 .. N : p = <<"right", m>> /\ more[m].right = N
      BY <1>7
    <3> QED
      BY <2>3, <2>4, <3>1
  <2> QED
    BY <2>2, <2>5, OnePlace
<1> QED
  <2> SUFFICES ASSUME NEW n \in 1 .. N PROVE HangsOnce(more, items, n)
    BY <1>2
  <2>1. n \in 1 .. L \/ n = N
    BY <1>1, <1>6
  <2> QED
    BY <1>10, <1>12, <1>13, <1>14, <2>1

LEMMA HangsOnceIs ==
  ASSUME TreesOK
  PROVE  NodesHangOnce <=> \A n \in 1 .. Len(heap) : HangsOnce(heap, stack, n)
<1>1. DOMAIN heap = 1 .. Len(heap)
  BY DEF TreesOK
<1>2. \A n : References(n) = Places(heap, stack, n)
  BY DEF References, Places
<1> QED
  BY <1>1, <1>2 DEF NodesHangOnce, HangsOnce

\* A reduction to a new node.
LEMMA ReduceHangs ==
  ASSUME TreesOK, TreesOK', NodesHangOnce,
         NEW k \in 0 .. 2, k <= Len(stack), NEW node, node \in NodeType, NEW e,
         NEW misread \in BOOLEAN,
         Reduce(k, [heap |-> Append(heap, node), root |-> Len(heap) + 1], e, misread),
         node.left = IF k = 2 THEN stack[Len(stack) - 1].root ELSE 0,
         node.right = IF k = 0 THEN 0 ELSE stack[Len(stack)].root
  PROVE  NodesHangOnce'
<1> DEFINE new == [heap |-> Append(heap, node), root |-> Len(heap) + 1]
           K   == Len(stack) - k
<1>1. /\ heap \in Seq(NodeType) /\ stack \in Seq(Item)
      /\ heap' \in Seq(NodeType) /\ stack' \in Seq(Item)
  BY DEF TreesOK
<1>2. heap' = Append(heap, node)
  BY DEF Reduce
<1>3. /\ Len(heap') = Len(heap) + 1 /\ heap'[Len(heap) + 1] = node
      /\ \A m \in 1 .. Len(heap) : heap'[m] = heap[m]
  BY <1>1, <1>2
<1>4. new.root = Len(heap) + 1 /\ new.root \in Nat /\ k \in 0 .. Len(stack)
  BY <1>1
<1>5. Reduce(k, new, e, misread)
  OBVIOUS
<1> HIDE DEF new
<1>6. /\ Len(stack') = K + 1 /\ stack'[K + 1].root = Len(heap) + 1
      /\ \A i \in 1 .. K : stack'[i] = stack[i]
  BY <1>4, <1>5, ReduceStack
<1>7. NewRoot(k, node, stack', heap')
  BY <1>3, <1>6 DEF NewRoot
<1>8. \A n \in 1 .. Len(heap) : HangsOnce(heap, stack, n)
  BY HangsOnceIs
<1>9. \A n \in 1 .. Len(heap') : HangsOnce(heap', stack', n)
  BY <1>1, <1>7, <1>8, NewRootHangs
<1>10. DOMAIN heap' = 1 .. Len(heap')
  BY <1>1
<1>11. \A n : References(n)' = Places(heap', stack', n)
  BY DEF References, Places
<1> QED
  BY <1>9, <1>10, <1>11 DEF NodesHangOnce, HangsOnce

\* A reduction that turns the newest node round.
LEMMA FoldHangs ==
  ASSUME TreesOK, TreesOK', NodesHangOnce, stack # <<>>, NEW e, NEW misread \in BOOLEAN,
         heap[Top.root].opcode[1] \in Negatable,
         Reduce(1, [heap |-> Folded(heap, Top.root), root |-> Top.root], e, misread)
  PROVE  NodesHangOnce'
<1> DEFINE L   == Top.root
           S   == Len(stack)
           new == [heap |-> Folded(heap, L), root |-> L]
<1>1. /\ heap \in Seq(NodeType) /\ stack \in Seq(Item) /\ Children(heap)
      /\ heap' \in Seq(NodeType) /\ stack' \in Seq(Item)
  BY DEF TreesOK
<1>2. heap' = Folded(heap, L)
  BY DEF Reduce
<1>3. /\ L = Len(heap) /\ L \in Nat /\ L > 0 /\ 1 \in 0 .. S /\ S \in Nat /\ S \in 1 .. S
  BY <1>1, TopItem
<1>4. heap[L].opcode[1] \in Negatable
  OBVIOUS
<1>5. new.root = L /\ stack[S].root = L
  BY DEF Top
<1>6. Reduce(1, new, e, misread)
  OBVIOUS
<1> HIDE DEF new, L
<1>7. /\ Len(heap') = L /\ \A m \in 1 .. L - 1 : heap'[m] = heap[m]
      /\ heap'[L].left = heap[L].left /\ heap'[L].right = heap[L].right
  <2> DEFINE more == Folded(heap, L)
  <2>1. heap \in Seq(NodeType) /\ Children(heap) /\ L = Len(heap) /\ L > 0
    BY <1>1, <1>3
  <2>2. /\ more \in Seq(NodeType) /\ Children(more) /\ Len(more) = L
        /\ \A n \in 1 .. L - 1 : more[n] = heap[n]
    BY <2>1, <1>4, FoldedNode
  <2>3. more[L].left = heap[L].left /\ more[L].right = heap[L].right
    BY <1>1, <1>3, <1>4, FoldedNode
  <2> QED
    BY <1>2, <2>2, <2>3
<1>8. /\ Len(stack') = S /\ stack'[S].root = L
      /\ \A i \in 1 .. S - 1 : stack'[i] = stack[i]
  <2>1. new.root \in Nat /\ (S - 1) + 1 = S
    BY <1>3, <1>5
  <2> QED
    BY <1>3, <1>5, <1>6, <2>1, ReduceStack
<1>9. /\ DOMAIN heap' = DOMAIN heap /\ DOMAIN heap = 1 .. L
      /\ DOMAIN stack' = DOMAIN stack /\ DOMAIN stack = 1 .. S
  BY <1>1, <1>3, <1>7, <1>8
<1> HIDE DEF S
<1>10. \A m \in 1 .. L : heap'[m].left = heap[m].left /\ heap'[m].right = heap[m].right
  <2> TAKE m \in 1 .. L
  <2>1. CASE m = L
    BY <1>7, <2>1
  <2>2. CASE m # L
    <3>1. m \in 1 .. L - 1
      BY <1>3, <2>2
    <3> QED
      BY <1>7, <3>1
  <2> QED
    BY <2>1, <2>2
<1>11. \A i \in 1 .. S : stack'[i].root = stack[i].root
  <2> TAKE i \in 1 .. S
  <2>1. CASE i = S
    BY <1>5, <1>8, <2>1
  <2>2. CASE i # S
    <3>1. i \in 1 .. S - 1
      BY <1>3, <2>2
    <3> QED
      BY <1>8, <3>1
  <2> QED
    BY <2>1, <2>2
<1>12. ASSUME NEW n
       PROVE  References(n)' = References(n)
  <2>1. {j \in DOMAIN stack' : stack'[j].root = n} = {j \in DOMAIN stack : stack[j].root = n}
    BY <1>9, <1>11
  <2>2. {m \in DOMAIN heap' : heap'[m].left = n} = {m \in DOMAIN heap : heap[m].left = n}
    BY <1>9, <1>10
  <2>3. {m \in DOMAIN heap' : heap'[m].right = n} = {m \in DOMAIN heap : heap[m].right = n}
    BY <1>9, <1>10
  <2> QED
    BY <2>1, <2>2, <2>3 DEF References
<1> QED
  BY <1>9, <1>12 DEF NodesHangOnce

LEMMA HangsNext == TreesOK /\ NodesHangOnce /\ [Next]_vars => NodesHangOnce'
<1> SUFFICES ASSUME TreesOK, NodesHangOnce, [Next]_vars PROVE NodesHangOnce'
  OBVIOUS
<1>0. TreesOK' /\ Len(heap) \in Nat /\ Len(stack) \in Nat
  <2>1. TreesOK'
    BY TreesNext
  <2> QED
    BY <2>1 DEF TreesOK
<1>1. ASSUME NEW l \in Leaves, ReduceLeaf(l)
      PROVE  NodesHangOnce'
  <2>1. PICK garbage \in Garbage :
          Reduce(0, [heap |-> Append(heap, ff3_new_leaf(l, garbage)), root |-> Len(heap) + 1],
                 [op |-> "leaf", leaf |-> l], FALSE)
    BY <1>1 DEF ReduceLeaf
  <2>2. LeafOk(l)
    BY <1>1 DEF ReduceLeaf
  <2> DEFINE node == ff3_new_leaf(l, garbage)
  <2>3. node \in NodeType /\ node.left = 0 /\ node.right = 0
    BY <2>2, LeafNode
  <2> DEFINE k       == 0
             misread == FALSE
             e       == [op |-> "leaf", leaf |-> l]
  <2>4. k \in 0 .. 2 /\ k <= Len(stack) /\ k = 0 /\ misread \in BOOLEAN
    BY <1>0
  <2>5. Reduce(k, [heap |-> Append(heap, node), root |-> Len(heap) + 1], e, misread)
    BY <2>1
  <2> HIDE DEF node, k, misread, e
  <2> QED
    BY <1>0, <2>3, <2>4, <2>5, ReduceHangs
<1>2. ASSUME NEW l \in Leaves, ReduceBadLeaf(l)
      PROVE  NodesHangOnce'
  BY <1>2 DEF ReduceBadLeaf, NodesHangOnce, References
<1>3. CASE ReduceAny
  <2>1. PICK garbage \in Garbage :
          Reduce(0, ff3_new_node(0, "YES", 0, garbage), [op |-> "any"], FALSE)
    BY <1>3 DEF ReduceAny, NULL
  <2> DEFINE node == Node("YES", garbage, 0, 0)
  <2>2. ff3_new_node(0, "YES", 0, garbage) = [heap |-> Append(heap, node), root |-> Len(heap) + 1]
    BY DEF ff3_new_node
  <2>3. node \in NodeType /\ node.left = 0 /\ node.right = 0
    BY InnerNode
  <2> DEFINE k       == 0
             misread == FALSE
             e       == [op |-> "any"]
  <2>4. k \in 0 .. 2 /\ k <= Len(stack) /\ k = 0 /\ misread \in BOOLEAN
    BY <1>0
  <2>5. Reduce(k, [heap |-> Append(heap, node), root |-> Len(heap) + 1], e, misread)
    BY <2>1, <2>2
  <2> HIDE DEF node, k, misread, e
  <2> QED
    BY <1>0, <2>3, <2>4, <2>5, ReduceHangs
<1>4. CASE ReduceNot
  <2> DEFINE child   == heap[Top.root]
             misread == Top.misread \/ (~ IsLeaf(child) /\ child.opcode[1] \in Negatable)
             e       == [op |-> "not", arg |-> Top.expr]
  <2>1. PICK garbage \in Garbage :
          Reduce(1, ff3_new_node(0, "NOT", Top.root, garbage), e, misread)
    BY <1>4 DEF ReduceNot, NULL
  <2>2. stack # <<>>
    BY <1>4 DEF ReduceNot
  <2>3. /\ 1 \in 0 .. 2 /\ 1 <= Len(stack) /\ Top.root \in Nat /\ 0 \in Nat
    BY <1>0, <2>2, TopItem
  <2>4. misread \in BOOLEAN
    OBVIOUS
  <2> HIDE DEF misread, e
  <2>5. CASE child.opcode[1] \in Negatable
    <3>1. ff3_new_node(0, "NOT", Top.root, garbage)
          = [heap |-> Folded(heap, Top.root), root |-> Top.root]
      BY <2>5 DEF ff3_new_node, Folded
    <3> QED
      BY <1>0, <2>1, <2>2, <2>4, <2>5, <3>1, FoldHangs
  <2>6. CASE child.opcode[1] \notin Negatable
    <3> DEFINE node == Node("NOT", garbage, 0, Top.root)
    <3>1. ff3_new_node(0, "NOT", Top.root, garbage)
          = [heap |-> Append(heap, node), root |-> Len(heap) + 1]
      BY <2>6 DEF ff3_new_node
    <3>2. node \in NodeType /\ node.left = 0 /\ node.right = Top.root
      BY <2>3, InnerNode
    <3>3. node.right = stack[Len(stack)].root
      BY <3>2 DEF Top
    <3> HIDE DEF node
    <3> QED
      BY <1>0, <2>1, <2>3, <2>4, <3>1, <3>2, <3>3, ReduceHangs
  <2> QED
    BY <2>5, <2>6
<1>5. ASSUME NEW oper \in {"AND", "OR"}, ReduceBinary(oper)
      PROVE  NodesHangOnce'
  <2> DEFINE left    == stack[Len(stack) - 1]
             misread == left.misread \/ Top.misread
             e       == [op |-> oper, left |-> left.expr, right |-> Top.expr]
  <2>1. PICK garbage \in Garbage :
          Reduce(2, ff3_new_node(left.root, oper, Top.root, garbage), e, misread)
    BY <1>5 DEF ReduceBinary
  <2>2. Len(stack) >= 2
    BY <1>5 DEF ReduceBinary
  <2>3. stack # <<>> /\ left.root \in 1 .. Len(heap)
    BY <2>2, SecondItem
  <2>4. Top.root \in 1 .. Len(heap)
    BY <2>3, TopItem
  <2>5. misread \in BOOLEAN
    OBVIOUS
  <2> HIDE DEF misread, e
  <2> DEFINE node == Node(oper, garbage, left.root, Top.root)
  <2>6. ff3_new_node(left.root, oper, Top.root, garbage)
        = [heap |-> Append(heap, node), root |-> Len(heap) + 1]
    BY DEF ff3_new_node
  <2>7. node \in NodeType /\ node.left = left.root /\ node.right = Top.root
    <3>1. left.root \in Nat /\ Top.root \in Nat
      BY <1>0, <2>3, <2>4
    <3> HIDE DEF left
    <3> QED
      BY <3>1, InnerNode
  <2>8. node.left = stack[Len(stack) - 1].root /\ node.right = stack[Len(stack)].root
    BY <2>7 DEF Top
  <2>9. 2 \in 0 .. 2 /\ 2 <= Len(stack)
    BY <1>0, <2>2
  <2> HIDE DEF node, left
  <2> QED
    BY <1>0, <2>1, <2>6, <2>7, <2>8, <2>9, <2>5, ReduceHangs
<1>6. CASE UNCHANGED vars
  BY <1>6 DEF vars, NodesHangOnce, References
<1> QED
  BY <1>1, <1>2, <1>3, <1>4, <1>5, <1>6 DEF Next

\* Every node that was allocated hangs at one place, below one other node or
\* on the parser's stack, although a negation may hand back the node that it
\* was given: ff3_free_node reaches each of them once.
THEOREM NodesHangOnceTheorem == Spec => []NodesHangOnce
<1>1. Init => NodesHangOnce
  BY DEF Init, NodesHangOnce
<1>2. NodesHangOnce /\ TreesOK /\ [Next]_vars => NodesHangOnce'
  BY HangsNext
<1> QED
  BY <1>1, <1>2, TreesTheorem, PTL DEF Spec

=============================================================================
