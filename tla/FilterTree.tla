----------------------------- MODULE FilterTree -----------------------------
(***************************************************************************)
(* The filter and group-filter stage: the expression is parsed bottom-up   *)
(* into a tree (ffilter_gram.y, ffilter.c), every leaf is translated to an *)
(* opcode (fcore.c), and the tree is evaluated on a record with the        *)
(* callbacks of filter.cpp.                                                *)
(*                                                                         *)
(* heap holds the nodes in the order in which they are allocated; a        *)
(* pointer is a place in it, and a negation may change the node it points  *)
(* to.  Each reduction of the grammar is an action on the parser's stack.  *)
(* exprs holds the expressions that were parsed, whose meaning is the      *)
(* reference.  Integer types of all widths behave alike ("uint", the       *)
(* literal has 64 bits); an address is two cells [hi, lo] of CellBits bits *)
(* (four of 32 bits in the code), hi = 0 for IPv4.  The mask of a network  *)
(* is given as a number of bits or as an address; no mask is the full one. *)
(* A word is text that is nothing else.                                    *)
(***************************************************************************)
EXTENDS Bits, Sequences, FiniteSets

CONSTANTS
  Type,      \* known fields -> "uint", "timestamp" or "addr"
  Leaves,    \* the leaves an expression may have: [field, oper, literals]
  Records,   \* records, functions of the fields
  Garbage,   \* opcodes the memory of a new node may hold
  IntBits,   \* width of an integer literal
  CellBits,  \* width of a cell of an address
  OctetBits, \* longest IPv6 prefix taken for one of IPv4 (8 bits in the code)
  MaxNodes   \* bound: reductions

Opcode == {"EQ", "GT", "LT", "ISSET", "INS", "ERR"}
          \X {"UIn", "UI", "AD4", "AD6", "ADP", ""}

Address == [hi : UInt(CellBits), lo : UInt(CellBits)]

\* The values of a field, by its type.
Data(type) ==
  CASE type = "uint"      -> UInt(IntBits)
    [] type = "timestamp" -> Nat
    [] type = "addr"      -> Address

Num  == [kind : {"num"}, val : UInt(IntBits)]
Word == [kind : {"word"}]
Time == [kind : {"time"}, val : Nat]
Net4 == [kind : {"net"}, ver : {4}, hi : {0}, lo : UInt(CellBits), prefix : 0 .. CellBits,
         mask : {"bits", "address"}]
Net6 == [kind : {"net"}, ver : {6}, hi : UInt(CellBits), lo : UInt(CellBits),
         prefix : 0 .. 2 * CellBits, mask : {"bits", "address"}]

\* An operator other than IN and EXIST has one literal.
ASSUME LeafAssumption ==
  /\ IntBits \in Nat /\ CellBits \in Nat /\ OctetBits \in Nat
  /\ \A f \in DOMAIN Type : Type[f] \in {"uint", "timestamp", "addr"}
  /\ Garbage \subseteq Opcode
  /\ \A l \in Leaves :
       /\ l.oper \in {"EQ", "GT", "LT", "ISSET", "IN", "EXIST"}
       /\ l.literals \in Seq(Num \cup Word \cup Time \cup Net4 \cup Net6)
       /\ l.oper = "EXIST" => l.literals = <<>>
       /\ l.oper \notin {"IN", "EXIST"} => Len(l.literals) = 1
  /\ \A r \in Records : \A f \in DOMAIN Type : r[f] \in Data(Type[f])

VARIABLES
  heap,    \* the nodes that were allocated
  stack,   \* the parser's stack: [root, expr, misread]
  exprs,   \* history: the expressions that were parsed
  failed   \* parsing ended with an error, Filter::init with -1

vars == <<heap, stack, exprs, failed>>

-----------------------------------------------------------------------------
(* Literals.                                                               *)

\* The mask of a prefix of n bits of one cell.
CellMask(n) == Number({b \in 0 .. CellBits - 1 : b >= CellBits - n}, CellBits)

\* The bits of a prefix that lie in the first and in the second cell.
HighPart(n) == IF n < CellBits THEN n ELSE CellBits
LowPart(n)  == IF n > CellBits THEN n - CellBits ELSE 0

\* A network keeps only the bits of the address under its mask.  The mask of
\* an IPv4 network covers the last cell.
str_to_addr(lit) ==
  LET mask == IF lit.ver = 4
              THEN [hi |-> 0, lo |-> CellMask(lit.prefix)]
              ELSE [hi |-> CellMask(HighPart(lit.prefix)), lo |-> CellMask(LowPart(lit.prefix))]
  IN [ver |-> lit.ver, mask |-> mask,
      ip |-> [hi |-> BitAnd(lit.hi, mask.hi, CellBits), lo |-> BitAnd(lit.lo, mask.lo, CellBits)]]

\* An address without dots has the octets that a prefix of one octet asks for: it is
\* completed like a short IPv4 address, and then it is no address any more.
unwrap_ip(lit) == lit.ver = 4 \/ (lit.mask = "bits" /\ lit.prefix <= OctetBits)

\* The kind of the literals that are read as values of a type.
KindOf(type) == CASE type = "uint" -> "num" [] type = "timestamp" -> "time" [] type = "addr" -> "net"

\* Text that is no number is mapped by rval_map_func, which refuses nothing.
Castable(type, lit) ==
  \/ type = "uint"
  \/ lit.kind = KindOf(type) /\ (type = "addr" => (unwrap_ip(lit) <=> lit.ver = 4))

\* Nor does rval_map_func change the 0 that is there.
ff3_type_cast(type, lit) ==
  CASE type = "addr"                        -> str_to_addr(lit)
    [] type = "uint" /\ lit.kind # "num" -> 0
    [] OTHER                                -> lit.val

-----------------------------------------------------------------------------
(* Opcodes.                                                                *)

AddressOpcode(value) ==
  IF value.ver = 4 /\ value.mask.lo = 0 THEN <<"EQ", "AD4">>
  ELSE IF value.ver = 6 /\ value.mask = [hi |-> 0, lo |-> 0] THEN <<"EQ", "AD6">>
  ELSE <<"EQ", "ADP">>

\* UIn compares an integer of fixed width, UI needs the size of the data.
ff3_validate(type, oper, value) ==
  CASE type = "uint"                        -> <<oper, "UIn">>
    [] type = "timestamp" /\ oper # "ISSET" -> <<oper, "UI">>
    [] type = "addr" /\ oper = "EQ"         -> AddressOpcode(value)
    [] OTHER                                -> <<"ERR", "">>

Negatable == {"ISSET", "INS"}

\* Only bit tests have an opposite.
ff3_negate(opcode) ==
  CASE opcode[1] = "ISSET" -> <<"INS", opcode[2]>>
    [] opcode[1] = "INS"   -> <<"ISSET", opcode[2]>>
    [] OTHER               -> <<"ERR", "">>

Bool(b) == IF b THEN 1 ELSE 0

InPrefix(data, net) ==
  /\ BitAnd(data.hi, net.mask.hi, CellBits) = net.ip.hi
  /\ BitAnd(data.lo, net.mask.lo, CellBits) = net.ip.lo
  /\ (net.ver = 4) <=> (data.hi = 0)

\* 1 true, 0 false, -1 error.  data_func reports no size, so that the size is
\* that of the buffer, which no integer has.
ff3_oper_eval_V2(opcode, value, data) ==
  CASE opcode = <<"EQ", "UIn">>    -> Bool(data = value)
    [] opcode = <<"GT", "UIn">>    -> Bool(data > value)
    [] opcode = <<"LT", "UIn">>    -> Bool(data < value)
    [] opcode = <<"ISSET", "UIn">> -> Bool(BitAnd(data, value, IntBits) = value)
    [] opcode = <<"INS", "UIn">>   -> Bool(BitAnd(data, value, IntBits) = 0)
    [] opcode = <<"EQ", "AD4">>    -> Bool(data.hi = 0 /\ data.lo = value.ip.lo)
    [] opcode = <<"EQ", "AD6">>    -> Bool(data = value.ip)
    [] opcode = <<"EQ", "ADP">>    -> Bool(InPrefix(data, value))
    [] OTHER                       -> -1

-----------------------------------------------------------------------------
(* Nodes.  A new node has the opcode that its memory happens to hold.      *)

NULL == 0

\* The operator of the items: those of a list are compared for equality.
ItemOper(l) == IF l.oper = "IN" THEN "EQ" ELSE l.oper

\* The value and the opcode of a literal.
ff3_type_validate(l, i) ==
  LET v == ff3_type_cast(Type[l.field], l.literals[i])
  IN [value |-> v, opcode |-> ff3_validate(Type[l.field], ItemOper(l), v)]

\* Every literal can be cast, and its type has the operator.
LeafOk(l) ==
  /\ l.field \in DOMAIN Type
  /\ \A i \in DOMAIN l.literals :
       Castable(Type[l.field], l.literals[i]) /\ ff3_type_validate(l, i).opcode[1] # "ERR"

\* The list of IN hangs below its node, an opcode per item; EXIST has no value.
ff3_new_leaf(l, garbage) ==
  LET items == [i \in DOMAIN l.literals |-> ff3_type_validate(l, i)]
  IN [oper |-> l.oper, field |-> l.field, values |-> items, left |-> NULL, right |-> NULL,
      opcode |-> IF l.oper \in {"IN", "EXIST"} THEN garbage ELSE items[1].opcode]

Node(oper, opcode, left, right) ==
  [oper |-> oper, opcode |-> opcode, field |-> "", values |-> <<>>,
   left |-> left, right |-> right]

\* Mutant: a bit test is turned round but keeps its opcode.
ff3_new_node_no_negate(left, oper, right, garbage) ==
  IF oper = "NOT" /\ heap[right].opcode[1] \in Negatable
  THEN [heap |-> heap, root |-> right]
  ELSE [heap |-> Append(heap, Node(oper, garbage, left, right)), root |-> Len(heap) + 1]

\* NOT turns the opcode of its only child round when it can.
ff3_new_node(left, oper, right, garbage) ==
  IF oper = "NOT" /\ heap[right].opcode[1] \in Negatable
  THEN [heap |-> [heap EXCEPT ![right].opcode = ff3_negate(@)], root |-> right]
  ELSE [heap |-> Append(heap, Node(oper, garbage, left, right)), root |-> Len(heap) + 1]

\* The callback finds every field of the record.
data_func(r, field) == r[field]

\* The value of a node, from those of its children.
NodeValue(n, left, right, r) ==
  CASE n.oper = "YES"   -> 1
    [] n.oper = "NOT"   -> Bool(right <= 0)
    [] n.oper = "OR"    -> Bool(left > 0 \/ right > 0)
    [] n.oper = "AND"   -> Bool(left > 0 /\ right > 0)
    [] n.oper = "EXIST" -> 1
    [] n.oper = "IN"    -> Bool(\E i \in DOMAIN n.values :
                             ff3_oper_eval_V2(n.values[i].opcode, n.values[i].value,
                                              data_func(r, n.field)) > 0)
    [] OTHER            -> ff3_oper_eval_V2(n.opcode, n.values[1].value, data_func(r, n.field))

\* ff3_eval_node(nodes, r)[n] is the value of the node n.
ff3_eval_node(nodes, r) ==
  LET val[n \in 0 .. Len(nodes)] ==
        IF n = NULL THEN -1
        ELSE NodeValue(nodes[n], val[nodes[n].left], val[nodes[n].right], r)
  IN val

ff3_eval(nodes, root, r) == ff3_eval_node(nodes, r)[root] > 0

-----------------------------------------------------------------------------
(* The parser: Filter::init.  misread: a negation has read an opcode that  *)
(* was never set, and the node was taken for a bit test.                   *)

Init == heap = <<>> /\ stack = <<>> /\ exprs = <<>> /\ failed = FALSE

CanReduce == ~ failed /\ Len(exprs) < MaxNodes

Top == stack[Len(stack)]

\* The last n items become one, for a new root and the expression e.
Reduce(n, new, e, misread) ==
  /\ heap' = new.heap
  /\ exprs' = Append(exprs, e)
  /\ stack' = Append(SubSeq(stack, 1, Len(stack) - n),
                     [root |-> new.root, expr |-> Len(exprs) + 1, misread |-> misread])
  /\ UNCHANGED failed

ReduceLeaf(l) ==
  /\ CanReduce /\ LeafOk(l)
  /\ \E garbage \in Garbage :
       Reduce(0, [heap |-> Append(heap, ff3_new_leaf(l, garbage)), root |-> Len(heap) + 1],
              [op |-> "leaf", leaf |-> l], FALSE)

\* A field without a type, a literal that cannot be cast, an operator the type
\* does not have.
ReduceBadLeaf(l) ==
  /\ CanReduce /\ ~ LeafOk(l)
  /\ failed' = TRUE
  /\ UNCHANGED <<heap, stack, exprs>>

ReduceAny ==
  /\ CanReduce
  /\ \E garbage \in Garbage :
       Reduce(0, ff3_new_node(NULL, "YES", NULL, garbage), [op |-> "any"], FALSE)

IsLeaf(n) == n.oper \in {"EQ", "GT", "LT", "ISSET"}

ReduceNot ==
  /\ CanReduce /\ stack # <<>>
  /\ \E garbage \in Garbage :
       LET child == heap[Top.root] IN
       Reduce(1, ff3_new_node(NULL, "NOT", Top.root, garbage),
              [op |-> "not", arg |-> Top.expr],
              Top.misread \/ (~ IsLeaf(child) /\ child.opcode[1] \in Negatable))

\* Mutant: the right operand is taken for both ($3, $3).
ReduceBinary_same(oper) ==
  /\ CanReduce /\ Len(stack) >= 2
  /\ \E garbage \in Garbage :
       LET left == stack[Len(stack) - 1] IN
       Reduce(2, ff3_new_node(Top.root, oper, Top.root, garbage),
              [op |-> oper, left |-> left.expr, right |-> Top.expr],
              left.misread \/ Top.misread)

ReduceBinary(oper) ==
  /\ CanReduce /\ Len(stack) >= 2
  /\ \E garbage \in Garbage :
       LET left == stack[Len(stack) - 1] IN
       Reduce(2, ff3_new_node(left.root, oper, Top.root, garbage),
              [op |-> oper, left |-> left.expr, right |-> Top.expr],
              left.misread \/ Top.misread)

Next ==
  \/ \E l \in Leaves : ReduceLeaf(l) \/ ReduceBadLeaf(l)
  \/ ReduceAny \/ ReduceNot
  \/ \E oper \in {"AND", "OR"} : ReduceBinary(oper)

Spec == Init /\ [][Next]_vars

-----------------------------------------------------------------------------
(* What an expression means: the records it describes.                     *)

\* The first n bits of two cells are the same.
Agree(n, x, y) ==
  \A b \in 0 .. CellBits - 1 : b >= CellBits - n => (HasBit(x, b) <=> HasBit(y, b))

\* A network holds the addresses of its version that agree with it on the
\* first bits.
InNetwork(lit, a) ==
  /\ (lit.ver = 4) <=> (a.hi = 0)
  /\ IF lit.ver = 4
     THEN Agree(lit.prefix, a.lo, lit.lo)
     ELSE Agree(HighPart(lit.prefix), a.hi, lit.hi) /\ Agree(LowPart(lit.prefix), a.lo, lit.lo)

Equals(lit, x) == IF lit.kind = "net" THEN InNetwork(lit, x) ELSE x = lit.val

HasBits(x, m)  == \A b \in 0 .. IntBits - 1 : HasBit(m, b) => HasBit(x, b)
HasNoBit(x, m) == \A b \in 0 .. IntBits - 1 : HasBit(m, b) => ~ HasBit(x, b)

\* Text that is no value of the type of the field is like none of its values.
LeafMeans(l, r) ==
  LET x == r[l.field]
      lits == {lit \in {l.literals[i] : i \in DOMAIN l.literals} : lit.kind = KindOf(Type[l.field])}
  IN CASE l.oper = "EXIST"        -> TRUE
       [] l.oper \in {"EQ", "IN"} -> \E lit \in lits : Equals(lit, x)
       [] l.oper = "GT"           -> \E lit \in lits : x > lit.val
       [] l.oper = "LT"           -> \E lit \in lits : x < lit.val
       [] l.oper = "ISSET"        -> \E lit \in lits : HasBits(x, lit.val)

\* The records that "not a" describes.  A negated bit test excludes the flags:
\* none of them is set ("for flags exclusion", ffilter.h).
Negation(es, means, a) ==
  IF es[a].op = "not" THEN means[es[a].arg]
  ELSE IF es[a].op = "leaf" /\ es[a].leaf.oper = "ISSET"
       THEN {r \in Records : HasNoBit(r[es[a].leaf.field], es[a].leaf.literals[1].val)}
  ELSE Records \ means[a]

Meaning(es, means, e) ==
  CASE es[e].op = "leaf" -> {r \in Records : LeafMeans(es[e].leaf, r)}
    [] es[e].op = "any"  -> Records
    [] es[e].op = "not"  -> Negation(es, means, es[e].arg)
    [] es[e].op = "AND"  -> means[es[e].left] \cap means[es[e].right]
    [] es[e].op = "OR"   -> means[es[e].left] \cup means[es[e].right]

\* Means(es)[e] are the records that the expression e of es describes.
Means(es) == LET means[e \in 1 .. Len(es)] == Meaning(es, means, e) IN means

\* Whatever the expression, the tree lets through exactly the records the
\* expression describes, provided no negation has read an unset opcode.
MatchesMeaning ==
  \A i \in DOMAIN stack : ~ stack[i].misread =>
    {r \in Records : ff3_eval(heap, stack[i].root, r)} = Means(exprs)[stack[i].expr]

\* Every node hangs at one place, below another node or on the stack, although
\* a negation hands back the node it was given: ff3_free_node (ffilter.c:1430)
\* frees each node of a tree once and leaves none.
References(n) ==
  {<<"stack", i>> : i \in {j \in DOMAIN stack : stack[j].root = n}}
  \cup {<<"left", m>> : m \in {k \in DOMAIN heap : heap[k].left = n}}
  \cup {<<"right", m>> : m \in {k \in DOMAIN heap : heap[k].right = n}}

NodesHangOnce == \A n \in DOMAIN heap : \E place \in References(n) : References(n) = {place}

\* A negation is never folded into a node that is no bit test: "opcode ...
\* translated data type + operation" (ffilter.h:428).
NegationNotLost == \A i \in DOMAIN stack : ~ stack[i].misread

-----------------------------------------------------------------------------
\* The leaves that are compared as they read: no times, numbers for integers, and
\* no network without a prefix (the others are known not to be).
Comparable(l) ==
  LeafOk(l) /\ l.literals # <<>> =>
    /\ Type[l.field] # "timestamp"
    /\ \A i \in DOMAIN l.literals :
         l.literals[i].kind = KindOf(Type[l.field])
         /\ (l.literals[i].kind = "net" => l.literals[i].prefix > 0)
=============================================================================
