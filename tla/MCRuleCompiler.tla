--------------------------- MODULE MCRuleCompiler ---------------------------
(***************************************************************************)
(* Rules for RuleCompiler: every chain of stages the grammar allows over   *)
(* small bodies, and every way to put two short chains into branches.  The *)
(* families at the end are those on which one statement of the sources     *)
(* fails.                                                                  *)
(***************************************************************************)
EXTENDS RuleMeaning

Node(kind, b, next) == [kind |-> kind, body |-> b, next |-> next]
To(node)            == <<[name |-> None, node |-> node]>>
Branch(name, node)  == [name |-> name, node |-> node]
Main(next)          == Node("main", None, next)
Program(mains)      == Node("program", None, mains)
Single(chain)       == Program(<<Branch("a", Main(To(chain)))>>)

Stage(kind, b)       == Node(kind, b, <<>>)
Before(kind, bodies, tails) == {Node(kind, b, To(t)) : b \in bodies, t \in tails}

MCFields == {"SRC_IP", "DST_IP", "PACKETS", "BYTES", "DST_PORT", "TIME_FIRST", "TIME_LAST"}
MCMalformed == {<<"?">>}

Plain(name)   == [out |-> name, expr |-> None]
As(out, name) == [out |-> out, expr |-> name]
Def(v, f, p)  == [name |-> v, func |-> f, param |-> p]
Window(t, r)  == [type |-> t, range |-> r]

Selectors == {Stage("selector", b) : b \in
  {<<Plain("SRC_IP")>>, <<Plain("v")>>, <<Plain("COUNT"), Plain("TIME_LAST")>>,
   <<As("x", "w"), Plain("v")>>}}
GroupFilters == Before("group-filter", {<<"v", "SRC_IP">>, <<"u">>, <<"?">>}, Selectors)
Aggregators  == Before("aggregator",
  {<<Def("v", "SUM", "PACKETS")>>,
   <<Def("w", "COUNT", None), Def("v", "COUNT_DISTINCT", "DST_IP")>>,
   <<Def("v", "MAX", "PACKETS"), Def("v", "SUM", "BYTES")>>},
  Selectors \cup GroupFilters)
Windows      == Before("window", {Window("passive", 0)},
  Selectors \cup GroupFilters \cup Aggregators)
Groupers     == Before("grouper", {<<"DST_IP", "SRC_IP">>, <<"TIME_LAST">>},
  Selectors \cup GroupFilters \cup Aggregators \cup Windows)
Filters      == Before("filter", {<<"BYTES">>, <<"?">>},
  Selectors \cup Aggregators \cup Windows \cup Groupers)

Chains == Selectors \cup Aggregators \cup Windows \cup Groupers \cup Filters

\* Short chains that leave something behind for the next branch if they can.
Sel(items)     == Stage("selector", items)
Agg(defs, t)   == Node("aggregator", defs, To(t))
Gro(keys, t)   == Node("grouper", keys, To(t))
Win(w, t)      == Node("window", w, To(t))
Filt(b, t)     == Node("group-filter", b, To(t))
Fil(b, t)      == Node("filter", b, To(t))

SumOfPackets == <<Def("v", "SUM", "PACKETS")>>
MaxOfBytes   == <<Def("v", "MAX", "BYTES")>>

Short == {Sel(<<Plain("SRC_IP")>>), Sel(<<Plain("v")>>),
          Agg(SumOfPackets, Sel(<<Plain("v")>>)),
          Agg(MaxOfBytes, Filt(<<"v">>, Sel(<<Plain("v"), Plain("COUNT")>>))),
          Gro(<<"SRC_IP">>, Agg(MaxOfBytes, Sel(<<Plain("SRC_IP"), As("x", "v")>>))),
          Win(Window("global", 2), Agg(SumOfPackets, Sel(<<Plain("v")>>)))}
AfterFilter == Short \cup {Gro(<<"PACKETS">>, Win(Window("active", 1),
                                 Agg(SumOfPackets, Sel(<<Plain("v")>>))))}
Leaf  == {Sel(<<Plain("SRC_IP")>>), Sel(<<Plain("v"), Plain("COUNT")>>),
          Filt(<<"v">>, Sel(<<As("x", "v")>>)), Filt(<<"SRC_IP">>, Sel(<<Plain("v")>>))}
AfterGrouper == {c \in Short : c.kind # "grouper"} \cup Leaf

Two(n, m, c, d) == <<Branch(n, c), Branch(m, d)>>

Pairs ==
  {Program(Two("a", m, Main(To(c)), Main(To(d)))) : m \in {"a", "b"}, c \in Short, d \in Short}
  \cup {Program(<<Branch("a", Main(Two("b", "c", Main(To(c)), Main(To(d)))))>>)
          : c \in Short, d \in Short}
  \cup {Single(Node("filter", <<"BYTES">>, Two("b", m, c, d)))
          : m \in {"b", "c"}, c \in AfterFilter, d \in AfterFilter}
  \cup {Single(Node("grouper", <<"SRC_IP">>, Two("b", "c", c, d)))
          : c \in AfterGrouper, d \in AfterGrouper}
  \cup {Single(Gro(<<"SRC_IP">>, Node("aggregator", SumOfPackets, Two("b", m, c, d))))
          : m \in {"b", "c"}, c \in Leaf, d \in Leaf}

MCPrograms == {Single(c) : c \in Chains} \cup Pairs

-----------------------------------------------------------------------------
\* A second key is never checked, nor is a second parameter.
KeyPrograms ==
  {Single(Gro(<<"SRC_IP", k>>, Agg(<<Def("v", "MAX", "BYTES"), Def("w", "SUM", "PACKETS")>>,
                                   Sel(<<Plain("v")>>)))) : k \in {"TIME_FIRST", "PACKETS"}}

\* Branches in an outermost branch may have one name, and share their variables.
BranchPrograms ==
  {Program(<<Branch("a", Main(Two("b", "b", Main(To(Agg(SumOfPackets, Sel(<<Plain("v")>>)))),
                                            Main(To(Agg(MaxOfBytes, Sel(<<Plain("v")>>)))))))>>)}

\* One variable has a name that begins like another one.
AliasPrograms ==
  {Single(Agg(<<Def("sum", "SUM", "PACKETS"), Def("sum2", "MAX", "BYTES")>>,
              Sel(<<Plain("sum"), Plain("sum2")>>)))}

\* An expression is not checked, nor a parameter of COUNT_DISTINCT.
SelectorPrograms ==
  {Single(Gro(<<"SRC_IP">>, Agg(SumOfPackets, Sel(<<As("x", "DST_IP")>>)))),
   Single(Agg(<<Def("v", "COUNT_DISTINCT", "DST_IP")>>, Sel(<<Plain("DST_IP")>>)))}

MixedPrograms == {Single(Win(Window("mixed", 5), Agg(SumOfPackets, Sel(<<Plain("v")>>))))}

\* The nodes of the programs; none has more than two branches.
After(nodes, i) == {n.next[i].node : n \in {m \in nodes : Len(m.next) >= i}}
RECURSIVE WithSuccessors(_)
WithSuccessors(nodes) ==
  IF nodes = {} THEN {} ELSE nodes \cup WithSuccessors(After(nodes, 1) \cup After(nodes, 2))
MCNodes == WithSuccessors(Programs)

BytesPrograms == {Single(Gro(<<"SRC_IP">>, Filt(<<"BYTES">>, Sel(<<Plain("SRC_IP")>>))))}
=============================================================================
