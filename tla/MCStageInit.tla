----------------------------- MODULE MCStageInit -----------------------------
(***************************************************************************)
(* The rules of MCRuleCompiler and some more, followed to the records that *)
(* are sent: selectors that give one name to several things, in one branch *)
(* or two, and aggregators with several functions for one field.           *)
(***************************************************************************)
EXTENDS MCRuleCompiler, StageInit

MC_UR_FIELDS ==
  [SRC_IP |-> "ip", DST_IP |-> "ip", PACKETS |-> "uint32", BYTES |-> "uint64",
   DST_PORT |-> "uint16", TIME_FIRST |-> "time", TIME_LAST |-> "time", COUNT |-> "uint32"]

\* Selectors below an aggregator of v, w and d over the key SRC_IP.
Aliases ==
  {<<As("x", n)>> : n \in {"v", "d", "SRC_IP", "TIME_LAST"}}
  \cup {<<As("v", "w"), Plain("d")>>, <<As("COUNT", "v")>>, <<As("SRC_IP", "SRC_IP"), Plain("COUNT")>>,
        <<Plain("SRC_IP"), As("COUNT_DISTINCT_DST_IP", "w"), As("y", "v")>>,
        <<Plain("v"), Plain("w"), Plain("SRC_IP")>>}

Functions3 ==
  {<<Def("v", "SUM", "PACKETS"), Def("w", second, "BYTES"), Def("d", "COUNT_DISTINCT", "DST_IP")>>
     : second \in {"MAX", "RATE"}}
  \cup {<<Def("v", "SUM", "PACKETS"), Def("w", "MAX", "PACKETS"), Def("d", "COUNT_DISTINCT", "PACKETS")>>,
        <<Def("v", "COUNT_DISTINCT", "BYTES"), Def("w", "MIN", "TIME_FIRST"), Def("d", "COUNT_DISTINCT", "BYTES")>>,
        <<Def("v", "LAST", "BYTES"), Def("v", "SUM", "PACKETS"), Def("w", "AVG", "BYTES"), Def("d", "COUNT", None)>>}

AliasesInBranches ==
  {Single(Gro(<<"SRC_IP", "SRC_IP">>, Node("aggregator", fs, Two("b", "c", Sel(i), Sel(j)))))
     : fs \in Functions3, i \in Aliases, j \in Aliases}
  \cup {Program(Two("a", "b", Main(To(Gro(<<"SRC_IP">>, Agg(fs, Filt(<<"v", "d">>, Sel(i)))))),
                              Main(To(Sel(j)))))
          : fs \in Functions3, i \in Aliases,
            j \in {<<Plain("SRC_IP")>>, <<Plain("TIME_LAST"), Plain("BYTES"), Plain("TIME_LAST")>>}}

\* A keyword to which a variable is assigned that stands for it anyway.
KeywordItems ==
  {Single(Gro(<<"SRC_IP">>, Agg(fs, Sel(<<As("x", "w"), As("PACKETS", "v")>>))))
     : fs \in {f \in Functions3 : f[1] = Def("v", "SUM", "PACKETS")}}

MCAllPrograms == MCPrograms \cup AliasesInBranches \cup KeywordItems

-----------------------------------------------------------------------------
\* What is assigned to another keyword is lost.
AssignPrograms ==
  {Single(Gro(<<"SRC_IP">>, Agg(SumOfPackets, Sel(<<As("SRC_IP", "TIME_LAST"), Plain("v")>>))))}

-----------------------------------------------------------------------------
\* The rule of the README: DST_PORT is used by the filter alone.  A keyword that
\* only the expression of a selector uses is not asked for either, and a
\* group-filter may name one that the aggregator does not pass on.
InputPrograms ==
  {Single(Fil(<<"SRC_IP", "DST_PORT">>,
     Gro(<<"SRC_IP">>,
       Win(Window("global", 1),
         Agg(<<Def("smtp_count", "COUNT_DISTINCT", "DST_IP")>>,
           Filt(<<"smtp_count">>, Sel(<<Plain("SRC_IP"), Plain("smtp_count")>>))))))),
   Single(Sel(<<Plain("SRC_IP"), As("x", "DST_IP")>>)),
   Single(Agg(SumOfPackets, Filt(<<"v", "SRC_IP">>, Sel(<<Plain("v")>>))))}
=============================================================================
