---------------------------- MODULE MCFilterTree ----------------------------
(***************************************************************************)
(* Instances of FilterTree for TLC: a flags field, a time field and an     *)
(* address field with cells of two bits; records around every boundary of  *)
(* the leaves.                                                             *)
(***************************************************************************)
EXTENDS FilterTree

NumOf(n)  == [kind |-> "num", val |-> n]
AWord     == [kind |-> "word"]
TimeOf(n) == [kind |-> "time", val |-> n]
Net4Of(lo, p)     == [kind |-> "net", ver |-> 4, hi |-> 0, lo |-> lo, prefix |-> p,
                      mask |-> "bits"]
Net6Of(hi, lo, p) == [kind |-> "net", ver |-> 6, hi |-> hi, lo |-> lo, prefix |-> p,
                      mask |-> "bits"]
Masked(net)       == [net EXCEPT !.mask = "address"]

LeafOf(f, o, lits) == [field |-> f, oper |-> o, literals |-> lits]

MCType == [TCP_FLAGS |-> "uint", TIME_FIRST |-> "timestamp", SRC_IP |-> "addr"]

MCLeaves ==
  {LeafOf("TCP_FLAGS", "EQ", <<NumOf(1)>>), LeafOf("TCP_FLAGS", "GT", <<NumOf(1)>>),
   LeafOf("TCP_FLAGS", "LT", <<NumOf(2)>>), LeafOf("TCP_FLAGS", "ISSET", <<NumOf(3)>>),
   LeafOf("TCP_FLAGS", "IN", <<NumOf(0), NumOf(3)>>),
   LeafOf("SRC_IP", "EQ", <<Net4Of(2, 2)>>), LeafOf("SRC_IP", "EQ", <<Net6Of(2, 1, 3)>>),
   LeafOf("SRC_IP", "IN", <<Net4Of(3, 1), Masked(Net6Of(1, 0, 1))>>),
   LeafOf("SRC_IP", "EXIST", <<>>),
   LeafOf("SRC_IP", "GT", <<Net4Of(2, 2)>>), LeafOf("SRC_IP", "EQ", <<Net6Of(1, 0, 1)>>),
   LeafOf("UNKNOWN", "EQ", <<NumOf(1)>>)}

\* They satisfy the hypothesis of FilterTreeProofs.
ASSUME MCLeavesComparable == \A l \in MCLeaves : Comparable(l)

TimeLeaves   == {LeafOf("TIME_FIRST", "GT", <<TimeOf(1)>>), LeafOf("TCP_FLAGS", "EQ", <<NumOf(1)>>)}
PrefixLeaves == {LeafOf("SRC_IP", "EQ", <<Net4Of(1, 0)>>), LeafOf("TCP_FLAGS", "EQ", <<NumOf(1)>>)}
WordLeaves   == {LeafOf("TCP_FLAGS", "EQ", <<AWord>>), LeafOf("TCP_FLAGS", "LT", <<Net4Of(2, 2)>>), LeafOf("TCP_FLAGS", "EQ", <<NumOf(1)>>)}

Record(t, time, hi, lo) ==
  [TCP_FLAGS |-> t, TIME_FIRST |-> time, SRC_IP |-> [hi |-> hi, lo |-> lo]]

MCRecords ==
  {Record(0, 1, 0, 2), Record(1, 2, 0, 3), Record(2, 1, 2, 1), Record(3, 2, 2, 3),
   Record(2, 2, 1, 0), Record(1, 1, 3, 3), Record(3, 1, 0, 0)}

MCGarbage == {<<"ERR", "">>, <<"ISSET", "UIn">>}
=============================================================================
