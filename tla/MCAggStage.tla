----------------------------- MODULE MCAggStage -----------------------------
(***************************************************************************)
(* Instances of AggStage for TLC: two keys, records that overlap, lie in    *)
(* one window, lie beyond it, or arrive late (out of order).               *)
(***************************************************************************)
EXTENDS AggStage, TLC

CONSTANTS k1, k2

MCKeys  == {k1, k2}
Flow(k, b, e) == [key |-> k, first |-> b, last |-> e]

\* Beginnings 0, 1 and 3: with a timeout of 1 the first two share a window.
MCFlows == {Flow(k1, 1, 1), Flow(k1, 3, 3), Flow(k1, 0, 2), Flow(k2, 1, 2)}
=============================================================================
