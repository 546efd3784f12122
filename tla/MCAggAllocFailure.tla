-------------------------- MODULE MCAggAllocFailure --------------------------
(* One key and one record: enough for an allocation to fail.               *)
EXTENDS AggAllocFailure
CONSTANT k1
MCKeys  == {k1}
MCFlows == {[key |-> k1, first |-> 1, last |-> 1]}
=============================================================================
