----------------------------- MODULE MCPipelines -----------------------------
(***************************************************************************)
(* An instance of Pipelines with two aggregators, so that two timeout      *)
(* threads run next to the main thread: the first main branch is an        *)
(* aggregator, a group-filter and a selector, the second one a filter that *)
(* feeds an aggregator and, in a branch of its own, a selector.            *)
(***************************************************************************)
EXTENDS Pipelines

MCStages == {"agg1", "gf", "sel1", "fil", "agg2", "sel2", "sel3"}
MCKind == [agg1 |-> "agg", gf |-> "filter", sel1 |-> "selector",
           fil |-> "filter", agg2 |-> "agg", sel2 |-> "selector",
           sel3 |-> "selector"]
MCSucc == [agg1 |-> <<"gf">>, gf |-> <<"sel1">>, sel1 |-> <<>>,
           fil |-> <<"agg2", "sel3">>, agg2 |-> <<"sel2">>, sel2 |-> <<>>,
           sel3 |-> <<>>]
MCRoot == <<"agg1", "fil">>
MCFail == {"gf", "agg2"}
=============================================================================
