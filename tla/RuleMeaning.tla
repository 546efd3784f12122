---------------------------- MODULE RuleMeaning ----------------------------
(***************************************************************************)
(* What the rules mean, said of the rules themselves: the reference for    *)
(* RuleCompiler.  These definitions recur over the tree of the rules.      *)
(***************************************************************************)
EXTENDS RulePlaces

-----------------------------------------------------------------------------
(* What the rules mean: an environment instead of members and flags.       *)

Denotes(name, functions) ==
  LET defs == {i \in DOMAIN functions : functions[i].name = name}
  IN IF defs = {} THEN name ELSE FieldOf(functions[Max(defs)])

\* The name an item gets in the output, and the field it shows: what is assigned to
\* it, or itself.
Item_out(item, env)    == IF item.expr = None THEN Denotes(item.out, env.functions) ELSE item.out
Item_source(item, env) ==
  Denotes(IF item.expr = None THEN item.out ELSE item.expr, env.functions)

Shown(items, env) ==
  [i \in DOMAIN items |-> [out |-> Item_out(items[i], env), source |-> Item_source(items[i], env)]]

WindowMeaning(w) ==
  CASE w = None     -> get_max_window
    [] w.range <= 0 -> [w EXCEPT !.range = DEFAULT_TIMEOUT]
    [] OTHER        -> w

RECURSIVE Meaning(_, _)
Meaning(node, env) ==
  LET Below(e) == FlattenSeq([i \in DOMAIN node.next |-> Meaning(node.next[i].node, e)])
      Stage(kind, options, e) == <<Built(kind, options, None, Below(e))>>
  IN CASE node.kind \in Inner       -> Below(env)
       [] node.kind = "grouper"      -> Below([env EXCEPT !.keys = node.body])
       [] node.kind = "window"       -> Below([env EXCEPT !.window = node.body])
       [] node.kind = "filter"       -> Stage("filter", node.body, env)
       [] node.kind = "aggregator"   ->
            Stage("aggregator", [keys |-> env.keys, window |-> WindowMeaning(env.window),
                                 functions |-> Functions(node.body)],
                  [env EXCEPT !.functions = node.body])
       [] node.kind = "group-filter" ->
            Stage("filter", [i \in DOMAIN node.body |-> Denotes(node.body[i], env.functions)],
                  env)
       [] node.kind = "selector"     -> Stage("selector", Shown(node.body, env), env)

\* Stages as Meaning describes them.  The options of a selector hold no variables.
RECURSIVE Described(_)
Described(stages) ==
  LET Options(s) == IF s.kind = "selector" THEN Shown(s.options, [functions |-> <<>>])
                    ELSE s.options
  IN [i \in DOMAIN stages |->
        Built(stages[i].kind, Options(stages[i]), None, Described(stages[i].succ))]

RECURSIVE Interfaces(_)
Interfaces(stages) ==
  FlattenSeq([i \in DOMAIN stages |->
                IF stages[i].kind = "selector" THEN <<stages[i].ifc>>
                ELSE Interfaces(stages[i].succ)])

\* The Builder, whose options are strings shared by all branches, builds what
\* the rules mean: every aggregator has the keys, the window and the functions on
\* its own path and nothing of another branch, every variable stands for the
\* field of its aggregator, every item of a selector has the name and shows the
\* field that are written, and the selectors use the interfaces in order.
BuiltAsWritten ==
  Accepted => /\ Described(root)
                   = Meaning(ast, [keys |-> <<>>, window |-> None, functions |-> <<>>])
              /\ Interfaces(root) = [i \in 1 .. counter |-> i - 1]

-----------------------------------------------------------------------------
(* What the sources say of single checks.                                  *)

\* "Check for valid input keyword as aggregation key" and "Check if aggregation
\* key is not in collision with aggregation function" (ast_check_grouper.hpp:49, 54).
GrouperChecked == Accepted => KeysValid /\ KeysNotAggregated

\* "Check if branch name is unique" (ast_check_branch_names.hpp:22).
BranchNamesChecked == Accepted => NamesUnique

\* "Desired item cannot be selected" (exception.hpp:28) is reported for an item
\* that the record of the selector does not have.
SelectionChecked == Accepted => ItemsExist

\* "Check if string is Unirec keyword" (ast.hpp:689): a group-filter is not
\* rejected because of a keyword.
KeywordsAccepted == error => ~ WellFormed
=============================================================================
