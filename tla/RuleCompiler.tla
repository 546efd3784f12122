----------------------------- MODULE RuleCompiler -----------------------------
(***************************************************************************)
(* From the rules of the user to the stages of the backend: the visitors   *)
(* that parse the group-filters, check the rules and give the variables    *)
(* their aliases (parsing/ast), and the Builder that turns the rules into  *)
(* a tree of stages with their options (backend/builder.cpp,               *)
(* backend/string_functions.cpp, Config::set_timeout).                     *)
(*                                                                         *)
(* A rule is a tree, as the grammar of parsing/rules_def delivers it: a    *)
(* node is [kind, body, next], and next lists its successors, each with    *)
(* the name of its branch or None.  A visitor is a stack of nodes still to *)
(* visit and to leave; what a visitor keeps in its members is state, for   *)
(* that is what one branch may leave behind for the next.  The five        *)
(* checkers walk the same tree one after another; here they walk it        *)
(* together, so that which of two errors is reported first is left open.   *)
(* Names are strings; a selector item is a name or "name = name".          *)
(***************************************************************************)
EXTENDS Integers, Sequences, FiniteSetsExt, SequencesExt

CONSTANTS
  Nodes,            \* nodes of rules
  Programs,         \* rules the user may write
  Fields,           \* UniRec keywords of the rule language
  Malformed,        \* filter bodies the filter parser rejects
  DEFAULT_TIMEOUT,  \* of Config
  MaxTimeout,       \* the largest int
  None, Garbled     \* no name or value; a name the alias replacement broke

\* The kinds of nodes, in the order in which they may be nested.
Kinds == <<"program", "main", "filter", "grouper", "window", "aggregator",
           "group-filter", "selector">>
Depth(kind) == CHOOSE i \in DOMAIN Kinds : Kinds[i] = kind

\* What may come in a branch of a node; only branches have names.
Follows(branch, node) ==
  LET kind == branch.node.kind IN
  /\ \/ Depth(node.kind) < Depth(kind)
     \/ node.kind = "main" /\ kind = "main"
  /\ node.kind = "program" => kind = "main"
  /\ kind = "main" => branch.name # None

\* The rules that the grammar delivers.
Grammar(nodes) ==
  \A n \in nodes :
    /\ n.kind \in ToSet(Kinds)
    /\ n.next \in Seq([name : {None} \cup STRING, node : nodes])
    /\ \A i \in DOMAIN n.next : Follows(n.next[i], n)
    /\ n.kind = "grouper"    => n.body \in Seq(STRING) \ {<<>>}
    /\ n.kind = "aggregator" =>
         n.body \in Seq([name : STRING, func : STRING, param : {None} \cup STRING]) \ {<<>>}

ASSUME GrammarAssumption ==
  /\ Programs \subseteq {n \in Nodes : n.kind = "program"}
  /\ Grammar(Nodes)

ASSUME NoneAssumption == None \notin Seq({None} \cup STRING)

VARIABLES
  ast,      \* the rules
  pass,     \* "parse", "check", "alias", "inter", "build" or "done"
  work,     \* nodes to visit or to leave, the next one first
  error,    \* whether the rules were rejected
  check,    \* members of the five checkers
  vars,     \* Variables: group_filterVars, aggrVars, selVars
  aggr,     \* Alias4variables: lastAggr, a path, or None
  opt,      \* Builder: gro_opt, win_opt
  b_stack,  \* Builder: the stages under construction, a sequence of vectors
  counter,  \* Builder: interface_counter
  root      \* Builder: the finished pipelines

walkVars  == <<ast, pass>>
checkVars == <<error, check>>
buildVars == <<opt, b_stack, counter, root>>
allVars   == <<ast, pass, work, error, check, vars, aggr, opt, b_stack, counter, root>>

-----------------------------------------------------------------------------
(* The walk over the tree.                                                 *)

Item(op, node, path) == [op |-> op, node |-> node, path |-> path]

\* A path grows by the name of each branch.
Successors(node, path) ==
  [i \in DOMAIN node.next |->
     LET b == node.next[i]
     IN Item("visit", b.node, IF b.name = None THEN path ELSE Append(path, b.name))]

Active(p)      == pass = p /\ ~ error /\ work # <<>>
At(p, op, kind) == Active(p) /\ Head(work).op = op /\ Head(work).node.kind = kind

body == Head(work).node.body
path == Head(work).path

Descend == work' = Successors(Head(work).node, path) \o Tail(work)
DescendAndLeave ==
  work' = Successors(Head(work).node, path)
          \o <<Item("leave", Head(work).node, path)>> \o Tail(work)
Skip == work' = Tail(work)

Names(vs) == {vs[i].name : i \in DOMAIN vs}

-----------------------------------------------------------------------------
(* Variables: path -> sequence of [name, alias].                           *)

NoVars == [p \in {} |-> <<>>]

get_vars(map, p) == IF p \in DOMAIN map THEN map[p] ELSE <<>>

\* map.insert: what is there is not replaced.
add_vars(map, p, vs) ==
  [q \in DOMAIN map \cup {p} |-> IF q \in DOMAIN map THEN map[q] ELSE vs]

add_var(map, p, vs) == [q \in DOMAIN map \cup {p} |->
                          IF q = p THEN get_vars(map, p) \o vs ELSE map[q]]

string_isUnirec(name) == name \in Fields \ {"BYTES"}

Variable(name, alias) == [name |-> name, alias |-> alias]

-----------------------------------------------------------------------------
Init ==
  /\ ast \in Programs
  /\ pass = "parse"
  /\ work = <<Item("visit", ast, <<>>)>>
  /\ error = FALSE
  /\ check = [stack |-> <<>>, keys |-> {}, gro |-> {}, agg |-> {}, aggrVars |-> {}]
  /\ vars = [gf |-> NoVars, agg |-> NoVars, sel |-> NoVars]
  /\ aggr = None
  /\ opt = [gro |-> <<>>, win |-> None]
  /\ b_stack = <<>> /\ counter = 0 /\ root = <<>>

Passes == <<"parse", "check", "alias", "inter", "build", "done">>

\* The next visitor starts at the root.
NextPass ==
  /\ ~ error /\ work = <<>> /\ pass \notin {"inter", "done"}
  /\ \E i \in DOMAIN Passes : Passes[i] = pass /\ pass' = Passes[i + 1]
  /\ work' = IF pass \in {"alias", "build"} THEN <<>> ELSE <<Item("visit", ast, <<>>)>>
  /\ UNCHANGED <<ast, checkVars, vars, aggr, buildVars>>

Inner == {"program", "main"}

-----------------------------------------------------------------------------
(* Parse_filter_bodies.                                                    *)

parse_filter_body ==
  /\ At("parse", "visit", "group-filter")
  /\ error' = (body \in Malformed)
  /\ vars' = IF error' THEN vars
             ELSE [vars EXCEPT !.gf = add_vars(@, path,
                     [i \in DOMAIN body |-> Variable(body[i], None)])]
  /\ Skip
  /\ UNCHANGED <<walkVars, check, aggr, buildVars>>

ParseOther ==
  /\ Active("parse") /\ Head(work).node.kind # "group-filter"
  /\ Descend
  /\ UNCHANGED <<walkVars, checkVars, vars, aggr, buildVars>>

-----------------------------------------------------------------------------
(* The checkers.                                                           *)

allowedComb ==
  {f \o g : f \in {<<>>, <<"filter">>},
            g \in {k \o w \o a \o h : k \in {<<>>, <<"grouper">>},
                                     w \in {<<>>, <<"window">>},
                                     a \in {<<>>, <<"aggregator">>},
                                     h \in {<<>>, <<"group-filter">>}}
                  \ {<<"window">>, <<"group-filter">>, <<"window", "group-filter">>}}

Reject(bad) == error' = bad

CheckRest == UNCHANGED <<walkVars, vars, aggr, buildVars>>

\* Names of branches: those after a stage and the outermost ones.
HasDuplicates(node) ==
  \E i, j \in DOMAIN node.next : i < j /\ node.next[i].name = node.next[j].name

Check_branch_names == Head(work).node.kind # "main" /\ HasDuplicates(Head(work).node)

CheckInner ==
  /\ Active("check") /\ Head(work).op = "visit" /\ Head(work).node.kind \in Inner
  /\ Reject(Check_branch_names)
  /\ Descend
  /\ UNCHANGED check /\ CheckRest

Push(c) == [c EXCEPT !.stack = Append(@, Head(work).node.kind)]

CheckFilter ==
  /\ At("check", "visit", "filter")
  /\ Reject(Check_branch_names \/ body \in Malformed)
  /\ check' = Push(check)
  /\ DescendAndLeave
  /\ CheckRest

\* The flag is cleared by the first keyword, so only the first key is kept.
FirstKey(keys) == {keys[1]}

CheckGrouper ==
  /\ At("check", "visit", "grouper")
  /\ Reject(\/ Check_branch_names
            \/ FirstKey(body) \cap {"TIME_FIRST", "TIME_LAST", "COUNT"} # {})
  /\ check' = [Push(check) EXCEPT !.keys = FirstKey(body), !.gro = ToSet(body)]
  /\ DescendAndLeave
  /\ CheckRest

CheckWindow ==
  /\ At("check", "visit", "window")
  /\ Reject(Check_branch_names)
  /\ check' = Push(check)
  /\ DescendAndLeave
  /\ CheckRest

Params(functions) == SelectSeq([i \in DOMAIN functions |-> functions[i].param],
                               LAMBDA f : f # None)
FirstParam(functions) ==
  IF Params(functions) = <<>> THEN {} ELSE {Params(functions)[1]}

CheckAggregator ==
  /\ At("check", "visit", "aggregator")
  /\ Reject(Check_branch_names \/ FirstParam(body) \cap check.keys # {})
  /\ check' = [Push(check) EXCEPT !.agg = ToSet(Params(body)), !.aggrVars = Names(body)]
  /\ DescendAndLeave
  /\ CheckRest

CheckGroupFilter ==
  /\ At("check", "visit", "group-filter")
  /\ Reject(\/ Check_branch_names
            \/ \E name \in Names(get_vars(vars.gf, path)) :
                 name \notin check.aggrVars /\ ~ string_isUnirec(name))
  /\ check' = Push(check)
  /\ DescendAndLeave
  /\ CheckRest

\* Keywords that are selected by themselves; expressions are not looked at.
OutputKeywords(items) == {items[i].out : i \in DOMAIN items} \cap Fields

Check_selector ==
  check.gro \cup check.agg # {} =>
    OutputKeywords(body) \subseteq {"TIME_FIRST", "TIME_LAST"} \cup check.gro \cup check.agg

CheckSelector ==
  /\ At("check", "visit", "selector")
  /\ Reject(check.stack \notin allowedComb \/ ~ Check_selector)
  /\ Skip
  /\ UNCHANGED check /\ CheckRest

\* Mutant: a grouper does not forget its keys.
CheckLeave_keep_keys ==
  /\ Active("check") /\ Head(work).op = "leave"
  /\ check' = [check EXCEPT !.stack = Front(@)]
  /\ Skip
  /\ UNCHANGED error /\ CheckRest

\* Mutant: a window stays on the stack of stages.
CheckLeave_keep_window ==
  /\ Active("check") /\ Head(work).op = "leave"
  /\ LET kind == Head(work).node.kind
         popped == [check EXCEPT !.stack = Front(@)]
     IN check' = CASE kind = "grouper"    -> [popped EXCEPT !.keys = {}, !.gro = {}]
                   [] kind = "aggregator" -> [popped EXCEPT !.agg = {}, !.aggrVars = {}]
                   [] kind = "window"     -> check
                   [] OTHER               -> popped
  /\ Skip
  /\ UNCHANGED error /\ CheckRest

\* A stage forgets what it has noted.
CheckLeave ==
  /\ Active("check") /\ Head(work).op = "leave"
  /\ LET kind == Head(work).node.kind
         popped == [check EXCEPT !.stack = Front(@)]
     IN check' = CASE kind = "grouper"    -> [popped EXCEPT !.keys = {}, !.gro = {}]
                   [] kind = "aggregator" -> [popped EXCEPT !.agg = {}, !.aggrVars = {}]
                   [] OTHER               -> popped
  /\ Skip
  /\ UNCHANGED error /\ CheckRest

-----------------------------------------------------------------------------
(* Alias4variables.                                                        *)

FieldOf(function) ==
  CASE function.func = "COUNT"          -> "COUNT"
    [] function.func = "COUNT_DISTINCT" -> "COUNT_DISTINCT_" \o function.param
    [] OTHER                            -> function.param

\* Every variable takes the alias of the last variable of that name.
WithAliases(vs) ==
  LET as == IF aggr = None THEN <<>> ELSE vars.agg[aggr]
      Defs(name) == {i \in DOMAIN as : as[i].name = name}
  IN [j \in DOMAIN vs |->
        IF Defs(vs[j].name) = {} THEN vs[j]
        ELSE [vs[j] EXCEPT !.alias = as[Max(Defs(vs[j].name))].alias]]

AliasRest == UNCHANGED <<walkVars, checkVars, buildVars>>

AggregatorVariables(functions) ==
  [i \in DOMAIN functions |-> Variable(functions[i].name, FieldOf(functions[i]))]

AliasAggregator ==
  /\ At("alias", "visit", "aggregator")
  /\ vars' = [vars EXCEPT !.agg = add_var(@, path, AggregatorVariables(body))]
  /\ aggr' = path
  /\ DescendAndLeave
  /\ AliasRest

\* Mutant: the aggregator stays the last one in the next branch.
LeaveAggregator_keep ==
  /\ At("alias", "leave", "aggregator")
  /\ Skip
  /\ UNCHANGED <<vars, aggr>> /\ AliasRest

LeaveAggregator ==
  /\ At("alias", "leave", "aggregator")
  /\ aggr' = None
  /\ Skip
  /\ UNCHANGED vars /\ AliasRest

AliasGroupFilter ==
  /\ At("alias", "visit", "group-filter")
  /\ vars' = [vars EXCEPT !.gf = [p \in DOMAIN @ |->
                IF p = path THEN WithAliases(@[p]) ELSE @[p]]]
  /\ Descend
  /\ UNCHANGED aggr /\ AliasRest

\* Names that are no keywords; COUNT is one after an aggregator.  What is assigned
\* to a keyword is not looked at.
SelectorVariables(items) ==
  LET Uses(item) == CASE item.out \in Fields -> None
                      [] item.expr # None     -> item.expr
                      [] OTHER -> IF item.out = "COUNT" /\ aggr # None THEN None ELSE item.out
      uses == SelectSeq([i \in DOMAIN items |-> Uses(items[i])],
                        LAMBDA name : name \notin Fields \cup {None})
  IN [i \in DOMAIN uses |-> Variable(uses[i], None)]

AliasSelector ==
  /\ At("alias", "visit", "selector")
  /\ vars' = LET added == SelectorVariables(body) IN
             IF added = <<>> /\ path \notin DOMAIN vars.sel THEN vars
             ELSE [vars EXCEPT !.sel = [p \in DOMAIN @ \cup {path} |->
                     IF p = path THEN WithAliases(get_vars(@, p) \o added) ELSE @[p]]]
  /\ Skip
  /\ UNCHANGED aggr /\ AliasRest

AliasOther ==
  /\ Active("alias") /\ Head(work).op = "visit"
  /\ Head(work).node.kind \notin {"aggregator", "group-filter", "selector"}
  /\ Descend
  /\ UNCHANGED <<vars, aggr>> /\ AliasRest

\* Every variable has an alias or is a keyword.
check_inter_repr ==
  /\ pass = "inter" /\ ~ error
  /\ error' = \E map \in {vars.gf, vars.agg, vars.sel} : \E p \in DOMAIN map :
                \E v \in ToSet(map[p]) : v.alias = None /\ ~ string_isUnirec(v.name)
  /\ pass' = "build"
  /\ work' = <<Item("visit", ast, <<>>)>>
  /\ UNCHANGED <<ast, check, vars, aggr, buildVars>>

-----------------------------------------------------------------------------
(* Builder.                                                                *)

Occurs(s, t) ==
  \E i \in 0 .. Len(t) - Len(s) : SubSeq(t, i + 1, i + Len(s)) = s

\* Replacing a name inside a longer one leaves a name that nobody knows.
findAndReplaceAll(text, v) ==
  CASE text = None          -> None
    [] text = v.name        -> v.alias
    [] text = Garbled       -> Garbled
    [] Occurs(v.name, text) -> Garbled
    [] OTHER                -> text

replace_in_group_filter(names, v) ==
  [i \in DOMAIN names |-> findAndReplaceAll(names[i], v)]

\* An item without "=" becomes the alias if the name occurs in it.
replace_in_selector(items, v) ==
  [i \in DOMAIN items |->
     IF items[i].expr # None
     THEN [items[i] EXCEPT !.expr = findAndReplaceAll(@, v)]
     ELSE [items[i] EXCEPT !.out = IF Occurs(v.name, @) THEN v.alias ELSE @]]

apply_aliases(text, vs, Replace(_, _)) ==
  FoldLeft(LAMBDA t, v : IF v.alias = None THEN t ELSE Replace(t, v), text, vs)

\* What Config::set_timeout makes of the option: a mixed window needs two numbers.
set_timeout(w) ==
  CASE w.type = "mixed" -> [type |-> "active", range |-> DEFAULT_TIMEOUT]
    [] w.range <= 0     -> [w EXCEPT !.range = DEFAULT_TIMEOUT]
    [] OTHER            -> w

get_max_window == [type |-> "active", range |-> MaxTimeout]

BuildRest == UNCHANGED <<walkVars, checkVars, vars, aggr>>

Built(kind, options, ifc, succ) ==
  [kind |-> kind, options |-> options, ifc |-> ifc, succ |-> succ]

\* Mutant: the stage goes before those of the branches visited earlier.
PopAndAdd_first(stage) ==
  LET below == Front(b_stack)
  IN b_stack' = Append(Front(below), <<stage>> \o Last(below))

\* The successors are on top of b_stack; the stage goes to the vector below.
PopAndAdd(stage) ==
  LET below == Front(b_stack)
  IN b_stack' = Append(Front(below), Append(Last(below), stage))

\* Mutant: the depth of a branch is one more.
BuildProgram_deeper ==
  /\ Active("build") /\ Head(work).op = "visit"
  /\ Head(work).node.kind \in Inner
  /\ IF Head(work).node.kind = "main" /\ Len(path) = 2
     THEN b_stack' = Append(b_stack, <<>>) /\ DescendAndLeave
     ELSE Descend /\ UNCHANGED b_stack
  /\ UNCHANGED <<opt, counter, root>> /\ BuildRest

BuildProgram ==
  /\ Active("build") /\ Head(work).op = "visit"
  /\ Head(work).node.kind \in Inner
  /\ IF Head(work).node.kind = "main" /\ Len(path) = 1
     THEN b_stack' = Append(b_stack, <<>>) /\ DescendAndLeave
     ELSE Descend /\ UNCHANGED b_stack
  /\ UNCHANGED <<opt, counter, root>> /\ BuildRest

\* The vector of an outermost branch is deleted (None), but b_stack keeps the
\* pointer to it.
unpack_main_branch ==
  /\ At("build", "leave", "main")
  /\ root' = root \o Last(b_stack)
  /\ b_stack' = Append(Front(b_stack), None)
  /\ Skip
  /\ UNCHANGED <<opt, counter>> /\ BuildRest

\* Filter, aggregator and group-filter collect their successors first.
BuildStage ==
  /\ \E kind \in {"filter", "aggregator", "group-filter"} : At("build", "visit", kind)
  /\ b_stack' = Append(b_stack, <<>>)
  /\ DescendAndLeave
  /\ UNCHANGED <<opt, counter, root>> /\ BuildRest

LeaveFilter ==
  /\ At("build", "leave", "filter")
  /\ PopAndAdd(Built("filter", body, None, Last(b_stack)))
  /\ Skip
  /\ UNCHANGED <<opt, counter, root>> /\ BuildRest

BuildGrouper ==
  /\ At("build", "visit", "grouper")
  /\ opt' = [opt EXCEPT !.gro = @ \o body]
  /\ DescendAndLeave
  /\ UNCHANGED <<b_stack, counter, root>> /\ BuildRest

\* Mutant: the keys stay in the option for the next branch.
LeaveGrouper_keep ==
  /\ At("build", "leave", "grouper")
  /\ Skip
  /\ UNCHANGED <<opt, b_stack, counter, root>> /\ BuildRest

LeaveGrouper ==
  /\ At("build", "leave", "grouper")
  /\ opt' = [opt EXCEPT !.gro = <<>>]
  /\ Skip
  /\ UNCHANGED <<b_stack, counter, root>> /\ BuildRest

BuildWindow ==
  /\ At("build", "visit", "window")
  /\ opt' = [opt EXCEPT !.win = body]
  /\ DescendAndLeave
  /\ UNCHANGED <<b_stack, counter, root>> /\ BuildRest

\* Mutant: the window stays in the option for the next branch.
LeaveWindow_keep ==
  /\ At("build", "leave", "window")
  /\ Skip
  /\ UNCHANGED <<opt, b_stack, counter, root>> /\ BuildRest

LeaveWindow ==
  /\ At("build", "leave", "window")
  /\ opt' = [opt EXCEPT !.win = None]
  /\ Skip
  /\ UNCHANGED <<b_stack, counter, root>> /\ BuildRest

Functions(fs) ==
  LET used == SelectSeq(fs, LAMBDA f : f.param # None)
  IN [i \in DOMAIN used |-> [func |-> used[i].func, param |-> used[i].param]]

LeaveAggregatorStage ==
  /\ At("build", "leave", "aggregator")
  /\ PopAndAdd(Built("aggregator",
       [keys |-> opt.gro,
        window |-> set_timeout(IF opt.win = None THEN get_max_window ELSE opt.win),
        functions |-> Functions(body)],
       None, Last(b_stack)))
  /\ Skip
  /\ UNCHANGED <<opt, counter, root>> /\ BuildRest

LeaveGroupFilter ==
  /\ At("build", "leave", "group-filter")
  /\ PopAndAdd(Built("filter",
       apply_aliases(body, get_vars(vars.gf, path), replace_in_group_filter),
       None, Last(b_stack)))
  /\ Skip
  /\ UNCHANGED <<opt, counter, root>> /\ BuildRest

\* What is assigned to a keyword is dropped: only other names get "=" and their
\* expression.
sel_opt(items) ==
  [i \in DOMAIN items |->
     IF items[i].out \in Fields THEN [items[i] EXCEPT !.expr = None] ELSE items[i]]

BuildSelector ==
  /\ At("build", "visit", "selector")
  /\ b_stack' = Append(Front(b_stack), Append(Last(b_stack),
       Built("selector",
             apply_aliases(sel_opt(body), get_vars(vars.sel, path), replace_in_selector),
             counter, <<>>)))
  /\ counter' = counter + 1
  /\ Skip
  /\ UNCHANGED <<opt, root>> /\ BuildRest

-----------------------------------------------------------------------------
Parse == parse_filter_body \/ ParseOther
Check == \/ CheckInner \/ CheckFilter \/ CheckGrouper \/ CheckWindow
         \/ CheckAggregator \/ CheckGroupFilter \/ CheckSelector \/ CheckLeave
Alias == \/ AliasAggregator \/ LeaveAggregator \/ AliasGroupFilter \/ AliasSelector
         \/ AliasOther
Build == \/ BuildProgram \/ unpack_main_branch \/ BuildStage \/ LeaveFilter
         \/ BuildGrouper \/ LeaveGrouper \/ BuildWindow \/ LeaveWindow
         \/ LeaveAggregatorStage \/ LeaveGroupFilter \/ BuildSelector

Next == NextPass \/ Parse \/ Check \/ Alias \/ check_inter_repr \/ Build

Spec == Init /\ [][Next]_allVars
-----------------------------------------------------------------------------
TypeOK ==
  /\ pass \in ToSet(Passes)
  /\ error \in BOOLEAN
  /\ aggr = None \/ aggr \in DOMAIN vars.agg
  /\ counter \in Nat
  /\ ~ error /\ work = <<>> =>
       /\ check.stack = <<>> /\ check.keys = {} /\ check.gro = {} /\ check.agg = {}
       /\ opt = [gro |-> <<>>, win |-> None]
       /\ aggr = None

Accepted == pass = "done"

-----------------------------------------------------------------------------
(* What a visitor knows.                                                   *)

\* The stages above the next one: those that the visitor has still to leave.
Entered       == {item \in ToSet(work) : item.op = "leave"}
EnteredOf(kind) == {item \in Entered : item.node.kind = kind}

\* The body of the stage of a kind above the next one, or nothing.
BodyAbove(kind, nothing) ==
  IF EnteredOf(kind) = {} THEN nothing ELSE (CHOOSE item \in EnteredOf(kind) : TRUE).node.body

KeysAbove      == BodyAbove("grouper", <<>>)
FunctionsAbove == BodyAbove("aggregator", <<>>)

\* The checkers know the sequence of the stages, the keys and the functions.
CheckNotes ==
  /\ ToSet(check.stack) = {item.node.kind : item \in Entered}
  /\ \A i, j \in DOMAIN check.stack : i < j => Depth(check.stack[i]) < Depth(check.stack[j])
  /\ check.keys = IF KeysAbove = <<>> THEN {} ELSE FirstKey(KeysAbove)
  /\ check.gro = ToSet(KeysAbove)
  /\ check.agg = IF FunctionsAbove = <<>> THEN {} ELSE ToSet(Params(FunctionsAbove))
  /\ check.aggrVars = Names(FunctionsAbove)

\* The variables of an aggregator are the last that were added for its path, on
\* which other aggregators may have left theirs.
AliasNotes ==
  /\ aggr = None <=> EnteredOf("aggregator") = {}
  /\ aggr # None => IsSuffix(AggregatorVariables(FunctionsAbove), vars.agg[aggr])

BuildNotes == opt = [gro |-> KeysAbove, win |-> BodyAbove("window", None)]

\* The members of the visitors hold what the stages above the next one say, and
\* nothing that another branch has left behind.
NotesOfPath ==
  /\ pass = "check" => CheckNotes
  /\ pass = "alias" => AliasNotes
  /\ pass = "build" => BuildNotes

\* The vectors of b_stack that the next step of the Builder reads or adds a stage
\* to exist and were not deleted, although the deleted ones stay on b_stack.
VectorsInUse ==
  pass = "build" /\ work # <<>> =>
    LET op   == Head(work).op
        kind == Head(work).node.kind
        used == CASE op = "visit" /\ kind = "selector" -> 1
                  [] op = "leave" /\ kind = "main"     -> 1
                  [] op = "leave" /\ kind \in {"filter", "aggregator", "group-filter"} -> 2
                  [] OTHER -> 0
    IN used <= Len(b_stack) /\ \A i \in 0 .. used - 1 : b_stack[Len(b_stack) - i] # None
=============================================================================
