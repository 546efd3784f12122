------------------------------ MODULE RulePlaces ------------------------------
(***************************************************************************)
(* When rules are well formed, what the checkers of RuleCompiler accept,   *)
(* and what its Builder builds, all said place by place: a place is a node *)
(* with the stages above it and the names of the branches that lead to it. *)
(***************************************************************************)
EXTENDS RuleCompiler

CONSTANT Nesting  \* rules are finite: no node is deeper below the program

Place(node, above, names) == [node |-> node, above |-> above, path |-> names]

\* The places next to a place: successors have the stages above them in mind.
PlacesAfter(p) ==
  {Place(a.node, IF p.node.kind \in Inner THEN p.above ELSE p.above \cup {p.node}, a.path)
     : a \in ToSet(Successors(p.node, p.path))}

\* Depth by depth.
PlacesAt(rules) ==
  LET at[n \in 0 .. Nesting] ==
        IF n = 0 THEN {Place(rules, {}, <<>>)} ELSE UNION {PlacesAfter(p) : p \in at[n - 1]}
  IN at

PlacesOf(rules) == UNION {PlacesAt(rules)[n] : n \in 0 .. Nesting}

ASSUME NestingAssumption ==
  /\ Nesting \in Nat
  /\ \A rules \in Programs : \A p \in PlacesAt(rules)[Nesting] : p.node.next = <<>>

AllPlaces    == PlacesOf(ast)
Places(kind) == {p \in AllPlaces : p.node.kind = kind}

-----------------------------------------------------------------------------
(* What the stages above a place say.                                      *)

KindsAbove(p)      == {n.kind : n \in p.above}
Has(p, kind)       == kind \in KindsAbove(p)
BodiesAbove(p, kind) == {n.body : n \in {m \in p.above : m.kind = kind}}

KeysOf(p)      == UNION {ToSet(keys) : keys \in BodiesAbove(p, "grouper")}
VariablesOf(p) == UNION {Names(functions) : functions \in BodiesAbove(p, "aggregator")}
ParamsOf(p)    == UNION {ToSet(Params(functions)) : functions \in BodiesAbove(p, "aggregator")}
FieldsOf(p)    == UNION {{FieldOf(f) : f \in ToSet(functions)}
                           : functions \in BodiesAbove(p, "aggregator")}

Combines(p) ==
  Has(p, "window") \/ Has(p, "group-filter") => Has(p, "grouper") \/ Has(p, "aggregator")

Times == {"TIME_FIRST", "TIME_LAST"}

-----------------------------------------------------------------------------
(* When rules are well formed.                                             *)

NamesUnique == \A p \in AllPlaces : ~ HasDuplicates(p.node)

StagesCombine == \A p \in Places("selector") : Combines(p)

KeysValid == \A p \in Places("grouper") : ToSet(p.node.body) \cap Times = {}

KeysNotAggregated ==
  \A p \in Places("aggregator") : ToSet(Params(p.node.body)) \cap KeysOf(p) = {}

FiltersParse ==
  \A p \in Places("filter") \cup Places("group-filter") : p.node.body \notin Malformed

FilterNamesKnown ==
  \A p \in Places("group-filter") : ToSet(p.node.body) \subseteq Fields \cup VariablesOf(p)

\* The fields of the record a selector gets, and the variables that name them.
Selectable(p) ==
  CASE Has(p, "aggregator") -> Times \cup KeysOf(p) \cup {"COUNT"} \cup VariablesOf(p) \cup FieldsOf(p)
    [] ~ Has(p, "aggregator") /\ Has(p, "grouper") -> Times \cup KeysOf(p)
    [] OTHER -> Fields

ItemsExist ==
  \A p \in Places("selector") : \A item \in ToSet(p.node.body) :
    (IF item.expr = None THEN item.out ELSE item.expr) \in Selectable(p)

WellFormed ==
  /\ NamesUnique /\ StagesCombine /\ KeysValid /\ KeysNotAggregated
  /\ FiltersParse /\ FilterNamesKnown /\ ItemsExist

\* The checkers, each with its own notes of what lies above, accept the rules
\* that are well formed and no others.
AcceptedIffWellFormed == (Accepted => WellFormed) /\ (error => ~ WellFormed)

-----------------------------------------------------------------------------
(* What the checkers accept.  They look at the first key and at the first  *)
(* parameter only, and for the names of a group-filter under its path.     *)

\* No path leads to two different group-filters.
GroupFiltersApart ==
  \A p, q \in Places("group-filter") : p.path = q.path => ToSet(p.node.body) = ToSet(q.node.body)

FirstKeysOf(p) == UNION {FirstKey(keys) : keys \in BodiesAbove(p, "grouper")}

\* One place, checked against what the stages above it say.
PassesChecks(p) ==
  LET kind  == p.node.kind
      text  == p.node.body
      known == KeysOf(p) \cup ParamsOf(p)
  IN /\ kind # "main" => ~ HasDuplicates(p.node)
     /\ kind \in {"filter", "group-filter"} => text \notin Malformed
     /\ kind = "grouper"    => FirstKey(text) \cap {"TIME_FIRST", "TIME_LAST", "COUNT"} = {}
     /\ kind = "aggregator" => FirstParam(text) \cap FirstKeysOf(p) = {}
     /\ kind = "group-filter" =>
          \A name \in ToSet(text) : name \in VariablesOf(p) \/ string_isUnirec(name)
     /\ kind = "selector" =>
          /\ Combines(p)
          /\ known # {} => OutputKeywords(text) \subseteq Times \cup known

Checked == pass \notin {"parse", "check"}

\* The verdict of the checkers, that walk over the rules with a stack, sets and flags
\* in their members, is that of the single places: rules are rejected only if one of
\* their places does not fit what is above it, and rules get past the checkers only
\* if all of them do, whatever the other branches hold and in whatever order they
\* are visited.
CheckedPlaceByPlace ==
  GroupFiltersApart =>
    /\ error /\ ~ Checked => \E p \in AllPlaces : ~ PassesChecks(p)
    /\ Checked => \A p \in AllPlaces : PassesChecks(p)

-----------------------------------------------------------------------------
(* What the Builder makes of a place.                                      *)

\* The places next to a place, in the order of the rules.
NextPlaces(p) ==
  [i \in DOMAIN p.node.next |->
     LET a == Successors(p.node, p.path)[i]
     IN Place(a.node, IF p.node.kind \in Inner THEN p.above ELSE p.above \cup {p.node}, a.path)]

BodyOver(p, kind, nothing) ==
  IF Has(p, kind) THEN CHOOSE b \in BodiesAbove(p, kind) : TRUE ELSE nothing

\* The options of a stage, from what is above it and the aliases of its path in as.
OptionsOf(p, as) ==
  LET kind   == p.node.kind
      window == BodyOver(p, "window", None)
  IN CASE kind = "filter"       -> p.node.body
       [] kind = "aggregator"   -> [keys |-> BodyOver(p, "grouper", <<>>),
                                    window |-> set_timeout(IF window = None THEN get_max_window
                                                           ELSE window),
                                    functions |-> Functions(p.node.body)]
       [] kind = "group-filter" ->
            apply_aliases(p.node.body, get_vars(as.gf, p.path), replace_in_group_filter)
       [] kind = "selector"     ->
            apply_aliases(sel_opt(p.node.body), get_vars(as.sel, p.path), replace_in_selector)

\* Stages, and the interface for the next selector.
Numbered(stages, n) == [stages |-> stages, next |-> n]

Then(done, more) == Numbered(done.stages \o more.stages, more.next)

\* The stages of one place after those of the other, from tells those of each.
InTurn(places, n, from) ==
  LET upto[i \in 0 .. Len(places)] ==
        IF i = 0 THEN Numbered(<<>>, n)
        ELSE Then(upto[i - 1], from[<<places[i], upto[i - 1].next>>])
  IN upto[Len(places)]

\* A place becomes a stage, given the stages below it, or adds nothing to them.
StageOf(p, as, n, below) ==
  LET kind == p.node.kind IN
  CASE kind = "selector" -> Numbered(<<Built("selector", OptionsOf(p, as), n, <<>>)>>, n + 1)
    [] kind = "aggregator" ->
         Numbered(<<Built("aggregator", OptionsOf(p, as), None, below.stages)>>, below.next)
    [] kind \in {"filter", "group-filter"} ->
         Numbered(<<Built("filter", OptionsOf(p, as), None, below.stages)>>, below.next)
    [] OTHER -> below

\* The stages of a place whose first selector gets interface n, for places that
\* have so many levels below them.
StagesAt(rules, as) ==
  LET P == PlacesOf(rules)
      at[l \in 0 .. Nesting] ==
        [x \in P \X Nat |->
           StageOf(x[1], as, x[2], IF l = 0 THEN Numbered(<<>>, x[2])
                                   ELSE InTurn(NextPlaces(x[1]), x[2], at[l - 1]))]
  IN at

PipelinesOf(rules, as) == StagesAt(rules, as)[Nesting][<<Place(rules, {}, <<>>), 0>>]

\* The Builder, that walks over the rules with a stack of vectors, strings for the
\* options and a counter in its members, builds for every place the stage that what
\* is above the place and the aliases of its path say, below the stage above it, in
\* the order of the rules, and numbers the selectors in this order without gaps.
BuiltPlaceByPlace ==
  Accepted => LET built == PipelinesOf(ast, vars) IN
              root = built.stages /\ counter = built.next
=============================================================================
