------------------------------ MODULE StageInit ------------------------------
(***************************************************************************)
(* From the compiled rules to the records that leave the program: the      *)
(* names UniRec knows, the number of output interfaces, the initialisation *)
(* of the stages (Builder_stage_base::init, Filter::init, Agg::init,       *)
(* Selector::init), the template of the input, and which field of the      *)
(* input each field of an output comes from.                               *)
(*                                                                         *)
(* It composes RuleCompiler, whose steps it extends by what they do to     *)
(* UniRec, with the Config of the aggregators.  A template is a set of     *)
(* fields; a record maps its fields to where their values come from,       *)
(* [func, field]: the function of an aggregator (or "IN") and the field of *)
(* the input it is applied to, None if no such field exists.  A filter     *)
(* lets everything pass and an aggregator reports at once, as FilterTree,  *)
(* AggRecord and AggStage have the values and the times.                   *)
(* Stages of a tree of rules are never equal, for the interfaces of the    *)
(* selectors below them differ; a stage names itself.                      *)
(***************************************************************************)
EXTENDS RuleMeaning

CONSTANTS
  UR_FIELDS,       \* the fields UniRec knows from the start -> their type
  MAX_KEY_FIELDS,  \* of Config
  MaxOutputs       \* bound: output interfaces on the command line

Config == INSTANCE AggConfig

VARIABLES
  phase,    \* "rules", "accepted", "init", "run", or why main returned:
            \* "refused" (interfaces), "failed" (a stage)
  names,    \* the fields UniRec knows -> their type
  ifcs,     \* n_outputs_in_argument
  todo,     \* stages that are not initialised yet, the next one first
  made,     \* initialised stages -> Config of an aggregator, dict of a selector
  retVal,   \* whether some init has failed
  flow,     \* records on their way, [stage, rec], the next one first
  outputs   \* interface -> the record sent to it

stageVars == <<todo, made, retVal, flow, outputs>>
initVars  == <<phase, names, ifcs, stageVars>>

FullInit ==
  /\ Init
  /\ phase = "rules"
  /\ names = UR_FIELDS
  /\ ifcs = None
  /\ todo = <<>> /\ made = [s \in {} |-> <<>>] /\ retVal = FALSE
  /\ flow = <<>> /\ outputs = [i \in {} |-> <<>>]

-----------------------------------------------------------------------------
(* UniRec and the rules.                                                   *)

\* ur_define_field: a name that is known keeps its type.
ur_define_field(known, name, type) ==
  [n \in DOMAIN known \cup {name} |-> IF n \in DOMAIN known THEN known[n] ELSE type]

define_new_unirec_field(known, name) == ur_define_field(known, name, "uint64")

\* Alias4variables and Config::add_ptr_member define the counters of distinct values.
WithDistincts(known, fields) ==
  FoldSet(LAMBDA f, k : define_new_unirec_field(k, Config!expanded(f)), known, fields)

DistinctParams(functions) ==
  {functions[i].param : i \in {j \in DOMAIN functions : functions[j].func = "COUNT_DISTINCT"}}

Compile ==
  /\ phase = IF pass \in {"inter", "build", "done"} THEN "accepted" ELSE "rules"
  /\ Next
  /\ names' = IF At("alias", "visit", "aggregator")
              THEN WithDistincts(names, DistinctParams(body)) ELSE names
  /\ UNCHANGED <<phase, ifcs, stageVars>>

RECURSIVE Count_output_interfaces(_)
Count_output_interfaces(node) ==
  IF node.kind = "selector" THEN 1
  ELSE FoldSeq(LAMBDA b, n : Count_output_interfaces(b.node) + n, 0, node.next)

\* Mutant: more interfaces than selectors are accepted.
check_number_of_output_interfaces_at_most(n) == n <= ifcs'

check_number_of_output_interfaces(n) == n = ifcs'

\* Between the visitors and check_inter_repr.
CheckOutputs ==
  /\ phase = "rules" /\ pass = "inter"
  /\ ifcs' \in 1 .. MaxOutputs
  /\ phase' = IF check_number_of_output_interfaces(Count_output_interfaces(ast))
              THEN "accepted" ELSE "refused"
  /\ UNCHANGED <<allVars, names, stageVars>>

-----------------------------------------------------------------------------
(* Initialisation: a stage after those below it, whether they failed or not. *)

RECURSIVE PostOrder(_)
PostOrder(stages) ==
  FlattenSeq([i \in DOMAIN stages |-> Append(PostOrder(stages[i].succ), stages[i])])

StartInit ==
  /\ phase = "accepted" /\ pass = "done"
  /\ phase' = "init"
  /\ todo' = PostOrder(root)
  /\ UNCHANGED <<allVars, names, ifcs, made, retVal, flow, outputs>>

InitNext(kind) == phase = "init" /\ todo # <<>> /\ Head(todo).kind = kind

options == Head(todo).options

InitStage(data, fails) ==
  /\ made' = [s \in DOMAIN made \cup {Head(todo)} |->
                IF s = Head(todo) THEN data ELSE made[s]]
  /\ retVal' = (retVal \/ fails)
  /\ todo' = Tail(todo)
  /\ UNCHANGED <<allVars, phase, ifcs, flow, outputs>>

\* The names lookup_func knows.
lookup_func(name) ==
  name \in Fields \cup {"COUNT"} \/ (name # Garbled /\ Occurs("COUNT_DISTINCT", name))

InitFilter ==
  /\ InitNext("filter")
  /\ InitStage(<<>>, \E n \in ToSet(options) : ~ lookup_func(n))
  /\ UNCHANGED names

\* The options -k of the keys, then one for each function.
InitAggregator ==
  /\ InitNext("aggregator")
  /\ LET keys   == FoldLeft(LAMBDA c, k : Config!add_option(c, "KEY", k), <<>>, options.keys)
         config == FoldLeft(LAMBDA c, f : Config!add_option(c, f.func, f.param),
                            keys, options.functions)
     IN /\ names' = WithDistincts(names, DistinctParams(options.functions))
        /\ InitStage(config, ~ Config!FieldNames(config) \subseteq DOMAIN names')

\* Mutant: an alias that is known with another type goes through.
AliasClash_never(known, alias, type) == FALSE

AliasClash(known, alias, type) == alias \in DOMAIN known /\ known[alias] # type

\* ur_get_type of an unknown name reads out of bounds, hence any type.
ur_get_type(known, name, garbage) == IF name \in DOMAIN known THEN known[name] ELSE garbage

\* An alias is a new field with the type of its source; a clash ends the loop.
fill_dict(items, garbage) ==
  FoldLeft(LAMBDA d, item :
             LET type == ur_get_type(d.known, item.expr, garbage) IN
             CASE d.clash -> d
               [] item.expr = None ->
                    [d EXCEPT !.dict = Append(@, [out |-> item.out, field |-> item.out])]
               [] AliasClash(d.known, item.out, type) -> [d EXCEPT !.clash = TRUE]
               [] OTHER ->
                    [d EXCEPT !.known = ur_define_field(@, item.out, type),
                              !.dict = Append(@, [out |-> item.out, field |-> item.expr])],
           [dict |-> <<>>, known |-> names, clash |-> FALSE], items)

\* create_output_template fails if UniRec does not know a name.
InitSelector ==
  /\ InitNext("selector")
  /\ \E garbage \in {names[n] : n \in DOMAIN names} :
       LET filled == fill_dict(options, garbage) IN
       /\ names' = filled.known
       /\ InitStage(filled.dict,
                    filled.clash \/ \E item \in ToSet(filled.dict) :
                                      item.out \notin DOMAIN filled.known)

BackendFails ==
  /\ phase = "init" /\ todo = <<>> /\ retVal
  /\ phase' = "failed"
  /\ UNCHANGED <<allVars, names, ifcs, stageVars>>

-----------------------------------------------------------------------------
(* The input: Unirec_input_template_fields visits keys, parameters and the *)
(* outputs of selectors.                                                   *)

RECURSIVE Keywords(_)
Keywords(node) ==
  LET below == UNION {Keywords(b.node) : b \in ToSet(node.next)}
  IN CASE node.kind = "grouper"    -> ToSet(node.body) \cup below
       [] node.kind = "aggregator" -> ToSet(Params(node.body)) \cup below
       [] node.kind = "selector"   -> OutputKeywords(node.body)
       [] OTHER                    -> below

get_input_template_fields == Keywords(ast) \cup {"TIME_FIRST", "TIME_LAST"}

Records(stages, rec) == [i \in DOMAIN stages |-> [stage |-> stages[i], rec |-> rec]]

\* The sender has the fields asked for, or all there are; one record is followed.
StartProcessing ==
  /\ phase = "init" /\ todo = <<>> /\ ~ retVal
  /\ phase' = "run"
  /\ \E more \in {{}, Fields} :
       flow' = Records(root, [n \in get_input_template_fields \cup more |->
                                [func |-> "IN", field |-> n]])
  /\ UNCHANGED <<allVars, names, ifcs, todo, made, retVal, outputs>>

-----------------------------------------------------------------------------
(* A record on its way.                                                    *)

EvalNext(kind) == phase = "run" /\ flow # <<>> /\ Head(flow).stage.kind = kind

stage  == Head(flow).stage
in_rec == Head(flow).rec

\* ur_get_ptr_by_id of a field that the template has not points anywhere.
Read(name) == IF name \in DOMAIN in_rec THEN in_rec[name] ELSE [func |-> "IN", field |-> None]

Send(rec) ==
  /\ flow' = Records(stage.succ, rec) \o Tail(flow)
  /\ UNCHANGED outputs

EvalRest == UNCHANGED <<allVars, phase, names, ifcs, todo, made, retVal>>

EvalFilter ==
  /\ EvalNext("filter")
  /\ Send(in_rec)
  /\ EvalRest

\* The function registered for a field is applied to its target.
Reported(config, name) ==
  CASE name = "COUNT"                     -> [func |-> "COUNT", field |-> None]
    [] name \in {"TIME_FIRST", "TIME_LAST"} -> [func |-> "TIME", field |-> Read(name).field]
    [] OTHER ->
         LET m == config[CHOOSE i \in DOMAIN config : config[i].field = name]
         IN [func |-> m.func, field |-> Read(m.target).field]

EvalAggregator ==
  /\ EvalNext("aggregator")
  /\ LET config == made[stage]
     IN Send([n \in Config!return_template_def(config) |-> Reported(config, n)])
  /\ EvalRest

\* Mutant: the alias is looked up in the input as well.
Copied_by_alias(item) == Read(item.out)

Copied(item) == Read(item.field)

\* Items are copied in order, so the last one of a name stays.
EvalSelector ==
  /\ EvalNext("selector")
  /\ LET dict == made[stage]
         LastOf(n) == Max({i \in DOMAIN dict : dict[i].out = n})
         out_rec == [n \in {dict[i].out : i \in DOMAIN dict} |-> Copied(dict[LastOf(n)])]
     IN outputs' = [i \in DOMAIN outputs \cup {stage.ifc} |->
                      IF i = stage.ifc THEN out_rec ELSE outputs[i]]
  /\ flow' = Tail(flow)
  /\ EvalRest

-----------------------------------------------------------------------------
InitStages == StartInit \/ InitFilter \/ InitAggregator \/ InitSelector \/ BackendFails
Evaluate   == EvalFilter \/ EvalAggregator \/ EvalSelector

FullNext == Compile \/ CheckOutputs \/ InitStages \/ StartProcessing \/ Evaluate

FullSpec == FullInit /\ [][FullNext]_<<allVars, initVars>>

-----------------------------------------------------------------------------
(* What the outputs of the rules mean.                                     *)

\* Where a field of the record of a selector comes from: the first function
\* that names a field keeps it.
Origin(name, env) ==
  CASE ~ env.aggregated            -> [func |-> "IN", field |-> name]
    [] name = "COUNT"              -> [func |-> "COUNT", field |-> None]
    [] name \in Times              -> [func |-> "TIME", field |-> name]
    [] name \in ToSet(env.keys)    -> [func |-> "KEY", field |-> name]
    [] OTHER ->
         LET fs == env.functions
             f  == fs[Min({i \in DOMAIN fs : FieldOf(fs[i]) = name})]
         IN [func |-> f.func, field |-> f.param]

RECURSIVE Selected(_, _)
Selected(node, env) ==
  LET Below(e) == FlattenSeq([i \in DOMAIN node.next |-> Selected(node.next[i].node, e)])
  IN CASE node.kind = "grouper"    -> Below([env EXCEPT !.keys = node.body])
       [] node.kind = "aggregator" ->
            Below([env EXCEPT !.functions = node.body, !.aggregated = TRUE])
       [] node.kind = "selector"   -> <<[items |-> node.body, env |-> env]>>
       [] OTHER                    -> Below(env)

AllSelectors == Selected(ast, [keys |-> <<>>, functions |-> <<>>, aggregated |-> FALSE])

OutputMeaning(s) ==
  LET Out(i)    == Item_out(s.items[i], s.env)
      LastOf(n) == Max({i \in DOMAIN s.items : Out(i) = n})
  IN [n \in {Out(i) : i \in DOMAIN s.items} |->
        Origin(Item_source(s.items[LastOf(n)], s.env), s.env)]

\* From the rules as they are written to the records as they are sent, through
\* variables, aliases, option strings, the names of UniRec, templates and
\* dictionaries: the selectors, in the order of the rules, send on interfaces 0, 1,
\* ... and every field of their records is the function of the input field that the
\* variable or keyword of the rule stands for.  Of two functions on one field the
\* first counts ("already used or cannot be assigned", configuration.cpp:794), and
\* every field of the input that is needed has been asked for.
OutputsAsWritten ==
  phase = "run" /\ flow = <<>> =>
    /\ DOMAIN outputs = 0 .. Len(AllSelectors) - 1
    /\ \A i \in DOMAIN outputs : outputs[i] = OutputMeaning(AllSelectors[i + 1])

\* The type of a field of the record of a selector; a keyword is no alias.
TypeOf(name) == IF name \in DOMAIN UR_FIELDS THEN UR_FIELDS[name] ELSE "uint64"

AliasTypes ==
  UNION {{<<item.out, TypeOf(Item_source(item, s.env))>> :
            item \in {it \in ToSet(s.items) : it.expr # None /\ it.out \notin Fields}} : s \in ToSet(AllSelectors)}

NamesClash ==
  \E a, b \in AliasTypes \cup {<<n, UR_FIELDS[n]>> : n \in DOMAIN UR_FIELDS} :
    a[1] = b[1] /\ a[2] # b[2]

\* Aliases of selectors are fields of UniRec, known to all stages at once ("please
\* change %s to other name", selector.cpp:27): well-formed rules are refused by a
\* stage if, and only if, one name would have two types, wherever in the rules and
\* in whatever order the selectors are initialised.
RefusedIffNamesClash ==
  phase \in {"run", "failed"} => (phase = "failed" <=> NamesClash)

\* "The number of selectors does not match the number of trap output interfaces"
\* (program_arguments.cpp:105): when the stages are built, the interfaces given on
\* the command line are those the Builder hands out to the selectors.
EveryInterfaceServed ==
  phase \in {"init", "run"} => ToSet(Interfaces(root)) = 0 .. ifcs - 1

\* "Go through AST and store Unirec names" (unirec_template.hpp:27): the stages find
\* every field they read, because the input template asks for the UniRec names of
\* the rules.
FieldsPresent ==
  phase = "run" /\ flow # <<>> =>
    CASE stage.kind = "filter"     -> ToSet(stage.options) \subseteq DOMAIN in_rec
      [] stage.kind = "aggregator" ->
           {made[stage][i].target : i \in DOMAIN made[stage]} \subseteq DOMAIN in_rec
      [] stage.kind = "selector"   ->
           {made[stage][i].field : i \in DOMAIN made[stage]} \subseteq DOMAIN in_rec
=============================================================================
