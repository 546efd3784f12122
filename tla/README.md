# A formal model of Nemea Policer

Nemea Policer reads rules, compiles each branch of a rule to a pipeline of
stages (filter, grouper, window, aggregator, group-filter, selector), and pushes
a stream of flow records through the pipelines. This directory models the parts
of the program that decide something: the rule checks and the compiler, the
initialisation of the stages and the fields that travel between them, the
filter, the aggregator with its timeout thread, and the tree of stages as a
whole. TLC checks the models on small instances; TLAPS proves the main
properties of the aggregator for every number of records, keys and seconds, those
of the functions it computes for every rule, those of the threads for every tree of
stages, those of the filter for every expression, and for all rules that what the
visitors note in one branch does not reach another and that the checkers reject
exactly the rules with a stage that does not fit the stages above it.

    tlc -config agg.cfg MCAggStage             one run
    tlapm AggStageProofs.tla                   the proofs of one module

Nearly all lines of the repository are the Boost headers in `src/boost`; the
program itself is the rest of `src`, and that is what is modelled.

## The system

| Part | State it keeps | Operations | Talks to |
|---|---|---|---|
| Parser and visitors (`parsing/`) | the AST; stacks and keyword sets of five checkers; variables per path | parse, check, give aliases | Builder, through `Inter_repr` |
| Builder (`backend/builder.cpp`) | options of grouper and window, a stack of vectors, the interface counter | one visit per stage | stages, through option strings |
| Backend (`backend/backend.cpp`) | `stopFlag`, the pipelines | build, main loop, signal handler | libtrap, stages |
| Filter (`backend/filter/`) | tree of nodes with opcodes | init parses, eval walks | its successors |
| Aggregator (`backend/aggregator/`) | storage (key to record), `time_last_from_record`, two mutexes; `stop` and `once` shared by all | init, eval, `check_timeouts` in a thread of its own, destructor | its successors, from two threads |
| Selector (`backend/selector/`) | dictionary of items, output template and one output record | init, eval, end-of-stream in the destructor | libtrap, the names of UniRec |
| UniRec names (`unirec_template.cpp`) | the fields known to the whole process, the input template | define a field, collect the fields of the AST | selectors, aggregators, Backend |

What is hard: the main thread and the timeout threads share storages and the
stages below an aggregator; the destructor works without mutexes after a join;
the clock of passive windows is advanced by one thread and set by the other;
records are reused in place; visitors keep members and flags from branch to
branch; trees of filters are rewritten while they are built. `PROJECT.json`
lists these hazards with their lines.

What makes each part correct:

* aggregator: a record is in exactly one aggregate; an aggregate is reported
  once and whole; reported fields are those of its records; windows are
  respected; everything is reported in the end;
* clock: a passive sweep never reports what is still active;
* stage tree: a stage is used only while it lives and by one thread at a time;
  shutdown ends and each output gets one end of stream;
* filter: the tree means what the expression means;
* rules: exactly the well-formed ones are accepted, and what is built is what
  was written;
* initialisation: the fields of an output are those the rule names, whatever
  aliases, options, dictionaries and templates they pass through; every output
  interface of the command line has its selector.

## Modules

| Module | Models | Size of a step |
|---|---|---|
| `FlowAggregation` | what an aggregator promises (abstract) | add, close, restart |
| `AggStage` | one `Agg` object, both threads | a critical section; one stored aggregate in sweep and flush |
| `AggStageProofs` | its theorems: mutexes and contents, active windows | |
| `AggAllocFailure` | `AggStage` when `create_record` fails | |
| `PassiveClock`, `PassiveClockProofs` | `time_last_from_record` against the wall clock | one second, one assignment |
| `Bits`, `BitsProofs` | numbers of a width, their bits, bitwise operations; that numbers and sets of bits determine each other | (operators) |
| `AggConfig` | `Config`: which fields and functions the options register | (operators) |
| `AggRecord` | functions and post-processing of one aggregate | one option, one record |
| `AggRecordProofs` | its theorems: what is registered, what the vectors own, what a reported field is | |
| `OutputStreams` | what the receivers of the outputs rely on (abstract) | open, begin, end, close |
| `Pipelines` | the tree of stages, all threads, build to shutdown | one operation of one stage |
| `PipelinesProofs`, `PipelinesLifeProofs` | its theorems: mutexes and threads; the life of a stage | |
| `FilterTree` | filter parser and evaluation | one reduction of the grammar |
| `FilterTreeProofs` | its theorems: what a tree evaluates to, where its nodes hang | |
| `RuleCompiler` | checkers, aliases, Builder | one visit or leave of a node |
| `RulePlaces` | the nodes of rules with what is above them: when rules are well formed, what the checkers accept, what is built | (operators) |
| `RuleMeaning` | what rules mean (reference) | (operators) |
| `RuleCompilerProofs` | its theorems: what the visitors know in a branch, the verdict of the checkers, the stages built | |
| `StageInit` | from the compiled rules to the records that are sent | one stage initialised, one record in one stage |
| `MC*` | instances for TLC | |

`AggStage` abstracts a record to key, TIME_FIRST and TIME_LAST; `AggRecord` has
the other fields but a single thread and a single key; `Pipelines` has all
threads and stages but only the number of stored aggregates; `PassiveClock` has
durations but no storage. `FlowAggregation` ties `AggStage` to its promise, and
`OutputStreams` does so for `Pipelines`. `StageInit` extends `RuleCompiler` and
uses `AggConfig`, as `AggRecord` does: there the rules, the options they are
written to and the fields of the records meet. The abstractions meet at the actions with equal names (`OpenNewWindow`,
`UpdateRecord`, `SetStop`, `JoinTimeoutThread`, ...), which translate the same
lines.

### AggStage

`window` is the type of the window; it is chosen in the initial state and never
changes, so that one run covers all four. `pcM` is the place of the main thread in `Agg::eval` and `Agg::~Agg`, `pcT` that
of the timeout thread in `Agg::check_timeouts`. `storageLock` and `timeLock` are
the two mutexes. `arrived` and `sent` are histories; the member `flows` of an
aggregate (the records it was made from) is one too. `Receive` begins an
evaluation; `LockTimeMain` and `SetTime` are the `once` block; `LockStorageMain`,
then one of `CreateRecord`, `UpdateRecord`, `OpenNewWindow`, then
`UnlockStorageMain` is the rest. The sweep takes the mutex (`LockStorageTimer`),
visits the stored aggregates in any order (`SweepSend`, `SweepKeep`), unlocks,
advances the time and sleeps. The destructor sets `stop`, joins, flushes, frees.

### PassiveClock

One second of the wall clock (`Tick`) may pass anywhere, also inside a sweep or
between two statements of the timeout thread. `base`, `baseAt` and `baseIn`
remember the first record: its time, when it was evaluated and where the timeout
thread was. A sweep that takes longer than the timeout leaves a pause that is not
positive, and the thread sweeps again at once: it never sleeps for such a pause
(aggregator.cpp:353, part of `TypeOK`).

### AggRecord

`config` is the list of registered fields, `outputTemp` the function pointers
with `"NULL"` for a null pointer; calling one sets `pc` to `"crashed"`. `members`
is the history the reference `Meaning` is computed from. Unsigned types of one
width behave alike, so the instance has two widths (2 and 6 bits, so that sums
wrap), an address and a time. Which fields there are is computed with `AggConfig`.

### Pipelines

The recursion of `init`, `send` and the destructors is a stack of operations per
thread, so that threads interleave between any two operations. A timeout thread
has the name of its stage. `TreeAssumption` says what the Builder and the grammar
guarantee: every stage is in a main branch and has one parent, there are no cycles,
and one aggregator at most on a path. A stream of `OutputStreams` is a selector: `new` until it is
`ready`, `closed` when it is deleted (its destructor sends the end of the
stream), and written by the thread that is about to `send` it.

### FilterTree

`heap` holds the nodes in the order in which they are allocated, a pointer is a
place in it and `NULL` is 0; a negation that can be folded (`ff3_negate`) changes the
node it points to and hands it back, as `ff3_new_node` does, and every other
reduction appends a node. The items of a list are kept in the node of IN; in the code
they hang to its right. A stack item holds the root of a tree and the expression it
came from; `Means` gives the records the expression describes directly. A new node has
an opcode chosen from `Garbage`, because the code does not set it. `misread` marks a
tree in which a negation has read such an opcode. `MatchesMeaning` compares the tree
with the expression; `NodesHangOnce` says that the folding leaves no node at two
places or at none, which `ff3_free_node` relies on.

A literal is text that reads as a number, a time or a network, or as none of them.
`Castable` says which text the code takes for a field: any text for an integer, since
`rval_map_func` refuses nothing, and otherwise what reads as a value of the type
(`KindOf`). An IPv6 network with a prefix of at most one octet (`OctetBits`) that is
given as a number of bits is refused: `unwrap_ip` completes its address as if it were a
short one of IPv4, and the result is no address. The same network with its mask written
as an address is taken; the instance has both.

`Comparable` names the leaves that are compared as they read: no times, numbers for
integers, no network without a prefix. On the others the program is known to deviate
(below).

### RuleCompiler

`work` holds nodes to visit and to leave. `check` has the members of the five
checkers, `vars` the three maps of `Variables`, `opt`, `b_stack`, `counter` and
`root` those of the Builder. The five checkers walk the tree together; which of
two errors is reported first is left open. A vector of the Builder that was deleted is
`None`; `b_stack` keeps it, as the code keeps the pointer. `Grammar` says what rules the
grammar delivers: which stages may come inside which, that the outermost branches have
names, and that groupers and aggregators have something to do. It allows more than the
grammar does, which only makes the theorems stronger.

`NotesOfPath` compares the members with the stages that the visitor has still to leave,
those above the next node: the stack and the sets of the checkers, the aggregator
whose variables are looked up, the options for the next aggregator. `VectorsInUse` says
that the vectors the next step of the Builder reads or adds to exist.

`RulePlaces` says the same of the rules alone, without any visitor. A place is a node,
the set of stages above it, and the names of the branches that lead to it; `PlacesAt`
collects them depth by depth. `WellFormed` says what rules ought to be like. `PassesChecks`
says what the checkers ask of one place, with what they overlook: the second key, the
second parameter, expressions, and equal names in a main branch. `CheckedPlaceByPlace` has
the checkers agree with it: whoever rejects does so because of a place that does not fit
(`~ PassesChecks`), and after the last checker every place fits. Its hypothesis
`GroupFiltersApart` excludes the one case in which the verdict on a place depends on
another branch, group-filters under one path, which share their variables
(`rules_branches`). `PipelinesOf` says what is to be built: `OptionsOf` a place are what the
stages above it and the aliases of its path say, `StageOf` puts them into a stage with
those below it, and `InTurn` takes the places next to a place one after the other, each
with the interface at which the one before has stopped. `BuiltPlaceByPlace` has the Builder
agree with it, whose stack of vectors, option strings and counter are shared by all
branches. The aliases are those that `Alias4variables` has stored; whether it has stored the
right ones is a question for `BuiltAsWritten`. `RuleMeaning` holds the other reference, which recurs over the tree of
the rules: `Meaning` uses an environment instead of members that must be reset. Of a
selector it says what is `Shown`: the name and the field of each item as they are written.
`Described` says the same of the stages that were built, whose options are not those
written: the Builder replaces variables by fields, and keeps what is assigned to an
item only if the item is no keyword (`sel_opt`, builder.cpp:216-230).

### StageInit

When the rules are accepted, `main` compares the selectors with the interfaces of
the command line (`CheckOutputs`), the stages are initialised from the leaves up
(`InitFilter`, `InitAggregator`, `InitSelector`), the template of the input is
made (`StartProcessing`) and one record is pushed through the tree (`EvalFilter`,
`EvalAggregator`, `EvalSelector`). `names` are the fields UniRec knows: global,
grown by counters of distinct values and by aliases, so that the order of the
initialisation matters. `made` holds the `Config` of an aggregator and the
dictionary of a selector. A record maps its fields to the function and the field
of the input their values come from; `OutputsAsWritten` compares that with what
the rule says. A stage is identified by its own description: those of one tree
differ, because the interfaces below them do.

## Runs

| Run | What it shows |
|---|---|
| `agg` | all windows: every record in exactly one aggregate, which summarises its records, respects its active window and is closed only by a record beyond it; no concurrent access to the storage, no race on the time; refinement of `FlowAggregation`; shutdown, every record reported |
| `agg_alloc_failure` (violated) | after a failed allocation the destructor waits forever |
| `clock` | no sweep reports what is not yet in the past of the records; exact if the first record comes during a sleep |
| `pipelines` | lifetime of stages, one thread per stage, flush without mutex, one end of stream per output, refinement of `OutputStreams`, shutdown |
| `pipe_time` (violated) | with two aggregators one of them never has its time from the records |
| `agg_record` | functions, in-place windows, post-processing and vectors for all pairs of options |
| `agg_record_null` (violated) | AVG or RATE next to another function calls a null pointer |
| `filter` | 88 thousand parser states: the tree means the expression, and each of its nodes hangs at one place |
| `filter_time` (violated) | a comparison of a time is never true |
| `rules` | 1916 programs: in every branch the visitors hold what the stages above say; the checkers pass them iff every place does; accepted iff well formed, built as written and place by place, into vectors that exist; a stage refuses them iff one name would have two types; every interface is served; the records sent hold what the rule names |
| `rules_assign` (violated) | what a selector assigns to a keyword is dropped and the keyword itself is sent |
| `rules_input` (violated) | the input template misses fields that filters and expressions of selectors read |

A run that is violated states what a comment of the source says.

### Bounds

* `agg`: two keys; four kinds of records: two that share a window of one second,
  one beyond it, one of the other key; three records in a behaviour, in any
  order, so that an aggregate is updated, closed, reopened and reported while a
  late record arrives. `MaxTimeLast` stops the time at 5, after every TIME_LAST
  plus the timeout.
* `agg_alloc_failure`: one record is enough to leave the mutex locked.
* `clock`: timeout 2, nine seconds, the first record before or after the start:
  several sweeps, some longer than the timeout.
* `pipelines`: two aggregators in two main branches, one below a filter with two
  branches, a group-filter, three selectors; two records, two stored
  aggregates; a filter and an aggregator may fail to initialise.
* `agg_record`: three records of one to three windows, arrays of three fields so
  that a fourth option does not fit.
* `filter`: four reductions reach every operator below every other one and a
  double negation; addresses have two cells of two bits, so that prefixes end
  inside the first cell, between the cells and inside the second one. An octet has one
  bit (`OctetBits`), and the network of one bit is given in both notations.
* `rules`: every chain of stages allowed by the grammar over two to four bodies
  each, valid and invalid; two branches at the top, inside a main branch, after
  a filter, a grouper or an aggregator, where one leaves something that the other
  one must not see; 400 programs more whose selectors use one alias for fields of
  the same or of different types, alone or in two branches, and whose aggregators
  have several functions on a field, two on one variable, averages, rates and
  counters of distinct values. `Nesting` is 10, and no program is deeper than eight
  nodes below the program (`NestingAssumption`, which TLC evaluates on all of them, says
  that nothing is left below). Up to three interfaces; `MAX_KEY_FIELDS` is that
  of the code (32), so that only `agg_record` fills the arrays.

The instances of `filter` and `rules` leave out inputs on which a known
disagreement (below) would hide everything else: comparisons of times, integers
compared with text that is no number, IPv4 prefixes of length 0; names contained in other names, equal names
of nested branches, second keys, selector expressions over missing fields, mixed
windows, and group-filters on BYTES. A selector of `rules` assigns to a keyword only
what the keyword stands for anyway (`SRC_IP = SRC_IP`, or `PACKETS = v` where v is a
function of PACKETS): whatever else is assigned to a keyword is dropped by
builder.cpp:224, so that `SRC_IP = TIME_LAST` sends SRC_IP, which `rules_assign`
shows. They leave out a keyword as the name of an item that the record does not have (it
is checked as if it were selected), and, without an aggregator, `x = KEYWORD` (the input
template misses it, see `rules_input`).

### Fairness

A thread that can run is scheduled (weak fairness of evaluation, destruction and
the timeout thread). A mutex released again and again is obtained in the end
(strong fairness of the lock steps): the timeout thread sleeps between sweeps,
the main thread waits for input between records. Nothing is assumed of records,
signals or the end of the input. Sending does not block.

### Deadlock

Is checked in `agg` and `pipelines`. `agg_alloc_failure` stops because that is
what it shows. `clock` ends at its bound,
`agg_record` after a crash or its last record, `filter` at its bound, and
`rules` when the rules are rejected or the record has been sent: there it is not.

## Known disagreements between code and comments

Six are runs of the project. The others have a configuration each, with one
property that TLC finds violated:

| Configuration (module) | Property | Code and comment |
|---|---|---|
| `clock_race` (`PassiveClock`) | `NotAheadOfRecords` | aggregator.cpp:318 adds a timeout after the first record has set the time; aggregator.hpp:43 |
| `agg_record_avg` (`MCAggRecord`) | `AverageBetweenExtremes` | sums wrap in the field; agg_functions.hpp:89 |
| `pipe_cleanup` (`MCPipelines`) | `NoThreadRunsDuringCleanup` | other timeout threads run on; aggregator.cpp:584 |
| `filter_prefix` (`MCFilterTree`) | `MatchesMeaning` | prefix length 0; fcore.c:119, 128 |
| `filter_word` (`MCFilterTree`) | `MatchesMeaning` | text that is no number is 0; filter.cpp:63, 72 |
| `filter_opcode` (`MCFilterTree`) | `NegationNotLost` | opcode never set; ffilter.c:1208, ffilter.h:428 |
| `rules_keys` (`MCRuleCompiler`) | `GrouperChecked` | only the first key and the first parameter are checked; ast_check_grouper.cpp:68 and .hpp:49, 54 |
| `rules_branches` (`MCRuleCompiler`) | `BranchNamesChecked` | nested branches; ast_check_branch_names.cpp:70 and .hpp:22 |
| `rules_alias` (`MCRuleCompiler`) | `BuiltAsWritten` | substring replacement; string_functions.cpp:31 and .hpp:42 |
| `rules_selector` (`MCRuleCompiler`) | `SelectionChecked` | expressions unchecked; ast_check_selector.cpp:32, exception.hpp:28 |
| `rules_mixed` (`MCRuleCompiler`) | `BuiltAsWritten` | mixed windows; configuration.cpp:897, ast.hpp:84 |
| `rules_bytes` (`MCRuleCompiler`) | `KeywordsAccepted` | BYTES unknown; ast.cpp:49, ast.hpp:689 |

## Proofs

`AggStageProofs` and `PassiveClockProofs` hold for all constants that satisfy
the assumptions of their modules: flows with TIME_FIRST not after TIME_LAST,
positive timeouts, integer times, and that `Absent` (`None`) is no aggregate (no
time). The bounds `MaxFlows`, `MaxTimeLast` and `MaxNow` are arbitrary.
`PipelinesProofs` and `PipelinesLifeProofs` need `StageAssumption` and
`TreeAssumption` besides the bounds. `AggRecordProofs` needs `RecordAssumption`:
fields have types and widths, and no more records arrive than COUNT can count, as
its wrap is not modelled. `FilterTreeProofs` needs `LeafAssumption`, that leaves
have the shape the grammar gives them and records have values of their types; `MatchesMeaningTheorem` has the hypothesis `AllComparable`
besides: every leaf is one of those that are compared as they read, because on the
others the property is false (`filter_time`, `filter_word`, `filter_prefix`).
`MCFilterTree` has TLC evaluate that the leaves of the run `filter` are such leaves.
`NodesHangOnceTheorem` does without it. `RuleCompilerProofs` needs `GrammarAssumption`,
which TLC evaluates on all nodes of the runs, `NoneAssumption`, that `None` is no
path of names, and, for the places, `NestingAssumption`: the rules are trees of some finite
depth, whatever it is; `VectorsInUseTheorem` has the hypothesis that `None`, which stands for a
deleted vector there, is no sequence at all.

`AggStage`:

1. `IInv` = `TypeOK`, and: a record is being evaluated when `pcM` says so
   (`InFlightExists`); the holder of each mutex is the thread whose program
   counter is in that critical section, and the destructor flushes only after the
   timeout thread has ended (`LockInv`); the keys an iteration still has to visit
   are stored (`TodoStored`). `TypeOK` alone is not inductive, as `SweepSend`
   takes an aggregate that must exist. From it follow `TypeCorrect` and
   `StorageAccessExclusiveTheorem`.
2. `OnceInv`: while `once` holds, nothing is stored and no iteration has
   anything to visit. Hence `NoRaceOnTimeLastTheorem`: the unlocked read of
   aggregator.cpp:330 comes after the only write of the main thread.
3. `PInv` = `EachFlowInOneAggregate` with the fact that aggregates are made of
   records that arrived. `StoreSteps` reduces the many actions to those that
   touch storage or history: send, add, new window, receive. Hence
   `EachFlowInOneAggregateTheorem`, and with it
   `ImplementsFlowAggregationTheorem`: the record added is `Fresh` because it is
   in flight.
4. `AggregatesSummariseTheorem` uses both: COUNT is the cardinality of the
   records only because the record added is not yet among them.
5. Active windows: records received stay what they are (`Grown`), so that what
   holds of the aggregates before a step is disturbed only by the record that is
   added. TIME_FIRST of an aggregate is its earliest beginning, which is enough to
   show that late records, which move it back, respect the window too
   (`ActiveWindowRespectedTheorem`). With an active window the timeout thread has
   nothing to do and only a destructor that has set `stop` flushes
   (`ActiveThreads`), hence whatever else is reported has the record that closed it
   (`ActiveSplitJustifiedTheorem`).

`Bits`: numbers of a width and their bits are defined by recursive functions on Nat.
Induction is done with sets: a set of numbers that is not empty has a least one
(`LeastNumber`), hence a set with 0 and all successors is Nat (`SetInduction`), and hence
an equation like f[n] = IF n = 0 ... ELSE ... f[n - 1] has a solution
(`PrimitiveRecursion`). `NumberOfBits`: a number below 2^w is that of its bits;
`BitAndBits` and `BitOrBits`: the bits of a bitwise operation are the intersection
and the union. The proofs of `AggRecord` and `FilterTree` rest on them.

`AggRecord`:

1. `AddOptionTheorem`: whatever options come in whatever order, no field of the
   record is registered twice and no time at all, the arrays are not overrun, and
   what was registered stays (`RegisterKeeps`). `StageInit` uses the same operators.
2. `Accumulates(m, ms, v)` says what a stored field is after the records `ms`: the
   sum modulo the width, the least, the greatest, the first, the last, the bits of
   one or all, the set of distinct values. `AccumulatesFirst` is `create_record`,
   `AccumulatesNext` one `update_record`, `AccumulatesMeaning` the post-processing of a
   record that is sent. `ModuloSum` and `TotalNext` are needed because the code
   reduces after every addition and the reference once at the end.
3. The invariant: the fields of the template are those registered, each at one
   place (`ConfigEntry`, `TemplateEntry`); the stored record accumulates `members` in each
   of them, its TIME_FIRST and TIME_LAST span them, and it owns one vector for every
   counter of distinct values (`RecordInv`).
   `ReportsMeaning` alone is not inductive: it speaks of what was sent, and a record
   that is stored will be sent later. `FirstRecord`, `NextRecord` and `MessageReports` are
   the three steps, and give `ReportsMeaningTheorem`, `VectorsOwnedTheorem` and
   `TypeCorrect`.

`FilterTree`, for every set of leaves and records and every garbage:

1. `EvalDef`: a node points to earlier ones only, so that evaluation has the values the
   code computes; `EvalAgree`: nodes added or changed elsewhere change nothing.
   `MeansDef` and `MeansAgree` say so of expressions.
2. The leaves. `BitTests` and `MaskedCells` show what the masks of a network select,
   `NetworkLeaf` that cell by cell comparison is equality of prefixes, `ItemMeans` that an
   item of a list has the opcode its expression asks for, and `LeafMatches` that a leaf
   evaluates to what it means.
3. `TreesOK`, the structure: children are earlier nodes, the roots on the stack are in
   the order in which they were allocated, and the one on top is the newest node
   (`TreesTheorem`). So a new node is above everything older, and a fold, which changes the
   newest node, changes no other tree.
4. `ItemsOK`: each tree in which no negation has read garbage evaluates to what its
   expression means; and a root that `ff3_negate` would turn round evaluates, turned
   round, to what the negation of the expression means (`Opposite`), which for the bit
   tests is not the complement. `MatchesMeaning` is not inductive, because a fold changes
   a node that is already in a tree; the second half is what the fold needs (`FoldItem`),
   and it holds again afterwards because turning round twice is nothing (`Negated`). Hence `MatchesMeaningTheorem`.
5. `NodesHangOnceTheorem`: a new root takes over what the items before it held
   (`NewRootHangs`), and a fold moves nothing (`FoldHangs`).

`RuleCompiler`, for all rules the grammar delivers:

1. `WorkOK`, the walk: what lies on `work` before a node to leave is inside that node,
   hence deeper (`Inside`), except that main branches may be inside main branches, of
   which only outermost ones are left; and while the Builder is inside an outermost
   branch, that branch is still to be left. `SkipWork`, `DescendWork` and `EnterWork` show
   that the three ways to go on keep it (`PutBefore`).
2. So a step leaves the stages above as they are, enters one that is deeper than all of
   them, or leaves the deepest one (`Skips`, `Descends`, `Enters`), and at most one stage
   of a kind is above a node. `StayBodies`, `EnterBodies` and `LeaveBodies` say what this
   does to the body of the stage of a kind above.
3. `Inv`: the notes are right during the pass of a visitor and empty otherwise
   (`CheckInv`, `AliasInv`, `BuildInv`), one lemma for the steps of each visitor
   (`CheckSteps`, `AliasSteps`, `BuildSteps`). What the visitors reset by assignment when
   they leave a stage is right only because no other stage of that kind is above.
   Hence `NotesOfPathTheorem`, and `TypeCorrect`, which says that a visitor that has
   finished has forgotten everything.
4. `VectorsOpen`: as many vectors on top of `b_stack` are alive as stages above own one
   (`Opened`). A deleted vector stays, but no stage is above when that happens, so that
   it lies below all that are used later (`PushVector`, `AddStage`, `PopVector`). Hence
   `VectorsInUseTheorem`.
5. The verdict. `PlacesInduction` is induction over the depth of a place (with
   `PlacesClosed`: what is next to a place is a place). `Covered(D, ...)` relates a visitor
   to the places: those in `D` have been dealt with; every visit left on `work` is one of a
   place, whose stages above are the leaves that come after it; and whatever is next to a
   place of `D` is in `D` or still to be visited. It holds of the first item
   (`CoveredStart`), is kept when a visitor skips, descends or enters (`CoveredVisit` and
   its three corollaries), and when `work` is empty `D` is all places (`CoveredEnd`). When a
   place is visited, the checkers know what is above it (`NotesFit`, from `NotesOfPath`),
   and their stack, sorted by depth as stages come inside each other in one order only, is
   one of `allowedComb` iff a window or a group-filter comes with a grouper or an
   aggregator (`Combination`, `StackFits`). So the visit rejects iff the place does not
   pass (`Verdict`). `PlacesInv`: every place dealt with so far passes, or the rules are
   rejected and some place does not. `Parse_filter_bodies` has to be included: it rejects
   malformed bodies, does not come to selectors (`Unvisited`), and gives every path the
   names of its group-filter (`NamesKnown`), which is where `GroupFiltersApart` is used.
   Hence `CheckedPlaceByPlaceTheorem`.
6. The stages. `Held` is what the Builder has built: the pipelines and the vectors on top
   of `b_stack`, one for each stage above that owns one, with the counter. What lies below
   them, deleted vectors too, does not count. `Leads(w, b, d)` says that working off
   `w` makes `d` of `b`: a visit adds the stages that `StagesAt` has for its place
   (`Takes`), a node that is left closes the vector on top (`Left`). A visit can be
   replaced by the visits of what is below it (`LeadsDescend`), with the leave after them
   and a new vector before them where the stage owns one (`LeadsStage`): what was added to
   the new vector is in the stage that `CloseOn` adds to the one below (`OpenAndClose`).
   That is what the steps of the Builder do to `work` and to `b_stack` (`HeldOpen`,
   `HeldPlus`, `HeldClose`, `HeldUnpack`), and the options it gives a stage are those of
   its place, because its members hold what the stages above say (`OverFits`, from
   `BuildNotes`). `BuiltInv`: what is left leads from what has been built to `Goal`, all
   that `PipelinesOf` says. It holds when the Builder starts (`LeadsStart`), is kept by its
   steps (`BuiltSteps`), and when nothing is left the goal is reached (`LeadsEnd`).
   `BuiltPlaceByPlace` alone speaks of the end only, where it would not be inductive.
   Hence `BuiltPlaceByPlaceTheorem`. A program has finite depth (`NestingAssumption`), so
   the induction behind it is over levels (`StagesTyped`, `FollowTyped`).

`PassiveClock`: `LeadInv` bounds how far `timeLast` is ahead in each phase, and
`IdleInv` gives the exact distance once the first record came during a sleep.

`Pipelines`, for every tree:

1. Lemmas about `Below`: the stages below two successors of a stage, or below two
   main branches, have nothing in common, and at most one aggregator feeds a
   stage (`OneFeeds`).
2. `Shape`, what the stack of a thread looks like: a mutex is asked for first, and
   for one storage only (`LockFirst`); before the operations of a critical section
   come only those that belong to it (`HoldPrefix`); what an aggregator sends is
   followed by the unlock, the sweep or the flush of that aggregator
   (`OwnedPrefix`); a sweep is followed by an unlock (`SweepUnlocks`); destruction
   is mixed with nothing but what its flushes send (`EndPhase`). Lemmas show that
   each kind of step (`PlainPush`, `PopShape`, `OwnedPush`, `SendPush`, `SweepPop`,
   `AskForLock`) keeps the shape, and which critical section the thread is then in
   (`Holds`).
3. `IInv` = `TypeOK`, the shapes, and: the holder of a mutex is the thread whose
   stack is in its critical section (`Locks`); a flush comes after the join of its
   timeout thread (`Joins`); the stages still to be initialised are pairwise
   different and their threads not started (`Fresh`). The last part is needed
   because starting a thread would otherwise replace a stack that holds a mutex.
4. `FlushNeedsNoMutexTheorem`: a holder would have a critical operation on its
   stack; the main thread has none while it destroys, and the only timeout thread
   that could has ended. `OneThreadPerStageTheorem`: a timeout thread is only in
   stages that its own aggregator feeds, and the main thread, when it is there
   too, holds the same mutex or has joined that thread.
5. `PipelinesLifeProofs`: `Life` relates the status of a stage to what the main
   thread has left to do for it. A stage is `constructed` as long as its `init` is
   on the stack, and until the last one is initialised, or after an error, nothing
   is on its way (`Building`). Either the stack ends in `processing` and nothing is
   destroyed, or the main thread destroys (`Phase`): then a stage is destroyed
   exactly when no `destroy` or `delete` of it is left, a thread that runs or a
   stored aggregate has its join or its flush still to come, and every join and
   flush comes before the successors are destroyed (`Closing`). A `send` is the next
   operation of its thread, on a selector (`Sends`), and a selector that is
   destroyed has sent one end of stream (`Eofs`).
6. From it `OnlyLiveStagesEvaluateTheorem`: a thread evaluates what an aggregator
   feeds only before its join or in its flush, and both come before the successors
   are deleted. `OutputsCompleteTheorem` is `Closing` of the empty stack.
   `ImplementsOutputStreamsTheorem`: every step but two leaves alone who sends
   (`Silent`); evaluating a selector begins a message, and the stream is open and has
   no writer by the two theorems before; and while a selector is deleted nobody
   sends to it, because he still would after the step.

Only model-checked: liveness (`EveryAggregateReported` and its like) and what rests on
fairness; that rules are built as written (`BuiltAsWritten`), whose reference `Meaning`
recurs over the tree of the rules with `RECURSIVE` operators, which TLAPS does not handle
(what is proved of it is `BuiltPlaceByPlace`, which takes the stored aliases as they are);
and `StageInit`, which uses them (`OutputsAsWritten`, `RefusedIffNamesClash`,
`EveryInterfaceServed`). Of what `StageInit` uses, `AddOptionTheorem` is proved.
`AcceptedIffWellFormed` is model-checked because it is not true of all rules: the checkers
overlook the second key, expressions, BYTES in a group-filter and equal names of nested
branches (see the disagreements), and the instance of `rules` leaves those out. What holds
for all rules is `CheckedPlaceByPlace`, which says what is overlooked.

## Not modelled

The grammar of the rules (declarative; the programs checked have the shapes it
accepts; `_bidirectional_`, which the source calls not implemented), printers and
messages, getopt, CSV input, Boost. libtrap and UniRec are
external: a receive returns a record, an end or an error, a send succeeds,
templates are sets of fields. Bytes of keys, the hash, the lexer of filters, MAC,
MPLS, string and signed opcodes (no field has such a type), the wrap of COUNT
after 2^32 records, the operators of selector expressions (an expression is one
name), `print_in_csv` (never called), and the fixed buffers for names in the filter
parser (`FF_MAX_STRING`). The parser of group-filter bodies keeps 500 names
(`NUMBER_OF_STRINGS`, parse_filter_bodies/ffilter.h:31): it notes an error for the next
one, but `retCode` is never tested, so that later names of a body are neither checked nor
replaced; the bodies of the instances are short. The output of a selector item
may be a quoted string (selector_stage_def.hpp:82): one that is spelled like a keyword
is not distinguished from the keyword. IPv6 addresses written with a dotted end are not
distinguished from others. A window of type mixed exists in `AggStage` (`active_passive`, which
Agg::init accepts) but no rule leads to it. A branch after a stage that holds nothing
but another branch (`branch a { branch b { ... } }`) is not among the programs.

## Plan

What is left:

1. The aliases place by place, as the stages are stated now: what `Alias4variables` stores
   under a path, so that the names of a selector can be proved to be those of the
   aggregator above it wherever no other branch has the same path.
2. Several aggregators in one `AggStage`, with the shared `stop` and `once`.
