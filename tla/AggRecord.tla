------------------------------ MODULE AggRecord ------------------------------
(***************************************************************************)
(* What an aggregator computes: the fields a rule asks for, from the       *)
(* options of Agg::init through Config and OutputTemplate to the functions *)
(* that create, update and post-process one aggregate (configuration.cpp,  *)
(* output.cpp, agg_functions.hpp, aggregator.cpp).                         *)
(*                                                                         *)
(* One element of the storage is followed: the records that have its key,  *)
(* in the order the main thread evaluates them, the windows that close it  *)
(* and the timeouts that report it (AggStage has the two threads).         *)
(* UniRec types of one width and signedness behave alike here, so a type   *)
(* is "uint8", "uint64", "ip" or "time"; a call through a NULL pointer     *)
(* ends the program (pc = "crashed").                                      *)
(***************************************************************************)
EXTENDS AggConfig, Bits, FiniteSets

CONSTANTS
  Type,            \* the fields of the input records -> their UniRec type
  Width,           \* an unsigned type -> its bits
  Rules,           \* sequences of options [func, field] a rule may give
  Records,         \* input records, functions of the fields in Type
  MaxRecords       \* bound: records received

Option == [func : Functions, field : DOMAIN Type]

\* The records have the fields of Type, with values of its types; COUNT is no
\* field of an input; a COUNT (uint32) does not wrap.
ASSUME RecordAssumption ==
  /\ {"TIME_FIRST", "TIME_LAST"} \subseteq DOMAIN Type
  /\ Type["TIME_FIRST"] = "time" /\ Type["TIME_LAST"] = "time"
  /\ \A n \in DOMAIN Type : "COUNT" \notin {n, expanded(n)}
  /\ \A t \in Unsigned : Width[t] \in Nat
  /\ MAX_KEY_FIELDS \in Nat
  /\ MaxRecords \in Nat /\ MaxRecords < Pow[Width["uint32"]]
  /\ \A rule \in Rules : rule \in Seq(Option)
  /\ \A r \in Records :
       /\ DOMAIN r = DOMAIN Type
       /\ r["TIME_FIRST"] <= r["TIME_LAST"]
       /\ \A n \in DOMAIN Type :
            /\ Type[n] \in Unsigned       => r[n] \in UInt(Width[Type[n]])
            /\ Type[n] \in {"ip", "time"} => r[n] \in Int

\* No record and no message: the ones that have no field.
None == [n \in {} |-> n]

Modulus(type) == Pow[Width[type]]

VARIABLES
  pc,          \* "options", "ready" or "crashed"
  options,     \* options of the rule that are not parsed yet
  config,      \* Config: the registered [func, field, target], in order
  outputTemp,  \* OutputTemplate
  rec,         \* the stored record, or None
  vectors,     \* vectors allocated for COUNT_DISTINCT and not freed
  members,     \* history: the records the stored one was made from
  sent,        \* history: the last record passed on and its members, or None
  received     \* records received

vars == <<pc, options, config, outputTemp, rec, vectors, members, sent, received>>

-----------------------------------------------------------------------------
(* Aggregation functions: the new value of a field.                        *)

Apply(process, type, src, dst) ==
  CASE process \in {"SUM", "AVG", "RATE"} -> (dst + src) % Modulus(type)
    [] process = "MIN"                    -> IF src < dst THEN src ELSE dst
    [] process = "MAX"                    -> IF src > dst THEN src ELSE dst
    [] process = "LAST"                   -> src
    [] process = "BIT_OR"                 -> BitOr(dst, src, Width[type])
    [] process = "BIT_AND"                -> BitAnd(dst, src, Width[type])
    [] process = "nope"                   -> dst

count_distinct(src, vector) == vector \cup {src}

make_avg(value, count) == value \div count
make_rate(value, time) == IF time # 0 THEN value \div time ELSE 0

-----------------------------------------------------------------------------
(* The life of a stored record.                                            *)

Fields == outputTemp.fields
Ptrs   == outputTemp.ptrs

\* The registered fields of some functions, and the entry of a field.
FieldsOf(funcs) == {config[i].field : i \in {j \in DOMAIN config : config[j].func \in funcs}}
Entry(n)        == config[CHOOSE i \in DOMAIN config : config[i].field = n]

KeyFields == FieldsOf({"KEY"})
OutFields == return_template_def(config)

\* Mutant: COUNT goes on when the record of a closed window is reused.
init_record_data_keep_count(r) ==
  [n \in OutFields |-> IF n = "COUNT" THEN IF rec = None THEN 1 ELSE rec[n] + 1
                       ELSE IF n \in DOMAIN Ptrs THEN {r[Ptrs[n].target]}
                       ELSE r[n]]

\* Copy the fields of the record, COUNT is 1, and allocate the vectors.
init_record_data(r) ==
  [n \in OutFields |-> IF n = "COUNT" THEN 1
                       ELSE IF n \in DOMAIN Ptrs THEN {r[Ptrs[n].target]}
                       ELSE r[n]]

process_agg_functions(r) ==
  [n \in OutFields |->
     CASE n = "COUNT"          -> (rec[n] + 1) % Modulus("uint32")
       [] n = "TIME_FIRST"     -> IF r[n] < rec[n] THEN r[n] ELSE rec[n]
       [] n = "TIME_LAST"      -> IF r[n] > rec[n] THEN r[n] ELSE rec[n]
       [] n \in DOMAIN Fields  -> Apply(Fields[n].process, Type[n], r[n], rec[n])
       [] n \in DOMAIN Ptrs    -> count_distinct(r[Ptrs[n].target], rec[n])
       [] n \in KeyFields      -> rec[n]]

\* Every field that is not an average is taken for a rate.
post_process(n) ==
  IF Fields[n].avg # "NULL"
  THEN make_avg(rec[n], rec["COUNT"])
  ELSE make_rate(rec[n], rec["TIME_LAST"] - rec["TIME_FIRST"])

prepare_to_send ==
  [n \in OutFields |->
     CASE n \in DOMAIN Fields /\ outputTemp.avg_postprocessing -> post_process(n)
       [] n \in DOMAIN Ptrs                                    -> Cardinality(rec[n])
       [] OTHER                                                -> rec[n]]

\* Calls through a NULL pointer.
NullRate ==
  /\ outputTemp.avg_postprocessing
  /\ \E n \in DOMAIN Fields : Fields[n].avg = "NULL" /\ Fields[n].rate = "NULL"
NullAlloc == \E n \in DOMAIN Ptrs : Ptrs[n].alloc = "NULL"

Message ==
  [rec |-> IF outputTemp.prepare_to_send THEN prepare_to_send ELSE rec,
   members |-> members]

-----------------------------------------------------------------------------
Init ==
  /\ pc = "options"
  /\ options \in Rules
  /\ config = <<>>
  /\ outputTemp = [fields |-> None, ptrs |-> None, prepare_to_send |-> FALSE,
                   avg_postprocessing |-> FALSE]
  /\ rec = None /\ vectors = 0
  /\ members = <<>> /\ sent = None /\ received = 0

storedVars == <<rec, vectors, members, sent, received>>

(* Agg::init.                                                              *)

ParseOption ==
  /\ pc = "options" /\ options # <<>>
  /\ options' = Tail(options)
  /\ UNCHANGED <<pc, outputTemp, storedVars>>

AddMember ==
  /\ ParseOption /\ Head(options).func # "COUNT_DISTINCT"
  /\ config' = add_member(config, Head(options).func, Head(options).field)

AddPtrMember ==
  /\ ParseOption /\ Head(options).func = "COUNT_DISTINCT"
  /\ config' = add_ptr_member(config, Head(options).field)

add_field(n) ==
  LET func == Entry(n).func
      type == Type[n]
  IN [process |-> get_function_ptr(func, type),
      avg     |-> IF func = "AVG" THEN get_avg_ptr(func, type) ELSE "NULL",
      rate    |-> IF func = "RATE" THEN get_avg_ptr(func, type) ELSE "NULL"]

add_ptr_field(n) ==
  LET target == Entry(n).target IN
  [target |-> target, alloc |-> get_alloc_ptr(Entry(n).func, Type[target])]

Template ==
  LET averages == FieldsOf({"AVG", "RATE"})
      ptrs     == FieldsOf({"COUNT_DISTINCT"})
  IN [fields |-> [n \in FieldsOf(Functions \ {"KEY", "COUNT_DISTINCT"}) |-> add_field(n)],
      ptrs |-> [n \in ptrs |-> add_ptr_field(n)],
      prepare_to_send |-> averages # {} \/ ptrs # {},
      avg_postprocessing |-> averages # {}]

RegisterFields ==
  /\ pc = "options" /\ options = <<>>
  /\ outputTemp' = Template
  /\ pc' = "ready"
  /\ UNCHANGED <<options, config, storedVars>>

-----------------------------------------------------------------------------
(* Agg::eval, check_timeouts and flush_storage for the aggregate.          *)

Receive(r) ==
  /\ pc = "ready" /\ received < MaxRecords
  /\ received' = received + 1
  /\ UNCHANGED <<options, config, outputTemp>>

Crash == pc' = "crashed" /\ UNCHANGED <<rec, vectors, members>>

\* The record becomes the stored one: init_record_data and init_ptr_field.
Store(r, allocated) ==
  IF NullAlloc
  THEN Crash
  ELSE /\ rec' = init_record_data(r)
       /\ vectors' = allocated + Cardinality(DOMAIN Ptrs)
       /\ members' = <<r>>
       /\ UNCHANGED pc

CreateRecord(r) ==
  /\ Receive(r) /\ rec = None
  /\ Store(r, vectors)
  /\ UNCHANGED sent

SameKey(r) == \A n \in KeyFields : rec[n] = r[n]

UpdateRecord(r) ==
  /\ Receive(r) /\ rec # None
  /\ SameKey(r)
  /\ rec' = process_agg_functions(r)
  /\ members' = Append(members, r)
  /\ UNCHANGED <<pc, vectors, sent>>

\* Mutant: the vectors of the reported window are not freed.
OpenNewWindow_leak(r) ==
  /\ Receive(r) /\ rec # None
  /\ SameKey(r)
  /\ IF NullRate
     THEN Crash /\ UNCHANGED sent
     ELSE sent' = Message /\ Store(r, vectors)

\* The record lies beyond the active window (any record may, here).
OpenNewWindow(r) ==
  /\ Receive(r) /\ rec # None
  /\ SameKey(r)
  /\ IF NullRate
     THEN Crash /\ UNCHANGED sent
     ELSE sent' = Message /\ Store(r, vectors - Cardinality(DOMAIN Ptrs))

\* A timeout or the destructor reports the aggregate and frees it.
SendAndErase ==
  /\ pc = "ready" /\ rec # None
  /\ IF NullRate
     THEN Crash /\ UNCHANGED sent
     ELSE /\ sent' = Message
          /\ rec' = None /\ members' = <<>>
          /\ vectors' = vectors - Cardinality(DOMAIN Ptrs)
          /\ UNCHANGED pc
  /\ UNCHANGED <<options, config, outputTemp, received>>

Next ==
  \/ AddMember \/ AddPtrMember \/ RegisterFields
  \/ \E r \in Records : CreateRecord(r) \/ UpdateRecord(r) \/ OpenNewWindow(r)
  \/ SendAndErase

Spec == Init /\ [][Next]_vars

-----------------------------------------------------------------------------
TypeOK ==
  /\ pc \in {"options", "ready", "crashed"}
  /\ options \in Seq(Option)
  /\ \A i \in DOMAIN config : config[i].func \in Functions
                              /\ config[i].target \in DOMAIN Type
  /\ Len(config) <= MAX_KEY_FIELDS
  /\ rec # None => DOMAIN rec = OutFields
  /\ vectors \in Nat
  /\ received \in 0 .. MaxRecords
  /\ members \in Seq(Records)

(* The reference: what a function means, over all members of an aggregate. *)

Values(ms, n)   == {ms[i][n] : i \in DOMAIN ms}
Total(ms, n)    == LET t[k \in 0 .. Len(ms)] == IF k = 0 THEN 0 ELSE t[k - 1] + ms[k][n]
                   IN t[Len(ms)]
Least(S)        == CHOOSE x \in S : \A y \in S : x <= y
Greatest(S)     == CHOOSE x \in S : \A y \in S : x >= y
Duration(ms)    == Greatest(Values(ms, "TIME_LAST")) - Least(Values(ms, "TIME_FIRST"))

Meaning(m, ms) ==
  LET n == m.target
      S == Values(ms, n)
      w == Width[Type[n]]
      wrapped == Total(ms, n) % Modulus(Type[n])
  IN IF m.func = "COUNT_DISTINCT" THEN Cardinality(S)
     ELSE IF Type[n] \notin Supported[m.func] THEN ms[1][n]
     ELSE CASE m.func = "SUM"     -> wrapped
            [] m.func = "AVG"     -> wrapped \div Len(ms)
            [] m.func = "RATE"    ->
                 IF Duration(ms) = 0 THEN 0 ELSE wrapped \div Duration(ms)
            [] m.func = "MIN"     -> Least(S)
            [] m.func = "MAX"     -> Greatest(S)
            [] m.func = "LAST"    -> ms[Len(ms)][n]
            [] m.func = "BIT_OR"  -> Number({b \in 0 .. w - 1 : \E x \in S : HasBit(x, b)}, w)
            [] m.func = "BIT_AND" -> Number({b \in 0 .. w - 1 : \A x \in S : HasBit(x, b)}, w)

\* Whatever functions are combined, every reported field is the function of the
\* rule over all records of the aggregate, post-processed exactly once: a window
\* that is opened in place starts afresh, a second function for one field is
\* rejected, an unsupported type keeps the first value (configuration.cpp,
\* "first assigned instead").
ReportsMeaning ==
  sent # None =>
    /\ \A i \in DOMAIN config : sent.rec[config[i].field] = Meaning(config[i], sent.members)
    /\ sent.rec["COUNT"] = Len(sent.members)
    /\ sent.rec["TIME_LAST"] - sent.rec["TIME_FIRST"] = Duration(sent.members)

\* Every vector of a COUNT_DISTINCT belongs to the stored record: reporting frees
\* it before the record is reused or freed.
VectorsOwned ==
  vectors = IF rec = None THEN 0 ELSE Cardinality(DOMAIN Ptrs)

\* "Only int, uint, float and double can use avg function, first assigned
\* instead" (configuration.cpp:215) and "Count Rate function (because there is no
\* other option yet)" (aggregator.cpp:221): whatever functions a rule combines
\* with an average or a rate, the record can be prepared to be sent.
PreparedWithoutCrash == pc = "crashed" => ~ NullRate

\* "Makes average of value stored on src pointer" (agg_functions.hpp): an average
\* lies between the least and the greatest value.
AverageBetweenExtremes ==
  sent # None =>
    \A i \in DOMAIN config :
      LET S == Values(sent.members, config[i].target) IN
      config[i].func = "AVG" /\ Type[config[i].target] \in Unsigned =>
        sent.rec[config[i].field] \in Least(S) .. Greatest(S)
=============================================================================
