------------------------------ MODULE AggConfig ------------------------------
(***************************************************************************)
(* Config of an aggregator: the fields its options register and the        *)
(* function each field gets by its UniRec type (configuration.cpp).        *)
(* A config is the sequence of registered [func, field, target]; target is *)
(* the field of the input that feeds it.  AggRecord computes with it, and  *)
(* StageInit connects the aggregators of a set of rules through it.        *)
(***************************************************************************)
EXTENDS Integers, Sequences

CONSTANT MAX_KEY_FIELDS  \* size of the arrays of Config and OutputTemplate

-----------------------------------------------------------------------------
Functions == {"KEY", "SUM", "AVG", "MIN", "MAX", "FIRST", "LAST", "BIT_OR",
              "BIT_AND", "RATE", "COUNT_DISTINCT"}

Unsigned == {"uint8", "uint32", "uint64"}

Supported ==
  [f \in Functions |->
     CASE f \in {"SUM", "AVG", "RATE", "BIT_OR", "BIT_AND"} -> Unsigned
       [] f \in {"MIN", "MAX", "LAST"}                      -> Unsigned \cup {"ip", "time"}
       [] f = "COUNT_DISTINCT"                              -> Unsigned \cup {"ip"}
       [] OTHER                                             -> {}]

\* An unsupported type gets the function that keeps the first value.
get_function_ptr(func, type) == IF type \in Supported[func] THEN func ELSE "nope"

get_avg_ptr(func, type) ==
  IF func \in {"AVG", "RATE"} /\ type \in Supported[func] THEN func ELSE "NULL"

get_alloc_ptr(func, type) ==
  IF func = "COUNT_DISTINCT" /\ type \in Supported[func] THEN "vector" ELSE "NULL"

-----------------------------------------------------------------------------
STATIC_FIELDS == {"TIME_FIRST", "TIME_LAST", "COUNT"}

FieldNames(config) == {config[i].field : i \in DOMAIN config}

verify_field(config, name) == name \notin {"TIME_FIRST", "TIME_LAST"} \cup FieldNames(config)

Register(config, func, field, target) ==
  Append(config, [func |-> func, field |-> field, target |-> target])

\* Mutant: off by one at the end of the arrays.
add_member_beyond(config, func, field) ==
  IF Len(config) <= MAX_KEY_FIELDS /\ verify_field(config, field)
  THEN Register(config, func, field, field)
  ELSE config

\* An option that does not fit or repeats a field is reported and skipped.
add_member(config, func, field) ==
  IF Len(config) < MAX_KEY_FIELDS /\ verify_field(config, field)
  THEN Register(config, func, field, field)
  ELSE config

\* A COUNT_DISTINCT gets an output field of its own.
expanded(field) == "COUNT_DISTINCT_" \o field

add_ptr_member(config, field) ==
  IF Len(config) + 1 < MAX_KEY_FIELDS /\ verify_field(config, expanded(field))
  THEN Register(config, "COUNT_DISTINCT", expanded(field), field)
  ELSE config

add_option(config, func, field) ==
  IF func = "COUNT_DISTINCT" THEN add_ptr_member(config, field)
                             ELSE add_member(config, func, field)

\* The fields of the record an aggregator passes on.
return_template_def(config) == FieldNames(config) \cup STATIC_FIELDS
=============================================================================
