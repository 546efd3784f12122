--------------------------- MODULE FlowAggregation ---------------------------
(***************************************************************************)
(* What an aggregator stage promises, whatever its window type and however *)
(* its threads interleave: a record joins the open aggregate of its key,   *)
(* or opens it; an aggregate is reported whole, once, and then it is       *)
(* closed; a record is never counted twice.                                *)
(* AggStage implements this specification.                                 *)
(***************************************************************************)
EXTENDS Sequences

CONSTANTS
  Keys,   \* values of the grouper key
  Ids     \* identities of the records

VARIABLES
  open,      \* key -> the records of its open aggregate, {} if there is none
  reported   \* the aggregates reported, in order

vars == <<open, reported>>

Fresh(i) == /\ \A k \in Keys : i \notin open[k]
            /\ \A n \in DOMAIN reported : i \notin reported[n].flows

Init == open = [k \in Keys |-> {}] /\ reported = <<>>

\* Record i joins (or opens) the aggregate of key k.
Add(k, i) ==
  /\ Fresh(i)
  /\ open' = [open EXCEPT ![k] = @ \cup {i}]
  /\ UNCHANGED reported

ReportOpen(k) ==
  /\ open[k] # {}
  /\ reported' = Append(reported, [key |-> k, flows |-> open[k]])

\* The aggregate of k is reported and closed.
Close(k) ==
  /\ ReportOpen(k)
  /\ open' = [open EXCEPT ![k] = {}]

\* The aggregate of k is reported and record i opens the next one.
Restart(k, i) ==
  /\ Fresh(i)
  /\ ReportOpen(k)
  /\ open' = [open EXCEPT ![k] = {i}]

Next ==
  \E k \in Keys :
    \/ Close(k)
    \/ \E i \in Ids : Add(k, i) \/ Restart(k, i)

Spec == Init /\ [][Next]_vars
=============================================================================
