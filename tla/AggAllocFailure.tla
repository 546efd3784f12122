--------------------------- MODULE AggAllocFailure ---------------------------
(***************************************************************************)
(* AggStage when create_record may fail (Agg::eval, aggregator.cpp:563):   *)
(* eval then frees the whole storage and returns -1 without unlocking      *)
(* storage_mutex; the callers (Stage_intf::send, Backend::start_processing)*)
(* ignore the value and go on.                                             *)
(***************************************************************************)
EXTENDS AggStage

CreateFails ==
  /\ pcM = "locked" /\ storage[rec_key] = Absent
  /\ storage' = [k \in Keys |-> Absent]
  /\ pcM' = "idle"
  /\ UNCHANGED <<pcT, once, stop, arrived, timeVars, storageLock, todo, sent>>

NextOrFailure == Next \/ (CreateFails /\ UNCHANGED window)

FailureSpec == Init /\ [][NextOrFailure]_vars /\ Fairness

\* "Module canceled, waiting for running threads" ... "Other threads ended,
\* cleaning storage and exiting" (aggregator.cpp:579, 583): the destructor gets
\* past the join.
DestructorEnds == (pcM = "ending") ~> (pcM = "done")
=============================================================================
