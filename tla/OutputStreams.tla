---------------------------- MODULE OutputStreams ----------------------------
(***************************************************************************)
(* What the receivers behind the output interfaces may rely on: a stream   *)
(* is opened at most once, its messages are written one at a time and      *)
(* whole, and its end comes once, after the last message and never in the  *)
(* middle of one.  A stream whose selector was never initialised is closed *)
(* too.  Pipelines implements this specification.                          *)
(***************************************************************************)
CONSTANTS
  Outputs,  \* output interfaces
  Writers,  \* threads
  Nobody    \* no thread writes

VARIABLES
  stream,   \* output -> "new", "open" or "closed"
  writer    \* output -> who is writing a message

vars == <<stream, writer>>

Init == /\ stream = [o \in Outputs |-> "new"]
        /\ writer = [o \in Outputs |-> Nobody]

Open(o) ==
  /\ stream[o] = "new"
  /\ stream' = [stream EXCEPT ![o] = "open"]
  /\ UNCHANGED writer

BeginMessage(o, w) ==
  /\ stream[o] = "open" /\ writer[o] = Nobody
  /\ writer' = [writer EXCEPT ![o] = w]
  /\ UNCHANGED stream

EndMessage(o) ==
  /\ writer[o] # Nobody
  /\ writer' = [writer EXCEPT ![o] = Nobody]
  /\ UNCHANGED stream

Close(o) ==
  /\ stream[o] # "closed" /\ writer[o] = Nobody
  /\ stream' = [stream EXCEPT ![o] = "closed"]
  /\ UNCHANGED writer

Next ==
  \E o \in Outputs :
    \/ Open(o)
    \/ \E w \in Writers : BeginMessage(o, w)
    \/ EndMessage(o)
    \/ Close(o)

Spec == Init /\ [][Next]_vars
=============================================================================
