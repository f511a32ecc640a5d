------------------------------- MODULE Source -------------------------------
(***************************************************************************)
(* What capture.Source promises its consumer: packets come, in order and   *)
(* each once, until the source is exhausted, fails or is closed; a close   *)
(* ends it with io.EOF, never with an error of the close's own making.     *)
(***************************************************************************)
EXTENDS Naturals

VARIABLES
  given,    \* the number of packets the consumer got
  closed,   \* Close was called
  ended     \* what Next returned last: "no", "eof" or "error"

sourceVars == <<given, closed, ended>>

SourceInit == given = 0 /\ closed = FALSE /\ ended = "no"

Give == ended = "no" /\ given' = given + 1 /\ UNCHANGED <<closed, ended>>

Shut == ~closed /\ closed' = TRUE /\ UNCHANGED <<given, ended>>

Exhaust == ended = "no" /\ ended' = "eof" /\ UNCHANGED <<given, closed>>

Fail == ended = "no" /\ ~closed /\ ended' = "error" /\ UNCHANGED <<given, closed>>

SourceNext == Give \/ Shut \/ Exhaust \/ Fail

SourceSpec == SourceInit /\ [][SourceNext]_sourceVars

=============================================================================
