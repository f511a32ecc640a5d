------------------------------- MODULE Census -------------------------------
(***************************************************************************)
(* What the commands promise about the flows the assembler hands over: a   *)
(* flow is counted once; where records are streamed it is shown once, and  *)
(* only after it was counted; and the closing report, after which nothing  *)
(* more happens, covers all that was counted, every record of which was    *)
(* shown before.                                                           *)
(***************************************************************************)
EXTENDS Naturals

CONSTANT Flows        \* the flows with a ClientHello in the traffic

VARIABLES streaming,  \* records are streamed as flows complete
          counted,    \* the flows in the Accumulator
          shown,      \* how often each record was written
          done,       \* the closing report is made
          final       \* the flows it covers

censusVars == <<streaming, counted, shown, done, final>>

CensusInit ==
  /\ streaming \in BOOLEAN
  /\ counted = {}
  /\ shown = [f \in Flows |-> 0]
  /\ done = FALSE
  /\ final = {}

Count(f) ==
  /\ ~done /\ f \notin counted
  /\ counted' = counted \cup {f}
  /\ UNCHANGED <<streaming, shown, done, final>>

Show(f) ==
  /\ streaming /\ ~done
  /\ f \in counted /\ shown[f] = 0
  /\ shown' = [shown EXCEPT ![f] = 1]
  /\ UNCHANGED <<streaming, counted, done, final>>

Report ==
  /\ ~done
  /\ done' = TRUE
  /\ streaming => \A f \in counted : shown[f] = 1
  /\ final' = counted
  /\ UNCHANGED <<streaming, counted, shown>>

CensusNext == (\E f \in Flows : Count(f) \/ Show(f)) \/ Report

CensusSpec == CensusInit /\ [][CensusNext]_censusVars

=============================================================================
