--------------------------- MODULE PipelineProofs ---------------------------
(***************************************************************************)
(* Proofs about Pipeline: for any number of flows and files, any command   *)
(* and any interleaving of its goroutines.                                 *)
(***************************************************************************)
EXTENDS Pipeline, FiniteSetTheorems, TLAPS

\* Which phases each command goes through, and where each goroutine may be in
\* them: the sweeper is gone before the assembler is closed.
PhasesOK ==
  /\ command \in {"read", "show"} => step["sweeper"] = "done"
  /\ phase = "wait" => command = "watch"
  /\ phase \in {"finish", "summary", "print"} =>
       command \in {"read", "watch"} /\ step["sweeper"] = "done"
  /\ phase \in {"close", "serving"} => command = "show"
  /\ phase = "close" => mu = Nobody /\ step["capture"] \in {"idle", "call"}
  /\ phase \notin {"run", "finish", "close"} => step["capture"] = "idle"
  /\ step["capture"] # "done"
  /\ phase = "run" => files > 0
  /\ streaming => command = "watch"

\* A goroutine has flows to report only inside its call, and records to write
\* only in its delivery; what is queued is taken before mu is released.
StagesOK ==
  /\ \A p \in Procs :
       /\ step[p] # "call" => todo[p] = {} /\ handling[p] = {}
       /\ step[p] # "deliver" => local[p] = {} /\ out # p
       /\ handling[p] = {} \/ \E f \in Flows : handling[p] = {f}
  /\ mu = Nobody => pending = {}

\* The flows the assembler has handed to a call of p.
InCall(p) == todo[p] \cup handling[p]

\* Every flow is in exactly one place.
PlacesOK ==
  /\ Flows = fresh \cup open \cup acc \cup InCall("capture") \cup InCall("sweeper")
  /\ fresh \cap open = {} /\ fresh \cap acc = {} /\ open \cap acc = {}
  /\ \A p \in Procs : InCall(p) \cap (fresh \cup open \cup acc) = {} /\ todo[p] \cap handling[p] = {}
  /\ InCall("capture") \cap InCall("sweeper") = {}

\* The flows whose report Stats already counts.
Reported == acc \cup handling["capture"] \cup handling["sweeper"]
StatsOK == tlsFlows = Cardinality(Reported)

\* The records on their way to the output.
Queued == pending \cup local["capture"] \cup local["sweeper"]

\* Each flow counted is on its way or written, once.
RecordsOK ==
  /\ Queued \subseteq acc
  /\ ~streaming => Queued = {}
  /\ \A p \in Procs : pending \cap local[p] = {}
  /\ local["capture"] \cap local["sweeper"] = {}
  /\ \A f \in Flows : written[f] = IF streaming /\ f \in acc \ Queued THEN 1 ELSE 0

\* Once finish has closed the assembler nothing is open, and the report is
\* made of what there is.
ReportOK ==
  /\ report \in [done : BOOLEAN, flows : SUBSET Flows, tlsFlows : Nat]
  /\ phase = "finish" /\ step["capture"] # "idle" => open = {}
  /\ phase = "finish" /\ step["capture"] = "deliver" => report.tlsFlows = tlsFlows
  /\ phase \in {"summary", "print"} => open = {} /\ report.tlsFlows = tlsFlows
  /\ phase \in {"close"} /\ step["capture"] = "call" => open = {}
  /\ phase = "serving" => open = {}
  /\ report.done => /\ phase \in {"print", "exited"}
                    /\ report.flows = acc /\ report.flows = Flows \ fresh
                    /\ report.tlsFlows = Cardinality(acc)

Inv == TypeOK /\ PhasesOK /\ StagesOK /\ PlacesOK /\ StatsOK /\ RecordsOK /\ ReportOK

\* The variables that say where the flows and their records are.
flowVars == <<streaming, fresh, open, todo, handling, tlsFlows, acc, pending, local, written>>

\* A step that moves no flow and no record leaves their places as they were.
LEMMA PlacesKept ==
  ASSUME PlacesOK, StatsOK, RecordsOK, UNCHANGED flowVars
  PROVE  PlacesOK' /\ StatsOK' /\ RecordsOK'
BY DEF PlacesOK, StatsOK, RecordsOK, InCall, Reported, Queued, flowVars

\* A pipeline that has not started satisfies the invariant.
LEMMA InitInv == Init => Inv
<1> SUFFICES ASSUME Init PROVE Inv
  OBVIOUS
<1>1. TypeOK BY PipelineAssumption DEF Init, TypeOK, Procs, Live, Nobody
<1>2. PhasesOK
  <2>1. streaming => command = "watch"
    BY DEF Init
  <2>2. Files > 0
    BY PipelineAssumption
  <2> QED BY <2>1, <2>2 DEF Init, PhasesOK, Procs, Live, Nobody
<1>3. StagesOK BY DEF Init, StagesOK, Procs, Nobody
<1>4. PlacesOK BY DEF Init, PlacesOK, InCall, Procs
<1>5. StatsOK BY FS_EmptySet DEF Init, StatsOK, Reported, Procs
<1>6. RecordsOK BY DEF Init, RecordsOK, Queued, Procs
<1>7. ReportOK BY DEF Init, ReportOK, Procs
<1> QED BY <1>1, <1>2, <1>3, <1>4, <1>5, <1>6, <1>7 DEF Inv

\* run returns with an error: flows and records stay where they are.
LEMMA RunFailsInv == Inv /\ RunFails => Inv'
<1> SUFFICES ASSUME Inv, RunFails PROVE Inv'
  OBVIOUS
<1>1. TypeOK'
  BY DEF Inv, TypeOK, PhasesOK, RunFails, setup, asmVars, shutdownVars, Procs,
     Nobody, Live
<1>2. PhasesOK'
  BY DEF Inv, TypeOK, PhasesOK, RunFails, setup, asmVars, shutdownVars, Procs,
     Nobody, Live
<1>3. StagesOK' BY DEF Inv, TypeOK, StagesOK, RunFails, setup, asmVars, shutdownVars, Procs, Nobody
<1>4. ReportOK'
  BY DEF Inv, TypeOK, PhasesOK, StagesOK, PlacesOK, StatsOK, InCall, Reported,
     ReportOK, RunFails, setup, asmVars, shutdownVars, Procs, Nobody
<1>5. PlacesOK' /\ StatsOK' /\ RecordsOK'
  BY PlacesKept DEF Inv, flowVars, RunFails, setup, asmVars, shutdownVars
<1> QED BY <1>1, <1>2, <1>3, <1>4, <1>5 DEF Inv

\* A file ends; after the last one read goes on to finish, show to close.
LEMMA EndOfFileInv == Inv /\ EndOfFile => Inv'
<1> SUFFICES ASSUME Inv, EndOfFile PROVE Inv'
  OBVIOUS
<1>1. TypeOK'
  BY DEF Inv, TypeOK, PhasesOK, EndOfFile, setup, asmVars, shutdownVars, Procs,
     Nobody, Live
<1>2. PhasesOK'
  BY DEF Inv, TypeOK, PhasesOK, EndOfFile, setup, asmVars, shutdownVars, Procs,
     Nobody, Live
<1>3. StagesOK' BY DEF Inv, TypeOK, StagesOK, EndOfFile, setup, asmVars, shutdownVars, Procs, Nobody
<1>4. ReportOK'
  BY DEF Inv, TypeOK, PhasesOK, StagesOK, PlacesOK, StatsOK, InCall, Reported,
     ReportOK, EndOfFile, setup, asmVars, shutdownVars, Procs, Nobody
<1>5. PlacesOK' /\ StatsOK' /\ RecordsOK'
  BY PlacesKept DEF Inv, flowVars, EndOfFile, setup, asmVars, shutdownVars
<1> QED BY <1>1, <1>2, <1>3, <1>4, <1>5 DEF Inv

\* Close has returned, with nothing left to report, and the server starts.
LEMMA FilesClosedInv == Inv /\ FilesClosed => Inv'
<1> SUFFICES ASSUME Inv, FilesClosed PROVE Inv'
  OBVIOUS
<1>1. TypeOK'
  BY DEF Inv, TypeOK, PhasesOK, FilesClosed, setup, asmVars, shutdownVars, Procs,
     Nobody, Live
<1>2. PhasesOK'
  BY DEF Inv, TypeOK, PhasesOK, FilesClosed, setup, asmVars, shutdownVars, Procs,
     Nobody, Live
<1>3. StagesOK'
  BY DEF Inv, TypeOK, StagesOK, FilesClosed, setup, asmVars, shutdownVars, Procs,
     Nobody
<1>4. ReportOK'
  BY DEF Inv, TypeOK, PhasesOK, StagesOK, PlacesOK, StatsOK, InCall, Reported,
     ReportOK, FilesClosed, setup, asmVars, shutdownVars, Procs, Nobody
<1>5. PlacesOK' /\ StatsOK' /\ RecordsOK'
  BY PlacesKept DEF Inv, flowVars, FilesClosed, setup, asmVars, shutdownVars
<1> QED BY <1>1, <1>2, <1>3, <1>4, <1>5 DEF Inv

\* A server of files is interrupted.
LEMMA ShowReturnsInv == Inv /\ ShowReturns => Inv'
<1> SUFFICES ASSUME Inv, ShowReturns PROVE Inv'
  OBVIOUS
<1>1. TypeOK'
  BY DEF Inv, TypeOK, PhasesOK, ShowReturns, setup, asmVars, shutdownVars, Procs,
     Nobody, Live
<1>2. PhasesOK'
  BY DEF Inv, TypeOK, PhasesOK, ShowReturns, setup, asmVars, shutdownVars, Procs,
     Nobody, Live
<1>3. StagesOK'
  BY DEF Inv, TypeOK, StagesOK, ShowReturns, setup, asmVars, shutdownVars, Procs,
     Nobody
<1>4. ReportOK'
  BY DEF Inv, TypeOK, PhasesOK, StagesOK, PlacesOK, StatsOK, InCall, Reported,
     ReportOK, ShowReturns, setup, asmVars, shutdownVars, Procs, Nobody
<1>5. PlacesOK' /\ StatsOK' /\ RecordsOK'
  BY PlacesKept DEF Inv, flowVars, ShowReturns, setup, asmVars, shutdownVars
<1> QED BY <1>1, <1>2, <1>3, <1>4, <1>5 DEF Inv

\* The command decides where to go after run; nothing is moved.
LEMMA ReturnsInv == Inv /\ Returns => Inv'
<1> SUFFICES ASSUME Inv, Returns PROVE Inv'
  OBVIOUS
<1>1. TypeOK'
  <2>1. runErr' \in BOOLEAN /\ stopFlush' \in BOOLEAN
    <3>1. runErr \in BOOLEAN /\ (runErr' = runErr \/ runErr' = FALSE)
      BY DEF Inv, TypeOK, Returns
    <3>2. runErr' \in BOOLEAN
      BY <3>1, Zenon
    <3>3. stopFlush' = (command \in {"watch", "serve"})
      BY DEF Returns, StopsSweeper, Live
    <3>4. CASE command \in {"watch", "serve"}
      BY <3>2, <3>3, <3>4
    <3>5. CASE command \notin {"watch", "serve"}
      BY <3>2, <3>3, <3>5
    <3> QED BY <3>4, <3>5
  <2> QED BY <2>1, ZenonT(40) DEF Inv, TypeOK, PhasesOK, Returns, AfterRun, setup, asmVars, Procs, Nobody
<1>2. PhasesOK'
  BY DEF Inv, TypeOK, PhasesOK, Returns, AfterRun, StopsSweeper, setup, asmVars,
     shutdownVars, Procs, Nobody, Live
<1>3. StagesOK'
  BY DEF Inv, TypeOK, StagesOK, Returns, AfterRun, StopsSweeper, setup, asmVars,
     shutdownVars, Procs, Nobody
<1>4. ReportOK'
  BY DEF Inv, TypeOK, PhasesOK, StagesOK, PlacesOK, StatsOK, InCall, Reported,
     ReportOK, Returns, AfterRun, StopsSweeper, setup, asmVars, shutdownVars, Procs,
     Nobody
<1>5. PlacesOK' /\ StatsOK' /\ RecordsOK'
  BY PlacesKept DEF Inv, flowVars, Returns, setup, asmVars, shutdownVars
<1> QED BY <1>1, <1>2, <1>3, <1>4, <1>5 DEF Inv

\* flushWG.Wait returns only when the sweeper is gone, so finish is alone.
LEMMA AwaitSweeperInv == Inv /\ AwaitSweeper => Inv'
<1> SUFFICES ASSUME Inv, AwaitSweeper PROVE Inv'
  OBVIOUS
<1>1. TypeOK'
  BY DEF Inv, TypeOK, PhasesOK, AwaitSweeper, setup, asmVars, shutdownVars, Procs,
     Nobody, Live
<1>2. PhasesOK'
  BY DEF Inv, TypeOK, PhasesOK, AwaitSweeper, setup, asmVars, shutdownVars, Procs,
     Nobody, Live
<1>3. StagesOK'
  BY DEF Inv, TypeOK, StagesOK, AwaitSweeper, setup, asmVars, shutdownVars, Procs,
     Nobody
<1>4. ReportOK'
  BY DEF Inv, TypeOK, PhasesOK, StagesOK, PlacesOK, StatsOK, InCall, Reported,
     ReportOK, AwaitSweeper, setup, asmVars, shutdownVars, Procs, Nobody
<1>5. PlacesOK' /\ StatsOK' /\ RecordsOK'
  BY PlacesKept DEF Inv, flowVars, AwaitSweeper, setup, asmVars, shutdownVars
<1> QED BY <1>1, <1>2, <1>3, <1>4, <1>5 DEF Inv

\* finish builds the summary when no goroutine has a flow in hand: the
\* Accumulator holds every flow captured, and Stats counted no other.
LEMMA SummaryInv == Inv /\ Summary => Inv'
<1> SUFFICES ASSUME Inv, Summary PROVE Inv'
  OBVIOUS
<1>1. TypeOK'
  BY DEF Inv, TypeOK, PhasesOK, Summary, MayLock, setup, asmVars, shutdownVars,
     Procs, Nobody, Live
<1>2. PhasesOK'
  BY DEF Inv, TypeOK, PhasesOK, Summary, MayLock, setup, asmVars, shutdownVars,
     Procs, Nobody, Live
<1>3. StagesOK'
  BY DEF Inv, TypeOK, StagesOK, Summary, MayLock, setup, asmVars, shutdownVars,
     Procs, Nobody
<1>4. ReportOK'
  <2>1. todo["capture"] = {} /\ todo["sweeper"] = {} /\ handling["capture"] = {} /\ handling["sweeper"] = {}
    BY DEF Inv, PhasesOK, StagesOK, Summary, Procs
  <2>2. acc = Flows \ fresh /\ tlsFlows = Cardinality(acc) /\ open = {}
    BY <2>1 DEF Inv, PlacesOK, StatsOK, InCall, Reported, ReportOK, Summary
  <2>3. report' = [report EXCEPT !.done = TRUE, !.flows = acc] /\ acc \subseteq Flows
    BY DEF Summary, Inv, TypeOK
  <2> QED BY <2>2, <2>3 DEF Inv, ReportOK, Summary, asmVars
<1>5. PlacesOK' /\ StatsOK' /\ RecordsOK'
  BY PlacesKept DEF Inv, flowVars, Summary, setup, asmVars, shutdownVars
<1> QED BY <1>1, <1>2, <1>3, <1>4, <1>5 DEF Inv

\* The report is written and the command returns.
LEMMA WriteReportInv == Inv /\ WriteReport => Inv'
<1> SUFFICES ASSUME Inv, WriteReport PROVE Inv'
  OBVIOUS
<1>1. TypeOK'
  BY DEF Inv, TypeOK, PhasesOK, WriteReport, setup, asmVars, shutdownVars, Procs,
     Nobody, Live
<1>2. PhasesOK'
  BY DEF Inv, TypeOK, PhasesOK, WriteReport, setup, asmVars, shutdownVars, Procs,
     Nobody, Live
<1>3. StagesOK'
  BY DEF Inv, TypeOK, StagesOK, WriteReport, setup, asmVars, shutdownVars, Procs,
     Nobody
<1>4. ReportOK'
  BY DEF Inv, TypeOK, PhasesOK, StagesOK, PlacesOK, StatsOK, InCall, Reported,
     ReportOK, WriteReport, setup, asmVars, shutdownVars, Procs, Nobody
<1>5. PlacesOK' /\ StatsOK' /\ RecordsOK'
  BY PlacesKept DEF Inv, flowVars, WriteReport, setup, asmVars, shutdownVars
<1> QED BY <1>1, <1>2, <1>3, <1>4, <1>5 DEF Inv

\* The sweeper ends between two calls, with nothing in hand.
LEMMA SweeperStopsInv == Inv /\ SweeperStops => Inv'
<1> SUFFICES ASSUME Inv, SweeperStops PROVE Inv'
  OBVIOUS
<1>1. TypeOK'
  BY DEF Inv, TypeOK, PhasesOK, SweeperStops, setup, asmVars, shutdownVars, Procs,
     Nobody, Live
<1>2. PhasesOK'
  BY DEF Inv, TypeOK, PhasesOK, SweeperStops, setup, asmVars, shutdownVars, Procs,
     Nobody, Live
<1>3. StagesOK'
  BY DEF Inv, TypeOK, StagesOK, SweeperStops, setup, asmVars, shutdownVars, Procs,
     Nobody
<1>4. ReportOK'
  BY DEF Inv, TypeOK, PhasesOK, StagesOK, PlacesOK, StatsOK, InCall, Reported,
     ReportOK, SweeperStops, setup, asmVars, shutdownVars, Procs, Nobody
<1>5. PlacesOK' /\ StatsOK' /\ RecordsOK'
  BY PlacesKept DEF Inv, flowVars, SweeperStops, setup, asmVars, shutdownVars
<1> QED BY <1>1, <1>2, <1>3, <1>4, <1>5 DEF Inv

\* An interrupt touches only the flags of the shutdown.
LEMMA SignalInv == Inv /\ Signal => Inv'
<1> SUFFICES ASSUME Inv, Signal PROVE Inv'
  OBVIOUS
<1>1. TypeOK'
  BY DEF Inv, TypeOK, PhasesOK, Signal, setup, asmVars, shutdownVars, Procs, Nobody,
     Live
<1>2. PhasesOK'
  BY DEF Inv, TypeOK, PhasesOK, Signal, setup, asmVars, shutdownVars, Procs, Nobody,
     Live
<1>3. StagesOK' BY DEF Inv, TypeOK, StagesOK, Signal, setup, asmVars, shutdownVars, Procs, Nobody
<1>4. ReportOK'
  BY DEF Inv, TypeOK, PhasesOK, StagesOK, PlacesOK, StatsOK, InCall, Reported,
     ReportOK, Signal, setup, asmVars, shutdownVars, Procs, Nobody
<1>5. PlacesOK' /\ StatsOK' /\ RecordsOK'
  BY PlacesKept DEF Inv, flowVars, Signal, setup, asmVars, shutdownVars
<1> QED BY <1>1, <1>2, <1>3, <1>4, <1>5 DEF Inv

\* So does closing the source.
LEMMA CloseSourceInv == Inv /\ CloseSource => Inv'
<1> SUFFICES ASSUME Inv, CloseSource PROVE Inv'
  OBVIOUS
<1>1. TypeOK'
  BY DEF Inv, TypeOK, PhasesOK, CloseSource, setup, asmVars, shutdownVars, Procs,
     Nobody, Live
<1>2. PhasesOK'
  BY DEF Inv, TypeOK, PhasesOK, CloseSource, setup, asmVars, shutdownVars, Procs,
     Nobody, Live
<1>3. StagesOK'
  BY DEF Inv, TypeOK, StagesOK, CloseSource, setup, asmVars, shutdownVars, Procs,
     Nobody
<1>4. ReportOK'
  BY DEF Inv, TypeOK, PhasesOK, StagesOK, PlacesOK, StatsOK, InCall, Reported,
     ReportOK, CloseSource, setup, asmVars, shutdownVars, Procs, Nobody
<1>5. PlacesOK' /\ StatsOK' /\ RecordsOK'
  BY PlacesKept DEF Inv, flowVars, CloseSource, setup, asmVars, shutdownVars
<1> QED BY <1>1, <1>2, <1>3, <1>4, <1>5 DEF Inv

\* A snapshot only reads.
LEMMA SnapshotInv == Inv /\ Snapshot => Inv'
<1> SUFFICES ASSUME Inv, Snapshot PROVE Inv'
  OBVIOUS
<1>1. TypeOK'
  BY DEF Inv, TypeOK, PhasesOK, Snapshot, SnapshotLocks, setup, asmVars,
     shutdownVars, Procs, Nobody, Live
<1>2. PhasesOK'
  BY DEF Inv, TypeOK, PhasesOK, Snapshot, SnapshotLocks, setup, asmVars,
     shutdownVars, Procs, Nobody, Live
<1>3. StagesOK'
  BY DEF Inv, TypeOK, StagesOK, Snapshot, SnapshotLocks, setup, asmVars,
     shutdownVars, Procs, Nobody
<1>4. ReportOK'
  BY DEF Inv, TypeOK, PhasesOK, StagesOK, PlacesOK, StatsOK, InCall, Reported,
     ReportOK, Snapshot, SnapshotLocks, setup, asmVars, shutdownVars, Procs, Nobody
<1>5. PlacesOK' /\ StatsOK' /\ RecordsOK'
  BY PlacesKept DEF Inv, flowVars, Snapshot, setup, asmVars, shutdownVars
<1> QED BY <1>1, <1>2, <1>3, <1>4, <1>5 DEF Inv

\* A goroutine enters the assembler, which hands it the flows S.
LEMMA EnterInv ==
  ASSUME Inv, NEW p \in Procs, NEW new \in SUBSET fresh, NEW S \in SUBSET (open \cup new),
         Enter(p, new, S),
         phase \in {"run", "returned", "wait", "finish"},
         p = "capture" => phase \in {"run", "finish"},
         phase = "finish" => p = "capture" /\ new = {} /\ S = open
  PROVE  Inv'
<1>1. TypeOK' BY DEF Inv, TypeOK, Enter, MayLock, setup, asmVars, shutdownVars, Procs, Nobody
<1>2. PhasesOK'
  BY DEF Inv, TypeOK, PhasesOK, Enter, MayLock, setup, asmVars, shutdownVars, Procs,
     Nobody
<1>3. StagesOK'
  BY DEF Inv, TypeOK, StagesOK, Enter, MayLock, setup, asmVars, shutdownVars, Procs,
     Nobody
<1>4. PlacesOK'
  BY DEF Inv, TypeOK, StagesOK, PlacesOK, InCall, Enter, MayLock, setup, asmVars,
     shutdownVars, Procs, Nobody
<1>5. StatsOK' BY DEF Inv, StatsOK, Reported, Enter
<1>6. RecordsOK' BY DEF Inv, RecordsOK, Queued, Enter, setup, shutdownVars
<1>7. ReportOK'
  BY DEF Inv, TypeOK, PhasesOK, ReportOK, Enter, setup, asmVars, shutdownVars,
     Procs, Nobody
<1> QED BY <1>1, <1>2, <1>3, <1>4, <1>5, <1>6, <1>7 DEF Inv

\* emit counts a flow that Stats had not counted, and has it in hand.
LEMMA EmitInv ==
  ASSUME Inv, NEW p \in Procs, NEW f \in Flows, Emit(p, f), phase # "exited"
  PROVE  Inv'
<1>1. TypeOK' BY DEF Inv, TypeOK, Emit, setup, asmVars, shutdownVars, Procs, Nobody
<1>2. PhasesOK' BY DEF Inv, TypeOK, PhasesOK, Emit, setup, asmVars, shutdownVars, Procs, Nobody
<1>3. StagesOK' BY DEF Inv, TypeOK, StagesOK, Emit, setup, asmVars, shutdownVars, Procs, Nobody
<1>4. PlacesOK'
  BY DEF Inv, TypeOK, StagesOK, PlacesOK, InCall, Emit, setup, asmVars,
     shutdownVars, Procs, Nobody
<1>5. StatsOK'
  <2>1. Reported' = Reported \cup {f} /\ f \notin Reported
    BY DEF Inv, TypeOK, PlacesOK, InCall, Reported, Emit, Procs
  <2>2. IsFiniteSet(Reported)
    <3>1. Reported \subseteq Flows
      BY DEF Inv, PlacesOK, InCall, Reported
    <3> QED BY <3>1, PipelineAssumption, FS_Subset
  <2>3. Cardinality(Reported \cup {f}) = Cardinality(Reported) + 1
    BY <2>1, <2>2, FS_AddElement
  <2>4. tlsFlows = Cardinality(Reported) /\ tlsFlows' = tlsFlows + 1
    BY DEF Inv, StatsOK, Emit
  <2> QED BY <2>1, <2>3, <2>4 DEF StatsOK
<1>6. RecordsOK' BY DEF Inv, RecordsOK, Queued, Emit, setup, shutdownVars
<1>7. ReportOK'
  BY DEF Inv, TypeOK, PhasesOK, StagesOK, ReportOK, Emit, setup, asmVars,
     shutdownVars, Procs, Nobody
<1> QED BY <1>1, <1>2, <1>3, <1>4, <1>5, <1>6, <1>7 DEF Inv

\* The handler moves the flow in hand to the Accumulator and to pending, where
\* it cannot be yet.
LEMMA HandleInv ==
  ASSUME Inv, NEW p \in Procs, Handle(p), phase # "exited"
  PROVE  Inv'
<1>1. TypeOK' BY DEF Inv, TypeOK, Handle, setup, asmVars, shutdownVars, Procs, Nobody
<1>2. PhasesOK' BY DEF Inv, TypeOK, PhasesOK, Handle, setup, asmVars, shutdownVars, Procs, Nobody
<1>3. StagesOK'
  BY DEF Inv, TypeOK, StagesOK, PhasesOK, Handle, setup, asmVars, shutdownVars,
     Procs, Nobody
<1>4. PlacesOK'
  BY DEF Inv, TypeOK, StagesOK, PlacesOK, InCall, Handle, setup, asmVars,
     shutdownVars, Procs, Nobody
<1>5. StatsOK'
  <2>1. Reported' = Reported
    BY DEF Inv, TypeOK, Reported, Handle, Procs
  <2> QED BY <2>1 DEF Inv, StatsOK, Handle
<1>6. RecordsOK'
  BY DEF Inv, TypeOK, PlacesOK, InCall, RecordsOK, Queued, Handle, setup,
     shutdownVars, Procs
<1>7. ReportOK'
  BY DEF Inv, TypeOK, PhasesOK, StagesOK, ReportOK, Handle, setup, asmVars,
     shutdownVars, Procs, Nobody
<1> QED BY <1>1, <1>2, <1>3, <1>4, <1>5, <1>6, <1>7 DEF Inv

\* takePending moves all of pending to the delivery of the holder of mu.
LEMMA LeaveInv ==
  ASSUME Inv, NEW p \in Procs, Leave(p), phase # "exited"
  PROVE  Inv'
<1>1. TypeOK' BY DEF Inv, TypeOK, Leave, setup, asmVars, shutdownVars, Procs, Nobody
<1>2. PhasesOK' BY DEF Inv, TypeOK, PhasesOK, Leave, setup, asmVars, shutdownVars, Procs, Nobody
<1>3. StagesOK' BY DEF Inv, TypeOK, StagesOK, Leave, setup, asmVars, shutdownVars, Procs, Nobody
<1>4. PlacesOK' BY DEF Inv, PlacesOK, InCall, Leave, asmVars
<1>5. StatsOK' BY DEF Inv, StatsOK, Reported, Leave, asmVars
<1>6. RecordsOK' BY DEF Inv, TypeOK, StagesOK, RecordsOK, Queued, Leave, setup, shutdownVars, Procs
<1>7. ReportOK'
  BY DEF Inv, TypeOK, PhasesOK, StagesOK, ReportOK, Leave, setup, asmVars,
     shutdownVars, Procs, Nobody
<1> QED BY <1>1, <1>2, <1>3, <1>4, <1>5, <1>6, <1>7 DEF Inv

\* onRecord writes a record once: it leaves the delivery.
LEMMA WriteInv ==
  ASSUME Inv, NEW p \in Procs, NEW f \in Flows, Write(p, f), phase # "exited"
  PROVE  Inv'
<1>1. TypeOK' BY DEF Inv, TypeOK, Write, setup, asmVars, shutdownVars, Procs, Nobody
<1>2. PhasesOK' BY DEF Inv, TypeOK, PhasesOK, Write, setup, asmVars, shutdownVars, Procs, Nobody
<1>3. StagesOK' BY DEF Inv, TypeOK, StagesOK, Write, setup, asmVars, shutdownVars, Procs, Nobody
<1>4. PlacesOK' BY DEF Inv, PlacesOK, InCall, Write, asmVars
<1>5. StatsOK' BY DEF Inv, StatsOK, Reported, Write, asmVars
<1>6. RecordsOK' BY DEF Inv, TypeOK, StagesOK, RecordsOK, Queued, Write, setup, shutdownVars, Procs
<1>7. ReportOK'
  BY DEF Inv, TypeOK, PhasesOK, StagesOK, ReportOK, Write, setup, asmVars,
     shutdownVars, Procs, Nobody
<1> QED BY <1>1, <1>2, <1>3, <1>4, <1>5, <1>6, <1>7 DEF Inv

\* The output is unlocked, or a delivery with nothing left returns; after the
\* delivery of finish Stats still is what finish read.
LEMMA DeliveredInv ==
  ASSUME Inv, NEW p \in Procs, Delivered(p) \/ Unlock(p), phase # "exited"
  PROVE  Inv'
<1>1. TypeOK'
  BY DEF Inv, TypeOK, PhasesOK, Delivered, Unlock, setup, asmVars, shutdownVars,
     Procs, Nobody
<1>2. PhasesOK'
  BY DEF Inv, TypeOK, PhasesOK, Delivered, Unlock, setup, asmVars, shutdownVars,
     Procs, Nobody
<1>3. StagesOK'
  BY DEF Inv, TypeOK, StagesOK, Delivered, Unlock, setup, asmVars, shutdownVars,
     Procs, Nobody
<1>4. ReportOK'
  BY DEF Inv, TypeOK, PhasesOK, StagesOK, ReportOK, Delivered, Unlock, setup,
     asmVars, shutdownVars, Procs, Nobody
<1>5. PlacesOK' /\ StatsOK' /\ RecordsOK'
  BY PlacesKept DEF Inv, flowVars, Delivered, Unlock, setup, asmVars, shutdownVars
<1> QED BY <1>1, <1>2, <1>3, <1>4, <1>5 DEF Inv

\* runServe closes the assembler without mu, which nobody else wants yet.
LEMMA CloseFilesInv == Inv /\ CloseFiles => Inv'
<1> SUFFICES ASSUME Inv, CloseFiles PROVE Inv'
  OBVIOUS
<1>1. TypeOK' BY DEF Inv, TypeOK, PhasesOK, CloseFiles, setup, asmVars, shutdownVars, Procs, Nobody
<1>2. PhasesOK'
  BY DEF Inv, TypeOK, PhasesOK, CloseFiles, setup, asmVars, shutdownVars, Procs,
     Nobody
<1>3. StagesOK'
  BY DEF Inv, TypeOK, StagesOK, CloseFiles, setup, asmVars, shutdownVars, Procs,
     Nobody
<1>4. PlacesOK'
  BY DEF Inv, TypeOK, StagesOK, PlacesOK, InCall, CloseFiles, setup, asmVars,
     shutdownVars, Procs, Nobody
<1>5. StatsOK' BY DEF Inv, StatsOK, Reported, CloseFiles
<1>6. RecordsOK' BY DEF Inv, RecordsOK, Queued, CloseFiles, setup, shutdownVars
<1>7. ReportOK'
  BY DEF Inv, TypeOK, PhasesOK, ReportOK, CloseFiles, setup, asmVars, shutdownVars,
     Procs, Nobody
<1> QED BY <1>1, <1>2, <1>3, <1>4, <1>5, <1>6, <1>7 DEF Inv

\* Every step keeps the invariant.
LEMMA NextInv == Inv /\ [Next]_vars => Inv'
<1> SUFFICES ASSUME Inv, [Next]_vars PROVE Inv'
  OBVIOUS
<1>1. CASE Packet
  <2>0. PICK new \in {{}} \cup {{f} : f \in fresh} :
          \E S \in SUBSET (open \cup new) : Enter("capture", new, S)
    BY <1>1 DEF Packet
  <2>1. PICK S \in SUBSET (open \cup new) : Enter("capture", new, S)
    BY <2>0
  <2>2. new \in SUBSET fresh /\ "capture" \in Procs
    BY DEF Procs
  <2>3. phase = "run"
    BY <1>1 DEF Packet
  <2> QED BY <2>1, <2>2, <2>3, EnterInv
<1>2. CASE Finish
  <2>1. phase = "finish" /\ Enter("capture", {}, open) /\ "capture" \in Procs
    BY <1>2 DEF Finish, Procs
  <2>2. {} \in SUBSET fresh /\ open \in SUBSET (open \cup {})
    OBVIOUS
  <2> QED BY <2>1, <2>2, EnterInv
<1>3. CASE Sweep
  <2>1. PICK S \in SUBSET open : Enter("sweeper", {}, S)
    BY <1>3 DEF Sweep
  <2>2. {} \in SUBSET fresh /\ S \in SUBSET (open \cup {}) /\ "sweeper" \in Procs
    BY DEF Procs
  <2>3. phase \in {"run", "returned", "wait"}
    BY <1>3, <2>1 DEF Inv, TypeOK, PhasesOK, Enter, Sweep
  <2> QED BY <2>1, <2>2, <2>3, EnterInv
<1>4. CASE \E p \in Procs : Proceed(p)
  <2>1. PICK p \in Procs : Proceed(p)
    BY <1>4
  <2> QED BY <2>1, EmitInv, HandleInv, LeaveInv, WriteInv, DeliveredInv DEF Proceed
<1>5. CASE Exited \/ UNCHANGED vars
  <2>1. UNCHANGED vars
    BY <1>5 DEF Exited
  <2>2. TypeOK' BY <2>1 DEF vars, Inv, TypeOK
  <2>3. PhasesOK' /\ StagesOK' /\ ReportOK' BY <2>1 DEF vars, Inv, PhasesOK, StagesOK, ReportOK
  <2>4. PlacesOK' /\ StatsOK' /\ RecordsOK' BY <2>1, PlacesKept DEF vars, flowVars, Inv
  <2> QED BY <2>2, <2>3, <2>4 DEF Inv
<1>6. CASE \/ RunFails \/ EndOfFile \/ Returns \/ AwaitSweeper \/ FilesClosed \/ ShowReturns
           \/ Summary \/ WriteReport \/ SweeperStops \/ Signal \/ CloseSource \/ Snapshot
  BY <1>6, RunFailsInv, EndOfFileInv, ReturnsInv, AwaitSweeperInv, FilesClosedInv, ShowReturnsInv,
     SummaryInv, WriteReportInv, SweeperStopsInv, SignalInv, CloseSourceInv, SnapshotInv
<1> QED BY <1>1, <1>2, <1>3, <1>4, <1>5, <1>6, CloseFilesInv DEF Next

\* The invariant holds in every reachable state.
LEMMA InvAlways == Spec => []Inv
BY InitInv, NextInv, PTL DEF Spec

\* The pipeline's state keeps its types, and mu is held by a goroutine exactly
\* while it is inside an assembler call.
THEOREM TypeCorrect == Spec => []TypeOK
<1>1. Inv => TypeOK
  BY DEF Inv
<1> QED BY <1>1, InvAlways, PTL

\* The closing report of watch and read is complete, consistent in itself, and
\* written when nobody else writes.
THEOREM ReportAlwaysSound == Spec => []ReportSound
<1>1. Inv => ReportComplete
  BY DEF Inv, ReportOK, ReportComplete
<1>2. Inv => ReportUndisturbed
  <2> SUFFICES ASSUME Inv, phase = "print" PROVE out = Nobody /\ pending = {} /\ \A p \in Procs : local[p] = {}
    BY DEF ReportUndisturbed
  <2>1. \A p \in Procs : step[p] \in {"idle", "done"}
    BY DEF Inv, PhasesOK, Procs
  <2>2. mu = Nobody /\ out = Nobody
    BY <2>1 DEF Inv, TypeOK, StagesOK, Procs
  <2> QED BY <2>1, <2>2 DEF Inv, StagesOK
<1> QED BY <1>1, <1>2, InvAlways, PTL DEF ReportSound

\* snapshot sees Stats and the Accumulator agree, and of files it sees all.
THEOREM SnapshotsFaithful == Spec => SnapshotFaithful
<1> DEFINE Agrees == snap' # snap => /\ snap'.flows = snap'.tlsFlows
                                     /\ command = "show" => snap'.flows = Cardinality(Flows \ fresh)
<1>1. Inv /\ [Next]_vars => [Agrees]_vars
  <2> SUFFICES ASSUME Inv, [Next]_vars PROVE Agrees
    OBVIOUS
  <2>1. CASE Snapshot
    <3>1. phase # "close" /\ mu = Nobody /\ (command = "show" => phase = "serving")
      BY <2>1 DEF Snapshot, SnapshotLocks, Inv, PhasesOK
    <3>2. \A p \in Procs : todo[p] = {} /\ handling[p] = {}
      BY <3>1 DEF Inv, TypeOK, StagesOK, Procs, Nobody
    <3>3. tlsFlows = Cardinality(acc)
      BY <3>2 DEF Inv, StatsOK, Reported, Procs
    <3>4. command = "show" => acc = Flows \ fresh
      BY <3>1, <3>2 DEF Inv, ReportOK, PlacesOK, InCall, Procs
    <3> QED BY <2>1, <3>3, <3>4 DEF Snapshot
  <2>2. CASE ~Snapshot
    <3>1. snap' = snap
      BY <2>2 DEF Next, vars, Packet, RunFails, EndOfFile, Returns, AwaitSweeper, CloseFiles,
         FilesClosed, ShowReturns, Finish, Summary, WriteReport, Sweep, SweeperStops, Signal, CloseSource,
         Proceed, Exited, Enter, Emit, Handle, Leave, Write, Unlock, Delivered
    <3> QED BY <3>1
  <2> QED BY <2>1, <2>2
<1> QED BY <1>1, InvAlways, PTL DEF Spec, SnapshotFaithful

\* The pipeline implements the census.
THEOREM ImplementsCensus == Spec => CensusKept
<1> USE DEF Contract!censusVars
<1>1. Init => Contract!CensusInit
  <2> SUFFICES ASSUME Init PROVE Contract!CensusInit
    OBVIOUS
  <2>1. streaming \in BOOLEAN
    BY DEF Init
  <2>2. report.done = FALSE /\ report.flows = {}
    BY DEF Init
  <2>3. acc = {} /\ written = [f \in Flows |-> 0]
    BY DEF Init
  <2> QED BY <2>1, <2>2, <2>3, Zenon DEF Contract!CensusInit
<1>2. Inv /\ [Next]_vars => [Contract!CensusNext]_(Contract!censusVars)
  <2> SUFFICES ASSUME Inv, [Next]_vars
               PROVE  [Contract!CensusNext]_(Contract!censusVars)
    OBVIOUS
  <2>1. ASSUME NEW p \in Procs, Handle(p), phase # "exited"
        PROVE  Contract!CensusNext
    <3>1. PICK f \in Flows : handling[p] = {f}
      BY <2>1 DEF Handle, Inv, StagesOK
    <3>2. f \notin acc /\ ~report.done
      BY <2>1, <3>1 DEF Inv, PlacesOK, InCall, PhasesOK, StagesOK, ReportOK, Procs
    <3>3. Contract!Count(f)
      BY <2>1, <3>1, <3>2 DEF Handle, Contract!Count, shutdownVars, setup
    <3> QED BY <3>3 DEF Contract!CensusNext
  <2>2. ASSUME NEW p \in Procs, NEW f \in Flows, Write(p, f), phase # "exited"
        PROVE  Contract!CensusNext
    <3>1. f \in Queued /\ streaming /\ f \in acc /\ written[f] = 0
      BY <2>2 DEF Write, Inv, RecordsOK, Queued, Procs
    <3>2. ~report.done
      BY <2>2 DEF Write, Inv, PhasesOK, ReportOK, Procs
    <3>3. written' = [written EXCEPT ![f] = 1]
      BY <2>2, <3>1 DEF Write, Inv, TypeOK
    <3>4. Contract!Show(f)
      BY <2>2, <3>1, <3>2, <3>3 DEF Write, Contract!Show, shutdownVars, setup
    <3> QED BY <3>4 DEF Contract!CensusNext
  <2>3. CASE Summary
    <3>1. Queued = {} /\ ~report.done
      BY <2>3 DEF Summary, MayLock, Inv, PhasesOK, StagesOK, ReportOK, Queued, Procs
    <3>2. streaming => \A f \in acc : written[f] = 1
      BY <3>1 DEF Inv, TypeOK, RecordsOK
    <3>3. report'.done = TRUE /\ report'.flows = acc
      BY <2>3 DEF Summary, Inv, ReportOK
    <3>4. Contract!Report
      BY <2>3, <3>1, <3>2, <3>3 DEF Summary, Contract!Report, shutdownVars, setup
    <3> QED BY <3>4 DEF Contract!CensusNext
  <2>4. ASSUME NEW p \in Procs, Leave(p)
        PROVE  UNCHANGED Contract!censusVars
    <3>1. report'.done = report.done /\ report'.flows = report.flows
      BY <2>4 DEF Leave, Inv, ReportOK
    <3> QED BY <2>4, <3>1 DEF Leave, shutdownVars, setup
  <2>5. ASSUME NEW p \in Procs,
               Unlock(p) \/ Delivered(p) \/ (\E f \in Flows : Emit(p, f)) \/ (\E new, S : Enter(p, new, S))
        PROVE  UNCHANGED Contract!censusVars
    BY <2>5 DEF Unlock, Delivered, Emit, Enter, shutdownVars, setup
  <2>6. CASE \E p \in Procs : Proceed(p)
    BY <2>1, <2>2, <2>4, <2>5, <2>6 DEF Proceed
  <2>7. CASE Packet \/ Finish \/ Sweep
    BY <2>5, <2>7 DEF Packet, Finish, Sweep, Procs
  <2>8. CASE \/ RunFails \/ EndOfFile \/ Returns \/ AwaitSweeper \/ CloseFiles \/ FilesClosed
             \/ ShowReturns \/ WriteReport \/ SweeperStops \/ Signal \/ CloseSource \/ Snapshot
    BY <2>8 DEF RunFails, EndOfFile, Returns, AwaitSweeper, CloseFiles, FilesClosed, ShowReturns,
                WriteReport, SweeperStops, Signal, CloseSource, Snapshot, shutdownVars, setup
  <2>9. CASE Exited \/ UNCHANGED vars
    BY <2>9 DEF Exited, vars
  <2> QED BY <2>3, <2>6, <2>7, <2>8, <2>9 DEF Next
<1> QED BY <1>1, <1>2, InvAlways, PTL DEF Spec, CensusKept, Contract!CensusSpec

=============================================================================
