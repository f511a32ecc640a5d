------------------------------ MODULE Pipeline ------------------------------
(***************************************************************************)
(* cmd/tlscensus: the pipeline and the goroutines that drive it in read,   *)
(* watch and serve, the last of an interface or ("show") of files.         *)
(*                                                                         *)
(* The goroutine "capture" is the command itself: it pumps packets through *)
(* the assembler until the source ends, then shuts down.  "sweeper" is the *)
(* ticker goroutine of live capture.  The signal goroutine closes the      *)
(* source.  Serve's HTTP handlers take snapshots.                          *)
(*                                                                         *)
(* The assembler is reduced to what module Assembler shows of it: a packet *)
(* may make a ClientHello known, any call may report some of the flows     *)
(* known and not yet reported, each once, and Close reports them all.      *)
(*                                                                         *)
(* A definition marked as a fault is not part of the specification: put in *)
(* place of the definition after it, it must break a property (README).    *)
(***************************************************************************)
EXTENDS Naturals, FiniteSets

CONSTANTS
  Flows,       \* the flows with a ClientHello in the traffic
  Commands,    \* the commands considered; "show" is serve with capture files
  MayFail,     \* the source may fail by itself
  Files        \* the capture files of read and show

ASSUME PipelineAssumption ==
  /\ IsFiniteSet(Flows)
  /\ Commands \subseteq {"read", "watch", "serve", "show"}
  /\ MayFail \in BOOLEAN
  /\ Files \in Nat \ {0}

Procs == {"capture", "sweeper"}
Nobody == "nobody"

VARIABLES
  command,    \* the command that runs
  streaming,  \* onRecord is set: watch with text or ndjson output
  phase,      \* where the command is
  step,       \* per goroutine: "idle", in an assembler "call", or in "deliver"
  mu,         \* holder of pipeline.mu
  out,        \* holder of the output lock of watch
  fresh,      \* flows whose ClientHello was not captured yet
  open,       \* flows the assembler knows and has not reported
  todo,       \* per goroutine: flows its assembler call still reports
  handling,   \* per goroutine: the flow its call is reporting, counted in
              \* Stats but not yet seen by the handler
  tlsFlows,   \* Stats.TLSFlows
  acc,        \* the flows in the Accumulator
  pending,    \* pipeline.pending
  local,      \* per goroutine: the records taken from pending, to deliver
  written,    \* how often each record was written
  report,     \* the closing report
  snap,       \* the last snapshot of serve
  stopFlush,  \* the stopFlush channel is closed
  source,     \* "open" or "closed"
  signalled,  \* "no", "received", "done": the signal goroutine
  stopping,   \* the stopping flag of watch
  runErr,     \* run returned an error
  failed,     \* history: that error was the source's own
  files       \* files still to be read

vars == <<command, streaming, phase, step, mu, out, fresh, open, todo, handling, tlsFlows, acc,
          pending, local, written, report, snap, stopFlush, source, signalled, stopping, runErr, failed, files>>

asmVars == <<fresh, open, todo, handling, tlsFlows>>
setup == <<command, streaming>>
shutdownVars == <<setup, stopFlush, source, signalled, stopping, runErr, failed, files>>

Live == command \in {"watch", "serve"}

Init ==
  /\ command \in Commands
  /\ streaming \in IF command = "watch" THEN BOOLEAN ELSE {FALSE}
  /\ phase = "run"
  /\ step = [p \in Procs |-> IF p = "sweeper" /\ ~Live THEN "done" ELSE "idle"]
  /\ mu = Nobody /\ out = Nobody
  /\ fresh = Flows /\ open = {}
  /\ todo = [p \in Procs |-> {}] /\ handling = [p \in Procs |-> {}]
  /\ tlsFlows = 0 /\ acc = {} /\ pending = {}
  /\ local = [p \in Procs |-> {}]
  /\ written = [f \in Flows |-> 0]
  /\ report = [done |-> FALSE, flows |-> {}, tlsFlows |-> 0]
  /\ snap = [flows |-> 0, tlsFlows |-> 0]
  /\ stopFlush = FALSE /\ source = "open" /\ signalled = "no"
  /\ stopping = FALSE /\ runErr = FALSE /\ failed = FALSE
  /\ files = Files

(***************************************************************************)
(* One call of the assembler: lock, report flow by flow, take the pending  *)
(* records, unlock, deliver.                                               *)
(***************************************************************************)

\* A fault: the lock is not taken.
MayLockAlways == TRUE

\* pipeline.mu can be locked.
MayLock == mu = Nobody

\* p locks mu and enters the assembler, which learns the flows new and will
\* report the flows S.
Enter(p, new, S) ==
  /\ step[p] = "idle" /\ MayLock
  /\ mu' = p
  /\ step' = [step EXCEPT ![p] = "call"]
  /\ fresh' = fresh \ new
  /\ open' = (open \cup new) \ S
  /\ todo' = [todo EXCEPT ![p] = S]
  /\ UNCHANGED <<phase, out, handling, tlsFlows, acc, pending, local, written, report, snap>>
  /\ UNCHANGED shutdownVars

\* emit counts a flow and calls the handler ...
Emit(p, f) ==
  /\ step[p] = "call" /\ handling[p] = {} /\ f \in todo[p]
  /\ todo' = [todo EXCEPT ![p] = @ \ {f}]
  /\ handling' = [handling EXCEPT ![p] = {f}]
  /\ tlsFlows' = tlsFlows + 1
  /\ UNCHANGED <<phase, step, mu, out, fresh, open, acc, pending, local, written, report, snap>>
  /\ UNCHANGED shutdownVars

\* ... which adds it to the Accumulator and, when streaming, to pending.
Handle(p) ==
  /\ handling[p] # {}
  /\ acc' = acc \cup handling[p]
  /\ pending' = IF streaming THEN pending \cup handling[p] ELSE pending
  /\ handling' = [handling EXCEPT ![p] = {}]
  /\ UNCHANGED <<phase, step, mu, out, fresh, open, todo, tlsFlows, local, written, report, snap>>
  /\ UNCHANGED shutdownVars

\* A fault: takePending leaves the records queued.
LeaveQueued(p) ==
  /\ step[p] = "call" /\ mu = p /\ todo[p] = {} /\ handling[p] = {}
  /\ local' = [local EXCEPT ![p] = pending]
  /\ mu' = Nobody
  /\ step' = [step EXCEPT ![p] = "deliver"]
  /\ report' = IF phase = "finish" THEN [report EXCEPT !.tlsFlows = tlsFlows] ELSE report
  /\ UNCHANGED <<phase, out, acc, pending, written, snap>>
  /\ UNCHANGED asmVars
  /\ UNCHANGED shutdownVars

\* takePending, and unlock.  finish reads Stats here.
Leave(p) ==
  /\ step[p] = "call" /\ mu = p /\ todo[p] = {} /\ handling[p] = {}
  /\ local' = [local EXCEPT ![p] = pending]
  /\ pending' = {}
  /\ mu' = Nobody
  /\ step' = [step EXCEPT ![p] = "deliver"]
  /\ report' = IF phase = "finish" THEN [report EXCEPT !.tlsFlows = tlsFlows] ELSE report
  /\ UNCHANGED <<phase, out, acc, written, snap>>
  /\ UNCHANGED asmVars
  /\ UNCHANGED shutdownVars

\* onRecord: lock the output, write the record ...
Write(p, f) ==
  /\ step[p] = "deliver" /\ f \in local[p] /\ out = Nobody
  /\ out' = p
  /\ local' = [local EXCEPT ![p] = @ \ {f}]
  /\ written' = [written EXCEPT ![f] = @ + 1]
  /\ UNCHANGED <<phase, step, mu, acc, pending, report, snap>>
  /\ UNCHANGED asmVars
  /\ UNCHANGED shutdownVars

\* ... and unlock.
Unlock(p) ==
  /\ out = p
  /\ out' = Nobody
  /\ UNCHANGED <<phase, step, mu, acc, pending, local, written, report, snap>>
  /\ UNCHANGED asmVars
  /\ UNCHANGED shutdownVars

\* deliver returns.  After the delivery of finish the summary follows.
Delivered(p) ==
  /\ step[p] = "deliver" /\ local[p] = {} /\ out # p
  /\ step' = [step EXCEPT ![p] = "idle"]
  /\ phase' = IF p = "capture" /\ phase = "finish" THEN "summary" ELSE phase
  /\ UNCHANGED <<mu, out, acc, pending, local, written, report, snap>>
  /\ UNCHANGED asmVars
  /\ UNCHANGED shutdownVars

(***************************************************************************)
(* The goroutines                                                          *)
(***************************************************************************)

\* run: a packet may show one new flow and lets the assembler report any of
\* those it knows.
Packet ==
  /\ phase = "run" /\ source = "open"
  /\ \E new \in {{}} \cup {{f} : f \in fresh} : \E S \in SUBSET (open \cup new) :
       Enter("capture", new, S)

\* run returns because the source was closed under it, or failed.
RunFails ==
  /\ phase = "run" /\ step["capture"] = "idle"
  /\ source = "closed" \/ MayFail
  /\ runErr' = TRUE
  /\ failed' = (source = "open")
  /\ phase' = "returned"
  /\ UNCHANGED <<step, mu, out, acc, pending, local, written, report, snap>>
  /\ UNCHANGED <<setup, stopFlush, source, signalled, stopping, files>>
  /\ UNCHANGED asmVars

\* run returns at the end of a file; the next is opened, or runRead finishes
\* and runServe closes the assembler.
EndOfFile ==
  /\ command \in {"read", "show"}
  /\ phase = "run" /\ step["capture"] = "idle"
  /\ files' = files - 1
  /\ phase' = IF files > 1 THEN "run" ELSE IF command = "read" THEN "finish" ELSE "close"
  /\ UNCHANGED <<step, mu, out, acc, pending, local, written, report, snap>>
  /\ UNCHANGED <<setup, stopFlush, source, signalled, stopping, runErr, failed>>
  /\ UNCHANGED asmVars

\* A fault: the flows that are still open are forgotten.
CloseFilesIdle ==
  /\ phase = "close" /\ step["capture"] = "idle"
  /\ step' = [step EXCEPT !["capture"] = "call"]
  /\ UNCHANGED <<phase, mu, out, acc, pending, local, written, report, snap>>
  /\ UNCHANGED asmVars
  /\ UNCHANGED shutdownVars

\* runServe closes the assembler without the lock: the server is not yet there.
CloseFiles ==
  /\ phase = "close" /\ step["capture"] = "idle"
  /\ step' = [step EXCEPT !["capture"] = "call"]
  /\ todo' = [todo EXCEPT !["capture"] = open]
  /\ open' = {}
  /\ UNCHANGED <<phase, mu, out, fresh, handling, tlsFlows, acc, pending, local, written, report, snap>>
  /\ UNCHANGED shutdownVars

\* Close returns, and the server is started.
FilesClosed ==
  /\ phase = "close" /\ step["capture"] = "call"
  /\ todo["capture"] = {} /\ handling["capture"] = {}
  /\ step' = [step EXCEPT !["capture"] = "idle"]
  /\ phase' = "serving"
  /\ UNCHANGED <<mu, out, acc, pending, local, written, report, snap>>
  /\ UNCHANGED asmVars
  /\ UNCHANGED shutdownVars

\* A signal ends the wait of a server that shows files.
ShowReturns ==
  /\ phase = "serving" /\ signalled = "received"
  /\ phase' = "exited"
  /\ UNCHANGED <<step, mu, out, acc, pending, local, written, report, snap>>
  /\ UNCHANGED asmVars
  /\ UNCHANGED shutdownVars

\* A fault: runWatch does not wait for the sweeper.
AfterRunUnwaited == IF command = "watch" THEN "finish" ELSE "exited"

\* Where a command goes when run has returned with an error.
AfterRun == IF command = "watch" THEN "wait" ELSE "exited"

\* A fault: the sweeper is not told to stop.
StopsSweeperNever == FALSE

\* close(stopFlush), where there is a sweeper.
StopsSweeper == Live

\* After run: watch forgives the error of its own shutdown and stops the
\* sweeper; serve stops it and exits; read gives up without a report.
Returns ==
  /\ phase = "returned"
  /\ phase' = AfterRun
  /\ runErr' = IF command = "watch" /\ stopping THEN FALSE ELSE runErr
  /\ stopFlush' = StopsSweeper
  /\ UNCHANGED <<step, mu, out, acc, pending, local, written, report, snap>>
  /\ UNCHANGED <<setup, source, signalled, stopping, failed, files>>
  /\ UNCHANGED asmVars

\* flushWG.Wait returns.
AwaitSweeper ==
  /\ phase = "wait" /\ step["sweeper"] = "done"
  /\ phase' = "finish"
  /\ UNCHANGED <<step, mu, out, acc, pending, local, written, report, snap>>
  /\ UNCHANGED asmVars
  /\ UNCHANGED shutdownVars

\* A fault: finish sweeps instead of closing.
FinishIdle == phase = "finish" /\ \E S \in SUBSET open : Enter("capture", {}, S)

\* finish closes the assembler, which reports every flow it still knows.
Finish == phase = "finish" /\ Enter("capture", {}, open)

\* finish builds the summary from the Accumulator, under mu.
Summary ==
  /\ phase = "summary" /\ MayLock
  /\ report' = [report EXCEPT !.done = TRUE, !.flows = acc]
  /\ phase' = "print"
  /\ UNCHANGED <<step, mu, out, acc, pending, local, written, snap>>
  /\ UNCHANGED asmVars
  /\ UNCHANGED shutdownVars

\* writeReport writes the summary without the output lock, and the command
\* returns.
WriteReport ==
  /\ phase = "print"
  /\ phase' = "exited"
  /\ UNCHANGED <<step, mu, out, acc, pending, local, written, report, snap>>
  /\ UNCHANGED asmVars
  /\ UNCHANGED shutdownVars

\* The sweeper's ticker fires.
Sweep ==
  /\ phase # "exited"
  /\ \E S \in SUBSET open : Enter("sweeper", {}, S)

\* The sweeper sees stopFlush closed.
SweeperStops ==
  /\ stopFlush /\ step["sweeper"] = "idle"
  /\ step' = [step EXCEPT !["sweeper"] = "done"]
  /\ UNCHANGED <<phase, mu, out, acc, pending, local, written, report, snap>>
  /\ UNCHANGED asmVars
  /\ UNCHANGED shutdownVars

\* The user interrupts live capture or a server that shows files; in live
\* capture the signal goroutine marks the shutdown as its own ...
Signal ==
  /\ signalled = "no"
  /\ phase = "serving" \/ (Live /\ phase \in {"run", "returned", "wait"})
  /\ signalled' = "received"
  /\ stopping' = (command = "watch")
  /\ UNCHANGED <<phase, step, mu, out, acc, pending, local, written, report, snap>>
  /\ UNCHANGED <<setup, stopFlush, source, runErr, failed, files>>
  /\ UNCHANGED asmVars

\* ... and closes the source.
CloseSource ==
  /\ Live /\ signalled = "received" /\ phase # "exited"
  /\ signalled' = "done"
  /\ source' = "closed"
  /\ UNCHANGED <<phase, step, mu, out, acc, pending, local, written, report, snap>>
  /\ UNCHANGED <<setup, stopFlush, stopping, runErr, failed, files>>
  /\ UNCHANGED asmVars

\* A fault: snapshot does not take the lock.
SnapshotLocksNot == TRUE

\* snapshot waits for mu.
SnapshotLocks == mu = Nobody

\* snapshot, for an HTTP request to serve.
Snapshot ==
  /\ phase = "serving" \/ (command = "serve" /\ phase # "exited")
  /\ SnapshotLocks
  /\ snap' = [flows |-> Cardinality(acc), tlsFlows |-> tlsFlows]
  /\ UNCHANGED <<phase, step, mu, out, acc, pending, local, written, report>>
  /\ UNCHANGED asmVars
  /\ UNCHANGED shutdownVars

\* A goroutine works through its call and its delivery until the process ends.
Proceed(p) ==
  /\ phase # "exited"
  /\ \/ \E f \in Flows : Emit(p, f)
     \/ Handle(p)
     \/ Leave(p)
     \/ \E f \in Flows : Write(p, f)
     \/ Unlock(p)
     \/ Delivered(p)

Exited == phase = "exited" /\ UNCHANGED vars

Next ==
  \/ Packet \/ RunFails \/ EndOfFile \/ Returns \/ AwaitSweeper
  \/ CloseFiles \/ FilesClosed \/ ShowReturns
  \/ Finish \/ Summary \/ WriteReport
  \/ Sweep \/ SweeperStops \/ Signal \/ CloseSource \/ Snapshot
  \/ \E p \in Procs : Proceed(p)
  \/ Exited

Spec == Init /\ [][Next]_vars

\* Goroutines run.  A select with two ready cases picks at random, so the
\* sweeper does not prefer its ticker for ever.
LiveSpec ==
  /\ Spec
  /\ WF_vars(RunFails /\ source = "closed")
  /\ WF_vars(Returns) /\ WF_vars(AwaitSweeper)
  /\ WF_vars(Finish) /\ WF_vars(Summary) /\ WF_vars(WriteReport)
  /\ SF_vars(SweeperStops)
  /\ WF_vars(CloseSource) /\ WF_vars(ShowReturns)
  /\ \A p \in Procs : WF_vars(Proceed(p))

(***************************************************************************)
(* Properties                                                              *)
(***************************************************************************)

\* The type of the pipeline's state; the assembler is entered only by the
\* holder of mu, which a goroutine holds exactly while it is inside a call,
\* but for the Close before the server of files is started.
TypeOK ==
  /\ command \in Commands /\ streaming \in BOOLEAN
  /\ phase \in {"run", "returned", "wait", "finish", "summary", "print", "close", "serving", "exited"}
  /\ step \in [Procs -> {"idle", "call", "deliver", "done"}]
  /\ mu \in Procs \cup {Nobody} /\ out \in Procs \cup {Nobody}
  /\ fresh \subseteq Flows /\ open \subseteq Flows /\ acc \subseteq Flows /\ pending \subseteq Flows
  /\ todo \in [Procs -> SUBSET Flows] /\ handling \in [Procs -> SUBSET Flows]
  /\ local \in [Procs -> SUBSET Flows]
  /\ tlsFlows \in Nat /\ written \in [Flows -> Nat]
  /\ stopFlush \in BOOLEAN /\ stopping \in BOOLEAN /\ runErr \in BOOLEAN /\ failed \in BOOLEAN
  /\ source \in {"open", "closed"} /\ signalled \in {"no", "received", "done"}
  /\ files \in Nat
  /\ phase # "close" => \A p \in Procs : step[p] = "call" <=> mu = p

Contract == INSTANCE Census WITH counted <- acc, shown <- written, done <- report.done, final <- report.flows

\* The pipeline implements the census: every flow is counted and streamed at
\* most once, in that order, whichever goroutine reports it, and the closing
\* report comes after the last record.
CensusKept == Contract!CensusSpec

\* Its flows are those captured.
ReportComplete ==
  report.done =>
    /\ report.flows = Flows \ fresh
    /\ report.tlsFlows = Cardinality(report.flows)

\* Nobody writes at the same time.
ReportUndisturbed ==
  phase = "print" => out = Nobody /\ pending = {} /\ \A p \in Procs : local[p] = {}

\* The closing report covers every flow whose ClientHello was captured, and
\* its Stats, read before the last records were streamed, agree with its
\* summary, computed after.  "Streaming writers must be serialised against the
\* final report": while it is written without the output lock, nobody is
\* writing or about to.
ReportSound == ReportComplete /\ ReportUndisturbed

\* A snapshot never shows Stats ahead of the summary, since both are read under
\* mu between assembler calls; and a page about files covers every flow in
\* them: "nothing further will change".
SnapshotFaithful ==
  [][snap' # snap => /\ snap'.flows = snap'.tlsFlows
                     /\ command = "show" => snap'.flows = Cardinality(Flows \ fresh)]_vars

\* An interrupt ends the command, however the sweeper, the deliveries and the
\* capture loop are placed: nobody waits for a lock that is never released.
InterruptEnds == signalled = "received" ~> phase = "exited"

\* "stopping distinguishes the read error caused by our own shutdown from a
\* genuine capture failure": a failure of the source itself is returned.
FailureReturned == phase = "exited" /\ failed => runErr

=============================================================================
