---------------------------- MODULE DarwinSource ----------------------------
(***************************************************************************)
(* internal/capture/live_darwin.go: OpenLive and darwinSource.  The        *)
(* goroutine that opened the source loops in Next, where one read of the   *)
(* BPF device returns several packets; Close closes the descriptor from    *)
(* the signal goroutine and, once the command returns, from its deferred   *)
(* call.                                                                   *)
(*                                                                         *)
(* The kernel is external: a read works on whatever the descriptor number  *)
(* names when the call is made, a blocked read returns within the read     *)
(* timeout or when the device is closed, and a number that was closed is   *)
(* given to the next file or socket the process opens.                     *)
(*                                                                         *)
(* A definition marked as a fault is not part of the specification: put in *)
(* place of the definition after it, it must break a property (README).    *)
(***************************************************************************)
EXTENDS Naturals

CONSTANTS MaxPackets,   \* bound: packets captured
          MaxBatch,     \* bound: packets that fit the read buffer
          DeviceCount   \* bpfDeviceCount

ASSUME DarwinAssumption ==
  MaxPackets \in Nat /\ MaxBatch \in Nat \ {0} /\ DeviceCount \in Nat \ {0}

Closers == {"signal", "deferred"}

VARIABLES
  reader,    \* where the capture goroutine is in OpenLive and Next
  tried,     \* openBPFDevice: devices that could not be opened
  closer,    \* per Close call: "idle", "close", "returned"
  closed,    \* darwinSource.closed
  fd,        \* what the descriptor number names: "none", "bpf", "free" or "other"
  pending,   \* packets left in the read buffer
  captured,  \* packets read from the kernel
  given,     \* packets returned by Next
  lost,      \* packets in the part of a buffer that was discarded
  strayed    \* history: a read was made on a descriptor of another owner

vars == <<reader, tried, closer, closed, fd, pending, captured, given, lost, strayed>>

Init ==
  /\ reader = "choose"
  /\ tried = 0
  /\ closer = [p \in Closers |-> "idle"]
  /\ closed = FALSE /\ fd = "none"
  /\ pending = 0 /\ captured = 0 /\ given = 0 /\ lost = 0
  /\ strayed = FALSE

\* An interface was named, or DefaultInterface finds one, or not.
Choose ==
  /\ reader = "choose"
  /\ reader' \in {"search", "refused"}
  /\ UNCHANGED <<tried, closer, closed, fd, pending, captured, given, lost, strayed>>

\* openBPFDevice claims a device ...
Claim ==
  /\ reader = "search"
  /\ fd' = "bpf"
  /\ reader' = "configure"
  /\ UNCHANGED <<tried, closer, closed, pending, captured, given, lost, strayed>>

\* ... or tries the next one, busy or absent, until there is none left ...
TryNext ==
  /\ reader = "search"
  /\ tried' = tried + 1
  /\ reader' = IF tried' < DeviceCount THEN "search" ELSE "refused"
  /\ UNCHANGED <<closer, closed, fd, pending, captured, given, lost, strayed>>

\* ... or stops at the first that may not be opened.
Denied ==
  /\ reader = "search"
  /\ reader' = "refused"
  /\ UNCHANGED <<tried, closer, closed, fd, pending, captured, given, lost, strayed>>

\* configure: every ioctl succeeds and the link type is decoded.
Configured ==
  /\ reader = "configure"
  /\ reader' = "check"
  /\ UNCHANGED <<tried, closer, closed, fd, pending, captured, given, lost, strayed>>

\* A fault: the descriptor is not closed.
NotConfiguredKeeping ==
  /\ reader = "configure"
  /\ reader' = "refused"
  /\ UNCHANGED <<tried, closer, closed, fd, pending, captured, given, lost, strayed>>

\* configure fails, and OpenLive closes the descriptor.
NotConfigured ==
  /\ reader = "configure"
  /\ fd' = "free"
  /\ reader' = "refused"
  /\ UNCHANGED <<tried, closer, closed, pending, captured, given, lost, strayed>>

\* A fault: the loop does not look at the flag.
ShutdownSeenNever == FALSE

\* Next notices Close.
ShutdownSeen == closed

\* Next: the top of the loop.
Check ==
  /\ reader = "check"
  /\ reader' = IF ShutdownSeen THEN "eof" ELSE IF pending > 0 THEN "split" ELSE "call"
  /\ UNCHANGED <<tried, closer, closed, fd, pending, captured, given, lost, strayed>>

\* A fault: the rest of the buffer is dropped with the first packet.
RestDropped == 0

\* What nextBPFPacket leaves of the buffer.
Rest == pending - 1

\* nextBPFPacket splits a packet off; Next returns it and run calls it again.
Split ==
  /\ reader = "split"
  /\ given' = given + 1
  /\ pending' = Rest
  /\ reader' = "check"
  /\ UNCHANGED <<tried, closer, closed, fd, captured, lost, strayed>>

\* nextBPFPacket finds a malformed or partial packet, which ends the buffer.
Malformed ==
  /\ reader = "split"
  /\ lost' = lost + pending
  /\ pending' = 0
  /\ reader' = "check"
  /\ UNCHANGED <<tried, closer, closed, fd, captured, given, strayed>>

\* unix.Read is called.  On a closed number it fails; a number that was reused
\* belongs to somebody else, whose data or error is taken for the device's.
Call ==
  /\ reader = "call"
  /\ reader' \in CASE fd = "bpf" -> {"read"}
                   [] fd = "free" -> {"judge"}
                   [] fd = "other" -> {"check", "judge"}
  /\ strayed' = (strayed \/ fd = "other")
  /\ UNCHANGED <<tried, closer, closed, fd, pending, captured, given, lost>>

\* The read returns packets ...
ReadPackets ==
  /\ reader = "read"
  /\ \E n \in 1..MaxBatch :
       /\ captured + n <= MaxPackets
       /\ captured' = captured + n
       /\ pending' = n
  /\ reader' = "check"
  /\ UNCHANGED <<tried, closer, closed, fd, given, lost, strayed>>

\* ... or nothing: the timeout, an interruption, or an error.
ReadNothing ==
  /\ reader = "read"
  /\ reader' \in {"check", "judge"}
  /\ UNCHANGED <<tried, closer, closed, fd, pending, captured, given, lost, strayed>>

\* A fault: an error is returned as it is.
JudgedError == "error"

\* An error after Close is the end of the capture.
Judged == IF closed THEN "eof" ELSE "error"

Judge ==
  /\ reader = "judge"
  /\ reader' = Judged
  /\ UNCHANGED <<tried, closer, closed, fd, pending, captured, given, lost, strayed>>

\* Where Close goes after it swapped the flag.
AfterSwap == IF closed THEN "returned" ELSE "close"

\* Where OpenLive has not returned a source.
Unopened == {"choose", "search", "configure", "refused"}

\* Close swaps the flag; only the first caller closes the descriptor.
Close(p) ==
  /\ closer[p] = "idle"
  /\ reader \notin Unopened
  /\ p = "deferred" => reader \in {"eof", "error"}
  /\ closed' = TRUE
  /\ closer' = [closer EXCEPT ![p] = AfterSwap]
  /\ UNCHANGED <<reader, tried, fd, pending, captured, given, lost, strayed>>

CloseFd(p) ==
  /\ closer[p] = "close"
  /\ fd' = "free"
  /\ closer' = [closer EXCEPT ![p] = "returned"]
  /\ UNCHANGED <<reader, tried, closed, pending, captured, given, lost, strayed>>

\* The process opens something else: serve accepts a connection.
Reuse ==
  /\ fd = "free"
  /\ fd' = "other"
  /\ UNCHANGED <<reader, tried, closer, closed, pending, captured, given, lost, strayed>>

\* The command has returned.
Finished ==
  /\ \/ reader \in {"eof", "error"} /\ closer["deferred"] = "returned"
     \/ reader = "refused"
  /\ UNCHANGED vars

Opens == Choose \/ Claim \/ TryNext \/ Denied \/ Configured \/ NotConfigured

Reads == Check \/ Split \/ Malformed \/ Call \/ ReadPackets \/ ReadNothing \/ Judge

Next == Opens \/ Reads \/ (\E p \in Closers : Close(p) \/ CloseFd(p)) \/ Reuse \/ Finished

Spec == Init /\ [][Next]_vars

\* The goroutines run, and a read returns within the read timeout.
LiveSpec == Spec /\ WF_vars(Opens \/ Reads) /\ \A p \in Closers : WF_vars(CloseFd(p))

(***************************************************************************)
(* Properties                                                              *)
(***************************************************************************)

\* The type of the source's state; a descriptor is closed once.
TypeOK ==
  /\ reader \in Unopened \cup {"check", "split", "call", "read", "judge", "eof", "error"}
  /\ closer \in [Closers -> {"idle", "close", "returned"}]
  /\ closed \in BOOLEAN /\ strayed \in BOOLEAN
  /\ fd \in {"none", "bpf", "free", "other"}
  /\ tried \in 0..DeviceCount
  /\ {pending, captured, given, lost} \subseteq Nat
  /\ \A p \in Closers : closer[p] = "close" => fd = "bpf"

\* One read returns many packets: each is returned by Next, or was behind a
\* malformed one, or is still in the buffer, and a buffer is never replaced
\* while it holds packets.
NoPacketForgotten == captured = given + lost + pending

\* Every way out of OpenLive and every Close: the descriptor stays open only
\* for a source in use or a Close on its way to close it, so that a device
\* others may want is not held by nobody.
DescriptorOwned ==
  fd = "bpf" => /\ reader # "refused"
                /\ closed => \E p \in Closers : closer[p] = "close"

Contract == INSTANCE Source WITH
              ended <- IF reader \in {"eof", "error"} THEN reader ELSE "no"

\* The BPF source is a Source: a close that races with the read ends it with
\* io.EOF, whichever way the read fails.
SourceKept == Contract!SourceSpec

\* "A read timeout is what makes shutdown responsive": after Close the capture
\* loop ends.
CloseEnds == closed ~> reader \in {"eof", "error"}

\* "Closing the fd under a blocked read would work too, and would race with
\* descriptor reuse": the source reads from no descriptor but its own.
ReadsOwnDevice == ~strayed

=============================================================================
