--------------------------- MODULE WindowsSource ---------------------------
(***************************************************************************)
(* internal/capture/live_windows.go: OpenLive and windowsSource.  The      *)
(* goroutine that opened the source loops in Next; Close is called by the  *)
(* signal goroutine and, once the command returns, by its deferred call.   *)
(*                                                                         *)
(* Npcap is external: pcap_next_ex yields a packet, a timeout, the end or  *)
(* an error, within the read timeout, and pcap_close frees the pcap_t and  *)
(* the buffer that a packet is copied from.                                *)
(*                                                                         *)
(* A definition marked as a fault is not part of the specification: put in *)
(* place of the definition after it, it must break a property (README).    *)
(***************************************************************************)
EXTENDS Device

CONSTANTS MaxPackets,   \* bound: packets captured
          Listings,     \* the listings of interfaces Npcap may give
          Wants         \* the interfaces a user may ask for, "" as <<>>

\* Npcap lists an interface once, under a path of its own.
ASSUME WindowsAssumption ==
  /\ MaxPackets \in Nat /\ <<>> \in Listings /\ <<>> \in Wants
  /\ \A devs \in Listings : /\ Len(devs) \in Nat /\ DOMAIN devs = 1..Len(devs)
                            /\ \A i, j \in DOMAIN devs : devs[i].path = devs[j].path => i = j

Closers == {"signal", "deferred"}
Nobody == "nobody"

VARIABLES
  reader,   \* where the capture goroutine is in OpenLive, Next and nextOnce
  asked,    \* resolveDevice: the listing, what was asked for, the device chosen
  closer,   \* per Close call: "idle", "lock", "free", "returned"
  closed,   \* windowsSource.closed
  mu,       \* holder of windowsSource.mu
  handle,   \* windowsSource.handle is not 0
  freed,    \* how often pcap_close was called
  given     \* packets returned by Next

vars == <<reader, asked, closer, closed, mu, handle, freed, given>>

Init ==
  /\ reader = "load"
  /\ asked = [devs |-> <<>>, want |-> <<>>, chosen |-> 0]
  /\ closer = [p \in Closers |-> "idle"]
  /\ closed = FALSE /\ mu = Nobody /\ handle = FALSE
  /\ freed = 0 /\ given = 0

\* loadWpcap: of the two places the first DLL that loads is taken, and it must
\* have every entry point.
Load ==
  /\ reader = "load"
  /\ \E dlls \in [1..2 -> {"absent", "broken", "lacking", "complete"}] :
       LET loads == FirstOf({i \in 1..2 : dlls[i] \in {"lacking", "complete"}})
       IN  reader' = IF loads # 0 /\ dlls[loads] = "complete" THEN "resolve" ELSE "refused"
  /\ UNCHANGED <<asked, closer, closed, mu, handle, freed, given>>

\* resolveDevice: listDevices may fail, and pickDevice may find none.
Resolve ==
  /\ reader = "resolve"
  /\ \/ \E devs \in Listings, want \in Wants :
            asked' = [devs |-> devs, want |-> want, chosen |-> PickDevice(devs, want)]
     \/ UNCHANGED asked
  /\ reader' = IF asked'.chosen = 0 THEN "refused" ELSE "open"
  /\ UNCHANGED <<closer, closed, mu, handle, freed, given>>

\* pcap_open_live gives a handle or 0.
OpenDevice ==
  /\ reader = "open"
  /\ handle' \in BOOLEAN
  /\ reader' = IF handle' THEN "configure" ELSE "refused"
  /\ UNCHANGED <<asked, closer, closed, mu, freed, given>>

\* A link type that is decoded, and the filter is installed.
Configured ==
  /\ reader = "configure"
  /\ reader' = "check"
  /\ UNCHANGED <<asked, closer, closed, mu, handle, freed, given>>

\* A fault: the handle is not closed.
NotConfiguredKeeping ==
  /\ reader = "configure"
  /\ reader' = "refused"
  /\ UNCHANGED <<asked, closer, closed, mu, handle, freed, given>>

\* OpenLive gives up and calls Close, while nobody else has the source.
NotConfigured ==
  /\ reader = "configure"
  /\ reader' = "refused"
  /\ closed' = TRUE /\ handle' = FALSE /\ freed' = freed + 1
  /\ UNCHANGED <<asked, closer, mu, given>>

\* Next, and run behind it: the top of the loop.
Check ==
  /\ reader = "check"
  /\ reader' = IF closed THEN "eof" ELSE "lock"
  /\ UNCHANGED <<asked, closer, closed, mu, handle, freed, given>>

\* A fault: nextOnce does not look at the handle.
NextOnceUnchecked ==
  /\ reader = "lock" /\ mu = Nobody
  /\ reader' = "driver"
  /\ mu' = "reader"
  /\ UNCHANGED <<asked, closer, closed, handle, freed, given>>

\* nextOnce locks; without a handle it is done, else it calls pcap_next_ex.
NextOnce ==
  /\ reader = "lock" /\ mu = Nobody
  /\ reader' = IF handle THEN "driver" ELSE "eof"
  /\ mu' = IF handle THEN "reader" ELSE Nobody
  /\ UNCHANGED <<asked, closer, closed, handle, freed, given>>

\* pcap_next_ex returns a packet in the driver's buffer ...
GotPacket ==
  /\ reader = "driver" /\ given < MaxPackets
  /\ reader' = "copy"
  /\ UNCHANGED <<asked, closer, closed, mu, handle, freed, given>>

\* ... which is copied before the lock is released.  Next returns it, and run
\* calls Next again.
Copied ==
  /\ reader = "copy"
  /\ reader' = "check"
  /\ mu' = Nobody
  /\ given' = given + 1
  /\ UNCHANGED <<asked, closer, closed, handle, freed>>

\* pcap_next_ex returns without a packet: a timeout, the end, or an error (a
\* packet longer than the snaplen too).
NoPacket ==
  /\ reader = "driver"
  /\ reader' \in {"check", "eof", "judge"}
  /\ mu' = Nobody
  /\ UNCHANGED <<asked, closer, closed, handle, freed, given>>

\* A fault: an error is returned as it is.
JudgedError == "error"

\* Next tells its own shutdown from a driver error.
Judged == IF closed THEN "eof" ELSE "error"

Judge ==
  /\ reader = "judge"
  /\ reader' = Judged
  /\ UNCHANGED <<asked, closer, closed, mu, handle, freed, given>>

\* Where OpenLive has not returned a source.
Unopened == {"load", "resolve", "open", "configure", "refused"}

\* Close is for a source that was opened; the deferred one comes after run has
\* returned.
MayClose(p) ==
  /\ closer[p] = "idle"
  /\ reader \notin Unopened
  /\ p = "deferred" => reader \in {"eof", "error"}

\* A fault: closed is not set before the lock is taken.
CloseUnannounced(p) ==
  /\ MayClose(p)
  /\ closer' = [closer EXCEPT ![p] = IF closed THEN "returned" ELSE "lock"]
  /\ UNCHANGED <<reader, asked, closed, mu, handle, freed, given>>

\* Close swaps the flag; only the first caller goes on.
Close(p) ==
  /\ MayClose(p)
  /\ closed' = TRUE
  /\ closer' = [closer EXCEPT ![p] = IF closed THEN "returned" ELSE "lock"]
  /\ UNCHANGED <<reader, asked, mu, handle, freed, given>>

CloseLocks(p) ==
  /\ closer[p] = "lock" /\ mu = Nobody
  /\ mu' = p
  /\ closer' = [closer EXCEPT ![p] = "free"]
  /\ UNCHANGED <<reader, asked, closed, handle, freed, given>>

\* pcap_close, with the lock held.
CloseFrees(p) ==
  /\ closer[p] = "free"
  /\ freed' = IF handle THEN freed + 1 ELSE freed
  /\ handle' = FALSE
  /\ mu' = Nobody
  /\ closer' = [closer EXCEPT ![p] = "returned"]
  /\ UNCHANGED <<reader, asked, closed, given>>

\* The command has returned.
Finished ==
  /\ \/ reader \in {"eof", "error"} /\ closer["deferred"] = "returned"
     \/ reader = "refused"
  /\ UNCHANGED vars

Opens == Load \/ Resolve \/ OpenDevice \/ Configured \/ NotConfigured

Reads == Check \/ NextOnce \/ GotPacket \/ Copied \/ NoPacket \/ Judge

Closes(p) == Close(p) \/ CloseLocks(p) \/ CloseFrees(p)

Next == Opens \/ Reads \/ (\E p \in Closers : Closes(p)) \/ Finished

Spec == Init /\ [][Next]_vars

\* Both goroutines run, and pcap_next_ex returns within the read timeout.
LiveSpec ==
  /\ Spec
  /\ WF_vars(Opens \/ Reads)
  /\ \A p \in Closers : WF_vars(CloseLocks(p) \/ CloseFrees(p))

(***************************************************************************)
(* Properties                                                              *)
(***************************************************************************)

\* The type of the source's state; the lock is held exactly by whoever is
\* inside libpcap.
TypeOK ==
  /\ reader \in Unopened \cup {"check", "lock", "driver", "copy", "judge", "eof", "error"}
  /\ asked.devs \in Listings /\ asked.want \in Wants
  /\ closer \in [Closers -> {"idle", "lock", "free", "returned"}]
  /\ closed \in BOOLEAN /\ handle \in BOOLEAN
  /\ mu \in Closers \cup {"reader", Nobody}
  /\ freed \in Nat /\ given \in Nat
  /\ reader \in {"driver", "copy"} <=> mu = "reader"
  /\ \A p \in Closers : closer[p] = "free" <=> mu = p

\* "An unsynchronised close is a use-after-free": the pcap_t and its buffer
\* are in use only before pcap_close, which is called at most once, whatever
\* the two Close calls and the read do.
NoUseAfterFree ==
  /\ reader \in {"driver", "copy"} => freed = 0
  /\ freed <= 1

\* Every way out of OpenLive and every Close: a handle that pcap_open_live gave
\* is still there only for a source in use or a Close on its way to free it.
HandleOwned ==
  handle => /\ reader # "refused"
            /\ closed => \E p \in Closers : closer[p] \in {"lock", "free"}

\* How closely an interface answers to what was asked for: by its path, its
\* name, a part of its name, a part of its path, or not at all.
Closeness(dev, want) ==
  LET ways == <<dev.path = want, Lower(Name(dev)) = Lower(want),
                Holds(Lower(Name(dev)), Lower(want)), Holds(Lower(dev.path), Lower(want)), TRUE>>
  IN  Min({w \in DOMAIN ways : ways[w]})

NoMatch == 5

\* "First-wins captures on the wrong one and looks like it worked": an
\* interface that was asked for by name is the one that answers to the name
\* more closely than every other, and the request is refused exactly when none
\* does.
NamedDeviceIntended ==
  LET devs == asked.devs
      close == [i \in DOMAIN devs |-> Closeness(devs[i], asked.want)]
      best == {i \in DOMAIN devs : \A j \in DOMAIN devs \ {i} : close[i] < close[j]}
  IN  asked.want # <<>> =>
        IF asked.chosen = 0 THEN \A i \in best : close[i] = NoMatch
        ELSE asked.chosen \in best /\ close[asked.chosen] # NoMatch

\* The default is an interface that carries traffic, one that is up if there
\* is one, and never loopback; without one OpenLive fails and does not capture
\* where nothing passes.
DefaultDeviceUseful ==
  LET devs == asked.devs
      carries == {i \in DOMAIN devs : ~devs[i].loopback /\ HasRoutableAddress(devs[i].addrs)}
  IN  asked.want = <<>> =>
        IF asked.chosen = 0 THEN reader = "refused" => carries = {}
        ELSE /\ asked.chosen \in carries
             /\ \A i \in carries : devs[i].up => devs[asked.chosen].up

\* The device OpenLive opens is one the user meant.
DeviceIntended == NamedDeviceIntended /\ DefaultDeviceUseful

Contract == INSTANCE Source WITH
              ended <- IF reader \in {"eof", "error"} THEN reader ELSE "no"

\* The Npcap source is a Source: a close that races with the read ends it with
\* io.EOF and never as a driver error.
SourceKept == Contract!SourceSpec

\* "Holding the lock across the call delays Close by at most one read timeout":
\* Close returns and the capture loop ends, although the loop takes the lock
\* again and again.
CloseEnds ==
  /\ \A p \in Closers : closer[p] = "lock" ~> closer[p] = "returned"
  /\ closed ~> reader \in {"eof", "error", "refused"}

=============================================================================
