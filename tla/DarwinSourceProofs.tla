------------------------- MODULE DarwinSourceProofs -------------------------
(***************************************************************************)
(* Proofs about DarwinSource, for any number of packets and any buffer.    *)
(***************************************************************************)
EXTENDS DarwinSource, TLAPS

(***************************************************************************)
(* The parts of the inductive invariant.  NoPacketForgotten needs where in *)
(* Next the buffer is empty; that the descriptor is closed once needs what *)
(* the swap of the flag gives: before it nobody closes, after it one does. *)
(* DescriptorOwned needs that nobody closes before OpenLive has returned.  *)
(***************************************************************************)
BufferInv ==
  /\ NoPacketForgotten
  /\ reader = "split" => pending > 0
  /\ reader \in {"call", "read"} => pending = 0

CloserInv ==
  /\ ~closed => \A p \in Closers : closer[p] # "close"
  /\ \A p, q \in Closers : closer[p] = "close" /\ closer[q] = "close" => p = q

OpenInv ==
  /\ reader \in Unopened => ~closed
  /\ reader \in {"choose", "search"} => fd = "none"
  /\ fd = "none" => reader \in {"choose", "search", "refused"}
  /\ reader \in {"choose", "search"} => tried < DeviceCount
  /\ ~closed /\ reader \notin {"choose", "search", "refused"} => fd = "bpf"
  /\ reader \in Unopened => pending = 0
  /\ DescriptorOwned

IInv == TypeOK /\ BufferInv /\ CloserInv /\ OpenInv

\* The invariant holds before OpenLive.
LEMMA InitIInv == Init => IInv
  <1> SUFFICES ASSUME Init PROVE IInv
      OBVIOUS
  <1>1. TypeOK
    <2>1. closer \in [Closers -> {"idle", "close", "returned"}]
      BY DEF Init
    <2>2. \A p \in Closers : closer[p] = "close" => fd = "bpf"
      BY DEF Init
    <2>3. closed \in BOOLEAN /\ strayed \in BOOLEAN
      BY DEF Init
    <2>4. tried \in 0..DeviceCount
      BY DarwinAssumption DEF Init, DarwinAssumption
    <2> QED BY <2>1, <2>2, <2>3, <2>4 DEF Init, TypeOK, Unopened
  <1>2. BufferInv
    BY DEF Init, BufferInv, NoPacketForgotten
  <1>3. CloserInv
    BY DEF Init, CloserInv, Closers
  <1>4. OpenInv
    BY DarwinAssumption DEF Init, OpenInv, DescriptorOwned, Unopened, DarwinAssumption
  <1> QED BY <1>1, <1>2, <1>3, <1>4 DEF IInv

\* No step of OpenLive breaks it: nobody else has the source yet.
LEMMA OpensIInv == IInv /\ Opens => IInv'
  <1> SUFFICES ASSUME IInv, Opens PROVE IInv'
      OBVIOUS
  <1> USE DEF IInv
  <1>1. UNCHANGED <<closer, closed, pending, captured, given, lost, strayed>>
    BY DEF Opens, Choose, Claim, TryNext, Denied, Configured, NotConfigured
  <1>2. reader \in Unopened /\ reader' \in Unopened \cup {"check"}
    BY DEF Opens, Choose, Claim, TryNext, Denied, Configured, NotConfigured, Unopened
  <1>3. ~closed /\ pending = 0 /\ \A p \in Closers : closer[p] # "close"
    BY <1>2 DEF OpenInv, CloserInv
  <1>4. CloserInv'
    BY <1>1 DEF CloserInv
  <1>5. BufferInv'
    BY <1>1, <1>2, <1>3 DEF BufferInv, NoPacketForgotten, Unopened
  <1>6. fd' \in {"none", "bpf", "free", "other"}
    BY DEF Opens, Choose, Claim, TryNext, Denied, Configured, NotConfigured, TypeOK
  <1>7. tried' \in 0..DeviceCount
    <2>1. CASE TryNext
      BY <2>1, DarwinAssumption, SMT DEF TryNext, OpenInv, TypeOK, DarwinAssumption
    <2>2. CASE ~TryNext
      BY <2>2 DEF Opens, Choose, Claim, Denied, Configured, NotConfigured, TypeOK
    <2> QED BY <2>1, <2>2
  <1>8. TypeOK'
    BY <1>1, <1>2, <1>3, <1>6, <1>7 DEF TypeOK
  <1>9. OpenInv'
    <2> USE DEF OpenInv, DescriptorOwned, Unopened
    <2>1. CASE Choose
      BY <1>1, <1>3, <2>1 DEF Choose
    <2>2. CASE Claim
      BY <1>1, <1>3, <2>2 DEF Claim
    <2>3. CASE TryNext
      BY <1>1, <1>3, <2>3 DEF TryNext
    <2>4. CASE Denied
      BY <1>1, <1>3, <2>4 DEF Denied
    <2>5. CASE Configured
      BY <1>1, <1>3, <2>5 DEF Configured
    <2>6. CASE NotConfigured
      BY <1>1, <1>3, <2>6 DEF NotConfigured
    <2> QED BY <2>1, <2>2, <2>3, <2>4, <2>5, <2>6 DEF Opens
  <1> QED BY <1>4, <1>5, <1>8, <1>9

\* A step of the capture goroutine leaves the closers and the descriptor alone.
LEMMA ReadsIInv == IInv /\ Reads => IInv'
  <1> SUFFICES ASSUME IInv, Reads PROVE IInv'
      OBVIOUS
  <1> USE DEF IInv
  <1>1. closer' = closer /\ closed' = closed /\ fd' = fd /\ tried' = tried
    BY DEF Reads, Check, Split, Malformed, Call, ReadPackets, ReadNothing, Judge
  <1>2. CloserInv'
    BY <1>1 DEF CloserInv
  <1>3. pending \in Nat /\ captured \in Nat /\ given \in Nat /\ lost \in Nat
    BY DEF TypeOK
  <1>4. /\ pending' \in Nat /\ captured' \in Nat /\ given' \in Nat /\ lost' \in Nat
        /\ BufferInv'
    <2> USE DEF BufferInv, NoPacketForgotten
    <2>1. CASE Check
      BY <1>3, <2>1, SMT DEF Check, ShutdownSeen
    <2>2. CASE Split
      BY <1>3, <2>2, SMT DEF Split, Rest
    <2>3. CASE Malformed
      BY <1>3, <2>3, SMT DEF Malformed
    <2>4. CASE Call
      <3>1. reader' \in {"read", "judge", "check"}
        BY <2>4 DEF Call, TypeOK, OpenInv
      <3>2. pending' = pending /\ captured' = captured /\ given' = given /\ lost' = lost /\ pending = 0
        BY <2>4 DEF Call
      <3> QED BY <1>3, <3>1, <3>2
    <2>5. CASE ReadPackets
      BY <1>3, <2>5, DarwinAssumption, SMT DEF ReadPackets, DarwinAssumption
    <2>6. CASE ReadNothing
      BY <1>3, <2>6, SMT DEF ReadNothing
    <2>7. CASE Judge
      BY <1>3, <2>7, SMT DEF Judge, Judged
    <2> QED BY <2>1, <2>2, <2>3, <2>4, <2>5, <2>6, <2>7 DEF Reads
  <1>5. reader' \in {"check", "split", "call", "read", "judge", "eof", "error"}
    BY DEF TypeOK, OpenInv, Reads, Check, ShutdownSeen, Split, Malformed, Call, ReadPackets,
           ReadNothing, Judge, Judged
  <1>6. strayed' \in BOOLEAN
    BY DEF TypeOK, Reads, Check, Split, Malformed, Call, ReadPackets, ReadNothing, Judge
  <1>7. TypeOK'
    BY <1>1, <1>4, <1>5, <1>6 DEF TypeOK
  <1>8. reader \notin Unopened /\ reader' \notin Unopened
    BY <1>5 DEF Unopened, Reads, Check, Split, Malformed, Call, ReadPackets, ReadNothing, Judge
  <1>9. OpenInv'
    BY <1>1, <1>8 DEF OpenInv, DescriptorOwned, Unopened
  <1> QED BY <1>2, <1>4, <1>7, <1>9

\* Nor does any other step break it.
LEMMA NextIInv == IInv /\ [Next]_vars => IInv'
  <1> SUFFICES ASSUME IInv, [Next]_vars PROVE IInv'
      OBVIOUS
  <1> USE DEF IInv
  <1>1. CASE Reads
    BY <1>1, ReadsIInv
  <1>2. ASSUME NEW p \in Closers, Close(p) PROVE IInv'
    <2> USE DEF Close, AfterSwap
    <2>1. BufferInv'
      BY <1>2 DEF BufferInv, NoPacketForgotten
    <2>2. closer' = [closer EXCEPT ![p] = IF closed THEN "returned" ELSE "close"]
      BY <1>2
    <2>3. closer' \in [Closers -> {"idle", "close", "returned"}]
      BY <2>2 DEF TypeOK
    <2>4. \A q \in Closers : closer'[q] = "close" => fd' = "bpf"
      BY <1>2, <2>2 DEF TypeOK, CloserInv, OpenInv, Unopened
    <2>5. CloserInv'
      BY <1>2, <2>2 DEF TypeOK, CloserInv
    <2>6. TypeOK'
      BY <1>2, <2>3, <2>4 DEF TypeOK
    <2>7. fd = "bpf" => \E q \in Closers : closer'[q] = "close"
      BY <1>2, <2>2 DEF TypeOK, OpenInv, DescriptorOwned
    <2>8. OpenInv'
      BY <1>2, <2>7 DEF OpenInv, DescriptorOwned, Unopened
    <2> QED BY <2>1, <2>5, <2>6, <2>8
  <1>3. ASSUME NEW p \in Closers, CloseFd(p) PROVE IInv'
    <2> USE DEF CloseFd
    <2>1. BufferInv'
      BY <1>3 DEF BufferInv, NoPacketForgotten
    <2>2. closer' \in [Closers -> {"idle", "close", "returned"}]
      BY <1>3 DEF TypeOK
    <2>3. \A q \in Closers : closer'[q] # "close"
      BY <1>3 DEF TypeOK, CloserInv
    <2>4. closed' = closed /\ closed
      BY <1>3 DEF CloserInv
    <2>5. CloserInv'
      BY <2>3, <2>4 DEF CloserInv
    <2>6. TypeOK'
      BY <1>3, <2>2, <2>3 DEF TypeOK
    <2>7. OpenInv'
      BY <1>3, <2>4 DEF OpenInv, DescriptorOwned, Unopened
    <2> QED BY <2>1, <2>5, <2>6, <2>7
  <1>4. CASE Reuse
    <2>1. BufferInv'
      BY <1>4 DEF Reuse, BufferInv, NoPacketForgotten
    <2>2. \A q \in Closers : closer[q] # "close"
      BY <1>4 DEF Reuse, TypeOK
    <2>3. TypeOK' /\ CloserInv'
      BY <1>4, <2>2 DEF Reuse, TypeOK, CloserInv
    <2>4. OpenInv'
      BY <1>4 DEF Reuse, OpenInv, DescriptorOwned, Unopened
    <2> QED BY <2>1, <2>3, <2>4
  <1>5. CASE UNCHANGED vars
    BY <1>5 DEF vars, TypeOK, BufferInv, NoPacketForgotten, CloserInv, OpenInv, DescriptorOwned
  <1> HIDE DEF IInv
  <1>6. CASE Opens
    BY <1>6, OpensIInv
  <1> QED BY <1>1, <1>2, <1>3, <1>4, <1>5, <1>6 DEF Next, Finished

\* The invariant holds throughout.
LEMMA IInvHolds == Spec => []IInv
  BY InitIInv, NextIInv, PTL DEF Spec

\* darwinSource keeps its type, and of the two Close calls one closes the
\* descriptor, which is then still its own.
THEOREM TypeCorrect == Spec => []TypeOK
  <1>1. IInv => TypeOK
    BY DEF IInv
  <1> QED BY <1>1, IInvHolds, PTL

\* Next hands out every packet of every buffer, whatever its size, up to a
\* malformed one.
THEOREM EveryPacketHandedOut == Spec => []NoPacketForgotten
  <1>1. IInv => NoPacketForgotten
    BY DEF IInv, BufferInv
  <1> QED BY <1>1, IInvHolds, PTL

\* No way out of OpenLive and no order of the Close calls leaves a BPF device
\* open that nobody will close.
THEOREM DescriptorAlwaysOwned == Spec => []DescriptorOwned
  <1>1. IInv => DescriptorOwned
    BY DEF IInv, OpenInv
  <1> QED BY <1>1, IInvHolds, PTL

\* darwinSource implements Source, although the descriptor may be closed under
\* the read and even be reused: what the consumer sees is packets, then EOF.
THEOREM ImplementsSource == Spec => SourceKept
  <1>1. Init => Contract!SourceInit
    BY DEF Init, Contract!SourceInit
  <1>2. IInv /\ [Next]_vars => [Contract!SourceNext]_(Contract!sourceVars)
    <2> SUFFICES ASSUME IInv, [Next]_vars
                 PROVE  [Contract!SourceNext]_(Contract!sourceVars)
        OBVIOUS
    <2> USE DEF Contract!SourceNext, Contract!sourceVars, Contract!Give,
                Contract!Shut, Contract!Exhaust, Contract!Fail
    <2>1. CASE Check
      BY <2>1, SMT DEF Check
    <2>2. CASE Split
      BY <2>2, SMT DEF Split
    <2>3. CASE Malformed \/ Call \/ ReadPackets \/ ReadNothing \/ Reuse
      <3>1. CASE Call
        BY <3>1 DEF Call, IInv, TypeOK, OpenInv
      <3>2. CASE Malformed \/ ReadPackets \/ ReadNothing \/ Reuse
        BY <3>2, SMT DEF Malformed, ReadPackets, ReadNothing, Reuse
      <3> QED BY <2>3, <3>1, <3>2
    <2>4. CASE Judge
      BY <2>4, SMT DEF Judge, Judged
    <2>5. ASSUME NEW p \in Closers, Close(p) PROVE [Contract!SourceNext]_(Contract!sourceVars)
      <3>1. reader' = reader /\ given' = given /\ closed' = TRUE
        BY <2>5 DEF Close
      <3>2. closed \in BOOLEAN
        BY DEF IInv, TypeOK
      <3>3. CASE closed
        BY <3>1, <3>2, <3>3
      <3>4. CASE ~closed
        BY <3>1, <3>4
      <3> QED BY <3>3, <3>4
    <2>6. ASSUME NEW p \in Closers, CloseFd(p) PROVE [Contract!SourceNext]_(Contract!sourceVars)
      BY <2>6, SMT DEF CloseFd
    <2>7. CASE UNCHANGED vars
      BY <2>7, SMT DEF vars
    <2>8. CASE Opens
      <3>1. /\ reader \notin {"eof", "error"} /\ reader' \notin {"eof", "error"}
            /\ given' = given /\ closed' = closed
        BY <2>8 DEF Opens, Choose, Claim, TryNext, Denied, Configured, NotConfigured
      <3> QED BY <3>1
    <2> QED BY <2>1, <2>2, <2>3, <2>4, <2>5, <2>6, <2>7, <2>8, Zenon DEF Next, Reads, Finished
  <1> QED BY <1>1, <1>2, IInvHolds, PTL DEF Spec, SourceKept, Contract!SourceSpec

=============================================================================
