-------------------------- MODULE AssemblerProofs ---------------------------
EXTENDS Assembler, FiniteSetTheorems, SequenceTheorems, TLAPS

(***************************************************************************)
(* The inductive invariant, as a predicate on an assembler value a, so that*)
(* it can be carried through the functions an entry point calls.           *)
(***************************************************************************)
Fields == {"tcp", "quic", "lastFlush", "stats", "reports"}
QUICFields == {"origDCID", "crypto", "haveCH", "haveSH", "emitted", "flow"}

AsmOK(a) ==
  /\ DOMAIN a = Fields
  /\ DOMAIN a.tcp \subseteq Conns
  /\ \A c \in DOMAIN a.tcp : a.tcp[c] \in Stream
  /\ DOMAIN a.quic \subseteq Tuples
  /\ \A q \in DOMAIN a.quic : DOMAIN a.quic[q] = QUICFields /\ QUICFlowOK(a.quic[q])
  /\ a.stats \in Stats
  /\ a.lastFlush \in Nat
  /\ a.reports \in [Conns \cup Tuples -> Seq(Flow)]

StreamCoherent(s, reps) ==
  /\ s.emitted => s.haveCH
  /\ s.rejected => ~s.haveCH
  /\ s.emitted <=> reps # <<>>
  /\ s.counted \/ s.rejected
  /\ \A i \in Dirs : Len(s.buf[i]) <= MaxPrefix

Coherent(a) ==
  /\ \A c \in DOMAIN a.tcp : StreamCoherent(a.tcp[c], a.reports[c])
  /\ \A q \in DOMAIN a.quic : /\ a.quic[q].emitted => a.quic[q].haveCH
                              /\ a.quic[q].emitted <=> a.reports[q] # <<>>
  /\ \A x \in Conns \cup Tuples : Len(a.reports[x]) <= 1

Counted(a) == {c \in DOMAIN a.tcp : a.tcp[c].counted}
Open(a) == {c \in DOMAIN a.tcp : ~a.tcp[c].emitted /\ ~a.tcp[c].rejected}
OpenQUIC(a) == {q \in DOMAIN a.quic : ~a.quic[q].emitted}

Balanced(a) == a.stats.live = Cardinality(Counted(a)) + Cardinality(DOMAIN a.quic)
Capped(a) == Cardinality(Counted(a)) <= MaxStreams /\ Cardinality(DOMAIN a.quic) <= MaxStreams
Decided(a) == a.stats.tlsFlows + a.stats.rejectedTCP
Pending(a) == Cardinality(Open(a)) + Cardinality(OpenQUIC(a))
Partitioned(a) == Decided(a) + Pending(a) <= a.stats.streams

IInv(a) == AsmOK(a) /\ Coherent(a) /\ Balanced(a) /\ Capped(a) /\ Partitioned(a)

\* The tables and the sets counted over them are finite, their sizes numbers.
LEMMA FiniteParts ==
  ASSUME NEW a, AsmOK(a)
  PROVE  /\ IsFiniteSet(DOMAIN a.tcp) /\ IsFiniteSet(DOMAIN a.quic)
         /\ IsFiniteSet(Counted(a)) /\ IsFiniteSet(Open(a)) /\ IsFiniteSet(OpenQUIC(a))
         /\ Cardinality(DOMAIN a.quic) \in Nat
         /\ Cardinality(Counted(a)) \in Nat
         /\ Cardinality(Open(a)) \in Nat
         /\ Cardinality(OpenQUIC(a)) \in Nat
<1>1. IsFiniteSet(DOMAIN a.tcp) /\ IsFiniteSet(DOMAIN a.quic)
  BY FS_Subset, AssemblerAssumption DEF AsmOK
<1>2. Counted(a) \subseteq DOMAIN a.tcp /\ Open(a) \subseteq DOMAIN a.tcp
        /\ OpenQUIC(a) \subseteq DOMAIN a.quic
  BY DEF Counted, Open, OpenQUIC
<1>3. IsFiniteSet(Counted(a)) /\ IsFiniteSet(Open(a)) /\ IsFiniteSet(OpenQUIC(a))
  BY <1>1, <1>2, FS_Subset
<1> QED BY <1>1, <1>3, FS_CardinalityType

(***************************************************************************)
(* A step that rewrites one TCP stream preserves the invariant when the    *)
(* counters follow the stream's own flags.                                 *)
(***************************************************************************)
Undecided(s) == IF ~s.emitted /\ ~s.rejected THEN 1 ELSE 0

\* Two sets that differ at most in x differ in size by x's membership.
LEMMA OneChanged ==
  ASSUME NEW S, NEW T, NEW x, IsFiniteSet(S), S \ {x} = T \ {x}
  PROVE  /\ IsFiniteSet(T)
         /\ Cardinality(T) = Cardinality(S) - (IF x \in S THEN 1 ELSE 0)
                                            + (IF x \in T THEN 1 ELSE 0)
<1> DEFINE R == S \ {x}
<1>1. IsFiniteSet(R) /\ Cardinality(R) = Cardinality(S) - (IF x \in S THEN 1 ELSE 0)
  <2>1. Cardinality(S) \in Nat
    BY FS_CardinalityType
  <2> QED BY <2>1, FS_RemoveElement
<1>3. IsFiniteSet(R \cup {x}) /\ Cardinality(R \cup {x}) = Cardinality(R) + 1
  <2>1. x \notin R
    OBVIOUS
  <2> QED BY <1>1, <2>1, FS_AddElement
<1>4. Cardinality(S) \in Nat /\ Cardinality(R) \in Nat
  BY <1>1, FS_CardinalityType
<1>5. CASE x \in T
  <2>1. T = R \cup {x}
    BY <1>5
  <2>2. IsFiniteSet(T) /\ Cardinality(T) = Cardinality(R) + 1
    BY <2>1, <1>3
  <2> HIDE DEF R
  <2> QED BY <1>1, <1>4, <1>5, <2>2
<1>6. CASE x \notin T
  <2>1. T = R
    BY <1>6
  <2>2. IsFiniteSet(T) /\ Cardinality(T) = Cardinality(R)
    BY <2>1, <1>1
  <2> HIDE DEF R
  <2> QED BY <1>1, <1>4, <1>6, <2>2
<1> QED BY <1>5, <1>6

\* The size of a disjoint union of finite sets is the sum of the sizes.
LEMMA DisjointUnion ==
  ASSUME NEW S, NEW T, IsFiniteSet(S), IsFiniteSet(T), S \cap T = {}
  PROVE  /\ IsFiniteSet(S \cup T)
         /\ Cardinality(S \cup T) \in Nat /\ Cardinality(S) \in Nat /\ Cardinality(T) \in Nat
         /\ Cardinality(S \cup T) = Cardinality(S) + Cardinality(T)
         /\ Cardinality(S) = Cardinality(S \cup T) - Cardinality(T)
<1>1. Cardinality(S) \in Nat /\ Cardinality(T) \in Nat /\ Cardinality({}) = 0
  BY FS_CardinalityType, FS_EmptySet
<1>2. Cardinality(S \cup T) = Cardinality(S) + Cardinality(T) - Cardinality({})
      /\ IsFiniteSet(S \cup T)
  BY FS_Union
<1> QED BY ONLY <1>1, <1>2

\* Two disjoint parts of a finite set together are no larger than it.
LEMMA DisjointParts ==
  ASSUME NEW R, NEW S, NEW T, IsFiniteSet(R), S \subseteq R, T \subseteq R \ S
  PROVE  Cardinality(S) + Cardinality(T) <= Cardinality(R)
<1>1. IsFiniteSet(S) /\ IsFiniteSet(T)
  BY FS_Subset
<1>2. S \cap T = {}
  OBVIOUS
<1>3. Cardinality(S \cup T) = Cardinality(S) + Cardinality(T)
  BY <1>1, <1>2, DisjointUnion
<1>4. Cardinality(S \cup T) <= Cardinality(R)
  <2>1. S \cup T \in SUBSET R
    OBVIOUS
  <2> QED BY <2>1, FS_Subset
<1> QED BY <1>3, <1>4

\* A step that rewrites one TCP stream keeps the invariant when the report and
\* the counters follow the stream's own flags.
LEMMA TCPStep ==
  ASSUME NEW a, IInv(a), NEW c \in DOMAIN a.tcp, NEW s \in Stream, NEW b,
         DOMAIN b = Fields,
         b.tcp = [a.tcp EXCEPT ![c] = s],
         b.quic = a.quic, b.lastFlush = a.lastFlush,
         b.stats \in Stats, b.stats.live = a.stats.live, b.stats.streams = a.stats.streams,
         b.reports \in [Conns \cup Tuples -> Seq(Flow)],
         \A x \in (Conns \cup Tuples) \ {c} : b.reports[x] = a.reports[x],
         Len(b.reports[c]) <= 1,
         StreamCoherent(s, b.reports[c]),
         s.counted = a.tcp[c].counted,
         Decided(b) + Undecided(s) = Decided(a) + Undecided(a.tcp[c])
  PROVE  IInv(b)
<1>1. /\ AsmOK(a) /\ Coherent(a) /\ Balanced(a) /\ Capped(a) /\ Partitioned(a)
      /\ c \in Conns /\ c \notin Tuples
  BY AssemblerAssumption DEF IInv, AsmOK
<1>2. /\ DOMAIN b.tcp = DOMAIN a.tcp
      /\ b.tcp[c] = s
      /\ \A x \in DOMAIN a.tcp : x # c => b.tcp[x] = a.tcp[x]
  OBVIOUS
<1>3. AsmOK(b)
  BY <1>1, <1>2 DEF AsmOK
<1>4. Coherent(b)
  <2>1. \A x \in DOMAIN b.tcp : StreamCoherent(b.tcp[x], b.reports[x])
    BY <1>1, <1>2 DEF Coherent, AsmOK
  <2>2. \A q \in DOMAIN b.quic : /\ b.quic[q].emitted => b.quic[q].haveCH
                                 /\ b.quic[q].emitted <=> b.reports[q] # <<>>
    BY <1>1 DEF Coherent, AsmOK
  <2>3. \A x \in Conns \cup Tuples : Len(b.reports[x]) <= 1
    BY <1>1 DEF Coherent
  <2> QED BY <2>1, <2>2, <2>3 DEF Coherent
<1>5. Counted(b) = Counted(a) /\ OpenQUIC(b) = OpenQUIC(a)
  BY <1>2 DEF Counted, OpenQUIC
<1>6. Balanced(b) /\ Capped(b)
  BY <1>1, <1>5 DEF Balanced, Capped
<1>7. Partitioned(b)
  <2>1. Open(a) \ {c} = Open(b) \ {c}
    BY <1>2 DEF Open
  <2>2. Cardinality(Open(b)) = Cardinality(Open(a)) - (IF c \in Open(a) THEN 1 ELSE 0)
                                                    + (IF c \in Open(b) THEN 1 ELSE 0)
    BY <2>1, <1>1, FiniteParts, OneChanged
  <2>3. /\ (IF c \in Open(a) THEN 1 ELSE 0) = Undecided(a.tcp[c])
        /\ (IF c \in Open(b) THEN 1 ELSE 0) = Undecided(s)
    BY <1>2 DEF Open, Undecided
  <2>4. /\ Cardinality(Open(a)) \in Nat /\ Cardinality(OpenQUIC(a)) \in Nat
        /\ Cardinality(Open(b)) \in Nat
        /\ Undecided(s) \in Nat /\ Undecided(a.tcp[c]) \in Nat
    BY <1>1, <1>3, FiniteParts DEF Undecided
  <2>5. Decided(a) \in Nat /\ Decided(b) \in Nat /\ a.stats.streams \in Nat
    <3>1. a.stats \in Stats /\ b.stats \in Stats
      BY <1>1, <1>3 DEF AsmOK
    <3> QED BY ONLY <3>1 DEF Stats, Decided
  <2>6. Cardinality(Open(b)) + Undecided(a.tcp[c]) = Cardinality(Open(a)) + Undecided(s)
    <3>1. Cardinality(Open(b)) = Cardinality(Open(a)) - Undecided(a.tcp[c]) + Undecided(s)
      BY <2>2, <2>3
    <3> QED BY <2>4, <3>1
  <2>7. /\ Pending(a) \in Nat /\ Pending(b) \in Nat
        /\ Pending(b) + Undecided(a.tcp[c]) = Pending(a) + Undecided(s)
    BY ONLY <1>5, <2>4, <2>6 DEF Pending
  <2>8. Decided(b) + Pending(b) = Decided(a) + Pending(a)
    <3>1. Decided(b) + Undecided(s) = Decided(a) + Undecided(a.tcp[c])
      OBVIOUS
    <3> QED BY ONLY <2>4, <2>5, <2>7, <3>1
  <2> QED BY <1>1, <2>8 DEF Partitioned
<1> QED BY <1>3, <1>4, <1>6, <1>7 DEF IInv

\* A step that rewrites one TCP stream and neither reports nor rejects it keeps
\* the invariant.
LEMMA QuietStep ==
  ASSUME NEW a, IInv(a), NEW c \in DOMAIN a.tcp, NEW s \in Stream, NEW b,
         DOMAIN b = Fields,
         b.tcp = [a.tcp EXCEPT ![c] = s],
         b.quic = a.quic, b.lastFlush = a.lastFlush, b.stats = a.stats, b.reports = a.reports,
         s.emitted = a.tcp[c].emitted, s.rejected = a.tcp[c].rejected,
         s.counted = a.tcp[c].counted,
         s.emitted => s.haveCH,
         s.rejected => ~s.haveCH,
         \A i \in Dirs : Len(s.buf[i]) <= MaxPrefix
  PROVE  IInv(b)
<1>1. AsmOK(a) /\ Coherent(a) /\ c \in Conns
  BY DEF IInv, AsmOK
<1>2. /\ b.stats \in Stats
      /\ b.reports \in [Conns \cup Tuples -> Seq(Flow)]
      /\ StreamCoherent(a.tcp[c], a.reports[c])
      /\ Len(b.reports[c]) <= 1
  BY <1>1 DEF AsmOK, Coherent
<1>3. StreamCoherent(s, b.reports[c])
  BY <1>2 DEF StreamCoherent
<1>4. Decided(b) + Undecided(s) = Decided(a) + Undecided(a.tcp[c])
  BY DEF Decided, Undecided
<1> QED BY <1>2, <1>3, <1>4, TCPStep

\* stream.emit keeps the invariant: it reports a stream that was still undecided.
LEMMA EmitOK ==
  ASSUME NEW a, IInv(a), NEW c \in DOMAIN a.tcp
  PROVE  /\ IInv(Emit(a, c))
         /\ DOMAIN Emit(a, c).tcp = DOMAIN a.tcp
         /\ Emit(a, c).tcp[c].haveCH = a.tcp[c].haveCH
         /\ Emit(a, c).tcp[c].rejected = a.tcp[c].rejected
<1> DEFINE s == a.tcp[c]
           r == [s EXCEPT !.emitted = TRUE]
           b == Emit(a, c)
<1>1. CASE s.emitted \/ ~s.haveCH
  BY <1>1 DEF Emit
<1>2. CASE ~(s.emitted \/ ~s.haveCH)
  <2>1. AsmOK(a) /\ Coherent(a) /\ c \in Conns /\ s \in Stream
    BY DEF IInv, AsmOK
  <2>2. DOMAIN b = Fields
    BY <1>2, <2>1 DEF Emit, AsmOK
  <2>3. /\ b.quic = a.quic /\ b.lastFlush = a.lastFlush
        /\ b.tcp = [a.tcp EXCEPT ![c] = r]
        /\ b.stats = [a.stats EXCEPT !.tlsFlows = @ + 1]
        /\ b.reports = [a.reports EXCEPT ![c] = Append(@, s.flow)]
    BY <1>2, <2>1 DEF Emit, AsmOK, Fields
  <2>4. /\ r \in Stream /\ s.flow \in Flow
        /\ r.emitted = TRUE /\ r.rejected = s.rejected /\ r.counted = s.counted
        /\ r.haveCH = s.haveCH /\ r.buf = s.buf
    BY <2>1 DEF Stream
  <2>5. /\ b.stats \in Stats
        /\ b.stats.live = a.stats.live /\ b.stats.streams = a.stats.streams
        /\ b.stats.tlsFlows = a.stats.tlsFlows + 1
        /\ b.stats.rejectedTCP = a.stats.rejectedTCP
    <3> DEFINE st == [a.stats EXCEPT !.tlsFlows = @ + 1]
    <3>1. a.stats \in Stats
      BY <2>1 DEF AsmOK
    <3>2. /\ st \in Stats
          /\ st.live = a.stats.live /\ st.streams = a.stats.streams
          /\ st.tlsFlows = a.stats.tlsFlows + 1
          /\ st.rejectedTCP = a.stats.rejectedTCP
      BY <3>1 DEF Stats
    <3> HIDE DEF b
    <3> QED BY <2>3, <3>2
  <2>6. StreamCoherent(s, a.reports[c])
    BY <2>1 DEF Coherent
  <2>7. a.reports[c] = <<>> /\ ~s.emitted /\ ~s.rejected
    BY <1>2, <2>6 DEF StreamCoherent
  <2>8. /\ b.reports \in [Conns \cup Tuples -> Seq(Flow)]
        /\ b.reports[c] = <<s.flow>>
        /\ \A x \in (Conns \cup Tuples) \ {c} : b.reports[x] = a.reports[x]
    BY <2>1, <2>3, <2>4, <2>7 DEF AsmOK
  <2>9. Len(b.reports[c]) <= 1 /\ StreamCoherent(r, b.reports[c])
    BY <1>2, <2>4, <2>6, <2>8 DEF StreamCoherent
  <2>10. Decided(b) + Undecided(r) = Decided(a) + Undecided(s)
    <3>1. Undecided(r) = 0 /\ Undecided(s) = 1
      BY <2>4, <2>7 DEF Undecided
    <3>2. a.stats.tlsFlows \in Nat /\ a.stats.rejectedTCP \in Nat
      BY <2>1 DEF AsmOK, Stats
    <3>3. Decided(b) = Decided(a) + 1 /\ Decided(a) \in Nat
      BY ONLY <2>5, <3>2 DEF Decided
    <3> QED BY ONLY <3>1, <3>3
  <2>11. IInv(b)
    <3> HIDE DEF b, r, s
    <3> QED BY <2>2, <2>3, <2>4, <2>5, <2>8, <2>9, <2>10, TCPStep, ZenonT(40) DEF s
  <2> QED BY <2>3, <2>4, <2>11
<1> QED BY <1>1, <1>2

(***************************************************************************)
(* The functions of a TCP stream.                                          *)
(***************************************************************************)
\* FindServerHello and its raw form return a server record.
LEMMA FindServerHelloType ==
  ASSUME NEW buf
  PROVE  FindServerHello(buf) \in Server /\ FindServerHelloRaw(buf) \in Server
<1>1. NoServer \in Server /\ Retry \in Server
  BY DEF NoServer, Retry, Server
<1>2. \A last : Enriched(buf, last) \in Server
  BY DEF Enriched, Server
<1> QED BY <1>1, <1>2 DEF FindServerHello, FindServerHelloRaw

\* The bounded append of ReassembledSG never holds more than MaxPrefix units.
LEMMA RetainOK ==
  ASSUME NEW s \in Stream, NEW i \in Dirs, NEW data \in Seq(Unit), NEW ts \in Nat,
         \A j \in Dirs : Len(s.buf[j]) <= MaxPrefix
  PROVE  /\ Retain(s, i, data, ts) \in Stream
         /\ \A j \in Dirs : Len(Retain(s, i, data, ts).buf[j]) <= MaxPrefix
         /\ Retain(s, i, data, ts).emitted = s.emitted
         /\ Retain(s, i, data, ts).rejected = s.rejected
         /\ Retain(s, i, data, ts).counted = s.counted
         /\ Retain(s, i, data, ts).haveCH = s.haveCH
<1> DEFINE room == MaxPrefix - Len(s.buf[i])
           over == Len(data) > room
           kept == IF over THEN SubSeq(data, 1, room) ELSE data
           r == Retain(s, i, data, ts)
<1>1. /\ s.buf \in [Dirs -> Seq(Unit)] /\ s.full \in [Dirs -> BOOLEAN]
      /\ s.flow \in Flow /\ s.buf[i] \in Seq(Unit)
  BY DEF Stream
<1>2. room \in Nat /\ Len(data) \in Nat /\ Len(s.buf[i]) \in Nat
  BY <1>1, AssemblerAssumption
<1>3. kept \in Seq(Unit) /\ Len(kept) <= room
  <2>1. CASE over
    <3>1. SubSeq(data, 1, room) \in Seq(Unit) /\ Len(SubSeq(data, 1, room)) = room
      BY <1>2, <2>1, SubSeqProperties
    <3> QED BY <2>1, <3>1, <1>2
  <2>2. CASE ~over
    BY <1>2, <2>2
  <2> QED BY <2>1, <2>2
<1>4. /\ s.buf[i] \o kept \in Seq(Unit)
      /\ Len(s.buf[i] \o kept) <= MaxPrefix
  <2>1. Len(s.buf[i] \o kept) = Len(s.buf[i]) + Len(kept) /\ Len(kept) \in Nat
    <3> HIDE DEF kept
    <3> QED BY <1>1, <1>3
  <2>2. s.buf[i] \o kept \in Seq(Unit)
    <3> HIDE DEF kept
    <3> QED BY <1>1, <1>3
  <2> HIDE DEF kept
  <2> QED BY <1>2, <1>3, <2>1, <2>2, AssemblerAssumption
<1> DEFINE B == [s.buf EXCEPT ![i] = @ \o kept]
           F == [s.full EXCEPT ![i] = @ \/ over]
           G == [s.flow EXCEPT !.truncated = @ \/ over, !.lastSeen = IF ts > @ THEN ts ELSE @]
<1>5. r = [s EXCEPT !.buf = B, !.full = F, !.flow = G]
  <2>1. {"buf", "full", "flow"} \subseteq DOMAIN s
    BY DEF Stream
  <2>2. {"truncated", "lastSeen"} \subseteq DOMAIN s.flow
    BY <1>1 DEF Flow
  <2> QED BY <2>1, <2>2, <1>1, ZenonT(40) DEF Retain
<1>6. B \in [Dirs -> Seq(Unit)]
  <2> HIDE DEF kept
  <2> QED BY <1>1, <1>4
<1>7. F \in [Dirs -> BOOLEAN]
  BY <1>1
<1>8. G \in Flow
  BY <1>1 DEF Flow
<1>9. r \in Stream /\ r.buf = B
      /\ r.emitted = s.emitted /\ r.rejected = s.rejected
      /\ r.counted = s.counted /\ r.haveCH = s.haveCH
  <2> HIDE DEF r, B, F, G
  <2> QED BY <1>5, <1>6, <1>7, <1>8 DEF Stream
<1> HIDE DEF r, kept, over
<1>10. \A j \in Dirs : Len(r.buf[j]) <= MaxPrefix
  BY <1>1, <1>4, <1>9
<1> QED BY <1>9, <1>10 DEF r

\* The ClientHello part of parse keeps the invariant on a stream not rejected.
LEMMA ParseClientOK ==
  ASSUME NEW a, IInv(a), NEW c \in DOMAIN a.tcp, ~a.tcp[c].rejected
  PROVE  /\ IInv(ParseClient(a, c))
         /\ DOMAIN ParseClient(a, c).tcp = DOMAIN a.tcp
         /\ ~ParseClient(a, c).tcp[c].rejected
<1> DEFINE s == a.tcp[c]
           hits == {i \in Dirs : FindClientHello(s.buf[i])}
           idx == IF 0 \in hits THEN 0 ELSE 1
           b == ParseClient(a, c)
<1>1. CASE s.haveCH \/ hits = {}
  BY <1>1 DEF ParseClient
<1>2. CASE ~(s.haveCH \/ hits = {})
  <2> DEFINE G == [s.flow EXCEPT !.client = Sender(@, idx)]
             r == [s EXCEPT !.haveCH = TRUE, !.clientIdx = idx, !.flow = G]
  <2>1. AsmOK(a) /\ Coherent(a) /\ c \in Conns /\ s \in Stream /\ s.flow \in Flow
    BY DEF IInv, AsmOK, Stream
  <2>2. G \in Flow
    BY <2>1 DEF Flow, Sender, Other, Sides
  <2>3. idx \in Dirs
    BY DEF Dirs
  <2>4. /\ DOMAIN b = Fields
        /\ b.quic = a.quic /\ b.lastFlush = a.lastFlush
        /\ b.stats = a.stats /\ b.reports = a.reports
    BY <1>2, <2>1 DEF ParseClient, AsmOK, Fields
  <2>5. b.tcp = [a.tcp EXCEPT ![c] = r]
    <3>1. DOMAIN a = Fields
      BY <2>1 DEF AsmOK
    <3>2. {"haveCH", "clientIdx", "flow"} \subseteq DOMAIN s
      BY <2>1 DEF Stream
    <3>3. b = [a EXCEPT !.tcp[c].haveCH = TRUE, !.tcp[c].clientIdx = idx,
                        !.tcp[c].flow.client = Sender(@, idx)]
      BY <1>2 DEF ParseClient
    <3> HIDE DEF b, hits
    <3> QED BY <3>1, <3>2, <3>3 DEF Fields
  <2>6. /\ r \in Stream /\ r.emitted = s.emitted /\ r.rejected = s.rejected
        /\ r.counted = s.counted /\ r.haveCH = TRUE /\ r.buf = s.buf
    <3> HIDE DEF G, idx
    <3> QED BY <2>1, <2>2, <2>3 DEF Stream
  <2>7. \A i \in Dirs : Len(r.buf[i]) <= MaxPrefix
    BY <2>1, <2>6 DEF Coherent, StreamCoherent
  <2>8. IInv(b)
    <3> HIDE DEF b, r
    <3> QED BY <2>4, <2>5, <2>6, <2>7, QuietStep
  <2> HIDE DEF b, r
  <2> QED BY <2>5, <2>6, <2>8 DEF b
<1> QED BY <1>1, <1>2

\* The ServerHello part of parse keeps the invariant.
LEMMA ParseServerOK ==
  ASSUME NEW a, IInv(a), NEW c \in DOMAIN a.tcp, ~a.tcp[c].rejected
  PROVE  /\ IInv(ParseServer(a, c))
         /\ DOMAIN ParseServer(a, c).tcp = DOMAIN a.tcp
         /\ ~ParseServer(a, c).tcp[c].rejected
<1> DEFINE s == a.tcp[c]
           sh == FindServerHello(s.buf[1 - s.clientIdx])
           b == [a EXCEPT !.tcp[c].haveSH = TRUE, !.tcp[c].flow.server = sh]
           G == [s.flow EXCEPT !.server = sh]
           r == [s EXCEPT !.haveSH = TRUE, !.flow = G]
<1>1. AsmOK(a) /\ Coherent(a) /\ c \in Conns /\ s \in Stream /\ s.flow \in Flow
  BY DEF IInv, AsmOK, Stream
<1>2. G \in Flow
  <2>1. sh \in Server
    BY FindServerHelloType
  <2> HIDE DEF sh
  <2> QED BY <1>1, <2>1 DEF Flow
<1>3. /\ DOMAIN b = Fields
      /\ b.quic = a.quic /\ b.lastFlush = a.lastFlush
      /\ b.stats = a.stats /\ b.reports = a.reports
  <2> HIDE DEF sh
  <2> QED BY <1>1 DEF AsmOK, Fields
<1>4. b.tcp = [a.tcp EXCEPT ![c] = r]
  <2>1. DOMAIN a = Fields
    BY <1>1 DEF AsmOK
  <2>2. {"haveSH", "flow"} \subseteq DOMAIN s
    BY <1>1 DEF Stream
  <2> HIDE DEF sh
  <2> QED BY <2>1, <2>2 DEF Fields
<1>5. /\ r \in Stream /\ r.emitted = s.emitted /\ r.rejected = s.rejected
      /\ r.counted = s.counted /\ r.haveCH = s.haveCH /\ r.buf = s.buf
  <2> HIDE DEF G
  <2> QED BY <1>1, <1>2 DEF Stream
<1>6. StreamCoherent(s, a.reports[c])
  BY <1>1 DEF Coherent
<1>7. /\ r.emitted => r.haveCH
      /\ r.rejected => ~r.haveCH
      /\ \A i \in Dirs : Len(r.buf[i]) <= MaxPrefix
  <2> HIDE DEF r
  <2> QED BY <1>5, <1>6 DEF StreamCoherent
<1>8. IInv(b) /\ DOMAIN b.tcp = DOMAIN a.tcp /\ ~b.tcp[c].rejected
  <2> HIDE DEF b, r
  <2> QED BY <1>3, <1>4, <1>5, <1>7, QuietStep
<1>9. IInv(Emit(b, c)) /\ DOMAIN Emit(b, c).tcp = DOMAIN a.tcp /\ ~Emit(b, c).tcp[c].rejected
  <2> HIDE DEF b
  <2> QED BY <1>8, EmitOK
<1>10. ParseServer(a, c) \in {a, b, Emit(b, c)}
  BY DEF ParseServer
<1> HIDE DEF b
<1> QED BY <1>8, <1>9, <1>10

\* stream.reject keeps the invariant: it decides a stream that was undecided.
LEMMA RejectOK ==
  ASSUME NEW a, IInv(a), NEW c \in DOMAIN a.tcp, ~a.tcp[c].rejected, ~a.tcp[c].haveCH
  PROVE  IInv(Reject(a, c)) /\ DOMAIN Reject(a, c).tcp = DOMAIN a.tcp
<1> DEFINE s == a.tcp[c]
           E == [i \in Dirs |-> <<>>]
           r == [s EXCEPT !.rejected = TRUE, !.buf = E]
           b == Reject(a, c)
<1>1. AsmOK(a) /\ Coherent(a) /\ c \in Conns /\ s \in Stream
  BY DEF IInv, AsmOK
<1>2. /\ DOMAIN b = Fields
      /\ b.quic = a.quic /\ b.lastFlush = a.lastFlush /\ b.reports = a.reports
      /\ b.tcp = [a.tcp EXCEPT ![c] = r]
      /\ b.stats = [a.stats EXCEPT !.rejectedTCP = @ + 1]
  BY <1>1 DEF Reject, AsmOK, Fields
<1>3. /\ r \in Stream /\ r.emitted = s.emitted /\ r.rejected = TRUE
      /\ r.counted = s.counted /\ r.haveCH = s.haveCH /\ r.buf = E
  <2>1. E \in [Dirs -> Seq(Unit)]
    OBVIOUS
  <2> HIDE DEF E
  <2> QED BY <1>1, <2>1 DEF Stream
<1>4. /\ b.stats \in Stats
      /\ b.stats.live = a.stats.live /\ b.stats.streams = a.stats.streams
      /\ b.stats.tlsFlows = a.stats.tlsFlows
      /\ b.stats.rejectedTCP = a.stats.rejectedTCP + 1
  <2> DEFINE st == [a.stats EXCEPT !.rejectedTCP = @ + 1]
  <2>1. a.stats \in Stats
    BY <1>1 DEF AsmOK
  <2>2. /\ st \in Stats
        /\ st.live = a.stats.live /\ st.streams = a.stats.streams
        /\ st.rejectedTCP = a.stats.rejectedTCP + 1
        /\ st.tlsFlows = a.stats.tlsFlows
    BY <2>1 DEF Stats
  <2> HIDE DEF b
  <2> QED BY <1>2, <2>2
<1>5. StreamCoherent(s, a.reports[c]) /\ Len(a.reports[c]) <= 1 /\ ~s.emitted
      /\ a.reports \in [Conns \cup Tuples -> Seq(Flow)]
  BY <1>1 DEF Coherent, StreamCoherent, AsmOK
<1>6. StreamCoherent(r, b.reports[c])
  <2>1. \A i \in Dirs : Len(r.buf[i]) <= MaxPrefix
    BY <1>3, AssemblerAssumption
  <2> HIDE DEF r, b
  <2> QED BY <1>2, <1>3, <1>5, <2>1 DEF StreamCoherent
<1>7. Decided(b) + Undecided(r) = Decided(a) + Undecided(s)
  <2>1. Undecided(r) = 0 /\ Undecided(s) = 1
    BY <1>3, <1>5 DEF Undecided
  <2>2. a.stats.tlsFlows \in Nat /\ a.stats.rejectedTCP \in Nat
    BY <1>1 DEF AsmOK, Stats
  <2>3. Decided(b) = Decided(a) + 1 /\ Decided(a) \in Nat
    BY ONLY <1>4, <2>2 DEF Decided
  <2> QED BY ONLY <2>1, <2>3
<1> HIDE DEF b, r
<1>8. IInv(b)
  BY <1>2, <1>3, <1>4, <1>5, <1>6, <1>7, TCPStep
<1> QED BY <1>2, <1>8 DEF b

\* stream.parse keeps the invariant.
LEMMA ParseOK ==
  ASSUME NEW a, IInv(a), NEW c \in DOMAIN a.tcp, ~a.tcp[c].rejected
  PROVE  IInv(Parse(a, c)) /\ DOMAIN Parse(a, c).tcp = DOMAIN a.tcp
<1> DEFINE p == ParseClient(a, c)
           b == ParseServer(p, c)
<1>1. IInv(p) /\ DOMAIN p.tcp = DOMAIN a.tcp /\ ~p.tcp[c].rejected
  BY ParseClientOK
<1>2. IInv(b) /\ DOMAIN b.tcp = DOMAIN a.tcp /\ ~b.tcp[c].rejected
  <2> HIDE DEF p
  <2> QED BY <1>1, ParseServerOK
<1>3. Parse(a, c) = IF Hopeless(b.tcp[c]) THEN Reject(b, c) ELSE b
  BY DEF Parse
<1> HIDE DEF b
<1>4. CASE Hopeless(b.tcp[c])
  BY <1>2, <1>3, <1>4, RejectOK DEF Hopeless
<1>5. CASE ~Hopeless(b.tcp[c])
  BY <1>2, <1>3, <1>5
<1> QED BY <1>4, <1>5

\* stream.ReassembledSG keeps the invariant.
LEMMA ReassembledSGOK ==
  ASSUME NEW a, IInv(a), NEW c \in DOMAIN a.tcp, NEW i \in Dirs,
         NEW data \in Seq(Unit), NEW ts \in Nat
  PROVE  /\ IInv(ReassembledSG(a, c, i, data, ts))
         /\ DOMAIN ReassembledSG(a, c, i, data, ts).tcp = DOMAIN a.tcp
<1> DEFINE s == a.tcp[c]
           r == Retain(s, i, data, ts)
           b == [a EXCEPT !.tcp[c] = r]
<1>1. CASE data = <<>> \/ s.rejected \/ (s.haveCH /\ s.haveSH)
  BY <1>1 DEF ReassembledSG
<1>2. CASE ~(data = <<>> \/ s.rejected \/ (s.haveCH /\ s.haveSH))
  <2>1. AsmOK(a) /\ Coherent(a) /\ s \in Stream /\ StreamCoherent(s, a.reports[c])
    BY DEF IInv, AsmOK, Coherent
  <2>2. /\ r \in Stream
        /\ \A j \in Dirs : Len(r.buf[j]) <= MaxPrefix
        /\ r.emitted = s.emitted /\ r.rejected = s.rejected
        /\ r.counted = s.counted /\ r.haveCH = s.haveCH
    BY <2>1, RetainOK DEF StreamCoherent
  <2>3. /\ DOMAIN b = Fields
        /\ b.tcp = [a.tcp EXCEPT ![c] = r]
        /\ b.quic = a.quic /\ b.lastFlush = a.lastFlush
        /\ b.stats = a.stats /\ b.reports = a.reports
    <3> HIDE DEF r
    <3> QED BY <2>1 DEF AsmOK, Fields
  <2>4. /\ r.emitted => r.haveCH
        /\ r.rejected => ~r.haveCH
    BY <2>1, <2>2 DEF StreamCoherent
  <2> HIDE DEF b, r
  <2>5. IInv(b) /\ DOMAIN b.tcp = DOMAIN a.tcp /\ b.tcp[c].rejected = s.rejected
    BY <2>2, <2>3, <2>4, QuietStep
  <2>6. IInv(Parse(b, c)) /\ DOMAIN Parse(b, c).tcp = DOMAIN a.tcp
    BY <1>2, <2>5, ParseOK
  <2> QED BY <1>2, <2>6 DEF ReassembledSG, b, r
<1> QED BY <1>1, <1>2

\* The first flow handed to the handler makes a list of one.
LEMMA FirstReport ==
  ASSUME NEW f \in Flow
  PROVE  Append(<<>>, f) = <<f>> /\ <<f>> \in Seq(Flow) /\ Len(<<f>>) = 1 /\ <<f>> # <<>>
OBVIOUS

\* ReassemblyComplete on any set of tracked streams keeps the invariant: the
\* slots it gives back are those its streams took, and what it reports was
\* undecided.
LEMMA ReassemblyCompleteOK ==
  ASSUME NEW a, IInv(a), NEW S \in SUBSET DOMAIN a.tcp
  PROVE  IInv(ReassemblyComplete(a, S))
<1> DEFINE emits == {c \in S : a.tcp[c].haveCH /\ ~a.tcp[c].emitted}
           uncounted == {c \in S : a.tcp[c].counted}
           b == ReassemblyComplete(a, S)
<1>1. AsmOK(a) /\ Coherent(a) /\ Balanced(a) /\ Capped(a) /\ Partitioned(a) /\ S \subseteq Conns
  BY DEF IInv, AsmOK
<1>2. /\ DOMAIN b = Fields
      /\ b.quic = a.quic /\ b.lastFlush = a.lastFlush
      /\ b.tcp = Without(a.tcp, S)
      /\ b.stats = [a.stats EXCEPT !.tlsFlows = @ + Cardinality(emits),
                                   !.live = @ - Cardinality(uncounted)]
      /\ b.reports = [x \in DOMAIN a.reports |-> IF x \in emits
                        THEN Append(a.reports[x], a.tcp[x].flow) ELSE a.reports[x]]
  BY <1>1 DEF ReassemblyComplete, Ending, Slots, AsmOK, Fields
<1>3. /\ DOMAIN b.tcp = DOMAIN a.tcp \ S
      /\ \A c \in DOMAIN b.tcp : b.tcp[c] = a.tcp[c]
  BY <1>2 DEF Without
<1>4. /\ IsFiniteSet(emits) /\ Cardinality(emits) \in Nat
      /\ IsFiniteSet(uncounted) /\ Cardinality(uncounted) \in Nat
  <2>1. emits \subseteq DOMAIN a.tcp /\ uncounted \subseteq DOMAIN a.tcp
    OBVIOUS
  <2> HIDE DEF emits, uncounted
  <2> QED BY <1>1, <2>1, FiniteParts, FS_Subset, FS_CardinalityType
<1>5. /\ b.stats \in Stats
      /\ b.stats.live = a.stats.live - Cardinality(uncounted)
      /\ b.stats.streams = a.stats.streams
      /\ b.stats.tlsFlows = a.stats.tlsFlows + Cardinality(emits)
      /\ b.stats.rejectedTCP = a.stats.rejectedTCP
  <2> HIDE DEF emits, uncounted, b
  <2>1. a.stats \in Stats
    BY <1>1 DEF AsmOK
  <2>2. b.stats = [a.stats EXCEPT !.tlsFlows = @ + Cardinality(emits),
                                  !.live = @ - Cardinality(uncounted)]
    BY <1>2
  <2>3. PICK n \in Nat : n = a.stats.tlsFlows + Cardinality(emits)
    <3>1. a.stats.tlsFlows \in Nat
      BY <2>1 DEF Stats
    <3> QED BY <1>4, <3>1
  <2>4. PICK m \in Int : m = a.stats.live - Cardinality(uncounted)
    <3>1. a.stats.live \in Int
      BY <2>1 DEF Stats
    <3> QED BY <1>4, <3>1
  <2>5. b.stats = [a.stats EXCEPT !.tlsFlows = n, !.live = m]
    BY <2>2, <2>3, <2>4
  <2>6. /\ b.stats \in Stats
        /\ b.stats.live = m /\ b.stats.tlsFlows = n
        /\ b.stats.streams = a.stats.streams
        /\ b.stats.rejectedTCP = a.stats.rejectedTCP
    BY <2>1, <2>5 DEF Stats
  <2> QED BY <2>3, <2>4, <2>6
<1>6. \A c \in emits : /\ a.reports[c] = <<>> /\ ~a.tcp[c].rejected /\ ~a.tcp[c].emitted
                       /\ a.tcp[c].flow \in Flow
  BY <1>1 DEF Coherent, StreamCoherent, AsmOK, Stream
<1>7. /\ b.reports \in [Conns \cup Tuples -> Seq(Flow)]
      /\ \A x \in Conns \cup Tuples : Len(b.reports[x]) <= 1
      /\ \A x \in (Conns \cup Tuples) \ S : b.reports[x] = a.reports[x]
  <2>1. emits \subseteq S
    OBVIOUS
  <2>2. a.reports \in [Conns \cup Tuples -> Seq(Flow)]
        /\ \A x \in Conns \cup Tuples : Len(a.reports[x]) <= 1
    BY <1>1 DEF AsmOK, Coherent
  <2>3. \A x \in emits : Append(a.reports[x], a.tcp[x].flow) = <<a.tcp[x].flow>>
    BY <1>6, FirstReport
  <2>4. \A x \in emits : <<a.tcp[x].flow>> \in Seq(Flow) /\ Len(<<a.tcp[x].flow>>) = 1
    BY <1>6, FirstReport
  <2> HIDE DEF emits, b
  <2> QED BY <1>2, <2>1, <2>2, <2>3, <2>4
<1> HIDE DEF b
<1>8. AsmOK(b)
  BY <1>1, <1>2, <1>3, <1>5, <1>7 DEF AsmOK
<1>9. Coherent(b)
  <2>1. \A c \in DOMAIN b.tcp : b.reports[c] = a.reports[c]
    BY <1>1, <1>3, <1>7 DEF AsmOK
  <2>2. \A q \in DOMAIN b.quic : b.reports[q] = a.reports[q]
    BY <1>1, <1>2, <1>7, AssemblerAssumption DEF AsmOK
  <2> QED BY <1>1, <1>2, <1>3, <1>7, <2>1, <2>2 DEF Coherent
<1>10. /\ Cardinality(Counted(b)) = Cardinality(Counted(a)) - Cardinality(uncounted)
       /\ Cardinality(Counted(a)) \in Nat /\ Cardinality(DOMAIN a.quic) \in Nat
  <2>1. /\ Counted(a) = Counted(b) \cup uncounted
        /\ Counted(b) \cap uncounted = {}
    BY <1>3 DEF Counted
  <2> HIDE DEF uncounted
  <2>2. IsFiniteSet(Counted(b)) /\ Cardinality(Counted(a)) \in Nat
        /\ Cardinality(DOMAIN a.quic) \in Nat
    BY <1>1, <1>8, FiniteParts
  <2> QED BY <1>4, <2>1, <2>2, DisjointUnion, ZenonT(40)
<1>11. Balanced(b) /\ Capped(b)
  <2>1. a.stats.live = Cardinality(Counted(a)) + Cardinality(DOMAIN a.quic)
        /\ Cardinality(Counted(a)) <= MaxStreams /\ Cardinality(DOMAIN a.quic) <= MaxStreams
    BY <1>1 DEF Balanced, Capped
  <2>2. MaxStreams \in Nat
    BY AssemblerAssumption
  <2>3. DOMAIN b.quic = DOMAIN a.quic
    BY <1>2
  <2> HIDE DEF uncounted
  <2> QED BY ONLY <1>4, <1>5, <1>10, <2>1, <2>2, <2>3 DEF Balanced, Capped
<1>12. Partitioned(b)
  <2>1. /\ emits \subseteq Open(a) \ Open(b)
        /\ Open(b) \subseteq Open(a)
        /\ OpenQUIC(b) = OpenQUIC(a)
    BY <1>1, <1>2, <1>3, <1>6 DEF Open, OpenQUIC
  <2> HIDE DEF emits
  <2>2. Cardinality(Open(b)) + Cardinality(emits) <= Cardinality(Open(a))
    BY <1>1, <1>4, <1>8, <2>1, FiniteParts, DisjointParts
  <2>3. /\ Cardinality(Open(a)) \in Nat /\ Cardinality(Open(b)) \in Nat
        /\ Cardinality(OpenQUIC(a)) \in Nat
    BY <1>1, <1>8, FiniteParts
  <2>4. a.stats.tlsFlows \in Nat /\ a.stats.rejectedTCP \in Nat /\ a.stats.streams \in Nat
    BY <1>1 DEF AsmOK, Stats
  <2>5. /\ Decided(a) \in Nat /\ Decided(b) \in Nat
        /\ Decided(b) = Decided(a) + Cardinality(emits)
    BY ONLY <1>4, <1>5, <2>4 DEF Decided
  <2>6. /\ Pending(a) \in Nat /\ Pending(b) \in Nat
        /\ Pending(b) + Cardinality(emits) <= Pending(a)
    BY ONLY <1>4, <2>1, <2>2, <2>3 DEF Pending
  <2>7. Decided(a) + Pending(a) <= a.stats.streams
    BY <1>1 DEF Partitioned
  <2> QED BY ONLY <1>4, <1>5, <2>4, <2>5, <2>6, <2>7 DEF Partitioned
<1> QED BY <1>8, <1>9, <1>11, <1>12 DEF IInv, b

\* factory.New keeps the invariant: a stream over the cap takes no slot.
LEMMA NewStreamOK ==
  ASSUME NEW a, IInv(a), NEW c \in Conns \ DOMAIN a.tcp, NEW from \in Sides, NEW ts \in Nat
  PROVE  /\ IInv(NewStream(a, c, from, ts))
         /\ DOMAIN NewStream(a, c, from, ts).tcp = DOMAIN a.tcp \cup {c}
<1> DEFINE over == AtCap(a)
           s == [first |-> from, buf |-> [i \in Dirs |-> <<>>], full |-> [i \in Dirs |-> FALSE],
                 clientIdx |-> 0, haveCH |-> FALSE, haveSH |-> FALSE,
                 rejected |-> over, emitted |-> FALSE, counted |-> ~over,
                 flow |-> [client |-> from, server |-> NoServer,
                           truncated |-> FALSE, lastSeen |-> ts],
                 done |-> [i \in Dirs |-> FALSE], lastSeen |-> ts]
           b == NewStream(a, c, from, ts)
<1>1. /\ AsmOK(a) /\ Coherent(a) /\ Balanced(a) /\ Capped(a) /\ Partitioned(a)
      /\ a.stats \in Stats /\ a.reports \in [Conns \cup Tuples -> Seq(Flow)]
      /\ c \notin Tuples
  BY AssemblerAssumption DEF IInv, AsmOK
<1>2. /\ DOMAIN b = Fields
      /\ b.quic = a.quic /\ b.lastFlush = a.lastFlush
      /\ b.tcp = [x \in DOMAIN a.tcp \cup {c} |-> IF x = c THEN s ELSE a.tcp[x]]
      /\ b.stats = [a.stats EXCEPT !.streams = @ + 1,
                                   !.dropped = IF over THEN @ + 1 ELSE @,
                                   !.live = IF over THEN @ ELSE @ + 1]
      /\ b.reports = [a.reports EXCEPT ![c] = <<>>]
  <2>1. DOMAIN a = Fields
    BY <1>1 DEF AsmOK
  <2> HIDE DEF over
  <2> QED BY <2>1 DEF NewStream, Fields, over
<1>3. s \in Stream
  <2>1. NoServer \in Server
    BY DEF NoServer, Server
  <2>2. s.flow \in Flow
    BY <2>1 DEF Flow
  <2>3. [i \in Dirs |-> <<>>] \in [Dirs -> Seq(Unit)]
    OBVIOUS
  <2> QED BY <2>2, <2>3 DEF Stream, Dirs, AtCap
<1>4. /\ s.counted = ~over /\ s.rejected = over /\ ~s.emitted /\ ~s.haveCH
      /\ \A i \in Dirs : Len(s.buf[i]) <= MaxPrefix
  BY AssemblerAssumption
<1>5. /\ b.stats \in Stats
      /\ b.stats.tlsFlows = a.stats.tlsFlows /\ b.stats.rejectedTCP = a.stats.rejectedTCP
      /\ b.stats.streams = a.stats.streams + 1
      /\ b.stats.live = IF over THEN a.stats.live ELSE a.stats.live + 1
  <2> HIDE DEF b, s, over
  <2>1. a.stats.streams + 1 \in Nat /\ a.stats.live + 1 \in Int /\ a.stats.dropped + 1 \in Nat
    BY <1>1 DEF Stats
  <2> QED BY <1>1, <1>2, <2>1 DEF Stats
<1> HIDE DEF b, s, over
<1>6. /\ DOMAIN b.tcp = DOMAIN a.tcp \cup {c}
      /\ b.tcp[c] = s
      /\ \A x \in DOMAIN a.tcp : b.tcp[x] = a.tcp[x]
  BY <1>2
<1>7. /\ b.reports \in [Conns \cup Tuples -> Seq(Flow)]
      /\ b.reports[c] = <<>>
      /\ \A x \in (Conns \cup Tuples) \ {c} : b.reports[x] = a.reports[x]
  BY <1>1, <1>2
<1>8. AsmOK(b)
  BY <1>1, <1>2, <1>3, <1>5, <1>6, <1>7 DEF AsmOK
<1>9. Coherent(b)
  <2>1. StreamCoherent(s, b.reports[c])
    BY <1>4, <1>7 DEF StreamCoherent
  <2>2. \A x \in DOMAIN a.tcp : StreamCoherent(b.tcp[x], b.reports[x])
    BY <1>1, <1>6, <1>7 DEF Coherent, AsmOK
  <2>3. \A q \in DOMAIN b.quic : /\ b.quic[q].emitted => b.quic[q].haveCH
                                 /\ b.quic[q].emitted <=> b.reports[q] # <<>>
    BY <1>1, <1>2, <1>7 DEF Coherent, AsmOK
  <2>4. \A x \in Conns \cup Tuples : Len(b.reports[x]) <= 1
    <3> SUFFICES ASSUME NEW x \in Conns \cup Tuples PROVE Len(b.reports[x]) <= 1
      OBVIOUS
    <3>1. CASE x = c
      <4>1. Len(<<>>) = 0
        OBVIOUS
      <4> QED BY <1>7, <3>1, <4>1
    <3>2. CASE x # c
      BY <1>1, <1>7, <3>2 DEF Coherent
    <3> QED BY <3>1, <3>2
  <2> QED BY <1>6, <2>1, <2>2, <2>3, <2>4 DEF Coherent
<1>10. /\ Cardinality(Counted(a)) \in Nat /\ Cardinality(DOMAIN a.quic) \in Nat
       /\ Cardinality(Open(a)) \in Nat /\ Cardinality(OpenQUIC(a)) \in Nat
       /\ Cardinality(Counted(b)) = IF over THEN Cardinality(Counted(a))
                                            ELSE Cardinality(Counted(a)) + 1
       /\ Cardinality(Open(b)) = IF over THEN Cardinality(Open(a))
                                         ELSE Cardinality(Open(a)) + 1
  <2>1. IsFiniteSet(Counted(a)) /\ IsFiniteSet(Open(a)) /\ c \notin Counted(a) /\ c \notin Open(a)
    BY <1>1, FiniteParts DEF Counted, Open
  <2>2. Counted(b) = IF over THEN Counted(a) ELSE Counted(a) \cup {c}
    BY <1>4, <1>6 DEF Counted
  <2>3. Open(b) = IF over THEN Open(a) ELSE Open(a) \cup {c}
    BY <1>4, <1>6 DEF Open
  <2>4. Cardinality(Counted(a) \cup {c}) = Cardinality(Counted(a)) + 1
        /\ Cardinality(Open(a) \cup {c}) = Cardinality(Open(a)) + 1
    BY <2>1, FS_AddElement
  <2> QED BY <1>1, <2>2, <2>3, <2>4, FiniteParts
<1>11. Balanced(b) /\ Capped(b)
  <2>1. /\ a.stats.live = Cardinality(Counted(a)) + Cardinality(DOMAIN a.quic)
        /\ Cardinality(Counted(a)) <= MaxStreams /\ Cardinality(DOMAIN a.quic) <= MaxStreams
        /\ DOMAIN b.quic = DOMAIN a.quic /\ MaxStreams \in Nat
    BY <1>1, <1>2, AssemblerAssumption DEF Balanced, Capped
  <2>2. CASE over
    BY ONLY <2>1, <2>2, <1>5, <1>10 DEF Balanced, Capped
  <2>3. CASE ~over
    <3>1. ~(a.stats.live >= MaxStreams)
      BY <2>3 DEF over, AtCap
    <3> QED BY ONLY <2>1, <2>3, <1>5, <1>10, <3>1 DEF Balanced, Capped
  <2> QED BY <2>2, <2>3
<1>12. Partitioned(b)
  <2>1. Decided(a) \in Nat /\ Decided(b) = Decided(a) /\ a.stats.streams \in Nat
    BY <1>1, <1>5 DEF Decided, Stats
  <2>2. OpenQUIC(b) = OpenQUIC(a)
    BY <1>2 DEF OpenQUIC
  <2>3. Pending(a) \in Nat /\ Pending(b) \in Nat /\ Pending(b) <= Pending(a) + 1
    BY ONLY <1>10, <2>2 DEF Pending
  <2>4. Decided(a) + Pending(a) <= a.stats.streams
    BY <1>1 DEF Partitioned
  <2> QED BY ONLY <1>5, <2>1, <2>3, <2>4 DEF Partitioned
<1> QED BY <1>6, <1>8, <1>9, <1>11, <1>12 DEF IInv, b

\* Handing a segment to gopacket for a tracked connection keeps the invariant.
LEMMA AssembleOK ==
  ASSUME NEW a, IInv(a), NEW c \in DOMAIN a.tcp, NEW from \in Sides,
         NEW data \in Seq(Unit), NEW fin \in BOOLEAN, NEW ts \in Nat
  PROVE  IInv(Assemble(a, c, from, data, fin, ts))
<1> DEFINE s == a.tcp[c]
           i == IF from = s.first THEN 0 ELSE 1
           r == [s EXCEPT !.lastSeen = IF ts > @ THEN ts ELSE @]
           seen == [a EXCEPT !.tcp[c].lastSeen = IF ts > @ THEN ts ELSE @]
           fed == ReassembledSG(seen, c, i, data, ts)
           half == [fed EXCEPT !.tcp[c].done[i] = TRUE]
<1>1. AsmOK(a) /\ s \in Stream /\ StreamCoherent(s, a.reports[c]) /\ i \in Dirs
  BY DEF IInv, AsmOK, Coherent, Dirs
<1>2. /\ DOMAIN seen = Fields
      /\ seen.tcp = [a.tcp EXCEPT ![c] = r]
      /\ seen.quic = a.quic /\ seen.lastFlush = a.lastFlush
      /\ seen.stats = a.stats /\ seen.reports = a.reports
  BY <1>1 DEF AsmOK, Fields
<1>3. /\ r \in Stream
      /\ r.emitted = s.emitted /\ r.rejected = s.rejected /\ r.counted = s.counted
      /\ r.haveCH = s.haveCH /\ r.buf = s.buf
  BY <1>1 DEF Stream
<1>4. /\ r.emitted => r.haveCH
      /\ r.rejected => ~r.haveCH
      /\ \A j \in Dirs : Len(r.buf[j]) <= MaxPrefix
  <2> HIDE DEF r
  <2> QED BY <1>1, <1>3 DEF StreamCoherent
<1>5. IInv(seen) /\ DOMAIN seen.tcp = DOMAIN a.tcp
  <2> HIDE DEF seen, r, s
  <2> QED BY <1>2, <1>3, <1>4, QuietStep DEF s
<1>6. IInv(fed) /\ DOMAIN fed.tcp = DOMAIN a.tcp
  <2> HIDE DEF seen, i
  <2> QED BY <1>1, <1>5, ReassembledSGOK
<1>7. IInv(ReassemblyComplete(fed, {c}))
  <2> HIDE DEF fed
  <2>1. {c} \in SUBSET DOMAIN fed.tcp
    BY <1>6
  <2> QED BY <1>6, <2>1, ReassemblyCompleteOK
<1>8. IInv(half)
  <2> HIDE DEF fed, i
  <2> DEFINE t == fed.tcp[c]
             u == [t EXCEPT !.done = [@ EXCEPT ![i] = TRUE]]
  <2>1. AsmOK(fed) /\ t \in Stream /\ StreamCoherent(t, fed.reports[c])
    BY <1>6 DEF IInv, AsmOK, Coherent
  <2>2. /\ DOMAIN half = Fields
        /\ half.tcp = [fed.tcp EXCEPT ![c] = u]
        /\ half.quic = fed.quic /\ half.lastFlush = fed.lastFlush
        /\ half.stats = fed.stats /\ half.reports = fed.reports
    BY <2>1 DEF AsmOK, Fields
  <2>3. /\ u \in Stream
        /\ u.emitted = t.emitted /\ u.rejected = t.rejected /\ u.counted = t.counted
        /\ u.haveCH = t.haveCH /\ u.buf = t.buf
    <3>1. t.done \in [Dirs -> BOOLEAN]
      BY <2>1 DEF Stream
    <3>2. [t.done EXCEPT ![i] = TRUE] \in [Dirs -> BOOLEAN]
      BY <1>1, <3>1
    <3> QED BY <2>1, <3>2 DEF Stream
  <2>4. /\ u.emitted => u.haveCH
        /\ u.rejected => ~u.haveCH
        /\ \A j \in Dirs : Len(u.buf[j]) <= MaxPrefix
    <3> HIDE DEF u
    <3> QED BY <2>1, <2>3 DEF StreamCoherent
  <2> HIDE DEF half, u, t
  <2> QED BY <1>6, <2>2, <2>3, <2>4, QuietStep DEF t
<1>9. Assemble(a, c, from, data, fin, ts) \in {seen, fed, ReassemblyComplete(fed, {c}), half}
  BY DEF Assemble
<1> HIDE DEF seen, fed, half
<1> QED BY <1>5, <1>6, <1>7, <1>8, <1>9

\* A step on lastFlush and StreamsDropped alone keeps the invariant.
LEMMA SameCore ==
  ASSUME NEW a, IInv(a), NEW b,
         DOMAIN b = Fields, b.tcp = a.tcp, b.quic = a.quic, b.reports = a.reports,
         b.lastFlush \in Nat, b.stats \in Stats,
         b.stats.live = a.stats.live, b.stats.streams = a.stats.streams,
         b.stats.tlsFlows = a.stats.tlsFlows, b.stats.rejectedTCP = a.stats.rejectedTCP
  PROVE  IInv(b)
<1>1. AsmOK(a) /\ Coherent(a) /\ Balanced(a) /\ Capped(a) /\ Partitioned(a)
  BY DEF IInv
<1>2. AsmOK(b)
  BY <1>1 DEF AsmOK
<1>3. Coherent(b)
  BY <1>1 DEF Coherent
<1>4. Counted(b) = Counted(a) /\ Open(b) = Open(a) /\ OpenQUIC(b) = OpenQUIC(a)
  BY DEF Counted, Open, OpenQUIC
<1>5. Balanced(b) /\ Capped(b)
  BY <1>1, <1>4 DEF Balanced, Capped
<1>6. Decided(b) = Decided(a) /\ Pending(b) = Pending(a)
  BY <1>4 DEF Decided, Pending
<1>7. Partitioned(b)
  BY <1>1, <1>6 DEF Partitioned
<1> QED BY <1>2, <1>3, <1>5, <1>7 DEF IInv

\* trackTime keeps the invariant.
LEMMA TrackTimeOK ==
  ASSUME NEW a, IInv(a), NEW ts \in Nat
  PROVE  IInv(TrackTime(a, ts)) /\ TrackTime(a, ts).tcp = a.tcp
<1> DEFINE b == TrackTime(a, ts)
<1>1. AsmOK(a)
  BY DEF IInv
<1>2. /\ DOMAIN b = Fields /\ b.tcp = a.tcp /\ b.quic = a.quic /\ b.reports = a.reports
      /\ b.stats = a.stats /\ b.lastFlush \in Nat /\ b.stats \in Stats
  BY <1>1 DEF TrackTime, AsmOK, Fields
<1> HIDE DEF b
<1> QED BY <1>2, SameCore DEF b

\* flushQUIC keeps the invariant, whatever its cutoff.
LEMMA FlushQUICOK ==
  ASSUME NEW a, IInv(a), NEW t
  PROVE  IInv(FlushQUIC(a, t))
<1> DEFINE S == {q \in DOMAIN a.quic : a.quic[q].flow.lastSeen <= t}
           emits == {q \in S : a.quic[q].haveCH /\ ~a.quic[q].emitted}
           b == FlushQUIC(a, t)
<1>1. AsmOK(a) /\ Coherent(a) /\ Balanced(a) /\ Capped(a) /\ Partitioned(a)
      /\ S \subseteq DOMAIN a.quic /\ S \subseteq Tuples
  BY DEF IInv, AsmOK
<1>2. /\ DOMAIN b = Fields
      /\ b.tcp = a.tcp /\ b.lastFlush = a.lastFlush
      /\ b.quic = Without(a.quic, S)
      /\ b.stats = [a.stats EXCEPT !.tlsFlows = @ + Cardinality(emits),
                                   !.live = @ - Cardinality(S)]
      /\ b.reports = [x \in DOMAIN a.reports |-> IF x \in emits
                        THEN Append(a.reports[x], a.quic[x].flow) ELSE a.reports[x]]
  BY <1>1 DEF FlushQUIC, Ending, AsmOK, Fields
<1>3. /\ DOMAIN b.quic = DOMAIN a.quic \ S
      /\ \A q \in DOMAIN b.quic : b.quic[q] = a.quic[q]
  <2> HIDE DEF S
  <2> QED BY <1>2 DEF Without
<1>0. emits \subseteq S
  OBVIOUS
<1>6. \A q \in emits : /\ a.reports[q] = <<>> /\ ~a.quic[q].emitted
                       /\ a.quic[q].flow \in Flow
  <2>1. \A q \in emits : q \in DOMAIN a.quic /\ ~a.quic[q].emitted
    OBVIOUS
  <2> HIDE DEF emits
  <2> QED BY <1>1, <2>1 DEF Coherent, AsmOK, QUICFlowOK
<1>13. \A q \in emits : q \in OpenQUIC(a)
  BY DEF OpenQUIC
<1> HIDE DEF S, emits, b
<1>4. /\ IsFiniteSet(emits) /\ Cardinality(emits) \in Nat
      /\ IsFiniteSet(S) /\ Cardinality(S) \in Nat
  <2>1. emits \subseteq DOMAIN a.quic /\ S \subseteq DOMAIN a.quic
    BY <1>0, <1>1
  <2> QED BY <1>1, <2>1, FiniteParts, FS_Subset, FS_CardinalityType
<1>5. /\ b.stats \in Stats
      /\ b.stats.live = a.stats.live - Cardinality(S)
      /\ b.stats.streams = a.stats.streams
      /\ b.stats.tlsFlows = a.stats.tlsFlows + Cardinality(emits)
      /\ b.stats.rejectedTCP = a.stats.rejectedTCP
  <2>1. a.stats \in Stats
    BY <1>1 DEF AsmOK
  <2>2. b.stats = [a.stats EXCEPT !.tlsFlows = @ + Cardinality(emits),
                                  !.live = @ - Cardinality(S)]
    BY <1>2
  <2>3. PICK n \in Nat : n = a.stats.tlsFlows + Cardinality(emits)
    <3>1. a.stats.tlsFlows \in Nat
      BY <2>1 DEF Stats
    <3> QED BY <1>4, <3>1
  <2>4. PICK m \in Int : m = a.stats.live - Cardinality(S)
    <3>1. a.stats.live \in Int
      BY <2>1 DEF Stats
    <3> QED BY <1>4, <3>1
  <2>5. b.stats = [a.stats EXCEPT !.tlsFlows = n, !.live = m]
    BY <2>2, <2>3, <2>4
  <2>6. /\ b.stats \in Stats
        /\ b.stats.live = m /\ b.stats.tlsFlows = n
        /\ b.stats.streams = a.stats.streams
        /\ b.stats.rejectedTCP = a.stats.rejectedTCP
    BY <2>1, <2>5 DEF Stats
  <2> QED BY <2>3, <2>4, <2>6
<1>7. /\ b.reports \in [Conns \cup Tuples -> Seq(Flow)]
      /\ \A x \in Conns \cup Tuples : Len(b.reports[x]) <= 1
      /\ \A x \in (Conns \cup Tuples) \ S : b.reports[x] = a.reports[x]
  <2>2. a.reports \in [Conns \cup Tuples -> Seq(Flow)]
        /\ \A x \in Conns \cup Tuples : Len(a.reports[x]) <= 1
    BY <1>1 DEF AsmOK, Coherent
  <2>3. \A x \in emits : Append(a.reports[x], a.quic[x].flow) = <<a.quic[x].flow>>
    BY <1>6, FirstReport
  <2>4. \A x \in emits : <<a.quic[x].flow>> \in Seq(Flow) /\ Len(<<a.quic[x].flow>>) = 1
    BY <1>6, FirstReport
  <2>5. DOMAIN a.reports = Conns \cup Tuples
    BY <2>2
  <2>6. b.reports = [x \in Conns \cup Tuples |-> IF x \in emits THEN <<a.quic[x].flow>>
                                                             ELSE a.reports[x]]
    BY <1>2, <2>3, <2>5
  <2>7. \A x \in Conns \cup Tuples : b.reports[x] \in Seq(Flow) /\ Len(b.reports[x]) <= 1
    <3> TAKE x \in Conns \cup Tuples
    <3>1. CASE x \in emits
      BY <2>4, <2>6, <3>1
    <3>2. CASE x \notin emits
      BY <2>2, <2>6, <3>2
    <3> QED BY <3>1, <3>2
  <2>8. \A x \in (Conns \cup Tuples) \ S : b.reports[x] = a.reports[x]
    BY <1>0, <2>6
  <2> QED BY <2>6, <2>7, <2>8
<1>8. AsmOK(b)
  BY <1>1, <1>2, <1>3, <1>5, <1>7 DEF AsmOK
<1>9. Coherent(b)
  <2>1. \A q \in DOMAIN b.quic : b.reports[q] = a.reports[q]
    BY <1>1, <1>3, <1>7 DEF AsmOK
  <2>2. \A c \in DOMAIN b.tcp : b.reports[c] = a.reports[c]
    BY <1>1, <1>2, <1>7, AssemblerAssumption DEF AsmOK
  <2> QED BY <1>1, <1>2, <1>3, <1>7, <2>1, <2>2 DEF Coherent
<1>10. /\ Cardinality(DOMAIN b.quic) = Cardinality(DOMAIN a.quic) - Cardinality(S)
       /\ Cardinality(Counted(a)) \in Nat /\ Cardinality(DOMAIN a.quic) \in Nat
       /\ Counted(b) = Counted(a)
  <2>1. /\ DOMAIN a.quic = DOMAIN b.quic \cup S
        /\ DOMAIN b.quic \cap S = {}
    BY <1>1, <1>3
  <2>2. IsFiniteSet(DOMAIN b.quic) /\ Cardinality(Counted(a)) \in Nat
        /\ Cardinality(DOMAIN a.quic) \in Nat
    BY <1>1, <1>8, FiniteParts
  <2>3. Counted(b) = Counted(a)
    BY <1>2 DEF Counted
  <2> QED BY <1>4, <2>1, <2>2, <2>3, DisjointUnion, ZenonT(40)
<1>11. Balanced(b) /\ Capped(b)
  <2>1. a.stats.live = Cardinality(Counted(a)) + Cardinality(DOMAIN a.quic)
        /\ Cardinality(Counted(a)) <= MaxStreams /\ Cardinality(DOMAIN a.quic) <= MaxStreams
    BY <1>1 DEF Balanced, Capped
  <2>2. MaxStreams \in Nat
    BY AssemblerAssumption
  <2> QED BY ONLY <1>4, <1>5, <1>10, <2>1, <2>2 DEF Balanced, Capped
<1>12. Partitioned(b)
  <2>1. /\ emits \subseteq OpenQUIC(a) \ OpenQUIC(b)
        /\ OpenQUIC(b) \subseteq OpenQUIC(a)
        /\ Open(b) = Open(a)
    <3>1. \A q \in emits : q \notin DOMAIN b.quic
      BY <1>0, <1>3
    <3> QED BY <1>2, <1>3, <1>13, <3>1 DEF Open, OpenQUIC
  <2>2. Cardinality(OpenQUIC(b)) + Cardinality(emits) <= Cardinality(OpenQUIC(a))
    BY <1>1, <1>4, <1>8, <2>1, FiniteParts, DisjointParts
  <2>3. /\ Cardinality(Open(a)) \in Nat /\ Cardinality(OpenQUIC(b)) \in Nat
        /\ Cardinality(OpenQUIC(a)) \in Nat
    BY <1>1, <1>8, FiniteParts
  <2>4. a.stats.tlsFlows \in Nat /\ a.stats.rejectedTCP \in Nat /\ a.stats.streams \in Nat
    BY <1>1 DEF AsmOK, Stats
  <2>5. /\ Decided(a) \in Nat /\ Decided(b) \in Nat
        /\ Decided(b) = Decided(a) + Cardinality(emits)
    BY ONLY <1>4, <1>5, <2>4 DEF Decided
  <2>6. /\ Pending(a) \in Nat /\ Pending(b) \in Nat
        /\ Pending(b) + Cardinality(emits) <= Pending(a)
    BY ONLY <1>4, <2>1, <2>2, <2>3 DEF Pending
  <2>7. Decided(a) + Pending(a) <= a.stats.streams
    BY <1>1 DEF Partitioned
  <2> QED BY ONLY <1>4, <1>5, <2>4, <2>5, <2>6, <2>7 DEF Partitioned
<1> QED BY <1>8, <1>9, <1>11, <1>12 DEF IInv, b

\* FlushOlderThan keeps the invariant, whatever its cutoff.
LEMMA FlushOlderThanOK ==
  ASSUME NEW a, IInv(a), NEW t
  PROVE  IInv(FlushOlderThan(a, t))
<1> DEFINE S == {c \in DOMAIN a.tcp : a.tcp[c].lastSeen < t}
<1>1. S \in SUBSET DOMAIN a.tcp
  OBVIOUS
<1> HIDE DEF S
<1>2. IInv(ReassemblyComplete(a, S))
  BY <1>1, ReassemblyCompleteOK
<1>3. IInv(FlushQUIC(ReassemblyComplete(a, S), t))
  BY <1>2, FlushQUICOK
<1> QED BY <1>3 DEF FlushOlderThan, FlushCloseOlderThan, S

\* The sweep at the end of Packet keeps the invariant.
LEMMA PacketFlushOK ==
  ASSUME NEW a, IInv(a), NEW ts \in Nat
  PROVE  IInv(PacketFlush(a, ts))
<1> DEFINE f == FlushOlderThan(a, ts - CloseTimeout)
           b == [f EXCEPT !.lastFlush = ts]
<1>1. IInv(f)
  BY FlushOlderThanOK
<1> HIDE DEF f
<1>2. AsmOK(f)
  BY <1>1 DEF IInv
<1>3. /\ DOMAIN b = Fields /\ b.tcp = f.tcp /\ b.quic = f.quic /\ b.reports = f.reports
      /\ b.stats = f.stats /\ b.lastFlush \in Nat /\ b.stats \in Stats
  BY <1>2 DEF AsmOK, Fields
<1> HIDE DEF b
<1>4. IInv(b)
  BY <1>1, <1>3, SameCore
<1>5. PacketFlush(a, ts) \in {a, b}
  BY DEF PacketFlush, f, b
<1> QED BY <1>4, <1>5

(***************************************************************************)
(* The functions of a QUIC flow.                                           *)
(***************************************************************************)
UndecidedFlow(f) == IF ~f.emitted THEN 1 ELSE 0

\* A step that rewrites one QUIC flow keeps the invariant when the report and
\* the counters follow the flow's emitted flag.
LEMMA QUICStep ==
  ASSUME NEW a, IInv(a), NEW q \in DOMAIN a.quic, NEW f, NEW b,
         DOMAIN f = QUICFields, QUICFlowOK(f),
         DOMAIN b = Fields,
         b.quic = [a.quic EXCEPT ![q] = f],
         b.tcp = a.tcp, b.lastFlush = a.lastFlush,
         b.stats \in Stats, b.stats.live = a.stats.live, b.stats.streams = a.stats.streams,
         b.reports \in [Conns \cup Tuples -> Seq(Flow)],
         \A x \in (Conns \cup Tuples) \ {q} : b.reports[x] = a.reports[x],
         Len(b.reports[q]) <= 1,
         f.emitted => f.haveCH,
         f.emitted <=> b.reports[q] # <<>>,
         Decided(b) + UndecidedFlow(f) = Decided(a) + UndecidedFlow(a.quic[q])
  PROVE  IInv(b)
<1>1. /\ AsmOK(a) /\ Coherent(a) /\ Balanced(a) /\ Capped(a) /\ Partitioned(a)
      /\ q \in Tuples /\ q \notin Conns
  BY AssemblerAssumption DEF IInv, AsmOK
<1>2. /\ DOMAIN b.quic = DOMAIN a.quic
      /\ b.quic[q] = f
      /\ \A x \in DOMAIN a.quic : x # q => b.quic[x] = a.quic[x]
  OBVIOUS
<1>3. AsmOK(b)
  BY <1>1, <1>2 DEF AsmOK
<1>4. Coherent(b)
  <2>1. \A x \in DOMAIN b.tcp : StreamCoherent(b.tcp[x], b.reports[x])
    BY <1>1 DEF Coherent, AsmOK
  <2>2. \A x \in DOMAIN b.quic : /\ b.quic[x].emitted => b.quic[x].haveCH
                                 /\ b.quic[x].emitted <=> b.reports[x] # <<>>
    BY <1>1, <1>2 DEF Coherent, AsmOK
  <2>3. \A x \in Conns \cup Tuples : Len(b.reports[x]) <= 1
    BY <1>1 DEF Coherent
  <2> QED BY <2>1, <2>2, <2>3 DEF Coherent
<1>5. Counted(b) = Counted(a) /\ Open(b) = Open(a)
  BY DEF Counted, Open
<1>6. Balanced(b) /\ Capped(b)
  BY <1>1, <1>2, <1>5 DEF Balanced, Capped
<1>7. Partitioned(b)
  <2>1. OpenQUIC(a) \ {q} = OpenQUIC(b) \ {q}
    BY <1>2 DEF OpenQUIC
  <2>2. Cardinality(OpenQUIC(b)) = Cardinality(OpenQUIC(a)) - (IF q \in OpenQUIC(a) THEN 1 ELSE 0)
                                                            + (IF q \in OpenQUIC(b) THEN 1 ELSE 0)
    BY <2>1, <1>1, FiniteParts, OneChanged
  <2>3. /\ (IF q \in OpenQUIC(a) THEN 1 ELSE 0) = UndecidedFlow(a.quic[q])
        /\ (IF q \in OpenQUIC(b) THEN 1 ELSE 0) = UndecidedFlow(f)
    BY <1>2 DEF OpenQUIC, UndecidedFlow
  <2>4. /\ Cardinality(Open(a)) \in Nat /\ Cardinality(OpenQUIC(a)) \in Nat
        /\ Cardinality(OpenQUIC(b)) \in Nat
        /\ UndecidedFlow(f) \in Nat /\ UndecidedFlow(a.quic[q]) \in Nat
    BY <1>1, <1>3, FiniteParts DEF UndecidedFlow
  <2>5. Decided(a) \in Nat /\ Decided(b) \in Nat /\ a.stats.streams \in Nat
    <3>1. a.stats \in Stats /\ b.stats \in Stats
      BY <1>1, <1>3 DEF AsmOK
    <3> QED BY ONLY <3>1 DEF Stats, Decided
  <2>6. Cardinality(OpenQUIC(b)) + UndecidedFlow(a.quic[q])
          = Cardinality(OpenQUIC(a)) + UndecidedFlow(f)
    BY <2>2, <2>3, <2>4
  <2>7. /\ Pending(a) \in Nat /\ Pending(b) \in Nat
        /\ Pending(b) + UndecidedFlow(a.quic[q]) = Pending(a) + UndecidedFlow(f)
    BY ONLY <1>5, <2>4, <2>6 DEF Pending
  <2>8. Decided(b) + Pending(b) = Decided(a) + Pending(a)
    <3>1. Decided(b) + UndecidedFlow(f) = Decided(a) + UndecidedFlow(a.quic[q])
      OBVIOUS
    <3> QED BY ONLY <2>4, <2>5, <2>7, <3>1
  <2> QED BY <1>1, <2>8 DEF Partitioned
<1> QED BY <1>3, <1>4, <1>6, <1>7 DEF IInv

\* A step that rewrites one QUIC flow and does not report it keeps the invariant.
LEMMA QuietQUICStep ==
  ASSUME NEW a, IInv(a), NEW q \in DOMAIN a.quic, NEW f, NEW b,
         DOMAIN f = QUICFields, QUICFlowOK(f),
         DOMAIN b = Fields,
         b.quic = [a.quic EXCEPT ![q] = f],
         b.tcp = a.tcp, b.lastFlush = a.lastFlush, b.stats = a.stats, b.reports = a.reports,
         f.emitted = a.quic[q].emitted,
         f.emitted => f.haveCH
  PROVE  IInv(b) /\ DOMAIN b.quic = DOMAIN a.quic /\ b.quic[q] = f
<1>1. AsmOK(a) /\ Coherent(a) /\ q \in Tuples
  BY DEF IInv, AsmOK
<1>2. /\ b.stats \in Stats
      /\ b.reports \in [Conns \cup Tuples -> Seq(Flow)]
      /\ a.quic[q].emitted <=> a.reports[q] # <<>>
      /\ Len(b.reports[q]) <= 1
  BY <1>1 DEF AsmOK, Coherent
<1>3. f.emitted <=> b.reports[q] # <<>>
  BY <1>2
<1>4. Decided(b) + UndecidedFlow(f) = Decided(a) + UndecidedFlow(a.quic[q])
  BY DEF Decided, UndecidedFlow
<1>5. IInv(b)
  BY <1>2, <1>3, <1>4, QUICStep
<1> QED BY <1>5

\* emitQUIC keeps the invariant.
LEMMA EmitQUICOK ==
  ASSUME NEW a, IInv(a), NEW q \in DOMAIN a.quic
  PROVE  IInv(EmitQUIC(a, q))
<1> DEFINE f == a.quic[q]
           r == [f EXCEPT !.emitted = TRUE]
           b == EmitQUIC(a, q)
<1>1. CASE f.emitted \/ ~f.haveCH
  BY <1>1 DEF EmitQUIC
<1>2. CASE ~(f.emitted \/ ~f.haveCH)
  <2>1. AsmOK(a) /\ Coherent(a) /\ q \in Tuples /\ DOMAIN f = QUICFields /\ QUICFlowOK(f)
    BY DEF IInv, AsmOK
  <2>2. DOMAIN b = Fields
    BY <1>2, <2>1 DEF EmitQUIC, AsmOK
  <2>3. /\ b.tcp = a.tcp /\ b.lastFlush = a.lastFlush
        /\ b.quic = [a.quic EXCEPT ![q] = r]
        /\ b.stats = [a.stats EXCEPT !.tlsFlows = @ + 1]
        /\ b.reports = [a.reports EXCEPT ![q] = Append(@, f.flow)]
    BY <1>2, <2>1 DEF EmitQUIC, AsmOK, Fields
  <2>4. /\ DOMAIN r = QUICFields /\ r.emitted = TRUE
        /\ r.haveCH = f.haveCH /\ r.flow = f.flow /\ f.flow \in Flow
        /\ r.haveSH = f.haveSH /\ r.origDCID = f.origDCID
    BY <2>1 DEF QUICFields, QUICFlowOK
  <2>5. QUICFlowOK(r)
    <3> HIDE DEF r, f
    <3> QED BY <2>1, <2>4 DEF QUICFlowOK
  <2>6. /\ b.stats \in Stats
        /\ b.stats.live = a.stats.live /\ b.stats.streams = a.stats.streams
        /\ b.stats.tlsFlows = a.stats.tlsFlows + 1
        /\ b.stats.rejectedTCP = a.stats.rejectedTCP
    <3> DEFINE st == [a.stats EXCEPT !.tlsFlows = @ + 1]
    <3>1. a.stats \in Stats
      BY <2>1 DEF AsmOK
    <3>2. /\ st \in Stats
          /\ st.live = a.stats.live /\ st.streams = a.stats.streams
          /\ st.tlsFlows = a.stats.tlsFlows + 1
          /\ st.rejectedTCP = a.stats.rejectedTCP
      BY <3>1 DEF Stats
    <3> HIDE DEF b
    <3> QED BY <2>3, <3>2
  <2>7. a.reports[q] = <<>> /\ ~f.emitted
    BY <1>2, <2>1 DEF Coherent
  <2>8. /\ b.reports \in [Conns \cup Tuples -> Seq(Flow)]
        /\ b.reports[q] = <<f.flow>>
        /\ \A x \in (Conns \cup Tuples) \ {q} : b.reports[x] = a.reports[x]
    BY <2>1, <2>3, <2>4, <2>7 DEF AsmOK
  <2>9. Len(b.reports[q]) <= 1 /\ b.reports[q] # <<>>
    BY <2>4, <2>8, FirstReport
  <2>10. Decided(b) + UndecidedFlow(r) = Decided(a) + UndecidedFlow(f)
    <3>1. UndecidedFlow(r) = 0 /\ UndecidedFlow(f) = 1
      BY <2>4, <2>7 DEF UndecidedFlow
    <3>2. a.stats.tlsFlows \in Nat /\ a.stats.rejectedTCP \in Nat
      BY <2>1 DEF AsmOK, Stats
    <3>3. Decided(b) = Decided(a) + 1 /\ Decided(a) \in Nat
      BY ONLY <2>6, <3>2 DEF Decided
    <3> QED BY ONLY <3>1, <3>3
  <2>11. IInv(b)
    <3>1. r.emitted => r.haveCH
      BY <1>2, <2>4
    <3>2. r.emitted <=> b.reports[q] # <<>>
      BY <2>4, <2>9
    <3> HIDE DEF b, r, f
    <3> QED BY <2>2, <2>3, <2>4, <2>5, <2>6, <2>8, <2>9, <2>10, <3>1, <3>2, QUICStep, ZenonT(40) DEF f
  <2> QED BY <2>11
<1> QED BY <1>1, <1>2

\* quicParse keeps the invariant.
LEMMA QUICParseOK ==
  ASSUME NEW a, IInv(a), NEW q \in DOMAIN a.quic
  PROVE  IInv(QUICParse(a, q))
<1> DEFINE f == a.quic[q]
           ch == f.haveCH \/ FindClientHelloRaw(Prefix(f.crypto["client"]))
           sh == FindServerHelloRaw(Prefix(f.crypto["server"]))
           b == [a EXCEPT !.quic[q].haveCH = ch]
           d == [b EXCEPT !.quic[q].haveSH = TRUE, !.quic[q].flow.server = sh]
           r == [f EXCEPT !.haveCH = ch]
<1>1. AsmOK(a) /\ Coherent(a) /\ q \in Tuples /\ DOMAIN f = QUICFields /\ QUICFlowOK(f)
  BY DEF IInv, AsmOK
<1>2. sh \in Server
  BY FindServerHelloType
<1>3. ch \in BOOLEAN /\ (f.haveCH => ch)
  OBVIOUS
<1> HIDE DEF ch, sh
<1>4. /\ DOMAIN b = Fields
      /\ b.tcp = a.tcp /\ b.lastFlush = a.lastFlush /\ b.stats = a.stats /\ b.reports = a.reports
      /\ b.quic = [a.quic EXCEPT ![q] = r]
  BY <1>1 DEF AsmOK, Fields
<1>5. /\ DOMAIN r = QUICFields /\ r.haveCH = ch /\ r.emitted = f.emitted /\ r.haveSH = f.haveSH
      /\ r.flow = f.flow /\ r.origDCID = f.origDCID
  BY <1>1 DEF QUICFields
<1>6. QUICFlowOK(r) /\ (r.emitted => r.haveCH)
  <2>1. f.emitted => f.haveCH
    BY <1>1 DEF Coherent
  <2> HIDE DEF r, f
  <2> QED BY <1>1, <1>3, <1>5, <2>1 DEF QUICFlowOK
<1>7. IInv(b) /\ DOMAIN b.quic = DOMAIN a.quic /\ b.quic[q] = r
  <2> HIDE DEF b, r, f
  <2> QED BY <1>4, <1>5, <1>6, QuietQUICStep DEF f
<1> DEFINE G == [r.flow EXCEPT !.server = sh]
           u == [r EXCEPT !.haveSH = TRUE, !.flow = G]
<1>8. G \in Flow
  <2>1. r.flow \in Flow
    BY <1>6 DEF QUICFlowOK
  <2> HIDE DEF r
  <2> QED BY <1>2, <2>1 DEF Flow
<1>9. /\ DOMAIN d = Fields
      /\ d.tcp = b.tcp /\ d.lastFlush = b.lastFlush /\ d.stats = b.stats /\ d.reports = b.reports
      /\ d.quic = [b.quic EXCEPT ![q] = u]
  <2> HIDE DEF b, r
  <2>1. AsmOK(b) /\ q \in DOMAIN b.quic
    BY <1>7 DEF IInv
  <2> QED BY <2>1, <1>5, <1>7 DEF AsmOK, Fields, QUICFields
<1>10. /\ DOMAIN u = QUICFields /\ u.haveCH = r.haveCH /\ u.emitted = r.emitted /\ u.haveSH = TRUE
       /\ u.flow = G /\ u.origDCID = r.origDCID
  <2> HIDE DEF r, G
  <2> QED BY <1>5 DEF QUICFields
<1>11. QUICFlowOK(u)
  <2> HIDE DEF r, G, u
  <2> QED BY <1>6, <1>8, <1>10 DEF QUICFlowOK
<1>12. IInv(d) /\ DOMAIN d.quic = DOMAIN a.quic
  <2> HIDE DEF b, d, r, u, G
  <2> QED BY <1>6, <1>7, <1>9, <1>10, <1>11, QuietQUICStep
<1>13. IInv(EmitQUIC(d, q))
  <2> HIDE DEF d
  <2> QED BY <1>12, EmitQUICOK
<1>14. QUICParse(a, q) \in {b, d, EmitQUIC(d, q)}
  BY DEF QUICParse, ch, sh
<1> HIDE DEF b, d
<1> QED BY <1>7, <1>12, <1>13, <1>14

\* Registering a QUIC flow below the cap keeps the invariant.
LEMMA NewQUICFlowOK ==
  ASSUME NEW a, IInv(a), NEW q \in Tuples \ DOMAIN a.quic, NEW p \in Initial, NEW ts \in Nat,
         Cardinality(DOMAIN a.quic) < MaxStreams
  PROVE  /\ IInv(NewQUICFlow(a, q, p, ts))
         /\ DOMAIN NewQUICFlow(a, q, p, ts).quic = DOMAIN a.quic \cup {q}
<1> DEFINE f == [origDCID |-> p.dcid,
                 crypto |-> [side \in Sides |-> EmptyCrypto],
                 haveCH |-> FALSE, haveSH |-> FALSE, emitted |-> FALSE,
                 flow |-> [client |-> p.from, server |-> NoServer,
                           truncated |-> FALSE, lastSeen |-> ts]]
           b == NewQUICFlow(a, q, p, ts)
<1>1. /\ AsmOK(a) /\ Coherent(a) /\ Balanced(a) /\ Capped(a) /\ Partitioned(a)
      /\ a.stats \in Stats /\ a.reports \in [Conns \cup Tuples -> Seq(Flow)]
      /\ q \notin Conns
  BY AssemblerAssumption DEF IInv, AsmOK
<1>2. /\ DOMAIN b = Fields
      /\ b.tcp = a.tcp /\ b.lastFlush = a.lastFlush
      /\ b.quic = [x \in DOMAIN a.quic \cup {q} |-> IF x = q THEN f ELSE a.quic[x]]
      /\ b.stats = [a.stats EXCEPT !.streams = @ + 1, !.live = @ + 1]
      /\ b.reports = [a.reports EXCEPT ![q] = <<>>]
  <2>1. DOMAIN a = Fields
    BY <1>1 DEF AsmOK
  <2> QED BY <2>1 DEF NewQUICFlow, Fields
<1>3. DOMAIN f = QUICFields /\ QUICFlowOK(f) /\ ~f.emitted /\ ~f.haveCH
  <2>1. NoServer \in Server /\ p.from \in Sides /\ p.dcid \in DCIDs
    BY DEF NoServer, Server, Initial
  <2>2. f.flow \in Flow
    BY <2>1 DEF Flow
  <2> QED BY <2>1, <2>2 DEF QUICFields, QUICFlowOK
<1> HIDE DEF b, f
<1>5. /\ b.stats \in Stats
      /\ b.stats.tlsFlows = a.stats.tlsFlows /\ b.stats.rejectedTCP = a.stats.rejectedTCP
      /\ b.stats.streams = a.stats.streams + 1
      /\ b.stats.live = a.stats.live + 1
  <2>1. a.stats.streams + 1 \in Nat /\ a.stats.live + 1 \in Int
    BY <1>1 DEF Stats
  <2> QED BY <1>1, <1>2, <2>1 DEF Stats
<1>6. /\ DOMAIN b.quic = DOMAIN a.quic \cup {q}
      /\ b.quic[q] = f
      /\ \A x \in DOMAIN a.quic : b.quic[x] = a.quic[x]
  BY <1>2
<1>7. /\ b.reports \in [Conns \cup Tuples -> Seq(Flow)]
      /\ b.reports[q] = <<>>
      /\ \A x \in (Conns \cup Tuples) \ {q} : b.reports[x] = a.reports[x]
  BY <1>1, <1>2
<1>8. AsmOK(b)
  BY <1>1, <1>2, <1>3, <1>5, <1>6, <1>7 DEF AsmOK
<1>9. Coherent(b)
  <2>1. \A c \in DOMAIN b.tcp : StreamCoherent(b.tcp[c], b.reports[c])
    BY <1>1, <1>2, <1>7 DEF Coherent, AsmOK
  <2>2. \A x \in DOMAIN b.quic : /\ b.quic[x].emitted => b.quic[x].haveCH
                                 /\ b.quic[x].emitted <=> b.reports[x] # <<>>
    BY <1>1, <1>3, <1>6, <1>7 DEF Coherent, AsmOK
  <2>3. \A x \in Conns \cup Tuples : Len(b.reports[x]) <= 1
    <3> SUFFICES ASSUME NEW x \in Conns \cup Tuples PROVE Len(b.reports[x]) <= 1
      OBVIOUS
    <3>1. CASE x = q
      <4>1. Len(<<>>) = 0
        OBVIOUS
      <4> QED BY <1>7, <3>1, <4>1
    <3>2. CASE x # q
      BY <1>1, <1>7, <3>2 DEF Coherent
    <3> QED BY <3>1, <3>2
  <2> QED BY <2>1, <2>2, <2>3 DEF Coherent
<1>10. /\ Cardinality(Counted(a)) \in Nat /\ Cardinality(DOMAIN a.quic) \in Nat
       /\ Cardinality(Open(a)) \in Nat /\ Cardinality(OpenQUIC(a)) \in Nat
       /\ Counted(b) = Counted(a) /\ Open(b) = Open(a)
       /\ Cardinality(DOMAIN b.quic) = Cardinality(DOMAIN a.quic) + 1
       /\ Cardinality(OpenQUIC(b)) = Cardinality(OpenQUIC(a)) + 1
  <2>1. IsFiniteSet(DOMAIN a.quic) /\ IsFiniteSet(OpenQUIC(a)) /\ q \notin OpenQUIC(a)
    BY <1>1, FiniteParts DEF OpenQUIC
  <2>2. OpenQUIC(b) = OpenQUIC(a) \cup {q}
    BY <1>3, <1>6 DEF OpenQUIC
  <2>3. Counted(b) = Counted(a) /\ Open(b) = Open(a)
    BY <1>2 DEF Counted, Open
  <2>4. Cardinality(DOMAIN a.quic \cup {q}) = Cardinality(DOMAIN a.quic) + 1
        /\ Cardinality(OpenQUIC(a) \cup {q}) = Cardinality(OpenQUIC(a)) + 1
    BY <2>1, FS_AddElement
  <2> QED BY <1>1, <1>6, <2>2, <2>3, <2>4, FiniteParts
<1>11. Balanced(b) /\ Capped(b)
  <2>1. /\ a.stats.live = Cardinality(Counted(a)) + Cardinality(DOMAIN a.quic)
        /\ Cardinality(Counted(a)) <= MaxStreams /\ Cardinality(DOMAIN a.quic) < MaxStreams
        /\ MaxStreams \in Nat
    BY <1>1, AssemblerAssumption DEF Balanced, Capped
  <2> QED BY ONLY <2>1, <1>5, <1>10 DEF Balanced, Capped
<1>12. Partitioned(b)
  <2>1. Decided(a) \in Nat /\ Decided(b) = Decided(a) /\ a.stats.streams \in Nat
    BY <1>1, <1>5 DEF Decided, Stats
  <2>3. Pending(a) \in Nat /\ Pending(b) \in Nat /\ Pending(b) = Pending(a) + 1
    BY ONLY <1>10 DEF Pending
  <2>4. Decided(a) + Pending(a) <= a.stats.streams
    BY <1>1 DEF Partitioned
  <2> QED BY ONLY <1>5, <2>1, <2>3, <2>4 DEF Partitioned
<1> QED BY <1>6, <1>8, <1>9, <1>11, <1>12 DEF IInv, b

\* quicPacket keeps the invariant once the flow is registered.
LEMMA QUICInputOK ==
  ASSUME NEW a, IInv(a), NEW q \in DOMAIN a.quic, NEW p \in Initial, NEW ts \in Nat
  PROVE  IInv(QUICInput(a, q, p, ts))
<1> DEFINE f == a.quic[q]
           role == IF p.from = f.flow.client THEN "client" ELSE "server"
           b == [a EXCEPT !.quic[q].flow.lastSeen = IF ts > @ THEN ts ELSE @]
           d == [b EXCEPT !.quic[q].crypto[role] = AddFrames(@, p.frames)]
           G == [f.flow EXCEPT !.lastSeen = IF ts > @ THEN ts ELSE @]
           r == [f EXCEPT !.flow = G]
<1>1. AsmOK(a) /\ Coherent(a) /\ DOMAIN f = QUICFields /\ QUICFlowOK(f)
  BY DEF IInv, AsmOK
<1>2. f.flow \in Flow /\ (f.emitted => f.haveCH)
  BY <1>1 DEF QUICFlowOK, Coherent
<1>3. G \in Flow
  BY <1>2 DEF Flow
<1>4. /\ DOMAIN b = Fields
      /\ b.tcp = a.tcp /\ b.lastFlush = a.lastFlush /\ b.stats = a.stats /\ b.reports = a.reports
      /\ b.quic = [a.quic EXCEPT ![q] = r]
  BY <1>1 DEF AsmOK, Fields, QUICFields
<1>5. /\ DOMAIN r = QUICFields /\ r.haveCH = f.haveCH /\ r.emitted = f.emitted
      /\ r.haveSH = f.haveSH /\ r.flow = G /\ r.origDCID = f.origDCID
  <2> HIDE DEF G
  <2> QED BY <1>1 DEF QUICFields
<1>6. QUICFlowOK(r)
  <2> HIDE DEF r, f, G
  <2> QED BY <1>1, <1>3, <1>5 DEF QUICFlowOK
<1>7. IInv(b) /\ DOMAIN b.quic = DOMAIN a.quic /\ b.quic[q] = r
  <2> HIDE DEF b, r, f, G
  <2> QED BY <1>2, <1>4, <1>5, <1>6, QuietQUICStep DEF f
<1> DEFINE K == [r.crypto EXCEPT ![role] = AddFrames(@, p.frames)]
           u == [r EXCEPT !.crypto = K]
<1>9. /\ DOMAIN d = Fields
      /\ d.tcp = b.tcp /\ d.lastFlush = b.lastFlush /\ d.stats = b.stats /\ d.reports = b.reports
      /\ d.quic = [b.quic EXCEPT ![q] = u]
  <2> HIDE DEF b, r, role
  <2>1. AsmOK(b) /\ q \in DOMAIN b.quic
    BY <1>7 DEF IInv
  <2> QED BY <2>1, <1>5, <1>7 DEF AsmOK, Fields, QUICFields
<1>10. /\ DOMAIN u = QUICFields /\ u.haveCH = r.haveCH /\ u.emitted = r.emitted
       /\ u.haveSH = r.haveSH /\ u.flow = r.flow /\ u.origDCID = r.origDCID
  <2> HIDE DEF r, K
  <2> QED BY <1>5 DEF QUICFields
<1>11. QUICFlowOK(u) /\ (u.emitted => u.haveCH)
  <2> HIDE DEF r, u, f
  <2> QED BY <1>2, <1>5, <1>6, <1>10 DEF QUICFlowOK
<1>12. IInv(d) /\ DOMAIN d.quic = DOMAIN a.quic
  <2> HIDE DEF b, d, r, u
  <2> QED BY <1>7, <1>9, <1>10, <1>11, QuietQUICStep
<1>13. IInv(QUICParse(d, q))
  <2> HIDE DEF d
  <2> QED BY <1>12, QUICParseOK
<1>14. QUICInput(a, q, p, ts) \in {a, b, QUICParse(d, q)}
  BY DEF QUICInput
<1> HIDE DEF b, d
<1> QED BY <1>7, <1>13, <1>14

\* quicPacket keeps the invariant.
LEMMA QUICPacketOK ==
  ASSUME NEW a, IInv(a), NEW q \in Tuples, NEW p \in Initial, NEW ts \in Nat
  PROVE  IInv(QUICPacket(a, q, p, ts))
<1> DEFINE full == Cardinality(DOMAIN a.quic) >= MaxStreams
           b == [a EXCEPT !.stats.dropped = @ + 1]
<1>1. AsmOK(a) /\ a.stats \in Stats
  BY DEF IInv, AsmOK
<1>2. CASE q \in DOMAIN a.quic
  BY <1>2, QUICInputOK DEF QUICPacket
<1>3. CASE q \notin DOMAIN a.quic /\ full
  <2>1. /\ DOMAIN b = Fields /\ b.tcp = a.tcp /\ b.quic = a.quic /\ b.reports = a.reports
        /\ b.lastFlush = a.lastFlush /\ b.lastFlush \in Nat
        /\ b.stats = [a.stats EXCEPT !.dropped = @ + 1]
    BY <1>1 DEF AsmOK, Fields
  <2>2. /\ b.stats \in Stats
        /\ b.stats.live = a.stats.live /\ b.stats.streams = a.stats.streams
        /\ b.stats.tlsFlows = a.stats.tlsFlows /\ b.stats.rejectedTCP = a.stats.rejectedTCP
    <3> HIDE DEF b
    <3>1. a.stats.dropped + 1 \in Nat
      BY <1>1 DEF Stats
    <3> QED BY <1>1, <2>1, <3>1 DEF Stats
  <2>3. QUICPacket(a, q, p, ts) = b
    BY <1>3 DEF QUICPacket, QUICFull
  <2> HIDE DEF b
  <2> QED BY <2>1, <2>2, <2>3, SameCore
<1>4. CASE q \notin DOMAIN a.quic /\ ~full
  <2>1. Cardinality(DOMAIN a.quic) < MaxStreams
    <3>1. Cardinality(DOMAIN a.quic) \in Nat /\ MaxStreams \in Nat
      BY <1>1, FiniteParts, AssemblerAssumption
    <3> QED BY <1>4, <3>1
  <2>2. IInv(NewQUICFlow(a, q, p, ts)) /\ q \in DOMAIN NewQUICFlow(a, q, p, ts).quic
    BY <1>4, <2>1, NewQUICFlowOK
  <2>3. IInv(QUICInput(NewQUICFlow(a, q, p, ts), q, p, ts))
    BY <2>2, QUICInputOK
  <2> QED BY <1>4, <2>3 DEF QUICPacket, QUICFull
<1> QED BY <1>2, <1>3, <1>4

(***************************************************************************)
(* The specification.                                                      *)
(***************************************************************************)
Inv ==
  /\ IInv(asm)
  /\ wire \in [Conns -> [Sides -> Seq(Unit)]]
  /\ ignored \subseteq Conns \cup Tuples /\ live \in BOOLEAN
  /\ clock \in Nat \ {0}
  /\ closed \in BOOLEAN

\* A new Assembler satisfies the invariant.
LEMMA InitInv == Init => Inv
<1> SUFFICES ASSUME Init PROVE Inv
  OBVIOUS
<1> DEFINE st == [streams |-> 0, tlsFlows |-> 0, rejectedTCP |-> 0, dropped |-> 0, live |-> 0]
           reps == [x \in Conns \cup Tuples |-> <<>>]
<1>1. asm = [tcp |-> <<>>, quic |-> <<>>, lastFlush |-> 0, stats |-> st, reports |-> reps]
  BY DEF Init
<1>2. /\ asm.tcp = <<>> /\ asm.quic = <<>> /\ asm.lastFlush = 0
      /\ asm.stats = st /\ asm.reports = reps /\ DOMAIN asm = Fields
  <2> HIDE DEF st, reps
  <2> QED BY <1>1 DEF Fields
<1>3. DOMAIN asm.tcp = {} /\ DOMAIN asm.quic = {}
  BY <1>2
<1>4. st \in Stats /\ st.streams = 0 /\ st.tlsFlows = 0 /\ st.rejectedTCP = 0 /\ st.live = 0
  BY DEF Stats
<1>5. /\ reps \in [Conns \cup Tuples -> Seq(Flow)]
      /\ \A x \in Conns \cup Tuples : Len(reps[x]) <= 1
  <2>1. Len(<<>>) = 0 /\ <<>> \in Seq(Flow)
    OBVIOUS
  <2> QED BY <2>1
<1> HIDE DEF st, reps
<1>6. AsmOK(asm)
  BY <1>2, <1>3, <1>4, <1>5 DEF AsmOK
<1>7. Coherent(asm)
  BY <1>2, <1>3, <1>5 DEF Coherent
<1>8. /\ Cardinality({}) = 0
      /\ Counted(asm) = {} /\ Open(asm) = {} /\ OpenQUIC(asm) = {}
  BY <1>3, FS_EmptySet DEF Counted, Open, OpenQUIC
<1>9. Balanced(asm) /\ Capped(asm)
  BY <1>2, <1>3, <1>4, <1>8, AssemblerAssumption DEF Balanced, Capped
<1>10. Decided(asm) = 0 /\ Pending(asm) = 0
  BY <1>2, <1>4, <1>8 DEF Decided, Pending
<1>11. Partitioned(asm)
  BY <1>2, <1>4, <1>10 DEF Partitioned
<1>12. wire \in [Conns -> [Sides -> Seq(Unit)]]
  <2>1. <<>> \in Seq(Unit)
    OBVIOUS
  <2> QED BY <2>1 DEF Init
<1>13. /\ ignored \subseteq Conns \cup Tuples /\ live \in BOOLEAN
       /\ clock \in Nat \ {0} /\ closed \in BOOLEAN
  BY AssemblerAssumption DEF Init
<1> QED BY <1>6, <1>7, <1>9, <1>11, <1>12, <1>13 DEF Inv, IInv

\* Packet time stamps are numbers.
LEMMA StampsOK ==
  ASSUME Inv, NEW ts \in Stamps
  PROVE  ts \in Nat
BY AssemblerAssumption DEF Stamps, Inv

\* Packet keeps the invariant for a TCP packet of a tracked connection.
LEMMA TCPPacketInv ==
  ASSUME Inv, NEW c \in Conns, NEW from \in Sides, NEW syn \in BOOLEAN, NEW fin \in BOOLEAN,
         NEW data \in Seq(Unit), NEW ts \in Stamps,
         TCPPacket(c, from, syn, data, fin, ts)
  PROVE  Inv'
<1> DEFINE opening == Opening(c, syn, data)
           a == TrackTime(asm, ts)
           b == IF opening THEN NewStream(a, c, from, ts) ELSE a
           i == IF from = b.tcp[c].first THEN 0 ELSE 1
           sent == IF opening THEN [side \in Sides |-> <<>>] ELSE wire[c]
<1>1. ts \in Nat
  BY StampsOK
<1>2. /\ opening \/ c \in DOMAIN asm.tcp
      /\ asm' = PacketFlush(Assemble(b, c, from, data, fin, ts), ts)
      /\ wire' = [wire EXCEPT ![c] =
                    IF b.tcp[c].done[i] THEN @ ELSE [sent EXCEPT ![from] = @ \o data]]
      /\ live' = live /\ clock' = clock /\ closed' = closed
      /\ ignored' \subseteq ignored \cup {c}
  BY DEF TCPPacket
<1>3. opening => c \notin DOMAIN asm.tcp
  BY DEF Opening
<1>4. IInv(a) /\ a.tcp = asm.tcp
  BY <1>1, TrackTimeOK DEF Inv
<1> HIDE DEF a, opening
<1>5. IInv(b) /\ c \in DOMAIN b.tcp
  <2>1. CASE opening
    <3>1. c \in Conns \ DOMAIN a.tcp
      BY <1>3, <1>4, <2>1
    <3> QED BY <1>1, <1>4, <2>1, <3>1, NewStreamOK
  <2>2. CASE ~opening
    BY <1>2, <1>4, <2>2
  <2> QED BY <2>1, <2>2
<1> HIDE DEF b
<1>6. IInv(asm')
  <2>1. IInv(Assemble(b, c, from, data, fin, ts))
    BY <1>1, <1>5, AssembleOK
  <2> QED BY <1>1, <1>2, <2>1, PacketFlushOK
<1>7. wire' \in [Conns -> [Sides -> Seq(Unit)]]
  <2>1. wire \in [Conns -> [Sides -> Seq(Unit)]]
    BY DEF Inv
  <2>2. sent \in [Sides -> Seq(Unit)]
    <3>1. <<>> \in Seq(Unit)
      OBVIOUS
    <3> QED BY <2>1, <3>1
  <2> HIDE DEF sent, i
  <2>3. [sent EXCEPT ![from] = @ \o data] \in [Sides -> Seq(Unit)]
    <3>1. sent[from] \o data \in Seq(Unit)
      BY <2>2
    <3> QED BY <2>2, <3>1
  <2> QED BY <1>2, <2>1, <2>3
<1> QED BY <1>2, <1>6, <1>7 DEF Inv

\* Payloads are sequences of units.
LEMMA SegsOK == ClientSegs \cup {<<>>} \subseteq Seq(Unit) /\ ServerSegs \cup {<<>>} \subseteq Seq(Unit)
<1>1. <<>> \in Seq(Unit)
  OBVIOUS
<1>2. ClientSegs \subseteq Seq(Unit) /\ ServerSegs \subseteq Seq(Unit)
  BY AssemblerAssumption
<1> QED BY <1>1, <1>2

\* Every step keeps the invariant.
LEMMA NextInv == Inv /\ [Next]_vars => Inv'
<1> SUFFICES ASSUME Inv, [Next]_vars PROVE Inv'
  OBVIOUS
<1>0. /\ IInv(asm) /\ wire \in [Conns -> [Sides -> Seq(Unit)]]
      /\ ignored \subseteq Conns \cup Tuples /\ live \in BOOLEAN
      /\ clock \in Nat \ {0} /\ closed \in BOOLEAN
  BY DEF Inv
<1>1. CASE ClientPacket
  <2>1. PICK c \in Conns, syn \in BOOLEAN, fin \in BOOLEAN, data \in ClientSegs \cup {<<>>},
             ts \in Stamps : TCPPacket(c, "client", syn, data, fin, ts)
    BY <1>1 DEF ClientPacket
  <2>2. data \in Seq(Unit) /\ "client" \in Sides
    BY SegsOK DEF Sides
  <2> QED BY <2>1, <2>2, TCPPacketInv
<1>2. CASE ServerPacket
  <2>1. PICK c \in Conns, syn \in BOOLEAN, fin \in BOOLEAN, data \in ServerSegs \cup {<<>>},
             ts \in Stamps : TCPPacket(c, "server", syn, data, fin, ts)
    BY <1>2 DEF ServerPacket
  <2>2. data \in Seq(Unit) /\ "server" \in Sides
    BY SegsOK DEF Sides
  <2> QED BY <2>1, <2>2, TCPPacketInv
<1>3. CASE AnyStray
  <2>1. PICK c \in Conns, ts \in Stamps : StrayTCPPacket(c, ts)
    BY <1>3 DEF AnyStray
  <2>2. ts \in Nat
    BY StampsOK
  <2>3. IInv(TrackTime(asm, ts))
    BY <1>0, <2>2, TrackTimeOK
  <2>4. IInv(asm')
    BY <2>1, <2>2, <2>3, PacketFlushOK DEF StrayTCPPacket
  <2> QED BY <1>0, <2>1, <2>4 DEF StrayTCPPacket, Inv
<1>4. CASE AnyInitial
  <2>1. PICK q \in Tuples, p \in Initials, ts \in Stamps : InitialPacket(q, p, ts)
    BY <1>4 DEF AnyInitial
  <2>2. ts \in Nat /\ p \in Initial
    BY StampsOK, AssemblerAssumption
  <2>3. IInv(QUICPacket(asm, q, p, ts))
    BY <1>0, <2>2, QUICPacketOK
  <2>4. IInv(asm')
    BY <2>1, <2>2, <2>3, TrackTimeOK DEF InitialPacket
  <2> QED BY <1>0, <2>1, <2>4 DEF InitialPacket, Inv
<1>5. CASE AnyOtherUDP
  <2>1. PICK ts \in Stamps : OtherUDPPacket(ts)
    BY <1>5 DEF AnyOtherUDP
  <2>2. ts \in Nat
    BY StampsOK
  <2>3. IInv(asm')
    BY <1>0, <2>1, <2>2, TrackTimeOK DEF OtherUDPPacket
  <2> QED BY <1>0, <2>1, <2>3 DEF OtherUDPPacket, Inv
<1>6. CASE Sweep
  <2>1. IInv(asm')
    BY <1>0, <1>6, FlushOlderThanOK DEF Sweep
  <2> QED BY <1>0, <1>6, <2>1 DEF Sweep, Inv
<1>7. CASE Tick
  BY <1>0, <1>7 DEF Tick, Inv
<1>8. CASE Close
  <2>1. DOMAIN asm.tcp \in SUBSET DOMAIN asm.tcp
    OBVIOUS
  <2>2. IInv(ReassemblyComplete(asm, DOMAIN asm.tcp))
    BY <1>0, <2>1, ReassemblyCompleteOK
  <2>3. IInv(asm')
    BY <1>8, <2>2, FlushQUICOK DEF Close
  <2> QED BY <1>0, <1>8, <2>3 DEF Close, Inv
<1>9. CASE UNCHANGED vars
  BY <1>0, <1>9 DEF vars, Inv
<1> QED BY <1>1, <1>2, <1>3, <1>4, <1>5, <1>6, <1>7, <1>8, <1>9 DEF Next

\* The invariant holds in every reachable state.
LEMMA InvAlways == Spec => []Inv
BY InitInv, NextInv, PTL DEF Spec

\* The assembler's state always has its type: streams and flows of known
\* connections, well-formed reports, and counters that are numbers.
THEOREM TypeCorrect == Spec => []TypeOK
<1>1. Inv => TypeOK
  <2> SUFFICES ASSUME Inv PROVE TypeOK
    OBVIOUS
  <2>1. asm.stats.live \in Nat
    <3>1. asm.stats.live = Cardinality(Counted(asm)) + Cardinality(DOMAIN asm.quic)
      BY DEF Inv, IInv, Balanced
    <3>2. Cardinality(Counted(asm)) \in Nat /\ Cardinality(DOMAIN asm.quic) \in Nat
      BY FiniteParts DEF Inv, IInv
    <3> QED BY ONLY <3>1, <3>2
  <2> QED BY <2>1 DEF Inv, IInv, AsmOK, TypeOK
<1> QED BY <1>1, InvAlways, PTL

\* LiveStreams always equals the slots held: what factory.New and quicPacket
\* take, ReassemblyComplete and flushQUIC give back, once each.
THEOREM LiveStreamsBalanced == Spec => []LiveBalanced
<1>1. Inv => LiveBalanced
  BY DEF Inv, IInv, Balanced, Counted, LiveBalanced, TCPCounted
<1> QED BY <1>1, InvAlways, PTL

\* Neither table outgrows MaxStreams, so LiveStreams stays within twice the cap.
THEOREM CapsHold == Spec => []CapHolds
<1>1. Inv => CapHolds
  <2> SUFFICES ASSUME Inv PROVE CapHolds
    OBVIOUS
  <2>1. TCPCounted = Counted(asm)
    BY DEF TCPCounted, Counted
  <2>2. /\ asm.stats.live = Cardinality(Counted(asm)) + Cardinality(DOMAIN asm.quic)
        /\ Cardinality(Counted(asm)) <= MaxStreams
        /\ Cardinality(DOMAIN asm.quic) <= MaxStreams
    BY DEF Inv, IInv, Balanced, Capped
  <2>3. Cardinality(Counted(asm)) \in Nat /\ Cardinality(DOMAIN asm.quic) \in Nat
    BY FiniteParts DEF Inv, IInv
  <2>4. MaxStreams \in Nat
    BY AssemblerAssumption
  <2>5. asm.stats.live <= 2 * MaxStreams
    BY ONLY <2>2, <2>3, <2>4
  <2> QED BY <2>1, <2>2, <2>5 DEF CapHolds
<1> QED BY <1>1, InvAlways, PTL

\* No stream is counted twice among the reported, the rejected and the undecided.
THEOREM CountersPartitioned == Spec => []CountersPartition
<1>1. Inv => CountersPartition
  <2> SUFFICES ASSUME Inv PROVE CountersPartition
    OBVIOUS
  <2>1. UndecidedTCP = Open(asm) /\ UndecidedQUIC = OpenQUIC(asm)
    BY DEF UndecidedTCP, UndecidedQUIC, Open, OpenQUIC
  <2>2. AsmOK(asm) /\ Decided(asm) + Pending(asm) <= asm.stats.streams
    BY DEF Inv, IInv, Partitioned
  <2>3. Cardinality(Open(asm)) \in Nat /\ Cardinality(OpenQUIC(asm)) \in Nat
    BY <2>2, FiniteParts
  <2>4. Decided(asm) \in Nat
    BY <2>2 DEF AsmOK, Stats, Decided
  <2>5. Decided(asm) + Cardinality(Open(asm)) + Cardinality(OpenQUIC(asm)) <= asm.stats.streams
    <3>1. Decided(asm) + (Cardinality(Open(asm)) + Cardinality(OpenQUIC(asm))) <= asm.stats.streams
      BY <2>2 DEF Pending
    <3> QED BY ONLY <2>3, <2>4, <3>1
  <2> QED BY <2>1, <2>5 DEF CountersPartition, Decided
<1> QED BY <1>1, InvAlways, PTL

\* Handler is called at most once per stream or flow, and exactly when the
\* stream's emitted flag says so.
THEOREM HandledOnce == Spec => []ReportedOnce
<1>1. Inv => ReportedOnce
  BY DEF Inv, IInv, Coherent, StreamCoherent, ReportedOnce
<1> QED BY <1>1, InvAlways, PTL


(***************************************************************************)
(* What the assembler's steps do to the streams over time: which of them   *)
(* end reported, what becomes of a flow once reported, and how the buffers *)
(* and the reports relate to what was sent.  The proofs follow the calls   *)
(* of an entry point: each function changes one stream, or releases some.  *)
(***************************************************************************)

(***************************************************************************)
(* The effect of each function on the TCP stream it works on.              *)
(***************************************************************************)

\* Nothing but the stream of c, its report and the counters changes from a to b.
OnlyStream(a, b, c) ==
  /\ b.quic = a.quic /\ b.stats.dropped = a.stats.dropped
  /\ DOMAIN b.tcp = DOMAIN a.tcp
  /\ \A x \in DOMAIN a.tcp \ {c} : b.tcp[x] = a.tcp[x]
  /\ \A x \in (Conns \cup Tuples) \ {c} : b.reports[x] = a.reports[x]

\* Steps on one stream compose.
LEMMA OnlyStreamTrans ==
  ASSUME NEW a, NEW b, NEW d, NEW c, OnlyStream(a, b, c), OnlyStream(b, d, c)
  PROVE  OnlyStream(a, d, c)
BY DEF OnlyStream

\* stream.emit marks the stream and, the first time, hands its flow over.
LEMMA EmitEffect ==
  ASSUME NEW a, IInv(a), NEW c \in DOMAIN a.tcp
  PROVE  /\ OnlyStream(a, Emit(a, c), c)
         /\ Emit(a, c).tcp[c] = [a.tcp[c] EXCEPT !.emitted = a.tcp[c].haveCH]
         /\ Emit(a, c).reports[c] = IF a.tcp[c].haveCH /\ ~a.tcp[c].emitted
                                    THEN <<a.tcp[c].flow>> ELSE a.reports[c]
<1> DEFINE s == a.tcp[c]
           b == Emit(a, c)
<1>1. /\ AsmOK(a) /\ s \in Stream /\ c \in Conns /\ StreamCoherent(s, a.reports[c])
      /\ DOMAIN a = Fields /\ a.stats \in Stats /\ a.reports \in [Conns \cup Tuples -> Seq(Flow)]
  BY DEF IInv, AsmOK, Coherent
<1>2. CASE s.emitted \/ ~s.haveCH
  <2>1. s.emitted = s.haveCH
    BY <1>1, <1>2 DEF StreamCoherent, Stream
  <2>2. s = [s EXCEPT !.emitted = s.haveCH]
    BY <1>1, <2>1 DEF Stream
  <2>3. b = a
    BY <1>2 DEF Emit
  <2> HIDE DEF b, s
  <2> QED BY <1>2, <2>2, <2>3 DEF OnlyStream, b, s
<1>3. CASE ~(s.emitted \/ ~s.haveCH)
  <2>1. /\ b.quic = a.quic
        /\ b.tcp = [a.tcp EXCEPT ![c] = [s EXCEPT !.emitted = TRUE]]
        /\ b.stats = [a.stats EXCEPT !.tlsFlows = @ + 1]
        /\ b.reports = [a.reports EXCEPT ![c] = Append(@, s.flow)]
    BY <1>1, <1>3 DEF Emit, Fields
  <2>2. [a.stats EXCEPT !.tlsFlows = @ + 1].dropped = a.stats.dropped
    BY <1>1 DEF Stats
  <2>3. a.reports[c] = <<>> /\ s.haveCH = TRUE /\ s.flow \in Flow
    BY <1>1, <1>3 DEF StreamCoherent, Stream
  <2>4. Append(<<>>, s.flow) = <<s.flow>>
    BY <2>3, FirstReport
  <2> HIDE DEF b, s
  <2>5. b.reports[c] = <<s.flow>>
    BY <1>1, <2>1, <2>3, <2>4
  <2>6. b.tcp[c] = [s EXCEPT !.emitted = s.haveCH]
    BY <2>1, <2>3 DEF s
  <2>7. OnlyStream(a, b, c)
    BY <1>1, <2>1, <2>2 DEF OnlyStream
  <2> QED BY <1>3, <2>5, <2>6, <2>7 DEF b, s
<1> QED BY <1>2, <1>3

\* The stream that the first part of parse leaves.
WithClient(s) ==
  LET hits == {i \in Dirs : FindClientHello(s.buf[i])}
      idx == IF 0 \in hits THEN 0 ELSE 1
  IN  IF s.haveCH \/ hits = {} THEN s
      ELSE [s EXCEPT !.haveCH = TRUE, !.clientIdx = idx,
                     !.flow = [s.flow EXCEPT !.client = Sender(s.flow.client, idx)]]

\* The first part of parse reports nothing.
LEMMA ParseClientEffect ==
  ASSUME NEW a, IInv(a), NEW c \in DOMAIN a.tcp
  PROVE  /\ OnlyStream(a, ParseClient(a, c), c)
         /\ ParseClient(a, c).tcp[c] = WithClient(a.tcp[c])
         /\ ParseClient(a, c).reports = a.reports
<1> DEFINE s == a.tcp[c]
           hits == {i \in Dirs : FindClientHello(s.buf[i])}
           idx == IF 0 \in hits THEN 0 ELSE 1
           b == ParseClient(a, c)
<1>1. CASE s.haveCH \/ hits = {}
  <2>1. b = a /\ WithClient(s) = s
    BY <1>1 DEF ParseClient, WithClient
  <2> HIDE DEF b
  <2> QED BY <2>1 DEF OnlyStream, b
<1>2. CASE ~(s.haveCH \/ hits = {})
  <2> DEFINE r == [s EXCEPT !.haveCH = TRUE, !.clientIdx = idx,
                            !.flow = [s.flow EXCEPT !.client = Sender(s.flow.client, idx)]]
  <2>1. DOMAIN a = Fields /\ s \in Stream
    BY DEF IInv, AsmOK
  <2>2. WithClient(s) = r
    BY <1>2 DEF WithClient
  <2>3. b = [a EXCEPT !.tcp[c].haveCH = TRUE, !.tcp[c].clientIdx = idx,
                      !.tcp[c].flow.client = Sender(@, idx)]
    BY <1>2 DEF ParseClient
  <2>4. {"haveCH", "clientIdx", "flow"} \subseteq DOMAIN s
    BY <2>1 DEF Stream
  <2> HIDE DEF b, hits
  <2>5. /\ b.tcp = [a.tcp EXCEPT ![c] = r]
        /\ b.quic = a.quic /\ b.stats = a.stats /\ b.reports = a.reports
    BY <2>1, <2>3, <2>4 DEF Fields
  <2> HIDE DEF r, s
  <2> QED BY <2>2, <2>5 DEF OnlyStream, b, s
<1> QED BY <1>1, <1>2

\* The stream that the second part of parse leaves, but for the emitted flag.
WithServer(s) ==
  LET sh == FindServerHello(s.buf[1 - s.clientIdx])
  IN  IF ~s.haveCH \/ s.haveSH \/ sh = NoServer THEN s
      ELSE [s EXCEPT !.haveSH = TRUE, !.flow = [s.flow EXCEPT !.server = sh]]

\* The second part of parse reports the flow it completed, or nothing.
LEMMA ParseServerEffect ==
  ASSUME NEW a, IInv(a), NEW c \in DOMAIN a.tcp, ~a.tcp[c].rejected
  PROVE  /\ OnlyStream(a, ParseServer(a, c), c)
         /\ \/ /\ ParseServer(a, c).tcp[c] = WithServer(a.tcp[c])
               /\ ParseServer(a, c).reports[c] = a.reports[c]
            \/ /\ a.tcp[c].haveCH /\ ~a.tcp[c].emitted /\ WithServer(a.tcp[c]).haveSH
               /\ ParseServer(a, c).tcp[c] = [WithServer(a.tcp[c]) EXCEPT !.emitted = TRUE]
               /\ ParseServer(a, c).reports[c] = <<WithServer(a.tcp[c]).flow>>
<1> DEFINE s == a.tcp[c]
           sh == FindServerHello(s.buf[1 - s.clientIdx])
           b == [a EXCEPT !.tcp[c].haveSH = TRUE, !.tcp[c].flow.server = sh]
           r == [s EXCEPT !.haveSH = TRUE, !.flow = [s.flow EXCEPT !.server = sh]]
<1>1. /\ DOMAIN a = Fields /\ s \in Stream /\ s.flow \in Flow
      /\ StreamCoherent(s, a.reports[c])
  BY DEF IInv, AsmOK, Coherent, Stream
<1>2. CASE ~s.haveCH \/ s.haveSH \/ sh = NoServer
  <2>1. ParseServer(a, c) = a /\ WithServer(s) = s
    BY <1>2 DEF ParseServer, WithServer
  <2> QED BY <2>1 DEF OnlyStream
<1>3. CASE ~(~s.haveCH \/ s.haveSH \/ sh = NoServer)
  <2>1. WithServer(s) = r /\ ParseServer(a, c) = IF sh.flightComplete THEN Emit(b, c) ELSE b
    BY <1>3 DEF ParseServer, WithServer
  <2>2. sh \in Server
    BY FindServerHelloType
  <2> HIDE DEF sh
  <2>3. DOMAIN b = Fields /\ b.quic = a.quic /\ b.lastFlush = a.lastFlush
        /\ b.stats = a.stats /\ b.reports = a.reports
    BY <1>1 DEF Fields
  <2>4. b.tcp = [a.tcp EXCEPT ![c] = r]
    <3>1. {"haveSH", "flow"} \subseteq DOMAIN s
      BY <1>1 DEF Stream
    <3> QED BY <1>1, <3>1 DEF Fields
  <2>5. r \in Stream /\ r.emitted = s.emitted /\ r.rejected = s.rejected
        /\ r.counted = s.counted /\ r.haveCH = s.haveCH /\ r.buf = s.buf /\ r.haveSH = TRUE
    <3>1. [s.flow EXCEPT !.server = sh] \in Flow
      BY <1>1, <2>2 DEF Flow
    <3> QED BY <1>1, <3>1 DEF Stream
  <2> HIDE DEF b, r
  <2>6. IInv(b)
    <3>1. /\ r.emitted => r.haveCH
          /\ r.rejected => ~r.haveCH
          /\ \A i \in Dirs : Len(r.buf[i]) <= MaxPrefix
      BY <1>1, <2>5 DEF StreamCoherent
    <3> QED BY <2>3, <2>4, <2>5, <3>1, QuietStep
  <2>7. OnlyStream(a, b, c) /\ b.tcp[c] = r /\ c \in DOMAIN b.tcp
    BY <2>3, <2>4 DEF OnlyStream
  <2>8. /\ OnlyStream(a, Emit(b, c), c)
        /\ Emit(b, c).tcp[c] = [r EXCEPT !.emitted = r.haveCH]
        /\ Emit(b, c).reports[c] = IF r.haveCH /\ ~r.emitted THEN <<r.flow>> ELSE a.reports[c]
    BY <2>3, <2>6, <2>7, EmitEffect, OnlyStreamTrans
  <2>9. s.haveCH /\ r.haveCH = TRUE
    BY <1>1, <1>3, <2>5 DEF Stream
  <2>10. s.emitted => [r EXCEPT !.emitted = r.haveCH] = r
    BY <2>5, <2>9 DEF Stream
  <2> HIDE DEF s
  <2> QED BY <2>1, <2>3, <2>5, <2>7, <2>8, <2>9, <2>10, ZenonT(40) DEF s
<1> QED BY <1>2, <1>3

\* stream.reject empties the buffers.
LEMMA RejectEffect ==
  ASSUME NEW a, IInv(a), NEW c \in DOMAIN a.tcp
  PROVE  /\ OnlyStream(a, Reject(a, c), c)
         /\ Reject(a, c).tcp[c] = [a.tcp[c] EXCEPT !.rejected = TRUE, !.buf = [i \in Dirs |-> <<>>]]
         /\ Reject(a, c).reports = a.reports
<1> DEFINE s == a.tcp[c]
           r == [s EXCEPT !.rejected = TRUE, !.buf = [i \in Dirs |-> <<>>]]
           b == Reject(a, c)
<1>1. AsmOK(a) /\ DOMAIN a = Fields /\ a.stats \in Stats
  BY DEF IInv, AsmOK
<1>2. /\ b.quic = a.quic /\ b.reports = a.reports
      /\ b.tcp = [a.tcp EXCEPT ![c] = r]
      /\ b.stats = [a.stats EXCEPT !.rejectedTCP = @ + 1]
  BY <1>1 DEF Reject, Fields
<1>3. [a.stats EXCEPT !.rejectedTCP = @ + 1].dropped = a.stats.dropped
  BY <1>1 DEF Stats
<1> HIDE DEF b, r, s
<1>4. OnlyStream(a, b, c) /\ b.tcp[c] = r
  BY <1>2, <1>3 DEF OnlyStream
<1> QED BY <1>2, <1>4 DEF b, r, s

(***************************************************************************)
(* What is retained of what was sent.                                      *)
(***************************************************************************)

\* The part of a direction that MaxStreamPrefix lets the assembler keep.
Cut(q) == SubSeq(q, 1, IF Len(q) > MaxPrefix THEN MaxPrefix ELSE Len(q))

\* The first n units of q are the first n of any extension of it.
LEMMA PrefixOfConcat ==
  ASSUME NEW q \in Seq(Unit), NEW d \in Seq(Unit), NEW n \in 0..Len(q)
  PROVE  SubSeq(q \o d, 1, n) = SubSeq(q, 1, n)
<1>1. CASE n = 0
  BY <1>1, SubSeqEmpty
<1>2. CASE n # 0
  <2>1. 1 \in 1..Len(q) /\ n \in 1..Len(q)
    BY <1>2
  <2> QED BY <2>1, SubSeqOfConcat1
<1> QED BY <1>1, <1>2

\* Cut keeps a prefix, all of it where it fits.
LEMMA CutPrefix ==
  ASSUME NEW q \in Seq(Unit)
  PROVE  /\ Cut(q) \in Seq(Unit)
         /\ Len(Cut(q)) = IF Len(q) > MaxPrefix THEN MaxPrefix ELSE Len(q)
         /\ \E n \in 0..Len(q) : Cut(q) = SubSeq(q, 1, n)
         /\ Len(q) <= MaxPrefix => Cut(q) = q
<1> DEFINE n == IF Len(q) > MaxPrefix THEN MaxPrefix ELSE Len(q)
<1>1. n \in 0..Len(q) /\ Len(q) \in Nat /\ MaxPrefix \in Nat
  BY AssemblerAssumption
<1>2. \A i \in 1..n : q[i] \in Unit
  BY <1>1, ElementOfSeq
<1>3. /\ SubSeq(q, 1, n) \in Seq(Unit)
      /\ Len(SubSeq(q, 1, n)) = IF 1 <= n THEN n - 1 + 1 ELSE 0
  <2> HIDE DEF n
  <2>1. 1 \in Int /\ n \in Int
    BY <1>1
  <2> QED BY <1>2, <2>1, SubSeqProperties
<1>4. Len(q) <= MaxPrefix => Cut(q) = q
  BY <1>1, SubSeqFull DEF Cut
<1>5. Cut(q) = SubSeq(q, 1, n)
  BY DEF Cut
<1> HIDE DEF n
<1>6. Len(Cut(q)) = n
  BY <1>1, <1>3, <1>5
<1> QED BY <1>1, <1>3, <1>4, <1>5, <1>6 DEF n

\* The bounded append of ReassembledSG keeps the buffer the cut of what was
\* sent, however it was segmented.
LEMMA CutAppend ==
  ASSUME NEW q \in Seq(Unit), NEW d \in Seq(Unit)
  PROVE  LET room == MaxPrefix - Len(Cut(q))
         IN  /\ Cut(q \o d) = Cut(q) \o (IF Len(d) > room THEN SubSeq(d, 1, room) ELSE d)
             /\ room \in Nat
             /\ Len(q) <= MaxPrefix => (Len(d) > room <=> Len(q \o d) > MaxPrefix)
<1> DEFINE room == MaxPrefix - Len(Cut(q))
           kept == IF Len(d) > room THEN SubSeq(d, 1, room) ELSE d
<1>1. /\ Len(q) \in Nat /\ Len(d) \in Nat /\ MaxPrefix \in Nat
      /\ q \o d \in Seq(Unit) /\ Len(q \o d) = Len(q) + Len(d)
  BY AssemblerAssumption, ConcatProperties
<1>2. /\ Cut(q) \in Seq(Unit)
      /\ Len(Cut(q)) = IF Len(q) > MaxPrefix THEN MaxPrefix ELSE Len(q)
      /\ Len(q) <= MaxPrefix => Cut(q) = q
  BY CutPrefix
<1>3. room \in Nat /\ (Len(q) <= MaxPrefix => room = MaxPrefix - Len(q))
  BY <1>1, <1>2
<1>4. Len(q) <= MaxPrefix => (Len(d) > room <=> Len(q \o d) > MaxPrefix)
  BY <1>1, <1>3
<1>5. Cut(q \o d) = Cut(q) \o kept
  <2>1. CASE Len(q) > MaxPrefix
    <3>1. room = 0
      BY <1>1, <1>2, <2>1
    <3>2. kept = <<>>
      <4>1. CASE Len(d) > 0
        BY <3>1, <4>1, SubSeqEmpty
      <4>2. CASE Len(d) = 0
        <5>1. d = <<>>
          BY <4>2, EmptySeq
        <5> QED BY <3>1, <4>2, <5>1
      <4> QED BY <1>1, <4>1, <4>2
    <3>3. Cut(q \o d) = SubSeq(q, 1, MaxPrefix)
      <4>1. Len(q \o d) > MaxPrefix
        BY <1>1, <2>1
      <4>2. MaxPrefix \in 0..Len(q)
        BY <1>1, <2>1
      <4> QED BY <4>1, <4>2, PrefixOfConcat DEF Cut
    <3>4. Cut(q) = SubSeq(q, 1, MaxPrefix)
      BY <2>1 DEF Cut
    <3> QED BY <1>2, <3>2, <3>3, <3>4, ConcatEmptySeq
  <2>2. CASE Len(q) <= MaxPrefix /\ Len(d) <= room
    <3>1. Len(q \o d) <= MaxPrefix
      BY <1>1, <1>3, <1>4, <2>2
    <3>2. Cut(q \o d) = q \o d
      BY <1>1, <3>1, CutPrefix
    <3>3. kept = d
      BY <1>1, <1>3, <2>2
    <3> QED BY <1>2, <2>2, <3>2, <3>3
  <2>3. CASE Len(q) <= MaxPrefix /\ Len(d) > room
    <3>1. kept = SubSeq(d, 1, room) /\ Cut(q) = q
      BY <1>2, <2>3
    <3>2. Cut(q \o d) = SubSeq(q \o d, 1, MaxPrefix) /\ room = MaxPrefix - Len(q)
      BY <1>3, <1>4, <2>3 DEF Cut
    <3>3. /\ SubSeq(d, 1, room) \in Seq(Unit)
          /\ Len(SubSeq(d, 1, room)) = room
          /\ \A i \in 1..room : SubSeq(d, 1, room)[i] = d[i]
      <4>1. \A i \in 1..room : d[i] \in Unit
        BY <1>1, <1>3, <2>3, ElementOfSeq
      <4> HIDE DEF room
      <4>2. 1 \in Int /\ room \in Int
        BY <1>3
      <4>3. /\ SubSeq(d, 1, room) \in Seq(Unit)
            /\ Len(SubSeq(d, 1, room)) = IF 1 <= room THEN room - 1 + 1 ELSE 0
            /\ \A i \in 1..(room - 1 + 1) : SubSeq(d, 1, room)[i] = d[1 + i - 1]
        BY <4>1, <4>2, SubSeqProperties
      <4> QED BY <1>3, <4>3
    <3>4. \A i \in 1..(Len(q) + Len(d)) : (q \o d)[i] = IF i <= Len(q) THEN q[i] ELSE d[i - Len(q)]
      BY ConcatProperties
    <3>5. /\ SubSeq(q \o d, 1, MaxPrefix) \in Seq(Unit)
          /\ Len(SubSeq(q \o d, 1, MaxPrefix)) = MaxPrefix
          /\ \A i \in 1..MaxPrefix : SubSeq(q \o d, 1, MaxPrefix)[i] = (q \o d)[i]
      <4>1. MaxPrefix <= Len(q \o d)
        BY <1>1, <1>4, <2>3
      <4>2. \A i \in 1..MaxPrefix : (q \o d)[i] \in Unit
        <5> TAKE i \in 1..MaxPrefix
        <5>1. i \in 1..Len(q \o d)
          BY <1>1, <4>1
        <5> QED BY <1>1, <5>1, ElementOfSeq
      <4>3. 1 \in Int /\ MaxPrefix \in Int
        BY <1>1
      <4> DEFINE e == q \o d
      <4>4. \A i \in 1..MaxPrefix : e[i] \in Unit
        BY <4>2
      <4> HIDE DEF e
      <4>5. /\ SubSeq(e, 1, MaxPrefix) \in Seq(Unit)
            /\ Len(SubSeq(e, 1, MaxPrefix)) = IF 1 <= MaxPrefix THEN MaxPrefix - 1 + 1 ELSE 0
            /\ \A i \in 1..(MaxPrefix - 1 + 1) : SubSeq(e, 1, MaxPrefix)[i] = e[1 + i - 1]
        BY <4>3, <4>4, SubSeqProperties
      <4>6. /\ SubSeq(e, 1, MaxPrefix) \in Seq(Unit)
            /\ Len(SubSeq(e, 1, MaxPrefix)) = MaxPrefix
            /\ \A i \in 1..MaxPrefix : SubSeq(e, 1, MaxPrefix)[i] = e[i]
        BY <1>1, <4>5, AssemblerAssumption
      <4> QED BY <4>6 DEF e
    <3> DEFINE k == SubSeq(d, 1, room)
               l == SubSeq(q \o d, 1, MaxPrefix)
    <3>6. /\ q \o k \in Seq(Unit) /\ Len(q \o k) = Len(q) + Len(k)
          /\ \A i \in 1..(Len(q) + Len(k)) : (q \o k)[i] = IF i <= Len(q) THEN q[i] ELSE k[i - Len(q)]
      <4> HIDE DEF k
      <4> QED BY <3>3, ConcatProperties DEF k
    <3>7. l = q \o k
      <4>1. Len(l) = Len(q \o k)
        BY <1>1, <3>2, <3>3, <3>5, <3>6
      <4>2. ASSUME NEW i \in 1..Len(l) PROVE l[i] = (q \o k)[i]
        <5>1. i \in 1..MaxPrefix /\ i \in 1..(Len(q) + Len(d)) /\ i \in 1..(Len(q) + Len(k))
          BY <1>1, <2>3, <3>2, <3>3, <3>5
        <5>2. l[i] = IF i <= Len(q) THEN q[i] ELSE d[i - Len(q)]
          BY <3>4, <3>5, <5>1
        <5>3. (q \o k)[i] = IF i <= Len(q) THEN q[i] ELSE k[i - Len(q)]
          BY <3>6, <5>1
        <5>4. i > Len(q) => i - Len(q) \in 1..room
          BY <1>1, <3>2, <5>1
        <5> HIDE DEF k, l, room
        <5> QED BY <1>1, <3>3, <5>1, <5>2, <5>3, <5>4, SMTT(30) DEF k
      <4> HIDE DEF k, l
      <4> QED BY <3>5, <3>6, <4>1, <4>2, SeqEqual DEF l
    <3> QED BY <3>1, <3>2, <3>7
  <2> QED BY <1>1, <1>3, <2>1, <2>2, <2>3
<1> QED BY <1>3, <1>4, <1>5

\* A direction that is not TLS stays so whatever follows.
LEMMA NotTLSGrows ==
  ASSUME NEW q \in Seq(Unit), NEW d \in Seq(Unit), NotTLS(q)
  PROVE  NotTLS(q \o d)
<1>1. /\ Len(q) \in Nat /\ Len(d) \in Nat /\ q \o d \in Seq(Unit) /\ Len(q \o d) = Len(q) + Len(d)
      /\ DOMAIN q = 1..Len(q) /\ DOMAIN (q \o d) = 1..(Len(q) + Len(d))
  BY ConcatProperties, LenProperties
<1>2. \A i \in 1..Len(q) : (q \o d)[i] = q[i]
  <2> TAKE i \in 1..Len(q)
  <2>1. i \in 1..(Len(q) + Len(d)) /\ i <= Len(q)
    BY <1>1
  <2> QED BY <2>1, ConcatProperties
<1>3. Len(q) # 0
  BY EmptySeq DEF NotTLS
<1>4. 1 \in 1..Len(q) /\ q \o d # <<>>
  <2>1. Len(q \o d) # 0
    BY <1>1, <1>3
  <2> QED BY <1>1, <1>3, <2>1, EmptySeq
<1>5. CASE q[1] \notin Messages \cup Heads
  BY <1>2, <1>4, <1>5 DEF NotTLS
<1>6. CASE \E k \in DOMAIN q : q[k] = "big" /\ \A j \in 1..(k - 1) : ScanPasses(q, j)
  <2>1. PICK k \in DOMAIN q : q[k] = "big" /\ \A j \in 1..(k - 1) : ScanPasses(q, j)
    BY <1>6
  <2>2. k \in 1..Len(q) /\ k \in DOMAIN (q \o d) /\ (q \o d)[k] = "big"
    BY <1>1, <1>2, <2>1
  <2>3. ASSUME NEW j \in 1..(k - 1) PROVE ScanPasses(q \o d, j)
    <3>1. j \in 1..Len(q) /\ j + 1 \in 1..Len(q) /\ (j > 1 => j - 1 \in 1..Len(q))
      BY <1>1, <2>2
    <3>2. /\ (q \o d)[j] = q[j] /\ (q \o d)[j + 1] = q[j + 1]
          /\ j > 1 => (q \o d)[j - 1] = q[j - 1]
      BY <1>2, <3>1
    <3>3. j < Len(q \o d)
      BY <1>1, <3>1
    <3>4. ScanPasses(q, j)
      BY <2>1
    <3> QED BY <3>2, <3>3, <3>4 DEF ScanPasses
  <2> QED BY <1>4, <2>2, <2>3 DEF NotTLS
<1> QED BY <1>5, <1>6 DEF NotTLS

\* Nothing is found in an empty stream.
LEMMA NothingInEmpty == ~FindClientHello(<<>>) /\ FindServerHello(<<>>) = NoServer
<1>1. ~NotTLS(<<>>)
  BY DEF NotTLS
<1>2. \A types : Ends(<<>>, types) = {}
  BY DEF Ends, Scanned
<1> QED BY <1>1, <1>2 DEF FindClientHello, FindClientHelloRaw, FindServerHello, FindServerHelloRaw

(***************************************************************************)
(* What a stream knows of what was sent.                                   *)
(***************************************************************************)

\* ReassembledSG still takes bytes for the stream.
Reading(s) == ~s.rejected /\ ~(s.haveCH /\ s.haveSH)

\* The buffers are the cuts of what the two sides w sent, and what was left
\* out shows in the flags.
Holds(s, w) ==
  \A i \in Dirs : LET q == w[Sender(s.first, i)] IN
    /\ s.buf[i] = Cut(q)
    /\ s.full[i] <=> Len(q) > MaxPrefix
    /\ s.full[i] => s.flow.truncated

\* The flow f is what w says at some point.
Says(f, w) ==
  /\ \E n \in 0..Len(w[f.client]) : FindClientHello(SubSeq(w[f.client], 1, n))
  /\ \E n \in 0..Len(w[Other(f.client)]) :
       FindServerHello(SubSeq(w[Other(f.client)], 1, n)) = f.server

\* The flow's client and server are those that said hello.
Attributed(s, w) ==
  /\ s.flow.client = IF s.haveCH THEN Sender(s.first, s.clientIdx) ELSE s.first
  /\ s.haveSH => s.haveCH
  /\ ~s.haveSH => s.flow.server = NoServer
  /\ s.haveCH => Says(s.flow, w)

\* No ClientHello was overlooked in what is held.
Unseen(s) == Reading(s) /\ ~s.haveCH => \A i \in Dirs : ~FindClientHello(s.buf[i])

\* A direction in which no ClientHello can turn up any more.
Barren(q) == NotTLS(Cut(q)) \/ (Len(q) > MaxPrefix /\ ~FindClientHello(Cut(q)))

\* A stream that was examined is given up only where nothing can turn up.
Settled(s, w) == s.rejected /\ s.counted => \A side \in Sides : Barren(w[side])

StreamTrue(s, w) ==
  /\ s.emitted => s.haveSH
  /\ Reading(s) => Holds(s, w)
  /\ Attributed(s, w) /\ Unseen(s) /\ Settled(s, w)

\* Every tracked stream, and every report, agrees with what was sent.
Truthful(a, w) ==
  /\ \A c \in DOMAIN a.tcp : StreamTrue(a.tcp[c], w[c])
  /\ \A c \in Conns : \A k \in DOMAIN a.reports[c] : Says(a.reports[c][k], w[c])

\* The two directions are sent by the two sides.
LEMMA SenderSides ==
  ASSUME NEW first \in Sides
  PROVE  /\ \A i \in Dirs : /\ Sender(first, i) \in Sides /\ 1 - i \in Dirs
                            /\ Other(Sender(first, i)) = Sender(first, 1 - i)
         /\ Sender(first, 0) # Sender(first, 1)
         /\ \A side \in Sides : Sender(first, IF side = first THEN 0 ELSE 1) = side
BY DEF Sides, Dirs, Sender, Other

\* What a flow says stays said as more is sent.
LEMMA SaysGrows ==
  ASSUME NEW f \in Flow, NEW w \in [Sides -> Seq(Unit)], Says(f, w),
         NEW side \in Sides, NEW d \in Seq(Unit)
  PROVE  Says(f, [w EXCEPT ![side] = @ \o d])
<1> DEFINE v == [w EXCEPT ![side] = @ \o d]
<1>1. f.client \in Sides /\ Other(f.client) \in Sides
  BY DEF Flow, Other, Sides
<1>2. ASSUME NEW x \in Sides, NEW n \in 0..Len(w[x])
      PROVE  n \in 0..Len(v[x]) /\ SubSeq(v[x], 1, n) = SubSeq(w[x], 1, n)
  <2>1. CASE x = side
    <3>1. v[x] = w[x] \o d
      BY <2>1
    <3>2. w[x] \in Seq(Unit)
      OBVIOUS
    <3> HIDE DEF v
    <3>3. Len(w[x] \o d) = Len(w[x]) + Len(d) /\ Len(d) \in Nat /\ Len(w[x]) \in Nat
      BY <3>2, ConcatProperties
    <3> QED BY <3>1, <3>2, <3>3, PrefixOfConcat
  <2>2. CASE x # side
    BY <2>2
  <2> QED BY <2>1, <2>2
<1>3. PICK n \in 0..Len(w[f.client]) : FindClientHello(SubSeq(w[f.client], 1, n))
  BY DEF Says
<1>4. PICK m \in 0..Len(w[Other(f.client)]) :
        FindServerHello(SubSeq(w[Other(f.client)], 1, m)) = f.server
  BY DEF Says
<1> HIDE DEF v
<1> QED BY <1>1, <1>2, <1>3, <1>4 DEF Says, v

\* A direction without a ClientHello to come stays so.
LEMMA BarrenGrows ==
  ASSUME NEW q \in Seq(Unit), NEW d \in Seq(Unit), Barren(q)
  PROVE  Barren(q \o d)
<1>1. Cut(q) \in Seq(Unit) /\ Len(q) \in Nat /\ Len(d) \in Nat /\ MaxPrefix \in Nat
      /\ Len(q \o d) = Len(q) + Len(d)
  BY CutPrefix, AssemblerAssumption, ConcatProperties, SMTT(30)
<1>2. CASE NotTLS(Cut(q))
  <2> DEFINE room == MaxPrefix - Len(Cut(q))
             kept == IF Len(d) > room THEN SubSeq(d, 1, room) ELSE d
  <2>1. Cut(q \o d) = Cut(q) \o kept /\ room \in Nat
    BY CutAppend
  <2>2. kept \in Seq(Unit)
    <3>1. CASE Len(d) > room
      <4> HIDE DEF room
      <4>1. \A i \in 1..room : d[i] \in Unit
        BY <1>1, <2>1, <3>1, ElementOfSeq
      <4>2. 1 \in Int /\ room \in Int
        BY <2>1
      <4>3. SubSeq(d, 1, room) \in Seq(Unit)
        BY <4>1, <4>2, SubSeqProperties
      <4> QED BY <3>1, <4>3
    <3>2. CASE ~(Len(d) > room)
      BY <3>2
    <3> QED BY <3>1, <3>2
  <2> HIDE DEF kept
  <2>3. NotTLS(Cut(q) \o kept)
    BY <1>1, <1>2, <2>2, NotTLSGrows
  <2> QED BY <2>1, <2>3 DEF Barren
<1>3. CASE Len(q) > MaxPrefix /\ ~FindClientHello(Cut(q))
  <2>1. MaxPrefix \in 0..Len(q) /\ Len(q \o d) > MaxPrefix
    BY <1>1, <1>3
  <2>2. Cut(q \o d) = Cut(q)
    BY <1>3, <2>1, PrefixOfConcat DEF Cut
  <2> QED BY <1>3, <2>1, <2>2 DEF Barren
<1> QED BY <1>2, <1>3 DEF Barren

\* A stream that takes no more bytes stays true as more is sent.
LEMMA IdleTrue ==
  ASSUME NEW s \in Stream, NEW w \in [Sides -> Seq(Unit)], StreamTrue(s, w), ~Reading(s),
         NEW side \in Sides, NEW d \in Seq(Unit)
  PROVE  StreamTrue(s, [w EXCEPT ![side] = @ \o d])
<1> DEFINE v == [w EXCEPT ![side] = @ \o d]
<1>1. s.flow \in Flow /\ w[side] \in Seq(Unit)
  BY DEF Stream
<1>2. s.haveCH => Says(s.flow, v)
  BY <1>1, SaysGrows DEF StreamTrue, Attributed
<1>3. Settled(s, v)
  <2> SUFFICES ASSUME s.rejected, s.counted, NEW x \in Sides PROVE Barren(v[x])
    BY DEF Settled
  <2>1. Barren(w[x])
    BY DEF StreamTrue, Settled
  <2>2. CASE x = side
    <3>1. v[x] = w[x] \o d
      BY <2>2
    <3> HIDE DEF v
    <3> QED BY <1>1, <2>1, <2>2, <3>1, BarrenGrows
  <2>3. CASE x # side
    BY <2>1, <2>3
  <2> QED BY <2>2, <2>3
<1> HIDE DEF v
<1> QED BY <1>2, <1>3 DEF StreamTrue, Attributed, Unseen, v

\* Sending nothing changes nothing.
LEMMA SentNothing ==
  ASSUME NEW w \in [Sides -> Seq(Unit)], NEW side \in Sides
  PROVE  [w EXCEPT ![side] = @ \o <<>>] = w
<1>1. w[side] \o <<>> = w[side]
  BY ConcatEmptySeq
<1> QED BY <1>1

\* The append touches one direction, its full flag and PrefixTruncated ...
LEMMA RetainBytes ==
  ASSUME NEW s \in Stream, NEW i \in Dirs, NEW data \in Seq(Unit), NEW ts \in Nat
  PROVE  LET room == MaxPrefix - Len(s.buf[i])
             over == Len(data) > room
             r == Retain(s, i, data, ts)
         IN  /\ r.buf[i] = s.buf[i] \o (IF over THEN SubSeq(data, 1, room) ELSE data)
             /\ \A j \in Dirs \ {i} : r.buf[j] = s.buf[j]
             /\ \A j \in Dirs : r.full[j] <=> (s.full[j] \/ (j = i /\ over))
             /\ r.flow.truncated <=> (s.flow.truncated \/ over)
<1> DEFINE room == MaxPrefix - Len(s.buf[i])
           over == Len(data) > room
           kept == IF over THEN SubSeq(data, 1, room) ELSE data
           seen == IF ts > s.flow.lastSeen THEN ts ELSE s.flow.lastSeen
           r == Retain(s, i, data, ts)
           B == [s.buf EXCEPT ![i] = s.buf[i] \o kept]
           F == [s.full EXCEPT ![i] = s.full[i] \/ over]
           G == [s.flow EXCEPT !.truncated = s.flow.truncated \/ over, !.lastSeen = seen]
<1>1. s.flow \in Flow /\ s.full \in [Dirs -> BOOLEAN] /\ s.buf \in [Dirs -> Seq(Unit)]
  BY DEF Stream
<1>2. r = [s EXCEPT !.buf = B, !.full = F, !.flow = G]
  <2>1. {"buf", "full", "flow"} \subseteq DOMAIN s
    BY DEF Stream
  <2>2. {"truncated", "lastSeen"} \subseteq DOMAIN s.flow
    BY <1>1 DEF Flow
  <2> QED BY <2>1, <2>2, ZenonT(40) DEF Retain
<1> HIDE DEF over, kept, seen, r
<1>3. G.truncated <=> (s.flow.truncated \/ over)
  BY <1>1 DEF Flow
<1>4. \A j \in Dirs : F[j] <=> (s.full[j] \/ (j = i /\ over))
  BY <1>1
<1>5. B[i] = s.buf[i] \o kept /\ \A j \in Dirs \ {i} : B[j] = s.buf[j]
  BY <1>1
<1> HIDE DEF B, F, G
<1>6. r.buf = B /\ r.full = F /\ r.flow = G
  BY <1>2 DEF Stream
<1> QED BY <1>3, <1>4, <1>5, <1>6 DEF r, over, kept

\* ... and nothing else but LastSeen.
LEMMA RetainRest ==
  ASSUME NEW s \in Stream, NEW i \in Dirs, NEW data \in Seq(Unit), NEW ts \in Nat
  PROVE  LET r == Retain(s, i, data, ts)
         IN  /\ r.flow.client = s.flow.client /\ r.flow.server = s.flow.server
             /\ r.first = s.first /\ r.clientIdx = s.clientIdx /\ r.haveSH = s.haveSH
             /\ r.haveCH = s.haveCH /\ r.rejected = s.rejected /\ r.emitted = s.emitted
             /\ r.counted = s.counted /\ r.done = s.done
<1> DEFINE room == MaxPrefix - Len(s.buf[i])
           over == Len(data) > room
           kept == IF over THEN SubSeq(data, 1, room) ELSE data
           seen == IF ts > s.flow.lastSeen THEN ts ELSE s.flow.lastSeen
           r == Retain(s, i, data, ts)
           B == [s.buf EXCEPT ![i] = s.buf[i] \o kept]
           F == [s.full EXCEPT ![i] = s.full[i] \/ over]
           G == [s.flow EXCEPT !.truncated = s.flow.truncated \/ over, !.lastSeen = seen]
<1>1. s.flow \in Flow
  BY DEF Stream
<1>2. r = [s EXCEPT !.buf = B, !.full = F, !.flow = G]
  <2>1. {"buf", "full", "flow"} \subseteq DOMAIN s
    BY DEF Stream
  <2>2. {"truncated", "lastSeen"} \subseteq DOMAIN s.flow
    BY <1>1 DEF Flow
  <2> QED BY <2>1, <2>2, ZenonT(40) DEF Retain
<1> HIDE DEF over, kept, seen, r
<1>3. G.client = s.flow.client /\ G.server = s.flow.server
  BY <1>1 DEF Flow
<1> HIDE DEF B, F, G
<1> QED BY <1>2, <1>3 DEF Stream, r

\* After the append the buffers are the cuts of what has been sent by then,
\* the flags included.
LEMMA RetainTrue ==
  ASSUME NEW s \in Stream, NEW i \in Dirs, NEW data \in Seq(Unit), NEW ts \in Nat,
         NEW w \in [Sides -> Seq(Unit)], Holds(s, w), Attributed(s, w)
  PROVE  LET v == [w EXCEPT ![Sender(s.first, i)] = @ \o data]
         IN  Holds(Retain(s, i, data, ts), v) /\ Attributed(Retain(s, i, data, ts), v)
<1> DEFINE x == Sender(s.first, i)
           v == [w EXCEPT ![x] = @ \o data]
           room == MaxPrefix - Len(s.buf[i])
           over == Len(data) > room
           kept == IF over THEN SubSeq(data, 1, room) ELSE data
           r == Retain(s, i, data, ts)
<1>1. /\ s.first \in Sides /\ s.flow \in Flow /\ s.flow.client \in Sides
      /\ s.buf \in [Dirs -> Seq(Unit)] /\ s.full \in [Dirs -> BOOLEAN]
      /\ s.haveCH \in BOOLEAN /\ s.clientIdx \in Dirs
  BY DEF Stream, Flow
<1>2. x \in Sides /\ w[x] \in Seq(Unit) /\ v[x] = w[x] \o data
  BY <1>1, SenderSides
<1>a. r.buf[i] = s.buf[i] \o kept
  BY RetainBytes, ZenonT(40)
<1>b. /\ \A j \in Dirs \ {i} : r.buf[j] = s.buf[j]
      /\ \A j \in Dirs : r.full[j] <=> (s.full[j] \/ (j = i /\ over))
      /\ r.flow.truncated <=> (s.flow.truncated \/ over)
  BY RetainBytes
<1>3. /\ r.flow.client = s.flow.client /\ r.flow.server = s.flow.server
      /\ r.first = s.first /\ r.clientIdx = s.clientIdx /\ r.haveSH = s.haveSH
      /\ r.haveCH = s.haveCH
  BY RetainRest
<1>4. /\ s.buf[i] = Cut(w[x]) /\ (s.full[i] <=> Len(w[x]) > MaxPrefix)
      /\ \A j \in Dirs : s.full[j] => s.flow.truncated
  BY DEF Holds
<1>5. /\ Cut(w[x] \o data) = Cut(w[x]) \o kept
      /\ Len(w[x]) <= MaxPrefix => (over <=> Len(w[x] \o data) > MaxPrefix)
  BY <1>2, <1>4, CutAppend
<1>6. Len(w[x] \o data) = Len(w[x]) + Len(data) /\ Len(w[x]) \in Nat /\ Len(data) \in Nat
      /\ MaxPrefix \in Nat
  BY <1>2, ConcatProperties, AssemblerAssumption
<1> HIDE DEF r, kept, over, v
<1>7. ASSUME NEW j \in Dirs
      PROVE  /\ r.buf[j] = Cut(v[Sender(r.first, j)])
             /\ r.full[j] <=> Len(v[Sender(r.first, j)]) > MaxPrefix
             /\ r.full[j] => r.flow.truncated
  <2>1. CASE j = i
    <3>1. r.buf[j] = Cut(w[x]) \o kept /\ (r.full[j] <=> (s.full[i] \/ over))
      BY <1>1, <1>a, <1>b, <1>4, <2>1
    <3>2. (s.full[i] \/ over) <=> Len(w[x] \o data) > MaxPrefix
      BY <1>4, <1>5, <1>6
    <3> QED BY <1>2, <1>3, <1>b, <1>4, <1>5, <2>1, <3>1, <3>2
  <2>2. CASE j # i
    <3>1. Sender(s.first, j) # x /\ Sender(s.first, j) \in Sides
      BY <1>1, <2>2, SenderSides DEF Dirs
    <3>2. v[Sender(s.first, j)] = w[Sender(s.first, j)]
      BY <3>1 DEF v
    <3>3. r.buf[j] = s.buf[j] /\ (r.full[j] <=> s.full[j])
      BY <1>1, <1>b, <2>2
    <3> QED BY <1>3, <1>b, <1>4, <3>2, <3>3 DEF Holds
  <2> QED BY <2>1, <2>2
<1>8. Holds(r, v)
  BY <1>7 DEF Holds
<1>9. s.haveCH => Says(s.flow, v)
  BY <1>1, <1>2, SaysGrows DEF Attributed, v
<1>10. Attributed(r, v)
  BY <1>3, <1>9 DEF Attributed, Says
<1> QED BY <1>8, <1>10 DEF r, v

\* What parse leaves of a stream as it was.
SameStream(s, t) ==
  /\ t.first = s.first /\ t.counted = s.counted /\ t.done = s.done
  /\ s.haveCH => t.haveCH

\* Finding the ClientHello names the side that sent it; finding none means
\* there is none in either buffer.
LEMMA ClientTrue ==
  ASSUME NEW s \in Stream, NEW w \in [Sides -> Seq(Unit)], Holds(s, w), Attributed(s, w)
  PROVE  LET t == WithClient(s)
         IN  /\ t \in Stream /\ Holds(t, w) /\ Attributed(t, w) /\ SameStream(s, t)
             /\ t.rejected = s.rejected /\ t.emitted = s.emitted /\ t.haveSH = s.haveSH
             /\ ~t.haveCH => \A i \in Dirs : ~FindClientHello(t.buf[i])
<1> DEFINE hits == {i \in Dirs : FindClientHello(s.buf[i])}
           idx == IF 0 \in hits THEN 0 ELSE 1
           t == WithClient(s)
<1>1. CASE s.haveCH \/ hits = {}
  <2>1. t = s
    BY <1>1 DEF WithClient
  <2>2. ~s.haveCH => \A i \in Dirs : ~FindClientHello(s.buf[i])
    BY <1>1
  <2> HIDE DEF t, hits
  <2> QED BY <2>1, <2>2 DEF t, SameStream
<1>2. CASE ~(s.haveCH \/ hits = {})
  <2> DEFINE G == [s.flow EXCEPT !.client = Sender(s.flow.client, idx)]
  <2>1. t = [s EXCEPT !.haveCH = TRUE, !.clientIdx = idx, !.flow = G]
    BY <1>2 DEF WithClient
  <2>2. idx \in Dirs /\ idx \in hits
    BY <1>2 DEF Dirs
  <2>3. FindClientHello(s.buf[idx])
    BY <2>2
  <2> HIDE DEF hits, idx, t
  <2>4. /\ s.first \in Sides /\ s.flow \in Flow /\ s.flow.client = s.first /\ ~s.haveSH
        /\ s.flow.server = NoServer
    BY <1>2 DEF Stream, Attributed
  <2>5. G \in Flow /\ G.client = Sender(s.first, idx) /\ G.server = NoServer
        /\ G.truncated = s.flow.truncated
    <3>1. Sender(s.first, idx) \in Sides
      BY <2>2, <2>4, SenderSides
    <3> QED BY <2>4, <3>1 DEF Flow
  <2> HIDE DEF G
  <2>6. /\ t \in Stream /\ t.first = s.first /\ t.counted = s.counted /\ t.done = s.done
        /\ t.haveCH = TRUE /\ t.clientIdx = idx /\ t.flow = G /\ t.buf = s.buf /\ t.full = s.full
        /\ t.rejected = s.rejected /\ t.emitted = s.emitted /\ t.haveSH = s.haveSH
    BY <2>1, <2>2, <2>5 DEF Stream
  <2>7. Holds(t, w)
    BY <2>5, <2>6 DEF Holds
  <2>8. Says(G, w)
    <3> DEFINE x == Sender(s.first, idx)
    <3>1. x \in Sides /\ Other(x) \in Sides /\ w[x] \in Seq(Unit) /\ w[Other(x)] \in Seq(Unit)
      BY <2>2, <2>4, SenderSides, SMTT(30) DEF Other, Sides
    <3>2. s.buf[idx] = Cut(w[x])
      BY <2>2 DEF Holds
    <3> HIDE DEF x
    <3>3. \E n \in 0..Len(w[x]) : FindClientHello(SubSeq(w[x], 1, n))
      BY <2>3, <3>1, <3>2, CutPrefix
    <3>4. 0 \in 0..Len(w[Other(x)]) /\ SubSeq(w[Other(x)], 1, 0) = <<>>
      BY <3>1, SubSeqEmpty
    <3>5. FindServerHello(SubSeq(w[Other(x)], 1, 0)) = NoServer
      BY <3>4, NothingInEmpty
    <3>6. G.client = x
      BY <2>5 DEF x
    <3> QED BY <2>5, <3>3, <3>4, <3>5, <3>6 DEF Says
  <2>9. Attributed(t, w)
    BY <2>4, <2>5, <2>6, <2>8 DEF Attributed
  <2> QED BY <2>6, <2>7, <2>9 DEF SameStream, t
<1> QED BY <1>1, <1>2

\* The ServerHello is one the other side sent.
LEMMA ServerTrue ==
  ASSUME NEW s \in Stream, NEW w \in [Sides -> Seq(Unit)], Holds(s, w), Attributed(s, w)
  PROVE  LET t == WithServer(s)
         IN  /\ t \in Stream /\ Holds(t, w) /\ Attributed(t, w) /\ SameStream(s, t)
             /\ t.rejected = s.rejected /\ t.emitted = s.emitted
             /\ t.haveCH = s.haveCH /\ t.buf = s.buf
             /\ ~s.haveCH => t = s
<1> DEFINE sh == FindServerHello(s.buf[1 - s.clientIdx])
           t == WithServer(s)
<1>1. CASE ~s.haveCH \/ s.haveSH \/ sh = NoServer
  <2>1. t = s
    BY <1>1 DEF WithServer
  <2> HIDE DEF t
  <2> QED BY <2>1 DEF t, SameStream
<1>2. CASE ~(~s.haveCH \/ s.haveSH \/ sh = NoServer)
  <2> DEFINE G == [s.flow EXCEPT !.server = sh]
             i == 1 - s.clientIdx
  <2>1. t = [s EXCEPT !.haveSH = TRUE, !.flow = G]
    BY <1>2 DEF WithServer
  <2>2. /\ s.first \in Sides /\ s.flow \in Flow /\ s.clientIdx \in Dirs /\ s.haveCH
        /\ s.flow.client = Sender(s.first, s.clientIdx) /\ Says(s.flow, w)
    BY <1>2 DEF Stream, Attributed
  <2>3. i \in Dirs /\ Other(s.flow.client) = Sender(s.first, i) /\ Sender(s.first, i) \in Sides
    <3>1. i \in Dirs /\ Other(Sender(s.first, s.clientIdx)) = Sender(s.first, i)
      BY <2>2, SenderSides
    <3>2. Sender(s.first, i) \in Sides
      <4> HIDE DEF i
      <4> QED BY <2>2, <3>1, SenderSides
    <3> QED BY <2>2, <3>1, <3>2
  <2>4. sh \in Server /\ sh = FindServerHello(s.buf[i])
    BY FindServerHelloType
  <2> HIDE DEF sh, t, i
  <2>5. G \in Flow /\ G.client = s.flow.client /\ G.server = sh /\ G.truncated = s.flow.truncated
    BY <2>2, <2>4 DEF Flow
  <2> HIDE DEF G
  <2>6. /\ t \in Stream /\ t.first = s.first /\ t.counted = s.counted /\ t.done = s.done
        /\ t.haveCH = s.haveCH /\ t.clientIdx = s.clientIdx /\ t.flow = G
        /\ t.buf = s.buf /\ t.full = s.full
        /\ t.rejected = s.rejected /\ t.emitted = s.emitted /\ t.haveSH = TRUE
    BY <2>1, <2>5 DEF Stream
  <2>7. Holds(t, w)
    BY <2>5, <2>6 DEF Holds
  <2>8. Says(G, w)
    <3> DEFINE x == Sender(s.first, i)
    <3>1. w[x] \in Seq(Unit) /\ s.buf[i] = Cut(w[x])
      BY <2>3 DEF Holds
    <3>2. x = Other(G.client)
      BY <2>3, <2>5
    <3> HIDE DEF x
    <3>3. \E n \in 0..Len(w[x]) : FindServerHello(SubSeq(w[x], 1, n)) = sh
      BY <2>4, <3>1, CutPrefix
    <3> QED BY <2>2, <2>5, <3>2, <3>3 DEF Says
  <2>9. Attributed(t, w)
    BY <2>2, <2>5, <2>6, <2>8 DEF Attributed
  <2> QED BY <1>2, <2>6, <2>7, <2>9 DEF SameStream, t
<1> QED BY <1>1, <1>2

\* A stream that is hopeless with no hello in its buffers is barren on both
\* sides.
LEMMA HopelessBarren ==
  ASSUME NEW s \in Stream, NEW w \in [Sides -> Seq(Unit)], Holds(s, w), Hopeless(s),
         \A i \in Dirs : ~FindClientHello(s.buf[i])
  PROVE  \A side \in Sides : Barren(w[side])
<1> SUFFICES ASSUME NEW side \in Sides PROVE Barren(w[side])
  OBVIOUS
<1> DEFINE i == IF side = s.first THEN 0 ELSE 1
<1>1. i \in Dirs /\ Sender(s.first, i) = side
  <2>1. s.first \in Sides
    BY DEF Stream
  <2> QED BY <2>1, SenderSides DEF Dirs
<1> HIDE DEF i
<1>2. s.buf[i] = Cut(w[side]) /\ (s.full[i] <=> Len(w[side]) > MaxPrefix) /\ ~FindClientHello(s.buf[i])
  BY <1>1 DEF Holds
<1>3. s.full[i] \/ NotTLS(s.buf[i])
  BY <1>1 DEF Hopeless, Dirs
<1> QED BY <1>2, <1>3 DEF Barren

\* The reports of a connection agree with what was sent.
ReportsTrue(reps, w) == \A k \in DOMAIN reps : Says(reps[k], w)

\* parse, with the bytes just retained, leaves a stream that agrees with what
\* was sent, and so do the reports.
LEMMA ParseTrue ==
  ASSUME NEW a, IInv(a), NEW c \in DOMAIN a.tcp, NEW w \in [Sides -> Seq(Unit)],
         ~a.tcp[c].rejected, ~a.tcp[c].emitted, Holds(a.tcp[c], w), Attributed(a.tcp[c], w),
         ReportsTrue(a.reports[c], w)
  PROVE  /\ OnlyStream(a, Parse(a, c), c)
         /\ StreamTrue(Parse(a, c).tcp[c], w)
         /\ SameStream(a.tcp[c], Parse(a, c).tcp[c])
         /\ ReportsTrue(Parse(a, c).reports[c], w)
<1> DEFINE s == a.tcp[c]
           p == ParseClient(a, c)
           b == ParseServer(p, c)
           t == WithClient(s)
           u == WithServer(t)
<1>1. s \in Stream
  BY DEF IInv, AsmOK
<1>2. /\ IInv(p) /\ DOMAIN p.tcp = DOMAIN a.tcp /\ ~p.tcp[c].rejected
      /\ OnlyStream(a, p, c) /\ p.tcp[c] = t /\ p.reports = a.reports
  BY ParseClientOK, ParseClientEffect
<1>3. /\ t \in Stream /\ Holds(t, w) /\ Attributed(t, w) /\ SameStream(s, t)
      /\ t.rejected = s.rejected /\ t.emitted = s.emitted
      /\ ~t.haveCH => \A i \in Dirs : ~FindClientHello(t.buf[i])
  BY <1>1, ClientTrue
<1> HIDE DEF p, t
<1>4. /\ u \in Stream /\ Holds(u, w) /\ Attributed(u, w) /\ SameStream(t, u)
      /\ u.rejected = t.rejected /\ u.emitted = t.emitted
      /\ u.haveCH = t.haveCH /\ u.buf = t.buf
  BY <1>3, ServerTrue
<1>5. /\ IInv(b) /\ DOMAIN b.tcp = DOMAIN a.tcp /\ ~b.tcp[c].rejected /\ OnlyStream(p, b, c)
      /\ \/ b.tcp[c] = u /\ b.reports[c] = a.reports[c]
         \/ /\ t.haveCH /\ u.haveSH
            /\ b.tcp[c] = [u EXCEPT !.emitted = TRUE]
            /\ b.reports[c] = <<u.flow>>
  BY <1>2, ParseServerOK, ParseServerEffect
<1>6. OnlyStream(a, b, c) /\ c \in DOMAIN b.tcp
  BY <1>2, <1>5, OnlyStreamTrans
<1> HIDE DEF b, u
<1> DEFINE v == b.tcp[c]
<1>7. /\ v \in Stream /\ Holds(v, w) /\ Attributed(v, w) /\ SameStream(s, v) /\ ~v.rejected
      /\ v.haveCH = t.haveCH /\ v.buf = t.buf /\ (v.emitted => v.haveSH)
  <2>1. CASE v = u
    BY <1>3, <1>4, <1>5, <2>1 DEF SameStream
  <2>2. CASE v = [u EXCEPT !.emitted = TRUE] /\ u.haveSH
    <3>1. /\ v \in Stream /\ v.first = u.first /\ v.counted = u.counted /\ v.done = u.done
          /\ v.haveCH = u.haveCH /\ v.clientIdx = u.clientIdx /\ v.flow = u.flow
          /\ v.buf = u.buf /\ v.full = u.full /\ v.rejected = u.rejected /\ v.haveSH = u.haveSH
      <4> HIDE DEF v
      <4> QED BY <1>4, <2>2 DEF Stream
    <3> HIDE DEF v
    <3>2. Holds(v, w) /\ Attributed(v, w)
      BY <1>4, <3>1 DEF Holds, Attributed
    <3> QED BY <1>3, <1>4, <2>2, <3>1, <3>2 DEF SameStream
  <2> QED BY <1>5, <2>1, <2>2
<1>8. ReportsTrue(b.reports[c], w)
  <2>1. CASE b.reports[c] = a.reports[c]
    BY <2>1
  <2>2. CASE b.reports[c] = <<u.flow>> /\ t.haveCH
    <3>1. Says(u.flow, w)
      BY <1>4, <2>2 DEF Attributed
    <3>2. \A k \in DOMAIN <<u.flow>> : <<u.flow>>[k] = u.flow
      OBVIOUS
    <3> QED BY <2>2, <3>1, <3>2 DEF ReportsTrue
  <2> QED BY <1>5, <2>1, <2>2
<1>9. Parse(a, c) = IF Hopeless(v) THEN Reject(b, c) ELSE b
  BY DEF Parse, b, p
<1>10. ~v.haveCH => \A i \in Dirs : ~FindClientHello(v.buf[i])
  BY <1>3, <1>7
<1>11. CASE ~Hopeless(v)
  <2>1. StreamTrue(v, w)
    <3> HIDE DEF v
    <3> QED BY <1>7, <1>10 DEF StreamTrue, Unseen, Settled
  <2> QED BY <1>6, <1>7, <1>8, <1>9, <1>11, <2>1
<1>12. CASE Hopeless(v)
  <2> DEFINE r == [v EXCEPT !.rejected = TRUE, !.buf = [i \in Dirs |-> <<>>]]
             d == Reject(b, c)
  <2>1. OnlyStream(b, d, c) /\ d.tcp[c] = r /\ d.reports = b.reports
    BY <1>5, <1>6, RejectEffect, ZenonT(40)
  <2>2. \A side \in Sides : Barren(w[side])
    <3> HIDE DEF v
    <3>1. ~v.haveCH
      BY <1>12 DEF Hopeless
    <3> QED BY <1>7, <1>10, <1>12, <3>1, HopelessBarren
  <2>3. /\ r.first = v.first /\ r.counted = v.counted /\ r.done = v.done /\ r.haveCH = v.haveCH
        /\ r.clientIdx = v.clientIdx /\ r.flow = v.flow /\ r.haveSH = v.haveSH
        /\ r.emitted = v.emitted /\ r.rejected = TRUE
    <3> HIDE DEF v
    <3> QED BY <1>7 DEF Stream
  <2> HIDE DEF r, d, v
  <2>4. StreamTrue(r, w)
    BY <1>7, <2>2, <2>3 DEF StreamTrue, Reading, Attributed, Unseen, Settled
  <2>5. SameStream(s, r)
    BY <1>7, <2>3 DEF SameStream
  <2>6. OnlyStream(a, d, c)
    BY <1>6, <2>1, OnlyStreamTrans
  <2> QED BY <1>8, <1>9, <1>12, <2>1, <2>4, <2>5, <2>6 DEF d
<1> QED BY <1>11, <1>12

\* ReassembledSG leaves the stream it feeds, and its reports, true to what has
\* been sent by then, and does not touch a stream already reported.
LEMMA ReassembledSGTrue ==
  ASSUME NEW a, IInv(a), NEW c \in DOMAIN a.tcp, NEW i \in Dirs,
         NEW data \in Seq(Unit), NEW ts \in Nat, NEW w \in [Sides -> Seq(Unit)],
         StreamTrue(a.tcp[c], w), ReportsTrue(a.reports[c], w)
  PROVE  LET b == ReassembledSG(a, c, i, data, ts)
             v == [w EXCEPT ![Sender(a.tcp[c].first, i)] = @ \o data]
         IN  /\ OnlyStream(a, b, c)
             /\ StreamTrue(b.tcp[c], v) /\ SameStream(a.tcp[c], b.tcp[c])
             /\ ReportsTrue(b.reports[c], v)
             /\ a.tcp[c].emitted => b = a
<1> DEFINE s == a.tcp[c]
           x == Sender(s.first, i)
           v == [w EXCEPT ![x] = @ \o data]
           b == ReassembledSG(a, c, i, data, ts)
<1>1. /\ AsmOK(a) /\ Coherent(a) /\ s \in Stream /\ StreamCoherent(s, a.reports[c])
      /\ c \in Conns /\ a.reports[c] \in Seq(Flow)
  BY DEF IInv, AsmOK, Coherent
<1>2. s.first \in Sides /\ s.haveCH \in BOOLEAN
  BY <1>1 DEF Stream
<1>3. x \in Sides
  BY <1>2, SenderSides
<1>4. ReportsTrue(a.reports[c], v)
  <2> SUFFICES ASSUME NEW k \in DOMAIN a.reports[c] PROVE Says(a.reports[c][k], v)
    BY DEF ReportsTrue
  <2>1. a.reports[c][k] \in Flow
    BY <1>1
  <2>2. Says(a.reports[c][k], w)
    BY DEF ReportsTrue
  <2> HIDE DEF x
  <2> QED BY <1>3, <2>1, <2>2, SaysGrows
<1>5. s.emitted => ~Reading(s)
  BY <1>1 DEF StreamTrue, Reading, StreamCoherent
<1>6. CASE data = <<>> \/ ~Reading(s)
  <2>1. b = a
    BY <1>6 DEF ReassembledSG, Reading
  <2>2. StreamTrue(s, v)
    <3> HIDE DEF s, x
    <3>1. CASE data = <<>>
      BY <1>3, <3>1, SentNothing DEF s
    <3>2. CASE ~Reading(s)
      BY <1>1, <1>3, <3>2, IdleTrue DEF s
    <3> QED BY <1>6, <3>1, <3>2
  <2> HIDE DEF b, v
  <2> QED BY <1>4, <2>1, <2>2 DEF OnlyStream, SameStream, b, v
<1>7. CASE ~(data = <<>> \/ ~Reading(s))
  <2> DEFINE r == Retain(s, i, data, ts)
             d == [a EXCEPT !.tcp[c] = r]
  <2>1. b = Parse(d, c) /\ Reading(s)
    BY <1>7 DEF ReassembledSG, Reading
  <2>2. /\ r \in Stream
        /\ \A j \in Dirs : Len(r.buf[j]) <= MaxPrefix
        /\ r.counted = s.counted /\ r.haveCH = s.haveCH
        /\ r.emitted = s.emitted /\ r.rejected = s.rejected
    BY <1>1, RetainOK, SMTT(30) DEF StreamCoherent
  <2>3. r.first = s.first /\ r.done = s.done
    BY <1>1, RetainRest
  <2>4. Holds(r, v) /\ Attributed(r, v)
    BY <1>1, <2>1, RetainTrue DEF StreamTrue
  <2>5. ~s.emitted /\ ~s.rejected
    BY <1>5, <2>1 DEF Reading
  <2> HIDE DEF r
  <2>6. /\ DOMAIN d = Fields
        /\ d.tcp = [a.tcp EXCEPT ![c] = r]
        /\ d.quic = a.quic /\ d.lastFlush = a.lastFlush
        /\ d.stats = a.stats /\ d.reports = a.reports
    BY <1>1 DEF AsmOK, Fields
  <2> HIDE DEF d
  <2>7. IInv(d)
    BY <1>1, <2>2, <2>5, <2>6, QuietStep DEF StreamCoherent
  <2>8. OnlyStream(a, d, c) /\ d.tcp[c] = r /\ c \in DOMAIN d.tcp
    BY <2>6 DEF OnlyStream
  <2>9. v \in [Sides -> Seq(Unit)]
    <3>1. w[x] \o data \in Seq(Unit)
      BY <1>3
    <3> HIDE DEF x
    <3> QED BY <1>3, <3>1
  <2> HIDE DEF v, s, x
  <2>10. /\ OnlyStream(d, Parse(d, c), c)
         /\ StreamTrue(Parse(d, c).tcp[c], v)
         /\ SameStream(r, Parse(d, c).tcp[c])
         /\ ReportsTrue(Parse(d, c).reports[c], v)
    BY <1>4, <2>2, <2>4, <2>5, <2>6, <2>7, <2>8, <2>9, ParseTrue
  <2>11. OnlyStream(a, b, c)
    BY <2>1, <2>8, <2>10, OnlyStreamTrans
  <2>12. SameStream(s, b.tcp[c])
    BY <2>1, <2>2, <2>3, <2>10 DEF SameStream
  <2> HIDE DEF b
  <2> QED BY <2>1, <2>5, <2>10, <2>11, <2>12 DEF b, s, v, x
<1> QED BY <1>6, <1>7

(***************************************************************************)
(* A step without a new stream: what is released was reported if it showed *)
(* a ClientHello, what stays keeps its hello, and a reported flow is as it *)
(* was.                                                                    *)
(***************************************************************************)
KeptBy(f, g) ==
  /\ f.haveCH => g.haveCH
  /\ f.emitted => g.emitted /\ g.flow = f.flow

Carried(t, u, reps) ==
  /\ DOMAIN u \subseteq DOMAIN t
  /\ \A x \in DOMAIN u : KeptBy(t[x], u[x])
  /\ \A x \in DOMAIN t \ DOMAIN u : t[x].haveCH => reps[x] # <<>>

Follows(a, b) ==
  /\ Carried(a.tcp, b.tcp, b.reports) /\ Carried(a.quic, b.quic, b.reports)
  /\ \A x \in Conns \cup Tuples : a.reports[x] # <<>> => b.reports[x] # <<>>
  /\ b.stats.dropped = a.stats.dropped

\* Such steps compose.
LEMMA FollowsTrans ==
  ASSUME NEW a, NEW b, NEW d, AsmOK(a), AsmOK(b), AsmOK(d), Follows(a, b), Follows(b, d)
  PROVE  Follows(a, d)
<1>1. ASSUME NEW t, NEW u, NEW v, NEW reps, NEW more, DOMAIN t \subseteq Conns \cup Tuples,
             Carried(t, u, reps), Carried(u, v, more),
             \A x \in Conns \cup Tuples : reps[x] # <<>> => more[x] # <<>>
      PROVE  Carried(t, v, more)
  BY <1>1 DEF Carried, KeptBy
<1>2. DOMAIN a.tcp \subseteq Conns \cup Tuples /\ DOMAIN a.quic \subseteq Conns \cup Tuples
  BY DEF AsmOK
<1>3. Carried(a.tcp, d.tcp, d.reports) /\ Carried(a.quic, d.quic, d.reports)
  BY <1>1, <1>2 DEF Follows
<1> QED BY <1>3 DEF Follows

\* Where the tables stay as they are and no report is lost, nothing has to be
\* shown.
LEMMA FollowsSame ==
  ASSUME NEW a, NEW b, b.tcp = a.tcp, b.quic = a.quic, b.reports = a.reports,
         b.stats.dropped = a.stats.dropped
  PROVE  Follows(a, b)
BY DEF Follows, Carried, KeptBy

\* A step on one stream that does not touch it once reported.
LEMMA OneStreamFollows ==
  ASSUME NEW a, NEW b, NEW c, IInv(a), OnlyStream(a, b, c), c \in DOMAIN a.tcp,
         SameStream(a.tcp[c], b.tcp[c]),
         a.tcp[c].emitted => /\ b.tcp[c].emitted /\ b.tcp[c].flow = a.tcp[c].flow
                             /\ b.reports[c] = a.reports[c]
  PROVE  Follows(a, b)
<1>1. DOMAIN a.tcp \subseteq Conns /\ (a.tcp[c].emitted <=> a.reports[c] # <<>>)
  BY DEF IInv, AsmOK, Coherent, StreamCoherent
<1>2. Carried(a.tcp, b.tcp, b.reports)
  BY DEF Carried, KeptBy, OnlyStream, SameStream
<1>3. Carried(a.quic, b.quic, b.reports)
  BY DEF Carried, KeptBy, OnlyStream
<1>4. \A x \in Conns \cup Tuples : a.reports[x] # <<>> => b.reports[x] # <<>>
  BY <1>1 DEF OnlyStream
<1> QED BY <1>2, <1>3, <1>4 DEF Follows, OnlyStream

\* Releasing streams of one table: those that showed a ClientHello are reported.
LEMMA ReleaseCarried ==
  ASSUME NEW t, NEW S \in SUBSET DOMAIN t, NEW reps, NEW more,
         \A x \in S : t[x].haveCH /\ t[x].emitted => reps[x] # <<>>,
         \A x \in S : reps[x] # <<>> => more[x] # <<>>,
         \A x \in Ending(t, S) : more[x] # <<>>
  PROVE  Carried(t, Without(t, S), more)
BY DEF Carried, KeptBy, Without, Ending

\* ReassemblyComplete releases S and reports the hellos in it.
LEMMA CompleteEffect ==
  ASSUME NEW a, IInv(a), NEW S \in SUBSET DOMAIN a.tcp
  PROVE  LET b == ReassemblyComplete(a, S)
         IN  /\ Follows(a, b)
             /\ b.tcp = Without(a.tcp, S) /\ b.quic = a.quic
             /\ \A x \in Conns : \/ b.reports[x] = a.reports[x]
                                 \/ /\ x \in DOMAIN a.tcp /\ a.tcp[x].haveCH
                                    /\ b.reports[x] = <<a.tcp[x].flow>>
<1> DEFINE b == ReassemblyComplete(a, S)
           emits == Ending(a.tcp, S)
           n == Cardinality(emits)
           m == Cardinality(Slots(a.tcp, S))
           more == [x \in DOMAIN a.reports |-> IF x \in emits
                      THEN Append(a.reports[x], a.tcp[x].flow) ELSE a.reports[x]]
<1>1. /\ DOMAIN a = Fields /\ a.stats \in Stats /\ a.reports \in [Conns \cup Tuples -> Seq(Flow)]
      /\ DOMAIN a.tcp \subseteq Conns
      /\ \A c \in DOMAIN a.tcp : /\ a.tcp[c].emitted <=> a.reports[c] # <<>>
                                 /\ a.tcp[c].flow \in Flow
  BY DEF IInv, AsmOK, Coherent, StreamCoherent, Stream
<1>2. /\ b.tcp = Without(a.tcp, S) /\ b.quic = a.quic
      /\ b.stats = [a.stats EXCEPT !.tlsFlows = @ + n, !.live = @ - m]
      /\ b.reports = more
  <2> HIDE DEF emits, n, m
  <2> QED BY <1>1 DEF ReassemblyComplete, Fields, emits, n, m
<1>3. [a.stats EXCEPT !.tlsFlows = @ + n, !.live = @ - m].dropped = a.stats.dropped
  <2> HIDE DEF n, m
  <2> QED BY <1>1 DEF Stats
<1>4. /\ \A x \in emits : more[x] = <<a.tcp[x].flow>> /\ more[x] # <<>>
      /\ \A x \in (Conns \cup Tuples) \ emits : more[x] = a.reports[x]
  <2>1. \A x \in emits : x \in Conns \cup Tuples /\ a.reports[x] = <<>> /\ a.tcp[x].flow \in Flow
    BY <1>1 DEF Ending
  <2>2. \A x \in emits : /\ Append(<<>>, a.tcp[x].flow) = <<a.tcp[x].flow>>
                         /\ <<a.tcp[x].flow>> # <<>>
    BY <2>1, FirstReport
  <2> HIDE DEF emits
  <2> QED BY <1>1, <2>1, <2>2
<1>5. \A x \in emits : x \in S /\ x \in DOMAIN a.tcp /\ a.tcp[x].haveCH
  BY DEF Ending
<1> HIDE DEF b, more, n, m, emits
<1>6. \A x \in Conns \cup Tuples : a.reports[x] # <<>> => more[x] # <<>>
  BY <1>4
<1>7. Carried(a.tcp, b.tcp, b.reports)
  BY <1>1, <1>2, <1>4, <1>6, ReleaseCarried DEF emits
<1>8. Carried(a.quic, b.quic, b.reports)
  BY <1>2 DEF Carried, KeptBy
<1>9. Follows(a, b)
  BY <1>2, <1>3, <1>6, <1>7, <1>8 DEF Follows
<1>10. \A x \in Conns : \/ b.reports[x] = a.reports[x]
                        \/ /\ x \in DOMAIN a.tcp /\ a.tcp[x].haveCH
                           /\ b.reports[x] = <<a.tcp[x].flow>>
  BY <1>2, <1>4, <1>5
<1> QED BY <1>2, <1>9, <1>10 DEF b

\* flushQUIC releases the flows not seen after t and reports the hellos in them.
LEMMA FlushQUICEffect ==
  ASSUME NEW a, IInv(a), NEW t
  PROVE  LET b == FlushQUIC(a, t)
             S == {q \in DOMAIN a.quic : a.quic[q].flow.lastSeen <= t}
         IN  /\ Follows(a, b)
             /\ b.tcp = a.tcp /\ b.quic = Without(a.quic, S)
             /\ \A x \in Conns : b.reports[x] = a.reports[x]
<1> DEFINE S == {q \in DOMAIN a.quic : a.quic[q].flow.lastSeen <= t}
           b == FlushQUIC(a, t)
           emits == Ending(a.quic, S)
           n == Cardinality(emits)
           m == Cardinality(S)
           more == [x \in DOMAIN a.reports |-> IF x \in emits
                      THEN Append(a.reports[x], a.quic[x].flow) ELSE a.reports[x]]
<1>1. /\ DOMAIN a = Fields /\ a.stats \in Stats /\ a.reports \in [Conns \cup Tuples -> Seq(Flow)]
      /\ DOMAIN a.quic \subseteq Tuples
      /\ \A q \in DOMAIN a.quic : /\ a.quic[q].emitted <=> a.reports[q] # <<>>
                                  /\ a.quic[q].flow \in Flow
  BY DEF IInv, AsmOK, Coherent, QUICFlowOK
<1>2. S \in SUBSET DOMAIN a.quic
  OBVIOUS
<1>3. /\ b.tcp = a.tcp /\ b.quic = Without(a.quic, S)
      /\ b.stats = [a.stats EXCEPT !.tlsFlows = @ + n, !.live = @ - m]
      /\ b.reports = more
  <2> HIDE DEF emits, n, m, S
  <2> QED BY <1>1 DEF FlushQUIC, Fields, emits, n, m, S
<1> HIDE DEF S
<1>4. [a.stats EXCEPT !.tlsFlows = @ + n, !.live = @ - m].dropped = a.stats.dropped
  <2> HIDE DEF n, m
  <2> QED BY <1>1 DEF Stats
<1>5. /\ \A x \in emits : more[x] = <<a.quic[x].flow>> /\ more[x] # <<>>
      /\ \A x \in (Conns \cup Tuples) \ emits : more[x] = a.reports[x]
  <2>1. \A x \in emits : x \in Conns \cup Tuples /\ a.reports[x] = <<>> /\ a.quic[x].flow \in Flow
    BY <1>1, <1>2 DEF Ending
  <2>2. \A x \in emits : /\ Append(<<>>, a.quic[x].flow) = <<a.quic[x].flow>>
                         /\ <<a.quic[x].flow>> # <<>>
    BY <2>1, FirstReport
  <2> HIDE DEF emits
  <2> QED BY <1>1, <2>1, <2>2
<1>6. \A x \in emits : x \in Tuples /\ x \notin Conns
  BY <1>1, <1>2, AssemblerAssumption DEF Ending
<1> HIDE DEF b, more, n, m, emits
<1>7. \A x \in Conns \cup Tuples : a.reports[x] # <<>> => more[x] # <<>>
  BY <1>5
<1>8. Carried(a.quic, b.quic, b.reports)
  BY <1>1, <1>2, <1>3, <1>5, <1>7, ReleaseCarried DEF emits
<1>9. Carried(a.tcp, b.tcp, b.reports)
  BY <1>3 DEF Carried, KeptBy
<1>10. Follows(a, b)
  BY <1>3, <1>4, <1>7, <1>8, <1>9 DEF Follows
<1>11. \A x \in Conns : b.reports[x] = a.reports[x]
  BY <1>3, <1>5, <1>6
<1> QED BY <1>3, <1>10, <1>11 DEF b, S

\* A release keeps what is tracked and what is reported true to what was sent.
LEMMA CompleteTrue ==
  ASSUME NEW a, IInv(a), NEW S \in SUBSET DOMAIN a.tcp, NEW w, Truthful(a, w)
  PROVE  Truthful(ReassemblyComplete(a, S), w)
<1> DEFINE b == ReassemblyComplete(a, S)
<1>1. /\ b.tcp = Without(a.tcp, S)
      /\ \A x \in Conns : \/ b.reports[x] = a.reports[x]
                          \/ /\ x \in DOMAIN a.tcp /\ a.tcp[x].haveCH
                             /\ b.reports[x] = <<a.tcp[x].flow>>
  BY CompleteEffect
<1> HIDE DEF b
<1>2. \A c \in DOMAIN b.tcp : c \in DOMAIN a.tcp /\ b.tcp[c] = a.tcp[c]
  BY <1>1 DEF Without
<1>3. ASSUME NEW x \in Conns, NEW k \in DOMAIN b.reports[x] PROVE Says(b.reports[x][k], w[x])
  <2>1. CASE b.reports[x] = a.reports[x]
    BY <2>1 DEF Truthful
  <2>2. CASE x \in DOMAIN a.tcp /\ a.tcp[x].haveCH /\ b.reports[x] = <<a.tcp[x].flow>>
    <3>1. Says(a.tcp[x].flow, w[x])
      BY <2>2 DEF Truthful, StreamTrue, Attributed
    <3>2. <<a.tcp[x].flow>>[k] = a.tcp[x].flow
      BY <2>2
    <3> QED BY <2>2, <3>1, <3>2
  <2> QED BY <1>1, <2>1, <2>2
<1> QED BY <1>2, <1>3 DEF Truthful, b

\* What the assembler tracks and reports of TCP alone decides whether it is true.
LEMMA SameTrue ==
  ASSUME NEW a, NEW b, NEW w, Truthful(a, w), b.tcp = a.tcp,
         \A x \in Conns : b.reports[x] = a.reports[x]
  PROVE  Truthful(b, w)
BY DEF Truthful

\* No QUIC flow was last seen after t.
Stamped(a, t) == \A q \in DOMAIN a.quic : a.quic[q].flow.lastSeen <= t

\* FlushOlderThan only releases.
LEMMA FlushOlderThanEffect ==
  ASSUME NEW a, IInv(a), NEW t
  PROVE  /\ Follows(a, FlushOlderThan(a, t))
         /\ \A w : Truthful(a, w) => Truthful(FlushOlderThan(a, t), w)
         /\ \A u : Stamped(a, u) => Stamped(FlushOlderThan(a, t), u)
<1> DEFINE S == {c \in DOMAIN a.tcp : a.tcp[c].lastSeen < t}
           b == ReassemblyComplete(a, S)
           d == FlushQUIC(b, t)
<1>1. S \in SUBSET DOMAIN a.tcp
  OBVIOUS
<1>2. FlushOlderThan(a, t) = d
  BY DEF FlushOlderThan, FlushCloseOlderThan
<1> HIDE DEF S
<1>3. IInv(b) /\ Follows(a, b) /\ b.quic = a.quic
  BY <1>1, ReassemblyCompleteOK, CompleteEffect
<1>4. \A w : Truthful(a, w) => Truthful(b, w)
  BY <1>1, CompleteTrue
<1> HIDE DEF b
<1>5. IInv(d)
  BY <1>3, FlushQUICOK
<1>6. /\ Follows(b, d) /\ d.tcp = b.tcp
      /\ d.quic = Without(b.quic, {q \in DOMAIN b.quic : b.quic[q].flow.lastSeen <= t})
      /\ \A x \in Conns : d.reports[x] = b.reports[x]
  BY <1>3, FlushQUICEffect
<1> HIDE DEF d
<1>7. Follows(a, d)
  BY <1>3, <1>5, <1>6, FollowsTrans DEF IInv
<1>8. \A w : Truthful(a, w) => Truthful(d, w)
  BY <1>4, <1>6, SameTrue
<1>9. \A u : Stamped(a, u) => Stamped(d, u)
  BY <1>3, <1>6 DEF Stamped, Without
<1> QED BY <1>2, <1>7, <1>8, <1>9

\* The sweep at the end of Packet only releases.
LEMMA PacketFlushEffect ==
  ASSUME NEW a, IInv(a), NEW ts \in Nat
  PROVE  /\ Follows(a, PacketFlush(a, ts))
         /\ \A w : Truthful(a, w) => Truthful(PacketFlush(a, ts), w)
         /\ \A u : Stamped(a, u) => Stamped(PacketFlush(a, ts), u)
<1> DEFINE f == FlushOlderThan(a, ts - CloseTimeout)
           b == [f EXCEPT !.lastFlush = ts]
<1>1. /\ IInv(f) /\ Follows(a, f)
      /\ \A w : Truthful(a, w) => Truthful(f, w)
      /\ \A u : Stamped(a, u) => Stamped(f, u)
  BY FlushOlderThanOK, FlushOlderThanEffect
<1> HIDE DEF f
<1>2. b.tcp = f.tcp /\ b.quic = f.quic /\ b.reports = f.reports /\ b.stats = f.stats
  BY <1>1 DEF IInv, AsmOK, Fields
<1>3. PacketFlush(a, ts) \in {a, b}
  BY DEF PacketFlush, f
<1> HIDE DEF b
<1>4. Follows(a, b)
  BY <1>1, <1>2 DEF Follows
<1>5. \A w : Truthful(a, w) => Truthful(b, w)
  BY <1>1, <1>2, SameTrue
<1>6. \A u : Stamped(a, u) => Stamped(b, u)
  BY <1>1, <1>2 DEF Stamped
<1>7. Follows(a, a)
  BY FollowsSame
<1> QED BY <1>3, <1>4, <1>5, <1>6, <1>7

\* trackTime touches neither table.
LEMMA TrackTimeEffect ==
  ASSUME NEW a, IInv(a), NEW ts \in Nat
  PROVE  LET b == TrackTime(a, ts)
         IN  b.tcp = a.tcp /\ b.quic = a.quic /\ b.reports = a.reports /\ b.stats = a.stats
BY DEF TrackTime, IInv, AsmOK, Fields

(***************************************************************************)
(* A TCP packet.                                                           *)
(***************************************************************************)

\* The streams differ in what gopacket keeps, at most.
Alike(s, t) ==
  /\ t.first = s.first /\ t.buf = s.buf /\ t.full = s.full /\ t.clientIdx = s.clientIdx
  /\ t.haveCH = s.haveCH /\ t.haveSH = s.haveSH /\ t.rejected = s.rejected
  /\ t.emitted = s.emitted /\ t.counted = s.counted /\ t.flow = s.flow

\* gopacket's own state has no part in what a stream knows.
LEMMA AlikeTrue ==
  ASSUME NEW s, NEW t, Alike(s, t), NEW w, StreamTrue(s, w)
  PROVE  StreamTrue(t, w)
BY DEF Alike, StreamTrue, Reading, Holds, Attributed, Unseen, Settled

\* A step that rewrites gopacket's part of one stream.
LEMMA AlikeStep ==
  ASSUME NEW a, IInv(a), NEW c \in DOMAIN a.tcp, NEW b, NEW s \in Stream,
         DOMAIN b = Fields, b.tcp = [a.tcp EXCEPT ![c] = s],
         b.quic = a.quic, b.lastFlush = a.lastFlush, b.stats = a.stats, b.reports = a.reports,
         Alike(a.tcp[c], s)
  PROVE  /\ IInv(b) /\ Follows(a, b) /\ c \in DOMAIN b.tcp /\ b.tcp[c] = s
         /\ \A w : Truthful(a, w) => Truthful(b, w)
<1>1. StreamCoherent(a.tcp[c], a.reports[c])
  BY DEF IInv, Coherent
<1>2. IInv(b)
  BY <1>1, QuietStep DEF StreamCoherent, Alike
<1>3. /\ DOMAIN b.tcp = DOMAIN a.tcp /\ b.tcp[c] = s
      /\ \A x \in DOMAIN a.tcp \ {c} : b.tcp[x] = a.tcp[x]
  OBVIOUS
<1>4. Carried(a.tcp, b.tcp, b.reports)
  BY <1>3 DEF Carried, KeptBy, Alike
<1>5. Follows(a, b)
  BY <1>4 DEF Follows, Carried, KeptBy
<1>6. ASSUME NEW w, Truthful(a, w) PROVE Truthful(b, w)
  <2>1. \A x \in DOMAIN b.tcp : StreamTrue(b.tcp[x], w[x])
    BY <1>3, <1>6, AlikeTrue DEF Truthful
  <2> QED BY <1>6, <2>1 DEF Truthful
<1> QED BY <1>2, <1>3, <1>5, <1>6

\* A step on one stream that leaves it and its reports true to what was sent.
LEMMA OneStreamTrue ==
  ASSUME NEW a, NEW b, NEW c \in DOMAIN a.tcp, AsmOK(a), OnlyStream(a, b, c),
         NEW w \in [Conns -> [Sides -> Seq(Unit)]], Truthful(a, w),
         NEW v, StreamTrue(b.tcp[c], v), ReportsTrue(b.reports[c], v)
  PROVE  Truthful(b, [w EXCEPT ![c] = v])
<1> DEFINE u == [w EXCEPT ![c] = v]
<1>1. c \in Conns /\ DOMAIN a.tcp \subseteq Conns
  BY DEF AsmOK
<1>2. u[c] = v /\ \A x \in Conns \ {c} : u[x] = w[x]
  BY <1>1
<1> HIDE DEF u
<1>3. \A x \in DOMAIN b.tcp : StreamTrue(b.tcp[x], u[x])
  BY <1>1, <1>2 DEF Truthful, OnlyStream
<1>4. \A x \in Conns : \A k \in DOMAIN b.reports[x] : Says(b.reports[x][k], u[x])
  BY <1>1, <1>2 DEF Truthful, OnlyStream, ReportsTrue
<1> QED BY <1>3, <1>4 DEF Truthful, u

\* Handing a segment to gopacket for a tracked connection.
LEMMA AssembleEffect ==
  ASSUME NEW a, IInv(a), NEW c \in DOMAIN a.tcp, NEW from \in Sides,
         NEW data \in Seq(Unit), NEW fin \in BOOLEAN, NEW ts \in Nat,
         NEW w \in [Conns -> [Sides -> Seq(Unit)]], Truthful(a, w),
         NEW i, i = IF from = a.tcp[c].first THEN 0 ELSE 1
  PROVE  LET b == Assemble(a, c, from, data, fin, ts)
         IN  /\ Follows(a, b) /\ b.quic = a.quic
             /\ a.tcp[c].done[i] => Truthful(b, w)
             /\ ~a.tcp[c].done[i] => Truthful(b, [w EXCEPT ![c] = [w[c] EXCEPT ![from] = @ \o data]])
<1> DEFINE s == a.tcp[c]
           r == [s EXCEPT !.lastSeen = IF ts > @ THEN ts ELSE @]
           seen == [a EXCEPT !.tcp[c].lastSeen = IF ts > @ THEN ts ELSE @]
           fed == ReassembledSG(seen, c, i, data, ts)
           half == [fed EXCEPT !.tcp[c].done[i] = TRUE]
           gone == ReassemblyComplete(fed, {c})
           v == [w[c] EXCEPT ![from] = @ \o data]
           W == [w EXCEPT ![c] = v]
           b == Assemble(a, c, from, data, fin, ts)
<1>0. b \in {seen, fed, gone, half} /\ (s.done[i] => b = seen) /\ (~s.done[i] => b \in {fed, gone, half})
  <2>1. i = IF from = s.first THEN 0 ELSE 1
    OBVIOUS
  <2> QED BY <2>1, ZenonT(40) DEF Assemble
<1>1. /\ AsmOK(a) /\ s \in Stream /\ s.first \in Sides /\ i \in Dirs /\ c \in Conns
      /\ Sender(s.first, i) = from
  <2>1. AsmOK(a) /\ s \in Stream /\ s.first \in Sides /\ c \in Conns
    BY DEF IInv, AsmOK, Stream
  <2> QED BY <2>1, SenderSides DEF Dirs
<1>2. /\ DOMAIN seen = Fields
      /\ seen.tcp = [a.tcp EXCEPT ![c] = r]
      /\ seen.quic = a.quic /\ seen.lastFlush = a.lastFlush
      /\ seen.stats = a.stats /\ seen.reports = a.reports
  BY <1>1 DEF AsmOK, Fields
<1>3. r \in Stream /\ Alike(s, r)
  BY <1>1 DEF Stream, Alike
<1> HIDE DEF seen, r
<1>4. /\ IInv(seen) /\ Follows(a, seen) /\ c \in DOMAIN seen.tcp /\ seen.tcp[c] = r
      /\ Truthful(seen, w)
  <2> HIDE DEF s
  <2> QED BY <1>2, <1>3, AlikeStep DEF s
<1>5. /\ StreamTrue(seen.tcp[c], w[c]) /\ ReportsTrue(seen.reports[c], w[c])
      /\ w[c] \in [Sides -> Seq(Unit)] /\ Sender(seen.tcp[c].first, i) = from
  BY <1>1, <1>3, <1>4 DEF Truthful, ReportsTrue, Alike
<1>6. /\ OnlyStream(seen, fed, c)
      /\ StreamTrue(fed.tcp[c], v) /\ SameStream(seen.tcp[c], fed.tcp[c])
      /\ ReportsTrue(fed.reports[c], v)
      /\ seen.tcp[c].emitted => fed = seen
  <2> DEFINE u == w[c]
             x == Sender(seen.tcp[c].first, i)
             y == [u EXCEPT ![x] = @ \o data]
  <2>1. u \in [Sides -> Seq(Unit)] /\ StreamTrue(seen.tcp[c], u) /\ ReportsTrue(seen.reports[c], u)
    BY <1>5
  <2> HIDE DEF u
  <2>2. OnlyStream(seen, fed, c) /\ SameStream(seen.tcp[c], fed.tcp[c])
    BY <1>1, <1>4, <2>1, ReassembledSGTrue, Zenon
  <2>3. StreamTrue(fed.tcp[c], y)
    BY <1>1, <1>4, <2>1, ReassembledSGTrue, Zenon
  <2>4. ReportsTrue(fed.reports[c], y)
    BY <1>1, <1>4, <2>1, ReassembledSGTrue, Zenon
  <2>5. seen.tcp[c].emitted => fed = seen
    BY <1>1, <1>4, <2>1, ReassembledSGTrue, ZenonT(40)
  <2>6. y = v
    BY <1>5 DEF u
  <2> HIDE DEF y, v, fed
  <2> QED BY <2>2, <2>3, <2>4, <2>5, <2>6
<1>7. IInv(fed) /\ DOMAIN fed.tcp = DOMAIN seen.tcp
  BY <1>1, <1>4, ReassembledSGOK
<1> HIDE DEF fed, v, s
<1>8. Follows(seen, fed) /\ fed.quic = a.quic
  BY <1>2, <1>4, <1>6, OneStreamFollows, ZenonT(40) DEF OnlyStream
<1>9. Truthful(fed, W)
  BY <1>4, <1>6, OneStreamTrue DEF IInv
<1>10. Follows(a, fed)
  BY <1>1, <1>4, <1>7, <1>8, FollowsTrans DEF IInv
<1>11. Follows(a, gone) /\ gone.quic = a.quic /\ Truthful(gone, W)
  <2>1. {c} \in SUBSET DOMAIN fed.tcp
    BY <1>4, <1>7
  <2>2. /\ IInv(gone) /\ Follows(fed, gone) /\ gone.quic = fed.quic /\ Truthful(gone, W)
    BY <1>7, <1>9, <2>1, ReassemblyCompleteOK, CompleteEffect, CompleteTrue
  <2> HIDE DEF gone
  <2> QED BY <1>1, <1>7, <1>8, <1>10, <2>2, FollowsTrans DEF IInv
<1>12. Follows(a, half) /\ half.quic = a.quic /\ Truthful(half, W)
  <2> DEFINE t == fed.tcp[c]
             u == [t EXCEPT !.done = [@ EXCEPT ![i] = TRUE]]
  <2>1. AsmOK(fed) /\ t \in Stream /\ c \in DOMAIN fed.tcp
    BY <1>4, <1>7 DEF IInv, AsmOK
  <2>2. /\ DOMAIN half = Fields
        /\ half.tcp = [fed.tcp EXCEPT ![c] = u]
        /\ half.quic = fed.quic /\ half.lastFlush = fed.lastFlush
        /\ half.stats = fed.stats /\ half.reports = fed.reports
    BY <2>1 DEF AsmOK, Fields
  <2>3. u \in Stream /\ Alike(t, u)
    <3>1. t.done \in [Dirs -> BOOLEAN]
      BY <2>1 DEF Stream
    <3>2. [t.done EXCEPT ![i] = TRUE] \in [Dirs -> BOOLEAN]
      BY <1>1, <3>1
    <3> QED BY <2>1, <3>2 DEF Stream, Alike
  <2> HIDE DEF half, u, t, W
  <2>4. IInv(half) /\ Follows(fed, half) /\ Truthful(half, W)
    BY <1>7, <1>9, <2>1, <2>2, <2>3, AlikeStep DEF t
  <2> QED BY <1>1, <1>7, <1>8, <1>10, <2>2, <2>4, FollowsTrans DEF IInv
<1> HIDE DEF gone, half, W, b
<1>13. Follows(a, b) /\ b.quic = a.quic
  BY <1>0, <1>2, <1>4, <1>8, <1>10, <1>11, <1>12
<1>14. s.done[i] => Truthful(b, w)
  BY <1>0, <1>4
<1>15. ~s.done[i] => Truthful(b, W)
  BY <1>0, <1>9, <1>11, <1>12
<1> QED BY <1>13, <1>14, <1>15 DEF b, s, W, v

\* A step that only adds streams or flows and leaves the others alone.
Extends(a, b) ==
  /\ DOMAIN a.tcp \subseteq DOMAIN b.tcp /\ DOMAIN a.quic \subseteq DOMAIN b.quic
  /\ \A x \in DOMAIN a.tcp : b.tcp[x] = a.tcp[x]
  /\ \A x \in DOMAIN a.quic : b.quic[x] = a.quic[x]

\* factory.New adds a stream that knows nothing yet of a connection on which
\* nothing was sent, and counts the ones it turns away.
LEMMA NewStreamEffect ==
  ASSUME NEW a, IInv(a), NEW c \in Conns \ DOMAIN a.tcp, NEW from \in Sides, NEW ts \in Nat,
         NEW w \in [Conns -> [Sides -> Seq(Unit)]], Truthful(a, w)
  PROVE  LET b == NewStream(a, c, from, ts)
         IN  /\ Extends(a, b) /\ b.quic = a.quic
             /\ b.stats.dropped = IF AtCap(a) THEN a.stats.dropped + 1 ELSE a.stats.dropped
             /\ Truthful(b, [w EXCEPT ![c] = [side \in Sides |-> <<>>]])
             /\ \A i \in Dirs : ~b.tcp[c].done[i]
<1> DEFINE over == AtCap(a)
           s == [first |-> from, buf |-> [i \in Dirs |-> <<>>], full |-> [i \in Dirs |-> FALSE],
                 clientIdx |-> 0, haveCH |-> FALSE, haveSH |-> FALSE,
                 rejected |-> over, emitted |-> FALSE, counted |-> ~over,
                 flow |-> [client |-> from, server |-> NoServer,
                           truncated |-> FALSE, lastSeen |-> ts],
                 done |-> [i \in Dirs |-> FALSE], lastSeen |-> ts]
           b == NewStream(a, c, from, ts)
           none == [side \in Sides |-> <<>>]
           v == [w EXCEPT ![c] = none]
<1>1. AsmOK(a) /\ DOMAIN a = Fields /\ a.stats \in Stats /\ DOMAIN a.tcp \subseteq Conns
      /\ a.reports \in [Conns \cup Tuples -> Seq(Flow)]
  BY DEF IInv, AsmOK
<1>2. /\ b.quic = a.quic
      /\ b.tcp = [x \in DOMAIN a.tcp \cup {c} |-> IF x = c THEN s ELSE a.tcp[x]]
      /\ b.stats = [a.stats EXCEPT !.streams = @ + 1,
                                   !.dropped = IF over THEN @ + 1 ELSE @,
                                   !.live = IF over THEN @ ELSE @ + 1]
      /\ b.reports = [a.reports EXCEPT ![c] = <<>>]
  <2> HIDE DEF over
  <2> QED BY <1>1 DEF NewStream, Fields, over
<1>3. /\ s.first = from /\ s.buf = [i \in Dirs |-> <<>>] /\ s.full = [i \in Dirs |-> FALSE]
      /\ s.haveCH = FALSE /\ s.haveSH = FALSE /\ s.emitted = FALSE
      /\ s.rejected = over /\ s.counted = ~over
      /\ s.flow.client = from /\ s.flow.server = NoServer
      /\ s.done = [i \in Dirs |-> FALSE]
  OBVIOUS
<1> HIDE DEF b, s, over
<1>4. b.stats.dropped = IF over THEN a.stats.dropped + 1 ELSE a.stats.dropped
  BY <1>1, <1>2 DEF Stats
<1>5. b.tcp[c] = s /\ Extends(a, b)
  BY <1>2 DEF Extends
<1>6. \A i \in Dirs : s.done[i] = FALSE /\ s.buf[i] = <<>> /\ s.full[i] = FALSE
  BY <1>3
<1>7. StreamTrue(s, none)
  <2>1. \A side \in Sides : none[side] = <<>>
    OBVIOUS
  <2>2. <<>> \in Seq(Unit) /\ Len(<<>>) = 0 /\ MaxPrefix \in Nat
    BY AssemblerAssumption
  <2>3. Cut(<<>>) = <<>> /\ ~(Len(<<>>) > MaxPrefix)
    <3> DEFINE e == <<>>
    <3>1. e \in Seq(Unit) /\ Len(e) <= MaxPrefix /\ ~(Len(e) > MaxPrefix)
      BY <2>2
    <3> HIDE DEF e
    <3>2. Cut(e) = e
      BY <3>1, CutPrefix
    <3> QED BY <3>1, <3>2 DEF e
  <2> HIDE DEF none
  <2>4. Holds(s, none)
    <3>1. \A i \in Dirs : none[Sender(s.first, i)] = <<>>
      BY <1>3, <2>1, SenderSides
    <3> QED BY <1>6, <2>3, <3>1 DEF Holds
  <2>5. Attributed(s, none)
    BY <1>3 DEF Attributed
  <2>6. Unseen(s)
    BY <1>6, NothingInEmpty DEF Unseen
  <2>7. Settled(s, none)
    BY <1>3 DEF Settled
  <2> QED BY <1>3, <2>4, <2>5, <2>6, <2>7 DEF StreamTrue
<1>8. v[c] = none /\ \A x \in Conns \ {c} : v[x] = w[x]
  OBVIOUS
<1> HIDE DEF v, none
<1>9. \A x \in DOMAIN b.tcp : StreamTrue(b.tcp[x], v[x])
  BY <1>1, <1>2, <1>5, <1>7, <1>8 DEF Truthful, Extends
<1>10. ASSUME NEW x \in Conns, NEW k \in DOMAIN b.reports[x] PROVE Says(b.reports[x][k], v[x])
  <2>1. CASE x = c
    <3>1. b.reports[c] = <<>>
      BY <1>1, <1>2
    <3>2. DOMAIN <<>> = {}
      OBVIOUS
    <3> QED BY <2>1, <3>1, <3>2
  <2>2. CASE x # c
    <3>1. b.reports[x] = a.reports[x]
      BY <1>1, <1>2, <2>2
    <3> QED BY <1>8, <2>2, <3>1 DEF Truthful
  <2> QED BY <2>1, <2>2
<1>11. Truthful(b, v)
  BY <1>9, <1>10 DEF Truthful
<1> QED BY <1>2, <1>4, <1>5, <1>6, <1>11 DEF b, v, none, over

(***************************************************************************)
(* A QUIC Initial.                                                         *)
(***************************************************************************)

\* Nothing but the flow of q, its report and the counters changes from a to b;
\* the flow keeps its hello, and LastSeen is u.
OnlyFlow(a, b, q, u) ==
  /\ b.tcp = a.tcp /\ b.stats.dropped = a.stats.dropped
  /\ DOMAIN b.quic = DOMAIN a.quic
  /\ \A x \in DOMAIN a.quic \ {q} : b.quic[x] = a.quic[x]
  /\ \A x \in (Conns \cup Tuples) \ {q} : b.reports[x] = a.reports[x]
  /\ a.quic[q].haveCH => b.quic[q].haveCH
  /\ b.quic[q].flow.lastSeen = u

\* emitQUIC changes the emitted flag and the report.
LEMMA EmitQUICEffect ==
  ASSUME NEW a, IInv(a), NEW q \in DOMAIN a.quic
  PROVE  OnlyFlow(a, EmitQUIC(a, q), q, a.quic[q].flow.lastSeen)
<1> DEFINE f == a.quic[q]
           r == [f EXCEPT !.emitted = TRUE]
           b == EmitQUIC(a, q)
<1>1. CASE f.emitted \/ ~f.haveCH
  BY <1>1 DEF EmitQUIC, OnlyFlow
<1>2. CASE ~(f.emitted \/ ~f.haveCH)
  <2>1. /\ DOMAIN a = Fields /\ a.stats \in Stats /\ DOMAIN f = QUICFields
        /\ a.reports \in [Conns \cup Tuples -> Seq(Flow)]
    BY DEF IInv, AsmOK
  <2>2. /\ b.tcp = a.tcp
        /\ b.quic = [a.quic EXCEPT ![q] = r]
        /\ b.stats = [a.stats EXCEPT !.tlsFlows = @ + 1]
        /\ b.reports = [a.reports EXCEPT ![q] = Append(@, f.flow)]
    BY <1>2, <2>1 DEF EmitQUIC, Fields
  <2>3. r.haveCH = f.haveCH /\ r.flow = f.flow
    BY <2>1 DEF QUICFields
  <2>4. [a.stats EXCEPT !.tlsFlows = @ + 1].dropped = a.stats.dropped
    BY <2>1 DEF Stats
  <2> HIDE DEF b, r, f
  <2> QED BY <2>1, <2>2, <2>3, <2>4 DEF OnlyFlow, b, f
<1> QED BY <1>1, <1>2

\* quicParse changes one flow.
LEMMA QUICParseEffect ==
  ASSUME NEW a, IInv(a), NEW q \in DOMAIN a.quic
  PROVE  OnlyFlow(a, QUICParse(a, q), q, a.quic[q].flow.lastSeen)
<1> DEFINE f == a.quic[q]
           ch == f.haveCH \/ FindClientHelloRaw(Prefix(f.crypto["client"]))
           sh == FindServerHelloRaw(Prefix(f.crypto["server"]))
           b == [a EXCEPT !.quic[q].haveCH = ch]
           d == [b EXCEPT !.quic[q].haveSH = TRUE, !.quic[q].flow.server = sh]
           r == [f EXCEPT !.haveCH = ch]
<1>1. AsmOK(a) /\ Coherent(a) /\ q \in Tuples /\ DOMAIN f = QUICFields /\ QUICFlowOK(f)
  BY DEF IInv, AsmOK
<1>2. sh \in Server
  BY FindServerHelloType
<1>3. ch \in BOOLEAN /\ (f.haveCH => ch)
  OBVIOUS
<1>14. QUICParse(a, q) \in {b, d, EmitQUIC(d, q)}
  BY DEF QUICParse
<1> HIDE DEF ch, sh
<1>4. /\ DOMAIN b = Fields
      /\ b.tcp = a.tcp /\ b.lastFlush = a.lastFlush /\ b.stats = a.stats /\ b.reports = a.reports
      /\ b.quic = [a.quic EXCEPT ![q] = r]
  BY <1>1 DEF AsmOK, Fields
<1>5. /\ DOMAIN r = QUICFields /\ r.haveCH = ch /\ r.emitted = f.emitted /\ r.haveSH = f.haveSH
      /\ r.flow = f.flow /\ r.origDCID = f.origDCID
  BY <1>1 DEF QUICFields
<1>6. QUICFlowOK(r) /\ (r.emitted => r.haveCH)
  <2>1. f.emitted => f.haveCH
    BY <1>1 DEF Coherent
  <2> HIDE DEF r, f
  <2> QED BY <1>1, <1>3, <1>5, <2>1 DEF QUICFlowOK
<1>7. IInv(b) /\ DOMAIN b.quic = DOMAIN a.quic /\ b.quic[q] = r
  <2> HIDE DEF b, r, f
  <2> QED BY <1>4, <1>5, <1>6, QuietQUICStep DEF f
<1> DEFINE G == [r.flow EXCEPT !.server = sh]
           u == [r EXCEPT !.haveSH = TRUE, !.flow = G]
<1>8. G \in Flow /\ G.lastSeen = f.flow.lastSeen
  <2>1. r.flow \in Flow
    BY <1>6 DEF QUICFlowOK
  <2> HIDE DEF r
  <2> QED BY <1>2, <1>5, <2>1 DEF Flow
<1>9. /\ DOMAIN d = Fields
      /\ d.tcp = b.tcp /\ d.lastFlush = b.lastFlush /\ d.stats = b.stats /\ d.reports = b.reports
      /\ d.quic = [b.quic EXCEPT ![q] = u]
  <2> HIDE DEF b, r
  <2>1. AsmOK(b) /\ q \in DOMAIN b.quic
    BY <1>7 DEF IInv
  <2> QED BY <2>1, <1>5, <1>7 DEF AsmOK, Fields, QUICFields
<1>10. /\ DOMAIN u = QUICFields /\ u.haveCH = r.haveCH /\ u.emitted = r.emitted /\ u.haveSH = TRUE
       /\ u.flow = G /\ u.origDCID = r.origDCID
  <2> HIDE DEF r, G
  <2> QED BY <1>5 DEF QUICFields
<1>11. QUICFlowOK(u)
  <2> HIDE DEF r, G, u
  <2> QED BY <1>6, <1>8, <1>10 DEF QUICFlowOK
<1>12. IInv(d) /\ DOMAIN d.quic = DOMAIN a.quic /\ d.quic[q] = u
  <2> HIDE DEF b, d, r, u, G
  <2> QED BY <1>6, <1>7, <1>9, <1>10, <1>11, QuietQUICStep
<1>13. OnlyFlow(d, EmitQUIC(d, q), q, u.flow.lastSeen)
  <2> HIDE DEF d, u
  <2> QED BY <1>12, EmitQUICEffect
<1> HIDE DEF b, d, r, u, G, f
<1>15. OnlyFlow(a, b, q, f.flow.lastSeen)
  BY <1>3, <1>4, <1>5, <1>7 DEF OnlyFlow, f
<1>16. OnlyFlow(a, d, q, f.flow.lastSeen)
  BY <1>3, <1>4, <1>5, <1>8, <1>9, <1>10, <1>12 DEF OnlyFlow, f
<1>17. OnlyFlow(a, EmitQUIC(d, q), q, f.flow.lastSeen)
  BY <1>8, <1>10, <1>12, <1>13, <1>16 DEF OnlyFlow
<1> QED BY <1>14, <1>15, <1>16, <1>17 DEF f

\* quicPacket for a registered flow changes that flow, unless it was reported.
LEMMA QUICInputEffect ==
  ASSUME NEW a, IInv(a), NEW q \in DOMAIN a.quic, NEW p \in Initial, NEW ts \in Nat
  PROVE  LET b == QUICInput(a, q, p, ts)
         IN  /\ b.tcp = a.tcp /\ Follows(a, b)
             /\ \A x \in Conns : b.reports[x] = a.reports[x]
             /\ \A t : Stamped(a, t) /\ ts <= t => Stamped(b, t)
<1> DEFINE f == a.quic[q]
           role == IF p.from = f.flow.client THEN "client" ELSE "server"
           m == IF ts > f.flow.lastSeen THEN ts ELSE f.flow.lastSeen
           b == [a EXCEPT !.quic[q].flow.lastSeen = IF ts > @ THEN ts ELSE @]
           d == [b EXCEPT !.quic[q].crypto[role] = AddFrames(@, p.frames)]
           G == [f.flow EXCEPT !.lastSeen = m]
           r == [f EXCEPT !.flow = G]
           e == QUICInput(a, q, p, ts)
<1>0. (f.emitted => e = a) /\ (~f.emitted => e \in {b, QUICParse(d, q)})
  BY DEF QUICInput
<1>1. AsmOK(a) /\ Coherent(a) /\ DOMAIN f = QUICFields /\ QUICFlowOK(f) /\ q \in Tuples /\ q \notin Conns
  BY AssemblerAssumption DEF IInv, AsmOK
<1>2. f.flow \in Flow /\ (f.emitted => f.haveCH) /\ (f.emitted <=> a.reports[q] # <<>>)
  BY <1>1 DEF QUICFlowOK, Coherent
<1>3. G \in Flow /\ G.lastSeen = m
  BY <1>2 DEF Flow
<1>4. /\ DOMAIN b = Fields
      /\ b.tcp = a.tcp /\ b.lastFlush = a.lastFlush /\ b.stats = a.stats /\ b.reports = a.reports
      /\ b.quic = [a.quic EXCEPT ![q] = r]
  BY <1>1 DEF AsmOK, Fields, QUICFields
<1>5. /\ DOMAIN r = QUICFields /\ r.haveCH = f.haveCH /\ r.emitted = f.emitted
      /\ r.haveSH = f.haveSH /\ r.flow = G /\ r.origDCID = f.origDCID
  <2> HIDE DEF G
  <2> QED BY <1>1 DEF QUICFields
<1>6. QUICFlowOK(r)
  <2> HIDE DEF r, f, G
  <2> QED BY <1>1, <1>3, <1>5 DEF QUICFlowOK
<1>7. IInv(b) /\ DOMAIN b.quic = DOMAIN a.quic /\ b.quic[q] = r
  <2> HIDE DEF b, r, f, G
  <2> QED BY <1>2, <1>4, <1>5, <1>6, QuietQUICStep DEF f
<1> DEFINE K == [r.crypto EXCEPT ![role] = AddFrames(@, p.frames)]
           u == [r EXCEPT !.crypto = K]
<1>9. /\ DOMAIN d = Fields
      /\ d.tcp = b.tcp /\ d.lastFlush = b.lastFlush /\ d.stats = b.stats /\ d.reports = b.reports
      /\ d.quic = [b.quic EXCEPT ![q] = u]
  <2> HIDE DEF b, r, role
  <2>1. AsmOK(b) /\ q \in DOMAIN b.quic
    BY <1>7 DEF IInv
  <2> QED BY <2>1, <1>5, <1>7 DEF AsmOK, Fields, QUICFields
<1>10. /\ DOMAIN u = QUICFields /\ u.haveCH = r.haveCH /\ u.emitted = r.emitted
       /\ u.haveSH = r.haveSH /\ u.flow = r.flow /\ u.origDCID = r.origDCID
  <2> HIDE DEF r, K
  <2> QED BY <1>5 DEF QUICFields
<1>11. QUICFlowOK(u) /\ (u.emitted => u.haveCH)
  <2> HIDE DEF r, u, f
  <2> QED BY <1>2, <1>5, <1>6, <1>10 DEF QUICFlowOK
<1>12. IInv(d) /\ DOMAIN d.quic = DOMAIN a.quic /\ d.quic[q] = u
  <2> HIDE DEF b, d, r, u
  <2> QED BY <1>7, <1>9, <1>10, <1>11, QuietQUICStep
<1>13. OnlyFlow(d, QUICParse(d, q), q, u.flow.lastSeen)
  <2> HIDE DEF d, u
  <2> QED BY <1>12, QUICParseEffect
<1> HIDE DEF b, d, e, r, u, G, K, f, m
<1>14. OnlyFlow(a, b, q, m)
  BY <1>3, <1>4, <1>5, <1>7 DEF OnlyFlow, f
<1>15. OnlyFlow(a, d, q, m)
  BY <1>3, <1>4, <1>5, <1>7, <1>9, <1>10, <1>12 DEF OnlyFlow, f
<1>16. OnlyFlow(a, QUICParse(d, q), q, m)
  BY <1>3, <1>5, <1>10, <1>12, <1>13, <1>15 DEF OnlyFlow
<1>17. CASE f.emitted
  <2>1. e = a
    BY <1>0, <1>17
  <2> QED BY <2>1, FollowsSame DEF e
<1>18. CASE ~f.emitted
  <2>1. OnlyFlow(a, e, q, m)
    BY <1>0, <1>14, <1>16, <1>18
  <2>2. Carried(a.quic, e.quic, e.reports)
    BY <1>18, <2>1 DEF OnlyFlow, Carried, KeptBy, f
  <2>3. Carried(a.tcp, e.tcp, e.reports)
    BY <2>1 DEF OnlyFlow, Carried, KeptBy
  <2>4. \A x \in Conns \cup Tuples : a.reports[x] # <<>> => e.reports[x] # <<>>
    BY <1>2, <1>18, <2>1 DEF OnlyFlow
  <2>5. Follows(a, e)
    BY <2>1, <2>2, <2>3, <2>4 DEF Follows, OnlyFlow
  <2>6. ASSUME NEW t, Stamped(a, t), ts <= t PROVE Stamped(e, t)
    <3>1. m <= t
      BY <2>6 DEF Stamped, m, f
    <3> QED BY <2>1, <2>6, <3>1 DEF Stamped, OnlyFlow
  <2>7. e.tcp = a.tcp /\ \A x \in Conns : e.reports[x] = a.reports[x]
    BY <1>1, <2>1 DEF OnlyFlow
  <2> QED BY <2>5, <2>6, <2>7 DEF e
<1> QED BY <1>17, <1>18

\* Registering a QUIC flow leaves the others alone.
LEMMA NewQUICFlowEffect ==
  ASSUME NEW a, IInv(a), NEW q \in Tuples \ DOMAIN a.quic, NEW p \in Initial, NEW ts \in Nat
  PROVE  LET b == NewQUICFlow(a, q, p, ts)
         IN  /\ Extends(a, b) /\ b.tcp = a.tcp /\ b.stats.dropped = a.stats.dropped
             /\ \A x \in Conns : b.reports[x] = a.reports[x]
             /\ \A t : Stamped(a, t) /\ ts <= t => Stamped(b, t)
<1> DEFINE f == [origDCID |-> p.dcid,
                 crypto |-> [side \in Sides |-> EmptyCrypto],
                 haveCH |-> FALSE, haveSH |-> FALSE, emitted |-> FALSE,
                 flow |-> [client |-> p.from, server |-> NoServer,
                           truncated |-> FALSE, lastSeen |-> ts]]
           b == NewQUICFlow(a, q, p, ts)
<1>1. /\ DOMAIN a = Fields /\ a.stats \in Stats /\ a.reports \in [Conns \cup Tuples -> Seq(Flow)]
      /\ q \notin Conns
  BY AssemblerAssumption DEF IInv, AsmOK
<1>2. /\ b.tcp = a.tcp
      /\ b.quic = [x \in DOMAIN a.quic \cup {q} |-> IF x = q THEN f ELSE a.quic[x]]
      /\ b.stats = [a.stats EXCEPT !.streams = @ + 1, !.live = @ + 1]
      /\ b.reports = [a.reports EXCEPT ![q] = <<>>]
  BY <1>1 DEF NewQUICFlow, Fields
<1>3. f.flow.lastSeen = ts
  OBVIOUS
<1>4. [a.stats EXCEPT !.streams = @ + 1, !.live = @ + 1].dropped = a.stats.dropped
  BY <1>1 DEF Stats
<1> HIDE DEF b, f
<1>5. Extends(a, b)
  BY <1>2 DEF Extends
<1>6. \A x \in Conns : b.reports[x] = a.reports[x]
  BY <1>1, <1>2
<1>7. \A t : Stamped(a, t) /\ ts <= t => Stamped(b, t)
  BY <1>2, <1>3 DEF Stamped
<1> QED BY <1>2, <1>4, <1>5, <1>6, <1>7 DEF b

(***************************************************************************)
(* The specification.                                                      *)
(***************************************************************************)

\* What a whole step does: a table may also gain streams.
Hands(a, b) ==
  /\ \A x \in DOMAIN a.tcp \cap DOMAIN b.tcp : KeptBy(a.tcp[x], b.tcp[x])
  /\ \A x \in DOMAIN a.tcp \ DOMAIN b.tcp : a.tcp[x].haveCH => b.reports[x] # <<>>
  /\ \A x \in DOMAIN a.quic \cap DOMAIN b.quic : KeptBy(a.quic[x], b.quic[x])
  /\ \A x \in DOMAIN a.quic \ DOMAIN b.quic : a.quic[x].haveCH => b.reports[x] # <<>>

\* Opening a stream or a flow and then a step without a new one.
LEMMA ExtendsFollows ==
  ASSUME NEW a, NEW b, NEW d, Extends(a, b), Follows(b, d)
  PROVE  Hands(a, d)
BY DEF Extends, Follows, Carried, Hands

\* A step without a new stream or flow.
LEMMA FollowsHands ==
  ASSUME NEW a, NEW b, Follows(a, b)
  PROVE  Hands(a, b)
<1>1. Extends(a, a)
  BY DEF Extends
<1> QED BY <1>1, ExtendsFollows

\* StreamsDropped goes up by one with every connection turned away.
Counts ==
  \/ asm'.stats.dropped = asm.stats.dropped /\ ignored' = ignored
  \/ /\ asm'.stats.dropped = asm.stats.dropped + 1
     /\ \E x \in Conns \cup Tuples : ignored' = ignored \cup {x}

\* Packet for a TCP packet.
LEMMA TCPPacketHistory ==
  ASSUME Inv, Truthful(asm, wire),
         NEW c \in Conns, NEW from \in Sides, NEW syn \in BOOLEAN, NEW fin \in BOOLEAN,
         NEW data \in Seq(Unit), NEW ts \in Stamps,
         TCPPacket(c, from, syn, data, fin, ts)
  PROVE  /\ Truthful(asm', wire') /\ Hands(asm, asm') /\ Counts
         /\ \A u : Stamped(asm, u) => Stamped(asm', u)
<1> DEFINE opening == Opening(c, syn, data)
           a == TrackTime(asm, ts)
           b == IF opening THEN NewStream(a, c, from, ts) ELSE a
           i == IF from = b.tcp[c].first THEN 0 ELSE 1
           none == [side \in Sides |-> <<>>]
           sent == IF opening THEN none ELSE wire[c]
           d == Assemble(b, c, from, data, fin, ts)
           w == IF opening THEN [wire EXCEPT ![c] = none] ELSE wire
<1>1. ts \in Nat
  BY StampsOK
<1>2. /\ opening \/ c \in DOMAIN asm.tcp
      /\ asm' = PacketFlush(d, ts)
      /\ wire' = [wire EXCEPT ![c] =
                    IF b.tcp[c].done[i] THEN @ ELSE [sent EXCEPT ![from] = @ \o data]]
      /\ ignored' = IF opening /\ AtCap(a) THEN ignored \cup {c} ELSE ignored
  BY DEF TCPPacket
<1>3. opening => c \notin DOMAIN asm.tcp
  BY DEF Opening
<1>4. IInv(asm) /\ wire \in [Conns -> [Sides -> Seq(Unit)]]
  BY DEF Inv
<1>5. IInv(a) /\ a.tcp = asm.tcp /\ a.quic = asm.quic /\ a.reports = asm.reports /\ a.stats = asm.stats
  BY <1>1, <1>4, TrackTimeOK, TrackTimeEffect
<1> HIDE DEF a, opening
<1>6. Truthful(a, wire)
  BY <1>5, SameTrue
<1>7. /\ IInv(b) /\ c \in DOMAIN b.tcp /\ Extends(asm, b) /\ b.quic = asm.quic
      /\ w \in [Conns -> [Sides -> Seq(Unit)]] /\ Truthful(b, w)
      /\ b.stats.dropped = IF opening /\ AtCap(a) THEN asm.stats.dropped + 1 ELSE asm.stats.dropped
      /\ opening => \A j \in Dirs : ~b.tcp[c].done[j]
  <2>1. CASE opening
    <3>1. c \in Conns \ DOMAIN a.tcp
      BY <1>3, <1>5, <2>1
    <3>2. b = NewStream(a, c, from, ts) /\ w = [wire EXCEPT ![c] = none]
      BY <2>1
    <3>3. IInv(b) /\ c \in DOMAIN b.tcp
      BY <1>1, <1>5, <3>1, <3>2, NewStreamOK
    <3>4. /\ Extends(a, b) /\ b.quic = a.quic
          /\ b.stats.dropped = IF AtCap(a) THEN a.stats.dropped + 1 ELSE a.stats.dropped
          /\ Truthful(b, w)
          /\ \A j \in Dirs : ~b.tcp[c].done[j]
      <4> DEFINE n == NewStream(a, c, from, ts)
      <4>1. Truthful(n, [wire EXCEPT ![c] = none])
        BY <1>1, <1>4, <1>5, <1>6, <3>1, NewStreamEffect, Zenon
      <4>2. Extends(a, n) /\ n.quic = a.quic /\ \A j \in Dirs : ~n.tcp[c].done[j]
        BY <1>1, <1>4, <1>5, <1>6, <3>1, NewStreamEffect, Zenon
      <4>3. n.stats.dropped = IF AtCap(a) THEN a.stats.dropped + 1 ELSE a.stats.dropped
        BY <1>1, <1>4, <1>5, <1>6, <3>1, NewStreamEffect, Zenon
      <4> HIDE DEF n, b, w, none
      <4> QED BY <3>2, <4>1, <4>2, <4>3 DEF n
    <3>5. w \in [Conns -> [Sides -> Seq(Unit)]]
      <4>1. none \in [Sides -> Seq(Unit)]
        <5>1. <<>> \in Seq(Unit)
          OBVIOUS
        <5> QED BY <5>1
      <4> HIDE DEF none
      <4> QED BY <1>4, <3>2, <4>1
    <3> HIDE DEF b, w
    <3> QED BY <1>5, <2>1, <3>3, <3>4, <3>5 DEF Extends
  <2>2. CASE ~opening
    <3>1. b = a /\ w = wire
      BY <2>2
    <3> HIDE DEF b, w
    <3> QED BY <1>2, <1>4, <1>5, <1>6, <2>2, <3>1 DEF Extends
  <2> QED BY <2>1, <2>2
<1>8. w[c] = sent /\ i \in Dirs
  BY <1>4 DEF Dirs
<1>9. wire' = IF b.tcp[c].done[i] THEN w ELSE [w EXCEPT ![c] = [w[c] EXCEPT ![from] = @ \o data]]
  <2>1. CASE b.tcp[c].done[i]
    <3>1. ~opening
      BY <1>7, <1>8, <2>1
    <3>2. wire' = [wire EXCEPT ![c] = wire[c]]
      BY <1>2, <2>1
    <3> QED BY <1>4, <2>1, <3>1, <3>2
  <2>2. CASE ~b.tcp[c].done[i]
    <3> DEFINE v == [sent EXCEPT ![from] = @ \o data]
    <3>1. wire' = [wire EXCEPT ![c] = v]
      BY <1>2, <2>2
    <3>2. v = [w[c] EXCEPT ![from] = @ \o data]
      BY <1>8
    <3> HIDE DEF v
    <3>3. [w EXCEPT ![c] = v] = [wire EXCEPT ![c] = v]
      BY <1>4
    <3> QED BY <2>2, <3>1, <3>2, <3>3
  <2> QED BY <2>1, <2>2
<1>i. i = IF from = b.tcp[c].first THEN 0 ELSE 1
  OBVIOUS
<1> HIDE DEF b, w, sent, d, i
<1>10. IInv(d)
  BY <1>1, <1>7, AssembleOK DEF d
<1>11. /\ Follows(b, d) /\ d.quic = b.quic
       /\ b.tcp[c].done[i] => Truthful(d, w)
       /\ ~b.tcp[c].done[i] => Truthful(d, [w EXCEPT ![c] = [w[c] EXCEPT ![from] = @ \o data]])
  <2>1. Follows(b, d)
    BY <1>1, <1>7, <1>i, AssembleEffect, Zenon DEF d
  <2>2. d.quic = b.quic
    BY <1>1, <1>7, <1>i, AssembleEffect, ZenonT(60) DEF d
  <2>3. b.tcp[c].done[i] => Truthful(d, w)
    BY <1>1, <1>7, <1>i, AssembleEffect, Zenon DEF d
  <2>4. ~b.tcp[c].done[i] => Truthful(d, [w EXCEPT ![c] = [w[c] EXCEPT ![from] = @ \o data]])
    BY <1>1, <1>7, <1>i, AssembleEffect, Zenon DEF d
  <2> QED BY <2>1, <2>2, <2>3, <2>4
<1>12. Truthful(d, wire')
  BY <1>9, <1>11
<1>13. /\ Follows(d, asm') /\ (Truthful(d, wire') => Truthful(asm', wire'))
       /\ \A u : Stamped(d, u) => Stamped(asm', u)
  BY <1>1, <1>2, <1>10, PacketFlushEffect
<1>14. IInv(asm')
  BY <1>1, <1>2, <1>10, PacketFlushOK
<1>15. Follows(b, asm')
  BY <1>7, <1>10, <1>11, <1>13, <1>14, FollowsTrans DEF IInv
<1>16. Hands(asm, asm')
  BY <1>7, <1>15, ExtendsFollows
<1>17. Counts
  BY <1>2, <1>7, <1>15 DEF Counts, Follows
<1>18. \A u : Stamped(asm, u) => Stamped(asm', u)
  BY <1>7, <1>11, <1>13 DEF Stamped
<1> QED BY <1>12, <1>13, <1>16, <1>17, <1>18

\* Packet for a QUIC Initial.
LEMMA InitialPacketHistory ==
  ASSUME Inv, Truthful(asm, wire), NEW q \in Tuples, NEW p \in Initials, NEW ts \in Stamps,
         InitialPacket(q, p, ts)
  PROVE  /\ Truthful(asm', wire') /\ Hands(asm, asm') /\ Counts
         /\ \A u : Stamped(asm, u) /\ ts <= u => Stamped(asm', u)
<1> DEFINE a == QUICPacket(asm, q, p, ts)
<1>1. ts \in Nat /\ p \in Initial /\ IInv(asm)
  BY StampsOK, AssemblerAssumption DEF Inv
<1>2. /\ asm' = TrackTime(a, ts) /\ wire' = wire
      /\ ignored' = IF q \notin DOMAIN asm.quic /\ QUICFull(asm) THEN ignored \cup {q} ELSE ignored
  BY DEF InitialPacket
<1>3. IInv(a)
  BY <1>1, QUICPacketOK
<1>4. /\ Hands(asm, a) /\ a.tcp = asm.tcp
      /\ \A x \in Conns : a.reports[x] = asm.reports[x]
      /\ a.stats.dropped = IF q \notin DOMAIN asm.quic /\ QUICFull(asm)
                           THEN asm.stats.dropped + 1 ELSE asm.stats.dropped
      /\ \A u : Stamped(asm, u) /\ ts <= u => Stamped(a, u)
  <2>1. CASE q \in DOMAIN asm.quic
    <3>1. a = QUICInput(asm, q, p, ts)
      BY <2>1 DEF QUICPacket
    <3>2. /\ a.tcp = asm.tcp /\ Follows(asm, a)
          /\ \A x \in Conns : a.reports[x] = asm.reports[x]
          /\ \A u : Stamped(asm, u) /\ ts <= u => Stamped(a, u)
      BY <1>1, <2>1, <3>1, QUICInputEffect
    <3> HIDE DEF a
    <3> QED BY <2>1, <3>2, FollowsHands DEF Follows
  <2>2. CASE q \notin DOMAIN asm.quic /\ QUICFull(asm)
    <3>1. a = [asm EXCEPT !.stats.dropped = @ + 1]
      BY <2>2 DEF QUICPacket
    <3>2. DOMAIN asm = Fields /\ asm.stats \in Stats
      BY <1>1 DEF IInv, AsmOK
    <3> HIDE DEF a
    <3>3. /\ a.tcp = asm.tcp /\ a.quic = asm.quic /\ a.reports = asm.reports
          /\ a.stats = [asm.stats EXCEPT !.dropped = @ + 1]
      BY <3>1, <3>2 DEF Fields
    <3>4. a.stats.dropped = asm.stats.dropped + 1
      BY <3>2, <3>3 DEF Stats
    <3>5. Hands(asm, a)
      BY <3>3 DEF Hands, KeptBy
    <3> QED BY <2>2, <3>3, <3>4, <3>5 DEF Stamped
  <2>3. CASE q \notin DOMAIN asm.quic /\ ~QUICFull(asm)
    <3> DEFINE b == NewQUICFlow(asm, q, p, ts)
    <3>1. Cardinality(DOMAIN asm.quic) < MaxStreams
      <4>1. Cardinality(DOMAIN asm.quic) \in Nat /\ MaxStreams \in Nat
        BY <1>1, FiniteParts, AssemblerAssumption DEF IInv
      <4> QED BY <2>3, <4>1 DEF QUICFull
    <3>2. a = QUICInput(b, q, p, ts)
      BY <2>3 DEF QUICPacket
    <3>3. IInv(b) /\ q \in DOMAIN b.quic
      BY <1>1, <2>3, <3>1, NewQUICFlowOK
    <3>4. /\ Extends(asm, b) /\ b.tcp = asm.tcp /\ b.stats.dropped = asm.stats.dropped
          /\ \A x \in Conns : b.reports[x] = asm.reports[x]
          /\ \A u : Stamped(asm, u) /\ ts <= u => Stamped(b, u)
      BY <1>1, <2>3, NewQUICFlowEffect
    <3> HIDE DEF b
    <3>5. /\ a.tcp = b.tcp /\ Follows(b, a)
          /\ \A x \in Conns : a.reports[x] = b.reports[x]
          /\ \A u : Stamped(b, u) /\ ts <= u => Stamped(a, u)
      BY <1>1, <3>2, <3>3, QUICInputEffect
    <3> HIDE DEF a
    <3>6. Hands(asm, a)
      BY <3>4, <3>5, ExtendsFollows
    <3> QED BY <2>3, <3>4, <3>5, <3>6 DEF Follows
  <2> QED BY <2>1, <2>2, <2>3
<1> HIDE DEF a
<1>5. asm'.tcp = a.tcp /\ asm'.quic = a.quic /\ asm'.reports = a.reports /\ asm'.stats = a.stats
  BY <1>1, <1>2, <1>3, TrackTimeEffect
<1>6. Hands(asm, asm')
  BY <1>4, <1>5 DEF Hands
<1>7. Truthful(asm', wire')
  BY <1>2, <1>4, <1>5, SameTrue
<1>8. Counts
  BY <1>2, <1>4, <1>5 DEF Counts
<1>9. \A u : Stamped(asm, u) /\ ts <= u => Stamped(asm', u)
  BY <1>4, <1>5 DEF Stamped
<1> QED BY <1>6, <1>7, <1>8, <1>9

\* Everything has been seen by Horizon: the wall clock on an interface, the
\* last time stamp in files.
Horizon == IF live THEN clock ELSE LastTraffic

\* Close releases a QUIC flow last seen at most an hour after the wall clock.
WithinHour == live \/ LastTraffic <= Start + Hour

\* The invariant of the history: what is held and reported is what was sent,
\* the shortfall is counted, no flow comes from after the horizon, and a
\* closed assembler is empty.
History ==
  /\ Truthful(asm, wire)
  /\ ShortfallReported
  /\ Stamped(asm, Horizon)
  /\ ~live => clock = Start
  /\ closed => DOMAIN asm.tcp = {}
  /\ closed /\ WithinHour => DOMAIN asm.quic = {}

\* A new Assembler has no history.
LEMMA InitHistory == Init => History
<1> SUFFICES ASSUME Init PROVE History
  OBVIOUS
<1> DEFINE reps == [x \in Conns \cup Tuples |-> <<>>]
           st == [streams |-> 0, tlsFlows |-> 0, rejectedTCP |-> 0, dropped |-> 0, live |-> 0]
<1>1. /\ asm = [tcp |-> <<>>, quic |-> <<>>, lastFlush |-> 0, stats |-> st, reports |-> reps]
      /\ ignored = {} /\ clock = Start /\ closed = FALSE
  BY DEF Init
<1>2. st.dropped = 0
  OBVIOUS
<1>3. \A x \in Conns : DOMAIN reps[x] = {}
  OBVIOUS
<1> HIDE DEF reps, st
<1>4. asm.tcp = <<>> /\ asm.quic = <<>> /\ asm.stats = st /\ asm.reports = reps
  BY <1>1
<1>5. DOMAIN asm.tcp = {} /\ DOMAIN asm.quic = {}
  BY <1>4
<1>6. Truthful(asm, wire)
  BY <1>3, <1>4, <1>5 DEF Truthful
<1>7. ShortfallReported
  BY <1>1, <1>2, <1>4, FS_EmptySet DEF ShortfallReported
<1>8. Stamped(asm, Horizon)
  BY <1>5 DEF Stamped
<1> QED BY <1>1, <1>5, <1>6, <1>7, <1>8 DEF History

\* Counting with every connection turned away keeps the shortfall covered.
LEMMA CountsShortfall ==
  ASSUME Inv, ShortfallReported, Counts
  PROVE  ShortfallReported'
<1>1. IsFiniteSet(ignored) /\ Cardinality(ignored) \in Nat
  <2>1. IsFiniteSet(Conns \cup Tuples)
    BY AssemblerAssumption, FS_Union
  <2>2. IsFiniteSet(ignored)
    BY <2>1, FS_Subset DEF Inv
  <2> QED BY <2>2, FS_CardinalityType
<1>2. asm.stats.dropped \in Nat
  BY DEF Inv, IInv, AsmOK, Stats
<1>3. CASE asm'.stats.dropped = asm.stats.dropped /\ ignored' = ignored
  BY <1>3 DEF ShortfallReported
<1>4. CASE /\ asm'.stats.dropped = asm.stats.dropped + 1
           /\ \E x \in Conns \cup Tuples : ignored' = ignored \cup {x}
  <2>1. PICK x \in Conns \cup Tuples : ignored' = ignored \cup {x}
    BY <1>4
  <2>2. Cardinality(ignored \cup {x}) <= Cardinality(ignored) + 1
    <3>1. CASE x \in ignored
      <4>1. ignored \cup {x} = ignored
        BY <3>1
      <4> QED BY <1>1, <4>1
    <3>2. CASE x \notin ignored
      <4>1. Cardinality(ignored \cup {x}) = Cardinality(ignored) + 1
        BY <1>1, <3>2, FS_AddElement
      <4> QED BY <1>1, <4>1
    <3> QED BY <3>1, <3>2
  <2>3. Cardinality(ignored \cup {x}) \in Nat
    BY <1>1, FS_AddElement, FS_CardinalityType
  <2>4. Cardinality(ignored) <= asm.stats.dropped
    BY DEF ShortfallReported
  <2>5. Cardinality(ignored') <= asm'.stats.dropped
    BY <1>1, <1>2, <1>4, <2>1, <2>2, <2>3, <2>4
  <2>6. ignored' # {}
    BY <2>1
  <2> QED BY <2>5, <2>6 DEF ShortfallReported
<1> QED BY <1>3, <1>4 DEF Counts

\* A packet's time stamp lies within the horizon.
LEMMA StampsHorizon ==
  ASSUME Inv, NEW ts \in Stamps
  PROVE  ts <= Horizon
BY AssemblerAssumption DEF Stamps, Horizon, Inv

\* Every step keeps the history and hands over what it releases.
LEMMA NextHistory == Inv /\ History /\ [Next]_vars => History' /\ Hands(asm, asm')
<1> SUFFICES ASSUME Inv, History, [Next]_vars PROVE History' /\ Hands(asm, asm')
  OBVIOUS
<1>0. /\ IInv(asm) /\ Truthful(asm, wire) /\ ShortfallReported /\ Stamped(asm, Horizon)
      /\ ~live => clock = Start
  BY DEF Inv, History
\* Before Close, a step that keeps the mode and the clock has these to show.
<1>a. ASSUME ~closed, closed' = closed, live' = live, clock' = clock,
             Truthful(asm', wire'), Counts, Stamped(asm', Horizon)
      PROVE  History'
  <2>1. ShortfallReported'
    BY <1>0, <1>a, CountsShortfall
  <2>2. Horizon' = Horizon
    BY <1>a DEF Horizon
  <2> QED BY <1>0, <1>a, <2>1, <2>2 DEF History, Truthful, Stamped
<1>1. ASSUME NEW c \in Conns, NEW from \in Sides, NEW syn \in BOOLEAN, NEW fin \in BOOLEAN,
             NEW data \in Seq(Unit), NEW ts \in Stamps, TCPPacket(c, from, syn, data, fin, ts)
      PROVE  History' /\ Hands(asm, asm')
  <2>1. /\ Truthful(asm', wire') /\ Hands(asm, asm') /\ Counts
        /\ \A u : Stamped(asm, u) => Stamped(asm', u)
    BY <1>0, <1>1, TCPPacketHistory
  <2>2. ~closed /\ closed' = closed /\ live' = live /\ clock' = clock
    BY <1>1 DEF TCPPacket, InTraffic
  <2> QED BY <1>0, <1>a, <2>1, <2>2
<1>2. CASE ClientPacket
  <2>1. PICK c \in Conns, syn \in BOOLEAN, fin \in BOOLEAN, data \in ClientSegs \cup {<<>>},
             ts \in Stamps : TCPPacket(c, "client", syn, data, fin, ts)
    BY <1>2 DEF ClientPacket
  <2>2. data \in Seq(Unit) /\ "client" \in Sides
    BY SegsOK DEF Sides
  <2> QED BY <1>1, <2>1, <2>2
<1>3. CASE ServerPacket
  <2>1. PICK c \in Conns, syn \in BOOLEAN, fin \in BOOLEAN, data \in ServerSegs \cup {<<>>},
             ts \in Stamps : TCPPacket(c, "server", syn, data, fin, ts)
    BY <1>3 DEF ServerPacket
  <2>2. data \in Seq(Unit) /\ "server" \in Sides
    BY SegsOK DEF Sides
  <2> QED BY <1>1, <2>1, <2>2
<1>4. CASE AnyStray
  <2>1. PICK c \in Conns, ts \in Stamps : StrayTCPPacket(c, ts)
    BY <1>4 DEF AnyStray
  <2> DEFINE a == TrackTime(asm, ts)
  <2>2. /\ ts \in Nat /\ ~closed /\ asm' = PacketFlush(a, ts)
        /\ wire' = wire /\ ignored' = ignored /\ closed' = closed /\ live' = live /\ clock' = clock
    BY <2>1, StampsOK DEF StrayTCPPacket, InTraffic
  <2>3. /\ IInv(a) /\ a.tcp = asm.tcp /\ a.quic = asm.quic /\ a.reports = asm.reports
        /\ a.stats = asm.stats
    BY <1>0, <2>2, TrackTimeOK, TrackTimeEffect
  <2> HIDE DEF a
  <2>4. Truthful(a, wire) /\ Stamped(a, Horizon) /\ Follows(asm, a)
    BY <1>0, <2>3, SameTrue, FollowsSame DEF Stamped
  <2>5. IInv(asm') /\ Follows(a, asm') /\ Truthful(asm', wire) /\ Stamped(asm', Horizon)
    BY <2>2, <2>3, <2>4, PacketFlushOK, PacketFlushEffect
  <2>6. Follows(asm, asm')
    BY <1>0, <2>3, <2>4, <2>5, FollowsTrans DEF IInv
  <2>7. Hands(asm, asm') /\ Counts
    BY <2>2, <2>6, FollowsHands DEF Counts, Follows
  <2> QED BY <1>a, <2>2, <2>5, <2>7
<1>5. CASE AnyInitial
  <2>1. PICK q \in Tuples, p \in Initials, ts \in Stamps : InitialPacket(q, p, ts)
    BY <1>5 DEF AnyInitial
  <2>2. /\ Truthful(asm', wire') /\ Hands(asm, asm') /\ Counts
        /\ \A u : Stamped(asm, u) /\ ts <= u => Stamped(asm', u)
    BY <1>0, <2>1, InitialPacketHistory
  <2>3. ~closed /\ closed' = closed /\ live' = live /\ clock' = clock
    BY <2>1 DEF InitialPacket, InTraffic
  <2>4. ts <= Horizon
    BY StampsHorizon
  <2> QED BY <1>0, <1>a, <2>2, <2>3, <2>4
<1>6. CASE AnyOtherUDP
  <2>1. PICK ts \in Stamps : OtherUDPPacket(ts)
    BY <1>6 DEF AnyOtherUDP
  <2>2. /\ ts \in Nat /\ ~closed /\ asm' = TrackTime(asm, ts)
        /\ wire' = wire /\ ignored' = ignored /\ closed' = closed /\ live' = live /\ clock' = clock
    BY <2>1, StampsOK DEF OtherUDPPacket, InTraffic
  <2>3. asm'.tcp = asm.tcp /\ asm'.quic = asm.quic /\ asm'.reports = asm.reports
        /\ asm'.stats = asm.stats
    BY <1>0, <2>2, TrackTimeEffect
  <2>4. Truthful(asm', wire') /\ Stamped(asm', Horizon) /\ Follows(asm, asm')
    BY <1>0, <2>2, <2>3, SameTrue, FollowsSame DEF Stamped
  <2>5. Hands(asm, asm') /\ Counts
    BY <2>2, <2>3, <2>4, FollowsHands DEF Counts
  <2> QED BY <1>a, <2>2, <2>4, <2>5
<1>7. CASE Sweep
  <2>1. /\ ~closed /\ asm' = FlushOlderThan(asm, clock - CloseTimeout)
        /\ wire' = wire /\ ignored' = ignored /\ closed' = closed /\ live' = live /\ clock' = clock
    BY <1>7 DEF Sweep
  <2>2. Follows(asm, asm') /\ Truthful(asm', wire') /\ Stamped(asm', Horizon)
    BY <1>0, <2>1, FlushOlderThanEffect
  <2>3. Hands(asm, asm') /\ Counts
    BY <2>1, <2>2, FollowsHands DEF Counts, Follows
  <2> QED BY <1>a, <2>1, <2>2, <2>3
<1>8. CASE Tick
  <2>1. /\ live /\ ~closed /\ clock' = clock + 1 /\ asm' = asm /\ wire' = wire /\ ignored' = ignored
        /\ live' = live /\ closed' = closed
    BY <1>8 DEF Tick
  <2>2. \A q \in DOMAIN asm.quic : asm.quic[q].flow.lastSeen \in Nat
    BY <1>0 DEF IInv, AsmOK, QUICFlowOK, Flow
  <2>3. Horizon = clock /\ Horizon' = clock + 1 /\ clock \in Nat
    BY <2>1 DEF Horizon, Inv
  <2>4. Stamped(asm, clock + 1)
    BY <1>0, <2>2, <2>3 DEF Stamped
  <2>5. Hands(asm, asm')
    BY <2>1 DEF Hands, KeptBy
  <2> QED BY <1>0, <2>1, <2>3, <2>4, <2>5 DEF History, ShortfallReported, Stamped, Truthful
<1>9. CASE Close
  <2> DEFINE a == ReassemblyComplete(asm, DOMAIN asm.tcp)
             S == {q \in DOMAIN a.quic : a.quic[q].flow.lastSeen <= clock + Hour}
  <2>1. /\ ~closed /\ asm' = FlushQUIC(a, clock + Hour) /\ closed' = TRUE
        /\ wire' = wire /\ ignored' = ignored /\ live' = live /\ clock' = clock
    BY <1>9 DEF Close
  <2>2. DOMAIN asm.tcp \in SUBSET DOMAIN asm.tcp
    OBVIOUS
  <2>3. /\ IInv(a) /\ Follows(asm, a) /\ Truthful(a, wire)
        /\ a.tcp = Without(asm.tcp, DOMAIN asm.tcp) /\ a.quic = asm.quic
    BY <1>0, <2>2, ReassemblyCompleteOK, CompleteEffect, CompleteTrue
  <2> HIDE DEF a
  <2>4. IInv(asm')
    BY <2>1, <2>3, FlushQUICOK
  <2>5. /\ Follows(a, asm') /\ asm'.tcp = a.tcp /\ asm'.quic = Without(a.quic, S)
        /\ \A x \in Conns : asm'.reports[x] = a.reports[x]
    BY <2>1, <2>3, FlushQUICEffect, ZenonT(40)
  <2>6. Follows(asm, asm')
    BY <1>0, <2>3, <2>4, <2>5, FollowsTrans DEF IInv
  <2>7. Truthful(asm', wire') /\ Counts
    BY <2>1, <2>3, <2>5, <2>6, SameTrue DEF Follows, Counts
  <2>8. ShortfallReported'
    BY <1>0, <2>7, CountsShortfall
  <2>9. Stamped(asm', Horizon')
    <3>1. Horizon' = Horizon
      BY <2>1 DEF Horizon
    <3> QED BY <1>0, <2>3, <2>5, <3>1 DEF Stamped, Without
  <2>10. DOMAIN asm'.tcp = {}
    BY <2>3, <2>5 DEF Without
  <2>11. WithinHour => DOMAIN asm'.quic = {}
    <3> SUFFICES ASSUME WithinHour, NEW q \in DOMAIN a.quic PROVE q \in S
      BY <2>5 DEF Without
    <3>1. a.quic[q].flow.lastSeen <= Horizon
      BY <1>0, <2>3 DEF Stamped
    <3>2. a.quic[q].flow.lastSeen \in Nat
      BY <2>3 DEF IInv, AsmOK, QUICFlowOK, Flow
    <3>3. Horizon <= clock + Hour /\ Horizon \in Nat /\ clock + Hour \in Nat
      BY <1>0, AssemblerAssumption DEF WithinHour, Horizon, Inv
    <3> QED BY <3>1, <3>2, <3>3
  <2>12. WithinHour' = WithinHour /\ (~live' => clock' = Start)
    BY <1>0, <2>1 DEF WithinHour
  <2>13. Hands(asm, asm')
    BY <2>6, FollowsHands
  <2> QED BY <2>7, <2>8, <2>9, <2>10, <2>11, <2>12, <2>13 DEF History
<1>10. CASE UNCHANGED vars
  <2>1. Hands(asm, asm')
    BY <1>10 DEF vars, Hands, KeptBy
  <2> QED BY <1>10, <2>1 DEF vars, History, ShortfallReported, Stamped, Truthful, Horizon, WithinHour
<1> QED BY <1>2, <1>3, <1>4, <1>5, <1>6, <1>7, <1>8, <1>9, <1>10 DEF Next

\* The history holds in every reachable state.
LEMMA HistoryAlways == Spec => [](Inv /\ History)
<1>1. Init => Inv /\ History
  BY InitInv, InitHistory
<1>2. (Inv /\ History) /\ [Next]_vars => (Inv /\ History)'
  BY NextInv, NextHistory
<1> QED BY <1>1, <1>2, PTL DEF Spec

\* However a direction is segmented and whatever the other one carries, a
\* ClientHello inside the retained prefix is found: parse never gives up on the
\* stream first.
THEOREM HelloAlwaysKept == Spec => []HelloKept
<1>1. Inv /\ History => HelloKept
  <2> SUFFICES ASSUME Inv, History, NEW c \in TCPCounted, NEW side \in Sides,
                      FindClientHello(Cut(wire[c][side]))
               PROVE  asm.tcp[c].haveCH
    BY DEF HelloKept, Cut
  <2> DEFINE s == asm.tcp[c]
             i == IF side = s.first THEN 0 ELSE 1
  <2>1. s \in Stream /\ s.counted /\ StreamTrue(s, wire[c])
    BY DEF TCPCounted, Inv, IInv, AsmOK, History, Truthful
  <2>2. i \in Dirs /\ Sender(s.first, i) = side
    <3>1. s.first \in Sides
      BY <2>1 DEF Stream
    <3> QED BY <3>1, SenderSides DEF Dirs
  <2> HIDE DEF i, s
  <2>3. ~s.rejected
    BY <2>1 DEF StreamTrue, Settled, Barren, FindClientHello
  <2>4. SUFFICES ASSUME ~s.haveCH PROVE FALSE
    BY DEF s
  <2>5. Reading(s)
    BY <2>3, <2>4 DEF Reading
  <2>6. s.buf[i] = Cut(wire[c][side])
    BY <2>1, <2>2, <2>5 DEF StreamTrue, Holds
  <2> QED BY <2>1, <2>2, <2>4, <2>5, <2>6 DEF StreamTrue, Unseen
<1> QED BY <1>1, HistoryAlways, PTL

\* No byte of a stream that is still read is dropped without PrefixTruncated
\* saying so, and no more than MaxStreamPrefix is held.
THEOREM TruncationAlwaysHonest == Spec => []TruncationHonest
<1>1. Inv /\ History => TruncationHonest
  <2> SUFFICES ASSUME Inv, History, NEW c \in DOMAIN asm.tcp
               PROVE  LET s == asm.tcp[c] IN
                        /\ \A i \in Dirs : Len(s.buf[i]) <= MaxPrefix
                        /\ ~s.rejected /\ ~(s.haveCH /\ s.haveSH) /\ ~s.flow.truncated
                             => \A side \in Sides : s.buf[DirOf(c, side)] = wire[c][side]
    BY DEF TruncationHonest
  <2> DEFINE s == asm.tcp[c]
  <2>1. /\ s \in Stream /\ s.first \in Sides /\ StreamTrue(s, wire[c]) /\ c \in Conns
        /\ wire[c] \in [Sides -> Seq(Unit)]
    BY DEF Inv, IInv, AsmOK, History, Truthful, Stream
  <2>2. \A i \in Dirs : Len(s.buf[i]) <= MaxPrefix
    BY DEF Inv, IInv, Coherent, StreamCoherent
  <2>3. ASSUME Reading(s), ~s.flow.truncated, NEW side \in Sides
        PROVE  s.buf[DirOf(c, side)] = wire[c][side]
    <3> DEFINE i == DirOf(c, side)
               q == wire[c][side]
    <3>1. i \in Dirs /\ Sender(s.first, i) = side
      BY <2>1, SenderSides DEF Dirs, DirOf
    <3> HIDE DEF i
    <3>2. s.buf[i] = Cut(q) /\ (s.full[i] <=> Len(q) > MaxPrefix) /\ ~s.full[i]
      BY <2>1, <2>3, <3>1 DEF StreamTrue, Holds
    <3>3. q \in Seq(Unit) /\ Len(q) \in Nat /\ MaxPrefix \in Nat
      BY <2>1, AssemblerAssumption
    <3> HIDE DEF q
    <3>4. Cut(q) = q
      BY <3>2, <3>3, CutPrefix
    <3> QED BY <3>2, <3>4 DEF i, q
  <2> QED BY <2>2, <2>3 DEF Reading
<1> QED BY <1>1, HistoryAlways, PTL

\* Every reported TCP flow names the side that sent the ClientHello as its
\* client, and a server half that the other side really sent.
THEOREM ReportsFaithful == Spec => []ReportFaithful
<1>1. History => ReportFaithful
  BY DEF History, Truthful, Says, ReportFaithful
<1> QED BY <1>1, HistoryAlways, PTL

\* A stream that showed a ClientHello leaves the tables reported, once, in the
\* very step that releases it.
THEOREM ReleasedReported == Spec => ReportedOnRelease
<1> DEFINE A == /\ \A c \in DOMAIN asm.tcp \ DOMAIN asm'.tcp :
                     asm.tcp[c].haveCH => Len(asm'.reports[c]) = 1
                /\ \A q \in DOMAIN asm.quic \ DOMAIN asm'.quic :
                     asm.quic[q].haveCH => Len(asm'.reports[q]) = 1
<1>1. Inv /\ History /\ [Next]_vars => A
  <2> SUFFICES ASSUME Inv, History, [Next]_vars PROVE A
    OBVIOUS
  <2>1. Hands(asm, asm')
    BY NextHistory
  <2>2. Inv'
    BY NextInv
  <2>3. ASSUME NEW x \in Conns \cup Tuples, asm'.reports[x] # <<>> PROVE Len(asm'.reports[x]) = 1
    <3>1. asm'.reports[x] \in Seq(Flow) /\ Len(asm'.reports[x]) <= 1
      BY <2>2 DEF Inv, IInv, AsmOK, Coherent
    <3>2. Len(asm'.reports[x]) \in Nat /\ Len(asm'.reports[x]) # 0
      BY <2>3, <3>1, EmptySeq
    <3>3. \A n \in Nat : n <= 1 /\ n # 0 => n = 1
      OBVIOUS
    <3> QED BY ONLY <3>1, <3>2, <3>3, Zenon
  <2>4. DOMAIN asm.tcp \subseteq Conns /\ DOMAIN asm.quic \subseteq Tuples
    BY DEF Inv, IInv, AsmOK
  <2> QED BY <2>1, <2>3, <2>4 DEF Hands
<1>2. Inv /\ History /\ [Next]_vars => [A]_vars
  BY <1>1
<1> HIDE DEF A
<1>3. Spec => [][A]_vars
  BY <1>2, HistoryAlways, PTL DEF Spec
<1> QED BY <1>3 DEF ReportedOnRelease, A

\* The flow the handler was given is never written again while the stream is
\* tracked.
THEOREM ReportedFrozen == Spec => FrozenOnceReported
<1> DEFINE A == /\ \A c \in DOMAIN asm.tcp \cap DOMAIN asm'.tcp :
                     asm.tcp[c].emitted => asm'.tcp[c].flow = asm.tcp[c].flow
                /\ \A q \in DOMAIN asm.quic \cap DOMAIN asm'.quic :
                     asm.quic[q].emitted => asm'.quic[q].flow = asm.quic[q].flow
<1>1. Inv /\ History /\ [Next]_vars => A
  BY NextHistory DEF Hands, KeptBy
<1>2. Inv /\ History /\ [Next]_vars => [A]_vars
  BY <1>1
<1> HIDE DEF A
<1>3. Spec => [][A]_vars
  BY <1>2, HistoryAlways, PTL DEF Spec
<1> QED BY <1>3 DEF FrozenOnceReported, A

\* StreamsDropped never understates the connections turned away, and is zero
\* when none was.
THEOREM ShortfallAlwaysReported == Spec => []ShortfallReported
<1>1. History => ShortfallReported
  BY DEF History
<1> QED BY <1>1, HistoryAlways, PTL

\* After Close nothing is tracked, for every capture whose QUIC time stamps end
\* at most an hour after the wall clock; on a live interface that is every
\* capture.
THEOREM CloseEmpties == Spec => [](WithinHour => CloseReleasesAll)
<1>1. Inv /\ History => (WithinHour => CloseReleasesAll)
  <2> SUFFICES ASSUME Inv, History, WithinHour, closed
               PROVE  DOMAIN asm.tcp = {} /\ DOMAIN asm.quic = {} /\ asm.stats.live = 0
    BY DEF CloseReleasesAll
  <2>1. DOMAIN asm.tcp = {} /\ DOMAIN asm.quic = {}
    BY DEF History
  <2>2. Counted(asm) = {}
    BY <2>1 DEF Counted
  <2>3. asm.stats.live = Cardinality({}) + Cardinality({})
    BY <2>1, <2>2 DEF Inv, IInv, Balanced
  <2> QED BY <2>1, <2>3, FS_EmptySet
<1> QED BY <1>1, HistoryAlways, PTL

=============================================================================
