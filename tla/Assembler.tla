----------------------------- MODULE Assembler -----------------------------
(***************************************************************************)
(* internal/assemble: TCP streams and QUIC flows are tracked up to a cap,  *)
(* their first bytes are scanned for a TLS handshake, and each flow that   *)
(* showed a ClientHello is handed to the handler.                          *)
(*                                                                         *)
(* asm is the Assembler struct.  Every entry point (Packet,                *)
(* FlushOlderThan, Close) runs to its end in one step: the assembler is    *)
(* not safe for concurrent use and its callers serialise it.  The          *)
(* operators below that take and return an assembler value are the         *)
(* functions these entry points call, in the order they call them.         *)
(*                                                                         *)
(* gopacket's TCP reassembly is external.  It delivers each direction in   *)
(* order, closes a direction on its FIN or RST, completes a connection     *)
(* when both directions are closed, and closes idle connections on demand. *)
(*                                                                         *)
(* A definition marked as a fault is not part of the specification: put in *)
(* place of the definition after it, it must break a property (README).    *)
(***************************************************************************)
EXTENDS CryptoStream

CONSTANTS
  Conns,         \* TCP four-tuples
  Tuples,        \* UDP four-tuples
  MaxStreams,    \* Options.MaxStreams
  MaxPrefix,     \* Options.MaxStreamPrefix, in units
  MinReject,     \* minBytesBeforeReject, in units
  CloseTimeout,  \* Options.CloseTimeout
  Hour,          \* the hour that Close adds to the wall clock
  Modes,         \* whether the capture may be live (TRUE), replayed from files (FALSE)
  ClientSegs,    \* TCP payloads the client may send
  ServerSegs,    \* TCP payloads the server may send
  Initials,      \* QUIC Initial packets
  DCIDs,         \* QUIC connection IDs
  Start,         \* the wall clock at the start
  MaxTime,       \* bound: the last wall time
  LastTraffic,   \* bound: no packet arrives, or is stamped, after this time
  MaxOpens,      \* bound: connections opened or dropped
  MaxWire        \* bound: units delivered per direction of a connection

Sides == {"client", "server"}
Other(side) == IF side = "client" THEN "server" ELSE "client"

\* dirIndex: 0 is the direction of the packet that created the stream.
Dirs == {0, 1}

\* A QUIC Initial: who sent it, the connection ID in its header, the
\* connection ID its keys derive from, and the CRYPTO frames it protects.
Initial == [from : Sides, dcid : DCIDs, keys : DCIDs, frames : Seq(Frame)]

ASSUME AssemblerAssumption ==
  /\ IsFiniteSet(Conns) /\ IsFiniteSet(Tuples)
  /\ Conns \cap Tuples = {}
  /\ MaxStreams \in Nat \ {0}
  /\ MaxPrefix \in Nat \ {0}
  /\ MinReject \in Nat \ {0}
  /\ CloseTimeout \in Nat \ {0}
  /\ Hour \in Nat
  /\ Modes \subseteq BOOLEAN
  /\ ClientSegs \subseteq Seq(Unit)
  /\ ServerSegs \subseteq Seq(Unit)
  /\ Initials \subseteq Initial
  /\ Start \in Nat \ {0} /\ MaxTime \in Nat /\ LastTraffic \in Nat
  /\ MaxOpens \in Nat /\ MaxWire \in Nat

VARIABLES
  asm,     \* the Assembler
  wire,    \* history: what each side of a connection's current or last stream sent
  ignored, \* history: the connections turned away at the cap
  live,    \* packets come from an interface, not from files
  clock,   \* wall clock
  closed   \* Close has returned

vars == <<asm, wire, ignored, live, clock, closed>>

\* Flow, reduced to who is taken for the client, what was read from the
\* server, PrefixTruncated and LastSeen.  A reported flow always has a
\* ClientHello.
Flow == [client : Sides, server : Server, truncated : BOOLEAN, lastSeen : Nat]

\* stream, with the state gopacket keeps per connection: which side sent the
\* first packet, the closed directions, and when the last packet came.
Stream == [first : Sides, buf : [Dirs -> Seq(Unit)], full : [Dirs -> BOOLEAN],
           clientIdx : Dirs, haveCH : BOOLEAN, haveSH : BOOLEAN,
           rejected : BOOLEAN, emitted : BOOLEAN, counted : BOOLEAN,
           flow : Flow, done : [Dirs -> BOOLEAN], lastSeen : Nat]

Stats == [streams : Nat, tlsFlows : Nat, rejectedTCP : Nat, dropped : Nat, live : Int]

(***************************************************************************)
(* TCP streams                                                             *)
(***************************************************************************)
Without(f, S) == [x \in DOMAIN f \ S |-> f[x]]

\* A fault: one stream too many.
AtCapLate(a) == a.stats.live > MaxStreams

\* The stream cap of factory.New.
AtCap(a) == a.stats.live >= MaxStreams

\* factory.New for a packet that may open a connection.
NewStream(a, c, from, ts) ==
  LET over == AtCap(a)
      s == [first |-> from, buf |-> [i \in Dirs |-> <<>>], full |-> [i \in Dirs |-> FALSE],
            clientIdx |-> 0, haveCH |-> FALSE, haveSH |-> FALSE,
            rejected |-> over, emitted |-> FALSE, counted |-> ~over,
            flow |-> [client |-> from, server |-> NoServer,
                     truncated |-> FALSE, lastSeen |-> ts],
            done |-> [i \in Dirs |-> FALSE], lastSeen |-> ts]
  IN  [a EXCEPT !.tcp = [x \in DOMAIN @ \cup {c} |-> IF x = c THEN s ELSE @[x]],
                !.stats.streams = @ + 1,
                !.stats.dropped = IF over THEN @ + 1 ELSE @,
                !.stats.live = IF over THEN @ ELSE @ + 1,
                !.reports[c] = <<>>]

\* stream.emit
Emit(a, c) ==
  LET s == a.tcp[c]
  IN  IF s.emitted \/ ~s.haveCH THEN a
      ELSE [a EXCEPT !.tcp[c].emitted = TRUE,
                     !.stats.tlsFlows = @ + 1,
                     !.reports[c] = Append(@, s.flow)]

\* A fault: the stream is not marked.
RejectUnmarked(a, c) ==
  [a EXCEPT !.tcp[c].buf = [i \in Dirs |-> <<>>], !.stats.rejectedTCP = @ + 1]

\* stream.reject
Reject(a, c) ==
  [a EXCEPT !.tcp[c].rejected = TRUE,
            !.tcp[c].buf = [i \in Dirs |-> <<>>],
            !.stats.rejectedTCP = @ + 1]

\* A fault: the endpoints are never swapped.
SenderUnswapped(first, idx) == first

\* The side that sends in direction idx, when first sends in direction 0.
Sender(first, idx) == IF idx = 0 THEN first ELSE Other(first)

\* The first part of stream.parse.  Finding the ClientHello in direction 1
\* means the endpoints recorded by factory.New are reversed.
ParseClient(a, c) ==
  LET s == a.tcp[c]
      hits == {i \in Dirs : FindClientHello(s.buf[i])}
      idx == IF 0 \in hits THEN 0 ELSE 1
  IN  IF s.haveCH \/ hits = {} THEN a
      ELSE [a EXCEPT !.tcp[c].haveCH = TRUE,
                     !.tcp[c].clientIdx = idx,
                     !.tcp[c].flow.client = Sender(@, idx)]

\* The second part of stream.parse: the first ServerHello found is kept, and
\* reported at once when it ends what the server says in the clear.
ParseServer(a, c) ==
  LET s == a.tcp[c]
      sh == FindServerHello(s.buf[1 - s.clientIdx])
      b == [a EXCEPT !.tcp[c].haveSH = TRUE, !.tcp[c].flow.server = sh]
  IN  IF ~s.haveCH \/ s.haveSH \/ sh = NoServer THEN a
      ELSE IF sh.flightComplete THEN Emit(b, c) ELSE b

\* A fault: one direction that is not TLS is enough.
HopelessEither(s) ==
  /\ ~s.haveCH
  /\ \/ s.full[0] /\ s.full[1]
     \/ \E i \in Dirs : Len(s.buf[i]) >= MinReject /\ NotTLS(s.buf[i])

\* The rest of stream.parse: give up on a stream that cannot be TLS.
Hopeless(s) ==
  /\ ~s.haveCH
  /\ \/ s.full[0] /\ s.full[1]
     \/ \A i \in Dirs : Len(s.buf[i]) >= MinReject /\ NotTLS(s.buf[i])

\* stream.parse
Parse(a, c) ==
  LET b == ParseServer(ParseClient(a, c), c)
  IN  IF Hopeless(b.tcp[c]) THEN Reject(b, c) ELSE b

\* A fault: PrefixTruncated is not set.
RetainSilently(s, i, data, ts) ==
  LET room == MaxPrefix - Len(s.buf[i])
      over == Len(data) > room
  IN  [s EXCEPT !.buf[i] = @ \o (IF over THEN SubSeq(data, 1, room) ELSE data),
                !.full[i] = @ \/ over,
                !.flow.lastSeen = IF ts > @ THEN ts ELSE @]

\* The bounded append of ReassembledSG, and LastSeen.
Retain(s, i, data, ts) ==
  LET room == MaxPrefix - Len(s.buf[i])
      over == Len(data) > room
  IN  [s EXCEPT !.buf[i] = @ \o (IF over THEN SubSeq(data, 1, room) ELSE data),
                !.full[i] = @ \/ over,
                !.flow.truncated = @ \/ over,
                !.flow.lastSeen = IF ts > @ THEN ts ELSE @]

\* A fault: reading goes on after both hellos.
ReassembledSGOn(a, c, i, data, ts) ==
  LET s == a.tcp[c]
  IN  IF data = <<>> \/ s.rejected THEN a
      ELSE Parse([a EXCEPT !.tcp[c] = Retain(s, i, data, ts)], c)

\* stream.ReassembledSG
ReassembledSG(a, c, i, data, ts) ==
  LET s == a.tcp[c]
  IN  IF data = <<>> \/ s.rejected \/ (s.haveCH /\ s.haveSH) THEN a
      ELSE Parse([a EXCEPT !.tcp[c] = Retain(s, i, data, ts)], c)

\* A fault: emitted is not consulted.
EndingAgain(t, S) == {x \in S : t[x].haveCH}

\* A fault: only answered hellos are reported.
EndingAnswered(t, S) == {x \in S : t[x].haveCH /\ t[x].haveSH /\ ~t[x].emitted}

\* What emit and emitQUIC report of the streams S of table t that end.
Ending(t, S) == {x \in S : t[x].haveCH /\ ~t[x].emitted}

\* A fault: a completed stream keeps its slot.
SlotsNone(t, S) == {}

\* The slots that the streams S of table t hold.
Slots(t, S) == {c \in S : t[c].counted}

\* stream.ReassemblyComplete for every connection of S; gopacket then removes
\* them from its pool.
ReassemblyComplete(a, S) ==
  LET emits == Ending(a.tcp, S)
  IN  [a EXCEPT !.tcp = Without(@, S),
                !.stats.tlsFlows = @ + Cardinality(emits),
                !.stats.live = @ - Cardinality(Slots(a.tcp, S)),
                !.reports = [x \in DOMAIN @ |-> IF x \in emits
                               THEN Append(@[x], a.tcp[x].flow) ELSE @[x]]]

(***************************************************************************)
(* QUIC flows.  DeriveInitialKeys cannot fail for a version that Supported *)
(* admitted, so the rejected field of quicFlow is never set.               *)
(***************************************************************************)

\* The flow quicPacket registers for the first Initial of a four-tuple: its
\* sender is taken for the client, its connection ID for the original one.
NewQUICFlow(a, q, p, ts) ==
  LET f == [origDCID |-> p.dcid,
            crypto |-> [side \in Sides |-> EmptyCrypto],
            haveCH |-> FALSE, haveSH |-> FALSE, emitted |-> FALSE,
            flow |-> [client |-> p.from, server |-> NoServer,
                     truncated |-> FALSE, lastSeen |-> ts]]
  IN  [a EXCEPT !.quic = [x \in DOMAIN @ \cup {q} |-> IF x = q THEN f ELSE @[x]],
                !.stats.streams = @ + 1,
                !.stats.live = @ + 1,
                !.reports[q] = <<>>]

\* emitQUIC
EmitQUIC(a, q) ==
  LET f == a.quic[q]
  IN  IF f.emitted \/ ~f.haveCH THEN a
      ELSE [a EXCEPT !.quic[q].emitted = TRUE,
                     !.stats.tlsFlows = @ + 1,
                     !.reports[q] = Append(@, f.flow)]

\* quicParse
QUICParse(a, q) ==
  LET f == a.quic[q]
      ch == f.haveCH \/ FindClientHelloRaw(Prefix(f.crypto["client"]))
      sh == FindServerHelloRaw(Prefix(f.crypto["server"]))
      b == [a EXCEPT !.quic[q].haveCH = ch]
      d == [b EXCEPT !.quic[q].haveSH = TRUE, !.quic[q].flow.server = sh]
  IN  IF ~ch \/ f.haveSH \/ sh = NoServer THEN b
      ELSE IF sh.flightComplete THEN EmitQUIC(d, q) ELSE d

\* quic.DeriveInitialKeys: the keys are a function of the connection ID and of
\* the direction, and different arguments give different keys.
DeriveInitialKeys(dcid, server) == <<dcid, server>>

\* quic.Open authenticates: the keys derived from the flow's connection ID, for
\* the role the sender is believed to have, are those the sender used.
Opens(f, p) ==
  DeriveInitialKeys(f.origDCID, p.from # f.flow.client)
    = DeriveInitialKeys(p.keys, p.from = "server")

\* A fault: a reported flow is still read.
QUICInputAlways(a, q, p, ts) ==
  LET f == a.quic[q]
      role == IF p.from = f.flow.client THEN "client" ELSE "server"
      b == [a EXCEPT !.quic[q].flow.lastSeen = IF ts > @ THEN ts ELSE @]
  IN  IF ~Opens(f, p) THEN b
      ELSE QUICParse([b EXCEPT !.quic[q].crypto[role] = AddFrames(@, p.frames)], q)

\* quicPacket, once the flow is registered.
QUICInput(a, q, p, ts) ==
  LET f == a.quic[q]
      role == IF p.from = f.flow.client THEN "client" ELSE "server"
      b == [a EXCEPT !.quic[q].flow.lastSeen = IF ts > @ THEN ts ELSE @]
  IN  IF f.emitted THEN a
      ELSE IF ~Opens(f, p) THEN b
      ELSE QUICParse([b EXCEPT !.quic[q].crypto[role] = AddFrames(@, p.frames)], q)

\* The cap of quicPacket is on the QUIC table alone.
QUICFull(a) == Cardinality(DOMAIN a.quic) >= MaxStreams

\* A fault: an Initial turned away is not counted.
QUICPacketSilent(a, q, p, ts) ==
  IF q \in DOMAIN a.quic THEN QUICInput(a, q, p, ts)
  ELSE IF QUICFull(a) THEN a
       ELSE QUICInput(NewQUICFlow(a, q, p, ts), q, p, ts)

\* quicPacket.  A connection turned away is not remembered.
QUICPacket(a, q, p, ts) ==
  IF q \in DOMAIN a.quic THEN QUICInput(a, q, p, ts)
  ELSE IF QUICFull(a)
       THEN [a EXCEPT !.stats.dropped = @ + 1]
       ELSE QUICInput(NewQUICFlow(a, q, p, ts), q, p, ts)

\* flushQUIC: report and remove the flows not seen after t.
FlushQUIC(a, t) ==
  LET S == {q \in DOMAIN a.quic : a.quic[q].flow.lastSeen <= t}
      emits == Ending(a.quic, S)
  IN  [a EXCEPT !.quic = Without(@, S),
                !.stats.tlsFlows = @ + Cardinality(emits),
                !.stats.live = @ - Cardinality(S),
                !.reports = [x \in DOMAIN @ |-> IF x \in emits
                               THEN Append(@[x], a.quic[x].flow) ELSE @[x]]]

(***************************************************************************)
(* gopacket's reassembly (external)                                        *)
(***************************************************************************)

\* AssembleWithContext for a connection in the pool.
Assemble(a, c, from, data, fin, ts) ==
  LET s == a.tcp[c]
      i == IF from = s.first THEN 0 ELSE 1
      seen == [a EXCEPT !.tcp[c].lastSeen = IF ts > @ THEN ts ELSE @]
      fed == ReassembledSG(seen, c, i, data, ts)
  IN  IF s.done[i] THEN seen
      ELSE IF ~fin THEN fed
      ELSE IF s.done[1 - i] THEN ReassemblyComplete(fed, {c})
      ELSE [fed EXCEPT !.tcp[c].done[i] = TRUE]

\* FlushCloseOlderThan completes the connections last seen before t.
FlushCloseOlderThan(a, t) ==
  ReassemblyComplete(a, {c \in DOMAIN a.tcp : a.tcp[c].lastSeen < t})

(***************************************************************************)
(* The entry points                                                        *)
(***************************************************************************)

\* Assembler.trackTime; lastTS is written and never read, and is left out.
TrackTime(a, ts) == [a EXCEPT !.lastFlush = IF @ = 0 THEN ts ELSE @]

\* Assembler.FlushOlderThan
FlushOlderThan(a, t) == FlushQUIC(FlushCloseOlderThan(a, t), t)

\* The sweep at the end of Packet, on capture time.
PacketFlush(a, ts) ==
  IF ts - a.lastFlush >= CloseTimeout
  THEN [FlushOlderThan(a, ts - CloseTimeout) EXCEPT !.lastFlush = ts]
  ELSE a

\* A packet opens a connection when it is a SYN or carries payload.
Opening(c, syn, data) == c \notin DOMAIN asm.tcp /\ (syn \/ data # <<>>)

\* The time stamps packets carry: the wall clock on a live interface, anything
\* at all in files.
Stamps == IF live THEN {clock} ELSE 1..LastTraffic

\* The bounds on traffic.
InTraffic == ~closed /\ clock <= LastTraffic
MayOpen == asm.stats.streams + asm.stats.dropped < MaxOpens

Init ==
  /\ asm = [tcp |-> <<>>, quic |-> <<>>, lastFlush |-> 0,
            stats |-> [streams |-> 0, tlsFlows |-> 0, rejectedTCP |-> 0, dropped |-> 0, live |-> 0],
            reports |-> [x \in Conns \cup Tuples |-> <<>>]]
  /\ wire = [c \in Conns |-> [side \in Sides |-> <<>>]]
  /\ ignored = {}
  /\ live \in Modes
  /\ clock = Start
  /\ closed = FALSE

\* Packet, for a TCP packet that belongs to, or opens, a tracked connection.
TCPPacket(c, from, syn, data, fin, ts) ==
  LET opening == Opening(c, syn, data)
      a == TrackTime(asm, ts)
      b == IF opening THEN NewStream(a, c, from, ts) ELSE a
      i == IF from = b.tcp[c].first THEN 0 ELSE 1
      sent == IF opening THEN [side \in Sides |-> <<>>] ELSE wire[c]
  IN  /\ InTraffic
      /\ opening => MayOpen
      /\ opening \/ c \in DOMAIN asm.tcp
      /\ syn => data = <<>> /\ ~fin
      /\ Len(sent[from]) + Len(data) <= MaxWire
      /\ asm' = PacketFlush(Assemble(b, c, from, data, fin, ts), ts)
      /\ wire' = [wire EXCEPT ![c] =
                    IF b.tcp[c].done[i] THEN @ ELSE [sent EXCEPT ![from] = @ \o data]]
      /\ ignored' = IF opening /\ AtCap(a) THEN ignored \cup {c} ELSE ignored
      /\ UNCHANGED <<live, clock, closed>>

\* Packet, for a payload-free TCP packet of no tracked connection:
\* factory.New declines it.
StrayTCPPacket(c, ts) ==
  /\ InTraffic
  /\ c \notin DOMAIN asm.tcp
  /\ asm' = PacketFlush(TrackTime(asm, ts), ts)
  /\ UNCHANGED <<wire, ignored, live, clock, closed>>

\* Packet, for a UDP packet that is a QUIC Initial of a supported version.
InitialPacket(q, p, ts) ==
  /\ InTraffic
  /\ q \notin DOMAIN asm.quic => MayOpen
  /\ asm' = TrackTime(QUICPacket(asm, q, p, ts), ts)
  /\ ignored' = IF q \notin DOMAIN asm.quic /\ QUICFull(asm) THEN ignored \cup {q} ELSE ignored
  /\ UNCHANGED <<wire, live, clock, closed>>

\* Packet, for any other UDP packet with a payload.
OtherUDPPacket(ts) ==
  /\ InTraffic
  /\ asm' = TrackTime(asm, ts)
  /\ UNCHANGED <<wire, ignored, live, clock, closed>>

\* A fault: the QUIC table is not swept.
SweepTCP ==
  /\ live /\ ~closed
  /\ asm' = FlushCloseOlderThan(asm, clock - CloseTimeout)
  /\ UNCHANGED <<wire, ignored, live, clock, closed>>

\* The sweeper of watch and serve calls FlushOlderThan on wall time.
Sweep ==
  /\ live /\ ~closed
  /\ asm' = FlushOlderThan(asm, clock - CloseTimeout)
  /\ UNCHANGED <<wire, ignored, live, clock, closed>>

Tick ==
  /\ live /\ ~closed
  /\ clock < MaxTime
  /\ clock' = clock + 1
  /\ UNCHANGED <<asm, wire, ignored, live, closed>>

\* A fault: only idle streams are flushed.
CloseIdle ==
  /\ ~closed
  /\ asm' = FlushOlderThan(asm, clock - CloseTimeout)
  /\ closed' = TRUE
  /\ UNCHANGED <<wire, ignored, live, clock>>

\* Assembler.Close, called once when capture ends.
Close ==
  /\ ~closed
  /\ asm' = FlushQUIC(ReassemblyComplete(asm, DOMAIN asm.tcp), clock + Hour)
  /\ closed' = TRUE
  /\ UNCHANGED <<wire, ignored, live, clock>>

ClientPacket == \E c \in Conns, syn, fin \in BOOLEAN, data \in ClientSegs \cup {<<>>}, ts \in Stamps :
                  TCPPacket(c, "client", syn, data, fin, ts)
ServerPacket == \E c \in Conns, syn, fin \in BOOLEAN, data \in ServerSegs \cup {<<>>}, ts \in Stamps :
                  TCPPacket(c, "server", syn, data, fin, ts)
AnyStray == \E c \in Conns, ts \in Stamps : StrayTCPPacket(c, ts)
AnyInitial == \E q \in Tuples, p \in Initials, ts \in Stamps : InitialPacket(q, p, ts)
AnyOtherUDP == \E ts \in Stamps : OtherUDPPacket(ts)

Next == \/ ClientPacket
        \/ ServerPacket
        \/ AnyStray
        \/ AnyInitial
        \/ AnyOtherUDP
        \/ Sweep
        \/ Tick
        \/ Close

Spec == Init /\ [][Next]_vars

\* The sweeper's ticker keeps firing and time keeps passing.
LiveSpec == Spec /\ WF_vars(Tick) /\ WF_vars(Sweep)

(***************************************************************************)
(* Properties                                                              *)
(***************************************************************************)
TCPCounted == {c \in DOMAIN asm.tcp : asm.tcp[c].counted}

\* Tracked streams of which neither a report nor a rejection is counted yet.
UndecidedTCP == {c \in DOMAIN asm.tcp : ~asm.tcp[c].emitted /\ ~asm.tcp[c].rejected}
UndecidedQUIC == {q \in DOMAIN asm.quic : ~asm.quic[q].emitted}

\* The direction index of a side of a tracked connection.
DirOf(c, side) == IF side = asm.tcp[c].first THEN 0 ELSE 1

QUICFlowOK(f) ==
  /\ f.origDCID \in DCIDs
  /\ f.haveCH \in BOOLEAN /\ f.haveSH \in BOOLEAN /\ f.emitted \in BOOLEAN
  /\ f.flow \in Flow

\* The type of the assembler's state: the maps hold streams and flows of known
\* connections, the counters (LiveStreams, which is decremented, too)
\* are natural numbers, the reports are flows.
TypeOK ==
  /\ DOMAIN asm.tcp \subseteq Conns
  /\ \A c \in DOMAIN asm.tcp : asm.tcp[c] \in Stream
  /\ DOMAIN asm.quic \subseteq Tuples
  /\ \A q \in DOMAIN asm.quic : QUICFlowOK(asm.quic[q])
  /\ asm.stats \in Stats /\ asm.stats.live \in Nat
  /\ asm.lastFlush \in Nat
  /\ asm.reports \in [Conns \cup Tuples -> Seq(Flow)]
  /\ wire \in [Conns -> [Sides -> Seq(Unit)]]
  /\ ignored \subseteq Conns \cup Tuples
  /\ live \in BOOLEAN
  /\ clock \in Nat \ {0}
  /\ closed \in BOOLEAN

\* LiveStreams is exactly the number of streams that took a slot and have not
\* given it back: the counted flag keeps ReassemblyComplete's decrement, the
\* idle sweep and the QUIC sweep balanced against factory.New and quicPacket.
LiveBalanced ==
  asm.stats.live = Cardinality(TCPCounted) + Cardinality(DOMAIN asm.quic)

\* The cap that holds: at most MaxStreams TCP streams retain bytes, at most
\* MaxStreams QUIC flows are tracked, so LiveStreams never passes twice the cap.
CapHolds ==
  /\ Cardinality(TCPCounted) <= MaxStreams
  /\ Cardinality(DOMAIN asm.quic) <= MaxStreams
  /\ asm.stats.live <= 2 * MaxStreams

\* Every stream examined is counted at most once among the reported flows, the
\* rejected ones and those still undecided, whatever order emit, reject, the
\* close and the sweeps come in.
CountersPartition ==
  asm.stats.tlsFlows + asm.stats.rejectedTCP
    + Cardinality(UndecidedTCP) + Cardinality(UndecidedQUIC) <= asm.stats.streams

\* Handler receives a flow at most once: emit on a complete flight, on the
\* close and in a sweep never add up to two calls for one stream, and a stream
\* marked emitted has had its call.
ReportedOnce ==
  /\ \A x \in Conns \cup Tuples : Len(asm.reports[x]) <= 1
  /\ \A c \in DOMAIN asm.tcp : asm.tcp[c].emitted <=> asm.reports[c] # <<>>
  /\ \A q \in DOMAIN asm.quic : asm.quic[q].emitted <=> asm.reports[q] # <<>>

\* A ClientHello inside the retained prefix of either direction is found,
\* however the prefix was cut into segments and whatever the other direction
\* carried: no segmentation makes parse reject the stream first.
HelloKept ==
  \A c \in TCPCounted : \A side \in Sides :
    FindClientHello(SubSeq(wire[c][side], 1, IF Len(wire[c][side]) > MaxPrefix
                                             THEN MaxPrefix ELSE Len(wire[c][side])))
      => asm.tcp[c].haveCH

\* A reported TCP flow names the side that sent the ClientHello as the client,
\* also when the capture began with the server's side, and its server half is
\* what the other side said at some point of the capture.
ReportFaithful ==
  \A c \in Conns : \A k \in DOMAIN asm.reports[c] :
    LET f == asm.reports[c][k]
        said(side, n) == SubSeq(wire[c][side], 1, n)
        lengths(side) == 0..Len(wire[c][side])
    IN  /\ \E n \in lengths(f.client) : FindClientHello(said(f.client, n))
        /\ \E n \in lengths(Other(f.client)) :
             FindServerHello(said(Other(f.client), n)) = f.server

\* While a stream is still being read, a direction's buffer is all that was
\* delivered unless PrefixTruncated says otherwise: no byte is dropped
\* silently, and never more than MaxStreamPrefix is held.
TruncationHonest ==
  \A c \in DOMAIN asm.tcp : LET s == asm.tcp[c] IN
    /\ \A i \in Dirs : Len(s.buf[i]) <= MaxPrefix
    /\ ~s.rejected /\ ~(s.haveCH /\ s.haveSH) /\ ~s.flow.truncated
         => \A side \in Sides : s.buf[DirOf(c, side)] = wire[c][side]

\* A stream leaves the tables only with its ClientHello reported: by its close,
\* the packet-driven sweep, the timer's sweep or Close, whichever is first.
ReportedOnRelease ==
  [][/\ \A c \in DOMAIN asm.tcp \ DOMAIN asm'.tcp :
          asm.tcp[c].haveCH => Len(asm'.reports[c]) = 1
     /\ \A q \in DOMAIN asm.quic \ DOMAIN asm'.quic :
          asm.quic[q].haveCH => Len(asm'.reports[q]) = 1]_vars

\* The handler got a pointer to the flow: once reported, a tracked stream's
\* flow is never written again.
FrozenOnceReported ==
  [][/\ \A c \in DOMAIN asm.tcp \cap DOMAIN asm'.tcp :
          asm.tcp[c].emitted => asm'.tcp[c].flow = asm.tcp[c].flow
     /\ \A q \in DOMAIN asm.quic \cap DOMAIN asm'.quic :
          asm.quic[q].emitted => asm'.quic[q].flow = asm.quic[q].flow]_vars

\* After Close nothing is tracked any more.
CloseReleasesAll ==
  closed => DOMAIN asm.tcp = {} /\ DOMAIN asm.quic = {} /\ asm.stats.live = 0

\* On a live interface every stream that goes quiet is released, and so
\* reported, by the timer alone.
QuietIsReleased ==
  /\ \A c \in Conns : live /\ c \in DOMAIN asm.tcp ~> c \notin DOMAIN asm.tcp
  /\ \A q \in Tuples : live /\ q \in DOMAIN asm.quic ~> q \notin DOMAIN asm.quic

\* The shortfall is never understated: StreamsDropped, on either path, is at
\* least the number of connections that were turned away, so a capture that
\* reports none has looked into every connection.  (It may overstate: a QUIC
\* connection turned away is counted again for each further Initial.)
ShortfallReported ==
  /\ Cardinality(ignored) <= asm.stats.dropped
  /\ asm.stats.dropped > 0 => ignored # {}


=============================================================================
