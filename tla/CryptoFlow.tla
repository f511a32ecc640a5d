----------------------------- MODULE CryptoFlow -----------------------------
(***************************************************************************)
(* One direction of a QUIC handshake on its way through the observer: the  *)
(* sender cuts its handshake bytes into CRYPTO frames as it likes and puts *)
(* them into Initial packets among other frames; the network reorders,     *)
(* repeats and loses packets and mixes them with others; quicPacket takes  *)
(* the header of each apart and opens it, quic.CryptoFrames takes the      *)
(* frames out and cryptoStream puts them together again.                   *)
(*                                                                         *)
(* A definition marked as a fault is not part of the specification: put in *)
(* place of the definition after it, it must break a property (README).    *)
(***************************************************************************)
EXTENDS CryptoStream, Datagram

CONSTANTS Sent,        \* the handshake bytes, in units
          Genuine,     \* a datagram as the sender makes them
          Strange,     \* other datagrams of the same endpoints
          MaxPayload,  \* bound: frames of a packet
          MaxPackets   \* bound: packets seen

\* The layout of an Initial in RFC 9000, 17.2.2: the length counts the packet
\* number, the payload and its tag, and what comes before them fits.
WellFormed(d) ==
  /\ d.long /\ d.type = "initial" /\ d.version = "supported" /\ d.sealed
  /\ d.dcid <= 20 /\ d.scid <= 20 /\ d.length >= 20
  /\ 7 + d.dcid + d.scid + d.tokenSize + d.token + d.lengthSize + d.length <= d.len

ASSUME FlowAssumption ==
  /\ Sent \in Seq(Unit)
  /\ Genuine \in Datagrams /\ WellFormed(Genuine)
  /\ Strange \subseteq Datagrams /\ \A d \in Strange : ~d.sealed
  /\ MaxPayload \in Nat \ {0} /\ MaxPackets \in Nat

\* The frames an Initial may hold.  ping stands for the frames that are
\* skipped, PADDING, PING and ACK; close for CONNECTION_CLOSE and for the
\* types that an Initial may not hold; cut for a frame of any type whose
\* fields run past the end of the packet.
Slice(i, j) == [type |-> "crypto", off |-> i, data |-> SubSeq(Sent, i + 1, j)]
Slices == {Slice(i, j) : i, j \in 0..Len(Sent)}
Others == {[type |-> t, off |-> 0, data |-> <<>>] : t \in {"ping", "close", "cut"}}
Payloads == UNION {[1..n -> Slices \cup Others] : n \in 1..MaxPayload}

VARIABLES
  crypto,   \* the cryptoStream
  taken,    \* history: the CRYPTO frames readable in the packets seen
  packets,  \* the number of packets seen
  crashed   \* a slice out of range has ended the program

flowVars == <<crypto, taken, packets, crashed>>

\* A fault: a frame that is not CRYPTO ends the packet.
StopsAtAny(frame) == frame.type # "crypto"

\* The frame types at which CryptoFrames returns what it has.
Stops(frame) == frame.type \in {"close", "cut"}

\* quic.CryptoFrames: the CRYPTO frames in front of the first frame that cannot
\* be passed.
CryptoFrames(payload) ==
  LET read[n \in 0..Len(payload)] ==
        IF n = 0 THEN <<>>
        ELSE IF payload[n].type # "crypto" THEN read[n - 1]
        ELSE Append(read[n - 1], [off |-> payload[n].off, data |-> payload[n].data])
      stops == {i \in DOMAIN payload : Stops(payload[i])}
  IN  read[IF stops = {} THEN Len(payload) ELSE Min(stops) - 1]

\* What a packet really offers: the CRYPTO frames not behind a frame that
\* cannot be passed.
Offered(payload) ==
  {[off |-> payload[i].off, data |-> payload[i].data] :
     i \in {i \in DOMAIN payload : /\ payload[i].type = "crypto"
                                   /\ \A j \in 1..(i - 1) : payload[j].type \notin {"close", "cut"}}}

Init ==
  /\ crypto = EmptyCrypto
  /\ taken = {}
  /\ packets = 0
  /\ crashed = FALSE

\* quicPacket, for a datagram of this direction.
Receive(d, payload) ==
  /\ packets < MaxPackets /\ ~crashed
  /\ crashed' = Panics(d)
  /\ crypto' = IF Opens(d) THEN AddFrames(crypto, CryptoFrames(payload)) ELSE crypto
  /\ taken' = IF d = Genuine THEN taken \cup Offered(payload) ELSE taken
  /\ packets' = packets + 1

Next ==
  \/ \E payload \in Payloads : Receive(Genuine, payload)
  \/ \E d \in Strange : Receive(d, <<>>)

Spec == Init /\ [][Next]_flowVars

(***************************************************************************)
(* Properties                                                              *)
(***************************************************************************)

\* The positions of the handshake that a set of frames covers.
Covered(frames) == UNION {(f.off + 1)..(f.off + Len(f.data)) : f \in frames}
Held == {[off |-> o, data |-> crypto.segments[o]] : o \in Offsets(crypto)}

\* The first n positions.
Reach(positions) == Max({n \in 0..Len(Sent) : 1..n \subseteq positions})

\* The limits: what a direction retains is bounded in bytes and in pieces, and
\* total, which add tests against, is what is retained.
BoundedHold ==
  /\ crypto.total = MapThenSumSet(LAMBDA f : Len(f.data), Held)
  /\ crypto.total <= MaxCryptoBytes
  /\ Cardinality(Offsets(crypto)) <= MaxCryptoFrames

\* prefix returns the beginning of what was sent, all of it up to the first
\* byte that is not held, whatever the order, the overlaps and the cuts.
PrefixGenuine == Prefix(crypto) = SubSeq(Sent, 1, Reach(Covered(Held)))

\* Nothing needed is lost short of the limits: unless two frames began at one
\* offset with different lengths, prefix reaches as far as the frames seen.
NothingMissed ==
  \/ MapThenSumSet(LAMBDA f : Len(f.data), taken) > MaxCryptoBytes
  \/ Cardinality({f.off : f \in taken}) > MaxCryptoFrames
  \/ \E f, g \in taken : f # g /\ f.off = g.off /\ f.data # <<>> /\ g.data # <<>>
  \/ Len(Prefix(crypto)) = Reach(Covered(taken))

\* No UDP payload ends the program: every slice that the header's fields ask
\* for is inside the datagram, also where int is too narrow for a length.
NeverPanics == ~crashed

\* The prefix only grows, so a handshake once read stays readable.
PrefixGrows == [][IsPrefix(Prefix(crypto), Prefix(crypto'))]_flowVars

=============================================================================
