---------------------------- MODULE CryptoStream ----------------------------
(***************************************************************************)
(* The reassembly of QUIC CRYPTO frames: cryptoStream of                   *)
(* internal/assemble/quic.go, as operators on its value.  Offsets and      *)
(* lengths are counted in units of Handshake.                              *)
(*                                                                         *)
(* A definition marked as a fault is not part of the specification: put in *)
(* place of the definition after it, it must break a property (README).    *)
(***************************************************************************)
EXTENDS Handshake

CONSTANTS MaxCryptoBytes,   \* maxCryptoBytes, in units
          MaxCryptoFrames   \* maxCryptoFrames

ASSUME CryptoAssumption == /\ MaxCryptoBytes \in Nat \ {0}
                           /\ MaxCryptoFrames \in Nat \ {0}

\* A CRYPTO frame as quic.CryptoFrames returns it.
Frame == [off : Nat, data : Seq(Unit)]

\* segments is the Go map: a function whose domain is the offsets held.
EmptyCrypto == [segments |-> <<>>, total |-> 0]

Offsets(c) == DOMAIN c.segments

\* The frames that cryptoStream.add ignores: the first at an offset wins.
Refuses(c, off, data) ==
  \/ data = <<>>
  \/ c.total >= MaxCryptoBytes \/ Cardinality(Offsets(c)) >= MaxCryptoFrames
  \/ off > MaxCryptoBytes
  \/ off \in Offsets(c)

\* A fault: the last frame is kept whole.
KeptWhole(c, data) == data

\* What add keeps of a frame: never more than MaxCryptoBytes in all.
Kept(c, data) ==
  LET room == MaxCryptoBytes - c.total
  IN  SubSeq(data, 1, IF Len(data) > room THEN room ELSE Len(data))

\* A fault: a later frame at an offset replaces the one that is held.
AddReplacing(c, off, data) ==
  LET old == {o \in Offsets(c) : o = off}
      rest == [segments |-> [o \in Offsets(c) \ old |-> c.segments[o]],
               total |-> c.total - (IF old = {} THEN 0 ELSE Len(c.segments[off]))]
  IN  IF Refuses(rest, off, data) THEN c
      ELSE [segments |-> [o \in Offsets(c) \cup {off} |->
                            IF o = off THEN Kept(rest, data) ELSE c.segments[o]],
            total |-> rest.total + Len(Kept(rest, data))]

\* cryptoStream.add
Add(c, off, data) ==
  IF Refuses(c, off, data) THEN c
  ELSE [segments |-> [o \in Offsets(c) \cup {off} |->
                        IF o = off THEN Kept(c, data) ELSE c.segments[o]],
        total |-> c.total + Len(Kept(c, data))]

\* The loop of quicPacket over the frames of one packet, in their order.
AddFrames(c, frames) ==
  LET added[n \in 0..Len(frames)] ==
        IF n = 0 THEN c ELSE Add(added[n - 1], frames[n].off, frames[n].data)
  IN  added[Len(frames)]

\* A fault: a segment that overlaps what is already there is appended whole.
RestWhole(seg, off, want) == seg

\* The part of a segment at off beyond the first want units.
Rest(seg, off, want) == SubSeq(seg, want - off + 1, Len(seg))

\* sort.Slice on the offsets: the n-th of a set of numbers has n - 1 below it.
InOrder(S) ==
  [n \in 1..Cardinality(S) |-> CHOOSE o \in S : Cardinality({x \in S : x < o}) = n - 1]

\* cryptoStream.prefix: walk the segments by increasing offset, skip what is
\* already covered, stop at the first gap.
Prefix(c) ==
  LET sorted == InOrder(Offsets(c))
      walk[n \in 0..Len(sorted)] ==
        IF n = 0 THEN [out |-> <<>>, gap |-> FALSE]
        ELSE LET w == walk[n - 1]
                 want == Len(w.out)
                 off == sorted[n]
                 seg == c.segments[off]
             IN  IF w.gap \/ off > want THEN [w EXCEPT !.gap = TRUE]
                 ELSE IF off + Len(seg) <= want THEN w
                 ELSE [w EXCEPT !.out = @ \o Rest(seg, off, want)]
  IN  walk[Len(sorted)].out

=============================================================================
