------------------------------ MODULE Datagram ------------------------------
(***************************************************************************)
(* internal/quic, ParseLongHeader and Open: the clear fields of the packet *)
(* at the start of a UDP payload, and the removal of its protection.  What *)
(* arrives is any UDP payload, so a field may hold anything; a slice taken *)
(* outside the payload is a panic, which ends the program.                 *)
(*                                                                         *)
(* A datagram is a record: its length (len), whether the first byte is a   *)
(* long header's, its type and version, the lengths of its connection IDs, *)
(* two variable-length integers with the bytes they take (tokenSize,       *)
(* token, lengthSize, length), the size of its packet number (pn), and     *)
(* whether its protected part was sealed by the sender with the flow's     *)
(* keys and those lengths (sealed).  Packets behind the first are ignored. *)
(*                                                                         *)
(* A definition marked as a fault is not part of the specification: put in *)
(* place of the definition after it, it must break a property (README).    *)
(***************************************************************************)
EXTENDS Integers

CONSTANT HalfInt   \* the first number that an int cannot hold, 2^31 or 2^63

ASSUME DatagramAssumption == HalfInt \in Nat \ {0}

MaxConnIDLen == 20
SampleLen == 16
SampleOffset == 4

\* A datagram is a slice, so its length is an int.
Datagrams ==
  [len : 0..(HalfInt - 1), long : BOOLEAN, type : {"initial", "zero_rtt", "handshake", "retry"},
   version : {"supported", "other", "negotiation"}, dcid : Nat, scid : Nat, tokenSize : 1..8, token : Nat,
   lengthSize : 1..8, length : Nat, pn : 1..4, sealed : BOOLEAN]

\* What an int holds of a number or of the sum of two ints.
AsInt(v) == ((v + HalfInt) % (2 * HalfInt)) - HalfInt

Outside(d, lo, hi) == ~(0 <= lo /\ lo <= hi /\ hi <= d.len)

\* readCID at position p, of an ID of n bytes.
FitsCID(d, p, n) == p < d.len /\ n <= MaxConnIDLen /\ p + 1 + n <= d.len

\* readVarint at position p, of a number that takes size bytes.
FitsVarint(d, p, size) == p + size <= d.len

\* Where the source connection ID and what follows it begin.
SCIDAt(d) == 6 + d.dcid
TokenAt(d) == SCIDAt(d) + 1 + d.scid

\* ParseLongHeader up to the token.
FitsIDs(d) ==
  /\ d.long /\ d.len >= 7 /\ d.version # "negotiation"
  /\ FitsCID(d, 5, d.dcid) /\ FitsCID(d, SCIDAt(d), d.scid)

\* A fault: the length of the token is converted before it is compared.
FitsTokenInt(d) ==
  LET p == TokenAt(d) + d.tokenSize
  IN  FitsVarint(d, TokenAt(d), d.tokenSize) /\ AsInt(d.token) <= d.len - p

\* The token of an Initial; the comparison is one of uint64.
FitsToken(d) ==
  LET p == TokenAt(d) + d.tokenSize
  IN  FitsVarint(d, TokenAt(d), d.tokenSize) /\ d.token <= d.len - p

LengthAt(d) == TokenAt(d) + d.tokenSize + AsInt(d.token)
PNOffset(d) == LengthAt(d) + d.lengthSize
End(d) == AsInt(PNOffset(d) + AsInt(d.length))

\* The rest of ParseLongHeader, for an Initial.
FitsLength(d) ==
  /\ FitsVarint(d, LengthAt(d), d.lengthSize)
  /\ AsInt(d.length) >= 0 /\ End(d) <= d.len

\* The Initials that quicPacket goes on with.  (A Retry ends at its IDs, and
\* quicPacket drops it with the other types.)
Parses(d) ==
  /\ FitsIDs(d) /\ d.type = "initial"
  /\ FitsToken(d) /\ FitsLength(d)
  /\ d.version = "supported"

\* Open before it decrypts.
FitsSample(d) == PNOffset(d) + SampleOffset + SampleLen <= d.len
FitsNumber(d) == PNOffset(d) + d.pn <= End(d)

\* ParseLongHeader or Open takes a slice that the datagram does not have.
Panics(d) ==
  /\ FitsIDs(d) /\ d.type = "initial"
  /\ \/ Outside(d, TokenAt(d), d.len)
     \/ FitsToken(d) /\ Outside(d, TokenAt(d) + d.tokenSize, LengthAt(d))
     \/ FitsToken(d) /\ Outside(d, LengthAt(d), d.len)
     \/ /\ Parses(d) /\ FitsSample(d)
        /\ \/ Outside(d, PNOffset(d) + SampleOffset, PNOffset(d) + SampleOffset + SampleLen)
           \/ FitsNumber(d) /\ (Outside(d, 0, PNOffset(d) + d.pn) \/ Outside(d, PNOffset(d) + d.pn, End(d)))

\* Open succeeds: the AEAD accepts only what the sender sealed.
Opens(d) == Parses(d) /\ FitsSample(d) /\ FitsNumber(d) /\ d.sealed

=============================================================================
