-------------------------- MODULE CryptoFlowProofs --------------------------
(***************************************************************************)
(* Proofs about Datagram, CryptoStream and CryptoFlow.                     *)
(***************************************************************************)
EXTENDS CryptoFlow, FoldLemmas, SequenceTheorems

\* A number that an int can hold is not changed by the conversion.
LEMMA AsIntSmall ==
  ASSUME NEW v \in Nat, v < HalfInt
  PROVE  AsInt(v) = v
<1>1. HalfInt \in Nat \ {0} BY DatagramAssumption
<1> DEFINE w == v + HalfInt
           m == 2 * HalfInt
<1>2. w \in Nat /\ m \in Nat \ {0} /\ w < m BY <1>1
<1>3. \A x \in Nat, y \in Nat \ {0} : x < y => x % y = x BY SMT
<1>4. w % m = w BY <1>2, <1>3
<1> QED BY <1>1, <1>4 DEF AsInt

\* The conversion of any number is an int.
LEMMA AsIntType ==
  ASSUME NEW v \in Int
  PROVE  AsInt(v) \in Int
<1>1. HalfInt \in Nat \ {0} BY DatagramAssumption
<1> DEFINE w == v + HalfInt
           m == 2 * HalfInt
<1>2. w \in Int /\ m \in Nat \ {0} BY <1>1
<1>3. \A x \in Int, y \in Nat \ {0} : x % y \in Int BY SMT
<1>4. w % m \in Int BY <1>2, <1>3
<1> QED BY <1>1, <1>4 DEF AsInt

\* ParseLongHeader and Open stay inside every datagram, for every width of int:
\* a token length is compared before it is converted, and what may wrap
\* afterwards, End, is compared with both neighbours before it is used.
LEMMA NoDatagramPanics ==
  ASSUME NEW d \in Datagrams
  PROVE  ~Panics(d)
<1>1. /\ HalfInt \in Nat \ {0} /\ d.len \in 0..(HalfInt - 1)
      /\ d.dcid \in Nat /\ d.scid \in Nat /\ d.tokenSize \in 1..8 /\ d.token \in Nat
      /\ d.lengthSize \in 1..8 /\ d.length \in Nat /\ d.pn \in 1..4
  BY DatagramAssumption DEF Datagrams
<1>2. SUFFICES ASSUME FitsIDs(d) PROVE ~Panics(d)
  BY DEF Panics
<1>3. TokenAt(d) \in Nat /\ TokenAt(d) <= d.len
  BY <1>1, <1>2 DEF FitsIDs, FitsCID, TokenAt, SCIDAt
<1>4. ASSUME FitsToken(d)
      PROVE  /\ LengthAt(d) \in Nat /\ LengthAt(d) <= d.len
             /\ TokenAt(d) + d.tokenSize <= LengthAt(d)
  <2>1. d.token < HalfInt BY <1>1, <1>3, <1>4 DEF FitsToken, FitsVarint
  <2>2. AsInt(d.token) = d.token BY <1>1, <2>1, AsIntSmall
  <2> QED BY <1>1, <1>3, <1>4, <2>2 DEF FitsToken, FitsVarint, LengthAt
<1>5. ASSUME FitsToken(d), FitsLength(d)
      PROVE  PNOffset(d) \in Nat /\ End(d) \in Int /\ End(d) <= d.len
  <2>1. PNOffset(d) \in Nat BY <1>1, <1>4, <1>5 DEF PNOffset
  <2>2. AsInt(d.length) \in Int BY <1>1, AsIntType
  <2>3. PNOffset(d) + AsInt(d.length) \in Int BY <2>1, <2>2
  <2>4. End(d) \in Int BY <2>3, AsIntType DEF End
  <2> QED BY <2>1, <2>4, <1>5 DEF FitsLength
<1>6. ~Outside(d, TokenAt(d), d.len)
  BY <1>1, <1>3 DEF Outside
<1>7. FitsToken(d) => /\ ~Outside(d, TokenAt(d) + d.tokenSize, LengthAt(d))
                      /\ ~Outside(d, LengthAt(d), d.len)
  BY <1>1, <1>3, <1>4 DEF Outside
<1>8. Parses(d) /\ FitsSample(d) =>
        ~Outside(d, PNOffset(d) + SampleOffset, PNOffset(d) + SampleOffset + SampleLen)
  BY <1>1, <1>5 DEF Parses, FitsSample, Outside, SampleOffset, SampleLen
<1>9. Parses(d) /\ FitsNumber(d) =>
        ~Outside(d, 0, PNOffset(d) + d.pn) /\ ~Outside(d, PNOffset(d) + d.pn, End(d))
  BY <1>1, <1>5 DEF Parses, FitsNumber, Outside
<1> QED BY <1>6, <1>7, <1>8, <1>9 DEF Panics

\* Whatever datagrams arrive, of whatever content and in whatever order, and
\* whatever the width of int, quicPacket never takes a slice out of range: no
\* UDP payload on the wire ends the census.
THEOREM NeverPanicsHolds == Spec => []NeverPanics
<1>1. Init => NeverPanics
  BY DEF Init, NeverPanics
<1>2. NeverPanics /\ [Next]_flowVars => NeverPanics'
  <2>1. ASSUME NEW d \in Datagrams, NEW payload, Receive(d, payload)
        PROVE  NeverPanics'
    BY <2>1, NoDatagramPanics DEF Receive, NeverPanics
  <2>2. Genuine \in Datagrams /\ Strange \subseteq Datagrams
    BY FlowAssumption
  <2>3. NeverPanics /\ UNCHANGED flowVars => NeverPanics'
    BY DEF NeverPanics, flowVars
  <2> QED BY <2>1, <2>2, <2>3 DEF Next
<1> QED BY <1>1, <1>2, PTL DEF Spec

\* A packet that a sender made as RFC 9000 says is opened: none of the checks
\* of ParseLongHeader and Open turns it away.
LEMMA WellFormedOpens ==
  ASSUME NEW d \in Datagrams, WellFormed(d)
  PROVE  Opens(d)
<1>1. /\ HalfInt \in Nat \ {0} /\ d.len \in 0..(HalfInt - 1)
      /\ d.dcid \in Nat /\ d.scid \in Nat /\ d.tokenSize \in 1..8 /\ d.token \in Nat
      /\ d.lengthSize \in 1..8 /\ d.length \in Nat /\ d.pn \in 1..4
  BY DatagramAssumption DEF Datagrams
<1>2. /\ d.dcid <= 20 /\ d.scid <= 20 /\ d.length >= 20
      /\ 7 + d.dcid + d.scid + d.tokenSize + d.token + d.lengthSize + d.length <= d.len
      /\ d.long /\ d.type = "initial" /\ d.version = "supported" /\ d.sealed
  BY DEF WellFormed
<1>3. AsInt(d.token) = d.token /\ AsInt(d.length) = d.length
  <2>1. d.token < HalfInt /\ d.length < HalfInt
    BY <1>1, <1>2
  <2> QED BY <1>1, <2>1, AsIntSmall
<1>4. /\ TokenAt(d) = 7 + d.dcid + d.scid
      /\ LengthAt(d) = TokenAt(d) + d.tokenSize + d.token
      /\ PNOffset(d) = LengthAt(d) + d.lengthSize
  BY <1>1, <1>3 DEF TokenAt, SCIDAt, LengthAt, PNOffset
<1>5. End(d) = PNOffset(d) + d.length
  <2> DEFINE e == PNOffset(d) + d.length
  <2>1. e \in Nat /\ e < HalfInt
    BY <1>1, <1>2, <1>4
  <2>2. AsInt(e) = e
    BY <2>1, AsIntSmall
  <2> QED BY <1>3, <2>2 DEF End
<1>6. FitsIDs(d)
  BY <1>1, <1>2 DEF FitsIDs, FitsCID, SCIDAt, MaxConnIDLen
<1>7. FitsToken(d)
  BY <1>1, <1>2, <1>4 DEF FitsToken, FitsVarint
<1>8. FitsLength(d)
  BY <1>1, <1>2, <1>3, <1>4, <1>5 DEF FitsLength, FitsVarint
<1>9. FitsSample(d) /\ FitsNumber(d)
  <2>1. PNOffset(d) \in Nat /\ PNOffset(d) + d.length <= d.len
    BY <1>1, <1>2, <1>4
  <2>2. PNOffset(d) + 4 + 16 <= d.len /\ PNOffset(d) + d.pn <= PNOffset(d) + d.length
    BY <1>1, <1>2, <2>1
  <2> QED BY <1>5, <2>2 DEF FitsSample, FitsNumber, SampleOffset, SampleLen
<1> QED BY <1>2, <1>6, <1>7, <1>8, <1>9 DEF Opens, Parses

(***************************************************************************)
(* The bytes of a set of frames.                                           *)
(***************************************************************************)
Bytes(S) == MapThenSumSet(LAMBDA f : Len(f.data), S)

\* Frames as they are counted: finitely many, each of some length.
Countable(S) == IsFiniteSet(S) /\ \A f \in S : Len(f.data) \in Nat

\* MapThenSumSet is a sum.
LEMMA BytesTotal ==
  ASSUME NEW S, Countable(S)
  PROVE  Bytes(S) = Total([f \in S |-> Len(f.data)], S)
<1> DEFINE w == [f \in S |-> Len(f.data)]
           Def(g) == [s \in SUBSET S |-> IF s = {} THEN 0 ELSE Len(Pick(s).data) + g[s \ {Pick(s)}]]
           iter == CHOOSE g : g = Def(g)
<1>1. Bytes(S) = iter[S]
  BY Zenon DEF Bytes, MapThenSumSet, MapThenFoldSet, Pick
<1>2. \A x \in S : w[x] = Len(x.data) /\ w[x] \in Nat
  BY DEF Countable
<1>3. PICK it \in [SUBSET S -> Nat] : SumIter(it, w, S) /\ Total(w, S) = it[S]
  BY <1>2, TotalIter DEF Countable
<1>4. ASSUME NEW g PROVE SumIter(g, w, S) <=> g = Def(g)
  <2>1. \A s \in SUBSET S : s # {} => w[Pick(s)] = Len(Pick(s).data)
    BY <1>2, PickIs
  <2> HIDE DEF w
  <2> QED BY <2>1 DEF SumIter
<1>5. iter = Def(iter)
  <2>1. \E g : g = Def(g)
    BY <1>3, <1>4
  <2> HIDE DEF Def
  <2> QED BY <2>1
<1> HIDE DEF iter, w, Def
<1>6. SumIter(iter, w, S)
  BY <1>4, <1>5
<1>7. iter[S] = it[S]
  BY <1>3, <1>6, SumAgree DEF Countable
<1> QED BY <1>1, <1>3, <1>7 DEF w

\* The sum is a number, and 0 without frames.
LEMMA BytesType ==
  ASSUME NEW S, Countable(S)
  PROVE  Bytes(S) \in Nat /\ (S = {} => Bytes(S) = 0)
<1> DEFINE w == [f \in S |-> Len(f.data)]
<1>1. \A x \in S : w[x] \in Nat
  BY DEF Countable
<1> HIDE DEF w
<1>2. Total(w, S) \in Nat /\ (S = {} => Total(w, S) = 0)
  BY <1>1, TotalType DEF Countable
<1> QED BY <1>2, BytesTotal DEF w

\* A frame more is its bytes more.
LEMMA BytesAdd ==
  ASSUME NEW S, Countable(S), NEW x, Len(x.data) \in Nat, x \notin S, NEW R, R = S \cup {x}
  PROVE  Countable(R) /\ Bytes(R) = Len(x.data) + Bytes(S)
<1> DEFINE w == [f \in R |-> Len(f.data)]
           v == [f \in S |-> Len(f.data)]
<1>1. Countable(R)
  BY FS_AddElement DEF Countable
<1>2. (\A y \in R : w[y] \in Nat) /\ (\A y \in S : v[y] = w[y]) /\ w[x] = Len(x.data)
  BY DEF Countable
<1>3. S = R \ {x} /\ x \in R
  OBVIOUS
<1>4. Bytes(R) = Total(w, R) /\ Bytes(S) = Total(v, S)
  BY <1>1, BytesTotal
<1> HIDE DEF w, v
<1>5. Total(w, R) = w[x] + Total(v, S)
  <2>1. IsFiniteSet(R)
    BY <1>1 DEF Countable
  <2> QED BY <1>2, <1>3, <2>1, TotalSplit
<1> QED BY <1>1, <1>2, <1>3, <1>4, <1>5

\* A part has no more bytes.
LEMMA BytesPart ==
  ASSUME NEW S, Countable(S), NEW T, T \subseteq S
  PROVE  Countable(T) /\ Bytes(T) <= Bytes(S)
<1> DEFINE w == [f \in S |-> Len(f.data)]
           v == [f \in T |-> Len(f.data)]
<1>1. Countable(T)
  BY FS_Subset DEF Countable
<1>2. (\A y \in S : w[y] \in Nat) /\ (\A y \in T : w[y] \in Nat /\ v[y] = w[y])
  BY DEF Countable
<1>3. Bytes(S) = Total(w, S) /\ Bytes(T) = Total(v, T)
  BY <1>1, BytesTotal
<1> HIDE DEF w, v
<1>4. Total(w, T) <= Total(w, S)
  BY <1>2, TotalPart DEF Countable
<1>5. Total(w, T) = Total(v, T)
  BY <1>1, <1>2, TotalAgree DEF Countable
<1> QED BY <1>1, <1>3, <1>4, <1>5

(***************************************************************************)
(* cryptoStream.add.  A piece is genuine if it is what the sender has at   *)
(* its offset; CryptoOK holds of every cryptoStream: it is made of genuine *)
(* pieces, total counts them, and it is within its limits.                 *)
(***************************************************************************)
Piece(off, data) == [off |-> off, data |-> data]
Pieces(c) == {Piece(o, c.segments[o]) : o \in Offsets(c)}

IsGenuine(off, data) ==
  /\ off \in Nat /\ data \in Seq(Unit)
  /\ data # <<>> => off + Len(data) <= Len(Sent)
  /\ \A i \in 1..Len(data) : data[i] = Sent[off + i]

CryptoOK(c) ==
  /\ IsFiniteSet(Offsets(c))
  /\ \A o \in Offsets(c) : IsGenuine(o, c.segments[o]) /\ c.segments[o] # <<>>
  /\ c.total = Bytes(Pieces(c)) /\ c.total <= MaxCryptoBytes
  /\ Cardinality(Offsets(c)) <= MaxCryptoFrames

\* What is kept of a frame is a beginning of it, not empty, that fits.
LEMMA KeptIs ==
  ASSUME NEW c, c.total \in Nat, c.total < MaxCryptoBytes, NEW data \in Seq(Unit), data # <<>>,
         NEW k, k = Kept(c, data)
  PROVE  /\ k \in Seq(Unit) /\ Len(k) \in 1..Len(data) /\ c.total + Len(k) <= MaxCryptoBytes
         /\ \A i \in 1..Len(k) : k[i] = data[i]
         /\ c.total + Len(data) <= MaxCryptoBytes => k = data
<1> DEFINE room == MaxCryptoBytes - c.total
           n == IF Len(data) > room THEN room ELSE Len(data)
<1>1. k = SubSeq(data, 1, n)
  BY DEF Kept
<1>2. Len(data) \in Nat /\ Len(data) > 0 /\ MaxCryptoBytes \in Nat
  BY CryptoAssumption
<1>3. room \in Nat /\ room > 0 /\ n \in 1..Len(data) /\ n <= room
  BY <1>2
<1>4. /\ SubSeq(data, 1, n) \in Seq(Unit)
      /\ Len(SubSeq(data, 1, n)) = n
      /\ \A i \in 1..n : SubSeq(data, 1, n)[i] = data[i]
  <2> HIDE DEF n
  <2>1. \A i \in 1..n : i \in 1..Len(data)
    BY <1>2, <1>3
  <2> QED BY <1>2, <1>3, <2>1
<1>5. c.total + Len(k) <= MaxCryptoBytes
  BY <1>1, <1>2, <1>3, <1>4
<1>6. ASSUME c.total + Len(data) <= MaxCryptoBytes PROVE k = data
  <2>1. n = Len(data)
    BY <1>2, <1>6
  <2>2. SubSeq(data, 1, Len(data)) = data
    OBVIOUS
  <2> QED BY <1>1, <2>1, <2>2
<1> HIDE DEF n, room
<1> QED BY <1>1, <1>3, <1>4, <1>5, <1>6

\* The pieces of a cryptoStream are counted.
LEMMA PiecesCountable ==
  ASSUME NEW c, CryptoOK(c)
  PROVE  /\ Countable(Pieces(c)) /\ c.total \in Nat
         /\ \A f \in Pieces(c) : IsGenuine(f.off, f.data) /\ f.data # <<>>
<1>1. IsFiniteSet(Pieces(c))
  <2> DEFINE f == [o \in Offsets(c) |-> Piece(o, c.segments[o])]
  <2>1. /\ \A o \in Offsets(c) : f[o] \in Pieces(c)
        /\ \A p \in Pieces(c) : \E o \in Offsets(c) : f[o] = p
    BY DEF Pieces
  <2>2. IsFiniteSet(Offsets(c))
    BY DEF CryptoOK
  <2> HIDE DEF f
  <2> QED BY <2>1, <2>2, FiniteImage
<1>2. \A f \in Pieces(c) : IsGenuine(f.off, f.data) /\ f.data # <<>>
  BY DEF Pieces, Piece, CryptoOK
<1>3. \A f \in Pieces(c) : Len(f.data) \in Nat
  BY <1>2 DEF IsGenuine
<1>4. Countable(Pieces(c))
  BY <1>1, <1>3 DEF Countable
<1>5. c.total \in Nat
  BY <1>4, BytesType DEF CryptoOK
<1> QED BY <1>2, <1>4, <1>5

\* add, when it does not refuse: one piece more.
LEMMA AddedIs ==
  ASSUME NEW c, CryptoOK(c), NEW off, NEW data, IsGenuine(off, data), ~Refuses(c, off, data),
         NEW k, k = Kept(c, data), NEW a, a = Add(c, off, data)
  PROVE  /\ CryptoOK(a)
         /\ Pieces(a) = Pieces(c) \cup {Piece(off, k)}
<1>1. /\ a.segments = [o \in Offsets(c) \cup {off} |-> IF o = off THEN k ELSE c.segments[o]]
      /\ a.total = c.total + Len(k)
      /\ Offsets(a) = Offsets(c) \cup {off}
  BY DEF Add, Offsets
<1>2. c.total \in Nat /\ Countable(Pieces(c))
  BY PiecesCountable
<1>3. /\ data # <<>> /\ c.total < MaxCryptoBytes /\ off \notin Offsets(c)
      /\ Cardinality(Offsets(c)) < MaxCryptoFrames
  <2>1. /\ data # <<>> /\ ~(c.total >= MaxCryptoBytes) /\ off \notin Offsets(c)
        /\ ~(Cardinality(Offsets(c)) >= MaxCryptoFrames)
    BY DEF Refuses
  <2>2. MaxCryptoBytes \in Nat /\ MaxCryptoFrames \in Nat /\ Cardinality(Offsets(c)) \in Nat
    BY CryptoAssumption, FS_CardinalityType DEF CryptoOK
  <2> QED BY <1>2, <2>1, <2>2
<1>4. /\ k \in Seq(Unit) /\ Len(k) \in 1..Len(data) /\ c.total + Len(k) <= MaxCryptoBytes
      /\ \A i \in 1..Len(k) : k[i] = data[i]
  BY <1>2, <1>3, KeptIs DEF IsGenuine
<1>5. IsGenuine(off, k) /\ k # <<>>
  <2>1. off \in Nat /\ Len(data) \in Nat /\ Len(k) \in Nat /\ Len(Sent) \in Nat
    BY <1>4, FlowAssumption DEF IsGenuine
  <2>2. off + Len(k) <= Len(Sent)
    BY <1>3, <1>4, <2>1 DEF IsGenuine
  <2>3. \A i \in 1..Len(k) : k[i] = Sent[off + i]
    BY <1>4, <2>1, SMTT(30) DEF IsGenuine
  <2>4. k # <<>>
    BY <1>4
  <2> QED BY <1>4, <2>1, <2>2, <2>3, <2>4 DEF IsGenuine
<1>6. Pieces(a) = Pieces(c) \cup {Piece(off, k)}
  <2>1. a.segments[off] = k /\ \A o \in Offsets(c) : a.segments[o] = c.segments[o]
    BY <1>1, <1>3
  <2> QED BY <1>1, <2>1 DEF Pieces
<1>7. Piece(off, k) \notin Pieces(c)
  BY <1>3 DEF Pieces, Piece
<1>8. a.total = Bytes(Pieces(a))
  <2> DEFINE x == Piece(off, k)
  <2>1. Len(x.data) = Len(k) /\ Len(k) \in Nat
    BY <1>4 DEF Piece
  <2> HIDE DEF x
  <2>2. x \notin Pieces(c) /\ Pieces(a) = Pieces(c) \cup {x}
    BY <1>6, <1>7 DEF x
  <2>3. Bytes(Pieces(a)) = Len(x.data) + Bytes(Pieces(c))
    BY <1>2, <2>1, <2>2, BytesAdd
  <2>4. Bytes(Pieces(c)) = c.total
    BY DEF CryptoOK
  <2> QED BY <1>1, <1>2, <2>1, <2>3, <2>4
<1>9. IsFiniteSet(Offsets(a)) /\ Cardinality(Offsets(a)) <= MaxCryptoFrames
  <2>1. IsFiniteSet(Offsets(c)) /\ Cardinality(Offsets(c)) \in Nat /\ MaxCryptoFrames \in Nat
    BY CryptoAssumption, FS_CardinalityType DEF CryptoOK
  <2>2. IsFiniteSet(Offsets(a)) /\ Cardinality(Offsets(a)) = Cardinality(Offsets(c)) + 1
    BY <1>1, <1>3, <2>1, FS_AddElement
  <2> QED BY <1>3, <2>1, <2>2
<1>10. \A o \in Offsets(a) : IsGenuine(o, a.segments[o]) /\ a.segments[o] # <<>>
  <2>1. a.segments[off] = k /\ \A o \in Offsets(c) : a.segments[o] = c.segments[o]
    BY <1>1, <1>3
  <2> QED BY <1>1, <1>5, <2>1 DEF CryptoOK
<1> QED BY <1>1, <1>4, <1>6, <1>8, <1>9, <1>10 DEF CryptoOK

\* add keeps CryptoOK and every piece it has.
LEMMA AddKeeps ==
  ASSUME NEW c, CryptoOK(c), NEW off, NEW data, IsGenuine(off, data), NEW a, a = Add(c, off, data)
  PROVE  CryptoOK(a) /\ Pieces(c) \subseteq Pieces(a)
<1>1. CASE Refuses(c, off, data)
  BY <1>1 DEF Add
<1>2. CASE ~Refuses(c, off, data)
  <2> DEFINE k == Kept(c, data)
  <2>1. CryptoOK(a) /\ Pieces(a) = Pieces(c) \cup {Piece(off, k)}
    BY <1>2, AddedIs
  <2> QED BY <2>1
<1> QED BY <1>1, <1>2

\* The loop over the frames of a packet, step by step.
LEMMA AddFramesIs ==
  ASSUME NEW c, NEW frames, Len(frames) \in Nat
  PROVE  \E added : /\ added[0] = c
                    /\ \A n \in 1..Len(frames) :
                         added[n] = Add(added[n - 1], frames[n].off, frames[n].data)
                    /\ AddFrames(c, frames) = added[Len(frames)]
<1> DEFINE L == Len(frames)
           Step(v, n) == Add(v, frames[n].off, frames[n].data)
           Def(g, m) == [n \in 0..m |-> IF n = 0 THEN c ELSE Step(g[n - 1], n)]
           iter == CHOOSE g : g = Def(g, L)
           P(m) == \E g : g = Def(g, m)
           N == {m \in 0..L : P(m)}
<1>1. AddFrames(c, frames) = iter[L]
  BY DEF AddFrames
<1> HIDE DEF L, Step
<1>2. L \in Nat
  BY DEF L
<1>3. 0 \in N
  <2> DEFINE g == [n \in 0..0 |-> c]
  <2>1. g = Def(g, 0)
    OBVIOUS
  <2>2. P(0)
    <3> HIDE DEF g
    <3> QED BY <2>1
  <2> HIDE DEF P
  <2> QED BY <1>2, <2>2
<1>4. ASSUME NEW m \in 0..(L - 1), m \in N PROVE m + 1 \in N
  <2>1. PICK g : g = Def(g, m)
    BY <1>4
  <2> DEFINE h == [n \in 0..(m + 1) |-> IF n = m + 1 THEN Step(g[m], m + 1) ELSE g[n]]
  <2>2. m \in Nat /\ m + 1 \in 0..L
    BY <1>2
  <2>3. ASSUME NEW n \in 0..(m + 1) PROVE h[n] = IF n = 0 THEN c ELSE Step(h[n - 1], n)
    <3>1. CASE n = 0
      <4>1. g[0] = c
        BY <2>1, <2>2
      <4> QED BY <2>2, <3>1, <4>1
    <3>2. CASE n = m + 1
      <4>1. n - 1 = m /\ h[m] = g[m] /\ n # 0
        BY <2>2, <3>2
      <4> QED BY <3>2, <4>1
    <3>3. CASE n # 0 /\ n # m + 1
      <4>1. n \in 0..m /\ n - 1 \in 0..m /\ n - 1 # m + 1 /\ n - 1 \in 0..(m + 1)
        BY <2>2, <3>3
      <4>2. g[n] = Step(g[n - 1], n)
        BY <2>1, <3>3, <4>1
      <4> QED BY <3>3, <4>1, <4>2
    <3> QED BY <3>1, <3>2, <3>3
  <2>4. h = Def(h, m + 1)
    BY <2>3
  <2>5. P(m + 1)
    <3> HIDE DEF h
    <3> QED BY <2>4
  <2> HIDE DEF P
  <2> QED BY <2>2, <2>5
<1>5. P(L)
  <2>1. 0..L \subseteq N
    <3> HIDE DEF N
    <3> QED BY <1>2, <1>3, <1>4, InductionUpTo
  <2> HIDE DEF P
  <2> QED BY <1>2, <2>1
<1>6. iter = Def(iter, L)
  <2> HIDE DEF Def
  <2> QED BY <1>5
<1> HIDE DEF iter
<1>7. iter[0] = c /\ \A n \in 1..L : iter[n] = Step(iter[n - 1], n)
  BY <1>2, <1>6
<1> QED BY <1>1, <1>7 DEF L, Step

\* The loop keeps CryptoOK and every piece.
LEMMA AddFramesKeeps ==
  ASSUME NEW c, CryptoOK(c), NEW frames, Len(frames) \in Nat,
         \A n \in 1..Len(frames) : IsGenuine(frames[n].off, frames[n].data)
  PROVE  CryptoOK(AddFrames(c, frames)) /\ Pieces(c) \subseteq Pieces(AddFrames(c, frames))
<1>1. PICK added : /\ added[0] = c
                   /\ \A n \in 1..Len(frames) :
                        added[n] = Add(added[n - 1], frames[n].off, frames[n].data)
                   /\ AddFrames(c, frames) = added[Len(frames)]
  BY AddFramesIs
<1> DEFINE N == {n \in 0..Len(frames) : CryptoOK(added[n]) /\ Pieces(c) \subseteq Pieces(added[n])}
<1>2. 0 \in N
  BY <1>1
<1>3. ASSUME NEW m \in 0..(Len(frames) - 1), m \in N PROVE m + 1 \in N
  <2>1. m + 1 \in 1..Len(frames) /\ (m + 1) - 1 = m
    OBVIOUS
  <2>2. added[m + 1] = Add(added[m], frames[m + 1].off, frames[m + 1].data)
    BY <1>1, <2>1
  <2>3. CryptoOK(added[m + 1]) /\ Pieces(added[m]) \subseteq Pieces(added[m + 1])
    BY <1>3, <2>1, <2>2, AddKeeps
  <2> QED BY <1>3, <2>1, <2>3
<1>4. 0..Len(frames) \subseteq N
  <2> HIDE DEF N
  <2> QED BY <1>2, <1>3, InductionUpTo
<1>5. Len(frames) \in N
  BY <1>4
<1> QED BY <1>1, <1>5

(***************************************************************************)
(* quic.CryptoFrames.                                                      *)
(***************************************************************************)

\* What a packet of the sender holds.
LEMMA PayloadIs ==
  ASSUME NEW payload \in Payloads
  PROVE  /\ Len(payload) \in Nat /\ DOMAIN payload = 1..Len(payload)
         /\ \A i \in 1..Len(payload) : IsGenuine(payload[i].off, payload[i].data)
<1>1. PICK n \in 1..MaxPayload : payload \in [1..n -> Slices \cup Others]
  BY DEF Payloads
<1>2. n \in Nat
  BY <1>1, FlowAssumption
<1>3. Len(payload) = n /\ DOMAIN payload = 1..n
  BY <1>1, <1>2
<1>4. ASSUME NEW x \in Slices \cup Others PROVE IsGenuine(x.off, x.data)
  <2>1. CASE x \in Others
    <3>1. x.off = 0 /\ x.data = <<>>
      BY <2>1 DEF Others
    <3> QED BY <3>1 DEF IsGenuine
  <2>2. CASE x \in Slices
    <3>1. PICK i, j \in 0..Len(Sent) : x = Slice(i, j)
      BY <2>2 DEF Slices
    <3>2. x.off = i /\ x.data = SubSeq(Sent, i + 1, j)
      BY <3>1 DEF Slice
    <3>3. Sent \in Seq(Unit) /\ Len(Sent) \in Nat /\ i \in Nat /\ j \in Nat /\ j <= Len(Sent)
      BY FlowAssumption
    <3>4. CASE j <= i
      <4>1. SubSeq(Sent, i + 1, j) = <<>>
        BY <3>3, <3>4
      <4> QED BY <3>2, <3>3, <4>1 DEF IsGenuine
    <3>5. CASE i < j
      <4> DEFINE s == SubSeq(Sent, i + 1, j)
      <4>1. /\ s \in Seq(Unit) /\ Len(s) = j - i
            /\ \A k \in 1..(j - i) : s[k] = Sent[(i + 1) + k - 1]
        BY <3>3, <3>5, SubSeqProperties
      <4>2. \A k \in 1..(j - i) : (i + 1) + k - 1 = i + k
        BY <3>3
      <4> HIDE DEF s
      <4>3. i + Len(s) <= Len(Sent) /\ \A k \in 1..Len(s) : s[k] = Sent[i + k]
        BY <3>3, <3>5, <4>1, <4>2
      <4> QED BY <3>2, <3>3, <4>1, <4>3 DEF IsGenuine, s
    <3> QED BY <3>3, <3>4, <3>5
  <2> QED BY <2>1, <2>2
<1> QED BY <1>1, <1>2, <1>3, <1>4

\* What a sequence holds after Append.
LEMMA AppendHolds ==
  ASSUME NEW S, NEW v \in Seq(S), NEW x \in S, NEW a, a = Append(v, x)
  PROVE  {a[i] : i \in 1..Len(a)} = {v[i] : i \in 1..Len(v)} \cup {x}
<1>1. /\ Len(v) \in Nat /\ Len(a) = Len(v) + 1
      /\ \A i \in 1..Len(v) : a[i] = v[i]
      /\ a[Len(v) + 1] = x
  OBVIOUS
<1> DEFINE n == Len(v)
<1> HIDE DEF n
<1>2. 1..(n + 1) = 1..n \cup {n + 1}
  BY <1>1 DEF n
<1> QED BY <1>1, <1>2 DEF n

\* The frames that CryptoFrames returns are those the packet offers.
LEMMA FramesAre ==
  ASSUME NEW payload \in Payloads, NEW frames, frames = CryptoFrames(payload)
  PROVE  /\ Len(frames) \in Nat
         /\ {frames[i] : i \in 1..Len(frames)} = Offered(payload)
         /\ \A i \in 1..Len(frames) : IsGenuine(frames[i].off, frames[i].data)
<1> DEFINE L == Len(payload)
           piece(i) == Piece(payload[i].off, payload[i].data)
           All == {piece(i) : i \in 1..L}
           V == Seq(All)
           Step(v, n) == IF payload[n].type # "crypto" THEN v ELSE Append(v, piece(n))
           F == [n \in 1..L |-> [v \in V |-> Step(v, n)]]
           read == CHOOSE g : g = [n \in 0..L |-> IF n = 0 THEN <<>> ELSE Step(g[n - 1], n)]
           stops == {i \in DOMAIN payload : Stops(payload[i])}
           last == IF stops = {} THEN L ELSE Min(stops) - 1
           Before(n) == {piece(i) : i \in {i \in 1..n : payload[i].type = "crypto"}}
<1>1. /\ L \in Nat /\ DOMAIN payload = 1..L
      /\ \A i \in 1..L : IsGenuine(payload[i].off, payload[i].data)
  BY PayloadIs
<1>2. frames = read[last]
  <2>1. \A g, n : (IF n = 0 THEN <<>> ELSE Step(g[n - 1], n)) =
                  (IF n = 0 THEN <<>>
                   ELSE IF payload[n].type # "crypto" THEN g[n - 1]
                   ELSE Append(g[n - 1], [off |-> payload[n].off, data |-> payload[n].data]))
    BY DEF Piece
  <2> QED BY DEF CryptoFrames, Piece
<1> HIDE DEF L
<1>3. \A n \in 1..L : \A v \in V : Step(v, n) \in V
  <2>1. \A n \in 1..L : piece(n) \in All
    OBVIOUS
  <2> HIDE DEF All, piece
  <2> QED BY <2>1
<1>4. PICK g \in [0..L -> V] : g[0] = <<>> /\ \A n \in 1..L : g[n] = F[n][g[n - 1]]
  <2>1. StaysIn(F, V, L)
    <3> HIDE DEF V, Step
    <3> QED BY <1>3 DEF StaysIn
  <2>2. <<>> \in V
    OBVIOUS
  <2> HIDE DEF F, V
  <2>3. PICK g : Solves(g, <<>>, F, V, L)
    BY <1>1, <2>1, <2>2, RecursionUpTo
  <2> QED BY <2>3 DEF Solves
<1>5. g = [n \in 0..L |-> IF n = 0 THEN <<>> ELSE Step(g[n - 1], n)]
  <2>1. \A n \in 0..L : n # 0 => n \in 1..L /\ g[n - 1] \in V
    <3>1. \A n \in 0..L : n # 0 => n \in 1..L /\ n - 1 \in 0..L
      BY <1>1
    <3> HIDE DEF V
    <3> QED BY <1>4, <3>1
  <2>2. \A n \in 0..L : n # 0 => g[n] = Step(g[n - 1], n)
    <3> HIDE DEF V, Step
    <3> QED BY <1>4, <2>1
  <2> HIDE DEF F, Step, V
  <2> QED BY <1>4, <2>2
<1>6. read = [n \in 0..L |-> IF n = 0 THEN <<>> ELSE Step(read[n - 1], n)]
  <2> HIDE DEF Step
  <2> QED BY <1>5
<1> HIDE DEF read
<1>7. read[0] = <<>> /\ \A n \in 1..L : read[n] = Step(read[n - 1], n)
  <2> HIDE DEF Step
  <2> QED BY <1>1, <1>6

<1>8. last \in 0..L /\ \A i \in 1..L : i <= last <=> \A j \in 1..i : ~Stops(payload[j])
  <2>1. CASE stops = {}
    <3>1. \A i \in 1..L : ~Stops(payload[i])
      BY <1>1, <2>1
    <3>2. last = L
      BY <2>1
    <3>3. \A i \in 1..L : \A j \in 1..i : j \in 1..L
      BY <1>1
    <3> HIDE DEF last, stops
    <3> QED BY <1>1, <3>1, <3>2, <3>3
  <2>2. CASE stops # {}
    <3>1. stops \subseteq Nat
      BY <1>1
    <3>2. Min(stops) \in stops /\ \A i \in stops : Min(stops) <= i
      BY <2>2, <3>1, MinIs
    <3> DEFINE m == Min(stops)
    <3>3. m \in 1..L /\ Stops(payload[m]) /\ \A i \in 1..L : Stops(payload[i]) => m <= i
      BY <1>1, <3>2
    <3>4. last = m - 1
      BY <2>2
    <3> HIDE DEF last, stops, m
    <3>5. ASSUME NEW i \in 1..L PROVE i <= m - 1 <=> \A j \in 1..i : ~Stops(payload[j])
      <4>1. CASE i <= m - 1
        <5>1. \A j \in 1..i : j \in 1..L /\ ~(m <= j)
          BY <1>1, <3>3, <4>1
        <5> QED BY <3>3, <4>1, <5>1
      <4>2. CASE ~(i <= m - 1)
        <5>1. m \in 1..i
          BY <1>1, <3>3, <4>2
        <5> QED BY <3>3, <4>2, <5>1
      <4> QED BY <4>1, <4>2
    <3> QED BY <1>1, <3>3, <3>4, <3>5
  <2> QED BY <2>1, <2>2
<1> DEFINE P(n) == read[n] \in V /\ {read[n][i] : i \in 1..Len(read[n])} = Before(n)
           N == {n \in 0..L : P(n)}
<1>9. P(0)
  <2>1. Before(0) = {}
    OBVIOUS
  <2>2. {(<<>>)[i] : i \in 1..Len(<<>>)} = {}
    OBVIOUS
  <2>3. <<>> \in V
    OBVIOUS
  <2> HIDE DEF Before, V
  <2> QED BY <1>7, <2>1, <2>2, <2>3
<1>10. ASSUME NEW m \in 0..(L - 1), P(m) PROVE P(m + 1)
  <2>1. m + 1 \in 1..L /\ (m + 1) - 1 = m /\ 1..(m + 1) = 1..m \cup {m + 1}
    BY <1>1
  <2>2. read[m + 1] = Step(read[m], m + 1)
    BY <1>7, <2>1
  <2>3. CASE payload[m + 1].type # "crypto"
    <3>1. Before(m + 1) = Before(m)
      BY <2>1, <2>3
    <3>2. read[m + 1] = read[m]
      BY <2>2, <2>3
    <3> HIDE DEF Before, V
    <3> QED BY <1>10, <3>1, <3>2
  <2>4. CASE payload[m + 1].type = "crypto"
    <3>1. Before(m + 1) = Before(m) \cup {piece(m + 1)}
      BY <2>1, <2>4
    <3>2. read[m + 1] = Append(read[m], piece(m + 1))
      BY <2>2, <2>4
    <3>3. piece(m + 1) \in All /\ read[m + 1] \in V
      <4>1. piece(m + 1) \in All
        BY <2>1
      <4> HIDE DEF All, piece
      <4> QED BY <1>10, <3>2, <4>1
    <3> HIDE DEF Before, All, piece
    <3>4. {read[m + 1][i] : i \in 1..Len(read[m + 1])} =
            {read[m][i] : i \in 1..Len(read[m])} \cup {piece(m + 1)}
      BY <1>10, <3>2, <3>3, AppendHolds
    <3> QED BY <1>10, <3>1, <3>3, <3>4
  <2> QED BY <2>3, <2>4
<1>11. P(last)
  <2>1. 0..L \subseteq N
    <3> HIDE DEF P
    <3>1. 0 \in N /\ \A m \in 0..(L - 1) : m \in N => m + 1 \in N
      BY <1>1, <1>9, <1>10
    <3> HIDE DEF N
    <3> QED BY <1>1, <3>1, InductionUpTo
  <2> HIDE DEF P, last
  <2> QED BY <1>8, <2>1
<1>12. Before(last) = Offered(payload)
  <2> DEFINE A == {i \in 1..last : payload[i].type = "crypto"}
             B == {i \in DOMAIN payload : /\ payload[i].type = "crypto"
                                          /\ \A j \in 1..(i - 1) : payload[j].type \notin {"close", "cut"}}
  <2>1. A \subseteq B
    <3>1. ASSUME NEW i \in A PROVE i \in B
      <4>1. i \in 1..L /\ i <= last /\ i \in DOMAIN payload
        BY <1>1, <1>8
      <4>2. \A j \in 1..(i - 1) : j \in 1..i
        BY <1>1, <4>1
      <4> HIDE DEF last
      <4>3. \A j \in 1..(i - 1) : payload[j].type \notin {"close", "cut"}
        BY <1>8, <4>1, <4>2 DEF Stops
      <4> QED BY <4>1, <4>3
    <3> QED BY <3>1
  <2>2. B \subseteq A
    <3>1. ASSUME NEW i \in B PROVE i \in A
      <4>1. i \in 1..L
        BY <1>1
      <4>2. \A j \in 1..i : j = i \/ j \in 1..(i - 1)
        BY <1>1, <4>1
      <4>3. \A j \in 1..i : ~Stops(payload[j])
        BY <4>2 DEF Stops
      <4>4. i <= last
        BY <1>8, <4>1, <4>3
      <4> HIDE DEF last
      <4> QED BY <1>8, <4>1, <4>4
    <3> QED BY <3>1
  <2>3. Offered(payload) = {piece(i) : i \in B}
    BY DEF Offered, Piece
  <2> QED BY <2>1, <2>2, <2>3
<1>13. \A f \in Offered(payload) : IsGenuine(f.off, f.data)
  BY <1>1 DEF Offered
<1>14. Len(frames) \in Nat /\ {frames[i] : i \in 1..Len(frames)} = Offered(payload)
  <2>1. frames \in V
    BY <1>2, <1>11
  <2> HIDE DEF last, Before, V
  <2>2. {frames[i] : i \in 1..Len(frames)} = Offered(payload)
    BY <1>2, <1>11, <1>12
  <2>3. Len(frames) \in Nat
    BY <2>1 DEF V
  <2> QED BY <2>2, <2>3
<1> QED BY <1>13, <1>14


(***************************************************************************)
(* cryptoStream.prefix.                                                    *)
(***************************************************************************)

\* The place of a number in a set is the number of those below it.
Place(o, S) == Cardinality({x \in S : x < o})

\* Different numbers have different places, in their order.
LEMMA PlaceIs ==
  ASSUME NEW S, IsFiniteSet(S), S \subseteq Nat, NEW o \in S
  PROVE  /\ Place(o, S) \in 0..(Cardinality(S) - 1)
         /\ \A p \in S : o < p => Place(o, S) < Place(p, S)
<1> DEFINE Below(p) == {x \in S : x < p}
<1>1. \A p \in S : IsFiniteSet(Below(p)) /\ Cardinality(Below(p)) \in Nat
  BY FS_Subset, FS_CardinalityType
<1>2. Cardinality(S) \in Nat
  BY FS_CardinalityType
<1>3. Cardinality(Below(o)) < Cardinality(S)
  <2>1. Below(o) \subseteq S /\ o \notin Below(o)
    OBVIOUS
  <2>2. Cardinality(Below(o)) <= Cardinality(S) /\ Cardinality(Below(o)) # Cardinality(S)
    <3> HIDE DEF Below
    <3> QED BY <2>1, FS_Subset
  <2> QED BY <1>1, <1>2, <2>2
<1>4. ASSUME NEW p \in S, o < p PROVE Cardinality(Below(o)) < Cardinality(Below(p))
  <2>1. Below(o) \subseteq Below(p) /\ o \in Below(p) /\ o \notin Below(o)
    <3>1. o \in Nat /\ p \in Nat /\ \A x \in S : x \in Nat
      OBVIOUS
    <3>2. \A x \in S : x < o => x < p
      BY <1>4, <3>1
    <3>3. o \in Below(p) /\ ~(o < o)
      BY <1>4, <3>1
    <3> QED BY <3>2, <3>3
  <2>2. Cardinality(Below(o)) <= Cardinality(Below(p)) /\ Cardinality(Below(o)) # Cardinality(Below(p))
    <3> HIDE DEF Below
    <3> QED BY <1>1, <2>1, FS_Subset
  <2> HIDE DEF Below
  <2> QED BY <1>1, <2>2
<1> HIDE DEF Below
<1>5. \A p \in S : Place(p, S) = Cardinality(Below(p))
  BY DEF Place, Below
<1> QED BY <1>1, <1>2, <1>3, <1>4, <1>5

\* InOrder lists a set of numbers by increasing number.
LEMMA InOrderIs ==
  ASSUME NEW S, IsFiniteSet(S), S \subseteq Nat, NEW q, q = InOrder(S),
         NEW L, L = Cardinality(S)
  PROVE  /\ L \in Nat /\ q \in [1..L -> S] /\ Len(q) = L
         /\ \A i, j \in 1..L : i < j => q[i] < q[j]
         /\ \A o \in S : \E i \in 1..L : q[i] = o
<1>1. L \in Nat
  BY FS_CardinalityType
<1>2. \A o \in S : o \in Nat /\ Place(o, S) \in 0..(L - 1)
  BY PlaceIs
<1>3. \A o, p \in S : o < p => Place(o, S) < Place(p, S)
  BY PlaceIs
<1>4. \A o, p \in S : Place(o, S) = Place(p, S) => o = p
  <2>1. ASSUME NEW o \in S, NEW p \in S, Place(o, S) = Place(p, S) PROVE o = p
    <3>1. o \in Nat /\ p \in Nat /\ Place(o, S) \in Nat
      BY <1>1, <1>2
    <3>2. ~(o < p) /\ ~(p < o)
      BY <1>3, <2>1, <3>1
    <3> QED BY <3>1, <3>2
  <2> QED BY <2>1
<1>5. \A k \in 0..(L - 1) : \E o \in S : Place(o, S) = k
  <2>1. SUFFICES ASSUME NEW k \in 0..(L - 1), \A o \in S : Place(o, S) # k PROVE FALSE
    OBVIOUS
  <2> DEFINE T == (0..(L - 1)) \ {k}
             f == [o \in S |-> Place(o, S)]
  <2>2. IsFiniteSet(0..(L - 1)) /\ Cardinality(0..(L - 1)) = L
    BY <1>1, FS_Interval
  <2>3. IsFiniteSet(T) /\ Cardinality(T) < Cardinality(S)
    <3>1. IsFiniteSet(T) /\ Cardinality(T) \in Nat /\ Cardinality(T) + 1 = Cardinality(0..(L - 1))
      BY <2>2, OneLess
    <3> HIDE DEF T
    <3> QED BY <1>1, <2>2, <3>1
  <2>4. f \in [S -> T]
    BY <1>2, <2>1
  <2>5. \A o, p \in S : f[o] = f[p] => o = p
    BY <1>4
  <2> HIDE DEF f, T
  <2>6. f \in Injection(S, T)
    BY <2>4, <2>5 DEF Injection, IsInjective
  <2>7. Cardinality(S) <= Cardinality(T) /\ Cardinality(T) \in Nat
    BY <2>3, <2>6, FS_Injection, FS_CardinalityType
  <2> QED BY <1>1, <2>3, <2>7
<1>6. \A n \in 1..L : q[n] \in S /\ Place(q[n], S) = n - 1
  <2>1. ASSUME NEW n \in 1..L PROVE q[n] \in S /\ Place(q[n], S) = n - 1
    <3>1. q[n] = CHOOSE o \in S : Place(o, S) = n - 1
      BY DEF InOrder, Place
    <3>2. \E o \in S : Place(o, S) = n - 1
      BY <1>1, <1>5
    <3> QED BY <3>1, <3>2
  <2> QED BY <2>1
<1>7. q \in [1..L -> S]
  <2> DEFINE nth(n) == CHOOSE o \in S : Cardinality({x \in S : x < o}) = n - 1
  <2>1. q = [n \in 1..L |-> nth(n)]
    BY DEF InOrder
  <2> HIDE DEF nth
  <2> QED BY <1>6, <2>1
<1>8. Len(q) = L
  BY <1>1, <1>7
<1>9. ASSUME NEW i \in 1..L, NEW j \in 1..L, i < j PROVE q[i] < q[j]
  <2>1. q[i] \in Nat /\ q[j] \in Nat /\ q[i] # q[j]
    <3>1. q[i] \in S /\ q[j] \in S /\ Place(q[i], S) = i - 1 /\ Place(q[j], S) = j - 1
      BY <1>6
    <3>2. i - 1 # j - 1
      BY <1>1, <1>9
    <3> QED BY <1>2, <3>1, <3>2
  <2>2. ~(q[j] < q[i])
    <3>1. ~(Place(q[j], S) < Place(q[i], S))
      BY <1>6, <1>9
    <3> QED BY <1>3, <1>6, <3>1
  <2> QED BY <2>1, <2>2
<1>10. ASSUME NEW o \in S PROVE \E i \in 1..L : q[i] = o
  <2>1. Place(o, S) + 1 \in 1..L /\ (Place(o, S) + 1) - 1 = Place(o, S)
    BY <1>1, <1>2
  <2>2. q[Place(o, S) + 1] = o
    BY <1>4, <1>6, <2>1
  <2> QED BY <2>1, <2>2
<1> QED BY <1>1, <1>7, <1>8, <1>9, <1>10

\* One step of the walk, at offset off.
Walked(c, w, off) ==
  IF w.gap \/ off > Len(w.out) THEN [w EXCEPT !.gap = TRUE]
  ELSE IF off + Len(c.segments[off]) <= Len(w.out) THEN w
  ELSE [w EXCEPT !.out = @ \o Rest(c.segments[off], off, Len(w.out))]

Walks == [out : Seq(Unit), gap : BOOLEAN]
AtStart == [out |-> <<>>, gap |-> FALSE]

\* What a step of the walk does.
LEMMA WalkedIs ==
  ASSUME NEW c, NEW off, IsGenuine(off, c.segments[off]), c.segments[off] # <<>>,
         NEW w \in Walks, NEW seg, seg = c.segments[off], NEW v, v = Walked(c, w, off)
  PROVE  /\ v \in Walks
         /\ w.gap => v.gap /\ v.out = w.out
         /\ ~w.gap /\ off > Len(w.out) => v.gap /\ v.out = w.out
         /\ ~w.gap /\ ~(off > Len(w.out)) =>
              /\ ~v.gap
              /\ off + Len(seg) <= Len(w.out) => v.out = w.out
              /\ off + Len(seg) > Len(w.out) =>
                   /\ Len(v.out) = off + Len(seg)
                   /\ \A i \in 1..Len(w.out) : v.out[i] = w.out[i]
                   /\ \A i \in (Len(w.out) + 1)..(off + Len(seg)) : v.out[i] = seg[i - off]
<1> DEFINE want == Len(w.out)
           rest == Rest(seg, off, want)
<1>1. /\ w.out \in Seq(Unit) /\ w.gap \in BOOLEAN /\ want \in Nat
      /\ w = [out |-> w.out, gap |-> w.gap]
  BY DEF Walks
<1>2. off \in Nat /\ seg \in Seq(Unit) /\ Len(seg) \in Nat /\ Len(seg) > 0
  BY DEF IsGenuine
<1>3. CASE w.gap \/ off > want
  <2>1. v = [out |-> w.out, gap |-> TRUE]
    BY <1>1, <1>3 DEF Walked
  <2> QED BY <1>1, <1>3, <2>1 DEF Walks
<1>4. CASE ~(w.gap \/ off > want) /\ off + Len(seg) <= want
  <2>1. v = w
    BY <1>4 DEF Walked
  <2> QED BY <1>1, <1>2, <1>4, <2>1
<1>5. CASE ~(w.gap \/ off > want) /\ ~(off + Len(seg) <= want)
  <2> DEFINE from == want - off + 1
  <2>1. from \in 1..Len(seg) /\ off + Len(seg) > want /\ off <= want
    BY <1>1, <1>2, <1>5
  <2>2. /\ rest \in Seq(Unit) /\ Len(rest) = Len(seg) - from + 1
        /\ \A k \in 1..(Len(seg) - from + 1) : rest[k] = seg[from + k - 1]
    <3> HIDE DEF from
    <3>1. /\ SubSeq(seg, from, Len(seg)) \in Seq(Unit)
          /\ Len(SubSeq(seg, from, Len(seg))) = Len(seg) - from + 1
          /\ \A k \in 1..(Len(seg) - from + 1) : SubSeq(seg, from, Len(seg))[k] = seg[from + k - 1]
      <4>1. Len(seg) \in from - 1 .. Len(seg) /\ from \in 1..(Len(seg) + 1)
        BY <1>2, <2>1
      <4> QED BY <1>2, <2>1, <4>1, SubSeqProperties
    <3> QED BY <3>1 DEF Rest, from
  <2>3. v = [out |-> w.out \o rest, gap |-> w.gap]
    <3>1. [w EXCEPT !.out = @ \o rest] = [out |-> w.out \o rest, gap |-> w.gap]
      <4> HIDE DEF rest
      <4>1. PICK o, g : w = [out |-> o, gap |-> g]
        BY <1>1
      <4>2. [w EXCEPT !.out = @ \o rest] = [out |-> o \o rest, gap |-> g]
        BY <4>1
      <4> QED BY <4>1, <4>2
    <3> QED BY <1>5, <3>1 DEF Walked
  <2> HIDE DEF rest
  <2>4. /\ w.out \o rest \in Seq(Unit)
        /\ Len(w.out \o rest) = want + Len(rest)
        /\ \A i \in 1..want : (w.out \o rest)[i] = w.out[i]
        /\ \A i \in (want + 1)..(want + Len(rest)) : (w.out \o rest)[i] = rest[i - want]
    <3>1. /\ w.out \o rest \in Seq(Unit) /\ Len(w.out \o rest) = want + Len(rest)
          /\ \A i \in 1..(want + Len(rest)) :
               (w.out \o rest)[i] = IF i <= want THEN w.out[i] ELSE rest[i - want]
      BY <1>1, <2>2, ConcatProperties, ZenonT(40)
    <3>2. Len(rest) \in Nat
      BY <2>2
    <3> HIDE DEF want
    <3>3. /\ \A i \in 1..want : i \in 1..(want + Len(rest)) /\ i <= want
          /\ \A i \in (want + 1)..(want + Len(rest)) : i \in 1..(want + Len(rest)) /\ ~(i <= want)
      BY <1>1, <3>2
    <3> QED BY <3>1, <3>3
  <2> DEFINE joined == w.out \o rest
  <2> HIDE DEF joined
  <2>5. Len(joined) = off + Len(seg) /\ want + Len(rest) = off + Len(seg)
    <3>1. \A o, l, u, x \in Nat : x = l - (u - o + 1) + 1 => u + x = o + l
      OBVIOUS
    <3>2. Len(rest) \in Nat
      BY <2>2
    <3> HIDE DEF want
    <3>3. want + Len(rest) = off + Len(seg)
      BY <1>1, <1>2, <2>2, <3>1, <3>2
    <3>4. Len(joined) = want + Len(rest)
      BY <2>4 DEF joined
    <3> QED BY <3>3, <3>4
  <2>6. ASSUME NEW i \in (want + 1)..(off + Len(seg)) PROVE joined[i] = seg[i - off]
    <3>1. i - want \in 1..(Len(seg) - from + 1) /\ from + (i - want) - 1 = i - off
      <4>1. \A l, o, u \in Nat : \A k \in (u + 1)..(o + l) :
              k - u \in 1..(l - (u - o + 1) + 1) /\ (u - o + 1) + (k - u) - 1 = k - o
        OBVIOUS
      <4> HIDE DEF want
      <4> QED BY <1>1, <1>2, <4>1, SMTT(30)
    <3>2. joined[i] = rest[i - want]
      BY <2>4, <2>5 DEF joined
    <3>3. rest[i - want] = seg[from + (i - want) - 1]
      BY <2>2, <3>1
    <3> QED BY <3>1, <3>2, <3>3
  <2>7. v.out = joined /\ v.gap = w.gap /\ v \in Walks
    BY <1>1, <2>3, <2>4 DEF joined, Walks
  <2> QED BY <1>5, <2>1, <2>4, <2>5, <2>6, <2>7 DEF joined
<1> QED BY <1>3, <1>4, <1>5

\* prefix is the end of the walk over the offsets in their order.
LEMMA PrefixWalks ==
  ASSUME NEW c, CryptoOK(c), NEW q, q = InOrder(Offsets(c)),
         NEW L, L = Cardinality(Offsets(c))
  PROVE  \E walk : /\ walk[0] = AtStart
                   /\ \A n \in 1..L : walk[n] = Walked(c, walk[n - 1], q[n])
                   /\ Prefix(c) = walk[L].out
<1> DEFINE F == [n \in 1..L |-> [w \in Walks |-> Walked(c, w, q[n])]]
           walk == CHOOSE g : g = [n \in 0..L |-> IF n = 0 THEN AtStart ELSE Walked(c, g[n - 1], q[n])]
<1>1. /\ IsFiniteSet(Offsets(c)) /\ Offsets(c) \subseteq Nat
      /\ \A o \in Offsets(c) : IsGenuine(o, c.segments[o]) /\ c.segments[o] # <<>>
  BY DEF CryptoOK, IsGenuine
<1>2. L \in Nat /\ q \in [1..L -> Offsets(c)] /\ Len(q) = L
  BY <1>1, InOrderIs
<1>3. Prefix(c) = walk[L].out
  <2> DEFINE sorted == InOrder(Offsets(c))
             full == CHOOSE g : g = [n \in 0..Len(sorted) |->
                       IF n = 0 THEN AtStart ELSE Walked(c, g[n - 1], sorted[n])]
  <2>1. Prefix(c) = full[Len(sorted)].out
    BY DEF Prefix, AtStart, Walked
  <2>2. sorted = q
    OBVIOUS
  <2> HIDE DEF sorted
  <2> QED BY <1>2, <2>1, <2>2
<1>4. StaysIn(F, Walks, L)
  <2>1. \A n \in 1..L : q[n] \in Offsets(c)
    BY <1>2
  <2>2. \A n \in 1..L : \A w \in Walks : Walked(c, w, q[n]) \in Walks
    BY <1>1, <2>1, WalkedIs
  <2> QED BY <2>2 DEF StaysIn
<1>5. PICK g : Solves(g, AtStart, F, Walks, L)
  <2>1. AtStart \in Walks
    BY DEF AtStart, Walks
  <2> HIDE DEF F
  <2> QED BY <1>2, <1>4, <2>1, RecursionUpTo
<1>6. g = [n \in 0..L |-> IF n = 0 THEN AtStart ELSE Walked(c, g[n - 1], q[n])]
  <2>1. g \in [0..L -> Walks] /\ g[0] = AtStart /\ \A n \in 1..L : g[n] = F[n][g[n - 1]]
    BY <1>5 DEF Solves
  <2>2. \A n \in 0..L : n # 0 => n \in 1..L /\ n - 1 \in 0..L
    BY <1>2
  <2>3. \A n \in 0..L : n # 0 => g[n - 1] \in Walks
    BY <2>1, <2>2
  <2>4. \A n \in 0..L : n # 0 => g[n] = Walked(c, g[n - 1], q[n])
    BY <2>1, <2>2, <2>3
  <2> HIDE DEF F
  <2> QED BY <2>1, <2>4
<1>7. walk = [n \in 0..L |-> IF n = 0 THEN AtStart ELSE Walked(c, walk[n - 1], q[n])]
  BY <1>6
<1> HIDE DEF walk
<1>8. walk[0] = AtStart /\ \A n \in 1..L : walk[n] = Walked(c, walk[n - 1], q[n])
  BY <1>2, <1>7
<1> QED BY <1>3, <1>8

\* A position that is the last of those reached.
LEMMA ReachIs ==
  ASSUME NEW n \in 0..Len(Sent), NEW S, 1..n \subseteq S, n + 1 \notin S
  PROVE  Reach(S) = n
<1> DEFINE T == {k \in 0..Len(Sent) : 1..k \subseteq S}
<1>1. Len(Sent) \in Nat
  BY FlowAssumption
<1>2. n \in T /\ T \subseteq 0..Len(Sent)
  OBVIOUS
<1>3. Max(T) \in T /\ \A y \in T : y <= Max(T)
  <2> HIDE DEF T
  <2> QED BY <1>1, <1>2, MaxIs
<1>4. Max(T) \in 0..Len(Sent) /\ n <= Max(T) /\ 1..Max(T) \subseteq S
  BY <1>2, <1>3
<1>5. Reach(S) = Max(T)
  BY DEF Reach
<1> HIDE DEF T
<1>6. n + 1 \notin 1..Max(T)
  BY <1>4
<1> QED BY <1>1, <1>4, <1>5, <1>6

\* What holds after n steps of the walk: out is the beginning of what was sent
\* and is covered; before a gap every piece passed ends in it, and after one no
\* piece has the next position.
WalkOK(c, q, L, w, n) ==
  /\ w \in Walks /\ Len(w.out) <= Len(Sent)
  /\ \A i \in 1..Len(w.out) : w.out[i] = Sent[i]
  /\ 1..Len(w.out) \subseteq Covered(Pieces(c))
  /\ ~w.gap => \A i \in 1..n : q[i] + Len(c.segments[q[i]]) <= Len(w.out)
  /\ w.gap => \A i \in 1..L : q[i] > Len(w.out) \/ q[i] + Len(c.segments[q[i]]) <= Len(w.out)

\* The piece at an offset covers its positions.
LEMMA PieceCovers ==
  ASSUME NEW c, NEW o \in Offsets(c)
  PROVE  (o + 1)..(o + Len(c.segments[o])) \subseteq Covered(Pieces(c))
<1> DEFINE p == Piece(o, c.segments[o])
<1>1. p \in Pieces(c) /\ p.off = o /\ p.data = c.segments[o]
  BY DEF Pieces, Piece
<1> HIDE DEF p
<1> QED BY <1>1 DEF Covered

\* A step of the walk.
LEMMA WalkStep ==
  ASSUME NEW c, CryptoOK(c), NEW q, NEW L \in Nat, q \in [1..L -> Offsets(c)],
         \A i, j \in 1..L : i < j => q[i] < q[j],
         NEW n \in 0..(L - 1), NEW w, WalkOK(c, q, L, w, n),
         NEW v, v = Walked(c, w, q[n + 1])
  PROVE  WalkOK(c, q, L, v, n + 1)
<1> DEFINE off == q[n + 1]
           seg == c.segments[off]
           want == Len(w.out)
<1>1. /\ n \in Nat /\ n + 1 \in 1..L /\ off \in Offsets(c) /\ 1..(n + 1) = 1..n \cup {n + 1}
  OBVIOUS
<1>2. /\ IsGenuine(off, seg) /\ seg # <<>>
      /\ off \in Nat /\ Len(seg) \in Nat /\ off + Len(seg) <= Len(Sent)
      /\ \A i \in 1..Len(seg) : seg[i] = Sent[off + i]
  BY <1>1 DEF CryptoOK, IsGenuine
<1>3. \A i \in 1..L : q[i] \in Nat /\ Len(c.segments[q[i]]) \in Nat
  BY DEF CryptoOK, IsGenuine
<1>4. /\ w \in Walks /\ want \in Nat /\ want <= Len(Sent) /\ w.gap \in BOOLEAN
      /\ \A i \in 1..want : w.out[i] = Sent[i]
      /\ 1..want \subseteq Covered(Pieces(c))
      /\ ~w.gap => \A i \in 1..n : q[i] + Len(c.segments[q[i]]) <= want
      /\ w.gap => \A i \in 1..L : q[i] > want \/ q[i] + Len(c.segments[q[i]]) <= want
  <2>1. w \in Walks
    BY DEF WalkOK
  <2>2. want \in Nat /\ w.gap \in BOOLEAN
    BY <2>1 DEF Walks
  <2> QED BY <2>1, <2>2, Zenon DEF WalkOK
<1>5. /\ v \in Walks
      /\ w.gap => v.gap /\ v.out = w.out
      /\ ~w.gap /\ off > want => v.gap /\ v.out = w.out
      /\ ~w.gap /\ ~(off > want) =>
           /\ ~v.gap
           /\ off + Len(seg) <= want => v.out = w.out
           /\ off + Len(seg) > want =>
                /\ Len(v.out) = off + Len(seg)
                /\ \A i \in 1..want : v.out[i] = w.out[i]
                /\ \A i \in (want + 1)..(off + Len(seg)) : v.out[i] = seg[i - off]
  <2>1. v = Walked(c, w, off) /\ seg = c.segments[off]
    OBVIOUS
  <2> HIDE DEF off, seg
  <2>2. IsGenuine(off, c.segments[off]) /\ c.segments[off] # <<>>
    BY <1>2, <2>1
  <2> QED BY <1>4, <2>1, <2>2, WalkedIs
<1>6. Len(Sent) \in Nat /\ v.gap \in BOOLEAN
  BY <1>5, FlowAssumption DEF Walks
<1> HIDE DEF off, seg, want
<1>7. CASE w.gap
  BY <1>4, <1>5, <1>7 DEF WalkOK, want
<1>8. CASE ~w.gap /\ off > want
  <2>1. ASSUME NEW i \in 1..L PROVE q[i] > want \/ q[i] + Len(c.segments[q[i]]) <= want
    <3>1. i \in 1..n \/ i = n + 1 \/ n + 1 < i
      BY <1>1
    <3>2. n + 1 < i => off < q[i]
      BY <1>1 DEF off
    <3> QED BY <1>2, <1>3, <1>4, <1>8, <3>1, <3>2, SMTT(30) DEF off
  <2> QED BY <1>4, <1>5, <1>8, <2>1 DEF WalkOK, want
<1>9. CASE ~w.gap /\ ~(off > want) /\ off + Len(seg) <= want
  <2>1. \A i \in 1..(n + 1) : q[i] + Len(c.segments[q[i]]) <= want
    BY <1>1, <1>4, <1>9 DEF off, seg
  <2> QED BY <1>4, <1>5, <1>9, <2>1 DEF WalkOK, want
<1>10. CASE ~w.gap /\ ~(off > want) /\ ~(off + Len(seg) <= want)
  <2> DEFINE end == off + Len(seg)
  <2>1. end \in Nat /\ end > want /\ off <= want /\ end <= Len(Sent)
    BY <1>2, <1>4, <1>10
  <2>2. /\ ~v.gap /\ Len(v.out) = end
        /\ \A i \in 1..want : v.out[i] = w.out[i]
        /\ \A i \in (want + 1)..end : v.out[i] = seg[i - off]
    BY <1>5, <1>10, <2>1
  <2>3. \A i \in 1..end : i \in 1..want \/ (i \in (want + 1)..end /\ i - off \in 1..Len(seg)
                                             /\ off + (i - off) = i /\ i \in (off + 1)..end)
    BY <1>2, <1>4, <2>1
  <2>4. \A i \in 1..end : v.out[i] = Sent[i]
    <3> HIDE DEF end
    <3> QED BY <1>2, <1>4, <2>2, <2>3
  <2>5. 1..end \subseteq Covered(Pieces(c))
    <3>1. (off + 1)..end \subseteq Covered(Pieces(c))
      BY <1>1, PieceCovers DEF seg
    <3> HIDE DEF end
    <3> QED BY <1>4, <2>3, <3>1
  <2>6. \A i \in 1..(n + 1) : q[i] + Len(c.segments[q[i]]) <= end
    <3>1. \A i \in 1..n : q[i] + Len(c.segments[q[i]]) <= end
      <4> HIDE DEF end
      <4>1. ASSUME NEW i \in 1..n PROVE q[i] + Len(c.segments[q[i]]) <= end
        <5>1. i \in 1..L
          BY <1>1
        <5>2. q[i] + Len(c.segments[q[i]]) <= want
          BY <1>4, <1>10
        <5>3. q[i] + Len(c.segments[q[i]]) \in Nat
          BY <1>3, <5>1, SMTT(30)
        <5> QED BY <1>4, <2>1, <5>2, <5>3
      <4> QED BY <4>1
    <3>2. q[n + 1] + Len(c.segments[q[n + 1]]) <= end
      BY <1>2 DEF off, seg
    <3> QED BY <1>1, <3>1, <3>2
  <2> HIDE DEF end
  <2> QED BY <1>5, <2>1, <2>2, <2>4, <2>5, <2>6 DEF WalkOK
<1> QED BY <1>4, <1>7, <1>8, <1>9, <1>10

\* prefix, of any cryptoStream that add can make: what was sent, up to the first
\* position that no piece has.
LEMMA PrefixIs ==
  ASSUME NEW c, CryptoOK(c), NEW p, p = Prefix(c)
  PROVE  /\ p \in Seq(Unit) /\ Len(p) \in 0..Len(Sent) /\ p = SubSeq(Sent, 1, Len(p))
         /\ Len(p) = Reach(Covered(Pieces(c)))
         /\ 1..Len(p) \subseteq Covered(Pieces(c)) /\ Len(p) + 1 \notin Covered(Pieces(c))
<1> DEFINE q == InOrder(Offsets(c))
           L == Cardinality(Offsets(c))
<1>1. IsFiniteSet(Offsets(c)) /\ Offsets(c) \subseteq Nat
  BY DEF CryptoOK, IsGenuine
<1>2. /\ L \in Nat /\ q \in [1..L -> Offsets(c)]
      /\ \A i, j \in 1..L : i < j => q[i] < q[j]
      /\ \A o \in Offsets(c) : \E i \in 1..L : q[i] = o
  BY <1>1, InOrderIs
<1>3. PICK walk : /\ walk[0] = AtStart
                  /\ \A n \in 1..L : walk[n] = Walked(c, walk[n - 1], q[n])
                  /\ Prefix(c) = walk[L].out
  BY PrefixWalks
<1> HIDE DEF q, L
<1> DEFINE N == {n \in 0..L : WalkOK(c, q, L, walk[n], n)}
<1>4. 0 \in N
  <2>1. AtStart \in Walks /\ AtStart.out = <<>> /\ AtStart.gap = FALSE
    BY DEF AtStart, Walks
  <2>2. Len(Sent) \in Nat
    BY FlowAssumption
  <2>3. WalkOK(c, q, L, AtStart, 0)
    BY <2>1, <2>2 DEF WalkOK
  <2> QED BY <1>2, <1>3, <2>3
<1>5. ASSUME NEW m \in 0..(L - 1), m \in N PROVE m + 1 \in N
  <2>1. m + 1 \in 1..L /\ (m + 1) - 1 = m /\ m + 1 \in 0..L
    BY <1>2
  <2>2. walk[m + 1] = Walked(c, walk[m], q[m + 1])
    BY <1>3, <2>1
  <2>3. WalkOK(c, q, L, walk[m + 1], m + 1)
    BY <1>2, <1>5, <2>2, WalkStep
  <2> QED BY <2>1, <2>3
<1>6. WalkOK(c, q, L, walk[L], L)
  <2>1. 0..L \subseteq N
    <3> HIDE DEF N
    <3> QED BY <1>2, <1>4, <1>5, InductionUpTo
  <2> QED BY <1>2, <2>1
<1>7. /\ p \in Seq(Unit) /\ Len(p) \in Nat /\ Len(p) <= Len(Sent)
      /\ \A i \in 1..Len(p) : p[i] = Sent[i]
      /\ 1..Len(p) \subseteq Covered(Pieces(c))
      /\ \A i \in 1..L : q[i] > Len(p) \/ q[i] + Len(c.segments[q[i]]) <= Len(p)
  BY <1>3, <1>6 DEF WalkOK, Walks
<1>8. p = SubSeq(Sent, 1, Len(p)) /\ Len(p) \in 0..Len(Sent)
  <2>1. Sent \in Seq(Unit) /\ Len(Sent) \in Nat
    BY FlowAssumption
  <2>2. Len(p) \in 0..Len(Sent)
    BY <1>7, <2>1
  <2> DEFINE s == SubSeq(Sent, 1, Len(p))
  <2>3. s \in Seq(Unit) /\ Len(s) = Len(p) /\ \A i \in 1..Len(p) : s[i] = Sent[i]
    BY <1>7, <2>1, <2>2
  <2> HIDE DEF s
  <2>4. p = s
    BY <1>7, <2>3, SeqEqual
  <2> QED BY <2>2, <2>4 DEF s
<1>9. Len(p) + 1 \notin Covered(Pieces(c))
  <2>1. SUFFICES ASSUME NEW o \in Offsets(c), Len(p) + 1 \in (o + 1)..(o + Len(c.segments[o]))
                 PROVE  FALSE
    BY DEF Covered, Pieces, Piece
  <2>2. PICK i \in 1..L : q[i] = o
    BY <1>2
  <2>3. o \in Nat /\ Len(c.segments[o]) \in Nat
    BY DEF CryptoOK, IsGenuine
  <2>4. o > Len(p) \/ o + Len(c.segments[o]) <= Len(p)
    BY <1>7, <2>2
  <2> QED BY <1>7, <2>1, <2>3, <2>4
<1>10. Len(p) = Reach(Covered(Pieces(c)))
  BY <1>7, <1>8, <1>9, ReachIs
<1> QED BY <1>7, <1>8, <1>9, <1>10

\* prefix grows with the pieces.
LEMMA PrefixMonotone ==
  ASSUME NEW c, CryptoOK(c), NEW d, CryptoOK(d), Pieces(c) \subseteq Pieces(d)
  PROVE  IsPrefix(Prefix(c), Prefix(d))
<1> DEFINE p == Prefix(c)
           r == Prefix(d)
<1>1. /\ p \in Seq(Unit) /\ Len(p) \in 0..Len(Sent) /\ p = SubSeq(Sent, 1, Len(p))
      /\ 1..Len(p) \subseteq Covered(Pieces(c))
  BY PrefixIs
<1>2. /\ r \in Seq(Unit) /\ Len(r) \in 0..Len(Sent) /\ r = SubSeq(Sent, 1, Len(r))
      /\ Len(r) + 1 \notin Covered(Pieces(d))
  BY PrefixIs
<1>3. Covered(Pieces(c)) \subseteq Covered(Pieces(d))
  BY DEF Covered
<1> HIDE DEF p, r
<1>4. Sent \in Seq(Unit) /\ Len(Sent) \in Nat /\ Len(p) \in Nat /\ Len(r) \in Nat
  BY <1>1, <1>2, FlowAssumption
<1>5. Len(p) <= Len(r)
  <2>1. Len(r) + 1 \notin 1..Len(p)
    BY <1>1, <1>2, <1>3
  <2> QED BY <1>4, <2>1
<1>6. SubSeq(p, 1, Len(p)) = SubSeq(r, 1, Len(p))
  <2>1. \A i \in 1..Len(p) : p[i] = Sent[i]
    <3>1. \A i \in 1..Len(p) : SubSeq(Sent, 1, Len(p))[i] = Sent[i]
      BY <1>1, <1>4
    <3> QED BY <1>1, <3>1
  <2>2. \A i \in 1..Len(r) : r[i] = Sent[i]
    <3>1. \A i \in 1..Len(r) : SubSeq(Sent, 1, Len(r))[i] = Sent[i]
      BY <1>2, <1>4
    <3> QED BY <1>2, <3>1
  <2> DEFINE a == SubSeq(p, 1, Len(p))
             b == SubSeq(r, 1, Len(p))
  <2>3. a \in Seq(Unit) /\ Len(a) = Len(p) /\ \A i \in 1..Len(p) : a[i] = p[i]
    BY <1>1, <1>4
  <2>4. b \in Seq(Unit) /\ Len(b) = Len(p) /\ \A i \in 1..Len(p) : b[i] = r[i]
    BY <1>2, <1>4, <1>5
  <2>5. \A i \in 1..Len(p) : i \in 1..Len(r)
    BY <1>4, <1>5
  <2> HIDE DEF a, b
  <2>6. a = b
    BY <2>1, <2>2, <2>3, <2>4, <2>5, SeqEqual
  <2> QED BY <2>6 DEF a, b
<1> QED BY <1>5, <1>6 DEF IsPrefix, p, r

(***************************************************************************)
(* The specification.                                                      *)
(***************************************************************************)

\* A packet that was not sealed with the keys of the connection is not opened.
LEMMA StrangeIgnored ==
  ASSUME NEW d \in Strange
  PROVE  ~Opens(d)
BY FlowAssumption DEF Opens

\* Every packet keeps CryptoOK and every piece.
LEMMA StepKeeps ==
  ASSUME CryptoOK(crypto), [Next]_flowVars
  PROVE  CryptoOK(crypto') /\ Pieces(crypto) \subseteq Pieces(crypto')
<1>1. ASSUME NEW payload \in Payloads, Receive(Genuine, payload)
      PROVE  CryptoOK(crypto') /\ Pieces(crypto) \subseteq Pieces(crypto')
  <2> DEFINE frames == CryptoFrames(payload)
  <2>1. Len(frames) \in Nat /\ \A i \in 1..Len(frames) : IsGenuine(frames[i].off, frames[i].data)
    BY FramesAre
  <2>2. Opens(Genuine)
    BY WellFormedOpens, FlowAssumption
  <2>3. crypto' = AddFrames(crypto, frames)
    BY <1>1, <2>2 DEF Receive
  <2> HIDE DEF frames
  <2> QED BY <2>1, <2>3, AddFramesKeeps
<1>2. ASSUME NEW d \in Strange, Receive(d, <<>>) PROVE crypto' = crypto
  BY <1>2, StrangeIgnored DEF Receive
<1>3. CASE UNCHANGED flowVars
  BY <1>3 DEF flowVars
<1> QED BY <1>1, <1>2, <1>3 DEF Next

\* The empty cryptoStream.
LEMMA EmptyOK == CryptoOK(EmptyCrypto) /\ Pieces(EmptyCrypto) = {}
<1>1. Offsets(EmptyCrypto) = {} /\ EmptyCrypto.total = 0
  BY DEF Offsets, EmptyCrypto
<1>2. Pieces(EmptyCrypto) = {}
  BY <1>1 DEF Pieces
<1>3. IsFiniteSet({}) /\ Cardinality({}) = 0
  BY FS_EmptySet
<1>4. Bytes({}) = 0
  BY <1>3, BytesType DEF Countable
<1>5. MaxCryptoBytes \in Nat /\ MaxCryptoFrames \in Nat
  BY CryptoAssumption
<1> HIDE DEF EmptyCrypto
<1> QED BY <1>1, <1>2, <1>3, <1>4, <1>5 DEF CryptoOK

\* CryptoOK holds always.
LEMMA CryptoAlwaysOK == Spec => []CryptoOK(crypto)
<1>1. Init => CryptoOK(crypto)
  BY EmptyOK DEF Init
<1>2. CryptoOK(crypto) /\ [Next]_flowVars => CryptoOK(crypto)'
  <2>1. CryptoOK(crypto)' <=> CryptoOK(crypto')
    BY DEF CryptoOK, Pieces, Offsets
  <2> QED BY <2>1, StepKeeps
<1> QED BY <1>1, <1>2, PTL DEF Spec

\* The limits hold for every message, every cut of it into frames and every
\* order, loss and repetition of packets: a direction of a flow never retains
\* more than MaxCryptoBytes bytes and MaxCryptoFrames pieces, and total, which add
\* relies on, is exact.
THEOREM HoldAlwaysBounded == Spec => []BoundedHold
<1>1. CryptoOK(crypto) => BoundedHold
  <2>1. Held = Pieces(crypto)
    BY DEF Held, Pieces, Piece
  <2>2. Bytes(Pieces(crypto)) = MapThenSumSet(LAMBDA f : Len(f.data), Held)
    BY <2>1 DEF Bytes
  <2> QED BY <2>2 DEF CryptoOK, BoundedHold
<1> QED BY <1>1, CryptoAlwaysOK, PTL

\* What prefix returns is what was sent, from its first byte up to the first one
\* that no piece has: no order, overlap or repetition of frames makes it wrong or
\* makes it stop early.
THEOREM PrefixAlwaysGenuine == Spec => []PrefixGenuine
<1>1. CryptoOK(crypto) => PrefixGenuine
  <2>1. Held = Pieces(crypto)
    BY DEF Held, Pieces, Piece
  <2> QED BY <2>1, PrefixIs DEF PrefixGenuine
<1> QED BY <1>1, CryptoAlwaysOK, PTL

\* A later packet only makes the prefix longer.
THEOREM PrefixOnlyGrows == Spec => PrefixGrows
<1>1. CryptoOK(crypto) /\ CryptoOK(crypto)' /\ [Next]_flowVars =>
        [IsPrefix(Prefix(crypto), Prefix(crypto'))]_flowVars
  <2>1. CryptoOK(crypto)' <=> CryptoOK(crypto')
    BY DEF CryptoOK, Pieces, Offsets
  <2> QED BY <2>1, StepKeeps, PrefixMonotone
<1> QED BY <1>1, CryptoAlwaysOK, PTL DEF Spec, PrefixGrows

(***************************************************************************)
(* NothingMissed: as long as what was seen is within the limits, all of it *)
(* that can matter is held.                                                *)
(***************************************************************************)
Frames(T) == IsFiniteSet(T) /\ \A f \in T : IsGenuine(f.off, f.data) /\ f = Piece(f.off, f.data)
OffsetsOf(T) == {f.off : f \in T}
Within(T) ==
  /\ Bytes(T) <= MaxCryptoBytes /\ Cardinality(OffsetsOf(T)) <= MaxCryptoFrames
  /\ \A f, g \in T : f.off = g.off /\ f.data # <<>> /\ g.data # <<>> => f = g
Wanted(T) == {f \in T : f.data # <<>> /\ ~(f.off > MaxCryptoBytes)}

\* Frames are counted, and so are their offsets.
LEMMA FramesCountable ==
  ASSUME NEW T, Frames(T)
  PROVE  /\ Countable(T) /\ IsFiniteSet(OffsetsOf(T))
         /\ Bytes(T) \in Nat /\ Cardinality(OffsetsOf(T)) \in Nat
<1>1. Countable(T)
  BY DEF Frames, Countable, IsGenuine
<1>2. IsFiniteSet(OffsetsOf(T))
  <2> DEFINE f == [g \in T |-> g.off]
  <2>1. /\ \A g \in T : f[g] \in OffsetsOf(T)
        /\ \A o \in OffsetsOf(T) : \E g \in T : f[g] = o
    BY DEF OffsetsOf
  <2> HIDE DEF f
  <2> QED BY <1>1, <2>1, FiniteImage DEF Countable
<1> QED BY <1>1, <1>2, BytesType, FS_CardinalityType

\* What was within the limits was so earlier.
LEMMA WithinBefore ==
  ASSUME NEW T, Frames(T), Within(T), NEW S, S \subseteq T
  PROVE  Frames(S) /\ Within(S)
<1>1. Frames(S)
  BY FS_Subset DEF Frames
<1>2. /\ Countable(T) /\ IsFiniteSet(OffsetsOf(T))
      /\ Bytes(T) \in Nat /\ Cardinality(OffsetsOf(T)) \in Nat
  BY FramesCountable
<1>3. Bytes(S) \in Nat /\ Cardinality(OffsetsOf(S)) \in Nat
  BY <1>1, FramesCountable
<1>4. Bytes(S) <= Bytes(T)
  BY <1>2, BytesPart
<1>5. Cardinality(OffsetsOf(S)) <= Cardinality(OffsetsOf(T))
  <2>1. OffsetsOf(S) \subseteq OffsetsOf(T)
    BY DEF OffsetsOf
  <2> QED BY <1>2, <2>1, FS_Subset
<1>6. MaxCryptoBytes \in Nat /\ MaxCryptoFrames \in Nat
  BY CryptoAssumption
<1>7. Bytes(S) <= MaxCryptoBytes /\ Cardinality(OffsetsOf(S)) <= MaxCryptoFrames
  BY <1>2, <1>3, <1>4, <1>5, <1>6 DEF Within
<1> QED BY <1>1, <1>7 DEF Within

\* add keeps a whole frame, or has no use for it, within the limits.
LEMMA AddWhole ==
  ASSUME NEW c, CryptoOK(c), NEW T, Frames(T), Within(T), NEW S, S \subseteq T,
         Pieces(c) = Wanted(S), NEW f \in T, NEW a, a = Add(c, f.off, f.data),
         NEW R, R = S \cup {f}
  PROVE  Pieces(a) = Wanted(R)
<1>1. /\ IsGenuine(f.off, f.data) /\ f = Piece(f.off, f.data)
      /\ f.off \in Nat /\ f.data \in Seq(Unit) /\ Len(f.data) \in Nat
  BY DEF Frames, IsGenuine
<1>2. c.total \in Nat /\ Countable(Pieces(c)) /\ MaxCryptoBytes \in Nat /\ MaxCryptoFrames \in Nat
  BY PiecesCountable, CryptoAssumption
<1>3. CASE f.data = <<>> \/ f.off > MaxCryptoBytes
  <2>1. a = c
    BY <1>3 DEF Add, Refuses
  <2>2. Wanted(R) = Wanted(S)
    BY <1>3 DEF Wanted
  <2> QED BY <2>1, <2>2
<1>4. CASE f.data # <<>> /\ ~(f.off > MaxCryptoBytes) /\ f.off \in Offsets(c)
  <2>1. a = c
    BY <1>4 DEF Add, Refuses
  <2> DEFINE g == Piece(f.off, c.segments[f.off])
  <2>2. g \in Pieces(c) /\ g.off = f.off
    BY <1>4 DEF Pieces, Piece
  <2> HIDE DEF g
  <2>3. g \in S /\ g.data # <<>>
    BY <2>2 DEF Wanted
  <2>4. g = f
    BY <1>4, <2>2, <2>3 DEF Within
  <2>5. Wanted(R) = Wanted(S)
    BY <2>3, <2>4
  <2> QED BY <2>1, <2>5
<1>5. CASE f.data # <<>> /\ ~(f.off > MaxCryptoBytes) /\ f.off \notin Offsets(c)
  <2> DEFINE W == Pieces(c) \cup {f}
  <2>1. f \notin Pieces(c)
    BY <1>5 DEF Pieces, Piece
  <2>2. W \subseteq T /\ Wanted(R) = W
    BY <1>5 DEF Wanted
  <2>3. Bytes(W) = Len(f.data) + c.total
    <3>1. Bytes(Pieces(c)) = c.total
      BY DEF CryptoOK
    <3> QED BY <1>1, <1>2, <2>1, <3>1, BytesAdd
  <2>4. Frames(W) /\ Within(W)
    <3> HIDE DEF W
    <3> QED BY <2>2, WithinBefore
  <2>5. c.total + Len(f.data) <= MaxCryptoBytes /\ Len(f.data) > 0
    <3>1. Len(f.data) > 0
      BY <1>1, <1>5
    <3>2. Bytes(W) <= MaxCryptoBytes
      BY <2>4 DEF Within
    <3> HIDE DEF W
    <3> QED BY <1>1, <1>2, <2>3, <3>1, <3>2
  <2>6. Cardinality(Offsets(c)) < MaxCryptoFrames
    <3>1. OffsetsOf(W) = Offsets(c) \cup {f.off}
      <4>1. /\ \A g \in Pieces(c) : g.off \in Offsets(c)
            /\ \A o \in Offsets(c) : \E g \in Pieces(c) : g.off = o
        <5>1. \A o \in Offsets(c) : Piece(o, c.segments[o]) \in Pieces(c)
          BY DEF Pieces
        <5>2. \A o \in Offsets(c) : Piece(o, c.segments[o]).off = o
          BY DEF Piece
        <5>3. \A g \in Pieces(c) : g.off \in Offsets(c)
          BY <5>2 DEF Pieces
        <5> QED BY <5>1, <5>2, <5>3
      <4> QED BY <4>1 DEF OffsetsOf
    <3>2. IsFiniteSet(Offsets(c)) /\ Cardinality(Offsets(c)) \in Nat
      BY FS_CardinalityType DEF CryptoOK
    <3>3. Cardinality(OffsetsOf(W)) = Cardinality(Offsets(c)) + 1
      BY <1>5, <3>1, <3>2, FS_AddElement
    <3>4. Cardinality(OffsetsOf(W)) <= MaxCryptoFrames
      BY <2>4 DEF Within
    <3> HIDE DEF W
    <3> QED BY <1>2, <3>2, <3>3, <3>4
  <2>7. ~Refuses(c, f.off, f.data) /\ c.total < MaxCryptoBytes
    <3>1. ~(c.total >= MaxCryptoBytes) /\ c.total < MaxCryptoBytes
      BY <1>1, <1>2, <2>5
    <3>2. ~(Cardinality(Offsets(c)) >= MaxCryptoFrames)
      <4>1. Cardinality(Offsets(c)) \in Nat
        BY FS_CardinalityType DEF CryptoOK
      <4> QED BY <1>2, <2>6, <4>1
    <3> QED BY <1>5, <3>1, <3>2 DEF Refuses
  <2>8. Kept(c, f.data) = f.data
    BY <1>1, <1>2, <1>5, <2>5, <2>7, KeptIs
  <2>9. Pieces(a) = Pieces(c) \cup {Piece(f.off, f.data)}
    BY <1>1, <2>7, <2>8, AddedIs
  <2> QED BY <1>1, <2>2, <2>9
<1> QED BY <1>3, <1>4, <1>5

\* The frames of a packet one after the other.
LEMMA AddFramesWhole ==
  ASSUME NEW c, CryptoOK(c), NEW T, Frames(T), Within(T), NEW S, S \subseteq T,
         Pieces(c) = Wanted(S), NEW frames, Len(frames) \in Nat,
         NEW new, new = {frames[i] : i \in 1..Len(frames)}, T = S \cup new
  PROVE  Pieces(AddFrames(c, frames)) = Wanted(T)
<1> DEFINE L == Len(frames)
           Seen(n) == S \cup {frames[i] : i \in 1..n}
<1>1. PICK added : /\ added[0] = c
                   /\ \A n \in 1..L : added[n] = Add(added[n - 1], frames[n].off, frames[n].data)
                   /\ AddFrames(c, frames) = added[L]
  BY AddFramesIs
<1> DEFINE P(n) == CryptoOK(added[n]) /\ Pieces(added[n]) = Wanted(Seen(n))
           N == {n \in 0..L : P(n)}
<1>2. P(0)
  <2>1. Seen(0) = S
    OBVIOUS
  <2> HIDE DEF Seen
  <2> QED BY <1>1, <2>1
<1>3. ASSUME NEW m \in 0..(L - 1), P(m) PROVE P(m + 1)
  <2>1. m + 1 \in 1..L /\ (m + 1) - 1 = m /\ 1..(m + 1) = 1..m \cup {m + 1}
    OBVIOUS
  <2>2. frames[m + 1] \in T /\ Seen(m) \subseteq T /\ Seen(m + 1) = Seen(m) \cup {frames[m + 1]}
    <3>1. \A i \in 1..m : i \in 1..L
      OBVIOUS
    <3> QED BY <2>1, <3>1
  <2>3. added[m + 1] = Add(added[m], frames[m + 1].off, frames[m + 1].data)
    BY <1>1, <2>1
  <2>4. IsGenuine(frames[m + 1].off, frames[m + 1].data)
    BY <2>2 DEF Frames
  <2> HIDE DEF Seen
  <2>5. CryptoOK(added[m + 1])
    BY <1>3, <2>3, <2>4, AddKeeps
  <2>6. Pieces(added[m + 1]) = Wanted(Seen(m + 1))
    BY <1>3, <2>2, <2>3, AddWhole
  <2> QED BY <2>5, <2>6
<1>4. P(L)
  <2> HIDE DEF P
  <2>1. 0 \in N /\ \A m \in 0..(L - 1) : m \in N => m + 1 \in N
    BY <1>2, <1>3
  <2> HIDE DEF N
  <2>2. 0..L \subseteq N
    BY <2>1, InductionUpTo
  <2> QED BY <2>2 DEF N
<1>5. Seen(L) = T
  OBVIOUS
<1> QED BY <1>1, <1>4, <1>5

\* Frames cover no more positions than they have bytes.
LEMMA CoversNoMore ==
  ASSUME NEW T, Frames(T)
  PROVE  IsFiniteSet(Covered(T)) /\ Cardinality(Covered(T)) <= Bytes(T)
<1> DEFINE OK(S) == IsFiniteSet(Covered(S)) /\ Cardinality(Covered(S)) <= Bytes(S)
           F == {S \in SUBSET T : OK(S)}
<1>1. Countable(T) /\ IsFiniteSet(T)
  BY FramesCountable DEF Frames
<1>2. {} \in F
  <2>1. Covered({}) = {} /\ IsFiniteSet({}) /\ Cardinality({}) = 0
    BY FS_EmptySet DEF Covered
  <2>2. Bytes({}) = 0
    BY <2>1, BytesType DEF Countable
  <2> QED BY <2>1, <2>2
<1>3. ASSUME NEW S \in SUBSET T, S \in F, NEW x \in T, x \notin S PROVE S \cup {x} \in F
  <2> DEFINE I == (x.off + 1)..(x.off + Len(x.data))
             U == Covered(S)
             R == S \cup {x}
  <2>1. x.off \in Nat /\ Len(x.data) \in Nat
    BY DEF Frames, IsGenuine
  <2>2. IsFiniteSet(I) /\ Cardinality(I) = Len(x.data)
    <3>1. x.off + 1 \in Int /\ x.off + Len(x.data) \in Int
      BY <2>1
    <3>2. IsFiniteSet(I) /\ Cardinality(I) =
            IF x.off + 1 > x.off + Len(x.data) THEN 0 ELSE (x.off + Len(x.data)) - (x.off + 1) + 1
      BY <3>1, FS_Interval
    <3> QED BY <2>1, <3>2
  <2>3. Covered(R) = U \cup I
    BY DEF Covered
  <2>4. Countable(S)
    BY <1>1, BytesPart
  <2>5. Bytes(R) = Len(x.data) + Bytes(S) /\ Bytes(S) \in Nat
    BY <1>3, <2>1, <2>4, BytesAdd, BytesType
  <2>6. IsFiniteSet(U) /\ Cardinality(U) <= Bytes(S) /\ Cardinality(U) \in Nat
    BY <1>3, FS_CardinalityType
  <2> HIDE DEF U, I, R
  <2>7. /\ IsFiniteSet(U \cup I)
        /\ Cardinality(U \cup I) = Cardinality(U) + Cardinality(I) - Cardinality(U \cap I)
    BY <2>2, <2>6, FS_Union
  <2>8. Cardinality(U \cap I) \in Nat
    <3>1. IsFiniteSet(U \cap I)
      BY <2>6, FS_Subset
    <3> QED BY <3>1, FS_CardinalityType
  <2>9. Cardinality(Covered(R)) <= Bytes(R)
    BY <2>1, <2>2, <2>3, <2>5, <2>6, <2>7, <2>8
  <2>10. OK(R)
    BY <2>3, <2>7, <2>9
  <2> HIDE DEF OK
  <2> QED BY <2>10 DEF R
<1>4. T \in F
  <2> HIDE DEF F
  <2> QED BY <1>1, <1>2, <1>3, InductionOverParts
<1> QED BY <1>4

\* What was not wanted does not matter: a frame beyond MaxCryptoBytes is out of
\* reach of bytes that are not more.
LEMMA WantedReach ==
  ASSUME NEW T, Frames(T), Within(T), NEW n \in 0..Len(Sent),
         1..n \subseteq Covered(Wanted(T)), n + 1 \notin Covered(Wanted(T))
  PROVE  Reach(Covered(T)) = n
<1>1. n \in Nat /\ MaxCryptoBytes \in Nat
  BY CryptoAssumption, FlowAssumption
<1>2. Covered(Wanted(T)) \subseteq Covered(T)
  BY DEF Covered, Wanted
<1>3. n <= MaxCryptoBytes
  <2> DEFINE W == Wanted(T)
  <2>1. Frames(W) /\ Within(W)
    BY WithinBefore DEF Wanted
  <2> HIDE DEF W
  <2>2. IsFiniteSet(Covered(W)) /\ Cardinality(Covered(W)) <= Bytes(W)
    BY <2>1, CoversNoMore
  <2>3. IsFiniteSet(1..n) /\ Cardinality(1..n) = n
    BY <1>1, FS_Interval
  <2>4. Cardinality(1..n) <= Cardinality(Covered(W))
    BY <2>2, FS_Subset DEF W
  <2>5. Bytes(W) <= MaxCryptoBytes /\ Bytes(W) \in Nat /\ Cardinality(Covered(W)) \in Nat
    BY <2>1, <2>2, FramesCountable, FS_CardinalityType DEF Within
  <2> QED BY <1>1, <2>2, <2>3, <2>4, <2>5
<1>4. n + 1 \notin Covered(T)
  <2>1. SUFFICES ASSUME NEW f \in T, n + 1 \in (f.off + 1)..(f.off + Len(f.data)) PROVE FALSE
    BY DEF Covered
  <2>2. f.off \in Nat /\ f.data \in Seq(Unit) /\ Len(f.data) \in Nat
    BY DEF Frames, IsGenuine
  <2>3. f \notin Wanted(T)
    BY <2>1 DEF Covered
  <2>4. f.data # <<>>
    <3>1. Len(f.data) > 0
      BY <1>1, <2>1, <2>2
    <3> QED BY <3>1
  <2>5. f.off > MaxCryptoBytes
    BY <2>3, <2>4 DEF Wanted
  <2> QED BY <1>1, <1>3, <2>1, <2>2, <2>5
<1> QED BY <1>2, <1>4, ReachIs

\* The frames seen are those of the sender, and while they are within the limits
\* what is held is what was wanted of them.
FlowOK ==
  /\ CryptoOK(crypto) /\ Frames(taken)
  /\ Within(taken) => Pieces(crypto) = Wanted(taken)

\* Initially, nothing was seen.
LEMMA FlowInit == Init => FlowOK
<1> SUFFICES ASSUME Init PROVE FlowOK
  OBVIOUS
<1>1. CryptoOK(crypto) /\ Pieces(crypto) = {} /\ taken = {}
  BY EmptyOK DEF Init
<1>2. Frames({}) /\ Wanted({}) = {}
  BY FS_EmptySet DEF Frames, Wanted
<1> QED BY <1>1, <1>2 DEF FlowOK

\* Every packet keeps FlowOK.
LEMMA FlowStep ==
  ASSUME FlowOK, [Next]_flowVars
  PROVE  FlowOK'
<1>1. CryptoOK(crypto')
  BY StepKeeps DEF FlowOK
<1>2. FlowOK' <=> /\ CryptoOK(crypto') /\ Frames(taken')
                  /\ Within(taken') => Pieces(crypto') = Wanted(taken')
  BY DEF FlowOK
<1>3. ASSUME NEW payload \in Payloads, Receive(Genuine, payload) PROVE FlowOK'
  <2> DEFINE frames == CryptoFrames(payload)
             new == Offered(payload)
             T == taken \cup new
  <2>1. /\ Len(frames) \in Nat /\ {frames[i] : i \in 1..Len(frames)} = new
        /\ \A i \in 1..Len(frames) : IsGenuine(frames[i].off, frames[i].data)
    BY FramesAre
  <2>2. crypto' = AddFrames(crypto, frames) /\ taken' = T
    BY <1>3, WellFormedOpens, FlowAssumption DEF Receive
  <2>3. \A f \in new : f = Piece(f.off, f.data)
    BY DEF Offered, Piece
  <2> HIDE DEF frames, new
  <2>4. Frames(T)
    <3>1. IsFiniteSet(new)
      <4>1. IsFiniteSet(1..Len(frames))
        BY <2>1, FS_Interval
      <4>2. /\ \A i \in 1..Len(frames) : frames[i] \in new
            /\ \A f \in new : \E i \in 1..Len(frames) : frames[i] = f
        BY <2>1
      <4> QED BY <4>1, <4>2, FiniteImage
    <3>2. IsFiniteSet(taken)
      BY DEF FlowOK, Frames
    <3>3. IsFiniteSet(T)
      BY <3>1, <3>2, FS_Union
    <3>4. \A f \in new : IsGenuine(f.off, f.data)
      BY <2>1
    <3> QED BY <2>3, <3>3, <3>4 DEF FlowOK, Frames
  <2>5. ASSUME Within(T) PROVE Pieces(AddFrames(crypto, frames)) = Wanted(T)
    <3>1. Pieces(crypto) = Wanted(taken) /\ CryptoOK(crypto)
      <4>1. Within(taken)
        BY <2>4, <2>5, WithinBefore
      <4> QED BY <4>1 DEF FlowOK
    <3>2. taken \subseteq T /\ T = taken \cup new
      OBVIOUS
    <3> HIDE DEF T
    <3> QED BY <2>1, <2>4, <2>5, <3>1, <3>2, AddFramesWhole
  <2> HIDE DEF T
  <2> QED BY <1>1, <1>2, <2>2, <2>4, <2>5
<1>4. ASSUME NEW d \in Strange, Receive(d, <<>>) PROVE FlowOK'
  <2>1. crypto' = crypto
    BY <1>4, StrangeIgnored DEF Receive
  <2>2. taken' = taken
    BY <1>4, FlowAssumption DEF Receive, WellFormed
  <2> QED BY <1>2, <2>1, <2>2 DEF FlowOK
<1>5. CASE UNCHANGED flowVars
  BY <1>2, <1>5 DEF FlowOK, flowVars
<1> QED BY <1>3, <1>4, <1>5 DEF Next

\* Within the limits nothing that was on the wire is missing from the prefix:
\* with no two different frames at one offset, and not more bytes and offsets
\* than may be retained, prefix reaches as far as the frames seen reach
\* together, in whatever order and however often they came, also those that add
\* refuses because they begin beyond MaxCryptoBytes.
THEOREM NothingEverMissed == Spec => []NothingMissed
<1>1. FlowOK => NothingMissed
  <2>1. SUFFICES ASSUME FlowOK,
                        ~(Bytes(taken) > MaxCryptoBytes),
                        ~(Cardinality({f.off : f \in taken}) > MaxCryptoFrames),
                        ~\E f, g \in taken : f # g /\ f.off = g.off /\ f.data # <<>> /\ g.data # <<>>
                 PROVE  Len(Prefix(crypto)) = Reach(Covered(taken))
    BY DEF NothingMissed, Bytes
  <2>2. CryptoOK(crypto) /\ Frames(taken) /\ (Within(taken) => Pieces(crypto) = Wanted(taken))
    BY <2>1 DEF FlowOK
  <2>3. Bytes(taken) \in Nat /\ Cardinality(OffsetsOf(taken)) \in Nat
    BY <2>2, FramesCountable
  <2>4. MaxCryptoBytes \in Nat /\ MaxCryptoFrames \in Nat
    BY CryptoAssumption
  <2>5. Bytes(taken) <= MaxCryptoBytes /\ Cardinality(OffsetsOf(taken)) <= MaxCryptoFrames
    <3>1. ~(Cardinality(OffsetsOf(taken)) > MaxCryptoFrames)
      BY <2>1 DEF OffsetsOf
    <3> QED BY <2>1, <2>3, <2>4, <3>1
  <2>6. Within(taken)
    BY <2>1, <2>5 DEF Within
  <2> DEFINE n == Len(Prefix(crypto))
  <2>7. /\ n \in 0..Len(Sent)
        /\ 1..n \subseteq Covered(Pieces(crypto)) /\ n + 1 \notin Covered(Pieces(crypto))
    BY <2>2, PrefixIs
  <2> HIDE DEF n
  <2>8. Reach(Covered(taken)) = n
    BY <2>2, <2>6, <2>7, WantedReach
  <2> QED BY <2>8 DEF n
<1>2. FlowOK /\ [Next]_flowVars => FlowOK'
  BY FlowStep
<1> QED BY <1>1, <1>2, FlowInit, PTL DEF Spec

=============================================================================
