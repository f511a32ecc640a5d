---------------------------- MODULE MCAssembler ----------------------------
(***************************************************************************)
(* Small instances of Assembler for TLC.                                   *)
(***************************************************************************)
EXTENDS Assembler

CONSTANTS c1, c2, q1, q2

\* Four-tuples of one kind are interchangeable.
Symmetry == Permutations({c1, c2}) \cup Permutations({q1, q2})

OnlyLive == {TRUE}
BothModes == BOOLEAN

NoConns == {}
OneConn == {c1}
TwoConns == {c1, c2}
OneTuple == {q1}
TwoTuples == {q1, q2}

\* Segments for the content run: whole and fragmented ClientHellos, one that
\* does not parse, non-TLS bytes.
RichClientSegs == {<<"ch">>, <<"ch_head">>, <<"ch_tail">>, <<"chx">>, <<"junk">>}

\* A TLS 1.3 answer, a TLS 1.2 flight in one piece and in several, a
\* HelloRetryRequest, a fragmented ServerHello, an oversized record, non-TLS
\* bytes.
RichServerSegs ==
  {<<"sh13", "app">>, <<"sh12", "cert">>, <<"sh12", "shd">>, <<"ske", "shd">>,
   <<"hrr">>, <<"sh12_head">>, <<"sh12_tail">>, <<"big">>, <<"junk">>}

PlainClientSegs == {<<"ch">>, <<"junk">>}
PlainServerSegs == {<<"sh13">>, <<"junk">>}

\* With room for a second segment after the hellos; bytes that are no TLS come
\* in one piece, which keeps the instance small.
RepeatedClientSegs == {<<"ch">>, <<"junk", "junk">>}
RepeatedServerSegs == {<<"sh13">>, <<"junk", "junk">>}

\* The Initials of one QUIC connection with original connection ID d1: a
\* ClientHello in two CRYPTO frames over two packets, the same in one packet,
\* the server's answer, and a client Initial after a Retry changed the ID.
Fr(off, data) == [off |-> off, data |-> data]
Pk(from, dcid, keys, frames) == [from |-> from, dcid |-> dcid, keys |-> keys, frames |-> frames]

ClientFirst == Pk("client", "d1", "d1", <<Fr(0, <<"ch_head">>)>>)
ClientSecond == Pk("client", "d1", "d1", <<Fr(1, <<"ch_tail">>)>>)
ClientWhole == Pk("client", "d1", "d1", <<Fr(1, <<"ch_tail">>), Fr(0, <<"ch_head">>)>>)
ClientLater == Pk("client", "s1", "d1", <<>>)
ClientRetried == Pk("client", "d2", "d2", <<Fr(0, <<"ch">>)>>)
ServerAnswer == Pk("server", "k1", "d1", <<Fr(0, <<"sh13">>)>>)
ServerRetry == Pk("server", "k1", "d1", <<Fr(0, <<"hrr">>)>>)

AllDCIDs == {"d1", "d2", "k1", "s1"}
RichInitials ==
  {ClientFirst, ClientSecond, ClientWhole, ClientLater, ClientRetried, ServerAnswer, ServerRetry}
OneInitial == {ClientWhole}
NoInitials == {}

=============================================================================
