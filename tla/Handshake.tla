----------------------------- MODULE Handshake -----------------------------
(***************************************************************************)
(* What the assembler learns from a captured byte stream: the record layer *)
(* and handshake scan of internal/tlsparse/record.go, as pure operators.   *)
(*                                                                         *)
(* A byte stream is a sequence of units.  A unit stands for at least       *)
(* recordHeaderLen bytes and is a whole handshake message in its record, a *)
(* head or a tail of a fragmented message, or a record that carries no     *)
(* handshake content.  The bodies of messages are abstracted to what the   *)
(* assembler and the inventory tell apart.                                 *)
(***************************************************************************)
EXTENDS Naturals, FiniteSets, SequencesExt

\* Whole messages.  "chx" and "shx" are a ClientHello and a ServerHello whose
\* body does not parse; "hrr" is a ServerHello with the HelloRetryRequest
\* random; "sh12" and "sh13" negotiate TLS 1.2 and TLS 1.3.
Messages == {"ch", "chx", "sh12", "sh13", "shx", "hrr", "cert", "ske", "shd"}

\* Fragmented messages: the head holds the record and message headers, the
\* tail the rest of the body.
Heads == {"ch_head", "sh12_head"}
TailOf == [ch_head |-> "ch_tail", sh12_head |-> "sh12_tail"]
Tails == {"ch_tail", "sh12_tail"}
Whole == [ch_tail |-> "ch", sh12_tail |-> "sh12"]

\* "ccs" is a ChangeCipherSpec or Alert record, "app" an application data
\* record, "big" a record header whose length exceeds maxRecordPayload, and
\* "junk" bytes that are not TLS.
Unit == Messages \cup Heads \cup Tails \cup {"ccs", "app", "big", "junk"}

(***************************************************************************)
(* HandshakeMessages.  The scan stops at a record that is neither          *)
(* handshake nor interleaved, and inside a message whose rest is missing:  *)
(* its length swallows whatever follows.                                   *)
(***************************************************************************)
ScanPasses(buf, k) ==
  \/ buf[k] \in Messages \cup {"ccs"}
  \/ buf[k] \in Heads /\ k < Len(buf) /\ buf[k + 1] = TailOf[buf[k]]
  \/ buf[k] \in Tails /\ k > 1 /\ buf[k - 1] \in Heads /\ TailOf[buf[k - 1]] = buf[k]

\* The units the scan gets through before it stops.
Scanned(buf) == {k \in DOMAIN buf : \A j \in 1..k : ScanPasses(buf, j)}

\* ErrNotTLS: the first record is not a handshake record, or the scan reaches
\* a record with an impossible length.
NotTLS(buf) ==
  /\ buf # <<>>
  /\ \/ buf[1] \notin Messages \cup Heads
     \/ \E k \in DOMAIN buf : buf[k] = "big" /\ \A j \in 1..(k - 1) : ScanPasses(buf, j)

\* The message that unit k completes, if any.
MessageAt(buf, k) == IF buf[k] \in Tails THEN Whole[buf[k]] ELSE buf[k]

\* splitMessages: where the messages of the given types end in the stream.
Ends(buf, types) == {k \in Scanned(buf) : MessageAt(buf, k) \in types}

\* Whether the body of a hello decodes: ParseClientHello, ParseServerHello.
ParseClientHello(m) == m = "ch"
ParseServerHello(m) == m # "shx"

\* findClientHelloIn: the first ClientHello decides, whether it parses or not.
FindClientHelloRaw(buf) ==
  LET hellos == Ends(buf, {"ch", "chx"})
  IN  hellos # {} /\ ParseClientHello(MessageAt(buf, Min(hellos)))

FindClientHello(buf) == ~NotTLS(buf) /\ FindClientHelloRaw(buf)

\* What FindServerHello returns: kind "none" stands for nil or an error, group
\* and cert say whether a group and a certificate chain were read.
NoServer == [kind |-> "none", group |-> FALSE, cert |-> FALSE, flightComplete |-> FALSE]
Retry == [NoServer EXCEPT !.kind = "hrr", !.group = TRUE]
Server == [kind : {"none", "hrr", "sh12", "sh13"},
           group : BOOLEAN, cert : BOOLEAN, flightComplete : BOOLEAN]

\* The last real ServerHello, enriched by the messages that follow it.
Enriched(buf, last) ==
  LET tls13 == MessageAt(buf, last) = "sh13"
      follows(m) == \E k \in Ends(buf, {m}) : k > last
  IN  [kind |-> IF tls13 THEN "sh13" ELSE "sh12",
       group |-> tls13 \/ follows("ske"),
       cert |-> follows("cert"),
       flightComplete |-> tls13 \/ Ends(buf, {"shd"}) # {}]

FindServerHelloRaw(buf) ==
  LET hellos == Ends(buf, {"sh12", "sh13", "hrr", "shx"})
      reals == Ends(buf, {"sh12", "sh13"})
  IN  IF hellos = {} \/ ~ParseServerHello(MessageAt(buf, Min(hellos))) THEN NoServer
      ELSE IF reals # {} THEN Enriched(buf, Max(reals))
      ELSE Retry

FindServerHello(buf) == IF NotTLS(buf) THEN NoServer ELSE FindServerHelloRaw(buf)

=============================================================================
