------------------------------ MODULE Analysis ------------------------------
(***************************************************************************)
(* internal/inventory, Analyze: a reported flow becomes a record with its  *)
(* post-quantum grade and its findings.                                    *)
(*                                                                         *)
(* A flow holds a decoded ClientHello (hello), a decoded ServerHello       *)
(* (server) that is meaningful if observed, and the certificates of a TLS  *)
(* 1.2 server.  In a record, -1 is an empty version or suite.              *)
(***************************************************************************)
EXTENDS Hello

\* severityRank; the zero value of an Aggregate's severity ranks as info.
Rank == [none |-> 0, info |-> 0, low |-> 1, medium |-> 2, high |-> 3, critical |-> 4]

TLS12 == 771

AnyPQ(groups) == \E i \in DOMAIN groups : PostQuantum(groups[i])

\* The group the server named, 0 if it named none or was not captured.
SelectedGroup(f) == IF f.observed THEN f.server.group ELSE 0

\* pqStatus: without a group selected, the client's strongest claim.
PQStatus(f) ==
  IF PostQuantum(SelectedGroup(f)) THEN "post_quantum"
  ELSE IF AnyPQ(f.hello.shares) THEN "offered_not_selected"
  ELSE IF AnyPQ(f.hello.groups) THEN "advertised_only"
  ELSE IF SelectedGroup(f) # 0 \/ f.hello.groups # <<>> THEN "classical"
  ELSE "unknown"

When(cond, id, sev) == IF cond THEN <<[id |-> id, sev |-> sev]>> ELSE <<>>

\* The negotiated version if the server was captured, else the offered one.
JudgedVersion(f) ==
  IF f.observed THEN NegotiatedVersion(f.server) ELSE OfferedVersion(f.hello)

\* The ciphers that findings calls broken.
Broken(encryption) ==
  \/ encryption # <<>> /\ encryption[1] = "RC4"
  \/ "DES40" \in Words(encryption)
  \/ encryption \in {<<"DES", "CBC">>, <<"RC2", "CBC", "40">>}

\* The cipher suite's findings, in the order of the code.
CipherFindings(c) ==
     When(~c.known, "unknown_cipher", "info")
  \o When(c.known /\ c.anonymous, "anonymous_key_exchange", "critical")
  \o When(c.known /\ ~c.anonymous /\ c.export, "export_cipher", "critical")
  \o When("NULL" \in Words(c.encryption), "null_encryption", "critical")
  \o When(Broken(c.encryption), "broken_cipher", "critical")
  \o When(c.encryption # <<>> /\ c.encryption[1] = "3DES", "weak_cipher", "high")
  \o When(c.mac = "MD5", "weak_cipher", "high")
  \o When(c.mac = "SHA", "sha1_signature", "medium")
  \o When(c.known /\ ~c.forwardSecrecy /\ ~c.anonymous /\ ~c.signalling,
          "no_forward_secrecy", "high")

\* The findings of the i-th certificate of a chain.
CertFindings(certs, i) ==
     When(certs[i].weakKey, "weak_certificate_key", "high")
  \o When(i = 1 /\ certs[i].expired, "certificate_expired", "medium")
  \o When(certs[i].sha1 /\ ~certs[i].selfSigned, "certificate_sha1_signature", "high")

\* The loop over the chain.
ChainFindings(certs) ==
  LET found[n \in 0..Len(certs)] ==
        IF n = 0 THEN <<>> ELSE found[n - 1] \o CertFindings(certs, n)
  IN  found[Len(certs)]

Findings(f) ==
     When(JudgedVersion(f) < TLS12, "obsolete_protocol", "critical")
  \o When(JudgedVersion(f) = TLS12, "legacy_protocol", "low")
  \o (IF f.observed THEN CipherFindings(Cipher(f.server.suite)) ELSE <<>>)
  \o When(f.hello.compression, "compression_offered", "medium")
  \o When(PQStatus(f) \in {"classical", "advertised_only", "offered_not_selected"},
          "classical_key_exchange", "info")
  \o When(f.hello.ech.seen, "ech_offered", "info")
  \o ChainFindings(f.certs)

\* Analyze: the fields of Record that the inventory and the reports read.
Analyze(f) ==
  [first |-> f.first, last |-> f.last, transport |-> f.transport, client |-> f.client,
   server |-> f.address, port |-> f.port, name |-> f.hello.name, ech |-> f.hello.ech.seen,
   echConfig |-> f.hello.ech.config, offered |-> OfferedVersion(f.hello), observed |-> f.observed,
   version |-> IF f.observed THEN NegotiatedVersion(f.server) ELSE -1,
   cipher |-> IF f.observed THEN f.server.suite ELSE -1,
   group |-> SelectedGroup(f), alpn |-> IF f.observed THEN f.server.alpn ELSE <<>>,
   certs |-> f.certs, ja4 |-> JA4(f.hello), pq |-> PQStatus(f), findings |-> Findings(f)]

Worse(x, y) == IF Rank[x] > Rank[y] THEN x ELSE y

\* Record.MaxSeverity
MaxSeverity(r) ==
  LET worst[n \in 0..Len(r.findings)] ==
        IF n = 0 THEN "info" ELSE Worse(r.findings[n].sev, worst[n - 1])
  IN  worst[Len(r.findings)]

=============================================================================
