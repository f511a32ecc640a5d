------------------------------ MODULE Registry ------------------------------
(***************************************************************************)
(* internal/tlsparse/registry.go and grease.go: what a codepoint means.    *)
(* The properties of a cipher suite are read off its IANA name.            *)
(*                                                                         *)
(* A name is the sequence of its words, as "_" separates them, without the *)
(* leading TLS.                                                            *)
(*                                                                         *)
(* A definition marked as a fault is not part of the specification: put in *)
(* place of the definition after it, it must break a property (README).    *)
(***************************************************************************)
EXTENDS Integers, SequencesExt

\* A fault: the low nibbles are not looked at.
IsGREASEWide(v) == v \div 256 = v % 256

\* IsGREASE: equal bytes whose low nibble is 0xa (RFC 8701).
IsGREASE(v) == v \div 256 = v % 256 /\ v % 16 = 10

\* A list without the members of S, one after the other.
Without(list, S) ==
  LET kept[n \in 0..Len(list)] ==
        IF n = 0 THEN <<>>
        ELSE IF list[n] \in S THEN kept[n - 1] ELSE Append(kept[n - 1], list[n])
  IN  kept[Len(list)]

\* stripGREASE: the list without GREASE values.
StripGREASE(list) == Without(list, {v \in Range(list) : IsGREASE(v)})

HasGREASE(list) == \E i \in DOMAIN list : IsGREASE(list[i])

(***************************************************************************)
(* Cipher suites                                                           *)
(***************************************************************************)

\* Of cipherSuiteNames, one suite of every shape a name may have.
NamedSuites ==
  {4865, 4867, 4869, 49199, 52394, 49171, 61, 47, 10, 4, 18, 0, 49168, 6, 17, 23, 58, 49173, 255}

CipherSuiteNames ==
  [id \in NamedSuites |->
     CASE id = 4865  -> <<"AES", "128", "GCM", "SHA256">>
       [] id = 4867  -> <<"CHACHA20", "POLY1305", "SHA256">>
       [] id = 4869  -> <<"AES", "128", "CCM", "8", "SHA256">>
       [] id = 49199 -> <<"ECDHE", "RSA", "WITH", "AES", "128", "GCM", "SHA256">>
       [] id = 52394 -> <<"DHE", "RSA", "WITH", "CHACHA20", "POLY1305", "SHA256">>
       [] id = 49171 -> <<"ECDHE", "RSA", "WITH", "AES", "128", "CBC", "SHA">>
       [] id = 61    -> <<"RSA", "WITH", "AES", "256", "CBC", "SHA256">>
       [] id = 47    -> <<"RSA", "WITH", "AES", "128", "CBC", "SHA">>
       [] id = 10    -> <<"RSA", "WITH", "3DES", "EDE", "CBC", "SHA">>
       [] id = 4     -> <<"RSA", "WITH", "RC4", "128", "MD5">>
       [] id = 18    -> <<"DHE", "DSS", "WITH", "DES", "CBC", "SHA">>
       [] id = 0     -> <<"NULL", "WITH", "NULL", "NULL">>
       [] id = 49168 -> <<"ECDHE", "RSA", "WITH", "NULL", "SHA">>
       [] id = 6     -> <<"RSA", "EXPORT", "WITH", "RC2", "CBC", "40", "MD5">>
       [] id = 17    -> <<"DHE", "DSS", "EXPORT", "WITH", "DES40", "CBC", "SHA">>
       [] id = 23    -> <<"DH", "anon", "EXPORT", "WITH", "RC4", "40", "MD5">>
       [] id = 58    -> <<"DH", "anon", "WITH", "AES", "256", "CBC", "SHA">>
       [] id = 49173 -> <<"ECDH", "anon", "WITH", "NULL", "SHA">>
       [] id = 255   -> <<"EMPTY", "RENEGOTIATION", "INFO", "SCSV">>]

Words(name) == Range(name)

Unknown == [known |-> FALSE, signalling |-> FALSE, export |-> FALSE, anonymous |-> FALSE,
            keyExchange |-> <<>>, authentication |-> <<>>, forwardSecrecy |-> FALSE,
            encryption |-> <<>>, mac |-> "", aead |-> FALSE]

\* The words before and after WITH.
Before(name) == SubSeq(name, 1, SelectInSeq(name, LAMBDA w : w = "WITH") - 1)
After(name) == SubSeq(name, SelectInSeq(name, LAMBDA w : w = "WITH") + 1, Len(name))

\* A TLS 1.3 suite: the last word is the handshake hash, the rest the AEAD.
TLS13Suite(name) ==
  [Unknown EXCEPT !.known = TRUE, !.forwardSecrecy = TRUE, !.aead = TRUE,
                  !.mac = "AEAD", !.encryption = Front(name)]

\* A fault: the mark of export suites is left on the key exchange.
KeyExchangeUntrimmed(name) == Before(name)

\* The key exchange words, without the mark of export suites.
KeyExchangeOf(name) ==
  IF Last(Before(name)) = "EXPORT" THEN Front(Before(name)) ELSE Before(name)

\* _GCM, _CCM or CHACHA20_POLY1305 in the cipher.
IsAEAD(encryption) ==
  \/ \E i \in DOMAIN encryption : i > 1 /\ encryption[i] \in {"GCM", "CCM"}
  \/ {"CHACHA20", "POLY1305"} \subseteq Words(encryption)

\* A suite of TLS 1.2 and below: key exchange, WITH, cipher, MAC.
LegacySuite(name) ==
  LET kx == KeyExchangeOf(name)
      rest == After(name)
      anonymous == Len(kx) > 1 /\ Last(kx) = "anon"
      exchange == IF anonymous THEN kx ELSE <<kx[1]>>
      split == Len(rest) > 1 /\ Last(rest) # "8"
      encryption == IF split THEN Front(rest) ELSE rest
      aead == IsAEAD(encryption)
  IN  [known |-> TRUE, signalling |-> FALSE,
       export |-> "EXPORT" \in Words(Before(name)),
       anonymous |-> anonymous,
       keyExchange |-> exchange,
       authentication |-> IF anonymous THEN <<"anon">> ELSE IF Len(kx) > 1 THEN Tail(kx) ELSE kx,
       forwardSecrecy |-> exchange \in {<<"ECDHE">>, <<"DHE">>} /\ ~anonymous,
       encryption |-> encryption,
       mac |-> IF aead THEN "AEAD" ELSE IF split THEN Last(rest) ELSE "",
       aead |-> aead]

\* Cipher
Cipher(id) ==
  IF id \notin DOMAIN CipherSuiteNames THEN Unknown
  ELSE LET name == CipherSuiteNames[id]
       IN  IF Last(name) = "SCSV" THEN [Unknown EXCEPT !.known = TRUE, !.signalling = TRUE]
           ELSE IF "WITH" \notin Words(name) THEN TLS13Suite(name)
           ELSE LegacySuite(name)

(***************************************************************************)
(* Groups                                                                  *)
(***************************************************************************)
PureKEM == {512, 513, 514}                        \* MLKEM512, 768, 1024
Hybrid == {4587, 4588, 4589, 25497, 25498}        \* with MLKEM or Kyber in the name

\* groupNames: the codepoints that have a name.
GroupIDs == {19, 21, 22, 23, 24, 25, 29, 30} \cup (256..260) \cup PureKEM \cup Hybrid

\* Group(id).PostQuantum
PostQuantum(group) == group \in PureKEM \cup Hybrid

=============================================================================
