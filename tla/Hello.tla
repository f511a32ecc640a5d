------------------------------- MODULE Hello -------------------------------
(***************************************************************************)
(* internal/tlsparse: the bodies of a ClientHello and a ServerHello and    *)
(* what is decoded of them, with the fingerprints JA4 and JA4S.            *)
(*                                                                         *)
(* A message is a record: whether its fixed fields can be read, what they  *)
(* hold, and its extensions.  Of an extension, type is its codepoint,      *)
(* items what can be read in its body from the start, and whole says that  *)
(* the body holds together to its end (lengths, parity).                   *)
(*                                                                         *)
(* A definition marked as a fault is not part of the specification: put in *)
(* place of the definition after it, it must break a property (README).    *)
(***************************************************************************)
EXTENDS Registry

CONSTANT Cap99     \* 99: the counts of a fingerprint have two digits

ASSUME HelloAssumption == Cap99 \in Nat

ExtServerName == 0
ExtStatusRequest == 5
ExtSupportedGroups == 10
ExtSignatureAlgorithms == 13
ExtALPN == 16
ExtExtendedMasterSecret == 23
ExtSessionTicket == 35
ExtPreSharedKey == 41
ExtEarlyData == 42
ExtSupportedVersions == 43
ExtPSKKeyExchangeModes == 45
ExtSignatureAlgorithmsCert == 50
ExtKeyShare == 51
ExtQUICTransportParams == 57
ExtEncryptedClientHello == 65037
ExtRenegotiationInfo == 65281

\* The extensions of which only the presence is recorded: HasPreSharedKey,
\* HasEarlyData, HasSessionTicket and so on.
Flags == {ExtPreSharedKey, ExtEarlyData, ExtSessionTicket, ExtExtendedMasterSecret,
          ExtRenegotiationInfo, ExtStatusRequest, ExtQUICTransportParams}

\* The extensions that are one list of codepoints, and the field of each.
ListField ==
  [t \in {ExtSupportedVersions, ExtSupportedGroups, ExtSignatureAlgorithms, ExtSignatureAlgorithmsCert} |->
     CASE t = ExtSupportedVersions       -> "versions"
       [] t = ExtSupportedGroups         -> "groups"
       [] t = ExtSignatureAlgorithms     -> "sigAlgs"
       [] t = ExtSignatureAlgorithmsCert -> "sigAlgsCert"]

(***************************************************************************)
(* ClientHello                                                             *)
(***************************************************************************)

\* Absent stands for a nil ECHInfo; a name of 0 is the empty string.
Absent == [seen |-> FALSE, outer |-> FALSE, config |-> 0]

\* ParseClientHello before the extensions.
ClientHead(m) ==
  [legacy |-> m.legacy, suites |-> StripGREASE(m.suites), compression |-> m.compression,
   exts |-> <<>>, name |-> 0, alpn |-> <<>>, versions |-> <<>>, groups |-> <<>>,
   sigAlgs |-> <<>>, sigAlgsCert |-> <<>>, shares |-> <<>>, modes |-> <<>>, ech |-> Absent,
   flags |-> {}, grease |-> HasGREASE(m.suites), truncated |-> m.block = "short"]

\* supported_versions, supported_groups and the signature algorithms.  GREASE
\* among signature_algorithms_cert is stripped and not noted.
ReadList(ch, field, e) ==
  IF ~e.whole THEN ch
  ELSE [ch EXCEPT ![field] = StripGREASE(e.items),
                  !.grease = @ \/ (field # "sigAlgsCert" /\ HasGREASE(e.items))]

\* A fault: a name that cannot be read replaces the one that was.
ReadServerNameReset(ch, e) ==
  LET hosts == {i \in DOMAIN e.items : e.items[i] # 0}
  IN  [ch EXCEPT !.name = IF hosts # {} THEN e.items[Min(hosts)] ELSE 0]

\* parseServerName: the first entry of type host_name, even in a list that is
\* cut after it; a whole list without one gives the empty name.
ReadServerName(ch, e) ==
  LET hosts == {i \in DOMAIN e.items : e.items[i] # 0}
  IN  IF hosts # {} THEN [ch EXCEPT !.name = e.items[Min(hosts)]]
      ELSE IF e.whole THEN [ch EXCEPT !.name = 0]
      ELSE ch

\* parseKeyShare: a list that is cut leaves the groups as they were.
ReadKeyShare(ch, e) ==
  [ch EXCEPT !.shares = IF e.whole THEN StripGREASE(e.items) ELSE @,
             !.grease = @ \/ HasGREASE(e.items)]

\* A fault: an extension that cannot be read is taken for no ECH.
ReadECHReadable(ch, e) ==
  IF e.items = <<>> \/ (e.items[1] = 0 /\ ~e.whole) \/ e.items[1] > 1 THEN ch
  ELSE [ch EXCEPT !.ech = [seen |-> TRUE, outer |-> e.items[1] = 0,
                           config |-> IF e.items[1] = 0 THEN e.items[2] ELSE 0]]

\* parseECH: items is the kind and, of an outer hello, the config id.  What
\* cannot be read counts as an outer hello.
ReadECH(ch, e) ==
  LET inner == e.items # <<>> /\ e.items[1] = 1
      outer == e.items # <<>> /\ e.items[1] = 0 /\ e.whole
  IN  [ch EXCEPT !.ech = [seen |-> TRUE, outer |-> ~inner,
                          config |-> IF outer THEN e.items[2] ELSE 0]]

\* One round of ClientHello.parseExtensions.
ClientExtension(ch, e) ==
  LET b == [ch EXCEPT !.exts = Append(@, e.type)]
  IN  CASE IsGREASE(e.type)                    -> [ch EXCEPT !.grease = TRUE]
        [] e.type \in DOMAIN ListField         -> ReadList(b, ListField[e.type], e)
        [] e.type = ExtServerName              -> ReadServerName(b, e)
        [] e.type = ExtALPN                    -> IF e.whole THEN [b EXCEPT !.alpn = e.items] ELSE b
        [] e.type = ExtKeyShare                -> ReadKeyShare(b, e)
        [] e.type = ExtPSKKeyExchangeModes     -> IF e.whole THEN [b EXCEPT !.modes = e.items] ELSE b
        [] e.type = ExtEncryptedClientHello    -> ReadECH(b, e)
        [] OTHER                               -> [b EXCEPT !.flags = @ \cup ({e.type} \cap Flags)]

\* A fault: the version of the record layer's time is believed.
OfferedLegacy(ch) == ch.legacy

\* ClientHello.NegotiatedVersion: the highest version offered.
OfferedVersion(ch) ==
  LET highest == Max(Range(ch.versions) \cup {0})
  IN  IF highest # 0 THEN highest ELSE ch.legacy

(***************************************************************************)
(* ServerHello                                                             *)
(***************************************************************************)
ServerHead(m) ==
  [legacy |-> m.legacy, retry |-> m.retry, suite |-> m.suites[1], exts |-> <<>>,
   version |-> 0, group |-> 0, alpn |-> <<>>, psk |-> FALSE, truncated |-> m.block = "short"]

\* A fault: the retry's short form is not known.
ServerKeyShareFull(sh, e) ==
  IF e.items # <<>> /\ e.whole THEN [sh EXCEPT !.group = e.items[1]] ELSE sh

\* ServerHello.parseKeyShare: a HelloRetryRequest names a group and no key.
ServerKeyShare(sh, e) ==
  IF e.items # <<>> /\ (sh.retry \/ e.whole) THEN [sh EXCEPT !.group = e.items[1]] ELSE sh

\* One round of ServerHello.parseExtensions.
ServerExtension(sh, e) ==
  LET b == [sh EXCEPT !.exts = Append(@, e.type)]
      first == e.items # <<>>
  IN  CASE IsGREASE(e.type)                  -> sh
        [] e.type = ExtSupportedVersions     -> IF first THEN [b EXCEPT !.version = e.items[1]] ELSE b
        [] e.type = ExtKeyShare              -> ServerKeyShare(b, e)
        [] e.type = ExtALPN                  -> IF e.whole /\ first THEN [b EXCEPT !.alpn = e.items[1]] ELSE b
        [] e.type = ExtPreSharedKey          -> [b EXCEPT !.psk = TRUE]
        [] OTHER                             -> b

\* ServerHello.NegotiatedVersion: the version in force.
NegotiatedVersion(sh) == IF sh.version # 0 THEN sh.version ELSE sh.legacy

(***************************************************************************)
(* The two walks as functions of a message that can be read.               *)
(***************************************************************************)
Cut(hello, m) == [hello EXCEPT !.truncated = @ \/ m.block = "cut"]
ReadClient(m) ==
  LET read[n \in 0..Len(m.exts)] ==
        IF n = 0 THEN ClientHead(m) ELSE ClientExtension(read[n - 1], m.exts[n])
  IN  Cut(read[Len(m.exts)], m)
ReadServer(m) ==
  LET read[n \in 0..Len(m.exts)] ==
        IF n = 0 THEN ServerHead(m) ELSE ServerExtension(read[n - 1], m.exts[n])
  IN  Cut(read[Len(m.exts)], m)

(***************************************************************************)
(* Fingerprints.  A hash stands for its input, and two inputs have the     *)
(* same hash only if they are equal.                                       *)
(***************************************************************************)

\* A list of numbers in ascending order: the i-th of them is the one that less
\* than i are smaller than, and at least i are no greater than.
Sorted(list) ==
  [i \in 1..Len(list) |->
     CHOOSE v \in Range(list) :
       /\ Cardinality({j \in DOMAIN list : list[j] < v}) < i
       /\ Cardinality({j \in DOMAIN list : list[j] <= v}) >= i]

Counted(list) == IF Len(list) > Cap99 THEN Cap99 ELSE Len(list)

\* ja4Version: the versions that have a code.
JA4Version(v) == IF v \in {2, 768, 769, 770, 771, 772} THEN v ELSE 0

\* ja4ALPNOne: the first and the last byte; a protocol is a sequence of bytes.
JA4ALPNOne(v) == IF v = <<>> THEN <<"0", "0">> ELSE <<v[1], v[Len(v)]>>
JA4ALPN(alpn) == IF alpn = <<>> THEN <<"0", "0">> ELSE JA4ALPNOne(alpn[1])

\* A fault: the extensions are hashed in the order of the wire.
HashedAsSent(ch) == Without(ch.exts, {ExtServerName, ExtALPN})

\* The extensions that ja4c hashes.
HashedExtensions(ch) == Sorted(Without(ch.exts, {ExtServerName, ExtALPN}))

\* ClientHello.JA4
JA4(ch) ==
  [quic |-> ExtQUICTransportParams \in ch.flags, version |-> JA4Version(OfferedVersion(ch)),
   named |-> ch.name # 0, suites |-> Counted(ch.suites), exts |-> Counted(ch.exts),
   alpn |-> JA4ALPN(ch.alpn), b |-> Sorted(ch.suites),
   c |-> <<HashedExtensions(ch), ch.sigAlgs>>]

\* ServerHello.JA4S; the server's extensions are hashed in the order sent.
JA4S(sh, quic) ==
  [quic |-> quic, version |-> JA4Version(NegotiatedVersion(sh)), exts |-> Counted(sh.exts),
   alpn |-> JA4ALPNOne(sh.alpn), b |-> sh.suite, c |-> sh.exts]

=============================================================================
