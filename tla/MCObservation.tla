--------------------------- MODULE MCObservation ---------------------------
(***************************************************************************)
(* A small instance of Observation for TLC.  Codepoints are the real ones: *)
(* 2570 and 6682 are GREASE, 4588 is X25519MLKEM768, 29 is x25519, 771 and *)
(* 772 are TLS 1.2 and 1.3.                                                *)
(***************************************************************************)
EXTENDS Observation

CONSTANT MaxExts   \* bound: extensions of a message

E(type, whole, items) == [type |-> type, whole |-> whole, items |-> items]
H2 == <<"h", "2">>
HTTP11 == <<"h", "t", "t", "p", "/", "1", ".", "1">>

\* Extensions of a client, readable, unreadable and cut, several of a type.
ClientExts ==
  {E(ExtSupportedVersions, TRUE, <<2570, 772, 771>>), E(ExtSupportedVersions, TRUE, <<6682, 0>>),
   E(ExtSupportedVersions, FALSE, <<770>>),
   E(ExtSupportedGroups, TRUE, <<6682, 4588, 29>>), E(ExtSupportedGroups, FALSE, <<29>>),
   E(ExtKeyShare, TRUE, <<2570, 4588, 29>>), E(ExtKeyShare, TRUE, <<29>>),
   E(ExtKeyShare, FALSE, <<2570, 4588>>),
   E(ExtServerName, TRUE, <<7>>), E(ExtServerName, FALSE, <<0, 8>>), E(ExtServerName, TRUE, <<0>>),
   E(ExtServerName, FALSE, <<>>),
   E(ExtALPN, TRUE, <<H2, HTTP11>>), E(ExtALPN, FALSE, <<>>),
   E(ExtEncryptedClientHello, TRUE, <<0, 5>>), E(ExtEncryptedClientHello, FALSE, <<0, 5>>),
   E(ExtEncryptedClientHello, TRUE, <<1>>),
   E(ExtQUICTransportParams, TRUE, <<>>), E(6682, TRUE, <<>>),
   E(ExtSignatureAlgorithms, TRUE, <<2052, 1027>>), E(ExtSignatureAlgorithmsCert, TRUE, <<2570, 1027>>)}

ServerExts ==
  {E(ExtSupportedVersions, TRUE, <<772>>), E(ExtSupportedVersions, FALSE, <<>>), E(ExtSupportedVersions, TRUE, <<0>>),
   E(ExtKeyShare, TRUE, <<4588>>), E(ExtKeyShare, FALSE, <<4588>>), E(ExtKeyShare, FALSE, <<29>>),
   E(ExtKeyShare, FALSE, <<>>),
   E(ExtALPN, TRUE, <<HTTP11>>), E(ExtALPN, TRUE, <<>>),
   E(ExtPreSharedKey, TRUE, <<>>), E(2570, TRUE, <<>>)}

Lists(S) == UNION {[1..n -> S] : n \in 0..MaxExts}

Client(exts, block, suites) ==
  [head |-> TRUE, legacy |-> 771, suites |-> suites, compression |-> FALSE, block |-> block, exts |-> exts]
Server(exts, block, suite, retry) ==
  [head |-> TRUE, legacy |-> 771, suites |-> <<suite>>, retry |-> retry, block |-> block, exts |-> exts]

PlainClient == Client(<<E(ExtKeyShare, TRUE, <<4588>>)>>, "whole", <<4865>>)
OldClient == [Client(<<>>, "none", <<47, 10>>) EXCEPT !.legacy = 769, !.compression = TRUE]
CutClient == Client(<<>>, "short", <<2570, 49199, 4865>>)
PlainServer == Server(<<E(ExtSupportedVersions, TRUE, <<772>>)>>, "whole", 4865, FALSE)
OldServer(suite) == [Server(<<>>, "none", suite, FALSE) EXCEPT !.legacy = 770]

\* Every client with one answer or none, every answer to one client.
SomeExchanges ==
     {[client |-> Client(x, "whole", <<2570, 49199, 4865>>), server |-> s] :
        x \in Lists(ClientExts), s \in {NoMessage}}
  \cup {[client |-> Client(x, "cut", <<49199>>), server |-> PlainServer] :
        x \in UNION {[1..n -> ClientExts] : n \in 0..2}}
  \cup {[client |-> c, server |-> NoMessage] : c \in {OldClient, CutClient, NoMessage}}
  \cup {[client |-> PlainClient, server |-> Server(x, b, 4865, retry)] :
        x \in Lists(ServerExts), b \in {"whole", "cut"}, retry \in BOOLEAN}
  \cup {[client |-> PlainClient, server |-> s] :
        s \in {OldServer(id) : id \in DOMAIN CipherSuiteNames \cup {6682}} \cup {Server(<<>>, "short", 4867, FALSE)}}

=============================================================================
