------------------------------ MODULE MCReport ------------------------------
(***************************************************************************)
(* A small instance of Inventory and Report for TLC.                       *)
(***************************************************************************)
EXTENDS Report

E(type, items) == [type |-> type, whole |-> TRUE, items |-> items]
H2 == <<"h", "2">>
HTTP11 == <<"h", "t", "t", "p", "/", "1", ".", "1">>

Client(legacy, exts) ==
  ReadClient([head |-> TRUE, legacy |-> legacy, suites |-> <<4865, 47>>, compression |-> FALSE,
              block |-> "whole", exts |-> exts])
Server(legacy, suite, exts) ==
  ReadServer([head |-> TRUE, legacy |-> legacy, suites |-> <<suite>>, retry |-> FALSE,
              block |-> "whole", exts |-> exts])

Versions == E(ExtSupportedVersions, <<772, 771>>)
ECH(config) == E(ExtEncryptedClientHello, <<0, config>>)
Shares(groups) == E(ExtKeyShare, groups)
Name == E(ExtServerName, <<1>>)

TLS13(suite, group, alpn) ==
  Server(771, suite, <<E(ExtSupportedVersions, <<772>>), E(ExtKeyShare, <<group>>), E(ExtALPN, <<alpn>>)>>)

\* Three clients reach the host with name 1 with equal parameters and two ECH
\* config ids; the fourth negotiates another protocol with it.
F1 == [transport |-> "tcp", client |-> 1, address |-> 1, port |-> 443, first |-> 2, last |-> 2,
       hello |-> Client(771, <<Versions, Name, Shares(<<4588, 29>>), ECH(7)>>),
       observed |-> TRUE, server |-> TLS13(4865, 4588, H2), certs |-> <<>>]
F2 == [F1 EXCEPT !.client = 2, !.first = 1, !.last = 3,
                 !.hello = Client(771, <<ECH(8), Shares(<<4588>>), Name, E(ExtSessionTicket, <<>>), Versions>>)]
F3 == [F1 EXCEPT !.client = 3, !.last = 4]
F4 == [F1 EXCEPT !.server = TLS13(4865, 4588, HTTP11)]

\* It is not answered; it is reached without ECH and selects a suite and a
\* group that have no name and the same number.
F5 == [F1 EXCEPT !.observed = FALSE, !.hello = Client(771, <<Versions, Name, Shares(<<29>>)>>)]
F6 == [F5 EXCEPT !.observed = TRUE, !.server = TLS13(9999, 9999, H2)]

\* A host known by its address alone, whose certificate is renewed.
Cert(subject, expired, sha1) ==
  [subject |-> subject, weakKey |-> FALSE, expired |-> expired, sha1 |-> sha1, selfSigned |-> FALSE]
F7 == [F1 EXCEPT !.address = 2, !.hello = Client(771, <<>>), !.server = Server(771, 47, <<>>),
                 !.certs = <<Cert(1, TRUE, FALSE), Cert(2, FALSE, FALSE)>>]
F8 == [F7 EXCEPT !.hello.compression = TRUE, !.certs = <<Cert(1, FALSE, FALSE), Cert(2, FALSE, TRUE)>>, !.first = 1]
F9 == [F7 EXCEPT !.server = Server(771, 49171, <<>>), !.certs = <<>>]

AllFlows == {F1, F2, F3, F4, F5, F6, F7, F8, F9}

\* 0x270f, TLS_AES..., TLS_ECDHE..., TLS_RSA...
Alphabetical == <<-1, 9999, 4865, 49171, 47>>

=============================================================================
