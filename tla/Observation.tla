---------------------------- MODULE Observation ----------------------------
(***************************************************************************)
(* From the bytes of two hellos to a record: ParseClientHello and          *)
(* ParseServerHello walk the extensions of a message one at a time, and    *)
(* Analyze makes a record of what they decoded.  The walk meets extensions *)
(* that are repeated, malformed, GREASE or cut off, in any order.          *)
(***************************************************************************)
EXTENDS Analysis

CONSTANT Exchanges   \* pairs of messages; a server message may be NoMessage

NoMessage == [head |-> FALSE]

\* Extensions of numbers, and those of protocols; a body that nobody looks into
\* is whole.
Extension ==
  {e \in [type : Nat \ {ExtALPN}, whole : BOOLEAN, items : Seq(Nat)] : e.type \in Flags => e.whole}
    \cup [type : {ExtALPN}, whole : BOOLEAN, items : Seq(Seq(STRING))]

Blocks == {"none", "short", "whole", "cut"}

ClientMessage ==
  [head : {TRUE}, legacy : Nat, suites : Seq(Nat), compression : BOOLEAN, block : Blocks,
   exts : Seq(Extension)]
ServerMessage ==
  [head : {TRUE}, legacy : Nat, suites : Seq(Nat) \ {<<>>}, retry : BOOLEAN, block : Blocks,
   exts : Seq(Extension)]

ASSUME ObservationAssumption ==
  \A x \in Exchanges : /\ x.client \in ClientMessage \cup {NoMessage}
                       /\ x.server \in ServerMessage \cup {NoMessage}

VARIABLES
  wire,    \* the messages, [client |-> m, server |-> m]
  phase,   \* where the parser is
  at,      \* extensions of the current message read so far
  ch,      \* the ClientHello
  sh       \* the ServerHello

vars == <<wire, phase, at, ch, sh>>

Init ==
  /\ wire \in Exchanges
  /\ phase = "start" /\ at = 0
  /\ ch = <<>> /\ sh = <<>>

\* ParseClientHello up to the extensions; without them there is no flow.
ParseClientHello ==
  /\ phase = "start"
  /\ IF wire.client.head THEN phase' = "client" /\ ch' = ClientHead(wire.client)
                         ELSE phase' = "rejected" /\ UNCHANGED ch
  /\ UNCHANGED <<wire, at, sh>>

NextClientExtension ==
  /\ phase = "client" /\ at < Len(wire.client.exts)
  /\ ch' = ClientExtension(ch, wire.client.exts[at + 1])
  /\ at' = at + 1
  /\ UNCHANGED <<wire, phase, sh>>

\* The block is empty, or what is left of it is no extension.
EndClientHello ==
  /\ phase = "client" /\ at = Len(wire.client.exts)
  /\ ch' = Cut(ch, wire.client)
  /\ phase' = "answer" /\ at' = 0
  /\ UNCHANGED <<wire, sh>>

\* ParseServerHello up to the extensions; an answer that is missing, or whose
\* fixed fields cannot be read, leaves the flow without a server.
ParseServerHello ==
  /\ phase = "answer"
  /\ IF wire.server.head THEN phase' = "server" /\ sh' = ServerHead(wire.server)
                         ELSE phase' = "done" /\ UNCHANGED sh
  /\ UNCHANGED <<wire, at, ch>>

NextServerExtension ==
  /\ phase = "server" /\ at < Len(wire.server.exts)
  /\ sh' = ServerExtension(sh, wire.server.exts[at + 1])
  /\ at' = at + 1
  /\ UNCHANGED <<wire, phase, ch>>

EndServerHello ==
  /\ phase = "server" /\ at = Len(wire.server.exts)
  /\ sh' = Cut(sh, wire.server)
  /\ phase' = "done" /\ at' = 0
  /\ UNCHANGED <<wire, ch>>

Next ==
  \/ ParseClientHello \/ NextClientExtension \/ EndClientHello
  \/ ParseServerHello \/ NextServerExtension \/ EndServerHello

Spec == Init /\ [][Next]_vars

(***************************************************************************)
(* Properties                                                              *)
(***************************************************************************)
ClientRead == phase = "answer"    \* the ClientHello does not change after
ServerRead == phase = "done" /\ wire.server.head

\* The record of the flow, with the fields that do not come from the hellos.
Record ==
  Analyze([first |-> 1, last |-> 1, transport |-> "tcp", client |-> 1, address |-> 1, port |-> 443,
           hello |-> ch, observed |-> wire.server.head, server |-> sh, certs |-> <<>>])
IDs(r) == {r.findings[i].id : i \in DOMAIN r.findings}

\* The sixteen reserved values of RFC 8701.
Reserved == {2570 + 4112 * i : i \in 0..15}
Clean(list) == Without(list, Reserved)

\* What the last readable extension of a type says.
Present(m, t) == {i \in DOMAIN m.exts : m.exts[i].type = t}
LastWhole(m, t) ==
  LET S == {i \in Present(m, t) : m.exts[i].whole}
  IN  IF S = {} THEN <<>> ELSE m.exts[Max(S)].items
Hosts(e) == {i \in DOMAIN e.items : e.items[i] # 0}
LastName(m) ==
  LET S == {i \in Present(m, ExtServerName) : m.exts[i].whole \/ Hosts(m.exts[i]) # {}}
      e == m.exts[Max(S)]
  IN  IF S = {} \/ Hosts(e) = {} THEN 0 ELSE e.items[Min(Hosts(e))]
Types(m) == [i \in DOMAIN m.exts |-> m.exts[i].type]

\* A name on the wire is reported as possibly not the destination whenever an
\* encrypted_client_hello was there, also one that cannot be read.
ECHNeverMissed ==
  LET S == Present(wire.client, ExtEncryptedClientHello)
  IN  /\ ch.ech.seen <=> S # {}
      /\ S # {} => LET e == wire.client.exts[Max(S)] IN ch.ech.outer <=> (e.items = <<>> \/ e.items[1] # 1)

\* The walk decodes what a reader of the whole message would: each list is the
\* last readable one, a key share list counts only if it is complete, a name
\* also if the list is cut after it, GREASE is noticed wherever it is looked
\* for, ECH and the flags wherever they are.
DecodedFaithful ==
  ClientRead => LET m == wire.client IN
    /\ ECHNeverMissed /\ ch.name = LastName(m)
    /\ ch.suites = Clean(m.suites) /\ ch.exts = Clean(Types(m))
    /\ \A t \in DOMAIN ListField : ch[ListField[t]] = Clean(LastWhole(m, t))
    /\ ch.shares = Clean(LastWhole(m, ExtKeyShare))
    /\ ch.alpn = LastWhole(m, ExtALPN) /\ ch.modes = LastWhole(m, ExtPSKKeyExchangeModes)
    /\ ch.flags = Range(Types(m)) \cap Flags
    /\ ch.truncated <=> m.block \in {"short", "cut"}
    /\ ch.grease <=>
         \/ (Range(m.suites) \cup Range(Types(m))) \cap Reserved # {}
         \/ \E i \in DOMAIN m.exts :
              /\ \/ m.exts[i].type = ExtKeyShare
                 \/ m.exts[i].whole /\ m.exts[i].type \in
                      {ExtSupportedVersions, ExtSupportedGroups, ExtSignatureAlgorithms}
              /\ Range(m.exts[i].items) \cap Reserved # {}

\* "One bad extension should not discard an otherwise readable handshake":
\* without an extension that cannot be read, the hello would have decoded the
\* same, but for that extension's presence and for ECH.
BadExtensionIsolated ==
  ClientRead => LET m == wire.client IN
    \A i \in DOMAIN m.exts :
      LET e == m.exts[i]
          rest == ReadClient([m EXCEPT !.exts = RemoveAt(@, i)])
      IN  ~e.whole /\ e.type # ExtEncryptedClientHello /\ (e.type = ExtServerName => Hosts(e) = {})
            => \A field \in DOMAIN ch \ {"exts", "grease"} : ch[field] = rest[field]

\* The rungs of the readiness ladder are earned on the wire: a negotiation was
\* seen, the client sent a complete list with a post-quantum share, or it
\* listed such a group.
GradeEarned ==
  phase = "done" =>
    LET pq(list) == \E i \in DOMAIN list : PostQuantum(list[i])
        named == {i \in Present(wire.server, ExtKeyShare) : LET e == wire.server.exts[i] IN
                    e.items # <<>> /\ (wire.server.retry \/ e.whole)}
        selected == wire.server.head /\ named # {}
                      /\ PostQuantum(wire.server.exts[Max(named)].items[1])
        shared == pq(LastWhole(wire.client, ExtKeyShare))
        listed == pq(LastWhole(wire.client, ExtSupportedGroups))
    IN  Record.pq \in IF selected THEN {"post_quantum"}
                      ELSE IF shared THEN {"offered_not_selected"}
                      ELSE IF listed THEN {"advertised_only"}
                      ELSE {"classical", "unknown"}

\* The version judged is the one in force, or else the best one offered, never
\* a reserved value and never the legacy field of a TLS 1.3 hello.  No version
\* has the number 0.
VersionJudged ==
  phase = "done" =>
    LET offered == Range(Clean(LastWhole(wire.client, ExtSupportedVersions))) \ {0}
        best == IF offered = {} THEN wire.client.legacy ELSE Max(offered)
        S == {i \in Present(wire.server, ExtSupportedVersions) : wire.server.exts[i].items # <<>>}
        said == IF S = {} THEN 0 ELSE wire.server.exts[Max(S)].items[1]
        judged == IF ~wire.server.head THEN best
                  ELSE IF said = 0 THEN wire.server.legacy ELSE said
    IN  IDs(Record) \cap {"obsolete_protocol", "legacy_protocol"} =
          IF judged < TLS12 THEN {"obsolete_protocol"}
          ELSE IF judged = TLS12 THEN {"legacy_protocol"} ELSE {}

\* A suite is judged by what its name says, however the name is made up.
SuiteJudged ==
  ServerRead =>
    LET id == wire.server.suites[1]
        words == IF id \in DOMAIN CipherSuiteNames THEN Range(CipherSuiteNames[id]) ELSE {}
        ephemeral == "WITH" \notin words \/ (words \cap {"ECDHE", "DHE"} # {})
        nonesuch == words = {} \/ "SCSV" \in words
        has(S) == words \cap S # {}
        found == IDs(Record)
    IN  /\ "unknown_cipher" \in found <=> words = {}
        /\ "anonymous_key_exchange" \in found <=> has({"anon"})
        /\ "export_cipher" \in found <=> has({"EXPORT"}) /\ ~has({"anon"})
        /\ "null_encryption" \in found <=> has({"NULL"})
        /\ "broken_cipher" \in found <=> has({"RC4", "RC2", "DES", "DES40"})
        /\ "weak_cipher" \in found <=> has({"3DES", "MD5"})
        /\ "no_forward_secrecy" \in found <=> ~nonesuch /\ ~ephemeral /\ ~has({"anon"})

\* Grade, version and suite of the record are judged by what was on the wire.
RecordFaithful == GradeEarned /\ VersionJudged /\ SuiteJudged

\* The messages a client may send in place of this one without looking like
\* another implementation: suites and extensions shuffled, GREASE left out,
\* another name asked for.
Shuffles(list) == {[i \in DOMAIN list |-> list[p[i]]] : p \in Bijection(DOMAIN list, DOMAIN list)}
Renamed(e) == IF e.type = ExtServerName THEN [e EXCEPT !.items = [i \in DOMAIN @ |-> IF @[i] = 0 THEN 0 ELSE 99]] ELSE e
Disguises(m) ==
  {[m EXCEPT !.suites = s] : s \in Shuffles(m.suites)}
    \cup {[m EXCEPT !.exts = x] : x \in Shuffles(m.exts)}
    \cup {[m EXCEPT !.suites = Clean(@), !.exts = Without(@, {e \in Range(@) : e.type \in Reserved})],
          [m EXCEPT !.exts = [i \in DOMAIN @ |-> Renamed(@[i])]]}

\* JA4 tells implementations apart, not connections of one: it is the same for
\* every disguise of a message without repeated extensions.  JA4S, of a server
\* that answers in a fixed order, changes with that order.
FingerprintStable ==
  /\ ClientRead /\ Cardinality(Range(Types(wire.client))) = Len(wire.client.exts)
       => \A m \in Disguises(wire.client) : JA4(ReadClient(m)) = JA4(ch)
  /\ ServerRead =>
       \A x \in Shuffles(wire.server.exts) :
         LET other == ReadServer([wire.server EXCEPT !.exts = x])
         IN  other.exts # sh.exts => JA4S(other, FALSE) # JA4S(sh, FALSE)

=============================================================================
