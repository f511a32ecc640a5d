# A TLA+ model of tlscensus

tlscensus watches TLS handshakes go by, on TCP and in QUIC, and counts the
cryptography in use. This directory holds a model of the part of it that keeps
state: what is tracked, when a flow is reported, who may touch what at the same
time, time, what is read out of a handshake, and how reports become numbers and lists.
TLC checks the modules on small instances; TLAPS proves every safety property of
the runs for every value of the constants.

`PROJECT.json` lists every run, the source lines behind every definition, the
hazards the properties are aimed at, and the theorems.

## The system

```
 capture.Source --packets--> pipeline.run --> assemble.Assembler --Flow--> handler
  (file, Linux,               (capture          TCP streams, QUIC flows       |
   macOS, Windows)             goroutine)         |            |              v
        ^                                  tlsparse.record   quic.*     inventory.Analyze
        | Close                                                         inventory.Accumulator
  signal goroutine      sweeper goroutine --FlushOlderThan--^                 |
                        HTTP handlers ------------snapshot----------> report, html, cbom
```

| part | state | operations | what makes it correct |
| --- | --- | --- | --- |
| `assemble/assembler.go` | the streams gopacket knows, their two buffers and flags, `Stats`, `lastFlush` | `Packet`, `FlushOlderThan`, `Close`; callbacks `New`, `ReassembledSG`, `ReassemblyComplete` | a flow is reported once and says what was on the wire; memory stays under the cap; the counters add up |
| `assemble/quic.go` | the flow table and one `cryptoStream` per direction | `quicPacket`, `quicParse`, `flushQUIC` | the same, with packets in any order and keys fixed by the first one |
| `tlsparse/record.go` | none | `FindClientHello`, `FindServerHello` | finds the hellos however the bytes were cut |
| `tlsparse/` (hellos, extensions, GREASE, JA4, registry) | none | `ParseClientHello`, `ParseServerHello`, `Cipher`, `JA4` | one bad extension costs only itself; ECH is never missed; a fingerprint does not depend on the order sent |
| `quic/` | none | `ParseLongHeader`, `Open`, `CryptoFrames` | any datagram is survived; every readable CRYPTO frame is taken |
| `inventory/` | the `Accumulator`: counters, distributions, the bounded table of distinct findings | `Analyze`, `Add`, `Summary`, `Aggregates` | what is reported is what a batch computation over all records would say, and what is dropped is counted |
| `cmd/tlscensus` | `pipeline` (assembler, accumulator, pending records, a lock), an output lock, the shutdown flags | `read`, `watch`, `serve` | no output is lost, doubled or torn; the report is complete; an interrupt ends the command |
| `capture/live_windows.go` | handle, lock, closed flag | `OpenLive`, `Next`, `Close` | the adapter meant is opened; no driver call on a freed handle, none left behind; `Close` returns |
| `capture/live_darwin.go` | descriptor, batch buffer, closed flag | `OpenLive`, `Next`, `Close` | no device is left open; every packet of a batch is handed out; shutdown is not an error |
| `capture/` (Linux, files, filter, interfaces) | a pcapgo handle | `Next`, `Close` | as for the sources above |
| `report/` | none | text, JSON, HTML, CycloneDX | the worst comes first; the CBOM lists what was negotiated, where it was, and nothing else |
| `tlssynth`, `testdata/gen`, `scripts/diffparse` | none | test support | - |

What is hard here: an assembler that is not safe for concurrent use is driven by
two goroutines; a flow may be reported from four places (a complete flight, the
close of its connection, a sweep, `Close`); packets arrive in any order, twice,
or after their flow was given up; timestamps come from the capture and from the
wall clock; two tables share one cap and one counter; every field of a message
may be malformed, repeated or reserved, and lengths are wider than `int`; a source is closed by one
goroutine while another is inside the driver; and every table has a limit at
which it must not lie about what it left out.

## Modules

| module | models | extends |
| --- | --- | --- |
| `Handshake` | `tlsparse/record.go`: what a byte stream yields, as operators | |
| `CryptoStream` | `cryptoStream` of `assemble/quic.go`, as operators | `Handshake` |
| `Datagram` | `quic/packet.go`: which slices a header's fields ask for, as operators | |
| `CryptoFlow` | one direction of a QUIC handshake: datagrams, frames, loss, reordering, `quic.CryptoFrames` | `CryptoStream`, `Datagram` |
| `Assembler` | `assemble/`: TCP streams, QUIC flows, cap, sweeps, `Close` | `CryptoStream` |
| `Census` | abstract: what the commands promise about counting, showing and reporting | |
| `Pipeline` | `pipeline.go`, `watch.go`, `serve.go`, `read.go`: goroutines and locks | instance of `Census` |
| `Registry` | `registry.go`, `grease.go`: what a codepoint means, as operators | |
| `Hello` | the bodies of the hellos and JA4, JA4S, as operators | `Registry` |
| `Analysis` | `inventory.Analyze`: grade and findings of a flow, as operators | `Hello` |
| `Observation` | the two parsers walking a message extension by extension | `Analysis` |
| `Inventory` | the `Accumulator` and its aggregates | `Analysis` |
| `Report` | what is published: ranking, the page's cut, the CBOM | `Inventory` |
| `Source` | abstract: what a `capture.Source` promises | |
| `Device` | `capture/live.go`, `pickDevice`: which interface is captured on, as operators | |
| `WindowsSource`, `DarwinSource` | the two live sources with state of their own | `Device` (Windows); instances of `Source` |
| `AssemblerProofs`, `ObservationProofs`, `CryptoFlowProofs`, `PipelineProofs`, `WindowsSourceProofs`, `DarwinSourceProofs` | theorems | the module each is about |
| `InventoryProofs` | theorems about `Inventory` and `Report` | `Report` |
| `FoldLemmas` | induction, recursion and sums, cited by the proofs | |
| `MCAssembler`, `MCCrypto`, `MCPipeline`, `MCObservation`, `MCReport`, `MCWindows` | constants for TLC | |

**Faults.** Some definitions are preceded by a variant marked "A fault". It is
not part of the specification and nothing uses it; it is the definition as a
plausible mistake in the code would leave it, and substituting it must violate
the property named in `PROJECT.json`. This shows that each property depends on
the code it is about. A property that is a conjunction has a fault for each of its
parts. The type invariants of `Assembler` and of the sources are proved and not
repeated in a run.

### Handshake, CryptoStream, Datagram, CryptoFlow

Bytes are counted in *units*: a unit is a whole handshake message in its record,
the head or tail of a message split over two records, or a record without
handshake content. A message is known by its type and by what the assembler and
the inventory read of it (does it parse, is it a HelloRetryRequest, TLS 1.2 or
1.3). `NotTLS`, `Ends`, `FindClientHello`, `FindServerHello` follow the scan of
`HandshakeMessages`, `splitMessages`, `findClientHelloIn`, `findServerHelloIn`:
the first ClientHello decides, the last real ServerHello wins over a retry, and
it is enriched by what follows. `CryptoStream` keeps the map of segments and the
two limits of `cryptoStream.add`, and the walk of `prefix`. `CryptoFlow` lets a
sender cut its handshake into any slices, put them in packets with other frames,
and the network deliver any packets in any order, any number of times.

Between them come datagrams whose header says anything. `Datagram` follows the
positions that `ParseLongHeader` and `Open` compute: a field is its length, an
`int` wraps at `HalfInt` (2^31 or 2^63 in a build), and a slice outside the
datagram is a panic, which sets `crashed`. A tampered header fails
authentication, so only what the sender sealed opens.

### Assembler

`asm` is the `Assembler` struct with the streams gopacket holds for it. Each
entry point is one action, because callers serialise them (that they do is
checked in `Pipeline`); the operators it is composed of have the names of the Go
functions and are applied in the order of the calls. `reports` is a history of
the handler's calls for the current or last stream of an address pair; `wire` is
a history of what each side sent. gopacket is external and modelled by what the
code relies on: in-order delivery per direction, a direction closed by FIN or
RST, completion when both are, and `FlushCloseOlderThan`. A segment that gopacket
holds back is a segment that arrives later.

A QUIC Initial has the connection ID in its header and the one its keys derive
from; `Opens` says when authentication succeeds. `DeriveInitialKeys` is injective.

A capture is live, where packets are stamped with the clock, or replayed, where
they may be stamped with any time. `ignored` keeps the pairs that a full table
turned away, a history that `ShortfallReported` compares with the counters.

### Registry, Hello, Analysis, Observation

A codepoint is its real number, since GREASE is defined by its bits and a version
is a maximum. The name of a suite is the sequence of its words, because `Cipher`
reads key exchange, export mark, cipher and MAC off the name; the table holds one
suite of every shape. An extension is its type, the items that can be read from
its start, and whether its body holds together to the end; that is what the
readers of the code tell apart (a key share list cut in its middle counts for
nothing, a name list cut after its first host still gives the name). `Observation`
walks the ClientHello, then the ServerHello, one extension per step, and the
record of `Analyze` is compared with what a reader of the whole message would say.
A hash of JA4 stands for its input. A disguise of a message (`Disguises`) is a
permutation of its suites or extensions, its GREASE left out, or another name
asked for.

### Pipeline and Census

The capture goroutine and the sweeper each go through lock, assembler call (flow
by flow, with the moment between `Stats.TLSFlows` and the handler visible),
`takePending`, unlock, deliver record by record under the output lock. The
assembler is reduced to its contract as module `Assembler` checks it: a packet
may make a hello known, any call may report some of the known flows, each once,
and `Close` reports all. `Census` knows only what was counted, shown and
reported; `Pipeline` implements it with `acc`, `written` and `report`. The command
`show` is `serve` with capture files: it reads them, closes the assembler without
the lock, starts the server, and waits for a signal.

### Inventory and Report

`Add` folds the record into counters, the maps of the distributions, the findings table
and the aggregate table with its two limits. `log`, the history of records, is
the reference: the properties recompute everything from it. `Report` publishes at
any moment, as `snapshot` and `finish` do: the aggregates in any order that the
comparison of `Aggregates` permits, the records sorted by `SortRecords`, the rows
that fit the page, and the CBOM built record by record. `keep` is whether records
are retained, which only `read` does. A sort is given by the rank of each element,
a tuple of numbers (`RecordRank`, `AggregateRank`, `RankedFindings`): `Ranked`
lists a domain by rank, where the code's comparison is total or the sort is
stable, and `Aggregates` allows every order the comparison permits, where neither
is so. `BuildCBOM`, `AddRecord` and `AddAssets` are the loops of `cbom.go`.

### Sources

`OpenLive` first: what it calls may fail at each step, and what it holds by then
must be given back. On Windows the device is chosen from a listing by
`PickDevice` (module `Device`), where a string is a sequence of words, so that a
name can be a part of another; `asked` keeps the listing, the request and the
choice. On macOS `/dev/bpfN` are tried in turn. Then one
action per step of `Next`, `nextOnce` and `Close` between which another
goroutine can run: testing the flag, taking the lock, entering the driver,
copying, swapping `closed`, freeing. For macOS the descriptor number is a
resource of the process, and may name something else after `Close`. `Source`
says what the consumer sees; both implement it.

## Runs

| run | instance | states | shows |
| --- | --- | --- | --- |
| `MCContent` | one connection, 5 client and 9 server segments, 3 units per direction, buffer of 2 | 353 252 | `HelloKept`, `TruncationHonest`, `ReportFaithful` |
| `MCReplay` | one TCP pair, one UDP pair, seven kinds of Initial, live or replayed with timestamps 1..3 in any order, two streams opened, two units per direction, clock until 5 | 252 962 | `ReportedOnce`, `FrozenOnceReported`, `ReportedOnRelease`, `QuietIsReleased` (liveness) |
| `MCCap` | two TCP and two UDP pairs, `MaxStreams` = 1, three opened or dropped | 231 363 | `LiveBalanced`, `CapHolds`, `CountersPartition`, `CloseReleasesAll`, `ShortfallReported` |
| `MCCommands` | three flows, two files, `read`, `watch` and both kinds of `serve`, sources that fail | 20 707 | `TypeOK`, `ReportSound`, `CensusKept` (refinement), `SnapshotFaithful`, `InterruptEnds` (liveness) |
| `MCObservation` | hellos of up to three extensions out of 21 (client) and 10 (server), 19 suites | 123 519 | `BadExtensionIsolated`, `DecodedFaithful` (ECH included), `RecordFaithful` (grade, version, suite), `FingerprintStable` |
| `MCReport` | nine flows, four added, table of 2, 2 tracked clients, a page of one row, records kept or not | 30 004 | `AllAccountedFor` (with the limits), `TalliesFaithful` (aggregates and summary), `WorstFirst`, `BomFaithful` (complete, no decoys, closed), `RepublishedAlike` |
| `MCCrypto` | four units, packets of up to two frames, three packets, limits 5 and 3, datagrams whose fields end at, or run past, the end of the buffer | 38 820 | `BoundedHold`, `PrefixGenuine`, `NothingMissed`, `NeverPanics`, `PrefixGrows` |
| `WindowsClose` | listings of up to two of five adapters, ten requests, three packets, two closers | 18 133 | `NoUseAfterFree`, `HandleOwned`, `DeviceIntended`, `SourceKept` (refinement), `CloseEnds` (liveness) |
| `DarwinClose` | three devices, four packets in batches of up to three, two closers | 2 480 | `NoPacketForgotten`, `DescriptorOwned`, `SourceKept` (refinement), `CloseEnds` (liveness) |
| `MCRetry`, `MCFailure`, `DarwinReuse` | | | three disagreements between the code and its comments, below |

**Bounds.** They are chosen so that each limit in the code is met and passed. A
prefix buffer of two units with three on the wire is filled exactly, overrun by
one segment, and overrun by a later one. A cap of one stream with two TCP and two
UDP pairs has a full table, a refused connection, and a slot given back and taken
again. Timestamps 1..3 with a timeout of 1 let a packet be older than the last
flush, as old, and newer. `MaxOpens` lets an address pair be used again after
its first stream is gone. Four records of nine flows in a table of two overflow
it with known and new keys, and three clients overflow a set of two; the flows
share and renew certificates, mix ECH with none, leave a server silent, and
select a suite and a group that have no name. Three extensions are enough for one
of a type after another, readable after unreadable and the reverse, with a third
between them. `HalfInt` is 128, with datagrams of up to 127 bytes, so that a
length of one or two bytes already wraps; the proof covers every width. Four units
in three packets of two frames overlap, repeat and leave gaps, and pass both
limits of `cryptoStream`. Two adapters at a time, of five, include names that are
equal up to case, a name that is part of the other, a name made of words every
path holds, an adapter without a description, one that is up without a route, one
that has a route and is down, and loopback.
`CHECK_DEADLOCK FALSE` is used where the bounds on traffic end a behaviour;
`Pipeline` and the sources have explicit final states and are checked for
deadlock.

**Symmetry** is used in `MCCap` only, over pairs of one kind, which the
specification does not distinguish; that run has no temporal property.

**Fairness.** `Assembler`: the ticker keeps firing and time passes (`WF` of
`Sweep` and `Tick`); no packet is ever assumed to come. `Pipeline`: every
goroutine that can run does (`WF`); the sweeper's `select` chooses at random
among ready cases, so it does not prefer its ticker for ever (`SF` of
`SweeperStops`); a server that shows files returns once it has its signal; a read on a closed source returns (`WF` of `RunFails` with the
source closed), which is what the source models show for Windows and macOS, and
what pcapgo is trusted for on Linux. Nothing is assumed about a source failing by
itself, nor about signals or requests. Sources: the goroutines run, and a driver
read returns within its timeout, which both files configure. The Windows closer
needs only weak fairness: it sets `closed` first, so the reader leaves the lock
alone from then on.

## What is proved

For all constants that satisfy the named assumptions, with no bound on packets,
flows, records or time:

| theorem | says |
| --- | --- |
| `AssemblerProofs!TypeCorrect` | the assembler's state keeps its types, `LiveStreams` included, which is decremented |
| `AssemblerProofs!LiveStreamsBalanced` | `LiveStreams` is the number of slots held |
| `AssemblerProofs!CapsHold` | neither table holds more than `MaxStreams` slots |
| `AssemblerProofs!CountersPartitioned` | no stream is counted twice among reported, rejected and undecided |
| `AssemblerProofs!HandledOnce` | the handler is called at most once per stream |
| `AssemblerProofs!HelloAlwaysKept` | a ClientHello inside the retained prefix is found, however it is cut |
| `AssemblerProofs!TruncationAlwaysHonest` | a buffer that is not all that was delivered is marked truncated |
| `AssemblerProofs!ReportsFaithful` | a report names the right client, and its server half is what that server said |
| `AssemblerProofs!ReleasedReported`, `ReportedFrozen` | a flow with a hello leaves the tables with one report, and nothing writes to it afterwards |
| `AssemblerProofs!ShortfallAlwaysReported` | `StreamsDropped` covers every connection turned away |
| `AssemblerProofs!CloseEmpties` | `Close` empties both tables, if no packet is stamped more than an hour ahead of the clock |
| `CryptoFlowProofs!NeverPanicsHolds` | no datagram makes `ParseLongHeader` or `Open` slice outside it, for every width of `int` and every contents |
| `CryptoFlowProofs!HoldAlwaysBounded` | what a direction retains is within its limits, and `total` is exactly that |
| `CryptoFlowProofs!PrefixAlwaysGenuine`, `PrefixOnlyGrows`, `NothingEverMissed` | `prefix` is what was sent up to the first byte not held, never shrinks, and within the limits misses nothing seen |
| `PipelineProofs!TypeCorrect`, `ReportAlwaysSound`, `SnapshotsFaithful`, `ImplementsCensus` | types; a report accounts for all flows; a page is of one moment; refinement of `Census` |
| `InventoryProofs!AlwaysAccountedFor` | every record is in one aggregate or counted as dropped, nothing is dropped while there is room, and the limits hold |
| `InventoryProofs!AlwaysFaithful` | aggregates and summary are those of a batch computation over all records |
| `InventoryProofs!AlwaysWorstFirst` | records, findings and rows, sorted apart, agree on what is worst, and the rows the page cuts are counted and no worse than those shown |
| `InventoryProofs!AlwaysAlike` | two reports of the same inventory agree in all but the order of equally ranked rows |
| `InventoryProofs!AlwaysBomFaithful` | the CBOM lists every asset negotiated with every place it was, nothing else, no name hidden by ECH, and no reference that leads nowhere |
| `ObservationProofs!WalkInductive`, `ObservationDecoded` | what is decoded of any message is what a reader of the whole of it would say, ECH included |
| `ObservationProofs!ObservationIsolated` | an extension that cannot be read changes nothing the others say |
| `ObservationProofs!ObservationRecord`, with `ObservationGrade`, `ObservationVersion` | grade, version and suite are judged by what was on the wire |
| `ObservationProofs!ObservationFingerprint` | no disguise of a message without repeated extensions changes its JA4; a server's other order changes its JA4S (that half is immediate: JA4S keeps the order) |
| `WindowsSourceProofs!TypeCorrect`, `NeverUsedAfterFree`, `HandleAlwaysOwned`, `ImplementsSource` | types; no driver call on a freed handle; no handle left behind; refinement of `Source` |
| `WindowsSourceProofs!DeviceAlwaysIntended` | the device opened is the one the tiers of matching single out |
| `DarwinSourceProofs!TypeCorrect`, `EveryPacketHandedOut`, `DescriptorAlwaysOwned`, `ImplementsSource` | types and a single close; no packet of a batch is lost; no device left open; refinement of `Source` |

**Assumptions on constants.** Sets of pairs are finite and limits positive; what
is sent is a sequence of units. The datagram that carries the sender's packets is
well-formed, and a strange one is not sealed by the sender. An Npcap listing has
one entry per device path. A flow's times are those of its packets, so its first
time is not the zero time, and its certificates are a list; more than one client
is tracked per aggregate (the code: 256). Names asked for are numbered in their
alphabetical order, and so are the suites, each once (`SuiteOrder`), the ones that
a flow may select among them. TLC evaluates them on every run.

**Induction over data.** The library's induction theorems take an operator, which
no backend can instantiate. `FoldLemmas` states induction for a *set* instead:
every set of naturals has a least member (`LeastNumber`, from the
well-foundedness of `<`), hence a set that holds 0 and the successor of each
member up to n holds 0..n (`InductionUpTo`), and a family that holds the empty
set and is closed under adding a member holds a finite set (`InductionOverParts`).
A proof cites them with the set of those numbers for which its claim holds. A
recursive function of the model is first shown to exist, as the solution of its
equation inside a set its steps do not leave (`RecursionUpTo`), and sums of the
library are shown not to depend on the order in which they are taken
(`TotalSplit`, `SumFunctionIs`). `InductionOverSeq` does for a list what they do
for a number. This is how `CryptoFrames`, `prefix`, `Without`, `ChainFindings`,
`MaxSeverity`, the loop over a record's findings and the three loops of the CBOM
are treated. For that, they are written as recursive functions and not with
`FoldSeq`.

**Assembler.** None of its first five theorems is inductive alone. `IInv` is a
predicate on an
assembler *value*, so that it can be carried through the functions an entry point
calls: types (`AsmOK`), the relation of the flags of one stream to each other and
to the handler's calls (`Coherent`: reported implies a hello, rejected implies
none, every stream that took no slot is rejected), the balance (`Balanced`), the
cap (`Capped`) and the partition (`Partitioned`). `Coherent` is what the others
need: a stream is only reported while undecided because rejection excludes a
hello. There is one lemma per Go function (`EmitOK`, `RejectOK`, `ParseOK`,
`ReassembledSGOK`, `ReassemblyCompleteOK`, `NewStreamOK`, `FlushQUICOK`,
`QUICPacketOK`, ...), two about a step that rewrites one stream (`TCPStep`,
`QUICStep`), and the counting facts they rest on (`OneChanged`, `DisjointUnion`,
`DisjointParts`). `NextInv` puts them together, one case per action.

**The assembler's history.** What is reported must agree with what was sent, so
the invariant `History` relates the state to `wire`. Its main part, `Truthful`,
says of each stream: while it is read, each buffer is the cut of what that
direction delivered, and cut only if `truncated` (`Holds`); the flow's client is
whoever said hello, and the server half is what the other side had said at some
point (`Attributed`); no hello was overlooked in what is held (`Unseen`); and a
stream is given up only when neither direction can bring one any more
(`Settled`). The last is what makes `HelloKept` inductive: without it, a stream
rejected early could not be told from one rejected rightly. The scan of
`Handshake` is used through a few facts: what it finds in a prefix it finds in
every extension, and what is not TLS stays so. The other parts count
(`ShortfallReported`) and date (`Stamped`) what is held. `Close` passes
`flushQUIC` the wall clock plus an hour (`assembler.go:266`): files stamped later
than that leave flows in the table, so `CloseEmpties` has the condition
`WithinHour`, which every live capture meets.

**CryptoFlow.** A step crashes only if `Panics(d)`, so it is enough that no
datagram panics (`NoDatagramPanics`). The token is compared as a 64-bit number
before it is converted, so it is at most the datagram's length and converting it
changes nothing (`AsIntSmall`); the end of the packet may wrap, but then it is
negative (`AsIntType` bounds it), and `Open` takes no slice because the packet
number would lie behind it. For the stream, `CryptoOK` says that it is made of
pieces of what was sent, that `total` is the sum of their lengths, and that it is
within its limits; `WalkOK` is the loop invariant of `prefix` (what is out so far
is what was sent, as far as the pieces passed reach together, and a gap is a
byte nobody holds); `FlowOK` says that within the limits nothing was refused.

**Pipeline.** `Inv` says where every flow is: unseen, open in the assembler, in
the hands of exactly one call, or counted (`PlacesOK`), and where its record is:
queued, held by one goroutine, or written (`RecordsOK`). `Stats` counts a flow
before the accumulator has it (`StatsOK`), and a goroutine holds flows or records
only at the stages of its call (`StagesOK`), which with the mutex gives
`SnapshotFaithful`. Which goroutine can be where in each phase of each command
(`PhasesOK`) shows that the sweeper is gone before the assembler is closed; then
nothing is open when the report is made (`ReportOK`). Each action maps to a step
of `Census` or to a stutter.

**Inventory.** `AccountsOK` strengthens `AllAccountedFor`: when a finding is new
to the table and there is room, nothing was ever dropped, and so no earlier record
has its key (`NewIsNew`). Without that a new entry could not be faithful.
`EntryFaithful` compares an entry with the records of its key in the log: a set of
tracked clients is all of them as long as it is not full (`Tracks`), and
`clientsCapped` says exactly whether one is missing. `SummaryOK` does the same for
each counter, distribution and finding. The ECH estimate is a sum over aggregates
and the property counts records; `CountsTotal` equates them by induction over the
set of aggregates, and `GreaseIs` shows that a capped set of two or more config
ids still tells whether they varied.

**Windows.** `IInv` adds to the types that a handle that is not 0 has not been
freed, that a reader holding the lock has a handle (`HandleInv`), and that nobody
closes a source before `OpenLive` has returned it, nor is there a handle before
`pcap_open_live` (`OpenInv`). `Picked` says that what is recorded as chosen is
what `PickDevice` gives for the listing; `DeviceIntended` then follows tier by
tier. **macOS.** `IInv` adds where in `Next` the buffer is
empty (`BufferInv`), that before the swap of `closed` nobody closes and after it
at most one does (`CloserInv`), and what the descriptor names while `OpenLive`
runs (`OpenInv`).

**Observation.** The invariant `WalkInv` says what is known after some extensions
of a message, as a closed form of the extensions read: each field is that of the
*last* extension of the kind that sets it (`Latest`, where the kind is a set of
extensions, so that one malformed is of no kind), a flag is whether there was one
(`Spots`), and the list of types is what is left of them without GREASE. Each
extension takes the closed form one further (`DecodedFurther`, `AnsweredFurther`),
and so does each step of the parsers (`ClientFurther`, `ServerFurther`). What the
properties say of the whole message then follows: an extension of no kind can be
taken out (`RestDecoded`), a permutation that moves the only member of each kind
leaves it the last (`ShuffledLatest`), and lists with the same members sort to the
same fingerprint (`SortedSame`, from the permutation's being a bijection). For the
findings, a suite's name is taken apart as it was put together (`ReadOff`): for
any regular name, of whatever length, each finding is there exactly if a word of
it says so (`LegacyJudged`, `TLS13Judged`), and every name of the table is regular
(`CipherJudged`); the table is the sample of one suite of every shape, so the
other entries of the code's table are covered as far as their names are regular.
Trying to prove `VersionJudged` showed that a list may offer a version of number
0, which the code takes for no version; the property says so, and the run offers
such a list.

**Report.** `ReportOK` says that what was published is what the operators make of
the accumulator, or nothing, and that the accumulator is `Publishable`: faithful
(`TalliesOK`), its entries with names and suites that have a rank, its findings
with the severities of the records. Different ranks are ordered (`PrecedesOrders`),
so `Ranked` is a permutation in which they rise (`RankedIs`): the element of each
place is the one with that many before it. That rows of two reports agree but for
ties is a count: at each place, both have a row with as many better ones
(`AlikeRows`, `Pigeonhole`). For the CBOM the invariant of the loops speaks of the
*uses* met so far, a record and one of its assets. `Covers` says that the
references listed are those of the uses, and that each reference has the component
of one of its uses and the places of all of them; `Listed` says the same of a
protocol's suites, `Linked` of the dependencies. One more asset enters by
`EnterCovers`, a record by `AddRecordSays`, all records by `BuildSays`. The records
are sorted before; that is a bijection of uses, and the three do not depend on the
order (`ReorderedSays`).

**Only model-checked:** the liveness properties (`QuietIsReleased`,
`InterruptEnds`, `CloseEnds`), which need fairness and `ENABLED`; and, of the runs
that expect a violation, the three properties themselves.

## Where the code and its comments disagree

Three are shown by a run that TLC finds violated:

- `MCRetry`: a HelloRetryRequest captured in a segment of its own latches
  `haveSH` (`assembler.go:418`), so the real ServerHello is never read, although
  `record.go:180-182` says the retry is "only returned if no real ServerHello
  follows it in the captured prefix".
- `MCFailure`: a capture failure followed by an interrupt before `stopping` is
  examined is forgotten (`watch.go:137`); `watch.go:121-122` says `stopping`
  distinguishes the two.
- `DarwinReuse`: `Close` frees the descriptor number while a reader may be
  between its check and its read (`live_darwin.go:251`); `live_darwin.go:139-140`
  gives that race as the reason not to rely on closing.

Others were met while modelling and have no run; the model does what the code
does:

- `quic.go:136` caps QUIC flows by their own table, so TCP and QUIC together
  reach twice `MaxStreams`, which `assembler.go:120` calls the cap on tracked
  connections. `CapHolds` states the bound that holds.
- `quic.go:137` counts every Initial of a refused connection in
  `StreamsDropped`, which `assembler.go:146` says counts connections.
- `assembler.go:266` closes QUIC flows with a cutoff of the wall clock plus an
  hour; a replayed flow stamped later than that stays. `MCCap` checks
  `CloseReleasesAll` for live capture, where it holds.
- `assembler.go:415` stops reading a TLS 1.2 flight once its ServerHello was
  found, so a flight split after it is reported only at the close, not "as soon
  as the server has finished speaking in the clear" (`assembler.go:419-420`).
- `live_windows.go:246` says an empty name "selects the first non-loopback device
  with an address"; `defaultDevice` wants a routable address and prefers an
  adapter that is up.
- `aggregate.go:124` counts refused records, `aggregate.go:213` speaks of
  distinct findings.
- `summary.go:180` adds up connections, `summary.go:48-49` speaks of destinations.
- `serve.go:59-62` keeps no records because "every view it renders is built from
  aggregates anyway", and `watch` keeps none either; but the CBOM is built from
  records (`cbom.go:179`), so `/report.cbom.json` and `watch -o cbom` list nothing.
  In `Report`, `BomFaithful` relates the CBOM to the records kept.
- `cbom.go:303-304` says the same inventory produces the same document. The order
  of a protocol's suites, and which of two certificates of equal subject and
  algorithm is described, depend on the order of the records.
- A suite and a group without a name and of equal number have one reference
  (`cbom.go:196`, `cbom.go:203`), and the component is whichever came first.
- `grease.go` says GREASE is stripped from every list exposed; ALPN and PSK modes
  are not stripped, and GREASE in `signature_algorithms_cert` is not noted.
- `html.go:84-87` says that what the page drops is counted; it counts the rows cut
  by the page and not `AggregatesDropped`, which only the text report prints.
- `packet.go` records where a packet ends for the packets coalesced behind it;
  `quicPacket` reads only the first packet of a datagram.
- `aggregate.go:195` compares aggregates by less than their key, so rows that tie
  come out in any order; `aggregate.go:194` wants runs to be diffable.

## Not modelled

- The bytes of an extension, of a variable-length integer and of a certificate:
  they are given by what can be read of them. `analyzeCerts` (X.509) and the
  signature algorithm names are libraries and tables.
- The cryptography of QUIC: a key opens what it sealed.
- `Packets`, `TCPPackets`, `UDPPackets` and `lastTS`, which no decision reads;
  packets without a network layer, which only raise a counter.
- The token of `serve`, its headers and HTTP itself.
- Rank and top-N of distributions, texts of findings, a server name that spells
  an address, the layouts of text, JSON and HTML, and the digest in the CBOM's
  serial number.
- The ioctls of `configure` one by one, driver options, BPF filters, file formats:
  calls into the system and pcapgo. The Linux source is a thin wrapper over pcapgo.
- The command line, the synthesiser and the comparison of parsers, which are no
  part of the running program's state.

## Plan

Done: Assembler, Pipeline and Census, Inventory, sources and CryptoFlow with the
first proofs; then Hello and Observation, Datagram, Report, `serve` with files,
and the QUIC shortfall.

Then the proofs: `Pipeline` with its refinement, the history of `Assembler`,
`cryptoStream` and its prefix, the choice of a device, the whole of `Inventory`,
and last the walks of `Observation` and the lists of `Report`. With them, every
safety property of a passing run is a theorem.

What could follow:

1. A run for `Close` on files stamped in the future (`assembler.go:263`).
2. A rule for names in place of the table of suites: `LegacyJudged` already holds
   for every regular name, and the entries left out could be checked to be so.
3. `CryptoFlow` inside `Assembler`, where a direction of a QUIC flow is now reduced
   to its units.
