------------------------------- MODULE Report -------------------------------
(***************************************************************************)
(* internal/report, with Accumulator.Aggregates and Summary that feed it:  *)
(* what is published of an inventory at some moment, by snapshot while the *)
(* capture goes on or by finish at its end.  The records are ranked, the   *)
(* aggregates leave a Go map in any order and are ranked, the page shows   *)
(* the first of them, and the CBOM lists the cryptographic assets in use.  *)
(*                                                                         *)
(* Texts, colours, percentages and JSON are left out.  A definition marked *)
(* as a fault is not part of the specification: put in place of the        *)
(* definition after it, it must break a property (README).                 *)
(***************************************************************************)
EXTENDS Inventory

CONSTANTS
  MaxHTMLRows,   \* maxHTMLRows
  SuiteOrder     \* suites in the alphabetical order of their names, -1 (none) first

ASSUME ReportAssumption ==
  /\ MaxHTMLRows \in Nat
  /\ SuiteOrder \in Seq(Int) /\ IsInjective(SuiteOrder)
  /\ \A f \in Observed : f.hello.name \in Nat /\ Analyze(f).cipher \in Range(SuiteOrder)

VARIABLES
  keep,     \* pipeline.keep: read keeps the records, watch and serve do not
  report    \* what was published last and still describes acc, or <<>>

reportVars == <<acc, log, keep, report>>

\* pipeline.records
Records == IF keep THEN log ELSE <<>>

(***************************************************************************)
(* Ranking                                                                 *)
(***************************************************************************)

\* x is before y where two tuples of numbers first differ.
Precedes(x, y) == \E i \in DOMAIN x : x[i] < y[i] /\ \A j \in 1..(i - 1) : x[j] = y[j]

\* What has a rank, in the order of the ranks, which are all different.
Ranked(rank) ==
  LET S == DOMAIN rank
  IN  [i \in 1..Cardinality(S) |->
         CHOOSE x \in S : Cardinality({y \in S : Precedes(rank[y], rank[x])}) = i - 1]

\* Where in a list without repetition something is.
Place(list, x) == CHOOSE i \in DOMAIN list : list[i] = x

\* A fault: the newest record comes first.
RecordRankByTime(r, i) == <<-r.first, i>>

\* SortRecords: worst first, then oldest first; the sort is stable, so that the
\* i-th record stays before later ones that are equal to it.
RecordRank(r, i) == <<-Rank[MaxSeverity(r)], r.first, i>>

SortRecords(records) ==
  LET order == Ranked([i \in DOMAIN records |-> RecordRank(records[i], i)])
  IN  [i \in DOMAIN records |-> records[order[i]]]

\* A fault: equally bad and frequent aggregates stay as the map gave them.
AggregateRankShort(e) == <<-Rank[e.sev], -e.count>>

\* Aggregates: worst first, then most frequent, then by name and by suite.
AggregateRank(e) ==
  <<-Rank[e.sev], -e.count, e.name, Place(SuiteOrder, e.cipher)>>

\* The orders in which Aggregates may return the table: those the comparison
\* does not forbid, since it starts from a map and sorts without stability.
Aggregates(a) ==
  {rows \in SetToSeqs(DOMAIN a.aggs) :
     \A i, j \in DOMAIN rows :
       i < j => ~Precedes(AggregateRank(a.aggs[rows[j]]), AggregateRank(a.aggs[rows[i]]))}

\* The identifiers of findings in alphabetical order.
FindingIDs ==
  <<"anonymous_key_exchange", "broken_cipher", "certificate_expired", "certificate_sha1_signature",
    "classical_key_exchange", "compression_offered", "ech_offered", "export_cipher",
    "legacy_protocol", "no_forward_secrecy", "null_encryption", "obsolete_protocol",
    "sha1_signature", "unknown_cipher", "weak_certificate_key", "weak_cipher">>

\* Summary's findings: worst first, then most frequent, then by identifier.
RankedFindings(a) ==
  Ranked([id \in DOMAIN a.findings |->
            <<-Rank[a.findings[id].sev], -a.findings[id].count, Place(FindingIDs, id)>>])

\* buildView: the rows shown, and how many are not.
Page(rows) ==
  [rows |-> SubSeq(rows, 1, Min({Len(rows), MaxHTMLRows})),
   truncated |-> IF Len(rows) > MaxHTMLRows THEN Len(rows) - MaxHTMLRows ELSE 0]

(***************************************************************************)
(* The CBOM                                                                *)
(***************************************************************************)

\* slug of a rendered name.  A codepoint without a name is rendered as its
\* number, and then a suite and a group of equal number share a reference.
AlgorithmRef(kind, id, named) == IF id \in named THEN <<kind, id>> ELSE <<"number", id>>

ProtocolRef(r) == <<"protocol", r.version>>

\* A certificate is known by its subject and its signature algorithm.
CertificateRef(c) == <<"certificate", c.subject, c.sha1>>

\* cipherPrimitive
CipherPrimitive(c) ==
  IF "NULL" \in Words(c.encryption) THEN "other"
  ELSE IF c.aead THEN "ae"
  ELSE IF c.encryption = <<>> THEN "unknown"
  ELSE IF c.encryption[1] = "RC4" THEN "stream-cipher"
  ELSE "block-cipher"

CipherComponent(id) ==
  [kind |-> "cipher", id |-> id, primitive |-> CipherPrimitive(Cipher(id)), level |-> 0]

\* nistLevel, by the KEM in a group's name.
NISTLevel(id) ==
  IF id \in {514, 4589} THEN 5
  ELSE IF id \in {513, 4587, 4588, 25497, 25498} THEN 3
  ELSE IF id = 512 THEN 1
  ELSE 0

GroupComponent(id) ==
  [kind |-> "group", id |-> id, level |-> NISTLevel(id),
   primitive |-> IF id \in Hybrid THEN "combiner" ELSE IF id \in PureKEM THEN "kem" ELSE "key-agree"]

\* A fault: the visible name is given although it may be the provider's.
WhereNamed(r) == IF r.name = 0 THEN <<"address", r.server, r.port>> ELSE <<"name", r.name>>

\* Where an asset was seen.
Where(r) == IF r.name = 0 \/ r.ech THEN <<"address", r.server, r.port>> ELSE <<"name", r.name>>

\* The assets of a record, in the order they are added.
SuiteAsset(r) == [ref |-> AlgorithmRef("suite", r.cipher, DOMAIN CipherSuiteNames),
                  comp |-> CipherComponent(r.cipher)]
GroupAsset(r) == [ref |-> AlgorithmRef("group", r.group, GroupIDs),
                  comp |-> GroupComponent(r.group)]
ProtocolAsset(r) == [ref |-> ProtocolRef(r), comp |-> [kind |-> "protocol", id |-> r.version]]
CertificateAsset(c) == [ref |-> CertificateRef(c), comp |-> [kind |-> "certificate", cert |-> c]]
Assets(r) ==
     <<SuiteAsset(r)>>
  \o (IF r.group = 0 THEN <<>> ELSE <<GroupAsset(r)>>)
  \o <<ProtocolAsset(r)>>
  \o [i \in DOMAIN r.certs |-> CertificateAsset(r.certs[i])]

\* cbomBuilder.add: the first component with a reference is the one kept.
AddAsset(assets, x, where) ==
  LET old == IF x.ref \in DOMAIN assets THEN assets[x.ref]
             ELSE [comp |-> x.comp, seen |-> {}, count |-> 0, suites |-> <<>>]
  IN  [ref \in DOMAIN assets \cup {x.ref} |->
         IF ref # x.ref THEN assets[ref]
         ELSE [old EXCEPT !.seen = @ \cup {where}, !.count = @ + 1]]

\* A record's assets, one after the other.
AddAssets(assets, list, where) ==
  LET after[n \in 0..Len(list)] ==
        IF n = 0 THEN assets ELSE AddAsset(after[n - 1], list[n], where)
  IN  after[Len(list)]

\* A fault: the protocol lists whichever suite was seen first.
AddFirstSuite(assets, r) ==
  [assets EXCEPT ![ProtocolRef(r)].suites = IF @ = <<>> THEN <<r.cipher>> ELSE @]

\* addCipherSuite
AddCipherSuite(assets, r) ==
  [assets EXCEPT ![ProtocolRef(r)].suites = IF r.cipher \in Range(@) THEN @ ELSE Append(@, r.cipher)]

\* A fault: a protocol depends on its suites alone.
DependsOnSuite(r) == {SuiteAsset(r).ref}

\* What the protocol of a record depends on.
DependsOn(r) == {Assets(r)[i].ref : i \in DOMAIN Assets(r)} \ {ProtocolRef(r)}

\* One round of buildCBOM; only negotiated cryptography is an asset.
AddRecord(bom, r) ==
  IF ~r.observed THEN bom
  ELSE [assets |-> AddCipherSuite(AddAssets(bom.assets, Assets(r), Where(r)), r),
        deps |-> [ref \in DOMAIN bom.deps \cup {ProtocolRef(r)} |->
                    (IF ref \in DOMAIN bom.deps THEN bom.deps[ref] ELSE {})
                      \cup (IF ref = ProtocolRef(r) THEN DependsOn(r) ELSE {})]]

\* buildCBOM; the document is sorted by reference, and its serial number is a
\* digest of the references.
BuildCBOM(records) ==
  LET built[n \in 0..Len(records)] ==
        IF n = 0 THEN [assets |-> <<>>, deps |-> <<>>] ELSE AddRecord(built[n - 1], records[n])
  IN  built[Len(records)]

(***************************************************************************)
(* The specification                                                       *)
(***************************************************************************)
ReportInit == Init /\ keep \in BOOLEAN /\ report = <<>>

\* Another flow is handled: the publication is of the past.
HandleFlow(f) == Handle(f) /\ report' = <<>> /\ UNCHANGED keep

\* snapshot or finish, and the writers.
Publish ==
  /\ \E rows \in Aggregates(acc) :
       LET records == SortRecords(Records)
       IN  report' = [records |-> records, rows |-> rows, page |-> Page(rows),
                      findings |-> RankedFindings(acc), bom |-> BuildCBOM(records)]
  /\ UNCHANGED <<acc, log, keep>>

ReportNext == Publish \/ \E f \in Observed : HandleFlow(f)

ReportSpec == ReportInit /\ [][ReportNext]_reportVars

(***************************************************************************)
(* Properties                                                              *)
(***************************************************************************)
Published == report # <<>>
Row(i) == acc.aggs[report.rows[i]]

\* The lists of a report, computed apart, agree on what is worst: the first
\* record kept, the first finding and, if nothing was dropped, the first row
\* have the same severity.  What the page leaves out is counted, and nothing left
\* out is worse than anything shown.
WorstFirst ==
  Published /\ log # <<>> =>
    LET worst == Max({Rank[MaxSeverity(log[i])] : i \in DOMAIN log})
        shown == Len(report.page.rows)
    IN  /\ keep => Rank[MaxSeverity(report.records[1])] = worst
        /\ report.findings # <<>> => Rank[acc.findings[report.findings[1]].sev] = worst
        /\ acc.aggDropped = 0 => Rank[Row(1).sev] = worst
        /\ shown + report.page.truncated = Cardinality(AggKeys)
        /\ \A i \in 1..shown, j \in (shown + 1)..Len(report.rows) : Rank[Row(i).sev] >= Rank[Row(j).sev]

\* The uses of an asset in the records kept: a record that was answered and a
\* position among its assets.
Uses(ref) ==
  UNION {{i} \X {j \in DOMAIN Assets(Records[i]) : Assets(Records[i])[j].ref = ref} :
           i \in {i \in DOMAIN Records : Records[i].observed}}

\* An asset for each one negotiated and for nothing that was only offered, every
\* use counted, every place listed once, every suite of a protocol listed once,
\* and a component that one of the uses has.
BomComplete ==
  Published =>
    LET assets == report.bom.assets
        answered == {r \in Range(Records) : r.observed}
    IN  /\ DOMAIN assets = UNION {{Assets(r)[j].ref : j \in DOMAIN Assets(r)} : r \in answered}
        /\ \A ref \in DOMAIN assets :
             /\ assets[ref].count = Cardinality(Uses(ref))
             /\ assets[ref].seen = {Where(Records[u[1]]) : u \in Uses(ref)}
             /\ \E u \in Uses(ref) : assets[ref].comp = Assets(Records[u[1]])[u[2]].comp
             /\ Range(assets[ref].suites) = {r.cipher : r \in {x \in answered : ProtocolRef(x) = ref}}
             /\ IsInjective(assets[ref].suites)

\* A name that ECH may have made a decoy is no place where an asset was seen,
\* unless another handshake showed it without ECH.
DecoyNotListed ==
  Published =>
    \A ref \in DOMAIN report.bom.assets : \A place \in report.bom.assets[ref].seen :
      place[1] = "name" => \E i \in DOMAIN log : log[i].name = place[2] /\ ~log[i].ech

\* The dependency graph is closed: what a protocol depends on is a component,
\* and every other component is something a protocol depends on.
BomClosed ==
  Published =>
    LET refs == DOMAIN report.bom.assets
        deps == report.bom.deps
        protocols == {ref \in refs : report.bom.assets[ref].comp.kind = "protocol"}
    IN  DOMAIN deps = protocols /\ UNION {deps[p] : p \in protocols} = refs \ protocols

\* The CBOM says of the records kept what a batch computation over them says,
\* in whichever order they came, places nothing at a decoy, and is closed.
BomFaithful == BomComplete /\ DecoyNotListed /\ BomClosed

\* "by name so runs are diffable": two reports of the same records show the
\* same severity, count, name and suite row by row, although the rows come out
\* of a map.  (What the comparison does not look at may still change places.)
RepublishedAlike ==
  [][report # <<>> /\ report' # <<>> =>
       \A i \in DOMAIN report.rows :
         LET x == acc.aggs[report.rows[i]]
             y == acc.aggs[report'.rows[i]]
         IN  <<x.sev, x.count, x.name, x.cipher>> = <<y.sev, y.count, y.name, y.cipher>>]_reportVars

=============================================================================
