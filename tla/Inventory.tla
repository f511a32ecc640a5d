----------------------------- MODULE Inventory -----------------------------
(***************************************************************************)
(* internal/inventory, the Accumulator: it folds records into a summary    *)
(* and into a bounded table of distinct findings.  Server names are        *)
(* numbers in alphabetical order, 0 is the empty string.                   *)
(*                                                                         *)
(* A definition marked as a fault is not part of the specification: put in *)
(* place of the definition after it, it must break a property (README).    *)
(***************************************************************************)
EXTENDS Analysis

CONSTANTS
  Observed,           \* the flows the handler may receive
  MaxAggregates,      \* maxAggregates
  MaxTrackedClients,  \* maxTrackedClients
  MaxAdds             \* bound: records added

\* A certificate as findings looks at it.
Certificate == [subject : Nat, weakKey : BOOLEAN, expired : BOOLEAN, sha1 : BOOLEAN, selfSigned : BOOLEAN]

\* A flow has the times of its packets, and 0 stands for no time.  (256 clients
\* are tracked; one would not do to see a config id vary.)
ASSUME InventoryAssumption ==
  /\ MaxAggregates \in Nat \ {0}
  /\ MaxTrackedClients \in Nat \ {0, 1}
  /\ MaxAdds \in Nat
  /\ \A f \in Observed : f.first \in Nat \ {0} /\ f.last \in Nat /\ f.certs \in Seq(Certificate)

VARIABLES
  acc,   \* the Accumulator
  log    \* history: the records added, in order

vars == <<acc, log>>

(***************************************************************************)
(* The table of distinct findings                                          *)
(***************************************************************************)

\* keyOf: a flow without a server name is known by its address.  (A server
\* name that spells an address is left out.)
KeyOf(r) ==
  [transport |-> r.transport, name |-> IF r.name = 0 THEN <<"ip", r.server>> ELSE <<"sni", r.name>>,
   port |-> r.port, version |-> r.version, cipher |-> r.cipher, group |-> r.group,
   alpn |-> r.alpn, pq |-> r.pq, ech |-> r.ech]

NewEntry(r) ==
  [name |-> r.name, cipher |-> r.cipher, ech |-> r.ech, count |-> 0,
   first |-> r.first, last |-> r.last, clients |-> {}, clientsCapped |-> FALSE,
   echConfig |-> {}, ja4s |-> {}, sev |-> "none", findings |-> {}]

\* A fault: one element too many.
TrackLate(S, x) == IF Cardinality(S) <= MaxTrackedClients THEN S \cup {x} ELSE S

\* Add x to a set that holds at most MaxTrackedClients.
Track(S, x) == IF Cardinality(S) < MaxTrackedClients THEN S \cup {x} ELSE S

\* A fault: a client already tracked overflows a full set.
OverflowsFull(S, x) == Cardinality(S) >= MaxTrackedClients

\* x is not in the set and there is no room for it.
Overflows(S, x) == Cardinality(S) >= MaxTrackedClients /\ x \notin S

\* The second half of addAggregate: fold a record into its entry.
FoldRecord(e, r) ==
  [e EXCEPT !.count = @ + 1,
            !.first = IF r.first < @ THEN r.first ELSE @,
            !.last = IF r.last > @ THEN r.last ELSE @,
            !.clients = Track(@, r.client),
            !.clientsCapped = @ \/ Overflows(e.clients, r.client),
            !.echConfig = IF r.ech THEN Track(@, r.echConfig) ELSE @,
            !.ja4s = Track(@, r.ja4),
            !.sev = Worse(MaxSeverity(r), @),
            !.findings = @ \cup {r.findings[i].id : i \in DOMAIN r.findings}]

\* A fault: a full table takes no more records of the findings it holds.
NoRoomAtAll(a, k) == Cardinality(DOMAIN a.aggs) >= MaxAggregates

\* k would be one finding too many.
NoRoom(a, k) == k \notin DOMAIN a.aggs /\ Cardinality(DOMAIN a.aggs) >= MaxAggregates

\* Accumulator.addAggregate
AddAggregate(a, r) ==
  LET k == KeyOf(r)
      e == IF k \in DOMAIN a.aggs THEN a.aggs[k] ELSE NewEntry(r)
  IN  IF NoRoom(a, k) THEN [a EXCEPT !.aggDropped = @ + 1]
      ELSE [a EXCEPT !.aggs = [x \in DOMAIN @ \cup {k} |-> IF x = k THEN FoldRecord(e, r) ELSE @[x]]]

(***************************************************************************)
(* The summary                                                             *)
(***************************************************************************)

\* The rows of the distributions a record is counted in; JA4 is never empty.
Rows(r) ==
  (IF r.observed THEN {<<"versions", r.version>>, <<"ciphers", r.cipher>>}
                 ELSE {<<"versions offered", r.offered>>})
  \cup {<<"pq", r.pq>>, <<"transport", r.transport>>, <<"ja4", r.ja4>>}
  \cup (IF r.group = 0 THEN {} ELSE {<<"groups", r.group>>})
  \cup (IF r.alpn = <<>> THEN {} ELSE {<<"alpn", r.alpn>>})
  \cup (IF r.name = 0 THEN {} ELSE {<<"names", r.name>>})

\* The findings table after one finding: the highest severity seen is kept.
AddFinding(x, t) ==
  [id \in DOMAIN t \cup {x.id} |->
     IF id # x.id THEN t[id]
     ELSE IF id \notin DOMAIN t THEN [sev |-> x.sev, count |-> 1]
     ELSE [sev |-> Worse(x.sev, t[id].sev), count |-> t[id].count + 1]]

\* The loop over a record's findings.
AddFindings(t, findings) ==
  LET after[n \in 0..Len(findings)] ==
        IF n = 0 THEN t ELSE AddFinding(findings[n], after[n - 1])
  IN  after[Len(findings)]

\* The maps of the distributions, after a record with these rows.
Count(rows, seen) ==
  [x \in DOMAIN rows \cup seen |->
     (IF x \in DOMAIN rows THEN rows[x] ELSE 0) + (IF x \in seen THEN 1 ELSE 0)]

\* A fault: an unanswered handshake counts against readiness.
DecidedAlways(r) == TRUE

\* Readiness is only meaningful where a negotiation was seen.
Decided(r) == r.observed

\* Accumulator.Add
Add(a, r) ==
  [AddAggregate(a, r) EXCEPT
     !.flows = @ + 1,
     !.first = IF @ = 0 \/ r.first < @ THEN r.first ELSE @,
     !.last = IF r.last > @ THEN r.last ELSE @,
     !.serverObserved = IF r.observed THEN @ + 1 ELSE @,
     !.pqDecided = IF Decided(r) THEN @ + 1 ELSE @,
     !.pqDone = IF r.observed /\ r.pq = "post_quantum" THEN @ + 1 ELSE @,
     !.echOffered = IF r.ech THEN @ + 1 ELSE @,
     !.rows = Count(@, Rows(r)),
     !.findings = AddFindings(@, r.findings)]

\* The ECH inference of Aggregates, and its roll-up in Summary.
LikelyGREASE(e) == e.ech /\ e.count > 1 /\ Cardinality(e.echConfig) > 1

\* The connections of the aggregates.
Counts == [k \in DOMAIN acc.aggs |-> acc.aggs[k].count]

ECHLikelyGREASE == SumFunctionOnSet(Counts, {k \in DOMAIN acc.aggs : LikelyGREASE(acc.aggs[k])})

Init ==
  /\ acc = [flows |-> 0, first |-> 0, last |-> 0, serverObserved |-> 0, pqDecided |-> 0,
            pqDone |-> 0, echOffered |-> 0, rows |-> <<>>, findings |-> <<>>,
            aggs |-> <<>>, aggDropped |-> 0]
  /\ log = <<>>

\* The handler of newPipeline, for one flow.
Handle(f) ==
  /\ Len(log) < MaxAdds
  /\ acc' = Add(acc, Analyze(f))
  /\ log' = Append(log, Analyze(f))

Next == \E f \in Observed : Handle(f)

Spec == Init /\ [][Next]_vars

(***************************************************************************)
(* Properties                                                              *)
(***************************************************************************)
AggKeys == DOMAIN acc.aggs

\* The records of the log that satisfy P.
Logged(P(_)) == {i \in DOMAIN log : P(log[i])}
OfKey(k) == Logged(LAMBDA r : KeyOf(r) = k)

\* The size of a set that stops growing at MaxTrackedClients.
Capped(S) == IF Cardinality(S) < MaxTrackedClients THEN Cardinality(S) ELSE MaxTrackedClients

\* A capture that never ends must not grow the table past maxAggregates, nor an
\* entry past maxTrackedClients.
LimitsHold ==
  /\ Cardinality(AggKeys) <= MaxAggregates
  /\ \A k \in AggKeys : LET e == acc.aggs[k] IN
       \A n \in {Cardinality(e.clients), Cardinality(e.ja4s), Cardinality(e.echConfig)} : n <= MaxTrackedClients

\* "What it drops is counted rather than silently discarded": within the limits,
\* every record is in exactly one aggregate or counted as dropped, and nothing
\* is dropped while there is room, nor for a finding already in the table.
AllAccountedFor ==
  /\ LimitsHold
  /\ SumFunction(Counts) + acc.aggDropped = Len(log)
  /\ acc.aggDropped > 0 => Cardinality(AggKeys) = MaxAggregates
  /\ acc.aggDropped = Cardinality(Logged(LAMBDA r : KeyOf(r) \notin AggKeys))

\* An aggregate says of its records what a batch computation over all of them
\* says, in whichever order they came: the count, the time range, the worst
\* severity, the findings, the capped number of clients and whether it is
\* exact.
AggregatesFaithful ==
  \A k \in AggKeys :
    LET e == acc.aggs[k]
        rs == {log[i] : i \in OfKey(k)}
    IN  /\ e.count = Cardinality(OfKey(k))
        /\ e.first = Min({r.first : r \in rs}) /\ e.last = Max({r.last : r \in rs})
        /\ Rank[e.sev] = Max({Rank[MaxSeverity(r)] : r \in rs})
        /\ e.findings = UNION {{r.findings[i].id : i \in DOMAIN r.findings} : r \in rs}
        /\ Cardinality(e.clients) = Capped({r.client : r \in rs})
        /\ e.clientsCapped <=> Cardinality({r.client : r \in rs}) > MaxTrackedClients

\* The summary too depends only on which records there were: the counters, the
\* range, and every distribution.  Post-quantum readiness is taken over the
\* answered handshakes alone, and the ECH estimate is the connections of the
\* aggregates in which the config id varied.
SummaryFaithful ==
  /\ acc.flows = Len(log)
  /\ log # <<>> => /\ acc.first = Min({log[i].first : i \in DOMAIN log})
                   /\ acc.last = Max({log[i].last : i \in DOMAIN log})
  /\ acc.serverObserved = Cardinality(Logged(LAMBDA r : r.observed))
  /\ acc.pqDecided = acc.serverObserved
  /\ acc.pqDone = Cardinality(Logged(LAMBDA r : r.pq = "post_quantum"))
  /\ acc.echOffered = Cardinality(Logged(LAMBDA r : r.ech))
  /\ ECHLikelyGREASE = Cardinality(Logged(LAMBDA r :
       r.ech /\ KeyOf(r) \in AggKeys
         /\ \E i, j \in OfKey(KeyOf(r)) : log[i].echConfig # log[j].echConfig))
  /\ DOMAIN acc.rows = UNION {Rows(log[i]) : i \in DOMAIN log}
  /\ \A row \in DOMAIN acc.rows :
       acc.rows[row] = Cardinality(Logged(LAMBDA r : row \in Rows(r)))
  /\ \A id \in DOMAIN acc.findings :
       acc.findings[id].count =
         SumFunction([i \in DOMAIN log |->
           Cardinality({j \in DOMAIN log[i].findings : log[i].findings[j].id = id})])

\* The numbers reported are those of a batch computation over all records.
TalliesFaithful == AggregatesFaithful /\ SummaryFaithful

=============================================================================
