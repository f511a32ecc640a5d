-------------------------- MODULE InventoryProofs --------------------------
(***************************************************************************)
(* Proofs about Inventory and Report: the table of findings and its        *)
(* counters, then the rankings of a report, then the CBOM.                 *)
(***************************************************************************)
EXTENDS Report, FoldLemmas, FunctionTheorems, SequenceTheorems

(***************************************************************************)
(* The table of distinct findings.                                         *)
(***************************************************************************)
Fields == {"flows", "first", "last", "serverObserved", "pqDecided", "pqDone", "echOffered",
           "rows", "findings", "aggs", "aggDropped"}
EntryFields == {"name", "cipher", "ech", "count", "first", "last", "clients", "clientsCapped",
                "echConfig", "ja4s", "sev", "findings"}

\* A set of bounded size.
Bounded(S) == IsFiniteSet(S) /\ Cardinality(S) <= MaxTrackedClients

EntryOK(e) ==
  /\ DOMAIN e = EntryFields /\ e.count \in Nat
  /\ Bounded(e.clients) /\ Bounded(e.ja4s) /\ Bounded(e.echConfig)

TableOK(a) ==
  /\ DOMAIN a = Fields
  /\ IsFiniteSet(DOMAIN a.aggs) /\ Cardinality(DOMAIN a.aggs) <= MaxAggregates
  /\ \A k \in DOMAIN a.aggs : EntryOK(a.aggs[k])
  /\ a.aggDropped \in Nat
  /\ a.aggDropped > 0 => Cardinality(DOMAIN a.aggs) = MaxAggregates

\* Track keeps a set bounded.
LEMMA TrackBounded ==
  ASSUME NEW S, Bounded(S), NEW x
  PROVE  Bounded(Track(S, x))
<1>1. MaxTrackedClients \in Nat /\ Cardinality(S) \in Nat
  BY InventoryAssumption, FS_CardinalityType DEF Bounded
<1>2. CASE Cardinality(S) < MaxTrackedClients
  <2>1. IsFiniteSet(S \cup {x}) /\ Cardinality(S \cup {x}) =
          IF x \in S THEN Cardinality(S) ELSE Cardinality(S) + 1
    BY FS_AddElement DEF Bounded
  <2>2. Track(S, x) = S \cup {x}
    BY <1>2 DEF Track
  <2>3. Cardinality(S \cup {x}) <= MaxTrackedClients
    BY <1>1, <1>2, <2>1
  <2> QED BY <2>1, <2>2, <2>3 DEF Bounded
<1>3. CASE ~(Cardinality(S) < MaxTrackedClients)
  BY <1>3 DEF Track
<1> QED BY <1>2, <1>3

\* A new entry is empty.
LEMMA NewEntryOK ==
  ASSUME NEW r
  PROVE  EntryOK(NewEntry(r)) /\ NewEntry(r).count = 0
<1>1. Bounded({})
  BY InventoryAssumption, FS_EmptySet DEF Bounded
<1> QED BY <1>1 DEF NewEntry, EntryOK, EntryFields

\* Folding a record into an entry counts it.
LEMMA FoldRecordOK ==
  ASSUME NEW e, EntryOK(e), NEW r, NEW d, d = FoldRecord(e, r)
  PROVE  EntryOK(d) /\ d.count = e.count + 1
<1>1. /\ DOMAIN d = EntryFields /\ d.count = e.count + 1
      /\ d.clients = Track(e.clients, r.client) /\ d.ja4s = Track(e.ja4s, r.ja4)
      /\ d.echConfig = IF r.ech THEN Track(e.echConfig, r.echConfig) ELSE e.echConfig
  BY DEF FoldRecord, EntryOK, EntryFields
<1>2. Bounded(d.clients) /\ Bounded(d.ja4s) /\ Bounded(d.echConfig)
  BY <1>1, TrackBounded DEF EntryOK
<1> QED BY <1>1, <1>2 DEF EntryOK

\* What addAggregate and then Add make of the table.
AddedTo(a, k, d, b) ==
  /\ DOMAIN b = Fields
  /\ NoRoom(a, k) => b.aggs = a.aggs /\ b.aggDropped = a.aggDropped + 1
  /\ ~NoRoom(a, k) =>
       /\ b.aggDropped = a.aggDropped
       /\ b.aggs = [x \in DOMAIN a.aggs \cup {k} |-> IF x = k THEN d ELSE a.aggs[x]]

LEMMA AddIs ==
  ASSUME NEW a, DOMAIN a = Fields, NEW r, NEW k, k = KeyOf(r),
         NEW e, e = IF k \in DOMAIN a.aggs THEN a.aggs[k] ELSE NewEntry(r),
         NEW d, d = FoldRecord(e, r), NEW b, b = Add(a, r)
  PROVE  AddedTo(a, k, d, b)
<1> DEFINE t == AddAggregate(a, r)
<1>1. CASE NoRoom(a, k)
  <2>1. t = [a EXCEPT !.aggDropped = @ + 1]
    BY <1>1 DEF AddAggregate
  <2>2. DOMAIN t = Fields /\ t.aggs = a.aggs /\ t.aggDropped = a.aggDropped + 1
    BY <2>1 DEF Fields
  <2> HIDE DEF t
  <2> QED BY <1>1, <2>2 DEF Add, t, Fields, AddedTo
<1>2. CASE ~NoRoom(a, k)
  <2> DEFINE s == [x \in DOMAIN a.aggs \cup {k} |-> IF x = k THEN d ELSE a.aggs[x]]
  <2>1. t = [a EXCEPT !.aggs = s]
    BY <1>2 DEF AddAggregate
  <2> HIDE DEF s
  <2>2. DOMAIN t = Fields /\ t.aggs = s /\ t.aggDropped = a.aggDropped
    BY <2>1 DEF Fields
  <2> HIDE DEF t
  <2> QED BY <1>2, <2>2 DEF Add, t, Fields, s, AddedTo
<1> QED BY <1>1, <1>2

(***************************************************************************)
(* The log.  A set of records stands for a condition on them.              *)
(***************************************************************************)
Recorded == {Analyze(f) : f \in Observed}

\* Where the members of C are in a sequence, and which of them are there.
Places(l, C) == {i \in DOMAIN l : l[i] \in C}
Among(l, C) == {l[i] : i \in Places(l, C)}

\* m is the log l and then r.
OneMore(l, r, m) == l \in Seq(Recorded) /\ r \in Recorded /\ m = Append(l, r)

\* Its positions are those of l and n.
GrowsBy(l, r, m, n) ==
  /\ DOMAIN m = DOMAIN l \cup {n} /\ n \notin DOMAIN l
  /\ m[n] = r /\ \A i \in DOMAIN l : m[i] = l[i]

LEMMA AppendIs ==
  ASSUME NEW l, NEW r, NEW m, OneMore(l, r, m)
  PROVE  \E n : GrowsBy(l, r, m, n)
<1> DEFINE n == Len(l) + 1
<1>1. Len(l) \in Nat /\ DOMAIN l = 1..Len(l) /\ DOMAIN m = 1..n
  BY DEF OneMore
<1>2. 1..n = (1..Len(l)) \cup {n} /\ n \notin 1..Len(l) /\ n \in Nat
  BY <1>1
<1>3. m[n] = r /\ \A i \in DOMAIN l : m[i] = l[i]
  BY <1>1 DEF OneMore
<1> QED BY <1>1, <1>2, <1>3 DEF GrowsBy

\* The positions are finitely many.
LEMMA WhereFinite ==
  ASSUME NEW l, l \in Seq(Recorded), NEW C
  PROVE  IsFiniteSet(Places(l, C)) /\ Cardinality(Places(l, C)) \in Nat
<1>1. DOMAIN l = 1..Len(l) /\ Len(l) \in Nat
  OBVIOUS
<1>2. IsFiniteSet(DOMAIN l)
  BY <1>1, FS_Interval
<1> QED BY <1>2, FS_Subset, FS_CardinalityType DEF Places

\* One more record that is in C.
LEMMA WhereIn ==
  ASSUME NEW l, NEW r, NEW m, OneMore(l, r, m), NEW C, r \in C
  PROVE  /\ Cardinality(Places(m, C)) = Cardinality(Places(l, C)) + 1
         /\ Among(m, C) = Among(l, C) \cup {r}
<1>0. PICK n : GrowsBy(l, r, m, n)
  BY AppendIs
<1>1. /\ DOMAIN m = DOMAIN l \cup {n} /\ n \notin DOMAIN l
      /\ m[n] = r /\ \A i \in DOMAIN l : m[i] = l[i]
  BY <1>0 DEF GrowsBy
<1>2. Places(m, C) = Places(l, C) \cup {n} /\ n \notin Places(l, C)
  BY <1>1 DEF Places
<1>3. Cardinality(Places(m, C)) = Cardinality(Places(l, C)) + 1
  BY <1>2, WhereFinite, FS_AddElement DEF OneMore
<1>4. Among(m, C) = Among(l, C) \cup {r}
  BY <1>1, <1>2 DEF Among, Places
<1> QED BY <1>3, <1>4

\* One more record that is not.
LEMMA WhereOut ==
  ASSUME NEW l, NEW r, NEW m, OneMore(l, r, m), NEW C, r \notin C
  PROVE  Places(m, C) = Places(l, C) /\ Among(m, C) = Among(l, C)
<1>0. PICK n : GrowsBy(l, r, m, n)
  BY AppendIs
<1>1. /\ DOMAIN m = DOMAIN l \cup {n} /\ n \notin DOMAIN l
      /\ m[n] = r /\ \A i \in DOMAIN l : m[i] = l[i]
  BY <1>0 DEF GrowsBy
<1>2. Places(m, C) = Places(l, C)
  BY <1>1 DEF Places
<1> QED BY <1>1, <1>2 DEF Among, Places

(***************************************************************************)
(* Nothing is lost.                                                        *)
(***************************************************************************)
CountsOf(t) == [k \in DOMAIN t |-> t[k].count]

\* One entry counts one more.
LEMMA CountsAdd ==
  ASSUME NEW t, IsFiniteSet(DOMAIN t), \A x \in DOMAIN t : t[x].count \in Nat,
         NEW k, NEW d, NEW u, u = [x \in DOMAIN t \cup {k} |-> IF x = k THEN d ELSE t[x]],
         NEW c \in Nat, c = IF k \in DOMAIN t THEN t[k].count ELSE 0, d.count = c + 1
  PROVE  /\ SumFunction(CountsOf(t)) \in Nat
         /\ SumFunction(CountsOf(u)) = SumFunction(CountsOf(t)) + 1
<1> DEFINE S == DOMAIN t
           T == S \cup {k}
           R == T \ {k}
           w == CountsOf(t)
           v == CountsOf(u)
<1>1. /\ DOMAIN w = S /\ DOMAIN v = T /\ IsFiniteSet(T) /\ IsFiniteSet(R)
      /\ \A x \in S : w[x] \in Nat
      /\ \A x \in T : v[x] \in Nat
      /\ v[k] = c + 1 /\ (k \in S => w[k] = c)
      /\ \A x \in R : v[x] = w[x]
  <2>1. IsFiniteSet(T)
    BY FS_AddElement
  <2>2. IsFiniteSet(R)
    BY <2>1, FS_Subset
  <2>3. v = [x \in T |-> u[x].count] /\ w = [x \in S |-> t[x].count] /\ DOMAIN u = T
    BY DEF CountsOf
  <2>4. u[k] = d /\ \A x \in R : u[x] = t[x]
    OBVIOUS
  <2>5. v[k] = c + 1 /\ \A x \in R : v[x] = t[x].count
    BY <2>3, <2>4
  <2>6. \A x \in S : w[x] = t[x].count
    BY <2>3
  <2>7. \A x \in T : v[x] \in Nat
    <3>1. c + 1 \in Nat
      OBVIOUS
    <3> QED BY <2>5, <3>1
  <2> QED BY <2>1, <2>2, <2>3, <2>5, <2>6, <2>7
<1>2. SumFunction(w) = Total(w, S) /\ SumFunction(v) = Total(v, T)
  BY <1>1, SumFunctionIs DEF SumFunction
<1> HIDE DEF w, v
<1>3. Total(v, T) = v[k] + Total(w, R)
  BY <1>1, TotalSplit
<1>4. CASE k \in S
  <2>1. R = S \ {k}
    BY <1>4
  <2>2. Total(w, S) = w[k] + Total(w, R)
    BY <1>1, <1>4, <2>1, TotalSplit
  <2>3. Total(w, R) \in Nat
    BY <1>1, <1>4, <2>1, TotalType
  <2> QED BY <1>1, <1>2, <1>3, <1>4, <2>2, <2>3 DEF w, v
<1>5. CASE k \notin S
  <2>1. R = S /\ c = 0
    BY <1>5
  <2>2. Total(w, S) \in Nat
    BY <1>1, TotalType
  <2> QED BY <1>1, <1>2, <1>3, <2>1, <2>2 DEF w, v
<1> QED BY <1>4, <1>5

\* The records that no aggregate holds.
Unheld(a) == {r \in Recorded : KeyOf(r) \notin DOMAIN a.aggs}

\* The strengthening of AllAccountedFor.
AccountsOK(a, l) ==
  /\ TableOK(a) /\ l \in Seq(Recorded)
  /\ SumFunction(CountsOf(a.aggs)) \in Nat
  /\ SumFunction(CountsOf(a.aggs)) + a.aggDropped = Len(l)
  /\ a.aggDropped = Cardinality(Places(l, Unheld(a)))

\* A finding that is new to the table has no record in the log: as long as there
\* is room nothing was dropped.
LEMMA NewIsNew ==
  ASSUME NEW a, NEW l, AccountsOK(a, l), NEW k, k \notin DOMAIN a.aggs, ~NoRoom(a, k)
  PROVE  a.aggDropped = 0 /\ \A i \in DOMAIN l : KeyOf(l[i]) \in DOMAIN a.aggs
<1>1. a.aggDropped = 0
  <2>1. Cardinality(DOMAIN a.aggs) \in Nat /\ MaxAggregates \in Nat /\ a.aggDropped \in Nat
    BY FS_CardinalityType, InventoryAssumption DEF AccountsOK, TableOK
  <2>2. ~(Cardinality(DOMAIN a.aggs) >= MaxAggregates)
    BY DEF NoRoom
  <2>3. ~(a.aggDropped > 0)
    BY <2>1, <2>2 DEF AccountsOK, TableOK
  <2> QED BY <2>1, <2>3
<1>2. IsFiniteSet(Places(l, Unheld(a)))
  <2>1. IsFiniteSet(DOMAIN l)
    <3>1. l \in Seq(Recorded) /\ DOMAIN l = 1..Len(l) /\ Len(l) \in Nat
      BY DEF AccountsOK
    <3> QED BY <3>1, FS_Interval
  <2> QED BY <2>1, FS_Subset DEF Places
<1>3. Places(l, Unheld(a)) = {}
  BY <1>1, <1>2, FS_EmptySet DEF AccountsOK
<1>4. \A i \in DOMAIN l : l[i] \in Recorded
  BY DEF AccountsOK
<1> QED BY <1>1, <1>3, <1>4 DEF Places, Unheld

\* Add keeps the accounts.
LEMMA AddAccounts ==
  ASSUME NEW a, NEW l, AccountsOK(a, l), NEW r \in Recorded
  PROVE  AccountsOK(Add(a, r), Append(l, r))
<1> DEFINE k == KeyOf(r)
           e == IF k \in DOMAIN a.aggs THEN a.aggs[k] ELSE NewEntry(r)
           d == FoldRecord(e, r)
           b == Add(a, r)
           m == Append(l, r)
<1>1. DOMAIN a = Fields /\ a.aggDropped \in Nat /\ IsFiniteSet(DOMAIN a.aggs)
      /\ Cardinality(DOMAIN a.aggs) \in Nat /\ MaxAggregates \in Nat
  BY FS_CardinalityType, InventoryAssumption DEF AccountsOK, TableOK
<1>2. /\ DOMAIN b = Fields
      /\ NoRoom(a, k) => b.aggs = a.aggs /\ b.aggDropped = a.aggDropped + 1
      /\ ~NoRoom(a, k) =>
           /\ b.aggDropped = a.aggDropped
           /\ b.aggs = [x \in DOMAIN a.aggs \cup {k} |-> IF x = k THEN d ELSE a.aggs[x]]
  <2>1. AddedTo(a, k, d, b)
    BY <1>1, AddIs
  <2> QED BY <2>1 DEF AddedTo
<1>3. l \in Seq(Recorded) /\ m \in Seq(Recorded) /\ Len(l) \in Nat /\ Len(m) = Len(l) + 1
  BY DEF AccountsOK
<1>4. EntryOK(e) /\ (k \notin DOMAIN a.aggs => e.count = 0)
  BY NewEntryOK DEF AccountsOK, TableOK
<1>5. EntryOK(d) /\ d.count = e.count + 1
  BY <1>4, FoldRecordOK
<1>a. OneMore(l, r, m)
  BY <1>3 DEF OneMore
<1> HIDE DEF b, d, e, m
<1>6. CASE NoRoom(a, k)
  <2>1. k \notin DOMAIN a.aggs /\ Cardinality(DOMAIN a.aggs) = MaxAggregates
    BY <1>1, <1>6 DEF NoRoom, AccountsOK, TableOK
  <2>2. TableOK(b)
    BY <1>1, <1>2, <1>6, <2>1 DEF AccountsOK, TableOK
  <2>3. Unheld(b) = Unheld(a) /\ r \in Unheld(a)
    BY <1>2, <1>6, <2>1 DEF Unheld
  <2>4. Cardinality(Places(m, Unheld(a))) = Cardinality(Places(l, Unheld(a))) + 1
    BY <1>a, <2>3, WhereIn
  <2> QED BY <1>1, <1>2, <1>3, <1>6, <2>2, <2>3, <2>4 DEF AccountsOK, b, m
<1>7. CASE ~NoRoom(a, k)
  <2>1. DOMAIN b.aggs = DOMAIN a.aggs \cup {k} /\ b.aggs[k] = d
        /\ \A x \in DOMAIN a.aggs : x # k => b.aggs[x] = a.aggs[x]
    BY <1>2, <1>7
  <2>2. TableOK(b)
    <3>0. IsFiniteSet(DOMAIN a.aggs \cup {k})
          /\ Cardinality(DOMAIN a.aggs \cup {k}) = IF k \in DOMAIN a.aggs THEN Cardinality(DOMAIN a.aggs)
                                          ELSE Cardinality(DOMAIN a.aggs) + 1
      <4> HIDE DEF k
      <4> QED BY <1>1, FS_AddElement
    <3>1. IsFiniteSet(DOMAIN b.aggs)
          /\ Cardinality(DOMAIN b.aggs) = IF k \in DOMAIN a.aggs THEN Cardinality(DOMAIN a.aggs)
                                          ELSE Cardinality(DOMAIN a.aggs) + 1
      BY <2>1, <3>0
    <3>2. Cardinality(DOMAIN b.aggs) <= MaxAggregates
      BY <1>1, <1>7, <3>1 DEF NoRoom, AccountsOK, TableOK
    <3>3. a.aggDropped > 0 => Cardinality(DOMAIN b.aggs) = MaxAggregates
      BY <1>1, <1>7, <3>1 DEF NoRoom, AccountsOK, TableOK
    <3>4. \A x \in DOMAIN b.aggs : EntryOK(b.aggs[x])
      BY <1>5, <2>1 DEF AccountsOK, TableOK
    <3> QED BY <1>1, <1>2, <1>7, <3>1, <3>2, <3>3, <3>4 DEF TableOK
  <2>3. SumFunction(CountsOf(b.aggs)) = SumFunction(CountsOf(a.aggs)) + 1
    <3>1. \A x \in DOMAIN a.aggs : a.aggs[x].count \in Nat
      BY DEF AccountsOK, TableOK, EntryOK
    <3>2. e.count \in Nat
      BY <1>4 DEF EntryOK
    <3>3. e.count = IF k \in DOMAIN a.aggs THEN a.aggs[k].count ELSE 0
      BY <1>4 DEF e
    <3>4. b.aggs = [x \in DOMAIN a.aggs \cup {k} |-> IF x = k THEN d ELSE a.aggs[x]]
      BY <1>2, <1>7
    <3>5. IsFiniteSet(DOMAIN a.aggs) /\ d.count = e.count + 1
      BY <1>1, <1>5
    <3> DEFINE t == a.aggs
               u == b.aggs
               c == e.count
    <3> HIDE DEF k, t, u, c
    <3>6. u = [x \in DOMAIN t \cup {k} |-> IF x = k THEN d ELSE t[x]]
      BY <3>4 DEF t, u
    <3>7. /\ IsFiniteSet(DOMAIN t) /\ \A x \in DOMAIN t : t[x].count \in Nat
          /\ c \in Nat /\ c = (IF k \in DOMAIN t THEN t[k].count ELSE 0) /\ d.count = c + 1
      BY <3>1, <3>2, <3>3, <3>5 DEF t, c
    <3>8. SumFunction(CountsOf(u)) = SumFunction(CountsOf(t)) + 1
      BY <3>6, <3>7, CountsAdd
    <3> QED BY <3>8 DEF t, u
  <2>4. Places(m, Unheld(b)) = Places(l, Unheld(b))
    <3>1. r \notin Unheld(b)
      BY <2>1 DEF Unheld
    <3> QED BY <1>a, <3>1, WhereOut
  <2>5. Places(l, Unheld(b)) = Places(l, Unheld(a))
    <3>1. CASE k \in DOMAIN a.aggs
      <4>1. DOMAIN b.aggs = DOMAIN a.aggs
        BY <2>1, <3>1
      <4> QED BY <4>1 DEF Unheld
    <3>2. CASE k \notin DOMAIN a.aggs
      <4>1. \A i \in DOMAIN l : KeyOf(l[i]) \in DOMAIN a.aggs
        BY <1>7, <3>2, NewIsNew
      <4> QED BY <2>1, <4>1 DEF Unheld, Places
    <3> QED BY <3>1, <3>2
  <2>6. SumFunction(CountsOf(a.aggs)) \in Nat /\ SumFunction(CountsOf(a.aggs)) + a.aggDropped = Len(l)
        /\ a.aggDropped = Cardinality(Places(l, Unheld(a)))
    BY DEF AccountsOK
  <2> QED BY <1>1, <1>2, <1>3, <1>7, <2>2, <2>3, <2>4, <2>5, <2>6 DEF AccountsOK, b, m
<1> QED BY <1>6, <1>7

\* At first there is nothing.
LEMMA InitAccounts == Init => AccountsOK(acc, log)
<1> SUFFICES ASSUME Init PROVE AccountsOK(acc, log)
  OBVIOUS
<1>1. DOMAIN acc = Fields /\ acc.aggDropped = 0
  BY DEF Init, Fields
<1>2. acc.aggs = <<>>
  BY DEF Init
<1>3. DOMAIN acc.aggs = {}
  BY <1>2
<1>4. log = <<>> /\ log \in Seq(Recorded) /\ Len(log) = 0 /\ DOMAIN log = {}
  BY DEF Init
<1>5. IsFiniteSet(DOMAIN acc.aggs) /\ Cardinality(DOMAIN acc.aggs) = 0
  BY <1>3, FS_EmptySet
<1>6. TableOK(acc)
  BY <1>1, <1>3, <1>5, InventoryAssumption DEF TableOK
<1>7. SumFunction(CountsOf(acc.aggs)) = 0
  <2> DEFINE w == CountsOf(acc.aggs)
             S == DOMAIN acc.aggs
  <2>1. DOMAIN w = S /\ S = {} /\ IsFiniteSet(S) /\ \A x \in S : w[x] \in Nat
    BY <1>3, <1>5 DEF CountsOf
  <2> HIDE DEF w, S
  <2>2. SumFunctionOnSet(w, S) = Total(w, S) /\ Total(w, S) = 0
    BY <2>1, SumFunctionIs, TotalType
  <2> QED BY <2>1, <2>2 DEF SumFunction, w
<1>8. Cardinality(Places(log, Unheld(acc))) = 0
  <2>1. Places(log, Unheld(acc)) = {}
    BY <1>4 DEF Places
  <2> QED BY <2>1, FS_EmptySet
<1> QED BY <1>1, <1>4, <1>6, <1>7, <1>8 DEF AccountsOK

\* A step adds one record.
LEMMA StepIs ==
  ASSUME Next
  PROVE  \E r \in Recorded : acc' = Add(acc, r) /\ log' = Append(log, r)
<1>1. PICK f \in Observed : Handle(f)
  BY DEF Next
<1> QED BY <1>1 DEF Handle, Recorded

LEMMA NextAccounts == AccountsOK(acc, log) /\ [Next]_vars => AccountsOK(acc', log')
<1> SUFFICES ASSUME AccountsOK(acc, log), [Next]_vars PROVE AccountsOK(acc', log')
  OBVIOUS
<1>1. CASE Next
  <2>1. PICK r \in Recorded : acc' = Add(acc, r) /\ log' = Append(log, r)
    BY <1>1, StepIs
  <2> QED BY <2>1, AddAccounts
<1>2. CASE UNCHANGED vars
  BY <1>2 DEF vars
<1> QED BY <1>1, <1>2

LEMMA AccountsSay == AccountsOK(acc, log) => AllAccountedFor
<1> SUFFICES ASSUME AccountsOK(acc, log) PROVE AllAccountedFor
  OBVIOUS
<1>1. LimitsHold
  BY DEF LimitsHold, AccountsOK, TableOK, EntryOK, Bounded, AggKeys
<1>2. Counts = CountsOf(acc.aggs)
  BY DEF Counts, CountsOf
<1>3. Logged(LAMBDA r : KeyOf(r) \notin AggKeys) = Places(log, Unheld(acc))
  <2>1. \A i \in DOMAIN log : log[i] \in Recorded
    BY DEF AccountsOK
  <2> QED BY <2>1 DEF Logged, Places, Unheld, AggKeys
<1>4. acc.aggDropped > 0 => Cardinality(AggKeys) = MaxAggregates
  BY DEF AccountsOK, TableOK, AggKeys
<1>5. SumFunction(Counts) + acc.aggDropped = Len(log)
  BY <1>2 DEF AccountsOK
<1>6. acc.aggDropped = Cardinality(Logged(LAMBDA r : KeyOf(r) \notin AggKeys))
  BY <1>3 DEF AccountsOK
<1> QED BY <1>1, <1>4, <1>5, <1>6 DEF AllAccountedFor

\* addAggregate never loses a record: whatever the flows and however small the
\* table, each one is in one aggregate or counted by aggDropped, and a finding
\* already in the table is never dropped.
THEOREM AlwaysAccountedFor == Spec => []AllAccountedFor
<1>1. Init => AccountsOK(acc, log)
  BY InitAccounts
<1>2. AccountsOK(acc, log) /\ [Next]_vars => AccountsOK(acc, log)'
  BY NextAccounts
<1>3. AccountsOK(acc, log) => AllAccountedFor
  BY AccountsSay
<1> QED BY <1>1, <1>2, <1>3, PTL DEF Spec

(***************************************************************************)
(* Recorded.                                                                *)
(***************************************************************************)
Severities == {"info", "low", "medium", "high", "critical"}
FindingNames == {"obsolete_protocol", "legacy_protocol", "unknown_cipher", "anonymous_key_exchange",
               "export_cipher", "null_encryption", "broken_cipher", "weak_cipher", "sha1_signature",
               "no_forward_secrecy", "compression_offered", "classical_key_exchange", "ech_offered",
               "weak_certificate_key", "certificate_expired", "certificate_sha1_signature"}
Finding == [id : FindingNames, sev : Severities]

LEMMA WhenIs ==
  ASSUME NEW c, NEW id \in FindingNames, NEW sev \in Severities
  PROVE  When(c, id, sev) \in Seq(Finding)
<1>1. [id |-> id, sev |-> sev] \in Finding
  BY DEF Finding
<1> QED BY <1>1 DEF When

LEMMA JoinIs ==
  ASSUME NEW s \in Seq(Finding), NEW t \in Seq(Finding)
  PROVE  s \o t \in Seq(Finding)
OBVIOUS

LEMMA CipherFindingsIs ==
  ASSUME NEW c
  PROVE  CipherFindings(c) \in Seq(Finding)
<1>1. \A x : When(x, "unknown_cipher", "info") \in Seq(Finding)
  BY WhenIs DEF Severities, FindingNames
<1>2. \A x : When(x, "anonymous_key_exchange", "critical") \in Seq(Finding)
  BY WhenIs DEF Severities, FindingNames
<1>3. \A x : When(x, "export_cipher", "critical") \in Seq(Finding)
  BY WhenIs DEF Severities, FindingNames
<1>4. \A x : When(x, "null_encryption", "critical") \in Seq(Finding)
  BY WhenIs DEF Severities, FindingNames
<1>5. \A x : When(x, "broken_cipher", "critical") \in Seq(Finding)
  BY WhenIs DEF Severities, FindingNames
<1>6. \A x : When(x, "weak_cipher", "high") \in Seq(Finding)
  BY WhenIs DEF Severities, FindingNames
<1>7. \A x : When(x, "sha1_signature", "medium") \in Seq(Finding)
  BY WhenIs DEF Severities, FindingNames
<1>8. \A x : When(x, "no_forward_secrecy", "high") \in Seq(Finding)
  BY WhenIs DEF Severities, FindingNames
<1>9. ASSUME NEW x1, NEW x2, NEW x3, NEW x4, NEW x5, NEW x6, NEW x7, NEW x8, NEW x9
      PROVE     When(x1, "unknown_cipher", "info")
             \o When(x2, "anonymous_key_exchange", "critical")
             \o When(x3, "export_cipher", "critical")
             \o When(x4, "null_encryption", "critical")
             \o When(x5, "broken_cipher", "critical")
             \o When(x6, "weak_cipher", "high")
             \o When(x7, "weak_cipher", "high")
             \o When(x8, "sha1_signature", "medium")
             \o When(x9, "no_forward_secrecy", "high") \in Seq(Finding)
  BY <1>1, <1>2, <1>3, <1>4, <1>5, <1>6, <1>7, <1>8, JoinIs
<1> QED BY <1>9 DEF CipherFindings

LEMMA CertFindingsIs ==
  ASSUME NEW certs, NEW n
  PROVE  CertFindings(certs, n) \in Seq(Finding)
<1>1. \A x : When(x, "weak_certificate_key", "high") \in Seq(Finding)
  BY WhenIs DEF Severities, FindingNames
<1>2. \A x : When(x, "certificate_expired", "medium") \in Seq(Finding)
  BY WhenIs DEF Severities, FindingNames
<1>3. \A x : When(x, "certificate_sha1_signature", "high") \in Seq(Finding)
  BY WhenIs DEF Severities, FindingNames
<1> QED BY <1>1, <1>2, <1>3, JoinIs, Zenon DEF CertFindings

LEMMA ChainFindingsIs ==
  ASSUME NEW certs, Len(certs) \in Nat
  PROVE  ChainFindings(certs) \in Seq(Finding)
<1> DEFINE L == Len(certs)
           V == Seq(Finding)
           Step(v, n) == v \o CertFindings(certs, n)
           F == [n \in 1..L |-> [v \in V |-> Step(v, n)]]
           found == CHOOSE g : g = [n \in 0..L |-> IF n = 0 THEN <<>> ELSE Step(g[n - 1], n)]
<1>1. ChainFindings(certs) = found[L]
  BY DEF ChainFindings
<1>2. \A n \in 1..L : \A v \in V : Step(v, n) \in V
  BY CertFindingsIs, JoinIs
<1>3. <<>> \in V /\ L \in Nat
  OBVIOUS
<1> HIDE DEF L, V, Step
<1>4. StaysIn(F, V, L)
  BY <1>2 DEF StaysIn
<1>5. PICK g : Solves(g, <<>>, F, V, L)
  <2> HIDE DEF F
  <2> QED BY <1>3, <1>4, RecursionUpTo
<1>6. g = [n \in 0..L |-> IF n = 0 THEN <<>> ELSE Step(g[n - 1], n)]
  <2>1. g \in [0..L -> V] /\ g[0] = <<>> /\ \A n \in 1..L : g[n] = F[n][g[n - 1]]
    BY <1>5 DEF Solves
  <2>2. \A n \in 0..L : n # 0 => n \in 1..L /\ n - 1 \in 0..L
    BY <1>3
  <2>3. \A n \in 0..L : n # 0 => g[n] = Step(g[n - 1], n)
    BY <2>1, <2>2
  <2> HIDE DEF F
  <2> QED BY <2>1, <2>3
<1>7. found = [n \in 0..L |-> IF n = 0 THEN <<>> ELSE Step(found[n - 1], n)]
  BY <1>6
<1> HIDE DEF found
<1>8. found[0] = <<>> /\ \A n \in 0..(L - 1) : n + 1 \in 1..L /\ found[n + 1] = Step(found[n], n + 1)
  <2>1. \A n \in 0..(L - 1) : n + 1 \in 0..L /\ n + 1 # 0 /\ (n + 1) - 1 = n /\ n + 1 \in 1..L
    BY <1>3
  <2> QED BY <1>3, <1>7, <2>1
<1> DEFINE N == {n \in 0..L : found[n] \in V}
<1>9. 0 \in N /\ \A n \in 0..(L - 1) : n \in N => n + 1 \in N
  <2>1. \A n \in 0..(L - 1) : n + 1 \in 0..L
    BY <1>3
  <2> QED BY <1>2, <1>3, <1>8, <2>1
<1>10. 0..L \subseteq N
  <2> HIDE DEF N
  <2> QED BY <1>3, <1>9, InductionUpTo
<1>11. found[L] \in V
  BY <1>3, <1>10
<1> QED BY <1>1, <1>11 DEF V, L

LEMMA FindingsIs ==
  ASSUME NEW f, Len(f.certs) \in Nat
  PROVE  Findings(f) \in Seq(Finding)
<1>1. \A x : When(x, "obsolete_protocol", "critical") \in Seq(Finding)
  BY WhenIs DEF Severities, FindingNames
<1>2. \A x : When(x, "legacy_protocol", "low") \in Seq(Finding)
  BY WhenIs DEF Severities, FindingNames
<1>3. (IF f.observed THEN CipherFindings(Cipher(f.server.suite)) ELSE <<>>) \in Seq(Finding)
  <2>1. CipherFindings(Cipher(f.server.suite)) \in Seq(Finding)
    BY CipherFindingsIs
  <2> QED BY <2>1
<1>4. \A x : When(x, "compression_offered", "medium") \in Seq(Finding)
  BY WhenIs DEF Severities, FindingNames
<1>5. \A x : When(x, "classical_key_exchange", "info") \in Seq(Finding)
  BY WhenIs DEF Severities, FindingNames
<1>6. \A x : When(x, "ech_offered", "info") \in Seq(Finding)
  BY WhenIs DEF Severities, FindingNames
<1>7. ChainFindings(f.certs) \in Seq(Finding)
  BY ChainFindingsIs
<1> QED BY <1>1, <1>2, <1>3, <1>4, <1>5, <1>6, <1>7, JoinIs, Zenon DEF Findings

\* A record as the accumulator takes it.
RecordOK(r) ==
  /\ r.first \in Nat \ {0} /\ r.last \in Nat
  /\ r.findings \in Seq(Finding)
  /\ r.pq = "post_quantum" => r.observed

LEMMA RecordsOK ==
  ASSUME NEW r \in Recorded
  PROVE  RecordOK(r)
<1>1. PICK f \in Observed : r = Analyze(f)
  BY DEF Recorded
<1>2. f.first \in Nat \ {0} /\ f.last \in Nat /\ Len(f.certs) \in Nat
  BY InventoryAssumption
<1>3. /\ r.first = f.first /\ r.last = f.last /\ r.findings = Findings(f)
      /\ r.pq = PQStatus(f) /\ r.observed = f.observed
  BY <1>1 DEF Analyze
<1>4. PQStatus(f) = "post_quantum" => f.observed
  <2>1. ~PostQuantum(0)
    BY DEF PostQuantum, PureKEM, Hybrid
  <2>2. PQStatus(f) = "post_quantum" => PostQuantum(SelectedGroup(f))
    BY DEF PQStatus
  <2> QED BY <2>1, <2>2 DEF SelectedGroup
<1> QED BY <1>2, <1>3, <1>4, FindingsIs DEF RecordOK

LEMMA RankIs ==
  /\ \A s \in Severities \cup {"none"} : Rank[s] \in Nat
  /\ Rank["none"] = 0
BY DEF Rank, Severities

\* MaxSeverity gives the severity of a finding that no other exceeds, and "info"
\* if there are none.
LEMMA MaxSeverityIs ==
  ASSUME NEW r, r.findings \in Seq(Finding)
  PROVE  /\ MaxSeverity(r) \in Severities
         /\ \A j \in DOMAIN r.findings : Rank[r.findings[j].sev] <= Rank[MaxSeverity(r)]
         /\ \/ MaxSeverity(r) = "info"
            \/ \E j \in DOMAIN r.findings : r.findings[j].sev = MaxSeverity(r)
<1> DEFINE s == r.findings
           L == Len(s)
           V == Severities
           Step(v, n) == Worse(s[n].sev, v)
           F == [n \in 1..L |-> [v \in V |-> Step(v, n)]]
           worst == CHOOSE g : g = [n \in 0..L |-> IF n = 0 THEN "info" ELSE Step(g[n - 1], n)]
<1>1. MaxSeverity(r) = worst[L]
  BY DEF MaxSeverity
<1>2. \A n \in 1..L : \A v \in V : Step(v, n) \in V
  <2>1. \A n \in 1..L : s[n] \in Finding
    OBVIOUS
  <2>2. \A n \in 1..L : s[n].sev \in Severities
    BY <2>1 DEF Finding
  <2> QED BY <2>2 DEF Worse
<1>3. "info" \in V /\ L \in Nat
  BY DEF Severities
<1> HIDE DEF s, L, V, Step
<1>4. StaysIn(F, V, L)
  BY <1>2 DEF StaysIn
<1>5. PICK g : Solves(g, "info", F, V, L)
  <2> HIDE DEF F
  <2> QED BY <1>3, <1>4, RecursionUpTo
<1>6. g = [n \in 0..L |-> IF n = 0 THEN "info" ELSE Step(g[n - 1], n)]
  <2>1. g \in [0..L -> V] /\ g[0] = "info" /\ \A n \in 1..L : g[n] = F[n][g[n - 1]]
    BY <1>5 DEF Solves
  <2>2. \A n \in 0..L : n # 0 => n \in 1..L /\ n - 1 \in 0..L
    BY <1>3
  <2>3. \A n \in 0..L : n # 0 => g[n] = Step(g[n - 1], n)
    BY <2>1, <2>2
  <2> HIDE DEF F
  <2> QED BY <2>1, <2>3
<1>7. worst = [n \in 0..L |-> IF n = 0 THEN "info" ELSE Step(worst[n - 1], n)]
  BY <1>6
<1> HIDE DEF worst
<1>8. worst[0] = "info" /\ \A n \in 0..(L - 1) : n + 1 \in 1..L /\ worst[n + 1] = Step(worst[n], n + 1)
  <2>1. \A n \in 0..(L - 1) : n + 1 \in 0..L /\ n + 1 # 0 /\ (n + 1) - 1 = n /\ n + 1 \in 1..L
    BY <1>3
  <2> QED BY <1>3, <1>7, <2>1
<1> DEFINE P(n) == /\ worst[n] \in V
                   /\ \A j \in 1..n : Rank[s[j].sev] <= Rank[worst[n]]
                   /\ worst[n] = "info" \/ \E j \in 1..n : s[j].sev = worst[n]
           N == {n \in 0..L : P(n)}
<1>9. 0 \in N
  BY <1>3, <1>8
<1>10. ASSUME NEW n \in 0..(L - 1), P(n) PROVE P(n + 1)
  <2>1. n \in Nat /\ n + 1 \in 1..L /\ worst[n + 1] = Worse(s[n + 1].sev, worst[n])
    BY <1>3, <1>8 DEF Step
  <2>2. worst[n + 1] \in V
    BY <1>2, <1>8, <1>10
  <2>3. s[n + 1].sev \in V
    <3>1. \A m \in 1..L : s[m] \in Finding
      BY DEF s, L
    <3> QED BY <2>1, <3>1 DEF Finding, V
  <2>4. /\ Rank[s[n + 1].sev] \in Nat /\ Rank[worst[n]] \in Nat
        /\ \A j \in 1..n : Rank[s[j].sev] \in Nat
    <3>1. \A m \in 1..L : s[m] \in Finding
      BY DEF s, L
    <3>2. \A j \in 1..n : j \in 1..L
      BY <2>1, <1>3
    <3>3. \A j \in 1..n : s[j].sev \in V
      BY <3>1, <3>2 DEF Finding, V
    <3> QED BY <1>10, <2>3, <3>3, RankIs DEF V
  <2>5. /\ Rank[s[n + 1].sev] <= Rank[worst[n + 1]] /\ Rank[worst[n]] <= Rank[worst[n + 1]]
        /\ worst[n + 1] = s[n + 1].sev \/ worst[n + 1] = worst[n]
    BY <2>1, <2>4 DEF Worse
  <2>6. Rank[worst[n + 1]] \in Nat
    BY <2>2, RankIs DEF V
  <2>7. \A j \in 1..(n + 1) : j = n + 1 \/ j \in 1..n
    BY <2>1
  <2>8. n + 1 \in 1..(n + 1) /\ \A j \in 1..n : j \in 1..(n + 1)
    BY <2>1
  <2>9. \A j \in 1..(n + 1) : Rank[s[j].sev] <= Rank[worst[n + 1]]
    <3>1. ASSUME NEW j \in 1..n PROVE Rank[s[j].sev] <= Rank[worst[n + 1]]
      <4>1. Rank[s[j].sev] <= Rank[worst[n]]
        BY <1>10
      <4> QED BY <2>4, <2>5, <2>6, <4>1
    <3> QED BY <2>5, <2>7, <3>1
  <2>10. worst[n + 1] = "info" \/ \E j \in 1..(n + 1) : s[j].sev = worst[n + 1]
    BY <1>10, <2>5, <2>8
  <2> QED BY <2>2, <2>9, <2>10
<1>11. \A n \in 0..(L - 1) : n \in N => n + 1 \in N
  <2>1. \A n \in 0..(L - 1) : n + 1 \in 0..L
    BY <1>3
  <2> HIDE DEF P
  <2> QED BY <1>10, <2>1
<1>12. 0..L \subseteq N
  <2> HIDE DEF N
  <2> QED BY <1>3, <1>9, <1>11, InductionUpTo
<1>13. P(L)
  <2> HIDE DEF P
  <2> QED BY <1>3, <1>12
<1>14. DOMAIN s = 1..L
  BY DEF s, L
<1> HIDE DEF P
<1>15. /\ MaxSeverity(r) \in V
       /\ \A j \in 1..L : Rank[s[j].sev] <= Rank[MaxSeverity(r)]
       /\ MaxSeverity(r) = "info" \/ \E j \in 1..L : s[j].sev = MaxSeverity(r)
  BY <1>1, <1>13 DEF P
<1> QED BY <1>14, <1>15 DEF V, s

(***************************************************************************)
(* The table of findings in the summary.                                   *)
(***************************************************************************)
Tally == [sev : Severities, count : Nat]
Tallies == UNION {[D -> Tally] : D \in SUBSET FindingNames}

CountIn(t, id) == IF id \in DOMAIN t THEN t[id].count ELSE 0

\* How often a record has a finding, and how often among its first n.
Times(s, id) == Cardinality({j \in DOMAIN s : s[j].id = id})
TimesUpTo(s, id, n) == Cardinality({j \in 1..n : s[j].id = id})

One(x, id) == IF x.id = id THEN 1 ELSE 0

LEMMA TalliesIs ==
  ASSUME NEW t, t \in Tallies
  PROVE  /\ DOMAIN t \subseteq FindingNames
         /\ \A id \in DOMAIN t : t[id].sev \in Severities /\ t[id].count \in Nat
<1>1. PICK D \in SUBSET FindingNames : t \in [D -> Tally]
  BY DEF Tallies
<1>2. DOMAIN t = D /\ \A id \in D : t[id] \in Tally
  BY <1>1
<1> QED BY <1>2 DEF Tally

LEMMA IsTallies ==
  ASSUME NEW D, D \subseteq FindingNames, NEW t, t = [id \in D |-> t[id]],
         \A id \in D : t[id] \in Tally
  PROVE  t \in Tallies
<1>1. t \in [D -> Tally]
  OBVIOUS
<1> QED BY <1>1 DEF Tallies

LEMMA AddFindingIs ==
  ASSUME NEW t, t \in Tallies, NEW x, x \in Finding, NEW u, u = AddFinding(x, t)
  PROVE  u \in Tallies /\ \A id \in FindingNames : CountIn(u, id) = CountIn(t, id) + One(x, id)
<1>1. x.id \in FindingNames /\ x.sev \in Severities
  BY DEF Finding
<1>2. /\ DOMAIN t \subseteq FindingNames
      /\ \A id \in DOMAIN t : t[id].sev \in Severities /\ t[id].count \in Nat
  BY TalliesIs
<1> DEFINE D == DOMAIN t \cup {x.id}
<1>3. /\ u = [id \in D |-> u[id]] /\ DOMAIN u = D
      /\ \A id \in D : id # x.id => u[id] = t[id]
      /\ x.id \notin DOMAIN t => u[x.id] = [sev |-> x.sev, count |-> 1]
      /\ x.id \in DOMAIN t => u[x.id] = [sev |-> Worse(x.sev, t[x.id].sev), count |-> t[x.id].count + 1]
  BY DEF AddFinding
<1>4. \A id \in D : u[id] \in Tally
  <2>1. ASSUME NEW id \in D, id # x.id PROVE u[id] \in Tally
    <3>1. PICK E \in SUBSET FindingNames : t \in [E -> Tally]
      BY DEF Tallies
    <3> QED BY <1>3, <2>1, <3>1
  <2>2. CASE x.id \notin DOMAIN t
    <3>1. u[x.id] \in Tally
      BY <1>1, <1>3, <2>2 DEF Tally
    <3> QED BY <2>1, <3>1
  <2>3. CASE x.id \in DOMAIN t
    <3>1. Worse(x.sev, t[x.id].sev) \in Severities /\ t[x.id].count + 1 \in Nat
      BY <1>1, <1>2, <2>3 DEF Worse
    <3>2. u[x.id] \in Tally
      BY <1>3, <2>3, <3>1 DEF Tally
    <3> QED BY <2>1, <3>2
  <2> QED BY <2>2, <2>3
<1>5. u \in Tallies
  <2>1. D \subseteq FindingNames
    BY <1>1, <1>2
  <2> HIDE DEF D
  <2> QED BY <1>3, <1>4, <2>1, IsTallies
<1>6. ASSUME NEW id \in FindingNames PROVE CountIn(u, id) = CountIn(t, id) + One(x, id)
  <2>1. CASE id # x.id
    <3>1. id \in DOMAIN u <=> id \in DOMAIN t
      BY <1>3, <2>1
    <3>2. CountIn(u, id) = CountIn(t, id) /\ CountIn(t, id) \in Nat /\ One(x, id) = 0
      BY <1>2, <1>3, <2>1, <3>1 DEF CountIn, One
    <3> QED BY <3>2
  <2>2. CASE id = x.id /\ id \notin DOMAIN t
    <3>1. CountIn(u, id) = 1 /\ CountIn(t, id) = 0 /\ One(x, id) = 1
      BY <1>3, <2>2 DEF CountIn, One
    <3> QED BY <3>1
  <2>3. CASE id = x.id /\ id \in DOMAIN t
    BY <1>3, <2>3 DEF CountIn, One
  <2> QED BY <2>1, <2>2, <2>3
<1> QED BY <1>5, <1>6

LEMMA TimesStep ==
  ASSUME NEW s, NEW id, NEW n \in Nat, NEW m, m = n + 1
  PROVE  /\ TimesUpTo(s, id, n) \in Nat
         /\ TimesUpTo(s, id, m) = TimesUpTo(s, id, n) + One(s[m], id)
<1> DEFINE S == {j \in 1..n : s[j].id = id}
           T == {j \in 1..m : s[j].id = id}
<1>1. IsFiniteSet(S) /\ Cardinality(S) \in Nat /\ m \notin S
  <2>1. IsFiniteSet(1..n) /\ m \notin 1..n
    BY FS_Interval
  <2> QED BY <2>1, FS_Subset, FS_CardinalityType
<1>2. 1..m = (1..n) \cup {m}
  OBVIOUS
<1>3. T = IF s[m].id = id THEN S \cup {m} ELSE S
  BY <1>2
<1>4. Cardinality(S \cup {m}) = Cardinality(S) + 1
  <2> HIDE DEF S
  <2> QED BY <1>1, FS_AddElement
<1>5. TimesUpTo(s, id, n) = Cardinality(S) /\ TimesUpTo(s, id, m) = Cardinality(T)
  BY DEF TimesUpTo
<1> HIDE DEF S, T
<1>6. CASE s[m].id = id
  BY <1>1, <1>3, <1>4, <1>5, <1>6 DEF One
<1>7. CASE s[m].id # id
  BY <1>1, <1>3, <1>5, <1>7 DEF One
<1> QED BY <1>6, <1>7

LEMMA AddFindingsIs ==
  ASSUME NEW t, t \in Tallies, NEW s, s \in Seq(Finding), NEW u, u = AddFindings(t, s)
  PROVE  /\ u \in Tallies
         /\ \A id \in FindingNames : /\ Times(s, id) \in Nat
                                   /\ CountIn(u, id) = CountIn(t, id) + Times(s, id)
<1> DEFINE L == Len(s)
           Step(v, n) == AddFinding(s[n], v)
           F == [n \in 1..L |-> [v \in Tallies |-> Step(v, n)]]
           after == CHOOSE g : g = [n \in 0..L |-> IF n = 0 THEN t ELSE Step(g[n - 1], n)]
<1>1. u = after[L]
  BY DEF AddFindings
<1>2. L \in Nat /\ DOMAIN s = 1..L /\ \A n \in 1..L : s[n] \in Finding
  OBVIOUS
<1>3. \A n \in 1..L : \A v \in Tallies :
        /\ Step(v, n) \in Tallies
        /\ \A id \in FindingNames : CountIn(Step(v, n), id) = CountIn(v, id) + One(s[n], id)
  BY <1>2, AddFindingIs
<1> HIDE DEF L, Step
<1>4. StaysIn(F, Tallies, L)
  BY <1>3 DEF StaysIn
<1>5. PICK g : Solves(g, t, F, Tallies, L)
  <2> HIDE DEF F
  <2> QED BY <1>2, <1>4, RecursionUpTo
<1>6. g = [n \in 0..L |-> IF n = 0 THEN t ELSE Step(g[n - 1], n)]
  <2>1. g \in [0..L -> Tallies] /\ g[0] = t /\ \A n \in 1..L : g[n] = F[n][g[n - 1]]
    BY <1>5 DEF Solves
  <2>2. \A n \in 0..L : n # 0 => n \in 1..L /\ n - 1 \in 0..L
    BY <1>2
  <2>3. \A n \in 0..L : n # 0 => g[n] = Step(g[n - 1], n)
    BY <2>1, <2>2
  <2> HIDE DEF F
  <2> QED BY <2>1, <2>3
<1>7. after = [n \in 0..L |-> IF n = 0 THEN t ELSE Step(after[n - 1], n)]
  BY <1>6
<1> HIDE DEF after
<1>8. after[0] = t /\ \A n \in 0..(L - 1) : n + 1 \in 1..L /\ after[n + 1] = Step(after[n], n + 1)
  <2>1. \A n \in 0..(L - 1) : n + 1 \in 0..L /\ n + 1 # 0 /\ (n + 1) - 1 = n /\ n + 1 \in 1..L
    BY <1>2
  <2> QED BY <1>2, <1>7, <2>1
<1> DEFINE P(n) == /\ after[n] \in Tallies
                   /\ \A id \in FindingNames :
                        /\ TimesUpTo(s, id, n) \in Nat
                        /\ CountIn(after[n], id) = CountIn(t, id) + TimesUpTo(s, id, n)
           N == {n \in 0..L : P(n)}
<1>9. \A v \in Tallies, id \in FindingNames : CountIn(v, id) \in Nat
  BY TalliesIs DEF CountIn
<1>10. P(0)
  <2>1. \A id : TimesUpTo(s, id, 0) = 0
    <3>1. \A id : {j \in 1..0 : s[j].id = id} = {}
      OBVIOUS
    <3> QED BY <3>1, FS_EmptySet DEF TimesUpTo
  <2> QED BY <1>8, <1>9, <2>1
<1>11. ASSUME NEW n \in 0..(L - 1), P(n) PROVE P(n + 1)
  <2>1. n \in Nat /\ n + 1 \in 1..L /\ after[n + 1] = Step(after[n], n + 1)
    BY <1>2, <1>8
  <2>2. after[n + 1] \in Tallies
    BY <1>3, <1>11, <2>1
  <2>3. ASSUME NEW id \in FindingNames
        PROVE  /\ TimesUpTo(s, id, n + 1) \in Nat
               /\ CountIn(after[n + 1], id) = CountIn(t, id) + TimesUpTo(s, id, n + 1)
    <3>1. CountIn(after[n + 1], id) = CountIn(after[n], id) + One(s[n + 1], id)
      BY <1>3, <1>11, <2>1
    <3>2. /\ TimesUpTo(s, id, n) \in Nat
          /\ TimesUpTo(s, id, n + 1) = TimesUpTo(s, id, n) + One(s[n + 1], id)
      BY <2>1, TimesStep
    <3>3. CountIn(after[n], id) = CountIn(t, id) + TimesUpTo(s, id, n) /\ CountIn(t, id) \in Nat
      BY <1>9, <1>11
    <3>4. One(s[n + 1], id) \in Nat
      BY DEF One
    <3> QED BY <3>1, <3>2, <3>3, <3>4
  <2> QED BY <2>2, <2>3
<1>12. 0 \in N /\ \A n \in 0..(L - 1) : n \in N => n + 1 \in N
  <2>1. 0 \in 0..L /\ \A n \in 0..(L - 1) : n + 1 \in 0..L
    BY <1>2
  <2> HIDE DEF P
  <2> QED BY <1>10, <1>11, <2>1
<1>13. 0..L \subseteq N
  <2> HIDE DEF N
  <2> QED BY <1>2, <1>12, InductionUpTo
<1>14. P(L)
  <2> HIDE DEF P
  <2> QED BY <1>2, <1>13
<1>15. \A id : TimesUpTo(s, id, L) = Times(s, id)
  BY <1>2 DEF TimesUpTo, Times
<1> QED BY <1>1, <1>14, <1>15

(***************************************************************************)
(* An entry of the table, compared with the records it stands for.         *)
(***************************************************************************)
IsMin(x, S) == x \in S /\ \A y \in S : x <= y
IsMax(x, S) == x \in S /\ \A y \in S : y <= x

LEMMA MinOf ==
  ASSUME NEW S, S \subseteq Nat, NEW x, IsMin(x, S)
  PROVE  Min(S) = x
<1>1. ASSUME NEW z \in S, \A y \in S : z <= y PROVE z = x
  <2>1. x \in Nat /\ z \in Nat /\ x <= z /\ z <= x
    BY <1>1 DEF IsMin
  <2> QED BY <2>1
<1> QED BY <1>1 DEF IsMin, Min

LEMMA MaxOf ==
  ASSUME NEW S, S \subseteq Nat, NEW x, IsMax(x, S)
  PROVE  Max(S) = x
<1>1. ASSUME NEW z \in S, \A y \in S : z >= y PROVE z = x
  <2>1. x \in Nat /\ z \in Nat /\ x <= z /\ z <= x
    BY <1>1 DEF IsMax
  <2> QED BY <2>1
<1>2. x \in S /\ \A y \in S : x >= y
  <2>1. \A y \in S : x \in Nat /\ y \in Nat /\ y <= x
    BY DEF IsMax
  <2> QED BY <2>1 DEF IsMax
<1> QED BY <1>1, <1>2 DEF Max

LEMMA MinStep ==
  ASSUME NEW S, S \subseteq Nat, NEW x, IsMin(x, S), NEW z \in Nat, NEW T, T = S \cup {z},
         NEW y, y = IF z < x THEN z ELSE x
  PROVE  IsMin(y, T)
<1>1. x \in Nat /\ x \in S /\ \A w \in S : w \in Nat /\ x <= w
  BY DEF IsMin
<1> QED BY <1>1 DEF IsMin

LEMMA MaxStep ==
  ASSUME NEW S, S \subseteq Nat, NEW x, IsMax(x, S), NEW z \in Nat, NEW T, T = S \cup {z},
         NEW y, y = IF z > x THEN z ELSE x
  PROVE  IsMax(y, T)
<1>1. x \in Nat /\ x \in S /\ \A w \in S : w \in Nat /\ w <= x
  BY DEF IsMax
<1> QED BY <1>1 DEF IsMax

\* S tracks the set A: it is all of it as long as S is not full.
Tracks(S, A) ==
  /\ IsFiniteSet(A) /\ S \subseteq A /\ Bounded(S)
  /\ Cardinality(S) < MaxTrackedClients => S = A

LEMMA TracksNothing == Tracks({}, {})
BY FS_EmptySet, InventoryAssumption DEF Tracks, Bounded

LEMMA TracksStep ==
  ASSUME NEW S, NEW A, Tracks(S, A), NEW x, NEW T, T = Track(S, x), NEW B, B = A \cup {x}
  PROVE  Tracks(T, B)
<1>1. IsFiniteSet(B)
  BY FS_AddElement DEF Tracks
<1>2. Bounded(T)
  BY TrackBounded DEF Tracks
<1>3. CASE Cardinality(S) < MaxTrackedClients
  BY <1>1, <1>2, <1>3 DEF Tracks, Track
<1>4. CASE ~(Cardinality(S) < MaxTrackedClients)
  BY <1>1, <1>2, <1>4 DEF Tracks, Track
<1> QED BY <1>3, <1>4

\* clientsCapped says whether a client is missing.
LEMMA CappedStep ==
  ASSUME NEW S, NEW A, Tracks(S, A), NEW x, NEW T, T = Track(S, x), NEW B, B = A \cup {x}
  PROVE  T # B <=> S # A \/ Overflows(S, x)
<1>1. Cardinality(S) \in Nat /\ MaxTrackedClients \in Nat
  BY FS_CardinalityType, InventoryAssumption DEF Tracks, Bounded
<1>2. CASE Cardinality(S) < MaxTrackedClients
  BY <1>1, <1>2 DEF Tracks, Track, Overflows
<1>3. CASE ~(Cardinality(S) < MaxTrackedClients)
  <2>1. T = S /\ Cardinality(S) >= MaxTrackedClients
    BY <1>1, <1>3 DEF Track
  <2> QED BY <2>1 DEF Tracks, Overflows
<1> QED BY <1>2, <1>3

\* The size of a tracking set.
LEMMA TracksSize ==
  ASSUME NEW S, NEW A, Tracks(S, A)
  PROVE  /\ Cardinality(S) = Capped(A)
         /\ S # A <=> Cardinality(A) > MaxTrackedClients
<1>1. /\ Cardinality(S) \in Nat /\ Cardinality(A) \in Nat /\ MaxTrackedClients \in Nat
      /\ Cardinality(S) <= MaxTrackedClients
  BY FS_CardinalityType, InventoryAssumption DEF Tracks, Bounded
<1>2. CASE S = A
  BY <1>1, <1>2 DEF Capped
<1>3. CASE S # A
  <2>1. Cardinality(S) < Cardinality(A)
    <3>1. Cardinality(S) <= Cardinality(A) /\ (Cardinality(A) = Cardinality(S) => A = S)
      BY FS_Subset DEF Tracks
    <3> QED BY <1>1, <1>3, <3>1
  <2>2. Cardinality(S) = MaxTrackedClients
    BY <1>1, <1>3 DEF Tracks
  <2> QED BY <1>1, <1>3, <2>1, <2>2 DEF Capped
<1> QED BY <1>2, <1>3

\* What a set of records says.
Clients(rs) == {r.client : r \in rs}
Configs(rs) == {r.echConfig : r \in rs}
FoundBy(r) == {r.findings[i].id : i \in DOMAIN r.findings}
FoundIn(rs) == UNION {FoundBy(r) : r \in rs}
Firsts(rs) == {r.first : r \in rs}
Lasts(rs) == {r.last : r \in rs}
Ranks(rs) == {Rank[MaxSeverity(r)] : r \in rs}

\* An entry of key k that n records were folded into, the records rs; also when
\* they are none yet.
EntryBase(e, k, n, rs) ==
  /\ DOMAIN e = EntryFields /\ e.count = n /\ n \in Nat
  /\ e.findings = FoundIn(rs)
  /\ Tracks(e.clients, Clients(rs)) /\ (e.clientsCapped <=> e.clients # Clients(rs))
  /\ e.ech = k.ech /\ (e.ech => Tracks(e.echConfig, Configs(rs)))
  /\ e.sev \in Severities \cup {"none"}

\* Its times and its severity, when there are some.
EntryRange(e, rs) ==
  /\ IsMin(e.first, Firsts(rs)) /\ IsMax(e.last, Lasts(rs)) /\ IsMax(Rank[e.sev], Ranks(rs))
  /\ Firsts(rs) \subseteq Nat /\ Lasts(rs) \subseteq Nat /\ Ranks(rs) \subseteq Nat

LEMMA NewEntryBase ==
  ASSUME NEW r, NEW k, k = KeyOf(r), NEW rs, rs = {}
  PROVE  EntryBase(NewEntry(r), k, 0, rs)
<1>1. Clients(rs) = {} /\ Configs(rs) = {} /\ FoundIn(rs) = {}
  BY DEF Clients, Configs, FoundIn
<1>2. k.ech = r.ech
  BY DEF KeyOf
<1>3. DOMAIN NewEntry(r) = EntryFields
  BY DEF NewEntry, EntryFields
<1> QED BY <1>1, <1>2, <1>3, TracksNothing DEF EntryBase, NewEntry

\* The fields of FoldRecord.
Folded(e, r, d) ==
  /\ DOMAIN d = EntryFields /\ d.count = e.count + 1
  /\ d.first = (IF r.first < e.first THEN r.first ELSE e.first)
  /\ d.last = (IF r.last > e.last THEN r.last ELSE e.last)
  /\ d.clients = Track(e.clients, r.client)
  /\ d.clientsCapped = (e.clientsCapped \/ Overflows(e.clients, r.client))
  /\ d.echConfig = (IF r.ech THEN Track(e.echConfig, r.echConfig) ELSE e.echConfig)
  /\ d.sev = Worse(MaxSeverity(r), e.sev)
  /\ d.findings = e.findings \cup FoundBy(r)
  /\ d.ech = e.ech

LEMMA FoldRecordIs ==
  ASSUME NEW e, DOMAIN e = EntryFields, NEW r, NEW d, d = FoldRecord(e, r)
  PROVE  Folded(e, r, d)
BY DEF FoldRecord, EntryFields, FoundBy, Folded

LEMMA FoldBase ==
  ASSUME NEW e, NEW k, NEW n, NEW rs, EntryBase(e, k, n, rs),
         NEW r \in Recorded, KeyOf(r) = k,
         NEW d, d = FoldRecord(e, r), NEW ss, ss = rs \cup {r}
  PROVE  EntryBase(d, k, n + 1, ss)
<1>1. /\ Clients(ss) = Clients(rs) \cup {r.client}
      /\ Configs(ss) = Configs(rs) \cup {r.echConfig}
      /\ FoundIn(ss) = FoundIn(rs) \cup FoundBy(r)
  <2>1. Clients(ss) = Clients(rs) \cup {r.client} /\ Configs(ss) = Configs(rs) \cup {r.echConfig}
    BY DEF Clients, Configs
  <2>2. FoundIn(ss) = FoundIn(rs) \cup FoundBy(r)
    BY DEF FoundIn
  <2> QED BY <2>1, <2>2
<1>2. /\ DOMAIN d = EntryFields /\ d.count = e.count + 1
      /\ d.clients = Track(e.clients, r.client)
      /\ d.clientsCapped = (e.clientsCapped \/ Overflows(e.clients, r.client))
      /\ d.echConfig = (IF r.ech THEN Track(e.echConfig, r.echConfig) ELSE e.echConfig)
      /\ d.sev = Worse(MaxSeverity(r), e.sev)
      /\ d.findings = e.findings \cup FoundBy(r)
      /\ d.ech = e.ech
  <2>1. Folded(e, r, d)
    BY FoldRecordIs DEF EntryBase
  <2> QED BY <2>1 DEF Folded
<1>3. d.count = n + 1 /\ n + 1 \in Nat
  BY <1>2 DEF EntryBase
<1>4. d.findings = FoundIn(ss)
  BY <1>1, <1>2 DEF EntryBase
<1>5. Tracks(d.clients, Clients(ss))
  BY <1>1, <1>2, TracksStep DEF EntryBase
<1>6. d.clientsCapped <=> d.clients # Clients(ss)
  <2>1. d.clients # Clients(ss) <=> e.clients # Clients(rs) \/ Overflows(e.clients, r.client)
    <3> DEFINE S == e.clients
               A == Clients(rs)
               T == d.clients
               B == Clients(ss)
    <3>1. Tracks(S, A) /\ T = Track(S, r.client) /\ B = A \cup {r.client}
      BY <1>1, <1>2 DEF EntryBase
    <3> HIDE DEF S, A, T, B
    <3>2. T # B <=> S # A \/ Overflows(S, r.client)
      BY <3>1, CappedStep, ZenonT(40)
    <3> QED BY <3>2 DEF S, A, T, B
  <2>2. d.clientsCapped <=> (e.clientsCapped \/ Overflows(e.clients, r.client))
    BY <1>2
  <2> QED BY <2>1, <2>2 DEF EntryBase
<1>7. r.ech = k.ech
  BY DEF KeyOf
<1>8. d.ech = k.ech /\ (d.ech => Tracks(d.echConfig, Configs(ss)))
  <2>1. d.ech = k.ech
    BY <1>2 DEF EntryBase
  <2>2. ASSUME d.ech PROVE Tracks(d.echConfig, Configs(ss))
    <3>1. r.ech /\ Tracks(e.echConfig, Configs(rs))
      BY <1>2, <1>7, <2>1, <2>2 DEF EntryBase
    <3>2. d.echConfig = Track(e.echConfig, r.echConfig)
      BY <1>2, <3>1
    <3> QED BY <1>1, <3>1, <3>2, TracksStep
  <2> QED BY <2>1, <2>2
<1>9. d.sev \in Severities \cup {"none"}
  <2>1. MaxSeverity(r) \in Severities
    BY RecordsOK, MaxSeverityIs DEF RecordOK
  <2> QED BY <1>2, <2>1 DEF Worse, EntryBase
<1> QED BY <1>2, <1>3, <1>4, <1>5, <1>6, <1>8, <1>9 DEF EntryBase

LEMMA FoldRange ==
  ASSUME NEW e, NEW rs, DOMAIN e = EntryFields, e.sev \in Severities \cup {"none"}, EntryRange(e, rs),
         NEW r \in Recorded, NEW d, d = FoldRecord(e, r), NEW ss, ss = rs \cup {r}
  PROVE  EntryRange(d, ss)
<1>1. /\ Firsts(ss) = Firsts(rs) \cup {r.first} /\ Lasts(ss) = Lasts(rs) \cup {r.last}
      /\ Ranks(ss) = Ranks(rs) \cup {Rank[MaxSeverity(r)]}
  BY DEF Firsts, Lasts, Ranks
<1>2. /\ d.first = (IF r.first < e.first THEN r.first ELSE e.first)
      /\ d.last = (IF r.last > e.last THEN r.last ELSE e.last)
      /\ d.sev = Worse(MaxSeverity(r), e.sev)
  <2>1. Folded(e, r, d)
    BY FoldRecordIs
  <2> QED BY <2>1 DEF Folded
<1>3. r.first \in Nat /\ r.last \in Nat /\ MaxSeverity(r) \in Severities
  BY RecordsOK, MaxSeverityIs DEF RecordOK
<1>4. Rank[MaxSeverity(r)] \in Nat /\ Rank[e.sev] \in Nat
  BY <1>3, RankIs
<1>5. Rank[d.sev] = IF Rank[MaxSeverity(r)] > Rank[e.sev] THEN Rank[MaxSeverity(r)] ELSE Rank[e.sev]
  BY <1>2 DEF Worse
<1>6. IsMin(d.first, Firsts(ss))
  BY <1>1, <1>2, <1>3, MinStep DEF EntryRange
<1>7. IsMax(d.last, Lasts(ss))
  BY <1>1, <1>2, <1>3, MaxStep DEF EntryRange
<1>8. IsMax(Rank[d.sev], Ranks(ss))
  BY <1>1, <1>4, <1>5, MaxStep DEF EntryRange
<1>9. Firsts(ss) \subseteq Nat /\ Lasts(ss) \subseteq Nat /\ Ranks(ss) \subseteq Nat
  BY <1>1, <1>3, <1>4 DEF EntryRange
<1> QED BY <1>6, <1>7, <1>8, <1>9 DEF EntryRange

LEMMA NewRange ==
  ASSUME NEW r \in Recorded, NEW d, d = FoldRecord(NewEntry(r), r), NEW ss, ss = {r}
  PROVE  EntryRange(d, ss)
<1> DEFINE e == NewEntry(r)
<1>1. Firsts(ss) = {r.first} /\ Lasts(ss) = {r.last} /\ Ranks(ss) = {Rank[MaxSeverity(r)]}
  BY DEF Firsts, Lasts, Ranks
<1>2. DOMAIN e = EntryFields /\ e.first = r.first /\ e.last = r.last /\ e.sev = "none"
  BY DEF NewEntry, EntryFields
<1> HIDE DEF e
<1>3. /\ d.first = (IF r.first < e.first THEN r.first ELSE e.first)
      /\ d.last = (IF r.last > e.last THEN r.last ELSE e.last)
      /\ d.sev = Worse(MaxSeverity(r), e.sev)
  <2>1. Folded(e, r, d)
    BY <1>2, FoldRecordIs DEF e
  <2> QED BY <2>1 DEF Folded
<1>4. r.first \in Nat /\ r.last \in Nat /\ MaxSeverity(r) \in Severities
  BY RecordsOK, MaxSeverityIs DEF RecordOK
<1>5. Rank[MaxSeverity(r)] \in Nat /\ Rank["none"] = 0
  BY <1>4, RankIs
<1>6. Rank[d.sev] = Rank[MaxSeverity(r)]
  <2>1. d.sev = MaxSeverity(r) \/ (d.sev = "none" /\ ~(Rank[MaxSeverity(r)] > 0))
    BY <1>2, <1>3, <1>5 DEF Worse
  <2> QED BY <1>5, <2>1
<1>7. d.first = r.first /\ d.last = r.last
  BY <1>2, <1>3
<1> QED BY <1>1, <1>4, <1>5, <1>6, <1>7 DEF EntryRange, IsMin, IsMax

\* The records of a key.
KeyedBy(k) == {r \in Recorded : KeyOf(r) = k}

EntryFaithful(e, k, l) ==
  /\ EntryBase(e, k, Cardinality(Places(l, KeyedBy(k))), Among(l, KeyedBy(k)))
  /\ EntryRange(e, Among(l, KeyedBy(k)))

TableFaithful(a, l) == \A k \in DOMAIN a.aggs : EntryFaithful(a.aggs[k], k, l)

\* Add keeps the table faithful.
LEMMA AddTable ==
  ASSUME NEW a, NEW l, AccountsOK(a, l), TableFaithful(a, l), NEW r \in Recorded,
         NEW b, b = Add(a, r), NEW m, m = Append(l, r)
  PROVE  TableFaithful(b, m)
<1> DEFINE k == KeyOf(r)
           e == IF k \in DOMAIN a.aggs THEN a.aggs[k] ELSE NewEntry(r)
           d == FoldRecord(e, r)
<1>1. /\ NoRoom(a, k) => b.aggs = a.aggs
      /\ ~NoRoom(a, k) => b.aggs = [x \in DOMAIN a.aggs \cup {k} |-> IF x = k THEN d ELSE a.aggs[x]]
  <2>1. DOMAIN a = Fields
    BY DEF AccountsOK, TableOK
  <2>2. AddedTo(a, k, d, b)
    BY <2>1, AddIs
  <2> QED BY <2>2 DEF AddedTo
<1>2. OneMore(l, r, m)
  BY DEF AccountsOK, OneMore
<1>3. ASSUME NEW x, x # k
      PROVE  Places(m, KeyedBy(x)) = Places(l, KeyedBy(x)) /\ Among(m, KeyedBy(x)) = Among(l, KeyedBy(x))
  <2>1. r \notin KeyedBy(x)
    BY <1>3 DEF KeyedBy
  <2> QED BY <1>2, <2>1, WhereOut
<1>4. ASSUME NEW x \in DOMAIN a.aggs, x # k
      PROVE  EntryFaithful(a.aggs[x], x, m)
  <2>1. EntryFaithful(a.aggs[x], x, l)
    BY DEF TableFaithful
  <2> QED BY <1>3, <1>4, <2>1 DEF EntryFaithful
<1>5. CASE NoRoom(a, k)
  <2>1. k \notin DOMAIN a.aggs
    BY <1>5 DEF NoRoom
  <2> QED BY <1>1, <1>4, <1>5, <2>1 DEF TableFaithful
<1>6. CASE ~NoRoom(a, k)
  <2> DEFINE n == Cardinality(Places(l, KeyedBy(k)))
             rs == Among(l, KeyedBy(k))
             ss == Among(m, KeyedBy(k))
  <2>1. Cardinality(Places(m, KeyedBy(k))) = n + 1 /\ ss = rs \cup {r}
    <3>1. r \in KeyedBy(k)
      BY DEF KeyedBy
    <3> QED BY <1>2, <3>1, WhereIn
  <2> HIDE DEF n, rs, ss
  <2>2. EntryBase(d, k, n + 1, ss) /\ EntryRange(d, ss)
    <3>1. CASE k \in DOMAIN a.aggs
      <4>1. e = a.aggs[k] /\ EntryBase(e, k, n, rs) /\ EntryRange(e, rs)
        BY <3>1 DEF TableFaithful, EntryFaithful, n, rs
      <4> HIDE DEF e
      <4>2. EntryBase(d, k, n + 1, ss)
        BY <2>1, <4>1, FoldBase
      <4>3. EntryRange(d, ss)
        <5>1. DOMAIN e = EntryFields /\ e.sev \in Severities \cup {"none"}
          BY <4>1 DEF EntryBase
        <5> QED BY <2>1, <4>1, <5>1, FoldRange
      <4> QED BY <4>2, <4>3
    <3>2. CASE k \notin DOMAIN a.aggs
      <4>1. Places(l, KeyedBy(k)) = {} /\ rs = {}
        <5>1. \A i \in DOMAIN l : KeyOf(l[i]) \in DOMAIN a.aggs
          BY <1>6, <3>2, NewIsNew
        <5>2. Places(l, KeyedBy(k)) = {}
          BY <3>2, <5>1 DEF Places, KeyedBy
        <5> QED BY <5>2 DEF rs, Among
      <4>2. n = 0
        BY <4>1, FS_EmptySet DEF n
      <4>3. e = NewEntry(r) /\ EntryBase(e, k, n, rs)
        BY <3>2, <4>1, <4>2, NewEntryBase
      <4>4. ss = {r}
        BY <2>1, <4>1
      <4>5. EntryRange(d, ss)
        BY <4>3, <4>4, NewRange
      <4> HIDE DEF e
      <4>6. EntryBase(d, k, n + 1, ss)
        BY <2>1, <4>3, FoldBase
      <4> QED BY <4>5, <4>6
    <3> QED BY <3>1, <3>2
  <2>3. EntryFaithful(d, k, m)
    BY <2>1, <2>2 DEF EntryFaithful, ss
  <2>4. DOMAIN b.aggs = DOMAIN a.aggs \cup {k} /\ b.aggs[k] = d
        /\ \A x \in DOMAIN a.aggs : x # k => b.aggs[x] = a.aggs[x]
    BY <1>1, <1>6
  <2> HIDE DEF d, k
  <2> QED BY <1>4, <2>3, <2>4 DEF TableFaithful
<1> QED BY <1>5, <1>6

(***************************************************************************)
(* The summary, compared with the log.                                     *)
(***************************************************************************)
\* The fields of Add.
Summed(a, r, b) ==
  /\ b.flows = a.flows + 1
  /\ b.first = (IF a.first = 0 \/ r.first < a.first THEN r.first ELSE a.first)
  /\ b.last = (IF r.last > a.last THEN r.last ELSE a.last)
  /\ b.serverObserved = (IF r.observed THEN a.serverObserved + 1 ELSE a.serverObserved)
  /\ b.pqDecided = (IF r.observed THEN a.pqDecided + 1 ELSE a.pqDecided)
  /\ b.pqDone = (IF r.observed /\ r.pq = "post_quantum" THEN a.pqDone + 1 ELSE a.pqDone)
  /\ b.echOffered = (IF r.ech THEN a.echOffered + 1 ELSE a.echOffered)
  /\ b.rows = Count(a.rows, Rows(r))
  /\ b.findings = AddFindings(a.findings, r.findings)

LEMMA AddSums ==
  ASSUME NEW a, DOMAIN a = Fields, NEW r, NEW b, b = Add(a, r)
  PROVE  Summed(a, r, b)
<1> DEFINE t == AddAggregate(a, r)
           k == KeyOf(r)
<1>1. /\ DOMAIN t = Fields /\ t.flows = a.flows /\ t.first = a.first /\ t.last = a.last
      /\ t.serverObserved = a.serverObserved /\ t.pqDecided = a.pqDecided /\ t.pqDone = a.pqDone
      /\ t.echOffered = a.echOffered /\ t.rows = a.rows /\ t.findings = a.findings
  <2> DEFINE e == IF k \in DOMAIN a.aggs THEN a.aggs[k] ELSE NewEntry(r)
             s == [x \in DOMAIN a.aggs \cup {k} |-> IF x = k THEN FoldRecord(e, r) ELSE a.aggs[x]]
  <2>1. t = [a EXCEPT !.aggDropped = @ + 1] \/ t = [a EXCEPT !.aggs = s]
    BY DEF AddAggregate
  <2> HIDE DEF t, s
  <2> QED BY <2>1 DEF Fields
<1> HIDE DEF t
<1>2. b = [t EXCEPT
             !.flows = @ + 1,
             !.first = IF @ = 0 \/ r.first < @ THEN r.first ELSE @,
             !.last = IF r.last > @ THEN r.last ELSE @,
             !.serverObserved = IF r.observed THEN @ + 1 ELSE @,
             !.pqDecided = IF r.observed THEN @ + 1 ELSE @,
             !.pqDone = IF r.observed /\ r.pq = "post_quantum" THEN @ + 1 ELSE @,
             !.echOffered = IF r.ech THEN @ + 1 ELSE @,
             !.rows = Count(@, Rows(r)),
             !.findings = AddFindings(@, r.findings)]
  BY DEF Add, t, Decided
<1> QED BY <1>1, <1>2 DEF Summed, Fields

\* A counter of the records that are in C.
Counter(c, l, C) == c = Cardinality(Places(l, C)) /\ c \in Nat

LEMMA CounterStep ==
  ASSUME NEW l, NEW r, NEW m, OneMore(l, r, m), NEW C, NEW c, Counter(c, l, C),
         NEW d, r \in C => d = c + 1, r \notin C => d = c
  PROVE  Counter(d, m, C)
<1>1. CASE r \in C
  BY <1>1, WhereIn DEF Counter
<1>2. CASE r \notin C
  BY <1>2, WhereOut DEF Counter
<1> QED BY <1>1, <1>2

\* The records that have a row of a distribution, and the count of a row.
WithRow(x) == {r \in Recorded : x \in Rows(r)}
CountOf(rows, x) == IF x \in DOMAIN rows THEN rows[x] ELSE 0
RowsIn(rs) == UNION {Rows(r) : r \in rs}

LEMMA CountIs ==
  ASSUME NEW rows, NEW seen, NEW new, new = Count(rows, seen), NEW x, CountOf(rows, x) \in Nat
  PROVE  /\ x \in seen => CountOf(new, x) = CountOf(rows, x) + 1
         /\ x \notin seen => CountOf(new, x) = CountOf(rows, x)
<1>1. DOMAIN new = DOMAIN rows \cup seen
  BY DEF Count
<1>2. CASE x \in DOMAIN new
  <2>1. new[x] = CountOf(rows, x) + (IF x \in seen THEN 1 ELSE 0)
    BY <1>1, <1>2 DEF Count, CountOf
  <2> QED BY <1>2, <2>1 DEF CountOf
<1>3. CASE x \notin DOMAIN new
  BY <1>1, <1>3 DEF CountOf
<1> QED BY <1>2, <1>3

\* How often each record of a log has a finding.
TimesIn(l, id) == [i \in DOMAIN l |-> Times(l[i].findings, id)]

LEMMA TimesInStep ==
  ASSUME NEW l, NEW r, NEW m, OneMore(l, r, m), NEW id \in FindingNames
  PROVE  /\ SumFunction(TimesIn(l, id)) \in Nat /\ Times(r.findings, id) \in Nat
         /\ SumFunction(TimesIn(m, id)) = SumFunction(TimesIn(l, id)) + Times(r.findings, id)
<1> DEFINE w == TimesIn(m, id)
           v == TimesIn(l, id)
           S == DOMAIN l
           T == DOMAIN m
<1>1. \A s : s \in Seq(Finding) => Times(s, id) \in Nat
  <2>1. ASSUME NEW s, s \in Seq(Finding) PROVE Times(s, id) \in Nat
    <3>1. IsFiniteSet(DOMAIN s)
      <4>1. DOMAIN s = 1..Len(s) /\ Len(s) \in Nat
        BY <2>1
      <4> QED BY <4>1, FS_Interval
    <3>2. IsFiniteSet({j \in DOMAIN s : s[j].id = id})
      BY <3>1, FS_Subset
    <3> QED BY <3>2, FS_CardinalityType DEF Times
  <2> QED BY <2>1
<1>2. PICK n : GrowsBy(l, r, m, n)
  BY AppendIs
<1>3. T = S \cup {n} /\ n \notin S /\ m[n] = r /\ \A i \in S : m[i] = l[i]
  BY <1>2 DEF GrowsBy
<1>4. l \in Seq(Recorded) /\ r \in Recorded
  BY DEF OneMore
<1>5. \A i \in T : m[i] \in Recorded
  BY <1>3, <1>4
<1>6. \A i \in T : Times(m[i].findings, id) \in Nat
  BY <1>1, <1>5, RecordsOK DEF RecordOK
<1>7. /\ DOMAIN w = T /\ DOMAIN v = S /\ n \in T /\ S = T \ {n}
      /\ \A i \in T : w[i] \in Nat
      /\ \A i \in S : v[i] = w[i] /\ v[i] \in Nat
      /\ w[n] = Times(r.findings, id)
  BY <1>3, <1>6 DEF TimesIn
<1>8. IsFiniteSet(S) /\ IsFiniteSet(T)
  <2>1. DOMAIN l = 1..Len(l) /\ Len(l) \in Nat
    BY <1>4
  <2>2. IsFiniteSet(S)
    BY <2>1, FS_Interval
  <2> QED BY <1>3, <2>2, FS_AddElement
<1>9. SumFunction(w) = Total(w, T) /\ SumFunction(v) = Total(v, S)
  <2>1. SumFunctionOnSet(w, T) = Total(w, T)
    <3> HIDE DEF w, T
    <3> QED BY <1>7, <1>8, SumFunctionIs
  <2>2. SumFunctionOnSet(v, S) = Total(v, S)
    <3> HIDE DEF v, S
    <3> QED BY <1>7, <1>8, SumFunctionIs
  <2> QED BY <1>7, <2>1, <2>2 DEF SumFunction
<1>10. Total(w, T) = w[n] + Total(v, S) /\ Total(v, S) \in Nat
  <2> HIDE DEF w, v, S, T
  <2>1. Total(w, T) = w[n] + Total(v, S)
    BY <1>7, <1>8, TotalSplit
  <2> QED BY <1>7, <1>8, <2>1, TotalType
<1>11. Times(r.findings, id) \in Nat
  BY <1>1, <1>4, RecordsOK DEF RecordOK
<1> HIDE DEF w, v, S, T
<1>12. SumFunction(w) = SumFunction(v) + Times(r.findings, id) /\ SumFunction(v) \in Nat
  BY <1>7, <1>9, <1>10, <1>11
<1> QED BY <1>11, <1>12 DEF w, v

Answered == {r \in Recorded : r.observed}
Ready == {r \in Recorded : r.pq = "post_quantum"}
WithECH == {r \in Recorded : r.ech}

\* The range of times, 0 before the first record.
Spans(first, last, rs) ==
  /\ rs = {} => first = 0 /\ last = 0
  /\ rs # {} => IsMin(first, Firsts(rs)) /\ IsMax(last, Lasts(rs))

SummaryOK(a, l) ==
  /\ a.flows = Len(l) /\ Spans(a.first, a.last, Among(l, Recorded))
  /\ Counter(a.serverObserved, l, Answered) /\ a.pqDecided = a.serverObserved
  /\ Counter(a.pqDone, l, Ready) /\ Counter(a.echOffered, l, WithECH)
  /\ DOMAIN a.rows = RowsIn(Among(l, Recorded))
  /\ \A x : Counter(CountOf(a.rows, x), l, WithRow(x))
  /\ a.findings \in Tallies
  /\ \A id \in FindingNames : CountIn(a.findings, id) = SumFunction(TimesIn(l, id))

\* The records of a log are records.
LEMMA AmongOK ==
  ASSUME NEW l, l \in Seq(Recorded), NEW rs, rs = Among(l, Recorded)
  PROVE  /\ rs = {l[i] : i \in DOMAIN l} /\ rs \subseteq Recorded
         /\ Firsts(rs) \subseteq Nat \ {0} /\ Lasts(rs) \subseteq Nat
<1>1. \A i \in DOMAIN l : l[i] \in Recorded
  OBVIOUS
<1>2. Places(l, Recorded) = DOMAIN l
  BY <1>1 DEF Places
<1>3. rs = {l[i] : i \in DOMAIN l}
  BY <1>2 DEF Among
<1>4. rs \subseteq Recorded
  BY <1>1, <1>3
<1>5. \A r \in rs : r.first \in Nat \ {0} /\ r.last \in Nat
  BY <1>4, RecordsOK DEF RecordOK
<1>6. Firsts(rs) \subseteq Nat \ {0} /\ Lasts(rs) \subseteq Nat
  BY <1>5 DEF Firsts, Lasts
<1> QED BY <1>3, <1>4, <1>6

LEMMA SpansStep ==
  ASSUME NEW first, NEW last, NEW rs, Spans(first, last, rs),
         Firsts(rs) \subseteq Nat \ {0}, Lasts(rs) \subseteq Nat,
         NEW r \in Recorded, NEW ss, ss = rs \cup {r},
         NEW f, f = (IF first = 0 \/ r.first < first THEN r.first ELSE first),
         NEW g, g = (IF r.last > last THEN r.last ELSE last)
  PROVE  Spans(f, g, ss)
<1>1. Firsts(ss) = Firsts(rs) \cup {r.first} /\ Lasts(ss) = Lasts(rs) \cup {r.last} /\ ss # {}
  BY DEF Firsts, Lasts
<1>2. r.first \in Nat \ {0} /\ r.last \in Nat
  BY RecordsOK DEF RecordOK
<1>3. CASE rs = {}
  <2>1. Firsts(ss) = {r.first} /\ Lasts(ss) = {r.last}
    BY <1>3 DEF Firsts, Lasts
  <2>2. first = 0 /\ last = 0
    BY <1>3 DEF Spans
  <2>3. f = r.first /\ g = r.last
    BY <1>2, <2>2
  <2>4. IsMin(f, {r.first}) /\ IsMax(g, {r.last})
    BY <1>2, <2>3 DEF IsMin, IsMax
  <2> QED BY <1>1, <2>1, <2>4 DEF Spans
<1>4. CASE rs # {}
  <2>1. IsMin(first, Firsts(rs)) /\ IsMax(last, Lasts(rs))
    BY <1>4 DEF Spans
  <2>2. first # 0
    BY <2>1 DEF IsMin
  <2>3. f = IF r.first < first THEN r.first ELSE first
    BY <2>2
  <2>4. IsMin(f, Firsts(ss))
    <3>1. Firsts(rs) \subseteq Nat /\ r.first \in Nat
      BY <1>2
    <3> QED BY <1>1, <2>1, <2>3, <3>1, MinStep
  <2>5. IsMax(g, Lasts(ss))
    BY <1>1, <1>2, <2>1, MaxStep
  <2> QED BY <1>1, <2>4, <2>5 DEF Spans
<1> QED BY <1>3, <1>4

\* Add keeps the summary true.
LEMMA AddSummary ==
  ASSUME NEW a, NEW l, DOMAIN a = Fields, SummaryOK(a, l), NEW r, NEW m, OneMore(l, r, m),
         NEW b, b = Add(a, r)
  PROVE  SummaryOK(b, m)
<1>1. Summed(a, r, b)
  BY AddSums
<1>2. l \in Seq(Recorded) /\ r \in Recorded /\ Len(m) = Len(l) + 1
  BY DEF OneMore
<1>3. Among(m, Recorded) = Among(l, Recorded) \cup {r}
  BY <1>2, WhereIn
<1>4. b.flows = Len(m)
  BY <1>1, <1>2 DEF SummaryOK, Summed
<1>5. Spans(b.first, b.last, Among(m, Recorded))
  <2> DEFINE rs == Among(l, Recorded)
             ss == Among(m, Recorded)
  <2>1. Firsts(rs) \subseteq Nat \ {0} /\ Lasts(rs) \subseteq Nat
    BY <1>2, AmongOK
  <2>2. Spans(a.first, a.last, rs) /\ ss = rs \cup {r}
    BY <1>3 DEF SummaryOK
  <2> HIDE DEF rs, ss
  <2>3. /\ b.first = (IF a.first = 0 \/ r.first < a.first THEN r.first ELSE a.first)
        /\ b.last = (IF r.last > a.last THEN r.last ELSE a.last)
    BY <1>1 DEF Summed
  <2>4. Spans(b.first, b.last, ss)
    BY <1>2, <2>1, <2>2, <2>3, SpansStep, ZenonT(40)
  <2> QED BY <2>4 DEF ss
<1>6. Counter(b.serverObserved, m, Answered) /\ b.pqDecided = b.serverObserved
  <2>1. r \in Answered <=> r.observed
    BY <1>2 DEF Answered
  <2>2. /\ r \in Answered => b.serverObserved = a.serverObserved + 1
        /\ r \notin Answered => b.serverObserved = a.serverObserved
    BY <1>1, <2>1 DEF Summed
  <2>3. Counter(b.serverObserved, m, Answered)
    BY <2>2, CounterStep DEF SummaryOK
  <2> QED BY <1>1, <2>3 DEF SummaryOK, Summed
<1>7. Counter(b.pqDone, m, Ready)
  <2>1. r \in Ready <=> r.observed /\ r.pq = "post_quantum"
    BY <1>2, RecordsOK DEF Ready, RecordOK
  <2>2. /\ r \in Ready => b.pqDone = a.pqDone + 1
        /\ r \notin Ready => b.pqDone = a.pqDone
    BY <1>1, <2>1 DEF Summed
  <2> QED BY <2>2, CounterStep DEF SummaryOK
<1>8. Counter(b.echOffered, m, WithECH)
  <2>1. r \in WithECH <=> r.ech
    BY <1>2 DEF WithECH
  <2>2. /\ r \in WithECH => b.echOffered = a.echOffered + 1
        /\ r \notin WithECH => b.echOffered = a.echOffered
    BY <1>1, <2>1 DEF Summed
  <2> QED BY <2>2, CounterStep DEF SummaryOK
<1>9. DOMAIN b.rows = RowsIn(Among(m, Recorded))
  <2>1. DOMAIN b.rows = DOMAIN a.rows \cup Rows(r)
    BY <1>1 DEF Summed, Count
  <2>2. RowsIn(Among(m, Recorded)) = RowsIn(Among(l, Recorded)) \cup Rows(r)
    BY <1>3 DEF RowsIn
  <2> QED BY <2>1, <2>2 DEF SummaryOK
<1>10. ASSUME NEW x PROVE Counter(CountOf(b.rows, x), m, WithRow(x))
  <2>1. r \in WithRow(x) <=> x \in Rows(r)
    BY <1>2 DEF WithRow
  <2>2. Counter(CountOf(a.rows, x), l, WithRow(x))
    BY DEF SummaryOK
  <2>3. b.rows = Count(a.rows, Rows(r)) /\ CountOf(a.rows, x) \in Nat
    BY <1>1, <2>2 DEF Summed, Counter
  <2>4. /\ r \in WithRow(x) => CountOf(b.rows, x) = CountOf(a.rows, x) + 1
        /\ r \notin WithRow(x) => CountOf(b.rows, x) = CountOf(a.rows, x)
    BY <2>1, <2>3, CountIs
  <2> QED BY <2>2, <2>4, CounterStep
<1>11. b.findings \in Tallies /\ \A id \in FindingNames : CountIn(b.findings, id) = SumFunction(TimesIn(m, id))
  <2>1. r.findings \in Seq(Finding) /\ b.findings = AddFindings(a.findings, r.findings) /\ a.findings \in Tallies
    BY <1>1, <1>2, RecordsOK DEF RecordOK, Summed, SummaryOK
  <2>2. /\ b.findings \in Tallies
        /\ \A id \in FindingNames : /\ Times(r.findings, id) \in Nat
                                  /\ CountIn(b.findings, id) = CountIn(a.findings, id) + Times(r.findings, id)
    BY <2>1, AddFindingsIs
  <2>3. ASSUME NEW id \in FindingNames PROVE CountIn(b.findings, id) = SumFunction(TimesIn(m, id))
    <3>1. CountIn(b.findings, id) = CountIn(a.findings, id) + Times(r.findings, id)
      BY <2>2
    <3>2. CountIn(a.findings, id) = SumFunction(TimesIn(l, id))
      BY DEF SummaryOK
    <3>3. SumFunction(TimesIn(m, id)) = SumFunction(TimesIn(l, id)) + Times(r.findings, id)
      BY TimesInStep
    <3> QED BY <3>1, <3>2, <3>3
  <2> QED BY <2>2, <2>3
<1> QED BY <1>4, <1>5, <1>6, <1>7, <1>8, <1>9, <1>10, <1>11 DEF SummaryOK

(***************************************************************************)
(* The estimate of ECH connections that are GREASE.                        *)
(***************************************************************************)
KeyedIn(K) == {r \in Recorded : KeyOf(r) \in K}

\* The counts of some aggregates are the records of their keys.
LEMMA CountsTotal ==
  ASSUME NEW l, l \in Seq(Recorded), NEW K, IsFiniteSet(K),
         NEW w, \A k \in K : w[k] = Cardinality(Places(l, KeyedBy(k)))
  PROVE  Total(w, K) = Cardinality(Places(l, KeyedIn(K)))
<1> DEFINE F == {T \in SUBSET K : Total(w, T) = Cardinality(Places(l, KeyedIn(T)))}
<1>1. \A k \in K : w[k] \in Nat
  BY WhereFinite
<1>2. \A T \in SUBSET K : IsFiniteSet(T)
  BY FS_Subset
<1>3. {} \in F
  <2>1. Places(l, KeyedIn({})) = {}
    BY DEF Places, KeyedIn
  <2>2. Cardinality(Places(l, KeyedIn({}))) = 0
    BY <2>1, FS_EmptySet
  <2>3. Total(w, {}) = 0
    BY FS_EmptySet, TotalType
  <2> QED BY <2>2, <2>3
<1>4. ASSUME NEW T \in SUBSET K, T \in F, NEW x \in K, x \notin T
      PROVE  T \cup {x} \in F
  <2> DEFINE U == T \cup {x}
             A == Places(l, KeyedIn(T))
             B == Places(l, KeyedBy(x))
  <2>1. IsFiniteSet(U) /\ U \in SUBSET K
    <3>1. U \in SUBSET K
      OBVIOUS
    <3> QED BY <1>2, <3>1
  <2>2. Total(w, U) = w[x] + Total(w, T)
    <3>1. T = U \ {x} /\ x \in U /\ \A k \in U : w[k] \in Nat
      BY <1>1, <1>4
    <3> HIDE DEF U
    <3> QED BY <2>1, <3>1, TotalSplit
  <2>3. IsFiniteSet(A) /\ IsFiniteSet(B) /\ Cardinality(A) \in Nat /\ Cardinality(B) \in Nat
    BY WhereFinite
  <2>4. Places(l, KeyedIn(U)) = A \cup B /\ A \cap B = {}
    BY <1>4 DEF Places, KeyedIn, KeyedBy
  <2> HIDE DEF A, B
  <2>5. Cardinality(A \cup B) = Cardinality(A) + Cardinality(B)
    <3>1. Cardinality(A \cup B) = Cardinality(A) + Cardinality(B) - Cardinality(A \cap B)
      BY <2>3, FS_Union
    <3>2. Cardinality(A \cap B) = 0
      BY <2>4, FS_EmptySet
    <3> QED BY <2>3, <3>1, <3>2
  <2>6. Total(w, T) = Cardinality(A) /\ w[x] = Cardinality(B)
    BY <1>4 DEF A, B
  <2>7. Total(w, U) = Cardinality(Places(l, KeyedIn(U)))
    <3> HIDE DEF U
    <3>1. Cardinality(Places(l, KeyedIn(U))) = Cardinality(A \cup B)
      BY <2>4, Zenon
    <3> QED BY <2>2, <2>3, <2>5, <2>6, <3>1
  <2> QED BY <2>1, <2>7
<1>5. K \in F
  <2> HIDE DEF F
  <2> QED BY <1>3, <1>4, InductionOverParts
<1> QED BY <1>5

\* More than one member.
LEMMA TwoMembers ==
  ASSUME NEW S, IsFiniteSet(S)
  PROVE  Cardinality(S) > 1 <=> \E x, y \in S : x # y
<1>1. Cardinality(S) \in Nat
  BY FS_CardinalityType
<1>2. ASSUME NEW x \in S, NEW y \in S, x # y PROVE Cardinality(S) > 1
  <2>1. IsFiniteSet(S \ {x}) /\ Cardinality(S \ {x}) \in Nat /\ Cardinality(S \ {x}) + 1 = Cardinality(S)
    BY OneLess
  <2>2. S \ {x} # {}
    BY <1>2
  <2>3. Cardinality(S \ {x}) # 0
    BY <2>1, <2>2, FS_EmptySet
  <2> QED BY <1>1, <2>1, <2>3
<1>3. ASSUME Cardinality(S) > 1 PROVE \E x, y \in S : x # y
  <2>1. S # {}
    BY <1>3, FS_EmptySet
  <2>2. PICK x : x \in S
    BY <2>1
  <2>3. IsFiniteSet(S \ {x}) /\ Cardinality(S \ {x}) \in Nat /\ Cardinality(S \ {x}) + 1 = Cardinality(S)
    BY <2>2, OneLess
  <2>4. S \ {x} # {}
    <3>1. Cardinality(S \ {x}) # 0
      BY <1>3, <2>3
    <3> QED BY <3>1, FS_EmptySet
  <2> QED BY <2>2, <2>4
<1> QED BY <1>2, <1>3

\* An aggregate looks like GREASE if and only if its records have two configs.
LEMMA GreaseIs ==
  ASSUME NEW l, l \in Seq(Recorded), NEW k, NEW e, EntryFaithful(e, k, l)
  PROVE  LikelyGREASE(e) <=>
           k.ech /\ \E i, j \in Places(l, KeyedBy(k)) : l[i].echConfig # l[j].echConfig
<1> DEFINE W == Places(l, KeyedBy(k))
           A == Configs(Among(l, KeyedBy(k)))
           S == e.echConfig
<1>1. e.ech = k.ech /\ e.count = Cardinality(W) /\ (e.ech => Tracks(S, A))
  BY DEF EntryFaithful, EntryBase
<1>2. IsFiniteSet(W) /\ Cardinality(W) \in Nat
  BY WhereFinite
<1>3. A = {l[i].echConfig : i \in W}
  BY DEF Configs, Among
<1> HIDE DEF W, A, S
<1>4. (\E i, j \in W : l[i].echConfig # l[j].echConfig) <=> \E x, y \in A : x # y
  BY <1>3
<1>5. ASSUME Tracks(S, A)
      PROVE  Cardinality(S) > 1 <=> \E x, y \in A : x # y
  <2>1. IsFiniteSet(S) /\ Cardinality(S) \in Nat /\ S \subseteq A
    BY <1>5, FS_CardinalityType DEF Tracks, Bounded
  <2>2. MaxTrackedClients \in Nat /\ MaxTrackedClients > 1
    BY InventoryAssumption
  <2>3. Cardinality(S) > 1 <=> \E x, y \in S : x # y
    BY <2>1, TwoMembers
  <2>4. CASE Cardinality(S) < MaxTrackedClients
    <3>1. S = A
      BY <1>5, <2>4 DEF Tracks
    <3> QED BY <2>3, <3>1
  <2>5. CASE ~(Cardinality(S) < MaxTrackedClients)
    <3>1. Cardinality(S) > 1
      BY <2>1, <2>2, <2>5
    <3> QED BY <2>1, <2>3, <3>1
  <2> QED BY <2>4, <2>5
<1>6. (\E x, y \in A : x # y) => Cardinality(W) > 1
  <2>1. Cardinality(W) > 1 <=> \E i, j \in W : i # j
    BY <1>2, TwoMembers
  <2> QED BY <1>4, <2>1
<1>7. LikelyGREASE(e) <=> e.ech /\ e.count > 1 /\ Cardinality(S) > 1
  BY DEF LikelyGREASE, S
<1>8. CASE e.ech
  <2>1. Tracks(S, A)
    BY <1>1, <1>8
  <2> QED BY <1>1, <1>4, <1>5, <1>6, <1>7, <1>8, <2>1 DEF W
<1>9. CASE ~e.ech
  BY <1>1, <1>7, <1>9
<1> QED BY <1>8, <1>9

(***************************************************************************)
(* The numbers are those of a batch computation.                           *)
(***************************************************************************)
TalliesOK(a, l) == AccountsOK(a, l) /\ TableFaithful(a, l) /\ SummaryOK(a, l)

LEMMA InitTallies == Init => TalliesOK(acc, log)
<1> SUFFICES ASSUME Init PROVE TalliesOK(acc, log)
  OBVIOUS
<1>1. AccountsOK(acc, log)
  BY InitAccounts
<1>2. TableFaithful(acc, log)
  <2>1. acc.aggs = <<>>
    BY DEF Init
  <2> QED BY <2>1 DEF TableFaithful
<1>3. SummaryOK(acc, log)
  <2>1. /\ acc.flows = 0 /\ acc.first = 0 /\ acc.last = 0 /\ acc.serverObserved = 0
        /\ acc.pqDecided = 0 /\ acc.pqDone = 0 /\ acc.echOffered = 0
    BY DEF Init
  <2>2. acc.rows = <<>> /\ acc.findings = <<>>
    BY DEF Init
  <2>3. log = <<>> /\ DOMAIN log = {} /\ Len(log) = 0
    BY DEF Init
  <2>4. \A C : Places(log, C) = {} /\ Among(log, C) = {}
    BY <2>3 DEF Places, Among
  <2>5. \A C : Counter(0, log, C)
    BY <2>4, FS_EmptySet DEF Counter
  <2>6. Spans(0, 0, Among(log, Recorded))
    BY <2>4 DEF Spans
  <2>7. DOMAIN acc.rows = {} /\ DOMAIN acc.findings = {}
    BY <2>2
  <2>8. RowsIn(Among(log, Recorded)) = {}
    BY <2>4 DEF RowsIn
  <2>9. \A x : CountOf(acc.rows, x) = 0 /\ CountIn(acc.findings, x) = 0
    BY <2>7 DEF CountOf, CountIn
  <2>10. acc.findings \in Tallies
    <3>1. acc.findings \in [{} -> Tally]
      BY <2>2
    <3> QED BY <3>1 DEF Tallies
  <2>11. ASSUME NEW id \in FindingNames PROVE SumFunction(TimesIn(log, id)) = 0
    <3> DEFINE w == TimesIn(log, id)
    <3>1. DOMAIN w = {}
      BY <2>3 DEF TimesIn
    <3> HIDE DEF w
    <3>2. SumFunctionOnSet(w, {}) = Total(w, {}) /\ Total(w, {}) = 0
      BY FS_EmptySet, SumFunctionIs, TotalType
    <3> QED BY <3>1, <3>2 DEF SumFunction, w
  <2>12. \A x : Counter(CountOf(acc.rows, x), log, WithRow(x))
    BY <2>5, <2>9
  <2>13. \A id \in FindingNames : CountIn(acc.findings, id) = SumFunction(TimesIn(log, id))
    BY <2>9, <2>11
  <2> QED BY <2>1, <2>3, <2>5, <2>6, <2>7, <2>8, <2>10, <2>12, <2>13 DEF SummaryOK
<1> QED BY <1>1, <1>2, <1>3 DEF TalliesOK

LEMMA NextTallies == TalliesOK(acc, log) /\ [Next]_vars => TalliesOK(acc', log')
<1> SUFFICES ASSUME TalliesOK(acc, log), [Next]_vars PROVE TalliesOK(acc', log')
  OBVIOUS
<1>1. CASE Next
  <2>1. PICK r \in Recorded : acc' = Add(acc, r) /\ log' = Append(log, r)
    BY <1>1, StepIs
  <2>2. AccountsOK(acc, log) /\ TableFaithful(acc, log) /\ SummaryOK(acc, log)
    BY DEF TalliesOK
  <2>3. AccountsOK(acc', log')
    BY <2>1, <2>2, AddAccounts
  <2>4. TableFaithful(acc', log')
    BY <2>1, <2>2, AddTable
  <2>5. OneMore(log, r, log') /\ DOMAIN acc = Fields
    BY <2>1, <2>2 DEF OneMore, AccountsOK, TableOK
  <2>6. SummaryOK(acc', log')
    BY <2>1, <2>2, <2>5, AddSummary
  <2> QED BY <2>3, <2>4, <2>6 DEF TalliesOK
<1>2. CASE UNCHANGED vars
  BY <1>2 DEF vars
<1> QED BY <1>1, <1>2

\* The table as the property says it.
LEMMA AggregatesSay == TalliesOK(acc, log) => AggregatesFaithful
<1> SUFFICES ASSUME TalliesOK(acc, log) PROVE AggregatesFaithful
  OBVIOUS
<1>1. log \in Seq(Recorded) /\ \A i \in DOMAIN log : log[i] \in Recorded
  BY DEF TalliesOK, AccountsOK
<1>2. ASSUME NEW k \in AggKeys, NEW e, e = acc.aggs[k], NEW rs, rs = {log[i] : i \in OfKey(k)}
      PROVE  /\ e.count = Cardinality(OfKey(k))
             /\ e.first = Min({r.first : r \in rs}) /\ e.last = Max({r.last : r \in rs})
             /\ Rank[e.sev] = Max({Rank[MaxSeverity(r)] : r \in rs})
             /\ e.findings = UNION {{r.findings[i].id : i \in DOMAIN r.findings} : r \in rs}
             /\ Cardinality(e.clients) = Capped({r.client : r \in rs})
             /\ e.clientsCapped <=> Cardinality({r.client : r \in rs}) > MaxTrackedClients
  <2>1. OfKey(k) = Places(log, KeyedBy(k))
    BY <1>1 DEF OfKey, Logged, Places, KeyedBy
  <2>2. rs = Among(log, KeyedBy(k))
    BY <1>2, <2>1 DEF Among
  <2>3. EntryBase(e, k, Cardinality(OfKey(k)), rs) /\ EntryRange(e, rs)
    BY <1>2, <2>1, <2>2 DEF TalliesOK, TableFaithful, EntryFaithful, AggKeys
  <2>4. e.count = Cardinality(OfKey(k)) /\ e.findings = FoundIn(rs) /\ Tracks(e.clients, Clients(rs))
        /\ (e.clientsCapped <=> e.clients # Clients(rs))
    BY <2>3 DEF EntryBase
  <2>5. e.first = Min(Firsts(rs)) /\ e.last = Max(Lasts(rs)) /\ Rank[e.sev] = Max(Ranks(rs))
    BY <2>3, MinOf, MaxOf DEF EntryRange
  <2>6. Cardinality(e.clients) = Capped(Clients(rs))
    BY <2>4, TracksSize
  <2>7. e.clientsCapped <=> Cardinality(Clients(rs)) > MaxTrackedClients
    BY <2>4, TracksSize
  <2>8. e.first = Min({r.first : r \in rs}) /\ e.last = Max({r.last : r \in rs})
    BY <2>5 DEF Firsts, Lasts
  <2>9. Rank[e.sev] = Max({Rank[MaxSeverity(r)] : r \in rs})
    BY <2>5 DEF Ranks
  <2>10. e.findings = UNION {{r.findings[i].id : i \in DOMAIN r.findings} : r \in rs}
    BY <2>4 DEF FoundIn, FoundBy
  <2>11. /\ Cardinality(e.clients) = Capped({r.client : r \in rs})
         /\ e.clientsCapped <=> Cardinality({r.client : r \in rs}) > MaxTrackedClients
    BY <2>6, <2>7 DEF Clients
  <2> QED BY <2>4, <2>8, <2>9, <2>10, <2>11
<1> QED BY <1>2, Zenon DEF AggregatesFaithful

\* The ECH estimate as the property says it.
LEMMA EstimateSays ==
  ASSUME TalliesOK(acc, log)
  PROVE  ECHLikelyGREASE = Cardinality(Logged(LAMBDA r :
           r.ech /\ KeyOf(r) \in AggKeys
             /\ \E i, j \in OfKey(KeyOf(r)) : log[i].echConfig # log[j].echConfig))
<1> DEFINE K == {k \in DOMAIN acc.aggs : LikelyGREASE(acc.aggs[k])}
           Here == {i \in DOMAIN log :
                      log[i].ech /\ KeyOf(log[i]) \in AggKeys
                        /\ \E p, q \in OfKey(KeyOf(log[i])) : log[p].echConfig # log[q].echConfig}
<1>1. log \in Seq(Recorded) /\ \A i \in DOMAIN log : log[i] \in Recorded
  BY DEF TalliesOK, AccountsOK
<1>2. \A k : OfKey(k) = Places(log, KeyedBy(k))
  BY <1>1 DEF OfKey, Logged, Places, KeyedBy
<1>3. \A k \in DOMAIN acc.aggs : EntryFaithful(acc.aggs[k], k, log)
  BY DEF TalliesOK, TableFaithful
<1>4. \A k \in DOMAIN acc.aggs : LikelyGREASE(acc.aggs[k]) <=>
        k.ech /\ \E i, j \in OfKey(k) : log[i].echConfig # log[j].echConfig
  BY <1>1, <1>2, <1>3, GreaseIs
<1>5. \A i \in DOMAIN log : log[i].ech = KeyOf(log[i]).ech
  BY DEF KeyOf
<1>6. Here = Places(log, KeyedIn(K))
  BY <1>1, <1>4, <1>5 DEF Places, KeyedIn, AggKeys
<1>7. IsFiniteSet(K)
  <2>1. IsFiniteSet(DOMAIN acc.aggs)
    BY DEF TalliesOK, AccountsOK, TableOK
  <2> QED BY <2>1, FS_Subset
<1>8. \A k \in K : Counts[k] = Cardinality(Places(log, KeyedBy(k))) /\ Counts[k] \in Nat
  <2>1. \A k \in K : Counts[k] = acc.aggs[k].count
    BY DEF Counts
  <2>2. \A k \in K : acc.aggs[k].count = Cardinality(Places(log, KeyedBy(k))) /\ acc.aggs[k].count \in Nat
    BY <1>3 DEF EntryFaithful, EntryBase
  <2> QED BY <2>1, <2>2
<1>9. ECHLikelyGREASE = SumFunctionOnSet(Counts, K)
  BY DEF ECHLikelyGREASE
<1> HIDE DEF K
<1>10. SumFunctionOnSet(Counts, K) = Total(Counts, K)
  BY <1>7, <1>8, SumFunctionIs
<1>11. Total(Counts, K) = Cardinality(Places(log, KeyedIn(K)))
  BY <1>1, <1>7, <1>8, CountsTotal
<1>12. Logged(LAMBDA r :
         r.ech /\ KeyOf(r) \in AggKeys
           /\ \E i, j \in OfKey(KeyOf(r)) : log[i].echConfig # log[j].echConfig) = Here
  BY DEF Logged
<1> HIDE DEF Here
<1> QED BY <1>6, <1>9, <1>10, <1>11, <1>12

LEMMA SummarySays == TalliesOK(acc, log) => SummaryFaithful
<1> SUFFICES ASSUME TalliesOK(acc, log) PROVE SummaryFaithful
  OBVIOUS
<1>1. log \in Seq(Recorded) /\ \A i \in DOMAIN log : log[i] \in Recorded
  BY DEF TalliesOK, AccountsOK
<1>2. SummaryOK(acc, log)
  BY DEF TalliesOK
<1> DEFINE rs == Among(log, Recorded)
<1>3. /\ rs = {log[i] : i \in DOMAIN log}
      /\ Firsts(rs) \subseteq Nat /\ Lasts(rs) \subseteq Nat
  BY <1>1, AmongOK
<1>4. Spans(acc.first, acc.last, rs) /\ DOMAIN acc.rows = RowsIn(rs)
  BY <1>2 DEF SummaryOK
<1> HIDE DEF rs
<1>5. log # <<>> => /\ acc.first = Min({log[i].first : i \in DOMAIN log})
                    /\ acc.last = Max({log[i].last : i \in DOMAIN log})
  <2> SUFFICES ASSUME log # <<>>
               PROVE  /\ acc.first = Min({log[i].first : i \in DOMAIN log})
                      /\ acc.last = Max({log[i].last : i \in DOMAIN log})
    OBVIOUS
  <2>1. rs # {}
    BY <1>1, <1>3
  <2>2. acc.first = Min(Firsts(rs)) /\ acc.last = Max(Lasts(rs))
    BY <1>3, <1>4, <2>1, MinOf, MaxOf DEF Spans
  <2>3. Firsts(rs) = {log[i].first : i \in DOMAIN log} /\ Lasts(rs) = {log[i].last : i \in DOMAIN log}
    BY <1>3 DEF Firsts, Lasts
  <2> QED BY <2>2, <2>3
<1>6. acc.serverObserved = Cardinality(Logged(LAMBDA r : r.observed))
  <2>1. Logged(LAMBDA r : r.observed) = Places(log, Answered)
    BY <1>1 DEF Logged, Places, Answered
  <2> QED BY <1>2, <2>1 DEF SummaryOK, Counter
<1>7. acc.pqDone = Cardinality(Logged(LAMBDA r : r.pq = "post_quantum"))
  <2>1. Logged(LAMBDA r : r.pq = "post_quantum") = Places(log, Ready)
    BY <1>1 DEF Logged, Places, Ready
  <2> QED BY <1>2, <2>1 DEF SummaryOK, Counter
<1>8. acc.echOffered = Cardinality(Logged(LAMBDA r : r.ech))
  <2>1. Logged(LAMBDA r : r.ech) = Places(log, WithECH)
    BY <1>1 DEF Logged, Places, WithECH
  <2> QED BY <1>2, <2>1 DEF SummaryOK, Counter
<1>9. DOMAIN acc.rows = UNION {Rows(log[i]) : i \in DOMAIN log}
  BY <1>3, <1>4 DEF RowsIn
<1>10. ASSUME NEW row \in DOMAIN acc.rows
       PROVE  acc.rows[row] = Cardinality(Logged(LAMBDA r : row \in Rows(r)))
  <2>1. Logged(LAMBDA r : row \in Rows(r)) = Places(log, WithRow(row))
    BY <1>1 DEF Logged, Places, WithRow
  <2>2. acc.rows[row] = CountOf(acc.rows, row)
    BY DEF CountOf
  <2> QED BY <1>2, <2>1, <2>2 DEF SummaryOK, Counter
<1>11. ASSUME NEW id \in DOMAIN acc.findings
       PROVE  acc.findings[id].count =
                SumFunction([i \in DOMAIN log |->
                  Cardinality({j \in DOMAIN log[i].findings : log[i].findings[j].id = id})])
  <2>1. id \in FindingNames
    BY <1>2, TalliesIs DEF SummaryOK
  <2>2. acc.findings[id].count = CountIn(acc.findings, id)
    BY DEF CountIn
  <2>3. CountIn(acc.findings, id) = SumFunction(TimesIn(log, id))
    BY <1>2, <2>1 DEF SummaryOK
  <2>4. TimesIn(log, id) = [i \in DOMAIN log |->
          Cardinality({j \in DOMAIN log[i].findings : log[i].findings[j].id = id})]
    BY DEF TimesIn, Times
  <2> QED BY <2>2, <2>3, <2>4, Zenon
<1>12. acc.flows = Len(log) /\ acc.pqDecided = acc.serverObserved
  BY <1>2 DEF SummaryOK
<1>13. ECHLikelyGREASE = Cardinality(Logged(LAMBDA r :
         r.ech /\ KeyOf(r) \in AggKeys
           /\ \E i, j \in OfKey(KeyOf(r)) : log[i].echConfig # log[j].echConfig))
  BY EstimateSays, Zenon
<1> QED BY <1>5, <1>6, <1>7, <1>8, <1>9, <1>10, <1>11, <1>12, <1>13, Zenon DEF SummaryFaithful

\* Accumulator.Add computes its aggregates and its summary record by record, in
\* whichever order the flows end; at every moment they are what a computation
\* over all the records so far would give.
THEOREM AlwaysFaithful == Spec => []TalliesFaithful
<1>1. Init => TalliesOK(acc, log)
  BY InitTallies
<1>2. TalliesOK(acc, log) /\ [Next]_vars => TalliesOK(acc, log)'
  BY NextTallies
<1>3. TalliesOK(acc, log) => TalliesFaithful
  BY AggregatesSay, SummarySays DEF TalliesFaithful
<1> QED BY <1>1, <1>2, <1>3, PTL DEF Spec

(***************************************************************************)
(* Rankings.                                                               *)
(***************************************************************************)

\* Tuples of n numbers.
Tuples(n) == [1..n -> Int]

\* Of two tuples that differ, one is before the other.
LEMMA PrecedesOrders ==
  ASSUME NEW n \in Nat
  PROVE  /\ \A x \in Tuples(n) : ~Precedes(x, x)
         /\ \A x, y, z \in Tuples(n) : Precedes(x, y) /\ Precedes(y, z) => Precedes(x, z)
         /\ \A x, y \in Tuples(n) : x # y => Precedes(x, y) \/ Precedes(y, x)
<1> DEFINE Earlier(x, y, i) == i \in 1..n /\ x[i] < y[i] /\ \A j \in 1..(i - 1) : x[j] = y[j]
<1>1. \A x, y \in Tuples(n) : Precedes(x, y) <=> \E i : Earlier(x, y, i)
  BY DEF Precedes, Tuples
<1>2. \A x \in Tuples(n) : \A i \in 1..n : x[i] \in Int
  BY DEF Tuples
<1>3. ASSUME NEW x \in Tuples(n) PROVE ~Precedes(x, x)
  BY <1>1, <1>2
<1>4. ASSUME NEW x \in Tuples(n), NEW y \in Tuples(n), NEW z \in Tuples(n), Precedes(x, y), Precedes(y, z)
      PROVE  Precedes(x, z)
  <2>1. PICK i : Earlier(x, y, i)
    BY <1>1, <1>4, Zenon
  <2>2. PICK k : Earlier(y, z, k)
    BY <1>1, <1>4, Zenon
  <2>3. /\ \A j \in 1..n : x[j] \in Int /\ y[j] \in Int /\ z[j] \in Int
        /\ i \in 1..n /\ k \in 1..n
    BY <1>2, <2>1, <2>2
  <2>4. CASE i < k
    <3>1. Earlier(x, z, i)
      BY <2>1, <2>2, <2>3, <2>4
    <3> QED BY <1>1, <3>1
  <2>5. CASE i = k
    <3>1. Earlier(x, z, i)
      BY <2>1, <2>2, <2>3, <2>5
    <3> QED BY <1>1, <3>1
  <2>6. CASE k < i
    <3>1. Earlier(x, z, k)
      BY <2>1, <2>2, <2>3, <2>6
    <3> QED BY <1>1, <3>1
  <2> QED BY <2>3, <2>4, <2>5, <2>6
<1>5. ASSUME NEW x \in Tuples(n), NEW y \in Tuples(n), x # y
      PROVE  Precedes(x, y) \/ Precedes(y, x)
  <2> DEFINE D == {i \in 1..n : x[i] # y[i]}
  <2>1. D # {} /\ D \subseteq Nat
    <3>1. x = [i \in 1..n |-> x[i]] /\ y = [i \in 1..n |-> y[i]]
      BY DEF Tuples
    <3>2. ASSUME D = {} PROVE FALSE
      <4>1. \A i \in 1..n : x[i] = y[i]
        BY <3>2
      <4>2. [i \in 1..n |-> x[i]] = [i \in 1..n |-> y[i]]
        BY <4>1
      <4> QED BY <1>5, <3>1, <4>2
    <3> QED BY <3>2
  <2>2. PICK i \in D : \A j \in D : i <= j
    <3> HIDE DEF D
    <3> QED BY <2>1, LeastNumber
  <2>3. i \in 1..n /\ x[i] # y[i] /\ \A j \in 1..(i - 1) : x[j] = y[j]
    <3>1. ASSUME NEW j \in 1..(i - 1) PROVE x[j] = y[j]
      <4>1. j \in 1..n /\ ~(i <= j)
        OBVIOUS
      <4> QED BY <2>2, <4>1
    <3> QED BY <3>1
  <2>4. x[i] < y[i] \/ y[i] < x[i]
    BY <1>2, <2>3
  <2>5. Earlier(x, y, i) \/ Earlier(y, x, i)
    BY <2>3, <2>4
  <2> QED BY <1>1, <2>5
<1> QED BY <1>3, <1>4, <1>5

\* q lists the keys of rank in order.
IsRanking(q, rank) ==
  LET S == DOMAIN rank
      N == 1..Cardinality(S)
  IN  /\ q \in [N -> S]
      /\ \A i, j \in N : q[i] = q[j] => i = j
      /\ \A x \in S : \E i \in N : q[i] = x
      /\ \A i, j \in N : i < j => Precedes(rank[q[i]], rank[q[j]])

LEMMA RankedIs ==
  ASSUME NEW rank, NEW n \in Nat, IsFiniteSet(DOMAIN rank),
         \A x \in DOMAIN rank : rank[x] \in Tuples(n),
         \A x, y \in DOMAIN rank : rank[x] = rank[y] => x = y
  PROVE  IsRanking(Ranked(rank), rank)
<1> DEFINE S == DOMAIN rank
           C == Cardinality(S)
           Less(y, x) == Precedes(rank[y], rank[x])
           Pred(x) == {y \in S : Less(y, x)}
           c(x) == Cardinality(Pred(x))
           q == Ranked(rank)
<1>1. q = [i \in 1..C |-> CHOOSE x \in S : c(x) = i - 1]
  BY DEF Ranked
<1>2. /\ \A x \in S : ~Less(x, x)
      /\ \A x, y, z \in S : Less(x, y) /\ Less(y, z) => Less(x, z)
      /\ \A x, y \in S : x # y => Less(x, y) \/ Less(y, x)
  BY PrecedesOrders, Zenon
<1>3. IsFiniteSet(S) /\ C \in Nat
  BY FS_CardinalityType
<1> HIDE DEF S, Less
<1>4. \A x \in S : IsFiniteSet(Pred(x)) /\ c(x) \in Nat
  <2> SUFFICES ASSUME NEW x \in S PROVE IsFiniteSet(Pred(x)) /\ c(x) \in Nat
    OBVIOUS
  <2>1. Pred(x) \subseteq S
    OBVIOUS
  <2> HIDE DEF Pred
  <2> QED BY <1>3, <2>1, FS_Subset, FS_CardinalityType
<1>5. \A x, y \in S : Less(x, y) => c(x) + 1 <= c(y)
  <2> SUFFICES ASSUME NEW x \in S, NEW y \in S, Less(x, y) PROVE c(x) + 1 <= c(y)
    OBVIOUS
  <2> DEFINE P == Pred(x) \cup {x}
  <2>1. P \subseteq Pred(y) /\ x \notin Pred(x)
    BY <1>2
  <2> HIDE DEF Pred
  <2>2. IsFiniteSet(P) /\ Cardinality(P) = c(x) + 1
    BY <1>4, <2>1, FS_AddElement
  <2> HIDE DEF P
  <2>3. Cardinality(P) <= Cardinality(Pred(y))
    BY <1>4, <2>1, FS_Subset
  <2> QED BY <2>2, <2>3
<1>6. \A x \in S : c(x) + 1 <= C
  <2> SUFFICES ASSUME NEW x \in S PROVE c(x) + 1 <= C
    OBVIOUS
  <2> DEFINE P == Pred(x) \cup {x}
  <2>1. P \subseteq S /\ x \notin Pred(x)
    BY <1>2
  <2> HIDE DEF Pred
  <2>2. IsFiniteSet(P) /\ Cardinality(P) = c(x) + 1
    BY <1>4, <2>1, FS_AddElement
  <2> HIDE DEF P
  <2>3. Cardinality(P) <= Cardinality(S)
    BY <1>3, <2>1, FS_Subset
  <2> QED BY <2>2, <2>3
<1>6a. \A x \in S : c(x) \in Nat
  BY <1>4
<1> HIDE DEF C, c, Pred
<1>7. \A x, y \in S : c(x) = c(y) => x = y
  <2> SUFFICES ASSUME NEW x \in S, NEW y \in S, x # y PROVE c(x) # c(y)
    OBVIOUS
  <2>1. c(x) \in Nat /\ c(y) \in Nat
    BY <1>6a
  <2>2. c(x) + 1 <= c(y) \/ c(y) + 1 <= c(x)
    BY <1>2, <1>5
  <2> QED BY <2>1, <2>2
<1>8. \A i \in 1..C : \E x \in S : c(x) = i - 1
  <2> DEFINE d == [x \in S |-> c(x) + 1]
  <2>1. d \in [S -> 1..C]
    BY <1>3, <1>6a, <1>6
  <2>2. \A x, y \in S : d[x] = d[y] => x = y
    BY <1>6a, <1>7
  <2>3. IsFiniteSet(1..C) /\ Cardinality(1..C) = C
    <3>1. 1 \in Int /\ C \in Int
      BY <1>3
    <3>2. \A a, z \in Int : IsFiniteSet(a..z) /\ Cardinality(a..z) = IF a > z THEN 0 ELSE z - a + 1
      BY FS_Interval
    <3>3. IsFiniteSet(1..C) /\ Cardinality(1..C) = IF 1 > C THEN 0 ELSE C - 1 + 1
      BY <3>1, <3>2
    <3> QED BY <1>3, <3>3
  <2> HIDE DEF d
  <2>4. d \in Injection(S, 1..C)
    BY <2>1, <2>2, Fun_IsInj
  <2>5. d \in Surjection(S, 1..C)
    BY <2>3, <2>4, FS_Injection DEF C
  <2>6. \A i \in 1..C : \E x \in S : d[x] = i
    BY <2>5, Fun_SurjectionProperties
  <2>7. \A x \in S : d[x] = c(x) + 1
    BY DEF d
  <2> QED BY <1>3, <1>6a, <2>6, <2>7
<1>9. \A i \in 1..C : q[i] \in S /\ c(q[i]) = i - 1
  <2> SUFFICES ASSUME NEW i \in 1..C PROVE q[i] \in S /\ c(q[i]) = i - 1
    OBVIOUS
  <2>1. q[i] = CHOOSE x \in S : c(x) = i - 1
    BY <1>1
  <2> QED BY <1>8, <2>1
<1>10. q = [i \in 1..C |-> q[i]]
  BY <1>1
<1> HIDE DEF q
<1>11. q \in [1..C -> S]
  BY <1>9, <1>10
<1>12. \A i, j \in 1..C : q[i] = q[j] => i = j
  BY <1>3, <1>9
<1>13. \A x \in S : \E i \in 1..C : q[i] = x
  <2> SUFFICES ASSUME NEW x \in S PROVE \E i \in 1..C : q[i] = x
    OBVIOUS
  <2> DEFINE i == c(x) + 1
  <2>1. i \in 1..C /\ i - 1 = c(x)
    BY <1>3, <1>6a, <1>6
  <2>2. q[i] = x
    BY <1>7, <1>9, <2>1
  <2> QED BY <2>1, <2>2
<1>14. \A i, j \in 1..C : i < j => Less(q[i], q[j])
  <2> SUFFICES ASSUME NEW i \in 1..C, NEW j \in 1..C, i < j PROVE Less(q[i], q[j])
    OBVIOUS
  <2>1. c(q[i]) = i - 1 /\ c(q[j]) = j - 1 /\ q[i] \in S /\ q[j] \in S /\ i \in Int /\ j \in Int
    BY <1>3, <1>9
  <2>2. q[i] # q[j]
    BY <1>12
  <2>3. Less(q[j], q[i]) => FALSE
    BY <1>5, <2>1
  <2> QED BY <1>2, <2>1, <2>2, <2>3
<1> QED BY <1>11, <1>12, <1>13, <1>14 DEF IsRanking, S, C, q, Less

(***************************************************************************)
(* What the table of findings says of severities.                          *)
(***************************************************************************)
\* The table is of the findings in X: it has their identifiers, and each has
\* the severity of one of them that no other exceeds.
Judges(t, X) ==
  /\ DOMAIN t = {x.id : x \in X}
  /\ \A x \in X : Rank[x.sev] <= Rank[t[x.id].sev]
  /\ \A id \in DOMAIN t : \E x \in X : x.id = id /\ x.sev = t[id].sev

LEMMA AddFindingJudges ==
  ASSUME NEW t, t \in Tallies, NEW X, X \subseteq Finding, Judges(t, X),
         NEW x \in Finding, NEW u, u = AddFinding(x, t)
  PROVE  Judges(u, X \cup {x})
<1> DEFINE Y == X \cup {x}
<1>1. DOMAIN u = {y.id : y \in Y}
  BY DEF AddFinding, Judges
<1>2. /\ \A id \in DOMAIN u : id # x.id => id \in DOMAIN t /\ u[id] = t[id]
      /\ x.id \in DOMAIN u
      /\ x.id \notin DOMAIN t => u[x.id].sev = x.sev
      /\ x.id \in DOMAIN t => u[x.id].sev = Worse(x.sev, t[x.id].sev)
  BY DEF AddFinding
<1>3. /\ \A y \in Y : y.sev \in Severities /\ y.id \in DOMAIN u
      /\ \A y \in X : y.id \in DOMAIN t
      /\ \A id \in DOMAIN t : t[id].sev \in Severities
  <2>1. \A y \in Y : y.sev \in Severities
    BY DEF Finding
  <2> QED BY <1>1, <2>1, TalliesIs DEF Judges
<1>4. \A s \in Severities : Rank[s] \in Nat
  BY RankIs
<1>5. ASSUME NEW y \in Y, y.id # x.id PROVE Rank[y.sev] <= Rank[u[y.id].sev]
  <2>1. y \in X /\ u[y.id] = t[y.id]
    BY <1>2, <1>3, <1>5
  <2> QED BY <2>1 DEF Judges
<1>6. ASSUME x.id \in DOMAIN t
      PROVE  /\ Rank[x.sev] <= Rank[u[x.id].sev] /\ Rank[t[x.id].sev] <= Rank[u[x.id].sev]
             /\ u[x.id].sev = x.sev \/ u[x.id].sev = t[x.id].sev
  <2>1. Rank[x.sev] \in Nat /\ Rank[t[x.id].sev] \in Nat
    BY <1>3, <1>4, <1>6
  <2> QED BY <1>2, <1>6, <2>1 DEF Worse
<1>7. ASSUME NEW y \in Y, y.id = x.id PROVE Rank[y.sev] <= Rank[u[y.id].sev]
  <2>1. CASE x.id \notin DOMAIN t
    <3>1. y = x
      BY <1>3, <1>7, <2>1
    <3>2. Rank[x.sev] \in Nat /\ u[x.id].sev = x.sev
      BY <1>2, <1>3, <1>4, <2>1
    <3> QED BY <3>1, <3>2
  <2>2. CASE x.id \in DOMAIN t
    <3>1. Rank[y.sev] \in Nat /\ Rank[t[x.id].sev] \in Nat /\ Rank[x.sev] \in Nat
      BY <1>3, <1>4, <2>2
    <3>2. Rank[u[x.id].sev] \in Nat
      BY <1>6, <2>2, <3>1
    <3>3. y = x \/ Rank[y.sev] <= Rank[t[x.id].sev]
      BY <1>7 DEF Judges
    <3> QED BY <1>6, <1>7, <2>2, <3>1, <3>2, <3>3
  <2> QED BY <2>1, <2>2
<1>8. ASSUME NEW id \in DOMAIN u PROVE \E y \in Y : y.id = id /\ y.sev = u[id].sev
  <2>1. CASE id # x.id
    <3>1. id \in DOMAIN t /\ u[id] = t[id]
      BY <1>2, <2>1
    <3>2. PICK y \in X : y.id = id /\ y.sev = t[id].sev
      BY <3>1 DEF Judges
    <3> QED BY <3>1, <3>2
  <2>2. CASE id = x.id /\ u[id].sev = x.sev
    BY <2>2
  <2>3. CASE id = x.id /\ id \in DOMAIN t /\ u[id].sev = t[id].sev
    <3>1. PICK y \in X : y.id = id /\ y.sev = t[id].sev
      BY <2>3 DEF Judges
    <3> QED BY <2>3, <3>1
  <2> QED BY <1>2, <1>6, <2>1, <2>2, <2>3
<1> QED BY <1>1, <1>5, <1>7, <1>8 DEF Judges

LEMMA AddFindingsJudges ==
  ASSUME NEW t, t \in Tallies, NEW X, X \subseteq Finding, Judges(t, X),
         NEW s, s \in Seq(Finding), NEW u, u = AddFindings(t, s)
  PROVE  Judges(u, X \cup {s[j] : j \in DOMAIN s})
<1> DEFINE L == Len(s)
           Step(v, n) == AddFinding(s[n], v)
           F == [n \in 1..L |-> [v \in Tallies |-> Step(v, n)]]
           after == CHOOSE g : g = [n \in 0..L |-> IF n = 0 THEN t ELSE Step(g[n - 1], n)]
<1>1. u = after[L]
  BY DEF AddFindings
<1>2. L \in Nat /\ DOMAIN s = 1..L /\ \A n \in 1..L : s[n] \in Finding
  OBVIOUS
<1>3. \A n \in 1..L : \A v \in Tallies :
        /\ Step(v, n) \in Tallies
        /\ \A Y \in SUBSET Finding : Judges(v, Y) => Judges(Step(v, n), Y \cup {s[n]})
  <2> SUFFICES ASSUME NEW n \in 1..L, NEW v \in Tallies
               PROVE  /\ Step(v, n) \in Tallies
                      /\ \A Y \in SUBSET Finding : Judges(v, Y) => Judges(Step(v, n), Y \cup {s[n]})
    OBVIOUS
  <2>1. s[n] \in Finding
    BY <1>2
  <2>2. Step(v, n) \in Tallies
    BY <2>1, AddFindingIs
  <2>3. \A Y \in SUBSET Finding : Judges(v, Y) => Judges(Step(v, n), Y \cup {s[n]})
    BY <2>1, AddFindingJudges
  <2> QED BY <2>2, <2>3
<1> HIDE DEF L, Step
<1>4. StaysIn(F, Tallies, L)
  BY <1>3 DEF StaysIn
<1>5. PICK g : Solves(g, t, F, Tallies, L)
  <2> HIDE DEF F
  <2> QED BY <1>2, <1>4, RecursionUpTo
<1>6. g = [n \in 0..L |-> IF n = 0 THEN t ELSE Step(g[n - 1], n)]
  <2>1. g \in [0..L -> Tallies] /\ g[0] = t /\ \A n \in 1..L : g[n] = F[n][g[n - 1]]
    BY <1>5 DEF Solves
  <2>2. \A n \in 0..L : n # 0 => n \in 1..L /\ n - 1 \in 0..L
    BY <1>2
  <2>3. \A n \in 0..L : n # 0 => g[n] = Step(g[n - 1], n)
    BY <2>1, <2>2
  <2> HIDE DEF F
  <2> QED BY <2>1, <2>3
<1>7. after = [n \in 0..L |-> IF n = 0 THEN t ELSE Step(after[n - 1], n)]
  BY <1>6
<1> HIDE DEF after
<1>8. after[0] = t /\ \A n \in 0..(L - 1) : n + 1 \in 1..L /\ after[n + 1] = Step(after[n], n + 1)
  <2>1. \A n \in 0..(L - 1) : n + 1 \in 0..L /\ n + 1 # 0 /\ (n + 1) - 1 = n /\ n + 1 \in 1..L
    BY <1>2
  <2> QED BY <1>2, <1>7, <2>1
<1> DEFINE Y(n) == X \cup {s[j] : j \in 1..n}
           P(n) == after[n] \in Tallies /\ Judges(after[n], Y(n))
           N == {n \in 0..L : P(n)}
<1>9. P(0)
  <2>1. Y(0) = X
    OBVIOUS
  <2> QED BY <1>8, <2>1
<1>10. ASSUME NEW n \in 0..(L - 1), P(n) PROVE P(n + 1)
  <2>1. n \in Nat /\ n + 1 \in 1..L /\ after[n + 1] = Step(after[n], n + 1)
    BY <1>2, <1>8
  <2>2. 1..(n + 1) = (1..n) \cup {n + 1}
    BY <2>1
  <2>3. Y(n + 1) = Y(n) \cup {s[n + 1]}
    BY <2>2
  <2>4. Y(n) \in SUBSET Finding
    <3>1. \A j \in 1..n : j \in 1..L
      BY <1>2, <2>1
    <3> QED BY <1>2, <3>1
  <2> HIDE DEF Y
  <2> QED BY <1>3, <1>10, <2>1, <2>3, <2>4
<1>11. 0 \in N /\ \A n \in 0..(L - 1) : n \in N => n + 1 \in N
  <2>1. 0 \in 0..L /\ \A n \in 0..(L - 1) : n + 1 \in 0..L
    BY <1>2
  <2> HIDE DEF P
  <2> QED BY <1>9, <1>10, <2>1
<1>12. 0..L \subseteq N
  <2> HIDE DEF N
  <2> QED BY <1>2, <1>11, InductionUpTo
<1>13. P(L)
  <2> HIDE DEF P
  <2> QED BY <1>2, <1>12
<1> QED BY <1>1, <1>2, <1>13

\* The findings of the records of a log.
FindingsIn(l) == UNION {{l[i].findings[j] : j \in DOMAIN l[i].findings} : i \in DOMAIN l}


LEMMA FindingsInStep ==
  ASSUME NEW l, NEW r, NEW m, OneMore(l, r, m)
  PROVE  /\ FindingsIn(l) \subseteq Finding /\ r.findings \in Seq(Finding)
         /\ FindingsIn(m) = FindingsIn(l) \cup {r.findings[j] : j \in DOMAIN r.findings}
<1>1. PICK n : GrowsBy(l, r, m, n)
  BY AppendIs
<1>2. l \in Seq(Recorded) /\ \A i \in DOMAIN l : l[i] \in Recorded
  BY DEF OneMore
<1>3. r.findings \in Seq(Finding) /\ \A i \in DOMAIN l : l[i].findings \in Seq(Finding)
  BY <1>2, RecordsOK DEF RecordOK, OneMore
<1>4. FindingsIn(l) \subseteq Finding
  <2>1. \A s \in Seq(Finding) : \A j \in DOMAIN s : s[j] \in Finding
    OBVIOUS
  <2> QED BY <1>3, <2>1 DEF FindingsIn
<1>5. FindingsIn(m) = FindingsIn(l) \cup {r.findings[j] : j \in DOMAIN r.findings}
  <2> DEFINE G(x) == {x.findings[j] : j \in DOMAIN x.findings}
  <2>1. FindingsIn(m) = UNION {G(m[i]) : i \in DOMAIN m} /\ FindingsIn(l) = UNION {G(l[i]) : i \in DOMAIN l}
    BY DEF FindingsIn
  <2>2. G(r) = {r.findings[j] : j \in DOMAIN r.findings}
    BY DEF G
  <2> HIDE DEF G
  <2>3. ASSUME NEW x PROVE (\E i \in DOMAIN m : x \in G(m[i])) <=> (\E i \in DOMAIN l : x \in G(l[i])) \/ x \in G(r)
    BY <1>1 DEF GrowsBy
  <2>4. FindingsIn(m) = FindingsIn(l) \cup G(r)
    BY <2>1, <2>3
  <2> QED BY <2>2, <2>4
<1> QED BY <1>3, <1>4, <1>5

(***************************************************************************)
(* What the rankings look at.                                              *)
(***************************************************************************)
\* The fields of the entries that aggregates are ranked by.
EntriesRanked(a) ==
  \A k \in DOMAIN a.aggs :
    /\ a.aggs[k].name \in Nat /\ a.aggs[k].cipher \in Range(SuiteOrder) /\ a.aggs[k].count \in Nat
    /\ a.aggs[k].sev \in (Severities \ {"info"}) \cup {"none"}

LEMMA RecordNamed ==
  ASSUME NEW r \in Recorded
  PROVE  r.name \in Nat /\ r.cipher \in Range(SuiteOrder)
<1>1. PICK f \in Observed : r = Analyze(f)
  BY DEF Recorded
<1>2. Analyze(f).name = f.hello.name
  BY DEF Analyze
<1> QED BY <1>1, <1>2, ReportAssumption

LEMMA AddRanked ==
  ASSUME NEW a, TableOK(a), EntriesRanked(a), NEW r \in Recorded, NEW b, b = Add(a, r)
  PROVE  EntriesRanked(b)
<1> DEFINE k == KeyOf(r)
           e == IF k \in DOMAIN a.aggs THEN a.aggs[k] ELSE NewEntry(r)
           d == FoldRecord(e, r)
<1>1. AddedTo(a, k, d, b)
  BY AddIs DEF TableOK
<1>2. /\ DOMAIN e = EntryFields /\ e.name \in Nat /\ e.cipher \in Range(SuiteOrder) /\ e.count \in Nat
      /\ e.sev \in (Severities \ {"info"}) \cup {"none"}
  <2>1. CASE k \in DOMAIN a.aggs
    BY <2>1 DEF TableOK, EntryOK, EntriesRanked
  <2>2. CASE k \notin DOMAIN a.aggs
    <3>1. e = NewEntry(r)
      BY <2>2
    <3> QED BY <3>1, RecordNamed DEF NewEntry, EntryFields
  <2> QED BY <2>1, <2>2
<1> HIDE DEF e
<1>3. /\ d.count = e.count + 1 /\ d.sev = Worse(MaxSeverity(r), e.sev)
      /\ d.name = e.name /\ d.cipher = e.cipher
  BY <1>2 DEF FoldRecord, EntryFields
<1>4. d.sev \in (Severities \ {"info"}) \cup {"none"}
  <2>1. MaxSeverity(r) \in Severities
    BY RecordsOK, MaxSeverityIs DEF RecordOK
  <2>2. Rank["info"] = 0 /\ Rank[e.sev] \in Nat
    BY <1>2, RankIs DEF Rank
  <2> QED BY <1>2, <1>3, <2>1, <2>2 DEF Worse
<1> HIDE DEF d
<1>5. CASE NoRoom(a, k)
  BY <1>1, <1>5 DEF AddedTo, EntriesRanked
<1>6. CASE ~NoRoom(a, k)
  <2>1. b.aggs = [x \in DOMAIN a.aggs \cup {k} |-> IF x = k THEN d ELSE a.aggs[x]]
    BY <1>1, <1>6 DEF AddedTo
  <2>2. /\ DOMAIN b.aggs = DOMAIN a.aggs \cup {k} /\ b.aggs[k] = d
        /\ \A x \in DOMAIN a.aggs : x # k => b.aggs[x] = a.aggs[x]
    BY <2>1
  <2> HIDE DEF k
  <2>3. d.name \in Nat /\ d.cipher \in Range(SuiteOrder) /\ d.count \in Nat
    BY <1>2, <1>3
  <2> QED BY <1>4, <2>2, <2>3 DEF EntriesRanked
<1> QED BY <1>5, <1>6

(***************************************************************************)
(* The state.                                                              *)
(***************************************************************************)
\* What there is to publish.
Publishable(a, l) == TalliesOK(a, l) /\ EntriesRanked(a) /\ Judges(a.findings, FindingsIn(l))

\* What was published and still describes the accumulator.
ReportOf(a, recs, rows) ==
  LET records == SortRecords(recs)
  IN  [records |-> records, rows |-> rows, page |-> Page(rows),
       findings |-> RankedFindings(a), bom |-> BuildCBOM(records)]

ReportOK ==
  /\ Publishable(acc, log) /\ keep \in BOOLEAN
  /\ Published => \E rows \in Aggregates(acc) : report = ReportOf(acc, Records, rows)

LEMMA InitReport == ReportInit => ReportOK
<1> SUFFICES ASSUME ReportInit PROVE ReportOK
  OBVIOUS
<1>1. TalliesOK(acc, log)
  BY InitTallies DEF ReportInit
<1>2. acc.aggs = <<>> /\ acc.findings = <<>> /\ log = <<>>
  BY DEF ReportInit, Init
<1>3. EntriesRanked(acc)
  BY <1>2 DEF EntriesRanked
<1>4. Judges(acc.findings, FindingsIn(log))
  <2>1. FindingsIn(log) = {} /\ DOMAIN acc.findings = {}
    BY <1>2 DEF FindingsIn
  <2> QED BY <2>1 DEF Judges
<1> QED BY <1>1, <1>3, <1>4 DEF ReportOK, Publishable, ReportInit, Published

LEMMA AddPublishable ==
  ASSUME NEW a, NEW l, Publishable(a, l), NEW r \in Recorded,
         NEW b, b = Add(a, r), NEW m, m = Append(l, r)
  PROVE  EntriesRanked(b) /\ Judges(b.findings, FindingsIn(m))
<1>1. TableOK(a) /\ EntriesRanked(a)
  BY DEF Publishable, TalliesOK, AccountsOK
<1>2. EntriesRanked(b)
  BY <1>1, AddRanked
<1>3. OneMore(l, r, m)
  BY DEF Publishable, TalliesOK, AccountsOK, OneMore
<1>4. b.findings = AddFindings(a.findings, r.findings)
  <2>1. Summed(a, r, b)
    BY <1>1, AddSums DEF TableOK
  <2> QED BY <2>1 DEF Summed
<1>5. a.findings \in Tallies /\ Judges(a.findings, FindingsIn(l))
  BY DEF Publishable, TalliesOK, SummaryOK
<1>6. /\ FindingsIn(l) \subseteq Finding /\ r.findings \in Seq(Finding)
      /\ FindingsIn(m) = FindingsIn(l) \cup {r.findings[j] : j \in DOMAIN r.findings}
  BY <1>3, FindingsInStep
<1>7. Judges(b.findings, FindingsIn(m))
  BY <1>4, <1>5, <1>6, AddFindingsJudges
<1> QED BY <1>2, <1>7

LEMMA NextReport == ReportOK /\ [ReportNext]_reportVars => ReportOK'
<1> SUFFICES ASSUME ReportOK, [ReportNext]_reportVars PROVE ReportOK'
  OBVIOUS
<1>1. ASSUME NEW f \in Observed, HandleFlow(f) PROVE ReportOK'
  <2>1. acc' = Add(acc, Analyze(f)) /\ log' = Append(log, Analyze(f)) /\ Analyze(f) \in Recorded
    BY <1>1 DEF HandleFlow, Handle, Recorded
  <2>2. TalliesOK(acc', log')
    <3>1. Next
      BY <1>1 DEF Next, HandleFlow
    <3> QED BY <3>1, NextTallies DEF ReportOK, Publishable
  <2>3. EntriesRanked(acc') /\ Judges(acc'.findings, FindingsIn(log'))
    BY <2>1, AddPublishable DEF ReportOK
  <2>4. report' = <<>> /\ keep' = keep
    BY <1>1 DEF HandleFlow
  <2>5. Publishable(acc', log')
    BY <2>2, <2>3 DEF Publishable
  <2> QED BY <2>4, <2>5 DEF ReportOK, Published
<1>2. ASSUME Publish PROVE ReportOK'
  <2>1. acc' = acc /\ log' = log /\ keep' = keep
    BY <1>2 DEF Publish
  <2>2. PICK rows \in Aggregates(acc) : report' = ReportOf(acc, Records, rows)
    BY <1>2 DEF Publish, ReportOf
  <2>3. Records' = Records
    BY <2>1 DEF Records
  <2> QED BY <2>1, <2>2, <2>3 DEF ReportOK, Published
<1>3. ASSUME UNCHANGED reportVars PROVE ReportOK'
  <2>1. acc' = acc /\ log' = log /\ keep' = keep /\ report' = report
    BY <1>3 DEF reportVars
  <2>2. Records' = Records
    BY <2>1 DEF Records
  <2> QED BY <2>1, <2>2 DEF ReportOK, Published
<1> QED BY <1>1, <1>2, <1>3 DEF ReportNext


(***************************************************************************)
(* What is ranked first.                                                   *)
(***************************************************************************)
LEMMA FirstComponent ==
  ASSUME NEW n \in Nat, n >= 1, NEW x \in Tuples(n), NEW y \in Tuples(n)
  PROVE  /\ x[1] \in Int /\ y[1] \in Int
         /\ Precedes(x, y) => x[1] <= y[1]
<1>1. x[1] \in Int /\ y[1] \in Int /\ DOMAIN x = 1..n
  BY DEF Tuples
<1>2. ASSUME NEW i \in 1..n, x[i] < y[i], \A j \in 1..(i - 1) : x[j] = y[j] PROVE x[1] <= y[1]
  <2>1. CASE i = 1
    BY <1>1, <1>2, <2>1
  <2>2. CASE i # 1
    <3>1. 1 \in 1..(i - 1)
      BY <2>2
    <3> QED BY <1>1, <1>2, <3>1
  <2> QED BY <2>1, <2>2
<1> QED BY <1>1, <1>2 DEF Precedes

\* Three numbers in a row.
LEMMA ThreeIs ==
  ASSUME NEW a, NEW b, NEW c, {a, b, c} \subseteq Int, NEW t, t = <<a, b, c>>
  PROVE  t \in Tuples(3) /\ t[1] = a /\ t[3] = c
<1>1. t[1] = a /\ t[3] = c /\ t \in Seq(Int) /\ Len(t) = 3
  OBVIOUS
<1> QED BY <1>1 DEF Tuples

LEMMA PlaceIs ==
  ASSUME NEW s, NEW n \in Nat, DOMAIN s = 1..n, NEW x, x \in Range(s)
  PROVE  Place(s, x) \in 1..n /\ s[Place(s, x)] = x
BY DEF Place, Range

\* s is l in another order, the records at q.
Reorders(q, l, s) ==
  /\ s \in Seq(Recorded) /\ l \in Seq(Recorded) /\ DOMAIN s = DOMAIN l
  /\ q \in [DOMAIN l -> DOMAIN l]
  /\ \A i, j \in DOMAIN l : q[i] = q[j] => i = j
  /\ \A x \in DOMAIN l : \E i \in DOMAIN l : q[i] = x
  /\ \A i \in DOMAIN l : s[i] = l[q[i]]

LEMMA SortIs ==
  ASSUME NEW l, l \in Seq(Recorded), NEW s, s = SortRecords(l)
  PROVE  /\ \E q : Reorders(q, l, s)
         /\ \A i, j \in DOMAIN s : i < j => Rank[MaxSeverity(s[i])] >= Rank[MaxSeverity(s[j])]
<1> DEFINE N == 1..Len(l)
           v(i) == Rank[MaxSeverity(l[i])]
           rank == [i \in DOMAIN l |-> RecordRank(l[i], i)]
           q == Ranked(rank)
<1>1. DOMAIN l = N /\ Len(l) \in Nat /\ DOMAIN rank = N /\ \A i \in N : l[i] \in Recorded
  OBVIOUS
<1>2. \A i \in N : v(i) \in Nat /\ l[i].first \in Nat
  <2> SUFFICES ASSUME NEW i \in N PROVE v(i) \in Nat /\ l[i].first \in Nat
    OBVIOUS
  <2>1. RecordOK(l[i])
    BY <1>1, RecordsOK
  <2>2. MaxSeverity(l[i]) \in Severities
    BY <2>1, MaxSeverityIs DEF RecordOK
  <2> QED BY <2>1, <2>2, RankIs DEF RecordOK
<1> HIDE DEF v
<1>3. \A i \in N : rank[i] \in Tuples(3) /\ rank[i][1] = -v(i) /\ rank[i][3] = i
  <2> SUFFICES ASSUME NEW i \in N
               PROVE  rank[i] \in Tuples(3) /\ rank[i][1] = -v(i) /\ rank[i][3] = i
    OBVIOUS
  <2> DEFINE m == -v(i)
             n == l[i].first
             t == rank[i]
  <2>1. {m, n, i} \subseteq Int
    BY <1>2
  <2>2. t = <<m, n, i>>
    BY <1>1 DEF RecordRank, v
  <2> HIDE DEF rank, m, n, t
  <2>3. t \in Tuples(3) /\ t[1] = m /\ t[3] = i
    BY <2>1, <2>2, ThreeIs
  <2> QED BY <2>3 DEF m, t
<1>4. IsFiniteSet(N) /\ Cardinality(N) = Len(l)
  <2>1. \A a, z \in Int : IsFiniteSet(a..z) /\ Cardinality(a..z) = IF a > z THEN 0 ELSE z - a + 1
    BY FS_Interval
  <2>2. 1 \in Int /\ Len(l) \in Int
    BY <1>1
  <2>3. IsFiniteSet(N) /\ Cardinality(N) = IF 1 > Len(l) THEN 0 ELSE Len(l) - 1 + 1
    BY <2>1, <2>2
  <2> QED BY <1>1, <2>3
<1> DEFINE s0 == [i \in DOMAIN l |-> l[q[i]]]
<1>5. s = s0
  BY DEF SortRecords
<1> HIDE DEF rank, q
<1>6. IsRanking(q, rank)
  <2>1. IsFiniteSet(DOMAIN rank)
    BY <1>1, <1>4
  <2>2. \A x \in DOMAIN rank : rank[x] \in Tuples(3)
    BY <1>1, <1>3
  <2>3. \A x, y \in DOMAIN rank : rank[x] = rank[y] => x = y
    BY <1>1, <1>3
  <2> QED BY <2>1, <2>2, <2>3, RankedIs DEF q
<1>7. /\ q \in [N -> N]
      /\ \A i, j \in N : q[i] = q[j] => i = j
      /\ \A x \in N : \E i \in N : q[i] = x
      /\ \A i, j \in N : i < j => Precedes(rank[q[i]], rank[q[j]])
  <2>1. Cardinality(DOMAIN rank) = Len(l)
    BY <1>1, <1>4
  <2> QED BY <1>1, <1>6, <2>1 DEF IsRanking
<1>8. DOMAIN s = N /\ \A i \in N : s[i] = l[q[i]] /\ s[i] \in Recorded
  BY <1>1, <1>5, <1>7
<1>9. s \in Seq(Recorded)
  <2>1. s \in [1..Len(l) -> Recorded]
    BY <1>1, <1>5, <1>8
  <2> QED BY <1>1, <2>1
<1>10. Reorders(q, l, s)
  BY <1>1, <1>7, <1>8, <1>9 DEF Reorders
<1>11. ASSUME NEW i \in DOMAIN s, NEW j \in DOMAIN s, i < j
       PROVE  Rank[MaxSeverity(s[i])] >= Rank[MaxSeverity(s[j])]
  <2>1. q[i] \in N /\ q[j] \in N /\ Precedes(rank[q[i]], rank[q[j]])
    BY <1>7, <1>8, <1>11
  <2>2. rank[q[i]][1] <= rank[q[j]][1]
    BY <1>3, <2>1, FirstComponent
  <2>3. -v(q[i]) <= -v(q[j])
    BY <1>3, <2>1, <2>2
  <2>4. v(q[i]) >= v(q[j])
    BY <1>2, <2>1, <2>3
  <2> QED BY <1>8, <1>11, <2>4 DEF v
<1> QED BY <1>10, <1>11

\* FindingIDs lists the identifiers.
LEMMA FindingIDsIs ==
  /\ DOMAIN FindingIDs = 1..16 /\ FindingNames \subseteq Range(FindingIDs)
  /\ IsFiniteSet(FindingNames)
<1>1. DOMAIN FindingIDs = 1..16
  BY DEF FindingIDs
<1>2. /\ FindingIDs[1] = "anonymous_key_exchange" /\ FindingIDs[2] = "broken_cipher"
      /\ FindingIDs[3] = "certificate_expired" /\ FindingIDs[4] = "certificate_sha1_signature"
      /\ FindingIDs[5] = "classical_key_exchange" /\ FindingIDs[6] = "compression_offered"
      /\ FindingIDs[7] = "ech_offered" /\ FindingIDs[8] = "export_cipher"
  BY DEF FindingIDs
<1>3. /\ FindingIDs[9] = "legacy_protocol" /\ FindingIDs[10] = "no_forward_secrecy"
      /\ FindingIDs[11] = "null_encryption" /\ FindingIDs[12] = "obsolete_protocol"
      /\ FindingIDs[13] = "sha1_signature" /\ FindingIDs[14] = "unknown_cipher"
      /\ FindingIDs[15] = "weak_certificate_key" /\ FindingIDs[16] = "weak_cipher"
  BY DEF FindingIDs
<1> HIDE DEF FindingIDs
<1>4. \A id \in FindingNames : \E i \in 1..16 : FindingIDs[i] = id
  BY <1>2, <1>3 DEF FindingNames
<1>5. FindingNames \subseteq Range(FindingIDs)
  BY <1>1, <1>4 DEF Range
<1>6. IsFiniteSet(FindingNames)
  <2>1. \A i \in 1..16 : FindingIDs[i] \in FindingNames
    <3>1. \A i \in 1..16 : \/ i = 1 \/ i = 2 \/ i = 3 \/ i = 4 \/ i = 5 \/ i = 6 \/ i = 7 \/ i = 8 \/ i = 9
                           \/ i = 10 \/ i = 11 \/ i = 12 \/ i = 13 \/ i = 14 \/ i = 15 \/ i = 16
      OBVIOUS
    <3> QED BY <1>2, <1>3, <3>1 DEF FindingNames
  <2>2. IsFiniteSet(1..16)
    <3> DEFINE n == 16
    <3>1. n \in Int /\ \A a, z \in Int : IsFiniteSet(a..z)
      BY FS_Interval
    <3> HIDE DEF n
    <3>2. IsFiniteSet(1..n)
      BY <3>1
    <3> QED BY <3>2 DEF n
  <2> DEFINE S == 1..16
  <2> HIDE DEF S
  <2>3. IsFiniteSet(S) /\ (\A i \in S : FindingIDs[i] \in FindingNames)
        /\ (\A id \in FindingNames : \E i \in S : FindingIDs[i] = id)
    BY <1>4, <2>1, <2>2 DEF S
  <2> QED BY <2>3, FiniteImage
<1> QED BY <1>1, <1>5, <1>6

\* The list of findings starts with one that no other exceeds.
LEMMA FindingsRanked ==
  ASSUME NEW a, a.findings \in Tallies, NEW q, q = RankedFindings(a), q # <<>>
  PROVE  /\ q[1] \in DOMAIN a.findings
         /\ \A id \in DOMAIN a.findings : Rank[a.findings[id].sev] <= Rank[a.findings[q[1]].sev]
<1> DEFINE t == a.findings
           v(id) == Rank[t[id].sev]
           rank == [id \in DOMAIN t |-> <<-Rank[t[id].sev], -t[id].count, Place(FindingIDs, id)>>]
           S == DOMAIN t
           C == Cardinality(S)
<1>1. q = Ranked(rank)
  BY DEF RankedFindings
<1>2. DOMAIN rank = S /\ S \subseteq FindingNames /\ \A id \in S : v(id) \in Nat /\ t[id].count \in Nat
  BY TalliesIs, RankIs
<1>3. IsFiniteSet(S) /\ C \in Nat
  <2> HIDE DEF S
  <2> QED BY <1>2, FindingIDsIs, FS_Subset, FS_CardinalityType
<1> HIDE DEF t, C
<1>4. \A id \in S : Place(FindingIDs, id) \in Int /\ FindingIDs[Place(FindingIDs, id)] = id
  <2> SUFFICES ASSUME NEW id \in S
               PROVE  Place(FindingIDs, id) \in Int /\ FindingIDs[Place(FindingIDs, id)] = id
    OBVIOUS
  <2>1. id \in Range(FindingIDs) /\ DOMAIN FindingIDs = 1..16
    BY <1>2, FindingIDsIs
  <2>2. Place(FindingIDs, id) \in 1..16 /\ FindingIDs[Place(FindingIDs, id)] = id
    BY <2>1, PlaceIs
  <2> QED BY <2>2
<1>5. \A id \in S : /\ rank[id] \in Tuples(3)
                    /\ rank[id][1] = -v(id) /\ rank[id][3] = Place(FindingIDs, id)
  <2> SUFFICES ASSUME NEW id \in S
               PROVE  /\ rank[id] \in Tuples(3)
                      /\ rank[id][1] = -v(id) /\ rank[id][3] = Place(FindingIDs, id)
    OBVIOUS
  <2> DEFINE m == -v(id)
             n == -t[id].count
             p == Place(FindingIDs, id)
             u == rank[id]
  <2>1. {m, n, p} \subseteq Int
    BY <1>2, <1>4
  <2>2. u = <<m, n, p>>
    OBVIOUS
  <2> HIDE DEF rank, m, n, p, u
  <2>3. u \in Tuples(3) /\ u[1] = m /\ u[3] = p
    BY <2>1, <2>2, ThreeIs
  <2> QED BY <2>3 DEF m, p, u
<1> HIDE DEF rank, v
<1>6. IsRanking(Ranked(rank), rank)
  <2>1. \A x \in DOMAIN rank : rank[x] \in Tuples(3)
    BY <1>2, <1>5
  <2>2. \A x, y \in DOMAIN rank : rank[x] = rank[y] => x = y
    BY <1>2, <1>4, <1>5
  <2>3. IsFiniteSet(DOMAIN rank)
    BY <1>2, <1>3
  <2> QED BY <2>1, <2>2, <2>3, RankedIs
<1>7. /\ q \in [1..C -> S]
      /\ \A x \in S : \E i \in 1..C : q[i] = x
      /\ \A i, j \in 1..C : i < j => Precedes(rank[q[i]], rank[q[j]])
  BY <1>1, <1>2, <1>6 DEF IsRanking, C
<1>8. 1 \in 1..C
  <2>1. q \in Seq(S) /\ Len(q) = C
    BY <1>3, <1>7
  <2> QED BY <1>3, <2>1
<1>9. ASSUME NEW id \in S PROVE v(id) <= v(q[1])
  <2>1. PICK i \in 1..C : q[i] = id
    BY <1>7
  <2>2. q[1] \in S /\ v(id) \in Nat /\ v(q[1]) \in Nat
    BY <1>2, <1>7, <1>8
  <2>3. CASE i = 1
    BY <2>1, <2>2, <2>3
  <2>4. CASE i # 1
    <3>1. Precedes(rank[q[1]], rank[id])
      BY <1>7, <1>8, <2>1, <2>4
    <3>2. rank[q[1]][1] <= rank[id][1]
      BY <1>5, <2>2, <3>1, FirstComponent
    <3>3. -v(q[1]) <= -v(id)
      BY <1>5, <2>2, <3>2
    <3> QED BY <2>2, <3>3
  <2> QED BY <2>3, <2>4
<1>10. q[1] \in S
  BY <1>7, <1>8
<1> QED BY <1>9, <1>10 DEF v, t


(***************************************************************************)
(* The rows.                                                               *)
(***************************************************************************)
LEMMA FourIs ==
  ASSUME NEW a, NEW b, NEW c, NEW d, {a, b, c, d} \subseteq Int, NEW t, t = <<a, b, c, d>>
  PROVE  t \in Tuples(4) /\ t[1] = a /\ t[2] = b /\ t[3] = c /\ t[4] = d
<1>1. t[1] = a /\ t[2] = b /\ t[3] = c /\ t[4] = d /\ t \in Seq(Int) /\ Len(t) = 4
  OBVIOUS
<1> QED BY <1>1 DEF Tuples

LEMMA EntryRankIs ==
  ASSUME NEW a, EntriesRanked(a), NEW k \in DOMAIN a.aggs, NEW e, e = a.aggs[k]
  PROVE  /\ Rank[e.sev] \in Nat /\ e.count \in Nat /\ e.name \in Nat
         /\ e.sev \in (Severities \ {"info"}) \cup {"none"}
         /\ Place(SuiteOrder, e.cipher) \in Int /\ SuiteOrder[Place(SuiteOrder, e.cipher)] = e.cipher
         /\ AggregateRank(e) \in Tuples(4) /\ AggregateRank(e)[1] = -Rank[e.sev]
         /\ AggregateRank(e)[2] = -e.count /\ AggregateRank(e)[3] = e.name
         /\ AggregateRank(e)[4] = Place(SuiteOrder, e.cipher)
<1>1. /\ e.name \in Nat /\ e.cipher \in Range(SuiteOrder) /\ e.count \in Nat
      /\ e.sev \in (Severities \ {"info"}) \cup {"none"}
  BY DEF EntriesRanked
<1>2. Rank[e.sev] \in Nat
  BY <1>1, RankIs
<1>3. Place(SuiteOrder, e.cipher) \in Int /\ SuiteOrder[Place(SuiteOrder, e.cipher)] = e.cipher
  <2>1. DOMAIN SuiteOrder = 1..Len(SuiteOrder) /\ Len(SuiteOrder) \in Nat
    BY ReportAssumption
  <2>2. Place(SuiteOrder, e.cipher) \in 1..Len(SuiteOrder) /\ SuiteOrder[Place(SuiteOrder, e.cipher)] = e.cipher
    BY <1>1, <2>1, PlaceIs
  <2> QED BY <2>1, <2>2
<1> DEFINE m == -Rank[e.sev]
           n == -e.count
           o == e.name
           p == Place(SuiteOrder, e.cipher)
           t == AggregateRank(e)
<1>4. {m, n, o, p} \subseteq Int
  BY <1>1, <1>2, <1>3
<1>5. t = <<m, n, o, p>>
  BY DEF AggregateRank
<1> HIDE DEF m, n, o, p, t
<1>6. t \in Tuples(4) /\ t[1] = m /\ t[2] = n /\ t[3] = o /\ t[4] = p
  BY <1>4, <1>5, FourIs
<1> QED BY <1>1, <1>2, <1>3, <1>6 DEF m, n, o, p, t

\* Entries of equal rank show the same.
LEMMA EqualRanks ==
  ASSUME NEW a, EntriesRanked(a), NEW k \in DOMAIN a.aggs, NEW m \in DOMAIN a.aggs,
         NEW x, x = a.aggs[k], NEW y, y = a.aggs[m], AggregateRank(x) = AggregateRank(y)
  PROVE  x.sev = y.sev /\ x.count = y.count /\ x.name = y.name /\ x.cipher = y.cipher
<1>1. /\ Rank[x.sev] \in Nat /\ Rank[y.sev] \in Nat /\ x.count \in Nat /\ y.count \in Nat
      /\ x.sev \in (Severities \ {"info"}) \cup {"none"} /\ y.sev \in (Severities \ {"info"}) \cup {"none"}
      /\ SuiteOrder[Place(SuiteOrder, x.cipher)] = x.cipher
      /\ SuiteOrder[Place(SuiteOrder, y.cipher)] = y.cipher
  BY EntryRankIs
<1>2. /\ -Rank[x.sev] = -Rank[y.sev] /\ -x.count = -y.count /\ x.name = y.name
      /\ Place(SuiteOrder, x.cipher) = Place(SuiteOrder, y.cipher)
  <2>1. /\ AggregateRank(x)[1] = -Rank[x.sev] /\ AggregateRank(x)[2] = -x.count
        /\ AggregateRank(x)[3] = x.name /\ AggregateRank(x)[4] = Place(SuiteOrder, x.cipher)
    BY EntryRankIs
  <2>2. /\ AggregateRank(y)[1] = -Rank[y.sev] /\ AggregateRank(y)[2] = -y.count
        /\ AggregateRank(y)[3] = y.name /\ AggregateRank(y)[4] = Place(SuiteOrder, y.cipher)
    BY EntryRankIs
  <2> QED BY <2>1, <2>2
<1>3. Rank[x.sev] = Rank[y.sev] /\ x.count = y.count /\ x.cipher = y.cipher
  BY <1>1, <1>2
<1>4. \A s, t \in (Severities \ {"info"}) \cup {"none"} : Rank[s] = Rank[t] => s = t
  BY DEF Severities, Rank
<1> QED BY <1>1, <1>2, <1>3, <1>4

\* rows are the keys of a's table, none before a worse one.
RowsOf(rows, a, n) ==
  /\ n \in Nat /\ n = Cardinality(DOMAIN a.aggs)
  /\ rows \in [1..n -> DOMAIN a.aggs]
  /\ \A i, j \in 1..n : rows[i] = rows[j] => i = j
  /\ \A k \in DOMAIN a.aggs : \E i \in 1..n : rows[i] = k
  /\ \A i, j \in 1..n :
       i < j => ~Precedes(AggregateRank(a.aggs[rows[j]]), AggregateRank(a.aggs[rows[i]]))

\* A list without repetition of all members of a finite set.
LEMMA ListsAll ==
  ASSUME NEW S, IsFiniteSet(S), NEW n \in Nat, n = Cardinality(S), NEW q, q \in [1..n -> S],
         \A i, j \in 1..n : q[i] = q[j] => i = j
  PROVE  \A x \in S : \E i \in 1..n : q[i] = x
<1>1. n \in Nat
  OBVIOUS
<1>2. IsFiniteSet(1..n) /\ Cardinality(1..n) = n
  <2>1. \A a, z \in Int : IsFiniteSet(a..z) /\ Cardinality(a..z) = IF a > z THEN 0 ELSE z - a + 1
    BY FS_Interval
  <2>2. 1 \in Int /\ n \in Int
    BY <1>1
  <2>3. IsFiniteSet(1..n) /\ Cardinality(1..n) = IF 1 > n THEN 0 ELSE n - 1 + 1
    BY <2>1, <2>2
  <2> QED BY <1>1, <2>3
<1>3. q \in Injection(1..n, S)
  BY Fun_IsInj
<1>4. \A x \in S : \E i \in 1..n : q[i] = x
  <2> DEFINE N == 1..n
  <2>1. IsFiniteSet(N) /\ Cardinality(N) = Cardinality(S) /\ q \in Injection(N, S)
    BY <1>2, <1>3
  <2> HIDE DEF N
  <2>2. q \in Surjection(N, S)
    BY <2>1, FS_Injection
  <2>3. \A x \in S : \E i \in N : q[i] = x
    BY <2>2 DEF Surjection
  <2> QED BY <2>3 DEF N
<1> QED BY <1>1, <1>4

LEMMA RowsAre ==
  ASSUME NEW a, IsFiniteSet(DOMAIN a.aggs), NEW rows, rows \in Aggregates(a)
  PROVE  \E n : RowsOf(rows, a, n)
<1> DEFINE S == DOMAIN a.aggs
<1>1. PICK n : n = Cardinality(S)
  OBVIOUS
<1>2. rows \in SetToSeqs(S)
  BY DEF Aggregates
<1>3. rows \in [1..n -> S] /\ \A i, j \in 1..n : i # j => rows[i] # rows[j]
  BY <1>1, <1>2 DEF SetToSeqs
<1>4. DOMAIN rows = 1..n
  BY <1>3
<1>5. \A i, j \in 1..n :
        i < j => ~Precedes(AggregateRank(a.aggs[rows[j]]), AggregateRank(a.aggs[rows[i]]))
  BY <1>4 DEF Aggregates
<1>6. n \in Nat /\ \A x \in S : \E i \in 1..n : rows[i] = x
  <2>1. \A i, j \in 1..n : rows[i] = rows[j] => i = j
    BY <1>3
  <2>2. IsFiniteSet(S)
    OBVIOUS
  <2> HIDE DEF S
  <2>3. n \in Nat
    BY <1>1, <2>2, FS_CardinalityType
  <2> QED BY <1>1, <1>3, <2>1, <2>2, <2>3, ListsAll
<1> QED BY <1>1, <1>3, <1>5, <1>6 DEF RowsOf

\* Of two rows the later one is not worse.
LEMMA RowsDescend ==
  ASSUME NEW a, EntriesRanked(a), NEW rows, NEW n, RowsOf(rows, a, n),
         NEW i \in 1..n, NEW j \in 1..n, i < j
  PROVE  Rank[a.aggs[rows[i]].sev] >= Rank[a.aggs[rows[j]].sev]
<1> DEFINE x == a.aggs[rows[i]]
           y == a.aggs[rows[j]]
<1>1. rows[i] \in DOMAIN a.aggs /\ rows[j] \in DOMAIN a.aggs /\ ~Precedes(AggregateRank(y), AggregateRank(x))
  BY DEF RowsOf
<1>2. /\ AggregateRank(x) \in Tuples(4) /\ AggregateRank(x)[1] = -Rank[x.sev] /\ Rank[x.sev] \in Nat
      /\ AggregateRank(y) \in Tuples(4) /\ AggregateRank(y)[1] = -Rank[y.sev] /\ Rank[y.sev] \in Nat
  BY <1>1, EntryRankIs
<1> HIDE DEF x, y
<1>3. AggregateRank(x) = AggregateRank(y) \/ Precedes(AggregateRank(x), AggregateRank(y))
  BY <1>1, <1>2, PrecedesOrders
<1>4. AggregateRank(x)[1] <= AggregateRank(y)[1]
  <2>1. CASE Precedes(AggregateRank(x), AggregateRank(y))
    BY <1>2, <2>1, FirstComponent
  <2>2. CASE AggregateRank(x) = AggregateRank(y)
    BY <1>2, <2>2
  <2> QED BY <1>3, <2>1, <2>2
<1>5. -Rank[x.sev] <= -Rank[y.sev]
  BY <1>2, <1>4
<1> QED BY <1>2, <1>5 DEF x, y

\* There is no injection into a smaller interval.
LEMMA Pigeonhole ==
  ASSUME NEW i \in Nat, NEW f, f \in [1..(i + 1) -> 1..i],
         \A j, k \in 1..(i + 1) : f[j] = f[k] => j = k
  PROVE  FALSE
<1>1. \A n \in Nat : IsFiniteSet(1..n) /\ Cardinality(1..n) = n
  <2> SUFFICES ASSUME NEW n \in Nat PROVE IsFiniteSet(1..n) /\ Cardinality(1..n) = n
    OBVIOUS
  <2>1. \A a, z \in Int : IsFiniteSet(a..z) /\ Cardinality(a..z) = IF a > z THEN 0 ELSE z - a + 1
    BY FS_Interval
  <2>2. 1 \in Int /\ n \in Int
    OBVIOUS
  <2>3. IsFiniteSet(1..n) /\ Cardinality(1..n) = IF 1 > n THEN 0 ELSE n - 1 + 1
    BY <2>1, <2>2
  <2> QED BY <2>3
<1> DEFINE S == 1..(i + 1)
           T == 1..i
<1>2. IsFiniteSet(S) /\ IsFiniteSet(T) /\ Cardinality(S) = i + 1 /\ Cardinality(T) = i
  BY <1>1
<1>3. f \in [S -> T] /\ \A j, k \in S : f[j] = f[k] => j = k
  OBVIOUS
<1> HIDE DEF S, T
<1>4. f \in Injection(S, T)
  BY <1>3, Fun_IsInj
<1>5. Cardinality(S) <= Cardinality(T)
  BY <1>2, <1>4, FS_Injection
<1> QED BY <1>2, <1>5

\* The row at a place of one list does not go before the row at that place of
\* another list of the same table.
LEMMA NoneBefore ==
  ASSUME NEW a, EntriesRanked(a), NEW n, NEW r, RowsOf(r, a, n), NEW s, RowsOf(s, a, n), NEW i \in 1..n
  PROVE  ~Precedes(AggregateRank(a.aggs[r[i]]), AggregateRank(a.aggs[s[i]]))
<1> DEFINE R(k) == AggregateRank(a.aggs[k])
           S == DOMAIN a.aggs
<1>1. \A k \in S : R(k) \in Tuples(4)
  BY EntryRankIs
<1>2. /\ n \in Nat /\ r \in [1..n -> S] /\ s \in [1..n -> S]
      /\ \A j, k \in 1..n : r[j] = r[k] => j = k
      /\ \A k \in S : \E j \in 1..n : s[j] = k
      /\ \A j, k \in 1..n : j < k => ~Precedes(R(r[k]), R(r[j])) /\ ~Precedes(R(s[k]), R(s[j]))
  BY DEF RowsOf
<1>3. /\ \A k \in S : ~Precedes(R(k), R(k))
      /\ \A j, k, m \in S : Precedes(R(j), R(k)) /\ Precedes(R(k), R(m)) => Precedes(R(j), R(m))
      /\ \A j, k \in S : R(j) # R(k) => Precedes(R(j), R(k)) \/ Precedes(R(k), R(j))
  <2>1. /\ \A x \in Tuples(4) : ~Precedes(x, x)
        /\ \A x, y, z \in Tuples(4) : Precedes(x, y) /\ Precedes(y, z) => Precedes(x, z)
        /\ \A x, y \in Tuples(4) : x # y => Precedes(x, y) \/ Precedes(y, x)
    BY PrecedesOrders
  <2> HIDE DEF R, S
  <2> QED BY <1>1, <2>1, Zenon
<1> HIDE DEF R, S
<1>4. SUFFICES ASSUME Precedes(R(r[i]), R(s[i])) PROVE FALSE
  BY DEF R
<1>5. PICK m \in Nat : i = m + 1
  <2>1. i - 1 \in Nat /\ i = (i - 1) + 1
    BY <1>2
  <2> QED BY <2>1
<1> DEFINE Place2(j) == CHOOSE k \in 1..n : s[k] = r[j]
           f == [j \in 1..(m + 1) |-> Place2(j)]
<1>6. \A j \in 1..(m + 1) : Place2(j) \in 1..n /\ s[Place2(j)] = r[j] /\ j \in 1..n
  <2> SUFFICES ASSUME NEW j \in 1..(m + 1)
               PROVE  Place2(j) \in 1..n /\ s[Place2(j)] = r[j] /\ j \in 1..n
    OBVIOUS
  <2>1. j \in 1..n
    BY <1>2, <1>5
  <2>2. r[j] \in S
    BY <1>2, <2>1
  <2>3. \E k \in 1..n : s[k] = r[j]
    BY <1>2, <2>2
  <2> QED BY <2>1, <2>3
<1>7. \A j \in 1..(m + 1) : Place2(j) \in 1..m
  <2> SUFFICES ASSUME NEW j \in 1..(m + 1) PROVE Place2(j) \in 1..m
    OBVIOUS
  <2> DEFINE p == Place2(j)
  <2>1. p \in 1..n /\ s[p] = r[j] /\ j \in 1..n /\ r[j] \in S /\ r[i] \in S /\ s[i] \in S
    BY <1>2, <1>6
  <2> HIDE DEF Place2, p
  <2>2. Precedes(R(r[j]), R(s[i]))
    <3>1. CASE j = i
      BY <1>4, <3>1
    <3>2. CASE j # i
      <4>1. j < i
        BY <1>5, <3>2
      <4>2. ~Precedes(R(r[i]), R(r[j]))
        BY <1>2, <2>1, <4>1
      <4>3. CASE R(r[j]) = R(r[i])
        BY <1>4, <4>3
      <4>4. CASE R(r[j]) # R(r[i])
        <5>1. Precedes(R(r[j]), R(r[i]))
          BY <1>3, <2>1, <4>2, <4>4
        <5> QED BY <1>3, <1>4, <2>1, <5>1
      <4> QED BY <4>3, <4>4
    <3> QED BY <3>1, <3>2
  <2>3. p # i
    BY <1>3, <2>1, <2>2
  <2>4. ~(i < p)
    <3>1. ASSUME i < p PROVE FALSE
      <4>1. ~Precedes(R(s[p]), R(s[i]))
        BY <1>2, <2>1, <3>1
      <4> QED BY <2>1, <2>2, <4>1
    <3> QED BY <3>1
  <2>5. p \in 1..m
    BY <1>2, <1>5, <2>1, <2>3, <2>4
  <2> QED BY <2>5 DEF p
<1>8. f \in [1..(m + 1) -> 1..m]
  BY <1>7
<1>9. \A j, k \in 1..(m + 1) : f[j] = f[k] => j = k
  <2> SUFFICES ASSUME NEW j \in 1..(m + 1), NEW k \in 1..(m + 1), f[j] = f[k] PROVE j = k
    OBVIOUS
  <2>1. Place2(j) = Place2(k)
    OBVIOUS
  <2> HIDE DEF Place2
  <2>2. r[j] = r[k] /\ j \in 1..n /\ k \in 1..n
    BY <1>6, <2>1
  <2> QED BY <1>2, <2>2
<1> HIDE DEF f
<1> QED BY <1>8, <1>9, Pigeonhole

\* Two lists of the same table show the same row by row.
LEMMA AlikeRows ==
  ASSUME NEW a, EntriesRanked(a), NEW n, NEW r, RowsOf(r, a, n), NEW s, RowsOf(s, a, n), NEW i \in 1..n,
         NEW x, x = a.aggs[r[i]], NEW y, y = a.aggs[s[i]]
  PROVE  x.sev = y.sev /\ x.count = y.count /\ x.name = y.name /\ x.cipher = y.cipher
<1>1. ~Precedes(AggregateRank(x), AggregateRank(y)) /\ ~Precedes(AggregateRank(y), AggregateRank(x))
  BY NoneBefore
<1>2. r[i] \in DOMAIN a.aggs /\ s[i] \in DOMAIN a.aggs
  BY DEF RowsOf
<1>3. AggregateRank(x) \in Tuples(4) /\ AggregateRank(y) \in Tuples(4)
  BY <1>2, EntryRankIs
<1>4. AggregateRank(x) = AggregateRank(y)
  BY <1>1, <1>3, PrecedesOrders
<1> QED BY <1>2, <1>4, EqualRanks


(***************************************************************************)
(* The lists agree on what is worst.                                       *)
(***************************************************************************)
\* The ranks of the records of a log.
RanksOf(l) == {Rank[MaxSeverity(l[i])] : i \in DOMAIN l}

LEMMA RanksOfNat ==
  ASSUME NEW l, l \in Seq(Recorded)
  PROVE  /\ RanksOf(l) \subseteq Nat
         /\ \A i \in DOMAIN l : l[i] \in Recorded /\ l[i].findings \in Seq(Finding)
<1>1. \A i \in DOMAIN l : l[i] \in Recorded
  OBVIOUS
<1>2. \A i \in DOMAIN l : l[i].findings \in Seq(Finding)
  BY <1>1, RecordsOK DEF RecordOK
<1>3. \A i \in DOMAIN l : MaxSeverity(l[i]) \in Severities
  BY <1>2, MaxSeverityIs
<1>4. \A i \in DOMAIN l : Rank[MaxSeverity(l[i])] \in Nat
  BY <1>3, RankIs
<1> QED BY <1>1, <1>2, <1>4 DEF RanksOf

\* The records.
LEMMA WorstRecord ==
  ASSUME NEW l, l \in Seq(Recorded), l # <<>>, NEW s, s = SortRecords(l)
  PROVE  IsMax(Rank[MaxSeverity(s[1])], RanksOf(l))
<1> DEFINE v(r) == Rank[MaxSeverity(r)]
<1>1. PICK q : Reorders(q, l, s)
  BY SortIs
<1>2. \A i, j \in DOMAIN s : i < j => v(s[i]) >= v(s[j])
  BY SortIs
<1>3. /\ DOMAIN s = DOMAIN l /\ (\A i \in DOMAIN l : s[i] = l[q[i]] /\ q[i] \in DOMAIN l)
      /\ \A x \in DOMAIN l : \E i \in DOMAIN l : q[i] = x
  BY <1>1 DEF Reorders
<1>4. DOMAIN l = 1..Len(l) /\ Len(l) \in Nat /\ 1 \in DOMAIN l
  OBVIOUS
<1>5. RanksOf(l) \subseteq Nat
  BY RanksOfNat
<1>6. RanksOf(l) = {v(l[i]) : i \in DOMAIN l}
  BY DEF RanksOf
<1> HIDE DEF v
<1>7. v(s[1]) \in RanksOf(l)
  BY <1>3, <1>4, <1>6
<1>8. ASSUME NEW y \in RanksOf(l) PROVE y <= v(s[1])
  <2>1. PICK x \in DOMAIN l : y = v(l[x])
    BY <1>6
  <2>2. PICK i \in DOMAIN l : q[i] = x
    BY <1>3
  <2>3. y = v(s[i]) /\ y \in Nat /\ v(s[1]) \in Nat
    BY <1>3, <1>5, <1>7, <2>1, <2>2
  <2>4. CASE i = 1
    BY <2>3, <2>4
  <2>5. CASE i # 1
    <3>1. 1 < i /\ i \in DOMAIN s /\ 1 \in DOMAIN s
      BY <1>3, <1>4, <2>5
    <3> QED BY <1>2, <2>3, <3>1
  <2> QED BY <2>4, <2>5
<1>9. IsMax(v(s[1]), RanksOf(l))
  BY <1>7, <1>8 DEF IsMax
<1> QED BY <1>9 DEF v

\* The findings.
LEMMA WorstFinding ==
  ASSUME NEW a, NEW l, Publishable(a, l), NEW q, q = RankedFindings(a), q # <<>>
  PROVE  IsMax(Rank[a.findings[q[1]].sev], RanksOf(l))
<1> DEFINE t == a.findings
           w == Rank[t[q[1]].sev]
<1>1. t \in Tallies /\ Judges(t, FindingsIn(l)) /\ l \in Seq(Recorded)
  BY DEF Publishable, TalliesOK, SummaryOK, AccountsOK
<1>2. q[1] \in DOMAIN t /\ \A id \in DOMAIN t : Rank[t[id].sev] <= w
  BY <1>1, FindingsRanked
<1>3. RanksOf(l) \subseteq Nat /\ \A i \in DOMAIN l : l[i].findings \in Seq(Finding)
  BY <1>1, RanksOfNat
<1>4. \A id \in DOMAIN t : Rank[t[id].sev] \in Nat
  BY <1>1, TalliesIs, RankIs
<1> HIDE DEF t
<1>5. ASSUME NEW y \in RanksOf(l) PROVE y <= w
  <2>1. PICK i \in DOMAIN l : y = Rank[MaxSeverity(l[i])]
    BY DEF RanksOf
  <2>2. \/ MaxSeverity(l[i]) = "info"
        \/ \E j \in DOMAIN l[i].findings : l[i].findings[j].sev = MaxSeverity(l[i])
    BY <1>3, MaxSeverityIs
  <2>3. CASE MaxSeverity(l[i]) = "info"
    <3>1. y = 0
      BY <2>1, <2>3 DEF Rank
    <3> QED BY <1>2, <1>4, <3>1
  <2>4. CASE \E j \in DOMAIN l[i].findings : l[i].findings[j].sev = MaxSeverity(l[i])
    <3>1. PICK j \in DOMAIN l[i].findings : l[i].findings[j].sev = MaxSeverity(l[i])
      BY <2>4
    <3>2. l[i].findings[j] \in FindingsIn(l)
      BY DEF FindingsIn
    <3> DEFINE x == l[i].findings[j]
    <3>3. x \in FindingsIn(l) /\ y = Rank[x.sev]
      BY <2>1, <3>1, <3>2
    <3> HIDE DEF x
    <3>4. y <= Rank[t[x.id].sev] /\ x.id \in DOMAIN t
      BY <1>1, <3>3 DEF Judges
    <3>5. Rank[t[x.id].sev] <= w /\ Rank[t[x.id].sev] \in Nat /\ y \in Nat /\ w \in Nat
      BY <1>2, <1>3, <1>4, <3>4
    <3> QED BY <3>4, <3>5
  <2> QED BY <2>2, <2>3, <2>4
<1>6. w \in RanksOf(l)
  <2>1. PICK x \in FindingsIn(l) : x.id = q[1] /\ x.sev = t[q[1]].sev
    BY <1>1, <1>2 DEF Judges
  <2>2. PICK i \in DOMAIN l : \E j \in DOMAIN l[i].findings : x = l[i].findings[j]
    BY DEF FindingsIn
  <2>3. PICK j \in DOMAIN l[i].findings : x = l[i].findings[j]
    BY <2>2
  <2> DEFINE m == Rank[MaxSeverity(l[i])]
  <2>4. Rank[x.sev] <= m
    BY <1>3, <2>3, MaxSeverityIs
  <2>5. m \in RanksOf(l)
    BY DEF RanksOf
  <2>6. w <= m /\ m <= w /\ m \in Nat /\ w \in Nat
    BY <1>2, <1>3, <1>4, <1>5, <2>1, <2>4, <2>5
  <2> HIDE DEF m, w
  <2>7. w = m
    BY <2>6
  <2> QED BY <2>5, <2>7
<1> QED BY <1>5, <1>6 DEF IsMax, t

\* The rows, if all records are in the table.
LEMMA WorstRow ==
  ASSUME NEW a, NEW l, Publishable(a, l), l # <<>>, a.aggDropped = 0,
         NEW rows, NEW n, RowsOf(rows, a, n)
  PROVE  IsMax(Rank[a.aggs[rows[1]].sev], RanksOf(l))
<1> DEFINE S == DOMAIN a.aggs
           v(k) == Rank[a.aggs[k].sev]
<1>1. l \in Seq(Recorded) /\ EntriesRanked(a) /\ TableFaithful(a, l)
      /\ a.aggDropped = Cardinality(Places(l, Unheld(a)))
  BY DEF Publishable, TalliesOK, AccountsOK
<1>2. \A i \in DOMAIN l : l[i] \in Recorded /\ KeyOf(l[i]) \in S
  <2>1. \A i \in DOMAIN l : l[i] \in Recorded
    BY <1>1
  <2>2. IsFiniteSet(Places(l, Unheld(a)))
    BY <1>1, WhereFinite
  <2>3. Places(l, Unheld(a)) = {}
    BY <1>1, <2>2, FS_EmptySet
  <2> QED BY <2>1, <2>3 DEF Places, Unheld
<1>3. \A k \in S : IsMax(v(k), Ranks(Among(l, KeyedBy(k))))
  BY <1>1 DEF TableFaithful, EntryFaithful, EntryRange
<1>4. /\ rows \in [1..n -> S] /\ n \in Nat
      /\ \A k \in S : \E i \in 1..n : rows[i] = k
  BY DEF RowsOf
<1>5. 1 \in 1..n
  <2>1. 1 \in DOMAIN l
    BY <1>1
  <2>2. S # {}
    BY <1>2, <2>1
  <2>3. \E i \in 1..n : TRUE
    BY <1>4, <2>2
  <2> QED BY <1>4, <2>3
<1>6. \A k \in S : v(k) \in Nat
  BY <1>1, EntryRankIs
<1>7. \A k \in S : v(k) <= v(rows[1])
  <2> SUFFICES ASSUME NEW k \in S PROVE v(k) <= v(rows[1])
    OBVIOUS
  <2>1. PICK i \in 1..n : rows[i] = k
    BY <1>4
  <2>2. v(k) \in Nat /\ v(rows[1]) \in Nat
    BY <1>4, <1>5, <1>6
  <2>3. CASE i = 1
    BY <2>1, <2>2, <2>3
  <2>4. CASE i # 1
    <3>1. 1 < i
      BY <1>4, <2>4
    <3>2. v(rows[1]) >= v(rows[i])
      BY <1>1, <1>5, <3>1, RowsDescend
    <3> QED BY <2>1, <2>2, <3>2
  <2> QED BY <2>3, <2>4
<1> DEFINE k1 == rows[1]
<1>8. k1 \in S
  BY <1>4, <1>5
<1>9. v(k1) \in RanksOf(l)
  <2>1. v(k1) \in Ranks(Among(l, KeyedBy(k1)))
    BY <1>3, <1>8 DEF IsMax
  <2> QED BY <2>1 DEF Ranks, Among, Places, RanksOf
<1>10. ASSUME NEW y \in RanksOf(l) PROVE y <= v(k1)
  <2>1. PICK i \in DOMAIN l : y = Rank[MaxSeverity(l[i])]
    BY DEF RanksOf
  <2> DEFINE k == KeyOf(l[i])
  <2>2. k \in S /\ l[i] \in Among(l, KeyedBy(k))
    BY <1>2 DEF KeyedBy, Among, Places
  <2>3. y \in Ranks(Among(l, KeyedBy(k)))
    BY <2>1, <2>2 DEF Ranks
  <2>4. y <= v(k) /\ v(k) <= v(k1)
    <3> HIDE DEF v, k, k1
    <3>1. y <= v(k)
      BY <1>3, <2>2, <2>3 DEF IsMax
    <3> QED BY <1>7, <2>2, <3>1 DEF k1
  <2>5. y \in Nat /\ v(k) \in Nat /\ v(k1) \in Nat
    BY <1>1, <1>6, <1>8, <2>2, RanksOfNat
  <2> HIDE DEF v, k, k1
  <2> QED BY <2>4, <2>5
<1> QED BY <1>9, <1>10 DEF IsMax


\* What the page shows and what it leaves out.
LEMMA PageIs ==
  ASSUME NEW T, NEW rows, rows \in Seq(T), NEW p, p = Page(rows)
  PROVE  /\ p.truncated \in Nat /\ Len(p.rows) \in Nat
         /\ Len(p.rows) + p.truncated = Len(rows)
<1> DEFINE L == Len(rows)
           m == Min({L, MaxHTMLRows})
<1>1. L \in Nat /\ MaxHTMLRows \in Nat
  BY ReportAssumption
<1>2. m \in {L, MaxHTMLRows} /\ \A y \in {L, MaxHTMLRows} : m <= y
  <2> DEFINE U == {L, MaxHTMLRows}
  <2>1. U \subseteq Nat /\ U # {}
    BY <1>1
  <2> HIDE DEF U
  <2>2. Min(U) \in U /\ \A y \in U : Min(U) <= y
    BY <2>1, MinIs
  <2> QED BY <2>2 DEF U
<1> HIDE DEF m
<1>3. m \in Nat /\ m <= L /\ (L > MaxHTMLRows => m = MaxHTMLRows) /\ (~(L > MaxHTMLRows) => m = L)
  <2> HIDE DEF L
  <2> QED BY <1>1, <1>2
<1>4. p.rows = SubSeq(rows, 1, m) /\ p.truncated = IF L > MaxHTMLRows THEN L - MaxHTMLRows ELSE 0
  BY DEF Page, m
<1>5. Len(SubSeq(rows, 1, m)) = m
  BY <1>3
<1> HIDE DEF L
<1>6. p.truncated = L - m /\ Len(p.rows) = m
  BY <1>1, <1>3, <1>4, <1>5
<1>7. p.truncated \in Nat /\ m + p.truncated = L
  BY <1>1, <1>3, <1>6
<1> QED BY <1>3, <1>6, <1>7 DEF L

LEMMA WorstSays == ReportOK => WorstFirst
<1> SUFFICES ASSUME ReportOK, Published, log # <<>>,
                    NEW worst, worst = Max({Rank[MaxSeverity(log[i])] : i \in DOMAIN log}),
                    NEW shown, shown = Len(report.page.rows)
             PROVE  /\ keep => Rank[MaxSeverity(report.records[1])] = worst
                    /\ report.findings # <<>> => Rank[acc.findings[report.findings[1]].sev] = worst
                    /\ acc.aggDropped = 0 => Rank[Row(1).sev] = worst
                    /\ shown + report.page.truncated = Cardinality(AggKeys)
                    /\ \A i \in 1..shown, j \in (shown + 1)..Len(report.rows) :
                         Rank[Row(i).sev] >= Rank[Row(j).sev]
  BY Zenon DEF WorstFirst
<1>1. PICK rows \in Aggregates(acc) : report = ReportOf(acc, Records, rows)
  BY DEF ReportOK
<1>2. /\ report.records = SortRecords(Records) /\ report.rows = rows /\ report.page = Page(rows)
      /\ report.findings = RankedFindings(acc)
  BY <1>1 DEF ReportOf
<1>3. Publishable(acc, log) /\ log \in Seq(Recorded) /\ EntriesRanked(acc) /\ IsFiniteSet(DOMAIN acc.aggs)
  BY DEF ReportOK, Publishable, TalliesOK, AccountsOK, TableOK
<1>4. \A w : IsMax(w, RanksOf(log)) => w = worst
  <2>1. worst = Max(RanksOf(log))
    BY DEF RanksOf
  <2>2. RanksOf(log) \subseteq Nat
    BY <1>3, RanksOfNat
  <2> QED BY <2>1, <2>2, MaxOf
<1>5. PICK n : RowsOf(rows, acc, n)
  BY <1>3, RowsAre
<1>6. keep => Rank[MaxSeverity(report.records[1])] = worst
  <2> SUFFICES ASSUME keep PROVE Rank[MaxSeverity(report.records[1])] = worst
    OBVIOUS
  <2>1. report.records = SortRecords(log)
    BY <1>2 DEF Records
  <2>2. IsMax(Rank[MaxSeverity(report.records[1])], RanksOf(log))
    BY <1>3, <2>1, WorstRecord
  <2> QED BY <1>4, <2>2
<1>7. report.findings # <<>> => Rank[acc.findings[report.findings[1]].sev] = worst
  <2> SUFFICES ASSUME report.findings # <<>>
               PROVE  Rank[acc.findings[report.findings[1]].sev] = worst
    OBVIOUS
  <2>1. IsMax(Rank[acc.findings[report.findings[1]].sev], RanksOf(log))
    BY <1>2, <1>3, WorstFinding
  <2> QED BY <1>4, <2>1
<1>8. acc.aggDropped = 0 => Rank[Row(1).sev] = worst
  <2> SUFFICES ASSUME acc.aggDropped = 0 PROVE Rank[Row(1).sev] = worst
    OBVIOUS
  <2>1. IsMax(Rank[acc.aggs[rows[1]].sev], RanksOf(log))
    BY <1>3, <1>5, WorstRow
  <2> QED BY <1>2, <1>4, <2>1 DEF Row
<1>9. n \in Nat /\ n = Cardinality(AggKeys) /\ rows \in Seq(DOMAIN acc.aggs) /\ Len(rows) = n
  BY <1>5 DEF RowsOf, AggKeys
<1>10. report.page.truncated \in Nat /\ shown \in Nat /\ shown + report.page.truncated = n
  BY <1>2, <1>9, PageIs
<1>11. ASSUME NEW i \in 1..shown, NEW j \in (shown + 1)..Len(report.rows)
       PROVE  Rank[Row(i).sev] >= Rank[Row(j).sev]
  <2>1. i \in 1..n /\ j \in 1..n /\ i < j
    BY <1>2, <1>9, <1>10
  <2>2. Rank[acc.aggs[rows[i]].sev] >= Rank[acc.aggs[rows[j]].sev]
    BY <1>3, <1>5, <2>1, RowsDescend
  <2> QED BY <1>2, <2>2 DEF Row
<1> QED BY <1>6, <1>7, <1>8, <1>9, <1>10, <1>11

\* SortRecords, Aggregates and Summary rank apart and buildView cuts what
\* Aggregates ranked: whatever was recorded and however small the table and the
\* page, they begin with the same severity, and the page leaves out and counts
\* nothing worse than what it shows.
THEOREM AlwaysWorstFirst == ReportSpec => []WorstFirst
<1>1. ReportInit => ReportOK
  BY InitReport
<1>2. ReportOK /\ [ReportNext]_reportVars => ReportOK'
  BY NextReport
<1>3. ReportOK => WorstFirst
  BY WorstSays
<1> QED BY <1>1, <1>2, <1>3, PTL DEF ReportSpec

\* What a republication may not change.
Alike ==
  report # <<>> /\ report' # <<>> =>
    \A i \in DOMAIN report.rows :
      LET x == acc.aggs[report.rows[i]]
          y == acc.aggs[report'.rows[i]]
      IN  <<x.sev, x.count, x.name, x.cipher>> = <<y.sev, y.count, y.name, y.cipher>>

LEMMA StepAlike == ReportOK /\ ReportOK' /\ [ReportNext]_reportVars => Alike
<1> SUFFICES ASSUME ReportOK, ReportOK', [ReportNext]_reportVars, report # <<>>, report' # <<>>,
                    NEW i \in DOMAIN report.rows,
                    NEW x, x = acc.aggs[report.rows[i]], NEW y, y = acc.aggs[report'.rows[i]]
             PROVE  <<x.sev, x.count, x.name, x.cipher>> = <<y.sev, y.count, y.name, y.cipher>>
  BY DEF Alike
<1>1. acc' = acc
  <2>1. \A f \in Observed : ~HandleFlow(f)
    BY DEF HandleFlow
  <2> QED BY <2>1 DEF ReportNext, Publish, reportVars
<1>2. PICK r \in Aggregates(acc) : report.rows = r
  BY DEF ReportOK, ReportOf, Published
<1>3. PICK s \in Aggregates(acc) : report'.rows = s
  BY <1>1 DEF ReportOK, ReportOf, Published
<1>4. EntriesRanked(acc) /\ IsFiniteSet(DOMAIN acc.aggs)
  BY DEF ReportOK, Publishable, TalliesOK, AccountsOK, TableOK
<1>5. PICK n : RowsOf(r, acc, n)
  BY <1>4, RowsAre
<1>6. RowsOf(s, acc, n)
  <2>1. PICK m : RowsOf(s, acc, m)
    BY <1>4, RowsAre
  <2>2. m = n
    BY <1>5, <2>1 DEF RowsOf
  <2> QED BY <2>1, <2>2
<1>7. i \in 1..n
  BY <1>2, <1>5 DEF RowsOf
<1>8. x.sev = y.sev /\ x.count = y.count /\ x.name = y.name /\ x.cipher = y.cipher
  <2>1. x = acc.aggs[r[i]] /\ y = acc.aggs[s[i]]
    BY <1>2, <1>3
  <2> QED BY <1>4, <1>5, <1>6, <1>7, <2>1, AlikeRows
<1> QED BY <1>8

\* Aggregates ranges over a Go map and its sort is not stable: two publications
\* of the same inventory agree row by row in all that a row is compared by.
THEOREM AlwaysAlike == ReportSpec => RepublishedAlike
<1>1. ReportInit => ReportOK
  BY InitReport
<1>2. ReportOK /\ [ReportNext]_reportVars => ReportOK'
  BY NextReport
<1>3. ReportOK /\ ReportOK' /\ [ReportNext]_reportVars => Alike
  BY StepAlike
<1>4. ReportSpec => [][Alike]_reportVars
  BY <1>1, <1>2, <1>3, PTL DEF ReportSpec
<1> QED BY <1>4 DEF RepublishedAlike, Alike

(***************************************************************************)
(* The assets of a record.                                                 *)
(***************************************************************************)
Certificates(r) == {CertificateAsset(r.certs[i]) : i \in DOMAIN r.certs}
Items(r) == {SuiteAsset(r), GroupAsset(r), ProtocolAsset(r)} \cup Certificates(r)

LEMMA CertsAre ==
  ASSUME NEW r \in Recorded
  PROVE  r.certs \in Seq(Certificate)
<1>1. PICK f \in Observed : r = Analyze(f)
  BY DEF Recorded
<1>2. Analyze(f).certs = f.certs
  BY DEF Analyze
<1> QED BY <1>1, <1>2, InventoryAssumption

\* The parts of a sequence that is put together.
LEMMA MiddlePart ==
  ASSUME NEW S, NEW a, a \in Seq(S), NEW x, x \in S, NEW b, b \in Seq(S),
         NEW s, s = (a \o <<x>>) \o b
  PROVE  s \in Seq(S) /\ \E j \in DOMAIN s : s[j] = x
<1> DEFINE n == Len(a) + 1
           c == a \o <<x>>
<1>1. <<x>> \in Seq(S) /\ Len(<<x>>) = 1 /\ <<x>>[1] = x
  OBVIOUS
<1>2. Len(a) \in Nat /\ Len(b) \in Nat
  OBVIOUS
<1>3. c \in Seq(S) /\ Len(c) = n /\ c[n] = x
  <2> DEFINE y == <<x>>
  <2>1. y \in Seq(S) /\ Len(y) = 1 /\ y[1] = x
    BY <1>1
  <2> HIDE DEF y
  <2>2. /\ a \o y \in Seq(S) /\ Len(a \o y) = Len(a) + Len(y)
        /\ \A i \in 1..(Len(a) + Len(y)) : (a \o y)[i] = IF i <= Len(a) THEN a[i] ELSE y[i - Len(a)]
    BY <2>1, ConcatProperties
  <2>3. n \in 1..(Len(a) + Len(y)) /\ ~(n <= Len(a)) /\ n - Len(a) = 1 /\ Len(a) + Len(y) = n
    BY <1>2, <2>1
  <2> HIDE DEF n
  <2>4. a \o y \in Seq(S) /\ Len(a \o y) = n /\ (a \o y)[n] = x
    BY <2>1, <2>2, <2>3
  <2> QED BY <2>4 DEF y
<1> HIDE DEF c
<1>4. /\ c \o b \in Seq(S) /\ Len(c \o b) = Len(c) + Len(b)
      /\ \A i \in 1..(Len(c) + Len(b)) : (c \o b)[i] = IF i <= Len(c) THEN c[i] ELSE b[i - Len(c)]
  BY <1>3, ConcatProperties
<1>5. s = c \o b
  BY DEF c
<1>6. n \in 1..(Len(c) + Len(b)) /\ n <= Len(c)
  BY <1>2, <1>3
<1> HIDE DEF n
<1>7. s[n] = x /\ n \in DOMAIN s
  BY <1>3, <1>4, <1>5, <1>6
<1> QED BY <1>4, <1>5, <1>7

LEMMA AssetsAre ==
  ASSUME NEW r \in Recorded
  PROVE  /\ Assets(r) \in Seq(Items(r))
         /\ \E j \in DOMAIN Assets(r) : Assets(r)[j] = ProtocolAsset(r)
<1> DEFINE S == Items(r)
           a == <<SuiteAsset(r)>>
           b == IF r.group = 0 THEN <<>> ELSE <<GroupAsset(r)>>
           c == [i \in DOMAIN r.certs |-> CertificateAsset(r.certs[i])]
           x == ProtocolAsset(r)
<1>1. Assets(r) = ((a \o b) \o <<x>>) \o c
  BY DEF Assets
<1>2. SuiteAsset(r) \in S /\ GroupAsset(r) \in S /\ x \in S
  BY DEF Items
<1>3. c \in Seq(S)
  <2>1. DOMAIN r.certs = 1..Len(r.certs) /\ Len(r.certs) \in Nat
    BY CertsAre
  <2>2. \A i \in DOMAIN r.certs : CertificateAsset(r.certs[i]) \in S
    BY DEF Items, Certificates
  <2> HIDE DEF S
  <2>3. c \in [1..Len(r.certs) -> S]
    BY <2>1, <2>2
  <2> QED BY <2>1, <2>3
<1> HIDE DEF S, c, x
<1>4. a \in Seq(S) /\ b \in Seq(S)
  BY <1>2
<1> HIDE DEF a, b
<1>5. a \o b \in Seq(S)
  BY <1>4
<1>6. Assets(r) \in Seq(S) /\ \E j \in DOMAIN Assets(r) : Assets(r)[j] = x
  <2> DEFINE d == a \o b
             s == Assets(r)
  <2>1. d \in Seq(S) /\ x \in S /\ c \in Seq(S) /\ s = (d \o <<x>>) \o c
    BY <1>1, <1>2, <1>3, <1>5
  <2> HIDE DEF d, s
  <2>2. s \in Seq(S) /\ \E j \in DOMAIN s : s[j] = x
    BY <2>1, MiddlePart, SMTT(30)
  <2> QED BY <2>2 DEF s
<1> QED BY <1>6 DEF S, x

\* An asset is a protocol as its component and its reference say, and a record
\* has one.
LEMMA ItemsAre ==
  ASSUME NEW r, NEW x \in Items(r)
  PROVE  /\ x.comp.kind = "protocol" <=> x.ref = ProtocolRef(r)
         /\ x.comp.kind = "protocol" <=> x.ref[1] = "protocol"
<1>1. CASE x = SuiteAsset(r)
  <2>1. x.comp.kind = "cipher" /\ x.ref[1] \in {"suite", "number"}
    BY <1>1 DEF SuiteAsset, CipherComponent, AlgorithmRef
  <2> QED BY <2>1 DEF ProtocolRef
<1>2. CASE x = GroupAsset(r)
  <2>1. x.comp.kind = "group" /\ x.ref[1] \in {"group", "number"}
    BY <1>2 DEF GroupAsset, GroupComponent, AlgorithmRef
  <2> QED BY <2>1 DEF ProtocolRef
<1>3. CASE x = ProtocolAsset(r)
  BY <1>3 DEF ProtocolAsset, ProtocolRef
<1>4. CASE x \in Certificates(r)
  <2>1. PICK i \in DOMAIN r.certs : x = CertificateAsset(r.certs[i])
    BY <1>4 DEF Certificates
  <2>2. x.comp.kind = "certificate" /\ x.ref[1] = "certificate"
    BY <2>1 DEF CertificateAsset, CertificateRef
  <2> QED BY <2>2 DEF ProtocolRef
<1> QED BY <1>1, <1>2, <1>3, <1>4 DEF Items

(***************************************************************************)
(* What the CBOM may hold.                                                 *)
(***************************************************************************)
AllItems == UNION {Items(r) : r \in Recorded}
AllRefs == {x.ref : x \in AllItems}
Components == {x.comp : x \in AllItems}
AllPlaces == {Where(r) : r \in Recorded}
Ciphers == {r.cipher : r \in Recorded}
AssetRecord == [comp : Components, seen : SUBSET AllPlaces, count : Nat, suites : Seq(Ciphers)]
Books == UNION {[D -> AssetRecord] : D \in SUBSET AllRefs}
Dependencies == UNION {[D -> SUBSET AllRefs] : D \in SUBSET AllRefs}

LEMMA BooksAre ==
  ASSUME NEW t, t \in Books
  PROVE  DOMAIN t \subseteq AllRefs /\ \A ref \in DOMAIN t : t[ref] \in AssetRecord
BY DEF Books

LEMMA IsBook ==
  ASSUME NEW D, D \subseteq AllRefs, NEW t, t = [ref \in D |-> t[ref]],
         \A ref \in D : t[ref] \in AssetRecord
  PROVE  t \in Books
<1>1. t \in [D -> AssetRecord]
  OBVIOUS
<1> QED BY <1>1 DEF Books

\* What AddAsset does.
Entered(t, x, where, u) ==
  /\ DOMAIN u = DOMAIN t \cup {x.ref}
  /\ \A ref \in DOMAIN t : ref # x.ref => u[ref] = t[ref]
  /\ x.ref \in DOMAIN t =>
       /\ u[x.ref].comp = t[x.ref].comp /\ u[x.ref].seen = t[x.ref].seen \cup {where}
       /\ u[x.ref].count = t[x.ref].count + 1 /\ u[x.ref].suites = t[x.ref].suites
  /\ x.ref \notin DOMAIN t =>
       /\ u[x.ref].comp = x.comp /\ u[x.ref].seen = {where}
       /\ u[x.ref].count = 1 /\ u[x.ref].suites = <<>>

LEMMA AddAssetIs ==
  ASSUME NEW t, t \in Books, NEW x, x \in AllItems, NEW where, where \in AllPlaces,
         NEW u, u = AddAsset(t, x, where)
  PROVE  u \in Books /\ Entered(t, x, where, u)
<1> DEFINE old == IF x.ref \in DOMAIN t THEN t[x.ref]
                  ELSE [comp |-> x.comp, seen |-> {}, count |-> 0, suites |-> <<>>]
           new == [old EXCEPT !.seen = @ \cup {where}, !.count = @ + 1]
           D == DOMAIN t \cup {x.ref}
<1>1. u = [ref \in D |-> IF ref # x.ref THEN t[ref] ELSE new]
  BY DEF AddAsset
<1>2. x.ref \in AllRefs /\ x.comp \in Components
  BY DEF AllRefs, Components
<1>3. DOMAIN t \subseteq AllRefs /\ \A ref \in DOMAIN t : t[ref] \in AssetRecord
  BY BooksAre
<1>4. old \in AssetRecord
  <2>1. CASE x.ref \in DOMAIN t
    BY <1>3, <2>1
  <2>2. CASE x.ref \notin DOMAIN t
    <3>1. <<>> \in Seq(Ciphers)
      OBVIOUS
    <3> QED BY <1>2, <2>2, <3>1 DEF AssetRecord
  <2> QED BY <2>1, <2>2
<1>5. /\ x.ref \in DOMAIN t => old = t[x.ref]
      /\ x.ref \notin DOMAIN t => /\ old.comp = x.comp /\ old.seen = {} /\ old.count = 0
                                  /\ old.suites = <<>>
  OBVIOUS
<1> HIDE DEF old
<1>6. /\ new \in AssetRecord /\ new.comp = old.comp /\ new.seen = old.seen \cup {where}
      /\ new.count = old.count + 1 /\ new.suites = old.suites
  <2>1. PICK c \in Components, e \in SUBSET AllPlaces, n \in Nat, q \in Seq(Ciphers) :
          old = [comp |-> c, seen |-> e, count |-> n, suites |-> q]
    BY <1>4 DEF AssetRecord
  <2>2. new = [comp |-> c, seen |-> e \cup {where}, count |-> n + 1, suites |-> q]
    <3>1. /\ old.seen = e /\ old.count = n /\ DOMAIN old = {"comp", "seen", "count", "suites"}
          /\ old.comp = c /\ old.suites = q
      BY <2>1
    <3>2. new = [old EXCEPT !.seen = e \cup {where}, !.count = n + 1]
      BY <3>1
    <3> HIDE DEF new
    <3> QED BY <3>1, <3>2
  <2>3. e \cup {where} \in SUBSET AllPlaces /\ n + 1 \in Nat
    OBVIOUS
  <2> HIDE DEF new
  <2> QED BY <2>1, <2>2, <2>3 DEF AssetRecord
<1> HIDE DEF new
<1>7. u \in Books
  <2>1. D \subseteq AllRefs
    BY <1>2, <1>3
  <2>2. u = [ref \in D |-> u[ref]] /\ \A ref \in D : u[ref] \in AssetRecord
    BY <1>1, <1>3, <1>6
  <2> HIDE DEF D
  <2> QED BY <2>1, <2>2, IsBook
<1>8. DOMAIN u = D /\ (\A ref \in DOMAIN t : ref # x.ref => u[ref] = t[ref]) /\ u[x.ref] = new
  BY <1>1
<1>9. x.ref \notin DOMAIN t => new.seen = {where} /\ new.count = 1
  BY <1>5, <1>6
<1> QED BY <1>5, <1>6, <1>7, <1>8, <1>9 DEF Entered


(***************************************************************************)
(* What the assets say of the uses that were entered: it[u] is the asset   *)
(* used, wh[u] the place of the use, and U the set of the uses so far.     *)
(***************************************************************************)
UsedAs(it, U, ref) == {u \in U : it[u].ref = ref}

\* One asset says of its uses, which are in V, how many, where and one of what.
Tells(a, it, wh, V) ==
  /\ a.count = Cardinality(V) /\ a.seen = {wh[u] : u \in V}
  /\ \E u \in V : a.comp = it[u].comp

Covers(t, it, wh, U) ==
  /\ t \in Books /\ IsFiniteSet(U)
  /\ DOMAIN t = {it[u].ref : u \in U}
  /\ \A ref \in DOMAIN t : Tells(t[ref], it, wh, UsedAs(it, U, ref))

\* AddAsset enters one more use.
LEMMA EnterCovers ==
  ASSUME NEW t, NEW it, NEW wh, NEW U, Covers(t, it, wh, U),
         NEW w, w \notin U, it[w] \in AllItems, wh[w] \in AllPlaces,
         NEW v, v = AddAsset(t, it[w], wh[w])
  PROVE  Covers(v, it, wh, U \cup {w})
<1> DEFINE x == it[w]
           W == U \cup {w}
           key == x.ref
<1>1. v \in Books /\ Entered(t, x, wh[w], v)
  BY AddAssetIs DEF Covers
<1>2. t \in Books /\ IsFiniteSet(U) /\ DOMAIN t = {it[u].ref : u \in U}
      /\ \A ref \in DOMAIN t : Tells(t[ref], it, wh, UsedAs(it, U, ref))
  BY DEF Covers
<1>3. /\ DOMAIN v = DOMAIN t \cup {key}
      /\ \A ref \in DOMAIN t : ref # key => v[ref] = t[ref]
  BY <1>1 DEF Entered
<1>4. IsFiniteSet(W) /\ DOMAIN v = {it[u].ref : u \in W}
  <2>1. IsFiniteSet(W)
    BY <1>2, FS_AddElement
  <2> QED BY <1>2, <1>3, <2>1
<1>5. ASSUME NEW ref \in DOMAIN v, ref # key PROVE Tells(v[ref], it, wh, UsedAs(it, W, ref))
  <2>1. UsedAs(it, W, ref) = UsedAs(it, U, ref)
    BY <1>5 DEF UsedAs
  <2>2. ref \in DOMAIN t /\ v[ref] = t[ref]
    BY <1>3, <1>5
  <2> QED BY <1>2, <2>1, <2>2
<1>6. Tells(v[key], it, wh, UsedAs(it, W, key))
  <2> DEFINE V == UsedAs(it, U, key)
             new == v[key]
             old == t[key]
  <2>1. UsedAs(it, W, key) = V \cup {w} /\ w \notin V
    BY DEF UsedAs
  <2>2. IsFiniteSet(V)
    <3>1. V \subseteq U
      BY DEF UsedAs
    <3> QED BY <1>2, <3>1, FS_Subset
  <2>3. Cardinality(V \cup {w}) = Cardinality(V) + 1 /\ Cardinality(V) \in Nat
    <3> HIDE DEF V
    <3> QED BY <2>1, <2>2, FS_AddElement, FS_CardinalityType
  <2>4. CASE key \in DOMAIN t
    <3>1. /\ new.comp = old.comp /\ new.seen = old.seen \cup {wh[w]} /\ new.count = old.count + 1
      BY <1>1, <2>4 DEF Entered
    <3>2. Tells(old, it, wh, V)
      BY <1>2, <2>4
    <3> HIDE DEF new, old, V, x, key
    <3>3. Tells(new, it, wh, V \cup {w})
      BY <2>3, <3>1, <3>2 DEF Tells
    <3> QED BY <2>1, <3>3 DEF new
  <2>5. CASE key \notin DOMAIN t
    <3>1. /\ new.comp = x.comp /\ new.seen = {wh[w]} /\ new.count = 1
      BY <1>1, <2>5 DEF Entered
    <3>2. V = {}
      BY <1>2, <2>5 DEF UsedAs
    <3>3. Cardinality(V) = 0
      BY <3>2, FS_EmptySet
    <3> HIDE DEF new, V, key
    <3>4. Tells(new, it, wh, V \cup {w})
      BY <2>3, <3>1, <3>2, <3>3 DEF Tells
    <3> QED BY <2>1, <3>4 DEF new
  <2> QED BY <2>4, <2>5
<1>7. \A ref \in DOMAIN v : Tells(v[ref], it, wh, UsedAs(it, W, ref))
  BY <1>5, <1>6
<1> HIDE DEF W
<1>8. Covers(v, it, wh, W)
  BY <1>1, <1>4, <1>7 DEF Covers
<1> QED BY <1>8 DEF W

\* The uses may be counted under other names.
LEMMA RenamedCovers ==
  ASSUME NEW t, NEW it, NEW wh, NEW U, Covers(t, it, wh, U),
         NEW it2, NEW wh2, NEW W, NEW h,
         \A u \in U : h[u] \in W /\ it2[h[u]] = it[u] /\ wh2[h[u]] = wh[u],
         \A u, w \in U : h[u] = h[w] => u = w,
         \A w \in W : \E u \in U : h[u] = w
  PROVE  Covers(t, it2, wh2, W)
<1>1. t \in Books /\ IsFiniteSet(U) /\ DOMAIN t = {it[u].ref : u \in U}
      /\ \A ref \in DOMAIN t : Tells(t[ref], it, wh, UsedAs(it, U, ref))
  BY DEF Covers
<1>2. IsFiniteSet(W)
  BY <1>1, FiniteImage
<1>3. DOMAIN t = {it2[w].ref : w \in W}
  BY <1>1
<1>4. ASSUME NEW ref \in DOMAIN t PROVE Tells(t[ref], it2, wh2, UsedAs(it2, W, ref))
  <2> DEFINE V == UsedAs(it, U, ref)
             X == UsedAs(it2, W, ref)
             g == [u \in V |-> h[u]]
  <2>1. (\A u \in V : h[u] \in X) /\ (\A u, w \in V : h[u] = h[w] => u = w)
        /\ (\A w \in X : \E u \in V : h[u] = w)
    BY DEF UsedAs
  <2>2. (\A u \in V : it2[h[u]] = it[u] /\ wh2[h[u]] = wh[u]) /\ V \subseteq U
    BY DEF UsedAs
  <2>3. Tells(t[ref], it, wh, V)
    BY <1>1
  <2> HIDE DEF V, X
  <2>4. IsFiniteSet(V)
    BY <1>1, <2>2, FS_Subset
  <2>5. Cardinality(X) = Cardinality(V)
    <3>1. g \in Bijection(V, X)
      <4>1. g \in [V -> X] /\ (\A u, w \in V : g[u] = g[w] => u = w)
            /\ \A w \in X : \E u \in V : g[u] = w
        BY <2>1
      <4> HIDE DEF g
      <4> QED BY <4>1, Fun_IsBij
    <3> HIDE DEF g
    <3> QED BY <2>4, <3>1, FS_Bijection DEF ExistsBijection
  <2>6. {wh2[w] : w \in X} = {wh[u] : u \in V}
    BY <2>1, <2>2
  <2>7. \E w \in X : t[ref].comp = it2[w].comp
    BY <2>1, <2>2, <2>3 DEF Tells
  <2> QED BY <2>3, <2>5, <2>6, <2>7 DEF Tells, X
<1> QED BY <1>1, <1>2, <1>3, <1>4 DEF Covers


\* The suites listed with an asset.
SuitesOf(t, ref) == IF ref \in DOMAIN t THEN t[ref].suites ELSE <<>>
SameSuites(t, v) == \A ref : SuitesOf(v, ref) = SuitesOf(t, ref)

LEMMA AddAssetSuites ==
  ASSUME NEW t, t \in Books, NEW x, x \in AllItems, NEW where, where \in AllPlaces,
         NEW u, u = AddAsset(t, x, where)
  PROVE  SameSuites(t, u)
<1>1. Entered(t, x, where, u)
  BY AddAssetIs
<1> DEFINE key == x.ref
<1>2. /\ DOMAIN u = DOMAIN t \cup {key}
      /\ \A ref \in DOMAIN t : ref # key => u[ref] = t[ref]
      /\ key \in DOMAIN t => u[key].suites = t[key].suites
      /\ key \notin DOMAIN t => u[key].suites = <<>>
  BY <1>1 DEF Entered
<1> HIDE DEF key
<1> QED BY <1>2 DEF SameSuites, SuitesOf

\* AddAssets goes through the assets one by one.
GoesThrough(g, t, list, w) ==
  LET L == Len(list)
  IN  /\ g \in [0..L -> Books] /\ g[0] = t
      /\ \A n \in 0..(L - 1) : n + 1 \in DOMAIN list /\ g[n + 1] = AddAsset(g[n], list[n + 1], w)

LEMMA AddAssetsIs ==
  ASSUME NEW t, t \in Books, NEW list, list \in Seq(AllItems), NEW w, w \in AllPlaces,
         NEW v, v = AddAssets(t, list, w)
  PROVE  \E g : GoesThrough(g, t, list, w) /\ v = g[Len(list)]
<1> DEFINE L == Len(list)
           Step(b, n) == AddAsset(b, list[n], w)
           F == [n \in 1..L |-> [b \in Books |-> Step(b, n)]]
           after == CHOOSE g : g = [n \in 0..L |-> IF n = 0 THEN t ELSE Step(g[n - 1], n)]
<1>1. v = after[L]
  BY DEF AddAssets
<1>2. L \in Nat /\ DOMAIN list = 1..L /\ \A n \in 1..L : list[n] \in AllItems
  OBVIOUS
<1>3. \A n \in 1..L : \A b \in Books : Step(b, n) \in Books
  BY <1>2, AddAssetIs
<1> HIDE DEF L, Step
<1>4. StaysIn(F, Books, L)
  BY <1>3 DEF StaysIn
<1>5. PICK g : Solves(g, t, F, Books, L)
  <2> HIDE DEF F
  <2> QED BY <1>2, <1>4, RecursionUpTo
<1>6. g \in [0..L -> Books] /\ g[0] = t /\ \A n \in 1..L : g[n] = F[n][g[n - 1]]
  BY <1>5 DEF Solves
<1>7. g = [n \in 0..L |-> IF n = 0 THEN t ELSE Step(g[n - 1], n)]
  <2>1. \A n \in 0..L : n # 0 => n \in 1..L /\ n - 1 \in 0..L
    BY <1>2
  <2>2. \A n \in 0..L : n # 0 => g[n] = Step(g[n - 1], n)
    BY <1>6, <2>1
  <2> HIDE DEF F
  <2> QED BY <1>6, <2>2
<1>8. after = [n \in 0..L |-> IF n = 0 THEN t ELSE Step(after[n - 1], n)]
  BY <1>7
<1> HIDE DEF after
<1>9. after[0] = t /\ \A n \in 0..(L - 1) : n + 1 \in 1..L /\ after[n + 1] = Step(after[n], n + 1)
  <2>1. \A n \in 0..(L - 1) : n + 1 \in 0..L /\ n + 1 # 0 /\ (n + 1) - 1 = n /\ n + 1 \in 1..L
    BY <1>2
  <2> QED BY <1>2, <1>8, <2>1
<1>10. \A n \in 0..L : after[n] \in Books
  <2> DEFINE N == {n \in 0..L : after[n] \in Books}
  <2>1. 0 \in N
    BY <1>2, <1>9
  <2>2. \A n \in 0..(L - 1) : n \in N => n + 1 \in N
    BY <1>2, <1>3, <1>9
  <2>3. 0..L \subseteq N
    <3> HIDE DEF N
    <3> QED BY <1>2, <2>1, <2>2, InductionUpTo
  <2> QED BY <2>3
<1>11. after \in [0..L -> Books]
  BY <1>8, <1>10
<1>12. GoesThrough(after, t, list, w)
  BY <1>2, <1>9, <1>11 DEF GoesThrough, L, Step
<1> QED BY <1>1, <1>12 DEF L

LEMMA AddAssetsCovers ==
  ASSUME NEW t, t \in Books, NEW list, list \in Seq(AllItems), NEW w, w \in AllPlaces,
         NEW v, v = AddAssets(t, list, w)
  PROVE  /\ v \in Books /\ SameSuites(t, v)
         /\ \A it, wh, U, i :
              Covers(t, it, wh, U) /\ (\A j \in DOMAIN list : /\ <<i, j>> \notin U
                                                              /\ it[<<i, j>>] = list[j] /\ wh[<<i, j>>] = w)
                => Covers(v, it, wh, U \cup ({i} \X DOMAIN list))
<1> DEFINE L == Len(list)
<1>1. PICK g : GoesThrough(g, t, list, w) /\ v = g[L]
  BY AddAssetsIs
<1>2. /\ g \in [0..L -> Books] /\ g[0] = t
      /\ \A n \in 0..(L - 1) : n + 1 \in DOMAIN list /\ g[n + 1] = AddAsset(g[n], list[n + 1], w)
  BY <1>1 DEF GoesThrough
<1>3. L \in Nat /\ DOMAIN list = 1..L /\ \A n \in 1..L : list[n] \in AllItems
  OBVIOUS
<1>4. v \in Books
  BY <1>1, <1>2, <1>3
<1> HIDE DEF L
<1>5. SameSuites(t, v)
  <2> DEFINE N == {n \in 0..L : SameSuites(t, g[n])}
  <2>1. 0 \in N
    BY <1>2, <1>3 DEF SameSuites
  <2>2. ASSUME NEW n \in 0..(L - 1), n \in N PROVE n + 1 \in N
    <3>1. g[n] \in Books /\ list[n + 1] \in AllItems /\ n + 1 \in 0..L
      BY <1>2, <1>3
    <3>2. SameSuites(g[n], g[n + 1])
      BY <1>2, <3>1, AddAssetSuites
    <3>3. SameSuites(t, g[n + 1])
      BY <2>2, <3>2 DEF SameSuites
    <3> QED BY <3>1, <3>3
  <2>3. 0..L \subseteq N
    <3> HIDE DEF N
    <3> QED BY <1>3, <2>1, <2>2, InductionUpTo
  <2> QED BY <1>1, <1>3, <2>3
<1>6. ASSUME NEW it, NEW wh, NEW U, NEW i, Covers(t, it, wh, U),
             \A j \in DOMAIN list : <<i, j>> \notin U /\ it[<<i, j>>] = list[j] /\ wh[<<i, j>>] = w
      PROVE  Covers(v, it, wh, U \cup ({i} \X DOMAIN list))
  <2> DEFINE W(n) == U \cup ({i} \X (1..n))
             N == {n \in 0..L : Covers(g[n], it, wh, W(n))}
  <2>1. 0 \in N
    <3>1. W(0) = U
      OBVIOUS
    <3> QED BY <1>2, <1>3, <1>6, <3>1
  <2>2. ASSUME NEW n \in 0..(L - 1), n \in N PROVE n + 1 \in N
    <3> DEFINE u == <<i, n + 1>>
    <3>1. g[n] \in Books /\ n + 1 \in 1..L /\ n + 1 \in 0..L /\ list[n + 1] \in AllItems
      BY <1>2, <1>3
    <3>2. it[u] = list[n + 1] /\ wh[u] = w /\ u \notin U
      BY <1>3, <1>6, <3>1
    <3>3. u \notin W(n) /\ W(n + 1) = W(n) \cup {u}
      <4>1. 1..(n + 1) = (1..n) \cup {n + 1} /\ n + 1 \notin 1..n
        BY <1>3
      <4> QED BY <3>2, <4>1
    <3>4. g[n + 1] = AddAsset(g[n], it[u], wh[u])
      BY <1>2, <3>2
    <3>5. Covers(g[n], it, wh, W(n))
      BY <2>2
    <3> HIDE DEF W, u
    <3>6. Covers(g[n + 1], it, wh, W(n) \cup {u})
      BY <3>1, <3>2, <3>3, <3>4, <3>5, EnterCovers
    <3> QED BY <3>1, <3>3, <3>6
  <2>3. 0..L \subseteq N
    <3> HIDE DEF N
    <3> QED BY <1>3, <2>1, <2>2, InductionUpTo
  <2>4. L \in N
    <3> HIDE DEF N
    <3> QED BY <1>3, <2>3
  <2>5. Covers(g[L], it, wh, W(L))
    BY <2>4
  <2>6. W(L) = U \cup ({i} \X DOMAIN list)
    BY <1>3
  <2> QED BY <1>1, <2>5, <2>6
<1> QED BY <1>4, <1>5, <1>6


(***************************************************************************)
(* What the CBOM says of the answered records, which are in R.             *)
(***************************************************************************)
\* The suites of an asset: those of the records of its protocol.
Listed(t, R) ==
  \A ref : /\ Range(SuitesOf(t, ref)) = {r.cipher : r \in {x \in R : ProtocolRef(x) = ref}}
           /\ IsInjective(SuitesOf(t, ref))

\* The dependencies: those of the records of each protocol.
Linked(deps, R) ==
  /\ DOMAIN deps = {ProtocolRef(r) : r \in R}
  /\ \A p \in DOMAIN deps : deps[p] = UNION {DependsOn(r) : r \in {x \in R : ProtocolRef(x) = p}}

\* A suite that is not in a list of suites is added to it.
LEMMA SuiteAdded ==
  ASSUME NEW S, NEW q, q \in Seq(S), NEW c, c \in S, c \notin Range(q)
  PROVE  /\ Append(q, c) \in Seq(S) /\ Range(Append(q, c)) = Range(q) \cup {c}
         /\ IsInjective(q) => IsInjective(Append(q, c))
<1> DEFINE n == Len(q) + 1
           p == Append(q, c)
<1>1. p \in Seq(S) /\ Len(q) \in Nat /\ DOMAIN q = 1..Len(q) /\ DOMAIN p = 1..n
  OBVIOUS
<1>2. 1..n = (1..Len(q)) \cup {n} /\ n \notin 1..Len(q) /\ n \in Nat
  BY <1>1
<1>3. p[n] = c /\ \A i \in DOMAIN q : p[i] = q[i]
  BY <1>1
<1>4. DOMAIN p = DOMAIN q \cup {n} /\ n \notin DOMAIN q
  BY <1>1, <1>2
<1> HIDE DEF n, p
<1>5. Range(p) = Range(q) \cup {c}
  BY <1>3, <1>4 DEF Range
<1>6. \A i \in DOMAIN q : q[i] # c
  BY DEF Range
<1>7. IsInjective(q) => IsInjective(p)
  BY <1>3, <1>4, <1>6 DEF IsInjective
<1> QED BY <1>1, <1>5, <1>7 DEF p

\* addCipherSuite changes nothing but the suites of the protocol.
LEMMA AddCipherSuiteIs ==
  ASSUME NEW t, t \in Books, NEW r \in Recorded, NEW u, u = AddCipherSuite(t, r)
  PROVE  /\ u \in Books /\ DOMAIN u = DOMAIN t
         /\ \A ref \in DOMAIN t : /\ u[ref].comp = t[ref].comp /\ u[ref].seen = t[ref].seen
                                  /\ u[ref].count = t[ref].count
                                  /\ ref # ProtocolRef(r) => u[ref].suites = t[ref].suites
         /\ ProtocolRef(r) \in DOMAIN t =>
              LET q == t[ProtocolRef(r)].suites
              IN  u[ProtocolRef(r)].suites = IF r.cipher \in Range(q) THEN q ELSE Append(q, r.cipher)
<1> DEFINE key == ProtocolRef(r)
           old == t[key]
           q == old.suites
           p == IF r.cipher \in Range(q) THEN q ELSE Append(q, r.cipher)
           new == [old EXCEPT !.suites = p]
<1>1. DOMAIN t \subseteq AllRefs /\ \A ref \in DOMAIN t : t[ref] \in AssetRecord
  BY BooksAre
<1>2. u = [t EXCEPT ![key] = new]
  BY DEF AddCipherSuite
<1>3. CASE key \notin DOMAIN t
  <2>1. u = t
    BY <1>2, <1>3 DEF Books
  <2> QED BY <1>3, <2>1
<1>4. CASE key \in DOMAIN t
  <2>1. old \in AssetRecord
    BY <1>1, <1>4
  <2>2. PICK c \in Components, e \in SUBSET AllPlaces, n \in Nat, z \in Seq(Ciphers) :
          old = [comp |-> c, seen |-> e, count |-> n, suites |-> z]
    BY <2>1 DEF AssetRecord
  <2>3. z = q
    BY <2>2
  <2>4. r.cipher \in Ciphers
    BY DEF Ciphers
  <2> HIDE DEF old
  <2>5. new = [comp |-> c, seen |-> e, count |-> n, suites |-> p]
    <3> HIDE DEF p
    <3> QED BY <2>2
  <2>6. p \in Seq(Ciphers)
    <3> HIDE DEF q
    <3>1. Append(z, r.cipher) \in Seq(Ciphers)
      BY <2>4
    <3> QED BY <2>3, <3>1
  <2> HIDE DEF p, new
  <2>7. new \in AssetRecord /\ new.comp = old.comp /\ new.seen = old.seen /\ new.count = old.count
        /\ new.suites = p
    BY <2>2, <2>5, <2>6 DEF AssetRecord
  <2>8. DOMAIN u = DOMAIN t /\ u = [ref \in DOMAIN t |-> IF ref = key THEN new ELSE t[ref]]
    BY <1>2, <1>4
  <2> HIDE DEF key
  <2>9. u[key] = new /\ \A ref \in DOMAIN t : ref # key => u[ref] = t[ref]
    BY <1>4, <2>8
  <2>10. u \in Books
    <3>1. u = [ref \in DOMAIN t |-> u[ref]] /\ \A ref \in DOMAIN t : u[ref] \in AssetRecord
      BY <1>1, <2>7, <2>8, <2>9
    <3> QED BY <1>1, <3>1, IsBook
  <2>11. \A ref \in DOMAIN t : /\ u[ref].comp = t[ref].comp /\ u[ref].seen = t[ref].seen
                               /\ u[ref].count = t[ref].count
                               /\ ref # key => u[ref].suites = t[ref].suites
    BY <2>7, <2>9 DEF old
  <2> QED BY <2>7, <2>8, <2>9, <2>10, <2>11 DEF key, p, q, old
<1> QED BY <1>3, <1>4


LEMMA AssetsOfAre ==
  ASSUME NEW r \in Recorded
  PROVE  /\ Assets(r) \in Seq(AllItems) /\ Where(r) \in AllPlaces
         /\ \A j \in DOMAIN Assets(r) : Assets(r)[j] \in Items(r)
         /\ \E j \in DOMAIN Assets(r) : Assets(r)[j].ref = ProtocolRef(r)
         /\ ProtocolRef(r) \in AllRefs
         /\ DependsOn(r) \subseteq AllRefs
<1> DEFINE s == Assets(r)
<1>1. s \in Seq(Items(r)) /\ \E j \in DOMAIN s : s[j] = ProtocolAsset(r)
  BY AssetsAre
<1>2. Items(r) \subseteq AllItems
  BY DEF AllItems
<1>3. Where(r) \in AllPlaces
  BY DEF AllPlaces
<1>4. ProtocolAsset(r).ref = ProtocolRef(r)
  BY DEF ProtocolAsset
<1>5. DependsOn(r) = {s[i].ref : i \in DOMAIN s} \ {ProtocolRef(r)}
  BY DEF DependsOn
<1> HIDE DEF s
<1>6. s \in Seq(AllItems) /\ \A j \in DOMAIN s : s[j] \in Items(r)
  BY <1>1, <1>2
<1>7. \A j \in DOMAIN s : s[j].ref \in AllRefs
  BY <1>2, <1>6 DEF AllRefs
<1>8. PICK j \in DOMAIN s : s[j].ref = ProtocolRef(r)
  BY <1>1, <1>4
<1>9. ProtocolRef(r) \in AllRefs
  BY <1>7, <1>8
<1> QED BY <1>3, <1>5, <1>6, <1>7, <1>8, <1>9 DEF s

\* What the CBOM is while it is built.
Boms == [assets : Books, deps : Dependencies]

\* One record is added to R.
LEMMA ListedOneMore ==
  ASSUME NEW t, t \in Books, NEW R, Listed(t, R), NEW r \in Recorded, NEW v, v \in Books,
         SameSuites(t, v), ProtocolRef(r) \in DOMAIN v, NEW u, u = AddCipherSuite(v, r)
  PROVE  Listed(u, R \cup {r})
<1> DEFINE key == ProtocolRef(r)
           q == v[key].suites
           p == u[key].suites
           In(ref) == {x.cipher : x \in {x \in R : ProtocolRef(x) = ref}}
           Now(ref) == {x.cipher : x \in {x \in R \cup {r} : ProtocolRef(x) = ref}}
<1>1. /\ DOMAIN u = DOMAIN v
      /\ \A ref \in DOMAIN v : ref # key => u[ref].suites = v[ref].suites
      /\ p = IF r.cipher \in Range(q) THEN q ELSE Append(q, r.cipher)
  BY AddCipherSuiteIs
<1>2. \A ref : Range(SuitesOf(v, ref)) = In(ref) /\ IsInjective(SuitesOf(v, ref))
  BY DEF Listed, SameSuites
<1>3. q \in Seq(Ciphers) /\ r.cipher \in Ciphers
  <2>1. v[key] \in AssetRecord
    BY BooksAre
  <2> QED BY <2>1 DEF AssetRecord, Ciphers
<1>4. SuitesOf(v, key) = q /\ SuitesOf(u, key) = p
  BY <1>1 DEF SuitesOf
<1> HIDE DEF p, q
<1>5. Range(p) = Range(q) \cup {r.cipher} /\ (IsInjective(q) => IsInjective(p))
  <2> DEFINE c == r.cipher
  <2>1. p = IF c \in Range(q) THEN q ELSE Append(q, c)
    BY <1>1
  <2>2. q \in Seq(Ciphers) /\ c \in Ciphers
    BY <1>3
  <2> HIDE DEF c
  <2>3. Range(p) = Range(q) \cup {c} /\ (IsInjective(q) => IsInjective(p))
    <3>1. CASE c \in Range(q)
      BY <2>1, <3>1
    <3>2. CASE c \notin Range(q)
      <4>1. p = Append(q, c)
        BY <2>1, <3>2
      <4> QED BY <2>2, <3>2, <4>1, SuiteAdded
    <3> QED BY <3>1, <3>2
  <2> QED BY <2>3 DEF c
<1>6. Now(key) = In(key) \cup {r.cipher}
  OBVIOUS
<1>7. \A ref : ref # key => Now(ref) = In(ref)
  OBVIOUS
<1>8. \A ref : ref # key => SuitesOf(u, ref) = SuitesOf(v, ref)
  BY <1>1 DEF SuitesOf
<1> SUFFICES ASSUME NEW ref
             PROVE  Range(SuitesOf(u, ref)) = Now(ref) /\ IsInjective(SuitesOf(u, ref))
  BY DEF Listed
<1> HIDE DEF In, Now, key
<1>9. CASE ref = key
  BY <1>2, <1>4, <1>5, <1>6, <1>9
<1>10. CASE ref # key
  BY <1>2, <1>7, <1>8, <1>10
<1> QED BY <1>9, <1>10

LEMMA LinkedOneMore ==
  ASSUME NEW deps, NEW R, Linked(deps, R), NEW r, NEW new,
         new = [ref \in DOMAIN deps \cup {ProtocolRef(r)} |->
                  (IF ref \in DOMAIN deps THEN deps[ref] ELSE {})
                    \cup (IF ref = ProtocolRef(r) THEN DependsOn(r) ELSE {})]
  PROVE  Linked(new, R \cup {r})
<1> DEFINE key == ProtocolRef(r)
           Q == R \cup {r}
           In(ref) == UNION {DependsOn(x) : x \in {x \in R : ProtocolRef(x) = ref}}
           Now(ref) == UNION {DependsOn(x) : x \in {x \in Q : ProtocolRef(x) = ref}}
<1>1. DOMAIN deps = {ProtocolRef(x) : x \in R} /\ \A ref \in DOMAIN deps : deps[ref] = In(ref)
  BY DEF Linked
<1>2. DOMAIN new = DOMAIN deps \cup {key}
  OBVIOUS
<1>3. DOMAIN new = {ProtocolRef(x) : x \in Q}
  BY <1>1, <1>2
<1>4. ASSUME NEW ref \in DOMAIN new PROVE new[ref] = Now(ref)
  <2>1. ref \notin DOMAIN deps => In(ref) = {}
    BY <1>1
  <2>2. (IF ref \in DOMAIN deps THEN deps[ref] ELSE {}) = In(ref)
    BY <1>1, <2>1
  <2>3. new[ref] = In(ref) \cup (IF ref = key THEN DependsOn(r) ELSE {})
    <3> HIDE DEF In
    <3> QED BY <1>2, <2>2
  <2>4. Now(ref) = In(ref) \cup (IF ref = key THEN DependsOn(r) ELSE {})
    <3>1. CASE ref = key
      <4>1. {x \in Q : ProtocolRef(x) = ref} = {x \in R : ProtocolRef(x) = ref} \cup {r}
        BY <3>1
      <4> QED BY <3>1, <4>1
    <3>2. CASE ref # key
      <4>1. {x \in Q : ProtocolRef(x) = ref} = {x \in R : ProtocolRef(x) = ref}
        BY <3>2
      <4> QED BY <3>2, <4>1
    <3> QED BY <3>1, <3>2
  <2> HIDE DEF In, Now
  <2> QED BY <2>3, <2>4
<1> HIDE DEF Q, Now
<1>5. Linked(new, Q)
  BY <1>3, <1>4 DEF Linked, Now
<1> QED BY <1>5 DEF Q


\* AddRecord.
Says(bom, it, wh, U, R) ==
  bom \in Boms /\ Covers(bom.assets, it, wh, U) /\ Listed(bom.assets, R) /\ Linked(bom.deps, R)

LEMMA AddRecordIs ==
  ASSUME NEW bom, bom \in Boms, NEW r \in Recorded, r.observed, NEW v, NEW new,
         v = AddAssets(bom.assets, Assets(r), Where(r)), new = AddRecord(bom, r)
  PROVE  /\ new.assets = AddCipherSuite(v, r)
         /\ new.deps = [ref \in DOMAIN bom.deps \cup {ProtocolRef(r)} |->
                          (IF ref \in DOMAIN bom.deps THEN bom.deps[ref] ELSE {})
                            \cup (IF ref = ProtocolRef(r) THEN DependsOn(r) ELSE {})]
         /\ v \in Books /\ new \in Boms
<1> DEFINE D == DOMAIN bom.deps \cup {ProtocolRef(r)}
           e == [ref \in D |-> (IF ref \in DOMAIN bom.deps THEN bom.deps[ref] ELSE {})
                                 \cup (IF ref = ProtocolRef(r) THEN DependsOn(r) ELSE {})]
           b == AddCipherSuite(v, r)
<1>1. new = [assets |-> b, deps |-> e]
  BY DEF AddRecord
<1>2. bom.assets \in Books /\ bom.deps \in Dependencies
  BY DEF Boms
<1>3. Assets(r) \in Seq(AllItems) /\ Where(r) \in AllPlaces
      /\ ProtocolRef(r) \in AllRefs /\ DependsOn(r) \subseteq AllRefs
  BY AssetsOfAre
<1>4. v \in Books
  BY <1>2, <1>3, AddAssetsCovers
<1>5. b \in Books
  BY <1>4, AddCipherSuiteIs
<1>6. e \in Dependencies
  <2>1. PICK C \in SUBSET AllRefs : bom.deps \in [C -> SUBSET AllRefs]
    BY <1>2 DEF Dependencies
  <2>2. D \subseteq AllRefs
    BY <1>3, <2>1
  <2>3. \A ref \in D : e[ref] \subseteq AllRefs
    BY <1>3, <2>1
  <2>4. e = [ref \in D |-> e[ref]]
    OBVIOUS
  <2> HIDE DEF e, D
  <2>5. e \in [D -> SUBSET AllRefs]
    BY <2>3, <2>4
  <2> QED BY <2>2, <2>5 DEF Dependencies
<1> HIDE DEF b, e
<1>7. new.assets = b /\ new.deps = e /\ new \in Boms
  BY <1>1, <1>5, <1>6 DEF Boms
<1> QED BY <1>4, <1>7 DEF b, e

LEMMA AddRecordSays ==
  ASSUME NEW bom, NEW it, NEW wh, NEW U, NEW R, Says(bom, it, wh, U, R),
         NEW r \in Recorded, r.observed, NEW i,
         \A j \in DOMAIN Assets(r) :
            <<i, j>> \notin U /\ it[<<i, j>>] = Assets(r)[j] /\ wh[<<i, j>>] = Where(r),
         NEW new, new = AddRecord(bom, r)
  PROVE  Says(new, it, wh, U \cup ({i} \X DOMAIN Assets(r)), R \cup {r})
<1> DEFINE list == Assets(r)
           w == Where(r)
           t == bom.assets
           v == AddAssets(t, list, w)
           u == new.assets
           W == U \cup ({i} \X DOMAIN list)
<1>1. bom \in Boms /\ Covers(t, it, wh, U) /\ Listed(t, R) /\ Linked(bom.deps, R)
  BY DEF Says
<1>2. list \in Seq(AllItems) /\ w \in AllPlaces /\ \E j \in DOMAIN list : list[j].ref = ProtocolRef(r)
  BY AssetsOfAre
<1>3. t \in Books
  BY <1>1 DEF Boms
<1>4. v \in Books /\ SameSuites(t, v) /\ Covers(v, it, wh, W)
  <2>1. \A j \in DOMAIN list : <<i, j>> \notin U /\ it[<<i, j>>] = list[j] /\ wh[<<i, j>>] = w
    OBVIOUS
  <2> HIDE DEF list, w, t, W
  <2>2. /\ v \in Books /\ SameSuites(t, v)
        /\ \A jt, vh, V, k :
              Covers(t, jt, vh, V) /\ (\A j \in DOMAIN list : /\ <<k, j>> \notin V
                                                              /\ jt[<<k, j>>] = list[j] /\ vh[<<k, j>>] = w)
                => Covers(v, jt, vh, V \cup ({k} \X DOMAIN list))
    BY <1>2, <1>3, AddAssetsCovers
  <2>3. Covers(v, it, wh, U \cup ({i} \X DOMAIN list))
    BY <1>1, <2>1, <2>2
  <2> QED BY <2>2, <2>3 DEF W
<1>5. /\ u = AddCipherSuite(v, r) /\ new \in Boms
      /\ new.deps = [ref \in DOMAIN bom.deps \cup {ProtocolRef(r)} |->
                       (IF ref \in DOMAIN bom.deps THEN bom.deps[ref] ELSE {})
                         \cup (IF ref = ProtocolRef(r) THEN DependsOn(r) ELSE {})]
  BY <1>1, AddRecordIs
<1>6. Linked(new.deps, R \cup {r})
  BY <1>1, <1>5, LinkedOneMore
<1>7. ProtocolRef(r) \in DOMAIN v
  <2>1. PICK j \in DOMAIN list : list[j].ref = ProtocolRef(r)
    BY <1>2
  <2>2. <<i, j>> \in W /\ it[<<i, j>>] = list[j]
    OBVIOUS
  <2> HIDE DEF W, list
  <2> QED BY <1>4, <2>1, <2>2 DEF Covers
<1> HIDE DEF v, t, u, W
<1>8. Listed(u, R \cup {r})
  BY <1>1, <1>3, <1>4, <1>5, <1>7, ListedOneMore
<1>9. Covers(u, it, wh, W)
  <2>1. /\ u \in Books /\ DOMAIN u = DOMAIN v
        /\ \A ref \in DOMAIN v : u[ref].comp = v[ref].comp /\ u[ref].seen = v[ref].seen
                                 /\ u[ref].count = v[ref].count
    BY <1>4, <1>5, AddCipherSuiteIs
  <2>2. /\ IsFiniteSet(W) /\ DOMAIN v = {it[x].ref : x \in W}
        /\ \A ref \in DOMAIN v : Tells(v[ref], it, wh, UsedAs(it, W, ref))
    BY <1>4 DEF Covers
  <2>3. ASSUME NEW ref \in DOMAIN u PROVE Tells(u[ref], it, wh, UsedAs(it, W, ref))
    <3>1. Tells(v[ref], it, wh, UsedAs(it, W, ref))
      BY <2>1, <2>2
    <3> QED BY <2>1, <3>1 DEF Tells
  <2> QED BY <2>1, <2>2, <2>3 DEF Covers
<1> QED BY <1>5, <1>6, <1>8, <1>9 DEF Says, W, u


(***************************************************************************)
(* What BuildCBOM says of the records.                                     *)
(***************************************************************************)
Seen(s, n) == {i \in 1..n : s[i].observed}
UsesUpTo(s, n) == UNION {{i} \X DOMAIN Assets(s[i]) : i \in Seen(s, n)}
AnsweredUpTo(s, n) == {s[i] : i \in Seen(s, n)}
ItemsIn(s) == [u \in UsesUpTo(s, Len(s)) |-> Assets(s[u[1]])[u[2]]]
PlacesIn(s) == [u \in UsesUpTo(s, Len(s)) |-> Where(s[u[1]])]

LEMMA EmptyBom ==
  ASSUME NEW bom, bom = [assets |-> <<>>, deps |-> <<>>], NEW it, NEW wh
  PROVE  Says(bom, it, wh, {}, {})
<1> DEFINE e == <<>>
<1>1. bom.assets = e /\ bom.deps = e
  OBVIOUS
<1>2. e = [x \in {} |-> e[x]]
  OBVIOUS
<1>3. DOMAIN e = {}
  OBVIOUS
<1>4. e \in Books
  <2> HIDE DEF e
  <2>1. e \in [{} -> AssetRecord]
    BY <1>2, <1>3
  <2>2. {} \in SUBSET AllRefs
    OBVIOUS
  <2> QED BY <2>1, <2>2 DEF Books
<1>5. e \in Dependencies
  <2> HIDE DEF e
  <2>1. e \in [{} -> SUBSET AllRefs]
    BY <1>2, <1>3
  <2>2. {} \in SUBSET AllRefs
    OBVIOUS
  <2> QED BY <2>1, <2>2 DEF Dependencies
<1>6. bom \in Boms
  BY <1>1, <1>4, <1>5 DEF Boms
<1>7. Covers(e, it, wh, {})
  BY <1>3, <1>4, FS_EmptySet DEF Covers
<1>8. Listed(e, {})
  <2>1. \A ref : SuitesOf(e, ref) = <<>>
    BY <1>3 DEF SuitesOf
  <2>2. Range(<<>>) = {} /\ IsInjective(<<>>)
    BY DEF Range, IsInjective
  <2>3. \A ref : {r.cipher : r \in {x \in {} : ProtocolRef(x) = ref}} = {}
    OBVIOUS
  <2> QED BY <2>1, <2>2, <2>3 DEF Listed
<1>9. Linked(e, {})
  BY <1>3 DEF Linked
<1> QED BY <1>1, <1>6, <1>7, <1>8, <1>9 DEF Says

\* One more record.
LEMMA SeenOneMore ==
  ASSUME NEW s, s \in Seq(Recorded), NEW n \in 0..(Len(s) - 1)
  PROVE  /\ n + 1 \in 1..Len(s) /\ s[n + 1] \in Recorded
         /\ s[n + 1].observed =>
              /\ n + 1 \in Seen(s, Len(s))
              /\ UsesUpTo(s, n + 1) = UsesUpTo(s, n) \cup ({n + 1} \X DOMAIN Assets(s[n + 1]))
              /\ AnsweredUpTo(s, n + 1) = AnsweredUpTo(s, n) \cup {s[n + 1]}
              /\ \A j : <<n + 1, j>> \notin UsesUpTo(s, n)
         /\ ~s[n + 1].observed => /\ UsesUpTo(s, n + 1) = UsesUpTo(s, n)
                                  /\ AnsweredUpTo(s, n + 1) = AnsweredUpTo(s, n)
<1> DEFINE k == n + 1
<1>1. n \in Nat /\ k \in 1..Len(s) /\ Len(s) \in Nat /\ DOMAIN s = 1..Len(s)
  OBVIOUS
<1>2. 1..k = (1..n) \cup {k} /\ k \notin 1..n
  BY <1>1
<1> HIDE DEF k
<1>3. s[k] \in Recorded
  BY <1>1
<1>4. CASE s[k].observed
  <2>1. Seen(s, k) = Seen(s, n) \cup {k} /\ k \notin Seen(s, n) /\ k \in Seen(s, Len(s))
    BY <1>1, <1>2, <1>4 DEF Seen
  <2>2. AnsweredUpTo(s, k) = AnsweredUpTo(s, n) \cup {s[k]}
    BY <2>1 DEF AnsweredUpTo
  <2>3. UsesUpTo(s, k) = UsesUpTo(s, n) \cup ({k} \X DOMAIN Assets(s[k]))
    BY <2>1 DEF UsesUpTo
  <2>4. \A j : <<k, j>> \notin UsesUpTo(s, n)
    BY <2>1 DEF UsesUpTo
  <2> QED BY <1>1, <1>3, <1>4, <2>1, <2>2, <2>3, <2>4 DEF k
<1>5. CASE ~s[k].observed
  <2>1. Seen(s, k) = Seen(s, n)
    BY <1>2, <1>5 DEF Seen
  <2> QED BY <1>1, <1>3, <1>5, <2>1 DEF UsesUpTo, AnsweredUpTo, k
<1> QED BY <1>4, <1>5

LEMMA BuildSays ==
  ASSUME NEW s, s \in Seq(Recorded), NEW it, it = ItemsIn(s), NEW wh, wh = PlacesIn(s)
  PROVE  Says(BuildCBOM(s), it, wh, UsesUpTo(s, Len(s)), AnsweredUpTo(s, Len(s)))
<1> DEFINE L == Len(s)
           b == [assets |-> <<>>, deps |-> <<>>]
           Step(v, n) == AddRecord(v, s[n])
           F == [n \in 1..L |-> [v \in Boms |-> Step(v, n)]]
           built == CHOOSE g : g = [n \in 0..L |-> IF n = 0 THEN b ELSE Step(g[n - 1], n)]
<1>1. BuildCBOM(s) = built[L]
  BY DEF BuildCBOM
<1>2. L \in Nat /\ DOMAIN s = 1..L /\ \A n \in 1..L : s[n] \in Recorded
  OBVIOUS
<1>3. \A n \in 1..L : \A v \in Boms : Step(v, n) \in Boms
  <2> SUFFICES ASSUME NEW n \in 1..L, NEW v \in Boms PROVE Step(v, n) \in Boms
    OBVIOUS
  <2>1. s[n] \in Recorded
    BY <1>2
  <2>2. CASE s[n].observed
    BY <2>1, <2>2, AddRecordIs
  <2>3. CASE ~s[n].observed
    BY <2>3 DEF AddRecord
  <2> QED BY <2>2, <2>3
<1>4. Says(b, it, wh, {}, {})
  BY EmptyBom
<1>5. b \in Boms
  BY <1>4 DEF Says
<1> HIDE DEF L, Step, b
<1>6. StaysIn(F, Boms, L)
  BY <1>3 DEF StaysIn
<1>7. PICK g : Solves(g, b, F, Boms, L)
  <2> HIDE DEF F
  <2> QED BY <1>2, <1>5, <1>6, RecursionUpTo
<1>8. g \in [0..L -> Boms] /\ g[0] = b /\ \A n \in 1..L : g[n] = F[n][g[n - 1]]
  BY <1>7 DEF Solves
<1>9. g = [n \in 0..L |-> IF n = 0 THEN b ELSE Step(g[n - 1], n)]
  <2>1. \A n \in 0..L : n # 0 => n \in 1..L /\ n - 1 \in 0..L
    BY <1>2
  <2>2. \A n \in 0..L : n # 0 => g[n] = Step(g[n - 1], n)
    BY <1>8, <2>1
  <2> HIDE DEF F
  <2> QED BY <1>8, <2>2
<1>10. built = [n \in 0..L |-> IF n = 0 THEN b ELSE Step(built[n - 1], n)]
  BY <1>9
<1> HIDE DEF built
<1>11. built[0] = b /\ \A n \in 0..(L - 1) : n + 1 \in 1..L /\ built[n + 1] = Step(built[n], n + 1)
  <2>1. \A n \in 0..(L - 1) : n + 1 \in 0..L /\ n + 1 # 0 /\ (n + 1) - 1 = n /\ n + 1 \in 1..L
    BY <1>2
  <2> QED BY <1>2, <1>10, <2>1
<1> DEFINE P(n) == Says(built[n], it, wh, UsesUpTo(s, n), AnsweredUpTo(s, n))
           N == {n \in 0..L : P(n)}
<1>12. P(0)
  <2>1. Seen(s, 0) = {}
    BY DEF Seen
  <2>2. UsesUpTo(s, 0) = {} /\ AnsweredUpTo(s, 0) = {}
    BY <2>1 DEF UsesUpTo, AnsweredUpTo
  <2> QED BY <1>4, <1>11, <2>2
<1>13. ASSUME NEW n \in 0..(L - 1), P(n) PROVE P(n + 1)
  <2> DEFINE k == n + 1
             r == s[k]
             U == UsesUpTo(s, n)
  <2>1. /\ k \in 1..L /\ r \in Recorded
        /\ r.observed =>
             /\ k \in Seen(s, L)
             /\ UsesUpTo(s, k) = U \cup ({k} \X DOMAIN Assets(r))
             /\ AnsweredUpTo(s, k) = AnsweredUpTo(s, n) \cup {r}
             /\ \A j : <<k, j>> \notin U
        /\ ~r.observed => UsesUpTo(s, k) = U /\ AnsweredUpTo(s, k) = AnsweredUpTo(s, n)
    BY SeenOneMore DEF L
  <2>2. built[k] = AddRecord(built[n], r)
    BY <1>11 DEF Step
  <2> HIDE DEF k
  <2>3. CASE r.observed
    <3>1. ASSUME NEW j \in DOMAIN Assets(r)
          PROVE  <<k, j>> \notin U /\ it[<<k, j>>] = Assets(r)[j] /\ wh[<<k, j>>] = Where(r)
      <4> DEFINE u == <<k, j>>
      <4>1. u \in UsesUpTo(s, L)
        BY <2>1, <2>3 DEF UsesUpTo
      <4>2. u[1] = k /\ u[2] = j
        OBVIOUS
      <4> HIDE DEF u
      <4>3. it[u] = Assets(s[u[1]])[u[2]] /\ wh[u] = Where(s[u[1]])
        BY <4>1 DEF ItemsIn, PlacesIn, L
      <4> QED BY <2>1, <2>3, <4>2, <4>3 DEF u
    <3> HIDE DEF U, r
    <3>2. Says(built[k], it, wh, U \cup ({k} \X DOMAIN Assets(r)), AnsweredUpTo(s, n) \cup {r})
      BY <1>13, <2>1, <2>2, <2>3, <3>1, AddRecordSays DEF U
    <3> QED BY <2>1, <2>3, <3>2 DEF k
  <2>4. CASE ~r.observed
    <3>1. built[k] = built[n]
      BY <2>2, <2>4 DEF AddRecord
    <3> QED BY <1>13, <2>1, <2>4, <3>1 DEF k
  <2> QED BY <2>3, <2>4
<1>14. P(L)
  <2> HIDE DEF P
  <2>1. 0 \in N /\ \A n \in 0..(L - 1) : n \in N => n + 1 \in N
    <3>1. \A n \in 0..(L - 1) : n + 1 \in 0..L
      BY <1>2
    <3> QED BY <1>2, <1>12, <1>13, <3>1
  <2>2. 0..L \subseteq N
    <3> HIDE DEF N
    <3> QED BY <1>2, <2>1, InductionUpTo
  <2>3. L \in 0..L
    BY <1>2
  <2> QED BY <2>2, <2>3
<1> QED BY <1>1, <1>14 DEF L


\* The uses in the records, whichever order the records have.
Negotiated(l) == {r \in Range(l) : r.observed}

LEMMA ReorderedSays ==
  ASSUME NEW q, NEW l, NEW s, Reorders(q, l, s), NEW bom,
         Says(bom, ItemsIn(s), PlacesIn(s), UsesUpTo(s, Len(s)), AnsweredUpTo(s, Len(s)))
  PROVE  Says(bom, ItemsIn(l), PlacesIn(l), UsesUpTo(l, Len(l)), Negotiated(l))
<1> DEFINE D == DOMAIN l
           U == UsesUpTo(s, Len(s))
           W == UsesUpTo(l, Len(l))
           h == [u \in U |-> <<q[u[1]], u[2]>>]
<1>1. /\ DOMAIN s = D /\ q \in [D -> D]
      /\ \A i, j \in D : q[i] = q[j] => i = j
      /\ \A x \in D : \E i \in D : q[i] = x
      /\ \A i \in D : s[i] = l[q[i]]
  BY DEF Reorders
<1>2. 1..Len(s) = D /\ 1..Len(l) = D
  <2>1. s \in Seq(Recorded) /\ l \in Seq(Recorded)
    BY DEF Reorders
  <2>2. DOMAIN s = 1..Len(s) /\ DOMAIN l = 1..Len(l)
    BY <2>1
  <2> QED BY <1>1, <2>2
<1>3. /\ U = UNION {{i} \X DOMAIN Assets(s[i]) : i \in {i \in D : s[i].observed}}
      /\ W = UNION {{i} \X DOMAIN Assets(l[i]) : i \in {i \in D : l[i].observed}}
  BY <1>2 DEF UsesUpTo, Seen
<1>4. /\ \A u : u \in U <=> \E i, j : i \in D /\ u = <<i, j>> /\ s[i].observed /\ j \in DOMAIN Assets(s[i])
      /\ \A u : u \in W <=> \E i, j : i \in D /\ u = <<i, j>> /\ l[i].observed /\ j \in DOMAIN Assets(l[i])
  <2> HIDE DEF U, W
  <2> QED BY <1>3
<1>5. /\ \A u \in U : ItemsIn(s)[u] = Assets(s[u[1]])[u[2]] /\ PlacesIn(s)[u] = Where(s[u[1]])
      /\ \A u \in W : ItemsIn(l)[u] = Assets(l[u[1]])[u[2]] /\ PlacesIn(l)[u] = Where(l[u[1]])
  <2>1. \A u \in U : ItemsIn(s)[u] = Assets(s[u[1]])[u[2]] /\ PlacesIn(s)[u] = Where(s[u[1]])
    <3> HIDE DEF U
    <3> QED BY DEF ItemsIn, PlacesIn, U
  <2>2. \A u \in W : ItemsIn(l)[u] = Assets(l[u[1]])[u[2]] /\ PlacesIn(l)[u] = Where(l[u[1]])
    <3> HIDE DEF W
    <3> QED BY DEF ItemsIn, PlacesIn, W
  <2> QED BY <2>1, <2>2
<1>6. \A u \in U : h[u] = <<q[u[1]], u[2]>>
  OBVIOUS
<1> HIDE DEF U, W, h, D
<1>7. ASSUME NEW u \in U
      PROVE  h[u] \in W /\ ItemsIn(l)[h[u]] = ItemsIn(s)[u] /\ PlacesIn(l)[h[u]] = PlacesIn(s)[u]
  <2>1. PICK i, j : i \in D /\ u = <<i, j>> /\ s[i].observed /\ j \in DOMAIN Assets(s[i])
    BY <1>4
  <2> DEFINE k == q[i]
             w == <<k, j>>
  <2>2. h[u] = w /\ k \in D /\ s[i] = l[k]
    BY <1>1, <1>6, <2>1
  <2>3. w \in W
    BY <1>4, <2>1, <2>2
  <2>4. w[1] = k /\ w[2] = j /\ u[1] = i /\ u[2] = j
    BY <2>1
  <2> HIDE DEF k, w
  <2> QED BY <1>5, <2>2, <2>3, <2>4
<1>8. ASSUME NEW u \in U, NEW w \in U, h[u] = h[w] PROVE u = w
  <2>1. PICK i, j : i \in D /\ u = <<i, j>>
    BY <1>4
  <2>2. PICK k, m : k \in D /\ w = <<k, m>>
    BY <1>4
  <2>3. h[u] = <<q[i], j>> /\ h[w] = <<q[k], m>>
    BY <1>6, <2>1, <2>2
  <2>4. q[i] = q[k] /\ j = m
    <3>1. <<q[i], j>> = <<q[k], m>>
      BY <1>8, <2>3
    <3> DEFINE a == q[i]
               b == q[k]
    <3>2. <<a, j>> = <<b, m>>
      BY <3>1
    <3> HIDE DEF a, b
    <3>3. a = b /\ j = m
      BY <3>2
    <3> QED BY <3>3 DEF a, b
  <2> QED BY <1>1, <2>1, <2>2, <2>4
<1>9. ASSUME NEW w \in W PROVE \E u \in U : h[u] = w
  <2>1. PICK k, j : k \in D /\ w = <<k, j>> /\ l[k].observed /\ j \in DOMAIN Assets(l[k])
    BY <1>4
  <2>2. PICK i \in D : q[i] = k
    BY <1>1, <2>1
  <2>3. <<i, j>> \in U
    BY <1>1, <1>4, <2>1, <2>2
  <2>4. h[<<i, j>>] = w
    BY <1>6, <2>1, <2>2, <2>3
  <2> QED BY <2>3, <2>4
<1>10. Covers(bom.assets, ItemsIn(s), PlacesIn(s), U)
  BY DEF Says, U
<1>11. Covers(bom.assets, ItemsIn(l), PlacesIn(l), W)
  BY <1>7, <1>8, <1>9, <1>10, RenamedCovers
<1>12. AnsweredUpTo(s, Len(s)) = Negotiated(l)
  <2>1. AnsweredUpTo(s, Len(s)) = {s[i] : i \in {i \in D : s[i].observed}}
    BY <1>2 DEF AnsweredUpTo, Seen
  <2>2. Negotiated(l) = {l[i] : i \in {i \in D : l[i].observed}}
    BY DEF Negotiated, Range, D
  <2> QED BY <1>1, <2>1, <2>2
<1> QED BY <1>11, <1>12 DEF Says, W

LEMMA PublishedSays ==
  ASSUME ReportOK, Published, NEW l, l = Records
  PROVE  /\ l \in Seq(Recorded) /\ Range(l) \subseteq Range(log)
         /\ Says(report.bom, ItemsIn(l), PlacesIn(l), UsesUpTo(l, Len(l)), Negotiated(l))
<1>1. log \in Seq(Recorded)
  BY DEF ReportOK, Publishable, TalliesOK, AccountsOK
<1>2. l \in Seq(Recorded) /\ Range(l) \subseteq Range(log)
  <2>1. CASE keep
    BY <1>1, <2>1 DEF Records
  <2>2. CASE ~keep
    <3>1. l = <<>>
      BY <2>2 DEF Records
    <3> QED BY <3>1 DEF Range
  <2> QED BY <2>1, <2>2
<1>3. PICK rows \in Aggregates(acc) : report = ReportOf(acc, Records, rows)
  BY DEF ReportOK
<1> DEFINE s == SortRecords(l)
<1>4. report.bom = BuildCBOM(s)
  BY <1>3 DEF ReportOf
<1> HIDE DEF s
<1>5. PICK q : Reorders(q, l, s)
  BY <1>2, SortIs DEF s
<1>6. s \in Seq(Recorded)
  BY <1>5 DEF Reorders
<1>7. Says(report.bom, ItemsIn(s), PlacesIn(s), UsesUpTo(s, Len(s)), AnsweredUpTo(s, Len(s)))
  BY <1>4, <1>6, BuildSays
<1>8. Says(report.bom, ItemsIn(l), PlacesIn(l), UsesUpTo(l, Len(l)), Negotiated(l))
  BY <1>5, <1>7, ReorderedSays
<1> QED BY <1>2, <1>8


(***************************************************************************)
(* The CBOM of the records.                                                *)
(***************************************************************************)

\* The uses in the records, one by one.
LEMMA UsesAre ==
  ASSUME NEW l, l = Records, l \in Seq(Recorded), NEW U, U = UsesUpTo(l, Len(l))
  PROVE  /\ \A ref : UsedAs(ItemsIn(l), U, ref) = Uses(ref)
         /\ \A u \in U : /\ ItemsIn(l)[u] = Assets(l[u[1]])[u[2]] /\ PlacesIn(l)[u] = Where(l[u[1]])
                         /\ l[u[1]] \in Negotiated(l) /\ u[2] \in DOMAIN Assets(l[u[1]])
         /\ \A r \in Negotiated(l) : \A j \in DOMAIN Assets(r) :
              \E u \in U : l[u[1]] = r /\ ItemsIn(l)[u] = Assets(r)[j]
<1>1. DOMAIN l = 1..Len(l) /\ Seen(l, Len(l)) = {i \in DOMAIN l : l[i].observed}
  BY DEF Seen
<1>2. \A u : u \in U <=> \E i, j :
                           i \in DOMAIN l /\ u = <<i, j>> /\ l[i].observed /\ j \in DOMAIN Assets(l[i])
  BY <1>1 DEF UsesUpTo
<1>3. \A u \in U : ItemsIn(l)[u] = Assets(l[u[1]])[u[2]] /\ PlacesIn(l)[u] = Where(l[u[1]])
  BY DEF ItemsIn, PlacesIn
<1>4. ASSUME NEW u \in U
      PROVE  /\ u[1] \in DOMAIN l /\ l[u[1]].observed /\ u[2] \in DOMAIN Assets(l[u[1]])
             /\ l[u[1]] \in Negotiated(l) /\ u = <<u[1], u[2]>>
  <2>1. PICK i, j : i \in DOMAIN l /\ u = <<i, j>> /\ l[i].observed /\ j \in DOMAIN Assets(l[i])
    BY <1>2
  <2>2. u[1] = i /\ u[2] = j
    BY <2>1
  <2>3. l[i] \in Negotiated(l)
    BY <2>1 DEF Negotiated, Range
  <2> QED BY <2>1, <2>2, <2>3
<1>5. ASSUME NEW ref PROVE UsedAs(ItemsIn(l), U, ref) = Uses(ref)
  <2>1. \A u : u \in Uses(ref) <=> \E i, j :
                  /\ i \in DOMAIN l /\ u = <<i, j>> /\ l[i].observed /\ j \in DOMAIN Assets(l[i])
                  /\ Assets(l[i])[j].ref = ref
    BY DEF Uses
  <2>2. ASSUME NEW u \in UsedAs(ItemsIn(l), U, ref) PROVE u \in Uses(ref)
    <3>1. u \in U /\ Assets(l[u[1]])[u[2]].ref = ref
      BY <1>3 DEF UsedAs
    <3> QED BY <1>4, <2>1, <3>1
  <2>3. ASSUME NEW u \in Uses(ref) PROVE u \in UsedAs(ItemsIn(l), U, ref)
    <3>1. PICK i, j : /\ i \in DOMAIN l /\ u = <<i, j>> /\ l[i].observed
                     /\ j \in DOMAIN Assets(l[i]) /\ Assets(l[i])[j].ref = ref
      BY <2>1
    <3>2. u \in U /\ u[1] = i /\ u[2] = j
      BY <1>2, <3>1
    <3> QED BY <1>3, <3>1, <3>2 DEF UsedAs
  <2> QED BY <2>2, <2>3
<1>6. ASSUME NEW r \in Negotiated(l), NEW j \in DOMAIN Assets(r)
      PROVE  \E u \in U : l[u[1]] = r /\ ItemsIn(l)[u] = Assets(r)[j]
  <2>1. PICK i \in DOMAIN l : l[i] = r /\ r.observed
    BY DEF Negotiated, Range
  <2> DEFINE u == <<i, j>>
  <2>2. u \in U /\ u[1] = i /\ u[2] = j
    BY <1>2, <2>1
  <2> HIDE DEF u
  <2> QED BY <1>3, <2>1, <2>2
<1> QED BY <1>3, <1>4, <1>5, <1>6

LEMMA BomIsComplete == ReportOK => BomComplete
<1> SUFFICES ASSUME ReportOK, Published PROVE BomComplete
  BY DEF BomComplete
<1> DEFINE l == Records
           U == UsesUpTo(l, Len(l))
           it == ItemsIn(l)
           wh == PlacesIn(l)
           t == report.bom.assets
           R == Negotiated(l)
<1>1. l \in Seq(Recorded) /\ Says(report.bom, it, wh, U, R)
  BY PublishedSays
<1>2. /\ \A ref : UsedAs(it, U, ref) = Uses(ref)
      /\ \A u \in U : /\ it[u] = Assets(l[u[1]])[u[2]] /\ wh[u] = Where(l[u[1]])
                      /\ l[u[1]] \in R /\ u[2] \in DOMAIN Assets(l[u[1]])
      /\ \A r \in R : \A j \in DOMAIN Assets(r) : \E u \in U : l[u[1]] = r /\ it[u] = Assets(r)[j]
  BY <1>1, UsesAre
<1>3. R = {r \in Range(Records) : r.observed}
  BY DEF Negotiated
<1> HIDE DEF U, it, wh, t, R
<1>4. /\ t \in Books /\ DOMAIN t = {it[u].ref : u \in U}
      /\ \A ref \in DOMAIN t : Tells(t[ref], it, wh, UsedAs(it, U, ref))
      /\ Listed(t, R)
  BY <1>1 DEF Says, Covers, t
<1>5. DOMAIN t = UNION {{Assets(r)[j].ref : j \in DOMAIN Assets(r)} : r \in R}
  <2>1. ASSUME NEW ref \in DOMAIN t PROVE \E r \in R : \E j \in DOMAIN Assets(r) : ref = Assets(r)[j].ref
    <3>1. PICK u \in U : ref = it[u].ref
      BY <1>4
    <3> QED BY <1>2, <3>1
  <2>2. ASSUME NEW r \in R, NEW j \in DOMAIN Assets(r) PROVE Assets(r)[j].ref \in DOMAIN t
    BY <1>2, <1>4
  <2> QED BY <2>1, <2>2
<1>6. ASSUME NEW ref \in DOMAIN t
      PROVE  /\ t[ref].count = Cardinality(Uses(ref))
             /\ t[ref].seen = {Where(Records[u[1]]) : u \in Uses(ref)}
             /\ \E u \in Uses(ref) : t[ref].comp = Assets(Records[u[1]])[u[2]].comp
             /\ Range(t[ref].suites) = {r.cipher : r \in {x \in R : ProtocolRef(x) = ref}}
             /\ IsInjective(t[ref].suites)
  <2> DEFINE V == Uses(ref)
  <2>1. Tells(t[ref], it, wh, V)
    BY <1>2, <1>4
  <2>2. \A u \in V : it[u] = Assets(Records[u[1]])[u[2]] /\ wh[u] = Where(Records[u[1]])
    BY <1>2 DEF UsedAs
  <2> HIDE DEF V
  <2>3. t[ref].count = Cardinality(V) /\ t[ref].seen = {Where(Records[u[1]]) : u \in V}
    BY <2>1, <2>2 DEF Tells
  <2>4. \E u \in V : t[ref].comp = Assets(Records[u[1]])[u[2]].comp
    BY <2>1, <2>2 DEF Tells
  <2>5. SuitesOf(t, ref) = t[ref].suites
    BY DEF SuitesOf
  <2>6. Range(t[ref].suites) = {r.cipher : r \in {x \in R : ProtocolRef(x) = ref}}
        /\ IsInjective(t[ref].suites)
    BY <1>4, <2>5 DEF Listed
  <2> QED BY <2>3, <2>4, <2>6 DEF V
<1> QED BY <1>3, <1>5, <1>6 DEF BomComplete, t

LEMMA NoDecoyListed == ReportOK => DecoyNotListed
<1> SUFFICES ASSUME ReportOK, Published,
                    NEW ref \in DOMAIN report.bom.assets, NEW place \in report.bom.assets[ref].seen,
                    place[1] = "name"
             PROVE  \E i \in DOMAIN log : log[i].name = place[2] /\ ~log[i].ech
  BY DEF DecoyNotListed
<1> DEFINE l == Records
           U == UsesUpTo(l, Len(l))
           it == ItemsIn(l)
           wh == PlacesIn(l)
<1>1. l \in Seq(Recorded) /\ Range(l) \subseteq Range(log)
      /\ Says(report.bom, it, wh, U, Negotiated(l))
  BY PublishedSays
<1>2. \A u \in U : wh[u] = Where(l[u[1]]) /\ l[u[1]] \in Negotiated(l)
  BY <1>1, UsesAre
<1> HIDE DEF U, it, wh, l
<1>3. PICK u \in U : place = wh[u]
  <2>1. Tells(report.bom.assets[ref], it, wh, UsedAs(it, U, ref))
    BY <1>1 DEF Says, Covers
  <2> QED BY <2>1 DEF Tells, UsedAs
<1> DEFINE r == l[u[1]]
<1>4. place = Where(r) /\ r \in Range(log)
  BY <1>1, <1>2, <1>3 DEF Negotiated
<1> HIDE DEF r
<1>5. CASE r.name = 0 \/ r.ech
  <2>1. place = <<"address", r.server, r.port>>
    BY <1>4, <1>5 DEF Where
  <2>2. place[1] = "address"
    BY <2>1
  <2> QED BY <2>2
<1>6. CASE ~(r.name = 0 \/ r.ech)
  <2>1. place = <<"name", r.name>>
    BY <1>4, <1>6 DEF Where
  <2>2. place[2] = r.name
    BY <2>1
  <2>3. PICK i \in DOMAIN log : log[i] = r
    BY <1>4 DEF Range
  <2> QED BY <1>6, <2>2, <2>3
<1> QED BY <1>5, <1>6

LEMMA BomIsClosed == ReportOK => BomClosed
<1> SUFFICES ASSUME ReportOK, Published PROVE BomClosed
  BY DEF BomClosed
<1> DEFINE l == Records
           U == UsesUpTo(l, Len(l))
           it == ItemsIn(l)
           wh == PlacesIn(l)
           t == report.bom.assets
           deps == report.bom.deps
           R == Negotiated(l)
           P == {ref \in DOMAIN t : t[ref].comp.kind = "protocol"}
<1>1. l \in Seq(Recorded) /\ Says(report.bom, it, wh, U, R)
  BY PublishedSays
<1>2. /\ \A u \in U : /\ it[u] = Assets(l[u[1]])[u[2]]
                      /\ l[u[1]] \in R /\ u[2] \in DOMAIN Assets(l[u[1]])
      /\ \A r \in R : \A j \in DOMAIN Assets(r) : \E u \in U : l[u[1]] = r /\ it[u] = Assets(r)[j]
  BY <1>1, UsesAre
<1>3. \A r \in R : r \in Recorded
  BY <1>1 DEF Negotiated, Range
<1>4. /\ DOMAIN t = {it[u].ref : u \in U} /\ Linked(deps, R)
      /\ \A ref \in DOMAIN t : \E u \in U : it[u].ref = ref /\ t[ref].comp = it[u].comp
  <2>1. Covers(t, it, wh, U) /\ Linked(deps, R)
    BY <1>1 DEF Says
  <2> HIDE DEF t, it, wh, U
  <2>2. \A ref \in DOMAIN t : Tells(t[ref], it, wh, UsedAs(it, U, ref))
    BY <2>1 DEF Covers
  <2> QED BY <2>1, <2>2 DEF Covers, Tells, UsedAs
<1> HIDE DEF l, U, it, wh, t, deps, R
\* What a component is, its reference says.
<1>5. ASSUME NEW u \in U
      PROVE  \E r \in R : \E j \in DOMAIN Assets(r) :
               /\ it[u] = Assets(r)[j]
               /\ it[u].comp.kind = "protocol" <=> it[u].ref = ProtocolRef(r)
               /\ it[u].comp.kind = "protocol" <=> it[u].ref[1] = "protocol"
  <2> DEFINE r == l[u[1]]
             j == u[2]
             x == it[u]
  <2>1. r \in R /\ j \in DOMAIN Assets(r) /\ x = Assets(r)[j]
    BY <1>2
  <2> HIDE DEF r, j, x
  <2>2. x \in Items(r)
    BY <1>3, <2>1, AssetsOfAre
  <2>3. /\ x.comp.kind = "protocol" <=> x.ref = ProtocolRef(r)
        /\ x.comp.kind = "protocol" <=> x.ref[1] = "protocol"
    BY <2>2, ItemsAre
  <2> QED BY <2>1, <2>3 DEF x
<1>6. \A ref \in DOMAIN t : ref \in P <=> ref[1] = "protocol"
  <2> SUFFICES ASSUME NEW ref \in DOMAIN t PROVE ref \in P <=> ref[1] = "protocol"
    OBVIOUS
  <2>1. PICK u \in U : it[u].ref = ref /\ t[ref].comp = it[u].comp
    BY <1>4
  <2>2. it[u].comp.kind = "protocol" <=> it[u].ref[1] = "protocol"
    BY <1>5
  <2> QED BY <2>1, <2>2
<1>7. \A r \in R : ProtocolRef(r) \in P
  <2> SUFFICES ASSUME NEW r \in R PROVE ProtocolRef(r) \in P
    OBVIOUS
  <2>1. PICK j \in DOMAIN Assets(r) : Assets(r)[j].ref = ProtocolRef(r)
    BY <1>3, AssetsOfAre
  <2>2. PICK u \in U : it[u] = Assets(r)[j]
    BY <1>2
  <2>3. ProtocolRef(r) \in DOMAIN t
    BY <1>4, <2>1, <2>2
  <2>4. ProtocolRef(r)[1] = "protocol"
    BY DEF ProtocolRef
  <2> QED BY <1>6, <2>3, <2>4
<1>8. \A ref \in P : \E r \in R : ref = ProtocolRef(r)
  <2> SUFFICES ASSUME NEW ref \in P PROVE \E r \in R : ref = ProtocolRef(r)
    OBVIOUS
  <2>1. PICK u \in U : it[u].ref = ref /\ t[ref].comp = it[u].comp
    BY <1>4
  <2> QED BY <1>5, <2>1
<1>9. DOMAIN deps = P
  BY <1>4, <1>7, <1>8 DEF Linked
<1>10. \A r \in R : DependsOn(r) = {Assets(r)[j].ref : j \in DOMAIN Assets(r)} \ {ProtocolRef(r)}
  BY DEF DependsOn
<1>11. ASSUME NEW p \in P, NEW ref \in deps[p] PROVE ref \in DOMAIN t \ P
  <2>1. PICK r \in R : ref \in DependsOn(r)
    <3>1. deps[p] = UNION {DependsOn(r) : r \in {x \in R : ProtocolRef(x) = p}}
      <4> HIDE DEF P
      <4> QED BY <1>4, <1>9 DEF Linked
    <3>2. ref \in deps[p]
      BY <1>11
    <3> HIDE DEF P
    <3> QED BY <3>1, <3>2
  <2>2. PICK j \in DOMAIN Assets(r) : ref = Assets(r)[j].ref /\ ref # ProtocolRef(r)
    BY <1>10, <2>1
  <2>3. ref \in DOMAIN t
    <3>1. PICK u \in U : it[u] = Assets(r)[j]
      BY <1>2
    <3> QED BY <1>4, <2>2, <3>1
  <2>4. ref[1] # "protocol"
    <3> DEFINE x == Assets(r)[j]
    <3>1. x \in Items(r)
      BY <1>3, AssetsOfAre
    <3> HIDE DEF x
    <3>2. x.ref = ProtocolRef(r) <=> x.ref[1] = "protocol"
      BY <3>1, ItemsAre
    <3> QED BY <2>2, <3>2 DEF x
  <2> QED BY <1>6, <2>3, <2>4
<1>12. ASSUME NEW ref \in DOMAIN t \ P PROVE \E p \in P : ref \in deps[p]
  <2>1. PICK u \in U : ref = it[u].ref
    BY <1>4
  <2>2. PICK r \in R : \E j \in DOMAIN Assets(r) : it[u] = Assets(r)[j]
    BY <1>5
  <2> DEFINE p == ProtocolRef(r)
  <2>3. p \in P /\ ref # p
    BY <1>7
  <2>4. ref \in DependsOn(r)
    BY <1>10, <2>1, <2>2, <2>3
  <2>5. ref \in deps[p]
    BY <1>4, <1>9, <2>3, <2>4 DEF Linked
  <2> QED BY <2>3, <2>5
<1>13. UNION {deps[p] : p \in P} = DOMAIN t \ P
  <2> HIDE DEF P
  <2> QED BY <1>11, <1>12
<1> QED BY <1>9, <1>13 DEF BomClosed, t, deps

\* What the CBOM says, it says of the records kept, in whichever order: every
\* use of an asset is counted and placed, no decoy is a place, and the graph of
\* the dependencies is closed (buildCBOM).
THEOREM AlwaysBomFaithful == ReportSpec => []BomFaithful
<1>1. ReportInit => ReportOK
  BY InitReport
<1>2. ReportOK /\ [ReportNext]_reportVars => ReportOK'
  BY NextReport
<1>3. ReportOK => BomFaithful
  BY BomIsComplete, NoDecoyListed, BomIsClosed DEF BomFaithful
<1> QED BY <1>1, <1>2, <1>3, PTL DEF ReportSpec

=============================================================================
