------------------------- MODULE ObservationProofs -------------------------
(***************************************************************************)
(* Proofs about Observation: what the two walks decode, for every message. *)
(***************************************************************************)
EXTENDS Observation, FoldLemmas, FunctionTheorems, SequenceTheorems

(***************************************************************************)
(* Lists without some of their members.                                    *)
(***************************************************************************)

\* g is the function that Without builds.
Keeps(g, T, list, S) ==
  /\ g \in [0..Len(list) -> Seq(T)]
  /\ Without(list, S) = g[Len(list)] /\ g[0] = <<>>
  /\ \A n \in 1..Len(list) : g[n] = IF list[n] \in S THEN g[n - 1] ELSE Append(g[n - 1], list[n])

LEMMA WithoutSolved ==
  ASSUME NEW T, NEW list \in Seq(T), NEW S
  PROVE  \E g : Keeps(g, T, list, S)
<1> DEFINE L == Len(list)
           V == Seq(T)
           Step(v, n) == IF list[n] \in S THEN v ELSE Append(v, list[n])
           F == [n \in 1..L |-> [v \in V |-> Step(v, n)]]
           kept == CHOOSE g : g = [n \in 0..L |-> IF n = 0 THEN <<>> ELSE Step(g[n - 1], n)]
<1>1. Without(list, S) = kept[L]
  BY DEF Without
<1>2. \A n \in 1..L : \A v \in V : Step(v, n) \in V
  OBVIOUS
<1>3. <<>> \in V /\ L \in Nat
  OBVIOUS
<1> HIDE DEF L, V, Step
<1>4. StaysIn(F, V, L)
  BY <1>2 DEF StaysIn
<1>5. PICK g : Solves(g, <<>>, F, V, L)
  <2> HIDE DEF F
  <2> QED BY <1>3, <1>4, RecursionUpTo
<1>6. g \in [0..L -> V] /\ g[0] = <<>> /\ \A n \in 1..L : g[n] = Step(g[n - 1], n)
  <2>1. g \in [0..L -> V] /\ g[0] = <<>> /\ \A n \in 1..L : g[n] = F[n][g[n - 1]]
    BY <1>5 DEF Solves
  <2>2. \A n \in 1..L : n - 1 \in 0..L
    BY <1>3
  <2>3. \A n \in 1..L : g[n - 1] \in V
    BY <2>1, <2>2
  <2> QED BY <2>1, <2>3
<1>7. g = [n \in 0..L |-> IF n = 0 THEN <<>> ELSE Step(g[n - 1], n)]
  <2>1. \A n \in 0..L : n # 0 => n \in 1..L
    BY <1>3
  <2> QED BY <1>6, <2>1
<1>8. kept = [n \in 0..L |-> IF n = 0 THEN <<>> ELSE Step(kept[n - 1], n)]
  BY <1>7
<1> HIDE DEF kept
<1> DEFINE N == {n \in 0..L : kept[n] = g[n]}
<1>9. 0 \in N /\ \A n \in 0..(L - 1) : n \in N => n + 1 \in N
  <2>1. 0 \in 0..L
    BY <1>3
  <2>2. \A n \in 0..(L - 1) : n + 1 \in 0..L /\ n + 1 # 0 /\ (n + 1) - 1 = n /\ n + 1 \in 1..L
    BY <1>3
  <2>3. kept[0] = g[0]
    BY <1>6, <1>8, <2>1
  <2>4. \A n \in 0..(L - 1) : kept[n + 1] = Step(kept[n], n + 1) /\ g[n + 1] = Step(g[n], n + 1)
    BY <1>6, <1>8, <2>2
  <2> QED BY <2>1, <2>2, <2>3, <2>4
<1>10. 0..L \subseteq N
  <2> HIDE DEF N
  <2> QED BY <1>3, <1>9, InductionUpTo
<1>11. kept[L] = g[L]
  BY <1>3, <1>10
<1> QED BY <1>1, <1>6, <1>11 DEF Step, V, L, Keeps

\* It takes the members one after the other.
LEMMA WithoutAppend ==
  ASSUME NEW T, NEW list \in Seq(T), NEW x \in T, NEW S
  PROVE  Without(Append(list, x), S) =
           IF x \in S THEN Without(list, S) ELSE Append(Without(list, S), x)
<1> DEFINE more == Append(list, x)
           L == Len(list)
<1>1. more \in Seq(T) /\ Len(more) = L + 1 /\ more[L + 1] = x /\ L \in Nat
      /\ \A n \in 1..L : more[n] = list[n]
  OBVIOUS
<1>a. PICK g : Keeps(g, T, list, S)
  BY WithoutSolved
<1> HIDE DEF more
<1>b. PICK h : Keeps(h, T, more, S)
  BY <1>1, WithoutSolved
<1>2. /\ Without(list, S) = g[L] /\ g[0] = <<>>
      /\ \A n \in 1..L : g[n] = IF list[n] \in S THEN g[n - 1] ELSE Append(g[n - 1], list[n])
  BY <1>a DEF Keeps
<1> HIDE DEF L
<1>3. /\ Without(more, S) = h[L + 1] /\ h[0] = <<>>
      /\ \A n \in 1..(L + 1) : h[n] = IF more[n] \in S THEN h[n - 1] ELSE Append(h[n - 1], more[n])
  BY <1>1, <1>b DEF Keeps
<1> DEFINE N == {n \in 0..L : g[n] = h[n]}
<1>4. 0 \in N /\ \A n \in 0..(L - 1) : n \in N => n + 1 \in N
  <2>1. \A n \in 0..(L - 1) : n + 1 \in 1..L /\ n + 1 \in 1..(L + 1) /\ (n + 1) - 1 = n /\ n + 1 \in 0..L
    BY <1>1
  <2>2. \A n \in 0..(L - 1) :
          /\ g[n + 1] = IF list[n + 1] \in S THEN g[n] ELSE Append(g[n], list[n + 1])
          /\ h[n + 1] = IF list[n + 1] \in S THEN h[n] ELSE Append(h[n], list[n + 1])
    BY <1>1, <1>2, <1>3, <2>1
  <2>3. 0 \in 0..L
    BY <1>1
  <2> QED BY <1>2, <1>3, <2>1, <2>2, <2>3
<1>5. 0..L \subseteq N
  <2> HIDE DEF N
  <2> QED BY <1>1, <1>4, InductionUpTo
<1>6. g[L] = h[L] /\ L + 1 \in 1..(L + 1) /\ (L + 1) - 1 = L
  BY <1>1, <1>5
<1>7. h[L + 1] = IF x \in S THEN h[L] ELSE Append(h[L], x)
  BY <1>1, <1>3, <1>6
<1> QED BY <1>2, <1>3, <1>6, <1>7 DEF more

\* It gives a list of the same things, and nothing of nothing.
LEMMA WithoutType ==
  ASSUME NEW T, NEW list \in Seq(T), NEW S
  PROVE  Without(list, S) \in Seq(T) /\ (list = <<>> => Without(list, S) = <<>>)
<1>0. PICK g : Keeps(g, T, list, S)
  BY WithoutSolved
<1>1. g \in [0..Len(list) -> Seq(T)] /\ Without(list, S) = g[Len(list)] /\ g[0] = <<>>
  BY <1>0 DEF Keeps
<1>2. Len(list) \in 0..Len(list)
  OBVIOUS
<1>3. list = <<>> => Len(list) = 0
  OBVIOUS
<1> QED BY <1>1, <1>2, <1>3

\* Only what it says of the members of the list matters.
LEMMA WithoutSame ==
  ASSUME NEW T, NEW list \in Seq(T), NEW S, NEW R,
         \A i \in 1..Len(list) : list[i] \in S <=> list[i] \in R
  PROVE  Without(list, S) = Without(list, R)
<1> DEFINE L == Len(list)
<1>1. PICK g : Keeps(g, T, list, S)
  BY WithoutSolved
<1>2. PICK h : Keeps(h, T, list, R)
  BY WithoutSolved
<1>3. L \in Nat
  OBVIOUS
<1>4. /\ Without(list, S) = g[L] /\ g[0] = <<>>
      /\ \A n \in 1..L : g[n] = IF list[n] \in S THEN g[n - 1] ELSE Append(g[n - 1], list[n])
  BY <1>1 DEF Keeps
<1>5. /\ Without(list, R) = h[L] /\ h[0] = <<>>
      /\ \A n \in 1..L : h[n] = IF list[n] \in R THEN h[n - 1] ELSE Append(h[n - 1], list[n])
  BY <1>2 DEF Keeps
<1> HIDE DEF L
<1> DEFINE N == {n \in 0..L : g[n] = h[n]}
<1>6. 0 \in N /\ \A n \in 0..(L - 1) : n \in N => n + 1 \in N
  <2>1. \A n \in 0..(L - 1) : n + 1 \in 1..L /\ (n + 1) - 1 = n /\ n + 1 \in 0..L
    BY <1>3
  <2>2. \A n \in 0..(L - 1) :
          /\ g[n + 1] = IF list[n + 1] \in S THEN g[n] ELSE Append(g[n], list[n + 1])
          /\ h[n + 1] = IF list[n + 1] \in S THEN h[n] ELSE Append(h[n], list[n + 1])
    BY <1>4, <1>5, <2>1 DEF L
  <2>3. 0 \in 0..L
    BY <1>3
  <2> QED BY <1>4, <1>5, <2>1, <2>2, <2>3
<1>7. 0..L \subseteq N
  <2> HIDE DEF N
  <2> QED BY <1>3, <1>6, InductionUpTo
<1>8. L \in N
  BY <1>3, <1>7
<1> QED BY <1>4, <1>5, <1>8

\* Where the members of C are in a list.
Spots(list, C) == {i \in DOMAIN list : list[i] \in C}

LEMMA SpotsFinite ==
  ASSUME NEW T, NEW list \in Seq(T), NEW C
  PROVE  IsFiniteSet(Spots(list, C)) /\ Cardinality(Spots(list, C)) \in Nat
<1>1. DOMAIN list = 1..Len(list) /\ Len(list) \in Nat
  OBVIOUS
<1>2. IsFiniteSet(DOMAIN list)
  BY <1>1, FS_Interval
<1> QED BY <1>2, FS_Subset, FS_CardinalityType DEF Spots

\* One more member.
LEMMA SpotsAppend ==
  ASSUME NEW T, NEW list \in Seq(T), NEW x \in T, NEW C
  PROVE  Cardinality(Spots(Append(list, x), C)) =
           IF x \in C THEN Cardinality(Spots(list, C)) + 1 ELSE Cardinality(Spots(list, C))
<1> DEFINE more == Append(list, x)
           n == Len(list) + 1
<1>1. Len(list) \in Nat /\ DOMAIN list = 1..Len(list) /\ DOMAIN more = 1..n
  OBVIOUS
<1>2. 1..n = (1..Len(list)) \cup {n} /\ n \notin 1..Len(list)
  BY <1>1
<1>3. more[n] = x /\ \A i \in DOMAIN list : more[i] = list[i]
  BY <1>1
<1> HIDE DEF more, n
<1>4. CASE x \in C
  <2>1. Spots(more, C) = Spots(list, C) \cup {n} /\ n \notin Spots(list, C)
    BY <1>1, <1>2, <1>3, <1>4 DEF Spots
  <2> QED BY <1>4, <2>1, SpotsFinite, FS_AddElement DEF more
<1>5. CASE x \notin C
  <2>1. Spots(more, C) = Spots(list, C)
    BY <1>1, <1>2, <1>3, <1>5 DEF Spots
  <2> QED BY <1>5, <2>1 DEF more
<1> QED BY <1>4, <1>5

\* The members that are left, how many of each kind.
LEMMA WithoutSpots ==
  ASSUME NEW T, NEW list \in Seq(T), NEW S, NEW C
  PROVE  Cardinality(Spots(Without(list, S), C)) = Cardinality(Spots(list, C \ S))
<1> DEFINE F == {l \in Seq(T) : Cardinality(Spots(Without(l, S), C)) = Cardinality(Spots(l, C \ S))}
<1>1. <<>> \in F
  <2>0. <<>> \in Seq(T)
    OBVIOUS
  <2>1. <<>> \in Seq(T) /\ Without(<<>>, S) = <<>>
    BY <2>0, WithoutType, Zenon
  <2>2. Spots(<<>>, C) = {} /\ Spots(<<>>, C \ S) = {}
    BY DEF Spots
  <2> QED BY <2>1, <2>2
<1>2. ASSUME NEW l \in Seq(T), l \in F, NEW x \in T PROVE Append(l, x) \in F
  <2>1. Append(l, x) \in Seq(T) /\ Without(l, S) \in Seq(T)
    BY WithoutType
  <2>2. Without(Append(l, x), S) = IF x \in S THEN Without(l, S) ELSE Append(Without(l, S), x)
    BY WithoutAppend
  <2>3. Cardinality(Spots(Append(l, x), C \ S)) =
          IF x \in C \ S THEN Cardinality(Spots(l, C \ S)) + 1 ELSE Cardinality(Spots(l, C \ S))
    BY SpotsAppend
  <2>4. Cardinality(Spots(Append(Without(l, S), x), C)) =
          IF x \in C THEN Cardinality(Spots(Without(l, S), C)) + 1 ELSE Cardinality(Spots(Without(l, S), C))
    BY <2>1, SpotsAppend
  <2>5. Cardinality(Spots(Without(l, S), C)) = Cardinality(Spots(l, C \ S))
    BY <1>2
  <2>6. Cardinality(Spots(Without(Append(l, x), S), C)) = Cardinality(Spots(Append(l, x), C \ S))
    <3>1. CASE x \in S
      BY <2>2, <2>3, <2>5, <3>1, Zenon
    <3>2. CASE x \notin S
      <4>1. x \in C \ S <=> x \in C
        BY <3>2
      <4>2. Without(Append(l, x), S) = Append(Without(l, S), x)
        BY <2>2, <3>2
      <4> QED BY <2>3, <2>4, <2>5, <4>1, <4>2, Zenon
    <3> QED BY <3>1, <3>2
  <2> QED BY <2>1, <2>6
<1>3. Seq(T) \subseteq F
  <2> HIDE DEF F
  <2> QED BY <1>1, <1>2, InductionOverSeq
<1> QED BY <1>3

\* Which members are left.
LEMMA WithoutRange ==
  ASSUME NEW T, NEW list \in Seq(T), NEW S
  PROVE  Range(Without(list, S)) = Range(list) \ S
<1>1. Without(list, S) \in Seq(T)
  BY WithoutType
<1>2. \A l \in Seq(T) : \A x : x \in Range(l) <=> Cardinality(Spots(l, {x})) # 0
  <2>1. ASSUME NEW l \in Seq(T), NEW x PROVE x \in Range(l) <=> Cardinality(Spots(l, {x})) # 0
    <3>1. IsFiniteSet(Spots(l, {x}))
      BY SpotsFinite
    <3>2. Cardinality(Spots(l, {x})) = 0 <=> Spots(l, {x}) = {}
      BY <3>1, FS_EmptySet
    <3>3. x \in Range(l) <=> Spots(l, {x}) # {}
      BY DEF Range, Spots
    <3> QED BY <3>2, <3>3
  <2> QED BY <2>1
<1>3. ASSUME NEW x PROVE x \in Range(Without(list, S)) <=> x \in Range(list) \ S
  <2>1. x \in Range(Without(list, S)) <=> Cardinality(Spots(list, {x} \ S)) # 0
    <3>1. Cardinality(Spots(Without(list, S), {x})) = Cardinality(Spots(list, {x} \ S))
      BY WithoutSpots
    <3>2. x \in Range(Without(list, S)) <=> Cardinality(Spots(Without(list, S), {x})) # 0
      BY <1>1, <1>2
    <3> QED BY <3>1, <3>2
  <2>2. CASE x \in S
    <3>1. Spots(list, {x} \ S) = {}
      BY <2>2 DEF Spots
    <3> QED BY <2>1, <2>2, <3>1, FS_EmptySet
  <2>3. CASE x \notin S
    <3>1. {x} \ S = {x}
      BY <2>3
    <3> QED BY <1>2, <2>1, <2>3, <3>1
  <2> QED BY <2>2, <2>3
<1> QED BY <1>3


LEMMA RangeAppend ==
  ASSUME NEW T, NEW list \in Seq(T), NEW x \in T
  PROVE  Range(Append(list, x)) = Range(list) \cup {x}
<1> DEFINE more == Append(list, x)
           n == Len(list) + 1
<1>1. Len(list) \in Nat /\ DOMAIN list = 1..Len(list) /\ DOMAIN more = 1..n
  OBVIOUS
<1>2. 1..n = (1..Len(list)) \cup {n}
  BY <1>1
<1>3. more[n] = x /\ \A i \in DOMAIN list : more[i] = list[i]
  BY <1>1
<1> HIDE DEF more, n
<1>4. Range(more) = Range(list) \cup {x}
  BY <1>1, <1>2, <1>3 DEF Range
<1> QED BY <1>4 DEF more

(***************************************************************************)
(* GREASE                                                                  *)
(***************************************************************************)

\* The test of the code finds the values that RFC 8701 reserves, and only them.
LEMMA GreaseReserved ==
  ASSUME NEW v \in Nat
  PROVE  IsGREASE(v) <=> v \in Reserved
<1>1. ASSUME IsGREASE(v) PROVE v \in Reserved
  <2> DEFINE a == v % 256
             k == a \div 16
  <2>1. v \div 256 = a /\ v % 16 = 10 /\ a \in 0..255 /\ v = 256 * (v \div 256) + a
    BY <1>1 DEF IsGREASE
  <2>2. v = 257 * a
    BY <2>1
  <2>3. k \in 0..15 /\ a = 16 * k + (a % 16) /\ a % 16 \in 0..15
    BY <2>1
  <2> HIDE DEF a
  <2>4. v % 16 = a % 16
    BY <2>1, <2>2
  <2> HIDE DEF k
  <2>5. v = 2570 + 4112 * k
    BY <2>1, <2>2, <2>3, <2>4
  <2> QED BY <2>3, <2>5 DEF Reserved
<1>2. ASSUME v \in Reserved PROVE IsGREASE(v)
  <2>1. PICK i \in 0..15 : v = 2570 + 4112 * i
    BY <1>2 DEF Reserved
  <2> DEFINE a == 10 + 16 * i
  <2>2. a \in 0..255 /\ v = 257 * a /\ v = 256 * a + a
    BY <2>1
  <2>3. v % 16 = 10
    BY <2>1
  <2> HIDE DEF a
  <2>4. v \div 256 = a /\ v % 256 = a
    BY <2>2
  <2> QED BY <2>3, <2>4 DEF IsGREASE
<1> QED BY <1>1, <1>2

\* The reserved values are no codepoints that anything looks for.
LEMMA ReservedUnused ==
  /\ Reserved \subseteq Nat
  /\ \A t \in DOMAIN ListField \cup Flags \cup {ExtServerName, ExtALPN, ExtKeyShare, ExtPSKKeyExchangeModes,
                 ExtEncryptedClientHello} : t \in Nat /\ ~IsGREASE(t) /\ t \notin Reserved
  /\ \A v \in Reserved : ~PostQuantum(v)
<1>1. Reserved \subseteq Nat
  BY DEF Reserved
<1>2. \A t \in DOMAIN ListField \cup Flags \cup {ExtServerName, ExtALPN, ExtKeyShare, ExtPSKKeyExchangeModes,
                 ExtEncryptedClientHello} :
        t \in {0, 5, 10, 13, 16, 23, 35, 41, 42, 43, 45, 50, 51, 57, 65037, 65281}
  BY DEF ListField, Flags, ExtServerName, ExtStatusRequest, ExtSupportedGroups, ExtSignatureAlgorithms, ExtALPN,
         ExtExtendedMasterSecret, ExtSessionTicket, ExtPreSharedKey, ExtEarlyData, ExtSupportedVersions,
         ExtPSKKeyExchangeModes, ExtSignatureAlgorithmsCert, ExtKeyShare, ExtQUICTransportParams,
         ExtEncryptedClientHello, ExtRenegotiationInfo
<1>3. \A t \in {0, 5, 10, 13, 16, 23, 35, 41, 42, 43, 45, 50, 51, 57, 65037, 65281} : t \in Nat /\ ~IsGREASE(t)
  BY DEF IsGREASE
<1>4. \A v \in Reserved : ~PostQuantum(v)
  <2>1. \A v \in {512, 513, 514, 4587, 4588, 4589, 25497, 25498} : v \in Nat /\ ~IsGREASE(v)
    BY DEF IsGREASE
  <2>2. \A v : PostQuantum(v) => v \in {512, 513, 514, 4587, 4588, 4589, 25497, 25498}
    BY DEF PostQuantum, PureKEM, Hybrid
  <2> QED BY <1>1, <2>1, <2>2, GreaseReserved
<1> QED BY <1>1, <1>2, <1>3, <1>4, GreaseReserved

\* stripGREASE takes the reserved values out.
LEMMA StripIs ==
  ASSUME NEW list \in Seq(Nat)
  PROVE  StripGREASE(list) = Clean(list) /\ (HasGREASE(list) <=> Range(list) \cap Reserved # {})
<1> DEFINE S == {v \in Range(list) : IsGREASE(v)}
<1>1. \A i \in 1..Len(list) : list[i] \in Nat /\ list[i] \in Range(list)
  BY DEF Range
<1>2. \A i \in 1..Len(list) : list[i] \in S <=> list[i] \in Reserved
  BY <1>1, GreaseReserved
<1>3. Without(list, S) = Without(list, Reserved)
  <2> HIDE DEF S
  <2> QED BY <1>2, WithoutSame
<1>4. HasGREASE(list) <=> Range(list) \cap Reserved # {}
  BY <1>1, GreaseReserved DEF HasGREASE, Range
<1> QED BY <1>3, <1>4 DEF StripGREASE, Clean


(***************************************************************************)
(* The last extension of a kind.                                           *)
(***************************************************************************)
None == [items |-> <<>>]

\* The last member of E in a sequence.
Latest(s, E) == IF Spots(s, E) = {} THEN None ELSE s[Max(Spots(s, E))]

\* It is the one after which there is no other.
LEMMA LatestIs ==
  ASSUME NEW T, NEW s \in Seq(T), NEW E, NEW i \in 1..Len(s), s[i] \in E,
         \A j \in 1..Len(s) : j > i => s[j] \notin E
  PROVE  Latest(s, E) = s[i] /\ Spots(s, E) # {}
<1>1. DOMAIN s = 1..Len(s) /\ Len(s) \in Nat
  OBVIOUS
<1>2. i \in Spots(s, E) /\ Spots(s, E) \subseteq 0..Len(s)
  BY <1>1 DEF Spots
<1>3. Max(Spots(s, E)) \in Spots(s, E) /\ i <= Max(Spots(s, E))
  BY <1>1, <1>2, MaxIs
<1>4. Max(Spots(s, E)) \in 1..Len(s) /\ s[Max(Spots(s, E))] \in E
  BY <1>1, <1>3 DEF Spots
<1>5. Max(Spots(s, E)) = i
  BY <1>1, <1>3, <1>4
<1> QED BY <1>2, <1>5 DEF Latest

\* There is one unless there is none.
LEMMA LatestExists ==
  ASSUME NEW T, NEW s \in Seq(T), NEW E, Spots(s, E) # {}
  PROVE  \E i \in 1..Len(s) : /\ s[i] \in E /\ Latest(s, E) = s[i]
                              /\ \A j \in 1..Len(s) : j > i => s[j] \notin E
<1>1. DOMAIN s = 1..Len(s) /\ Len(s) \in Nat
  OBVIOUS
<1>2. Spots(s, E) \subseteq 0..Len(s)
  BY <1>1 DEF Spots
<1> DEFINE i == Max(Spots(s, E))
<1>3. i \in Spots(s, E) /\ \A j \in Spots(s, E) : j <= i
  BY <1>1, <1>2, MaxIs
<1>4. Latest(s, E) = s[i]
  BY DEF Latest
<1> HIDE DEF i
<1>5. i \in 1..Len(s) /\ s[i] \in E
  BY <1>1, <1>3 DEF Spots
<1>6. \A j \in 1..Len(s) : j > i => s[j] \notin E
  BY <1>1, <1>3, <1>5 DEF Spots
<1> QED BY <1>4, <1>5, <1>6

\* One more extension.
LEMMA LatestAppend ==
  ASSUME NEW T, NEW s \in Seq(T), NEW e \in T, NEW E
  PROVE  /\ Latest(Append(s, e), E) = IF e \in E THEN e ELSE Latest(s, E)
         /\ Spots(Append(s, e), E) = {} <=> e \notin E /\ Spots(s, E) = {}
<1> DEFINE more == Append(s, e)
           n == Len(s) + 1
<1>1. more \in Seq(T) /\ Len(more) = n /\ more[n] = e /\ Len(s) \in Nat
      /\ \A i \in 1..Len(s) : more[i] = s[i]
  OBVIOUS
<1>2. n \in 1..n /\ (\A j \in 1..n : ~(j > n)) /\ (\A j \in 1..n : j # n => j \in 1..Len(s))
      /\ (\A j \in 1..Len(s) : j \in 1..n)
  BY <1>1
<1>a. DOMAIN more = 1..n /\ DOMAIN s = 1..Len(s)
  BY <1>1
<1> HIDE DEF more, n
<1>3. CASE e \in E
  <2>1. Latest(more, E) = more[n] /\ Spots(more, E) # {}
    BY <1>1, <1>2, <1>3, LatestIs
  <2> QED BY <1>1, <1>3, <2>1 DEF more
<1>4. CASE e \notin E
  <2>1. Spots(more, E) = Spots(s, E)
    BY <1>1, <1>2, <1>4, <1>a DEF Spots
  <2>2. Latest(more, E) = Latest(s, E)
    <3>1. CASE Spots(s, E) = {}
      BY <2>1, <3>1 DEF Latest
    <3>2. CASE Spots(s, E) # {}
      <4>1. PICK i \in 1..Len(s) : /\ s[i] \in E /\ Latest(s, E) = s[i]
                                   /\ \A j \in 1..Len(s) : j > i => s[j] \notin E
        BY <3>2, LatestExists
      <4>2. i \in 1..n /\ more[i] \in E
        BY <1>1, <1>2, <4>1
      <4>3. ASSUME NEW j \in 1..n, j > i PROVE more[j] \notin E
        <5>1. CASE j = n
          BY <1>1, <1>4, <5>1
        <5>2. CASE j # n
          BY <1>1, <1>2, <4>1, <4>3, <5>2
        <5> QED BY <5>1, <5>2
      <4>4. Latest(more, E) = more[i]
        BY <1>1, <4>2, <4>3, LatestIs
      <4> QED BY <1>1, <4>1, <4>4
    <3> QED BY <3>1, <3>2
  <2> QED BY <1>4, <2>1, <2>2 DEF more
<1> QED BY <1>3, <1>4


(***************************************************************************)
(* What is decoded of a ClientHello m after the extensions s.              *)
(***************************************************************************)
OfType(t) == {e \in Extension : e.type = t}
WholeOf(t) == {e \in Extension : e.type = t /\ e.whole}
Naming == {e \in Extension : e.type = ExtServerName /\ (e.whole \/ Hosts(e) # {})}

TypesOf(s) == [i \in 1..Len(s) |-> s[i].type]
NameIn(e) == IF Hosts(e) = {} THEN 0 ELSE e.items[Min(Hosts(e))]
ECHIn(e) ==
  [seen |-> TRUE, outer |-> ~(e.items # <<>> /\ e.items[1] = 1),
   config |-> IF e.items # <<>> /\ e.items[1] = 0 /\ e.whole THEN e.items[2] ELSE 0]

\* The extensions in which GREASE is noted.
Greasy ==
  {e \in Extension :
     \/ e.type \in Reserved
     \/ /\ \/ e.type = ExtKeyShare
           \/ e.whole /\ e.type \in {ExtSupportedVersions, ExtSupportedGroups, ExtSignatureAlgorithms}
        /\ Range(e.items) \cap Reserved # {}}

Decoded(m, s) ==
  [legacy |-> m.legacy, suites |-> Clean(m.suites), compression |-> m.compression,
   exts |-> Clean(TypesOf(s)), name |-> NameIn(Latest(s, Naming)),
   alpn |-> Latest(s, WholeOf(ExtALPN)).items,
   versions |-> Clean(Latest(s, WholeOf(ExtSupportedVersions)).items),
   groups |-> Clean(Latest(s, WholeOf(ExtSupportedGroups)).items),
   sigAlgs |-> Clean(Latest(s, WholeOf(ExtSignatureAlgorithms)).items),
   sigAlgsCert |-> Clean(Latest(s, WholeOf(ExtSignatureAlgorithmsCert)).items),
   shares |-> Clean(Latest(s, WholeOf(ExtKeyShare)).items),
   modes |-> Latest(s, WholeOf(ExtPSKKeyExchangeModes)).items,
   ech |-> IF Spots(s, OfType(ExtEncryptedClientHello)) = {} THEN Absent
           ELSE ECHIn(Latest(s, OfType(ExtEncryptedClientHello))),
   flags |-> Range(TypesOf(s)) \cap Flags,
   grease |-> Range(m.suites) \cap Reserved # {} \/ Spots(s, Greasy) # {},
   truncated |-> m.block = "short"]

HelloFields == {"legacy", "suites", "compression", "exts", "name", "alpn", "versions", "groups", "sigAlgs",
                "sigAlgsCert", "shares", "modes", "ech", "flags", "grease", "truncated"}

\* The fields that are the list of one extension.
Lists == {"versions", "groups", "sigAlgs", "sigAlgsCert", "shares", "alpn", "modes"}
TypeOfList(f) ==
  CASE f = "versions" -> ExtSupportedVersions [] f = "groups" -> ExtSupportedGroups
    [] f = "sigAlgs" -> ExtSignatureAlgorithms [] f = "sigAlgsCert" -> ExtSignatureAlgorithmsCert
    [] f = "shares" -> ExtKeyShare [] f = "alpn" -> ExtALPN [] f = "modes" -> ExtPSKKeyExchangeModes
ListOf(f, e) == IF f \in {"alpn", "modes"} THEN e.items ELSE Clean(e.items)

\* The hello d is c after one more extension e.
OneFurther(c, e, d) ==
  /\ d = [f \in HelloFields |-> d[f]]
  /\ \A f \in {"legacy", "suites", "compression", "truncated"} : d[f] = c[f]
  /\ d.exts = IF e.type \in Reserved THEN c.exts ELSE Append(c.exts, e.type)
  /\ \A f \in Lists : d[f] = IF e \in WholeOf(TypeOfList(f)) THEN ListOf(f, e) ELSE c[f]
  /\ d.name = IF e \in Naming THEN NameIn(e) ELSE c.name
  /\ d.ech = IF e \in OfType(ExtEncryptedClientHello) THEN ECHIn(e) ELSE c.ech
  /\ d.flags = c.flags \cup ({e.type} \cap Flags)
  /\ d.grease = (c.grease \/ e \in Greasy)

\* The closed form goes one further with the extensions.
LEMMA TypesAppend ==
  ASSUME NEW s \in Seq(Extension), NEW e \in Extension
  PROVE  TypesOf(s) \in Seq(Nat) /\ TypesOf(Append(s, e)) = Append(TypesOf(s), e.type) /\ e.type \in Nat
<1>1. \A x \in Extension : x.type \in Nat
  BY DEF Extension, ExtALPN
<1>2. TypesOf(s) \in Seq(Nat) /\ Len(TypesOf(s)) = Len(s)
  BY <1>1 DEF TypesOf
<1>3. Len(Append(s, e)) = Len(s) + 1 /\ Len(s) \in Nat
  OBVIOUS
<1>4. \A i \in 1..(Len(s) + 1) : Append(s, e)[i].type = Append(TypesOf(s), e.type)[i]
  BY <1>2, <1>3 DEF TypesOf
<1>5. Append(TypesOf(s), e.type) \in Seq(Nat) /\ Len(Append(TypesOf(s), e.type)) = Len(s) + 1
  BY <1>1, <1>2
<1>6. TypesOf(Append(s, e)) = [i \in 1..(Len(s) + 1) |-> Append(s, e)[i].type]
  BY <1>3 DEF TypesOf
<1> QED BY <1>1, <1>2, <1>4, <1>5, <1>6

LEMMA DecodedFurther ==
  ASSUME NEW m, NEW s \in Seq(Extension), NEW e \in Extension
  PROVE  OneFurther(Decoded(m, s), e, Decoded(m, Append(s, e)))
<1> DEFINE c == Decoded(m, s)
           d == Decoded(m, Append(s, e))
<1>1. \A E : /\ Latest(Append(s, e), E) = IF e \in E THEN e ELSE Latest(s, E)
             /\ Spots(Append(s, e), E) = {} <=> e \notin E /\ Spots(s, E) = {}
  BY LatestAppend
<1>2. /\ d = [f \in HelloFields |-> d[f]]
      /\ d.legacy = c.legacy /\ d.suites = c.suites /\ d.compression = c.compression /\ d.truncated = c.truncated
  BY ZenonT(40) DEF Decoded, HelloFields
<1>3. d.exts = IF e.type \in Reserved THEN c.exts ELSE Append(c.exts, e.type)
  <2>1. d.exts = Clean(TypesOf(Append(s, e))) /\ c.exts = Clean(TypesOf(s))
    BY DEF Decoded
  <2>2. TypesOf(s) \in Seq(Nat) /\ TypesOf(Append(s, e)) = Append(TypesOf(s), e.type) /\ e.type \in Nat
    BY TypesAppend
  <2>3. Without(Append(TypesOf(s), e.type), Reserved) =
          IF e.type \in Reserved THEN Without(TypesOf(s), Reserved)
          ELSE Append(Without(TypesOf(s), Reserved), e.type)
    <3>1. \A l \in Seq(Nat), x \in Nat : Without(Append(l, x), Reserved) =
            IF x \in Reserved THEN Without(l, Reserved) ELSE Append(Without(l, Reserved), x)
      <4>1. ASSUME NEW l \in Seq(Nat), NEW x \in Nat
            PROVE  Without(Append(l, x), Reserved) =
                     IF x \in Reserved THEN Without(l, Reserved) ELSE Append(Without(l, Reserved), x)
        BY WithoutAppend, SMTT(60)
      <4> QED BY <4>1
    <3> QED BY <2>2, <3>1, Zenon
  <2> QED BY <2>1, <2>2, <2>3, Zenon DEF Clean
<1>4. d.name = IF e \in Naming THEN NameIn(e) ELSE c.name
  BY <1>1 DEF Decoded
<1>5. /\ d.alpn = IF e \in WholeOf(ExtALPN) THEN e.items ELSE c.alpn
      /\ d.modes = IF e \in WholeOf(ExtPSKKeyExchangeModes) THEN e.items ELSE c.modes
  BY <1>1 DEF Decoded
<1>6. /\ d.versions = IF e \in WholeOf(ExtSupportedVersions) THEN Clean(e.items) ELSE c.versions
      /\ d.groups = IF e \in WholeOf(ExtSupportedGroups) THEN Clean(e.items) ELSE c.groups
      /\ d.sigAlgs = IF e \in WholeOf(ExtSignatureAlgorithms) THEN Clean(e.items) ELSE c.sigAlgs
      /\ d.sigAlgsCert = IF e \in WholeOf(ExtSignatureAlgorithmsCert) THEN Clean(e.items) ELSE c.sigAlgsCert
      /\ d.shares = IF e \in WholeOf(ExtKeyShare) THEN Clean(e.items) ELSE c.shares
  BY <1>1 DEF Decoded
<1>7. d.ech = IF e \in OfType(ExtEncryptedClientHello) THEN ECHIn(e) ELSE c.ech
  BY <1>1 DEF Decoded
<1>8. d.flags = c.flags \cup ({e.type} \cap Flags)
  <2>1. d.flags = Range(TypesOf(Append(s, e))) \cap Flags /\ c.flags = Range(TypesOf(s)) \cap Flags
    BY DEF Decoded
  <2>2. TypesOf(s) \in Seq(Nat) /\ TypesOf(Append(s, e)) = Append(TypesOf(s), e.type) /\ e.type \in Nat
    BY TypesAppend
  <2>3. Range(Append(TypesOf(s), e.type)) = Range(TypesOf(s)) \cup {e.type}
    <3>1. \A l \in Seq(Nat), x \in Nat : Range(Append(l, x)) = Range(l) \cup {x}
      BY RangeAppend
    <3> QED BY <2>2, <3>1, Zenon
  <2> QED BY <2>1, <2>2, <2>3
<1>9. d.grease = (c.grease \/ e \in Greasy)
  BY <1>1 DEF Decoded
<1> HIDE DEF c, d
<1>10. \A f \in Lists : d[f] = IF e \in WholeOf(TypeOfList(f)) THEN ListOf(f, e) ELSE c[f]
  <2>1. /\ TypeOfList("versions") = ExtSupportedVersions /\ TypeOfList("groups") = ExtSupportedGroups
        /\ TypeOfList("sigAlgs") = ExtSignatureAlgorithms /\ TypeOfList("sigAlgsCert") = ExtSignatureAlgorithmsCert
        /\ TypeOfList("shares") = ExtKeyShare /\ TypeOfList("alpn") = ExtALPN
        /\ TypeOfList("modes") = ExtPSKKeyExchangeModes
    BY DEF TypeOfList
  <2> QED BY <1>5, <1>6, <2>1 DEF Lists, ListOf
<1>11. OneFurther(c, e, d)
  BY <1>2, <1>3, <1>4, <1>7, <1>8, <1>9, <1>10 DEF OneFurther
<1> QED BY <1>11 DEF c, d

\* A hello is a record of these fields.
IsHello(c) == c = [f \in HelloFields |-> c[f]] /\ c.grease \in BOOLEAN

\* What an extension can be.
LEMMA ExtensionIs ==
  ASSUME NEW e \in Extension
  PROVE  /\ e.type \in Nat /\ e.whole \in BOOLEAN
         /\ e.type # ExtALPN => e.items \in Seq(Nat)
         /\ e.type = ExtALPN => e.items \in Seq(Seq(STRING))
         /\ e.type \in Flags => e.whole
BY DEF Extension, ExtALPN, Flags, ExtStatusRequest, ExtExtendedMasterSecret, ExtSessionTicket, ExtPreSharedKey,
       ExtEarlyData, ExtQUICTransportParams, ExtRenegotiationInfo

\* The kinds of extension, told apart by the type.
LEMMA Kinds ==
  ASSUME NEW e \in Extension
  PROVE  /\ \A t : e \in OfType(t) <=> e.type = t
         /\ \A t : e \in WholeOf(t) <=> e.type = t /\ e.whole
         /\ e \in Naming <=> e.type = ExtServerName /\ (e.whole \/ Hosts(e) # {})
         /\ e.type \in Reserved <=> IsGREASE(e.type)
         /\ e \in Greasy <=>
              \/ IsGREASE(e.type)
              \/ /\ \/ e.type = ExtKeyShare
                    \/ e.whole /\ e.type \in {ExtSupportedVersions, ExtSupportedGroups, ExtSignatureAlgorithms}
                 /\ HasGREASE(e.items)
<1>1. e.type \in Nat /\ (e.type # ExtALPN => e.items \in Seq(Nat))
  BY ExtensionIs
<1>2. e.type \in Reserved <=> IsGREASE(e.type)
  BY <1>1, GreaseReserved
<1>3. e.type # ExtALPN => (HasGREASE(e.items) <=> Range(e.items) \cap Reserved # {})
  BY <1>1, StripIs
<1>4. \A t \in {ExtKeyShare, ExtSupportedVersions, ExtSupportedGroups, ExtSignatureAlgorithms} : t # ExtALPN
  BY DEF ExtKeyShare, ExtSupportedVersions, ExtSupportedGroups, ExtSignatureAlgorithms, ExtALPN
<1>5. e \in Greasy <=>
        \/ e.type \in Reserved
        \/ /\ \/ e.type = ExtKeyShare
              \/ e.whole /\ e.type \in {ExtSupportedVersions, ExtSupportedGroups, ExtSignatureAlgorithms}
           /\ Range(e.items) \cap Reserved # {}
  BY DEF Greasy
<1>6. e \in Greasy <=>
        \/ IsGREASE(e.type)
        \/ /\ \/ e.type = ExtKeyShare
              \/ e.whole /\ e.type \in {ExtSupportedVersions, ExtSupportedGroups, ExtSignatureAlgorithms}
           /\ HasGREASE(e.items)
  BY <1>2, <1>3, <1>4, <1>5
<1> QED BY <1>2, <1>6 DEF OfType, WholeOf, Naming

\* The arms of a round: d is what it makes of c, and b is c with the type of e.
Arms(c, e, b, d) ==
  /\ IsGREASE(e.type) => d = [c EXCEPT !.grease = TRUE]
  /\ e.type \in DOMAIN ListField => d = ReadList(b, ListField[e.type], e)
  /\ e.type = ExtServerName => d = ReadServerName(b, e)
  /\ e.type = ExtALPN => d = IF e.whole THEN [b EXCEPT !.alpn = e.items] ELSE b
  /\ e.type = ExtKeyShare => d = ReadKeyShare(b, e)
  /\ e.type = ExtPSKKeyExchangeModes => d = IF e.whole THEN [b EXCEPT !.modes = e.items] ELSE b
  /\ e.type = ExtEncryptedClientHello => d = ReadECH(b, e)
  /\ ~IsGREASE(e.type) /\ e.type \notin DOMAIN ListField
       /\ e.type \notin {ExtServerName, ExtALPN, ExtKeyShare, ExtPSKKeyExchangeModes, ExtEncryptedClientHello}
       => d = [b EXCEPT !.flags = b.flags \cup ({e.type} \cap Flags)]

LEMMA ClientArms ==
  ASSUME NEW c, NEW e \in Extension, NEW b, b = [c EXCEPT !.exts = Append(c.exts, e.type)]
  PROVE  Arms(c, e, b, ClientExtension(c, e))
<1> DEFINE v1 == [c EXCEPT !.grease = TRUE]
           v2 == ReadList(b, ListField[e.type], e)
           v3 == ReadServerName(b, e)
           v4 == IF e.whole THEN [b EXCEPT !.alpn = e.items] ELSE b
           v5 == ReadKeyShare(b, e)
           v6 == IF e.whole THEN [b EXCEPT !.modes = e.items] ELSE b
           v7 == ReadECH(b, e)
           v8 == [b EXCEPT !.flags = b.flags \cup ({e.type} \cap Flags)]
<1>1. ClientExtension(c, e) =
          CASE IsGREASE(e.type)                    -> v1
            [] e.type \in DOMAIN ListField         -> v2
            [] e.type = ExtServerName              -> v3
            [] e.type = ExtALPN                    -> v4
            [] e.type = ExtKeyShare                -> v5
            [] e.type = ExtPSKKeyExchangeModes     -> v6
            [] e.type = ExtEncryptedClientHello    -> v7
            [] OTHER                               -> v8
  BY DEF ClientExtension
<1> HIDE DEF v1, v2, v3, v4, v5, v6, v7, v8
<1>2. e.type \in DOMAIN ListField
        \cup {ExtServerName, ExtALPN, ExtKeyShare, ExtPSKKeyExchangeModes, ExtEncryptedClientHello} => ~IsGREASE(e.type)
  BY ReservedUnused
<1>3. DOMAIN ListField = {ExtSupportedVersions, ExtSupportedGroups, ExtSignatureAlgorithms, ExtSignatureAlgorithmsCert}
  BY DEF ListField
<1>4. /\ \A t \in {ExtServerName, ExtALPN, ExtKeyShare, ExtPSKKeyExchangeModes, ExtEncryptedClientHello} :
           t \notin DOMAIN ListField
      /\ ExtServerName # ExtALPN /\ ExtServerName # ExtKeyShare /\ ExtServerName # ExtPSKKeyExchangeModes
      /\ ExtServerName # ExtEncryptedClientHello /\ ExtALPN # ExtKeyShare /\ ExtALPN # ExtPSKKeyExchangeModes
      /\ ExtALPN # ExtEncryptedClientHello /\ ExtKeyShare # ExtPSKKeyExchangeModes
      /\ ExtKeyShare # ExtEncryptedClientHello /\ ExtPSKKeyExchangeModes # ExtEncryptedClientHello
  BY <1>3 DEF ExtServerName, ExtSupportedGroups, ExtSignatureAlgorithms, ExtALPN, ExtSupportedVersions,
         ExtPSKKeyExchangeModes, ExtSignatureAlgorithmsCert, ExtKeyShare, ExtEncryptedClientHello
<1>5. /\ IsGREASE(e.type) => ClientExtension(c, e) = v1
      /\ e.type \in DOMAIN ListField => ClientExtension(c, e) = v2
      /\ e.type = ExtServerName => ClientExtension(c, e) = v3
      /\ e.type = ExtALPN => ClientExtension(c, e) = v4
      /\ e.type = ExtKeyShare => ClientExtension(c, e) = v5
      /\ e.type = ExtPSKKeyExchangeModes => ClientExtension(c, e) = v6
      /\ e.type = ExtEncryptedClientHello => ClientExtension(c, e) = v7
      /\ ~IsGREASE(e.type) /\ e.type \notin DOMAIN ListField
            /\ e.type \notin {ExtServerName, ExtALPN, ExtKeyShare, ExtPSKKeyExchangeModes, ExtEncryptedClientHello}
            => ClientExtension(c, e) = v8
  BY <1>1, <1>2, <1>4
<1> QED BY <1>5 DEF v1, v2, v3, v4, v5, v6, v7, v8, Arms


\* d is c but for one field, which is v.
Changes(c, d, F, k, v) ==
  d = [f \in F |-> d[f]] /\ d[k] = v /\ \A f \in F \ {k} : d[f] = c[f]

LEMMA ChangeOne ==
  ASSUME NEW F, NEW c, c = [f \in F |-> c[f]], NEW k \in F, NEW v
  PROVE  Changes(c, [c EXCEPT ![k] = v], F, k, v)
<1> DEFINE d == [c EXCEPT ![k] = v]
<1>1. DOMAIN c = F
  OBVIOUS
<1>2. d = [f \in F |-> IF f = k THEN v ELSE c[f]]
  BY <1>1
<1> HIDE DEF d
<1>3. Changes(c, d, F, k, v)
  BY <1>2 DEF Changes
<1> QED BY <1>3 DEF d

\* An extension of a kind is of no other.
LEMMA KindsApart ==
  ASSUME NEW e \in Extension
  PROVE  /\ \A t : e.type # t => e \notin WholeOf(t) /\ e \notin OfType(t)
         /\ e.type # ExtServerName => e \notin Naming
         /\ IsGREASE(e.type) => e \in Greasy
         /\ ~IsGREASE(e.type) /\ e.type \notin {ExtKeyShare, ExtSupportedVersions, ExtSupportedGroups,
                                                ExtSignatureAlgorithms} => e \notin Greasy
BY Kinds

\* The fields that hold one list, each of an extension of its own.
LEMMA ListsApart ==
  /\ TypeOfList("versions") = ExtSupportedVersions /\ TypeOfList("groups") = ExtSupportedGroups
  /\ TypeOfList("sigAlgs") = ExtSignatureAlgorithms /\ TypeOfList("sigAlgsCert") = ExtSignatureAlgorithmsCert
  /\ TypeOfList("shares") = ExtKeyShare /\ TypeOfList("alpn") = ExtALPN
  /\ TypeOfList("modes") = ExtPSKKeyExchangeModes
  /\ \A f, g \in Lists : f # g => TypeOfList(f) # TypeOfList(g)
  /\ \A f \in Lists : TypeOfList(f) \notin Flags \cup {ExtServerName, ExtEncryptedClientHello} \cup Reserved
<1>1. /\ TypeOfList("versions") = ExtSupportedVersions /\ TypeOfList("groups") = ExtSupportedGroups
      /\ TypeOfList("sigAlgs") = ExtSignatureAlgorithms /\ TypeOfList("sigAlgsCert") = ExtSignatureAlgorithmsCert
      /\ TypeOfList("shares") = ExtKeyShare /\ TypeOfList("alpn") = ExtALPN
      /\ TypeOfList("modes") = ExtPSKKeyExchangeModes
  BY DEF TypeOfList
<1>2. \A f \in Lists : TypeOfList(f) \notin Reserved
  BY <1>1, ReservedUnused DEF Lists, ListField
<1> QED BY <1>1, <1>2 DEF Lists, Flags, ExtServerName, ExtStatusRequest, ExtSupportedGroups, ExtSignatureAlgorithms, ExtALPN,
         ExtExtendedMasterSecret, ExtSessionTicket, ExtPreSharedKey, ExtEarlyData, ExtSupportedVersions,
         ExtPSKKeyExchangeModes, ExtSignatureAlgorithmsCert, ExtKeyShare, ExtQUICTransportParams,
         ExtEncryptedClientHello, ExtRenegotiationInfo


\* One round of the walk is one step further: the arms that set a field.
LEMMA FurtherNamed ==
  ASSUME NEW c, IsHello(c), NEW e \in Extension, NEW d, NEW k, NEW v,
         NEW b, Changes(c, b, HelloFields, "exts", Append(c.exts, e.type)),
         d = [f \in HelloFields |-> d[f]], d[k] = v, d.grease = (b.grease \/ e \in Greasy),
         \A f \in HelloFields \ {k, "grease"} : d[f] = b[f], e.type \notin Reserved,
         k \in Lists => /\ e.type = TypeOfList(k)
                        /\ v = IF e \in WholeOf(TypeOfList(k)) THEN ListOf(k, e) ELSE c[k],
         k \notin Lists => \A f \in Lists : e.type # TypeOfList(f),
         k = "name" => v = IF e \in Naming THEN NameIn(e) ELSE c.name,
         k # "name" => e.type # ExtServerName,
         k = "ech" => e.type = ExtEncryptedClientHello /\ v = ECHIn(e),
         k # "ech" => e.type # ExtEncryptedClientHello,
         k = "flags" => v = c.flags \cup ({e.type} \cap Flags),
         k # "flags" => e.type \notin Flags,
         k \in Lists \cup {"name", "ech", "flags"}
  PROVE  OneFurther(c, e, d)
<1>2. b.exts = Append(c.exts, e.type) /\ \A f \in HelloFields \ {"exts"} : b[f] = c[f]
  BY DEF Changes
<1>3. \A f \in HelloFields \ {"exts", "grease", k} : d[f] = c[f]
  BY <1>2
<1>4. {"legacy", "suites", "compression", "truncated", "exts", "name", "ech", "flags", "grease"} \cup Lists \subseteq HelloFields
  BY DEF HelloFields, Lists
<1>5. \A f \in {"legacy", "suites", "compression", "truncated"} : d[f] = c[f]
  BY <1>3, <1>4 DEF Lists
<1>6. d.exts = Append(c.exts, e.type)
  BY <1>2, <1>4 DEF Lists
<1>7. ASSUME NEW f \in Lists
      PROVE  d[f] = IF e \in WholeOf(TypeOfList(f)) THEN ListOf(f, e) ELSE c[f]
  <2>1. CASE f = k
    BY <2>1
  <2>2. CASE f # k
    <3>1. e.type # TypeOfList(f)
      BY <2>2, ListsApart
    <3>2. d[f] = c[f]
      BY <1>3, <1>4, <2>2 DEF Lists
    <3> QED BY <3>1, <3>2, KindsApart
  <2> QED BY <2>1, <2>2
<1>8. d.name = IF e \in Naming THEN NameIn(e) ELSE c.name
  BY <1>3, <1>4, KindsApart
<1>9. d.ech = IF e \in OfType(ExtEncryptedClientHello) THEN ECHIn(e) ELSE c.ech
  BY <1>3, <1>4, KindsApart DEF OfType
<1>10. d.flags = c.flags \cup ({e.type} \cap Flags)
  BY <1>3, <1>4
<1>11. d.grease = (c.grease \/ e \in Greasy)
  BY <1>2, <1>4
<1> QED BY <1>5, <1>6, <1>7, <1>8, <1>9, <1>10, <1>11 DEF OneFurther


LEMMA ClientFurther ==
  ASSUME NEW c, IsHello(c), NEW e \in Extension
  PROVE  OneFurther(c, e, ClientExtension(c, e))
<1> DEFINE d == ClientExtension(c, e)
           b == [c EXCEPT !.exts = Append(c.exts, e.type)]
<1>1. e.type \in Nat /\ e.whole \in BOOLEAN /\ (e.type # ExtALPN => e.items \in Seq(Nat))
      /\ (e.type \in Reserved <=> IsGREASE(e.type))
  BY ExtensionIs, GreaseReserved
<1>2. e.type # ExtALPN => StripGREASE(e.items) = Clean(e.items)
  BY <1>1, StripIs
<1>3. Changes(c, b, HelloFields, "exts", Append(c.exts, e.type))
  BY ChangeOne DEF IsHello, HelloFields
<1>4. b = [f \in HelloFields |-> b[f]] /\ \A f \in HelloFields \ {"exts"} : b[f] = c[f]
  BY <1>3 DEF Changes
<1>5. b.grease \in BOOLEAN /\ c = [f \in HelloFields |-> c[f]]
  BY <1>4 DEF IsHello, HelloFields
<1>0. b = [c EXCEPT !.exts = Append(c.exts, e.type)]
  OBVIOUS
<1> HIDE DEF b
<1>6. Arms(c, e, b, d)
  BY <1>0, ClientArms, Zenon
<1> HIDE DEF d
<1>7. /\ DOMAIN ListField = {ExtSupportedVersions, ExtSupportedGroups, ExtSignatureAlgorithms, ExtSignatureAlgorithmsCert}
      /\ ListField[ExtSupportedVersions] = "versions" /\ ListField[ExtSupportedGroups] = "groups"
      /\ ListField[ExtSignatureAlgorithms] = "sigAlgs" /\ ListField[ExtSignatureAlgorithmsCert] = "sigAlgsCert"
  BY DEF ListField, ExtSupportedVersions, ExtSupportedGroups, ExtSignatureAlgorithms, ExtSignatureAlgorithmsCert
<1>8. {"name", "ech", "flags", "grease", "exts"} \cup Lists \subseteq HelloFields
  BY DEF HelloFields, Lists
<1>9. {"name", "ech", "flags", "grease", "exts"} \cap Lists = {}
  BY DEF Lists
<1>10. CASE IsGREASE(e.type)
  <2>1. Changes(c, d, HelloFields, "grease", TRUE)
    <3>1. Changes(c, [c EXCEPT !["grease"] = TRUE], HelloFields, "grease", TRUE)
      BY <1>5, <1>8, ChangeOne, Zenon
    <3> QED BY <1>6, <1>10, <3>1 DEF Arms
  <2>2. d = [f \in HelloFields |-> d[f]] /\ d.grease = TRUE /\ \A f \in HelloFields \ {"grease"} : d[f] = c[f]
    BY <2>1 DEF Changes
  <2>3. /\ e.type # ExtServerName /\ e.type # ExtEncryptedClientHello /\ e.type \notin Flags
        /\ \A f \in Lists : e.type # TypeOfList(f)
    BY <1>10, ReservedUnused, ListsApart, <1>1
  <2>4. \A f \in Lists : e \notin WholeOf(TypeOfList(f)) /\ d[f] = c[f]
    BY <2>2, <2>3, <1>8, <1>9, KindsApart
  <2>5. \A f \in {"legacy", "suites", "compression", "truncated", "name", "ech", "flags", "exts"} : d[f] = c[f]
    BY <2>2 DEF HelloFields
  <2>6. e \notin Naming /\ e \notin OfType(ExtEncryptedClientHello) /\ e \in Greasy /\ {e.type} \cap Flags = {}
    BY <1>10, <2>3, KindsApart
  <2>7. OneFurther(c, e, d)
    BY <1>1, <1>10, <2>2, <2>4, <2>5, <2>6 DEF OneFurther
  <2> QED BY <2>7 DEF d
<1>11. CASE e.type \in DOMAIN ListField
  <2> DEFINE k == ListField[e.type]
             v == IF e \in WholeOf(TypeOfList(k)) THEN ListOf(k, e) ELSE c[k]
  <2>1. ~IsGREASE(e.type) /\ d = ReadList(b, k, e)
    BY <1>6, <1>11, ReservedUnused DEF Arms
  <2>2. k \in Lists /\ e.type = TypeOfList(k) /\ k \notin {"alpn", "modes"} /\ e.type # ExtALPN
        /\ (k = "sigAlgsCert" <=> e.type = ExtSignatureAlgorithmsCert)
    BY <1>7, <1>11, ListsApart DEF Lists, ExtSupportedVersions, ExtSupportedGroups, ExtSignatureAlgorithms, ExtALPN,
         ExtSignatureAlgorithmsCert
  <2>3. e \in WholeOf(TypeOfList(k)) <=> e.whole
    BY <2>2, Kinds
  <2>4. e \in Greasy <=> e.whole /\ k # "sigAlgsCert" /\ HasGREASE(e.items)
    BY <1>7, <1>11, <2>1, <2>2, Kinds DEF ExtSupportedVersions, ExtSupportedGroups, ExtSignatureAlgorithms, ExtKeyShare,
         ExtSignatureAlgorithmsCert
  <2>5. k \notin {"exts", "grease", "name", "ech", "flags"} /\ k \in HelloFields
    BY <1>8, <1>9, <2>2
  <2> HIDE DEF k
  <2>6. d = [f \in HelloFields |-> d[f]] /\ d[k] = v /\ (d.grease = (b.grease \/ e \in Greasy))
        /\ \A f \in HelloFields \ {k, "grease"} : d[f] = b[f]
    <3>1. CASE ~e.whole
      <4>1. d = b
        BY <2>1, <3>1 DEF ReadList
      <4> QED BY <1>4, <1>5, <2>3, <2>4, <2>5, <3>1, <4>1
    <3>2. CASE e.whole
      <4> DEFINE b1 == [b EXCEPT ![k] = Clean(e.items)]
                 g == b.grease \/ (k # "sigAlgsCert" /\ HasGREASE(e.items))
      <4>1. d = [b1 EXCEPT !["grease"] = g]
        <5>1. d = [b EXCEPT ![k] = StripGREASE(e.items), !.grease = b.grease \/ (k # "sigAlgsCert" /\ HasGREASE(e.items))]
          BY <2>1, <2>5, <3>2 DEF ReadList
        <5> QED BY <1>2, <2>2, <5>1
      <4>2. Changes(b, b1, HelloFields, k, Clean(e.items))
        BY <1>4, <2>5, ChangeOne, Zenon
      <4>3. b1 = [f \in HelloFields |-> b1[f]]
        BY <4>2 DEF Changes
      <4> HIDE DEF b1, g
      <4>4. Changes(b1, [b1 EXCEPT !["grease"] = g], HelloFields, "grease", g)
        BY <1>8, <4>3, ChangeOne, Zenon
      <4>5. Changes(b1, d, HelloFields, "grease", g)
        BY <4>1, <4>4
      <4>6. d[k] = v
        BY <2>2, <2>3, <2>5, <3>2, <4>2, <4>5 DEF Changes, ListOf
      <4>7. d.grease = (b.grease \/ e \in Greasy)
        BY <2>4, <3>2, <4>5 DEF Changes, g
      <4> QED BY <4>2, <4>5, <4>6, <4>7 DEF Changes
    <3> QED BY <1>1, <3>1, <3>2
  <2>7. e.type \notin Flags /\ e.type # ExtServerName /\ e.type # ExtEncryptedClientHello
    BY <2>2, ListsApart
  <2> HIDE DEF v
  <2>8. OneFurther(c, e, d)
    BY <1>1, <1>3, <2>1, <2>2, <2>5, <2>6, <2>7, FurtherNamed DEF v
  <2> QED BY <2>8 DEF d
\* An arm that sets one field and notes no GREASE.
<1>12. ASSUME NEW k \in HelloFields \ {"exts", "grease"}, NEW v, d = [b EXCEPT ![k] = v] \/ (d = b /\ v = c[k]),
              e \notin Greasy
       PROVE  d = [f \in HelloFields |-> d[f]] /\ d[k] = v /\ (d.grease = (b.grease \/ e \in Greasy))
                /\ \A f \in HelloFields \ {k, "grease"} : d[f] = b[f]
  <2>1. CASE d = b /\ v = c[k]
    BY <1>4, <1>5, <1>12, <2>1
  <2>2. CASE d = [b EXCEPT ![k] = v]
    <3>1. Changes(b, [b EXCEPT ![k] = v], HelloFields, k, v)
      BY <1>4, ChangeOne, Zenon
    <3>2. Changes(b, d, HelloFields, k, v)
      BY <2>2, <3>1
    <3>3. d = [f \in HelloFields |-> d[f]] /\ d[k] = v /\ \A f \in HelloFields \ {k} : d[f] = b[f]
      BY <3>2 DEF Changes
    <3> QED BY <1>5, <1>8, <1>12, <3>3
  <2> QED BY <1>12, <2>1, <2>2
<1>13. CASE e.type = ExtServerName
  <2> DEFINE v == IF e \in Naming THEN NameIn(e) ELSE c.name
  <2>1. /\ ~IsGREASE(e.type) /\ e.type \notin Flags /\ e.type # ExtEncryptedClientHello /\ e.type # ExtALPN
        /\ \A f \in Lists : e.type # TypeOfList(f)
    BY <1>1, <1>13, ReservedUnused, ListsApart
       DEF Lists, Flags, ExtServerName, ExtStatusRequest, ExtALPN,
         ExtExtendedMasterSecret, ExtSessionTicket, ExtPreSharedKey, ExtEarlyData,
         ExtQUICTransportParams, ExtEncryptedClientHello, ExtRenegotiationInfo
  <2>2. e \notin Greasy
    BY <1>13, <2>1, KindsApart DEF ExtServerName, ExtKeyShare, ExtSupportedVersions, ExtSupportedGroups,
                                    ExtSignatureAlgorithms
  <2>3. d = ReadServerName(b, e)
    BY <1>6, <1>13 DEF Arms
  <2>4. e \in Naming <=> e.whole \/ Hosts(e) # {}
    BY <1>13, Kinds
  <2>5. d = IF Hosts(e) # {} THEN [b EXCEPT !["name"] = NameIn(e)]
            ELSE IF e.whole THEN [b EXCEPT !["name"] = 0] ELSE b
    BY <2>3 DEF ReadServerName, Hosts, NameIn
  <2>6. Hosts(e) = {} => NameIn(e) = 0
    BY DEF NameIn
  <2>7. d = [b EXCEPT !["name"] = v] \/ (d = b /\ v = c["name"])
    BY <2>4, <2>5, <2>6
  <2> HIDE DEF v
  <2>8. "name" \in HelloFields \ {"exts", "grease"} /\ "name" \notin Lists
    BY <1>8, <1>9
  <2>9. d = [f \in HelloFields |-> d[f]] /\ d["name"] = v /\ (d.grease = (b.grease \/ e \in Greasy))
          /\ \A f \in HelloFields \ {"name", "grease"} : d[f] = b[f]
    BY <1>12, <2>2, <2>7, <2>8
  <2>10. OneFurther(c, e, d)
    BY <1>1, <1>3, <2>1, <2>8, <2>9, FurtherNamed DEF v
  <2> QED BY <2>10 DEF d
<1>14. ASSUME NEW k \in {"alpn", "modes"}, e.type = TypeOfList(k),
              d = IF e.whole THEN [b EXCEPT ![k] = e.items] ELSE b
       PROVE  OneFurther(c, e, d)
  <2> DEFINE v == IF e \in WholeOf(TypeOfList(k)) THEN ListOf(k, e) ELSE c[k]
  <2>1. /\ ~IsGREASE(e.type) /\ e.type \notin Flags /\ e.type # ExtEncryptedClientHello /\ e.type # ExtServerName
        /\ k \in Lists /\ k \notin {"name", "ech", "flags", "exts", "grease"} /\ k \in HelloFields
    BY <1>1, <1>8, <1>14, ListsApart DEF Lists
  <2>2. e \notin Greasy
    BY <1>14, <2>1, KindsApart, ListsApart DEF ExtALPN, ExtPSKKeyExchangeModes, ExtKeyShare, ExtSupportedVersions,
       ExtSupportedGroups, ExtSignatureAlgorithms
  <2>3. e \in WholeOf(TypeOfList(k)) <=> e.whole
    BY <1>14, Kinds
  <2>4. d = [b EXCEPT ![k] = v] \/ (d = b /\ v = c[k])
    BY <1>14, <2>3 DEF ListOf
  <2> HIDE DEF v
  <2>5. d = [f \in HelloFields |-> d[f]] /\ d[k] = v /\ (d.grease = (b.grease \/ e \in Greasy))
          /\ \A f \in HelloFields \ {k, "grease"} : d[f] = b[f]
    BY <1>12, <2>1, <2>2, <2>4
  <2> QED BY <1>1, <1>3, <1>14, <2>1, <2>5, FurtherNamed, ZenonT(40) DEF v
<1>15. CASE e.type = ExtALPN
  <2>1. OneFurther(c, e, d)
    BY <1>6, <1>14, <1>15, ListsApart DEF Arms
  <2> QED BY <2>1 DEF d
<1>16. CASE e.type = ExtPSKKeyExchangeModes
  <2>1. OneFurther(c, e, d)
    BY <1>6, <1>14, <1>16, ListsApart DEF Arms
  <2> QED BY <2>1 DEF d
<1>17. CASE e.type = ExtEncryptedClientHello
  <2>1. /\ ~IsGREASE(e.type) /\ e.type \notin Flags /\ e.type # ExtServerName
        /\ \A f \in Lists : e.type # TypeOfList(f)
    BY <1>1, <1>17, ReservedUnused, ListsApart
       DEF Lists, Flags, ExtServerName, ExtStatusRequest,
         ExtExtendedMasterSecret, ExtSessionTicket, ExtPreSharedKey, ExtEarlyData,
         ExtQUICTransportParams, ExtEncryptedClientHello, ExtRenegotiationInfo
  <2>2. e \notin Greasy
    BY <1>17, <2>1, KindsApart DEF ExtEncryptedClientHello, ExtKeyShare, ExtSupportedVersions, ExtSupportedGroups,
                                    ExtSignatureAlgorithms
  <2>3. d = ReadECH(b, e)
    BY <1>6, <1>17 DEF Arms
  <2>4. d = [b EXCEPT !["ech"] = ECHIn(e)]
    BY <2>3 DEF ReadECH, ECHIn
  <2>5. "ech" \in HelloFields \ {"exts", "grease"} /\ "ech" \notin Lists
    BY <1>8, <1>9
  <2>6. d = [f \in HelloFields |-> d[f]] /\ d["ech"] = ECHIn(e) /\ (d.grease = (b.grease \/ e \in Greasy))
          /\ \A f \in HelloFields \ {"ech", "grease"} : d[f] = b[f]
    BY <1>12, <2>2, <2>4, <2>5
  <2>7. OneFurther(c, e, d)
    BY <1>1, <1>3, <1>17, <2>1, <2>5, <2>6, FurtherNamed
  <2> QED BY <2>7 DEF d
<1>18. CASE ~IsGREASE(e.type) /\ e.type \notin DOMAIN ListField
              /\ e.type \notin {ExtServerName, ExtALPN, ExtKeyShare, ExtPSKKeyExchangeModes, ExtEncryptedClientHello}
  <2>1. \A f \in Lists : e.type # TypeOfList(f)
    BY <1>7, <1>18, ListsApart DEF Lists
  <2>2. e \notin Greasy
    BY <1>7, <1>18, KindsApart
  <2>3. d = [b EXCEPT !["flags"] = c["flags"] \cup ({e.type} \cap Flags)]
    <3>1. d = [b EXCEPT !.flags = b.flags \cup ({e.type} \cap Flags)]
      BY <1>6, <1>18 DEF Arms
    <3>2. b["flags"] = c["flags"]
      BY <1>4, <1>8
    <3> QED BY <3>1, <3>2
  <2>4. "flags" \in HelloFields \ {"exts", "grease"} /\ "flags" \notin Lists
    BY <1>8, <1>9
  <2> DEFINE v == c["flags"] \cup ({e.type} \cap Flags)
  <2>a. v = c["flags"] \cup ({e.type} \cap Flags) /\ d = [b EXCEPT !["flags"] = v]
    BY <2>3
  <2> HIDE DEF v
  <2>5. d = [f \in HelloFields |-> d[f]] /\ d["flags"] = v /\ (d.grease = (b.grease \/ e \in Greasy))
          /\ \A f \in HelloFields \ {"flags", "grease"} : d[f] = b[f]
    BY <1>12, <2>2, <2>a, <2>4
  <2>6. OneFurther(c, e, d)
    BY <1>1, <1>3, <1>18, <2>1, <2>4, <2>5, <2>a, FurtherNamed
  <2> QED BY <2>6 DEF d
<1>19. CASE e.type = ExtKeyShare
  <2> DEFINE v == IF e \in WholeOf(TypeOfList("shares")) THEN ListOf("shares", e) ELSE c["shares"]
             g == b.grease \/ HasGREASE(e.items)
  <2>1. d = ReadKeyShare(b, e) /\ e.type = TypeOfList("shares")
    BY <1>6, <1>19, ListsApart DEF Arms
  <2>2. /\ ~IsGREASE(e.type) /\ e.type \notin Flags /\ e.type # ExtEncryptedClientHello /\ e.type # ExtServerName
        /\ e.type # ExtALPN /\ "shares" \in Lists /\ "shares" \notin {"name", "ech", "flags", "exts", "grease"}
        /\ "shares" \in HelloFields
    BY <1>1, <1>8, <1>19, <2>1, ListsApart DEF Lists, ExtALPN, ExtKeyShare
  <2>3. e \in Greasy <=> HasGREASE(e.items)
    <3>1. e \in Greasy <=>
            \/ IsGREASE(e.type)
            \/ /\ \/ e.type = ExtKeyShare
                  \/ e.whole /\ e.type \in {ExtSupportedVersions, ExtSupportedGroups, ExtSignatureAlgorithms}
               /\ HasGREASE(e.items)
      BY Kinds, Zenon
    <3>2. ~IsGREASE(e.type)
      BY <2>2
    <3>3. e \in Greasy => HasGREASE(e.items)
      BY <3>1, <3>2
    <3>4. HasGREASE(e.items) => e \in Greasy
      BY <1>19, <3>1
    <3> QED BY <3>3, <3>4
  <2>4. e \in WholeOf(TypeOfList("shares")) <=> e.whole
    BY <2>1, Kinds
  <2>5. b["shares"] = c["shares"]
    BY <1>4, <2>2
  <2>6. v = IF e.whole THEN StripGREASE(e.items) ELSE b.shares
    BY <1>2, <2>2, <2>4, <2>5 DEF ListOf
  <2> DEFINE b1 == [b EXCEPT !["shares"] = v]
  <2> HIDE DEF v
  <2>7. d = [b1 EXCEPT !["grease"] = g]
    BY <2>1, <2>6 DEF ReadKeyShare
  <2>8. Changes(b, b1, HelloFields, "shares", v)
    BY <1>4, <2>2, ChangeOne, Zenon
  <2>9. b1 = [f \in HelloFields |-> b1[f]]
    BY <2>8 DEF Changes
  <2> HIDE DEF b1, g
  <2>10. Changes(b1, [b1 EXCEPT !["grease"] = g], HelloFields, "grease", g)
    BY <1>8, <2>9, ChangeOne, Zenon
  <2>11. Changes(b1, d, HelloFields, "grease", g)
    BY <2>7, <2>10
  <2>12. d.grease = (b.grease \/ e \in Greasy)
    BY <2>3, <2>11 DEF Changes, g
  <2>13. d = [f \in HelloFields |-> d[f]] /\ d["shares"] = v
          /\ \A f \in HelloFields \ {"shares", "grease"} : d[f] = b[f]
    BY <2>2, <2>8, <2>11 DEF Changes
  <2>14. OneFurther(c, e, d)
    BY <1>1, <1>3, <2>1, <2>2, <2>12, <2>13, FurtherNamed, SMTT(30) DEF v
  <2> QED BY <2>14 DEF d
<1> QED BY <1>10, <1>11, <1>13, <1>15, <1>16, <1>17, <1>18, <1>19


\* The walk takes the closed form from one extension to the next.
LEMMA DecodedIs ==
  ASSUME NEW m, NEW s
  PROVE  IsHello(Decoded(m, s))
<1>1. Decoded(m, s) = [f \in HelloFields |-> Decoded(m, s)[f]] /\ Decoded(m, s).grease \in BOOLEAN
  BY DEF Decoded, HelloFields
<1> QED BY <1>1 DEF IsHello

LEMMA DecodedNext ==
  ASSUME NEW m, NEW s \in Seq(Extension), NEW e \in Extension
  PROVE  ClientExtension(Decoded(m, s), e) = Decoded(m, Append(s, e))
<1> DEFINE c == Decoded(m, s)
           d == ClientExtension(c, e)
           a == Decoded(m, Append(s, e))
<1>1. OneFurther(c, e, a)
  BY DecodedFurther
<1>2. IsHello(c)
  BY DecodedIs
<1> HIDE DEF a
<1>3. OneFurther(c, e, d)
  <2> HIDE DEF c
  <2> QED BY <1>2, ClientFurther
<1> HIDE DEF c, d
<1>4. \A f \in Lists \cup {"legacy", "suites", "compression", "truncated", "exts", "name", "ech", "flags", "grease"} :
        d[f] = a[f]
  <2>1. \A f \in Lists : d[f] = a[f]
    BY <1>1, <1>3 DEF OneFurther
  <2>2. \A f \in {"legacy", "suites", "compression", "truncated"} : d[f] = a[f]
    BY <1>1, <1>3 DEF OneFurther
  <2>3. d.exts = a.exts /\ d.name = a.name /\ d.ech = a.ech /\ d.flags = a.flags
    BY <1>1, <1>3 DEF OneFurther
  <2>4. d.grease = a.grease
    BY <1>1, <1>3 DEF OneFurther
  <2> QED BY <2>1, <2>2, <2>3, <2>4
<1>5. HelloFields = Lists \cup {"legacy", "suites", "compression", "truncated", "exts", "name", "ech", "flags", "grease"}
  BY DEF HelloFields, Lists
<1>6. d = [f \in HelloFields |-> d[f]] /\ a = [f \in HelloFields |-> a[f]]
  BY <1>1, <1>3 DEF OneFurther
<1>7. d = a
  BY <1>4, <1>5, <1>6
<1> QED BY <1>7 DEF a, c, d

LEMMA DecodedFirst ==
  ASSUME NEW m \in ClientMessage
  PROVE  ClientHead(m) = Decoded(m, <<>>)
<1>1. m.suites \in Seq(Nat) /\ <<>> \in Seq(Nat) /\ <<>> \in Seq(Extension)
  BY DEF ClientMessage
<1>2. StripGREASE(m.suites) = Clean(m.suites) /\ (HasGREASE(m.suites) <=> Range(m.suites) \cap Reserved # {})
  BY <1>1, StripIs
<1>3. Clean(<<>>) = <<>>
  BY <1>1, WithoutType, Zenon DEF Clean
<1>4. TypesOf(<<>>) = <<>> /\ Range(<<>>) = {}
  BY DEF TypesOf, Range
<1>5. \A E : Spots(<<>>, E) = {}
  BY DEF Spots
<1>6. \A E : Latest(<<>>, E) = None
  BY <1>5 DEF Latest
<1>7. None.items = <<>> /\ NameIn(None) = 0
  BY DEF None, NameIn, Hosts
<1>8. Decoded(m, <<>>) =
        [legacy |-> m.legacy, suites |-> Clean(m.suites), compression |-> m.compression,
         exts |-> Clean(TypesOf(<<>>)), name |-> NameIn(Latest(<<>>, Naming)),
         alpn |-> Latest(<<>>, WholeOf(ExtALPN)).items,
         versions |-> Clean(Latest(<<>>, WholeOf(ExtSupportedVersions)).items),
         groups |-> Clean(Latest(<<>>, WholeOf(ExtSupportedGroups)).items),
         sigAlgs |-> Clean(Latest(<<>>, WholeOf(ExtSignatureAlgorithms)).items),
         sigAlgsCert |-> Clean(Latest(<<>>, WholeOf(ExtSignatureAlgorithmsCert)).items),
         shares |-> Clean(Latest(<<>>, WholeOf(ExtKeyShare)).items),
         modes |-> Latest(<<>>, WholeOf(ExtPSKKeyExchangeModes)).items,
         ech |-> IF Spots(<<>>, OfType(ExtEncryptedClientHello)) = {} THEN Absent
                 ELSE ECHIn(Latest(<<>>, OfType(ExtEncryptedClientHello))),
         flags |-> Range(TypesOf(<<>>)) \cap Flags,
         grease |-> Range(m.suites) \cap Reserved # {} \/ Spots(<<>>, Greasy) # {},
         truncated |-> m.block = "short"]
  BY Zenon DEF Decoded
<1>9. Decoded(m, <<>>) =
        [legacy |-> m.legacy, suites |-> Clean(m.suites), compression |-> m.compression,
         exts |-> <<>>, name |-> 0, alpn |-> <<>>, versions |-> <<>>, groups |-> <<>>,
         sigAlgs |-> <<>>, sigAlgsCert |-> <<>>, shares |-> <<>>, modes |-> <<>>, ech |-> Absent,
         flags |-> {}, grease |-> Range(m.suites) \cap Reserved # {}, truncated |-> m.block = "short"]
  BY <1>3, <1>4, <1>5, <1>6, <1>7, <1>8
<1>10. HasGREASE(m.suites) = (Range(m.suites) \cap Reserved # {})
  BY <1>2 DEF HasGREASE
<1>11. ClientHead(m) =
         [legacy |-> m.legacy, suites |-> Clean(m.suites), compression |-> m.compression,
          exts |-> <<>>, name |-> 0, alpn |-> <<>>, versions |-> <<>>, groups |-> <<>>,
          sigAlgs |-> <<>>, sigAlgsCert |-> <<>>, shares |-> <<>>, modes |-> <<>>, ech |-> Absent,
          flags |-> {}, grease |-> Range(m.suites) \cap Reserved # {}, truncated |-> m.block = "short"]
  BY <1>2, <1>10, Zenon DEF ClientHead
<1> QED BY <1>9, <1>11, Zenon

\* The whole walk.
LEMMA ReadClientIs ==
  ASSUME NEW m \in ClientMessage
  PROVE  ReadClient(m) = Cut(Decoded(m, m.exts), m)
<1> DEFINE L == Len(m.exts)
           Upto(n) == SubSeq(m.exts, 1, n)
           read == CHOOSE r : r = [n \in 0..L |-> IF n = 0 THEN ClientHead(m) ELSE ClientExtension(r[n - 1], m.exts[n])]
           g == [n \in 0..L |-> Decoded(m, Upto(n))]
<1>1. m.exts \in Seq(Extension) /\ L \in Nat
  BY DEF ClientMessage
<1>2. ReadClient(m) = Cut(read[L], m)
  BY DEF ReadClient
<1>3. /\ Upto(0) = <<>> /\ Upto(L) = m.exts
      /\ \A n \in 1..L : /\ m.exts[n] \in Extension /\ Upto(n - 1) \in Seq(Extension) /\ n - 1 \in 0..L
                         /\ Upto(n) = Append(Upto(n - 1), m.exts[n])
  <2>0. /\ SubSeq(m.exts, 1, 0) = <<>> /\ SubSeq(m.exts, 1, Len(m.exts)) = m.exts
        /\ \A n \in 0..(Len(m.exts) - 1) :
              /\ SubSeq(m.exts, 1, n) \in Seq(Extension) /\ m.exts[n + 1] \in Extension
              /\ SubSeq(m.exts, 1, n + 1) = Append(SubSeq(m.exts, 1, n), m.exts[n + 1])
    BY <1>1, FirstMembers, Zenon
  <2>1. Upto(0) = <<>> /\ Upto(L) = m.exts
    BY <2>0, Zenon
  <2>2. \A n \in 0..(L - 1) : /\ Upto(n) \in Seq(Extension) /\ m.exts[n + 1] \in Extension
                              /\ Upto(n + 1) = Append(Upto(n), m.exts[n + 1])
    BY <2>0, Zenon
  <2> HIDE DEF L, Upto
  <2>3. \A n \in 1..L : n - 1 \in 0..(L - 1) /\ (n - 1) + 1 = n /\ n - 1 \in 0..L
    BY <1>1
  <2> QED BY <2>1, <2>2, <2>3
<1> HIDE DEF L, Upto
<1>4. g[0] = ClientHead(m) /\ \A n \in 1..L : g[n] = ClientExtension(g[n - 1], m.exts[n])
  <2>1. g[0] = Decoded(m, <<>>)
    BY <1>1, <1>3
  <2>2. ASSUME NEW n \in 1..L PROVE g[n] = ClientExtension(g[n - 1], m.exts[n])
    <3>1. g[n] = Decoded(m, Upto(n)) /\ g[n - 1] = Decoded(m, Upto(n - 1))
      BY <1>3, <2>2
    <3> QED BY <1>3, <3>1, DecodedNext
  <2> QED BY <2>1, <2>2, DecodedFirst
<1>5. g = [n \in 0..L |-> IF n = 0 THEN ClientHead(m) ELSE ClientExtension(g[n - 1], m.exts[n])]
  <2>1. \A n \in 0..L : n # 0 => n \in 1..L
    BY <1>1
  <2>2. g = [n \in 0..L |-> g[n]]
    OBVIOUS
  <2> HIDE DEF g
  <2> QED BY <1>4, <2>1, <2>2
<1>6. read = [n \in 0..L |-> IF n = 0 THEN ClientHead(m) ELSE ClientExtension(read[n - 1], m.exts[n])]
  <2> HIDE DEF g
  <2> QED BY <1>5
<1>a. g[L] = Decoded(m, m.exts)
  BY <1>1, <1>3
<1> HIDE DEF read, g
<1> DEFINE N == {n \in 0..L : read[n] = g[n]}
<1>7. 0 \in N /\ \A n \in 0..(L - 1) : n \in N => n + 1 \in N
  <2>1. \A n \in 0..(L - 1) : n + 1 \in 1..L /\ (n + 1) - 1 = n /\ n + 1 \in 0..L /\ n + 1 # 0
    BY <1>1
  <2>2. 0 \in 0..L
    BY <1>1
  <2>3. \A n \in 0..(L - 1) : read[n + 1] = ClientExtension(read[n], m.exts[n + 1])
                              /\ g[n + 1] = ClientExtension(g[n], m.exts[n + 1])
    BY <1>4, <1>6, <2>1
  <2> QED BY <1>4, <1>6, <2>1, <2>2, <2>3
<1>8. 0..L \subseteq N
  <2> HIDE DEF N
  <2> QED BY <1>1, <1>7, InductionUpTo
<1>9. read[L] = g[L]
  BY <1>1, <1>8
<1> QED BY <1>2, <1>9, <1>a



(***************************************************************************)
(* The same of a ServerHello.                                              *)
(***************************************************************************)
Saying == {e \in Extension : e.type = ExtSupportedVersions /\ e.items # <<>>}
Grouping(retry) == {e \in Extension : e.type = ExtKeyShare /\ e.items # <<>> /\ (retry \/ e.whole)}
Speaking == {e \in Extension : e.type = ExtALPN /\ e.whole /\ e.items # <<>>}
FirstOf(e, none) == IF e.items = <<>> THEN none ELSE e.items[1]

Answered(m, s) ==
  [legacy |-> m.legacy, retry |-> m.retry, suite |-> m.suites[1], exts |-> Clean(TypesOf(s)),
   version |-> FirstOf(Latest(s, Saying), 0), group |-> FirstOf(Latest(s, Grouping(m.retry)), 0),
   alpn |-> FirstOf(Latest(s, Speaking), <<>>), psk |-> ExtPreSharedKey \in Range(TypesOf(s)),
   truncated |-> m.block = "short"]

AnswerFields == {"legacy", "retry", "suite", "exts", "version", "group", "alpn", "psk", "truncated"}
IsAnswer(c) == c = [f \in AnswerFields |-> c[f]] /\ c.psk \in BOOLEAN

\* The answer d is c after one more extension e.
AnswerFurther(c, e, d) ==
  /\ d = [f \in AnswerFields |-> d[f]]
  /\ \A f \in {"legacy", "retry", "suite", "truncated"} : d[f] = c[f]
  /\ d.exts = IF e.type \in Reserved THEN c.exts ELSE Append(c.exts, e.type)
  /\ d.version = IF e \in Saying THEN e.items[1] ELSE c.version
  /\ d.group = IF e \in Grouping(c.retry) THEN e.items[1] ELSE c.group
  /\ d.alpn = IF e \in Speaking THEN e.items[1] ELSE c.alpn
  /\ d.psk = (c.psk \/ e.type = ExtPreSharedKey)

LEMMA AnsweredIs ==
  ASSUME NEW m, NEW s
  PROVE  IsAnswer(Answered(m, s))
<1>1. Answered(m, s) = [f \in AnswerFields |-> Answered(m, s)[f]] /\ Answered(m, s).psk \in BOOLEAN
  BY DEF Answered, AnswerFields
<1> QED BY <1>1 DEF IsAnswer

LEMMA AnsweredFurther ==
  ASSUME NEW m, NEW s \in Seq(Extension), NEW e \in Extension
  PROVE  AnswerFurther(Answered(m, s), e, Answered(m, Append(s, e)))
<1> DEFINE c == Answered(m, s)
           d == Answered(m, Append(s, e))
<1>1. \A E : Latest(Append(s, e), E) = IF e \in E THEN e ELSE Latest(s, E)
  BY LatestAppend
<1>2. /\ d = [f \in AnswerFields |-> d[f]]
      /\ d.legacy = c.legacy /\ d.retry = c.retry /\ d.suite = c.suite /\ d.truncated = c.truncated /\ c.retry = m.retry
  BY DEF Answered, AnswerFields
<1>3. TypesOf(s) \in Seq(Nat) /\ TypesOf(Append(s, e)) = Append(TypesOf(s), e.type) /\ e.type \in Nat
  BY TypesAppend
<1>4. d.exts = IF e.type \in Reserved THEN c.exts ELSE Append(c.exts, e.type)
  <2>1. d.exts = Clean(TypesOf(Append(s, e))) /\ c.exts = Clean(TypesOf(s))
    BY DEF Answered
  <2>2. \A l \in Seq(Nat), x \in Nat : Without(Append(l, x), Reserved) =
          IF x \in Reserved THEN Without(l, Reserved) ELSE Append(Without(l, Reserved), x)
    <3>1. ASSUME NEW l \in Seq(Nat), NEW x \in Nat
          PROVE  Without(Append(l, x), Reserved) =
                   IF x \in Reserved THEN Without(l, Reserved) ELSE Append(Without(l, Reserved), x)
      BY WithoutAppend, SMTT(60)
    <3> QED BY <3>1
  <2>3. Without(Append(TypesOf(s), e.type), Reserved) =
          IF e.type \in Reserved THEN Without(TypesOf(s), Reserved)
          ELSE Append(Without(TypesOf(s), Reserved), e.type)
    BY <1>3, <2>2, Zenon
  <2> QED BY <1>3, <2>1, <2>3, Zenon DEF Clean
<1>5. d.psk = (c.psk \/ e.type = ExtPreSharedKey)
  <2>1. d.psk = (ExtPreSharedKey \in Range(TypesOf(Append(s, e)))) /\ c.psk = (ExtPreSharedKey \in Range(TypesOf(s)))
    BY DEF Answered
  <2>2. \A l \in Seq(Nat), x \in Nat : Range(Append(l, x)) = Range(l) \cup {x}
    BY RangeAppend
  <2>3. Range(TypesOf(Append(s, e))) = Range(TypesOf(s)) \cup {e.type}
    BY <1>3, <2>2, Zenon
  <2>4. (ExtPreSharedKey \in Range(TypesOf(Append(s, e)))) =
          ((ExtPreSharedKey \in Range(TypesOf(s))) \/ e.type = ExtPreSharedKey)
    BY <2>3
  <2> QED BY <2>1, <2>4, Zenon
<1>6. \A E, none : (e \in E => e.items # <<>>) =>
        FirstOf(Latest(Append(s, e), E), none) = IF e \in E THEN e.items[1] ELSE FirstOf(Latest(s, E), none)
  BY <1>1 DEF FirstOf
<1>7. d.version = IF e \in Saying THEN e.items[1] ELSE c.version
  BY <1>6 DEF Answered, Saying
<1>8. d.group = IF e \in Grouping(m.retry) THEN e.items[1] ELSE c.group
  BY <1>6 DEF Answered, Grouping
<1>9. d.alpn = IF e \in Speaking THEN e.items[1] ELSE c.alpn
  BY <1>6 DEF Answered, Speaking
<1> HIDE DEF c, d
<1>10. AnswerFurther(c, e, d)
  BY <1>2, <1>4, <1>5, <1>7, <1>8, <1>9 DEF AnswerFurther
<1> QED BY <1>10 DEF c, d

LEMMA ServerFurther ==
  ASSUME NEW c, IsAnswer(c), NEW e \in Extension
  PROVE  AnswerFurther(c, e, ServerExtension(c, e))
<1> DEFINE d == ServerExtension(c, e)
           b == [c EXCEPT !.exts = Append(c.exts, e.type)]
           v1 == [b EXCEPT !.version = e.items[1]]
           v2 == ServerKeyShare(b, e)
           v3 == [b EXCEPT !.alpn = e.items[1]]
           v4 == [b EXCEPT !.psk = TRUE]
           first == e.items # <<>>
<1>1. d = CASE IsGREASE(e.type)                  -> c
            [] e.type = ExtSupportedVersions     -> IF first THEN v1 ELSE b
            [] e.type = ExtKeyShare              -> v2
            [] e.type = ExtALPN                  -> IF e.whole /\ first THEN v3 ELSE b
            [] e.type = ExtPreSharedKey          -> v4
            [] OTHER                             -> b
  BY DEF ServerExtension
<1>2. e.type \in Nat /\ e.whole \in BOOLEAN /\ (e.type \in Reserved <=> IsGREASE(e.type))
  BY ExtensionIs, GreaseReserved
<1>3. IsGREASE(e.type) => e.type \notin {ExtSupportedVersions, ExtKeyShare, ExtALPN, ExtPreSharedKey}
  BY ReservedUnused DEF ListField, Flags
<1>4. /\ ExtSupportedVersions # ExtKeyShare /\ ExtSupportedVersions # ExtALPN /\ ExtSupportedVersions # ExtPreSharedKey
      /\ ExtKeyShare # ExtALPN /\ ExtKeyShare # ExtPreSharedKey /\ ExtALPN # ExtPreSharedKey
  BY DEF ExtSupportedVersions, ExtKeyShare, ExtALPN, ExtPreSharedKey
<1>5. c = [f \in AnswerFields |-> c[f]] /\ c.psk \in BOOLEAN
  BY DEF IsAnswer
<1>6. Changes(c, b, AnswerFields, "exts", Append(c.exts, e.type))
  BY <1>5, ChangeOne DEF AnswerFields
<1>7. b = [f \in AnswerFields |-> b[f]] /\ b.exts = Append(c.exts, e.type)
      /\ \A f \in AnswerFields \ {"exts"} : b[f] = c[f]
  BY <1>6 DEF Changes
<1> HIDE DEF v1, v2, v3, v4
<1>8. /\ IsGREASE(e.type) => d = c
      /\ e.type = ExtSupportedVersions => d = IF first THEN v1 ELSE b
      /\ e.type = ExtKeyShare => d = v2
      /\ e.type = ExtALPN => d = IF e.whole /\ first THEN v3 ELSE b
      /\ e.type = ExtPreSharedKey => d = v4
      /\ ~IsGREASE(e.type) /\ e.type \notin {ExtSupportedVersions, ExtKeyShare, ExtALPN, ExtPreSharedKey} => d = b
  <2> HIDE DEF b, d
  <2> QED BY <1>1, <1>3, <1>4
<1> HIDE DEF b, d
\* An arm that sets at most one field.
<1>9. ASSUME NEW k \in {"version", "group", "alpn", "psk"}, NEW v, d = [b EXCEPT ![k] = v] \/ (d = b /\ v = c[k]),
             ~IsGREASE(e.type),
             k = "version" => v = IF e \in Saying THEN e.items[1] ELSE c.version, k # "version" => e \notin Saying,
             k = "group" => v = IF e \in Grouping(c.retry) THEN e.items[1] ELSE c.group,
             k # "group" => e \notin Grouping(c.retry),
             k = "alpn" => v = IF e \in Speaking THEN e.items[1] ELSE c.alpn, k # "alpn" => e \notin Speaking,
             k = "psk" => v = (c.psk \/ e.type = ExtPreSharedKey), k # "psk" => e.type # ExtPreSharedKey
      PROVE  AnswerFurther(c, e, d)
  <2>1. k \in AnswerFields
    BY DEF AnswerFields
  <2>2. d = [f \in AnswerFields |-> d[f]] /\ d[k] = v /\ \A f \in AnswerFields \ {k} : d[f] = b[f]
    <3>1. CASE d = b /\ v = c[k]
      BY <1>7, <2>1, <3>1
    <3>2. CASE d = [b EXCEPT ![k] = v]
      <4>1. Changes(b, [b EXCEPT ![k] = v], AnswerFields, k, v)
        BY <1>7, <2>1, ChangeOne, Zenon
      <4> QED BY <3>2, <4>1 DEF Changes
    <3> QED BY <1>9, <3>1, <3>2
  <2>3. \A f \in AnswerFields \ {k, "exts"} : d[f] = c[f]
    BY <1>7, <2>2
  <2>4. d.exts = Append(c.exts, e.type)
    BY <1>7, <2>2 DEF AnswerFields
  <2>5. \A f \in {"legacy", "retry", "suite", "truncated"} : d[f] = c[f]
    BY <2>3 DEF AnswerFields
  <2>6. d.version = IF e \in Saying THEN e.items[1] ELSE c.version
    BY <1>9, <2>2, <2>3 DEF AnswerFields
  <2>7. d.group = IF e \in Grouping(c.retry) THEN e.items[1] ELSE c.group
    BY <1>9, <2>2, <2>3 DEF AnswerFields
  <2>8. d.alpn = IF e \in Speaking THEN e.items[1] ELSE c.alpn
    BY <1>9, <2>2, <2>3 DEF AnswerFields
  <2>9. d.psk = (c.psk \/ e.type = ExtPreSharedKey)
    BY <1>5, <1>9, <2>2, <2>3 DEF AnswerFields
  <2> QED BY <1>2, <1>9, <2>2, <2>4, <2>5, <2>6, <2>7, <2>8, <2>9 DEF AnswerFurther
<1>10. /\ e \in Saying <=> e.type = ExtSupportedVersions /\ first
       /\ e \in Grouping(c.retry) <=> e.type = ExtKeyShare /\ first /\ (c.retry \/ e.whole)
       /\ e \in Speaking <=> e.type = ExtALPN /\ e.whole /\ first
  BY DEF Saying, Grouping, Speaking
<1> HIDE DEF first
<1>11. CASE IsGREASE(e.type)
  <2>1. d = c /\ e \notin Saying /\ e \notin Grouping(c.retry) /\ e \notin Speaking /\ e.type # ExtPreSharedKey
    BY <1>3, <1>8, <1>10, <1>11
  <2>2. AnswerFurther(c, e, d)
    BY <1>2, <1>5, <1>11, <2>1 DEF AnswerFurther, AnswerFields
  <2> QED BY <2>2 DEF d
<1>12. CASE e.type = ExtSupportedVersions
  <2> DEFINE v == IF e \in Saying THEN e.items[1] ELSE c.version
  <2>1. d = [b EXCEPT !["version"] = v] \/ (d = b /\ v = c["version"])
    BY <1>8, <1>10, <1>12 DEF v1
  <2>2. v = IF e \in Saying THEN e.items[1] ELSE c.version
    OBVIOUS
  <2> HIDE DEF v
  <2>3. ~IsGREASE(e.type) /\ e \notin Grouping(c.retry) /\ e \notin Speaking /\ e.type # ExtPreSharedKey
    BY <1>3, <1>4, <1>10, <1>12
  <2>4. AnswerFurther(c, e, d)
    BY <1>9, <2>1, <2>2, <2>3
  <2> QED BY <2>4 DEF d
<1>13. CASE e.type = ExtKeyShare
  <2> DEFINE v == IF e \in Grouping(c.retry) THEN e.items[1] ELSE c.group
  <2>0. b.retry = c.retry
    BY <1>7 DEF AnswerFields
  <2>1. d = [b EXCEPT !["group"] = v] \/ (d = b /\ v = c["group"])
    BY <1>8, <1>10, <1>13, <2>0 DEF v2, ServerKeyShare, first
  <2>2. v = IF e \in Grouping(c.retry) THEN e.items[1] ELSE c.group
    OBVIOUS
  <2> HIDE DEF v
  <2>3. ~IsGREASE(e.type) /\ e \notin Saying /\ e \notin Speaking /\ e.type # ExtPreSharedKey
    BY <1>3, <1>4, <1>10, <1>13
  <2>4. AnswerFurther(c, e, d)
    BY <1>9, <2>1, <2>2, <2>3
  <2> QED BY <2>4 DEF d
<1>14. CASE e.type = ExtALPN
  <2> DEFINE v == IF e \in Speaking THEN e.items[1] ELSE c.alpn
  <2>1. d = [b EXCEPT !["alpn"] = v] \/ (d = b /\ v = c["alpn"])
    BY <1>8, <1>10, <1>14 DEF v3
  <2>2. v = IF e \in Speaking THEN e.items[1] ELSE c.alpn
    OBVIOUS
  <2> HIDE DEF v
  <2>3. ~IsGREASE(e.type) /\ e \notin Saying /\ e \notin Grouping(c.retry) /\ e.type # ExtPreSharedKey
    BY <1>3, <1>4, <1>10, <1>14
  <2>4. AnswerFurther(c, e, d)
    BY <1>9, <2>1, <2>2, <2>3
  <2> QED BY <2>4 DEF d
<1>15. CASE ~IsGREASE(e.type) /\ e.type \notin {ExtSupportedVersions, ExtKeyShare, ExtALPN}
  <2> DEFINE v == c.psk \/ e.type = ExtPreSharedKey
  <2>1. d = [b EXCEPT !["psk"] = v] \/ (d = b /\ v = c["psk"])
    <3>1. CASE e.type = ExtPreSharedKey
      BY <1>8, <1>15, <3>1 DEF v4
    <3>2. CASE e.type # ExtPreSharedKey
      BY <1>5, <1>8, <1>15, <3>2
    <3> QED BY <3>1, <3>2
  <2>2. v = (c.psk \/ e.type = ExtPreSharedKey)
    OBVIOUS
  <2> HIDE DEF v
  <2>3. ~IsGREASE(e.type) /\ e \notin Saying /\ e \notin Grouping(c.retry) /\ e \notin Speaking
    BY <1>10, <1>15
  <2>4. AnswerFurther(c, e, d)
    BY <1>9, <2>1, <2>2, <2>3
  <2> QED BY <2>4 DEF d
<1> QED BY <1>11, <1>12, <1>13, <1>14, <1>15


LEMMA AnsweredNext ==
  ASSUME NEW m, NEW s \in Seq(Extension), NEW e \in Extension
  PROVE  ServerExtension(Answered(m, s), e) = Answered(m, Append(s, e))
<1> DEFINE c == Answered(m, s)
           d == ServerExtension(c, e)
           a == Answered(m, Append(s, e))
<1>1. AnswerFurther(c, e, a)
  BY AnsweredFurther
<1>2. IsAnswer(c)
  BY AnsweredIs
<1> HIDE DEF a
<1>3. AnswerFurther(c, e, d)
  <2> HIDE DEF c
  <2> QED BY <1>2, ServerFurther
<1> HIDE DEF c, d
<1>4. \A f \in AnswerFields : d[f] = a[f]
  <2>1. \A f \in {"legacy", "retry", "suite", "truncated"} : d[f] = a[f]
    BY <1>1, <1>3 DEF AnswerFurther
  <2>2. d.exts = a.exts /\ d.version = a.version /\ d.group = a.group /\ d.alpn = a.alpn /\ d.psk = a.psk
    BY <1>1, <1>3 DEF AnswerFurther
  <2> QED BY <2>1, <2>2 DEF AnswerFields
<1>5. d = [f \in AnswerFields |-> d[f]] /\ a = [f \in AnswerFields |-> a[f]]
  BY <1>1, <1>3 DEF AnswerFurther
<1>6. d = a
  BY <1>4, <1>5
<1> QED BY <1>6 DEF a, c, d

LEMMA AnsweredFirst ==
  ASSUME NEW m \in ServerMessage
  PROVE  ServerHead(m) = Answered(m, <<>>)
<1>1. <<>> \in Seq(Nat)
  OBVIOUS
<1>2. Clean(<<>>) = <<>>
  BY <1>1, WithoutType, Zenon DEF Clean
<1>3. TypesOf(<<>>) = <<>> /\ Range(<<>>) = {}
  BY DEF TypesOf, Range
<1>4. \A E : Latest(<<>>, E) = None
  BY DEF Latest, Spots
<1>5. \A none : FirstOf(None, none) = none
  BY DEF None, FirstOf
<1>6. Answered(m, <<>>) =
        [legacy |-> m.legacy, retry |-> m.retry, suite |-> m.suites[1], exts |-> Clean(TypesOf(<<>>)),
         version |-> FirstOf(Latest(<<>>, Saying), 0), group |-> FirstOf(Latest(<<>>, Grouping(m.retry)), 0),
         alpn |-> FirstOf(Latest(<<>>, Speaking), <<>>), psk |-> ExtPreSharedKey \in Range(TypesOf(<<>>)),
         truncated |-> m.block = "short"]
  BY Zenon DEF Answered
<1>7. (ExtPreSharedKey \in Range(TypesOf(<<>>))) = FALSE
  BY <1>3
<1>8. Answered(m, <<>>) =
        [legacy |-> m.legacy, retry |-> m.retry, suite |-> m.suites[1], exts |-> <<>>,
         version |-> 0, group |-> 0, alpn |-> <<>>, psk |-> FALSE, truncated |-> m.block = "short"]
  <2>1. Clean(TypesOf(<<>>)) = <<>>
    BY <1>2, <1>3
  <2>2. FirstOf(Latest(<<>>, Saying), 0) = 0 /\ FirstOf(Latest(<<>>, Grouping(m.retry)), 0) = 0
        /\ FirstOf(Latest(<<>>, Speaking), <<>>) = <<>>
    BY <1>4, <1>5
  <2> QED BY <1>6, <1>7, <2>1, <2>2, Zenon
<1> QED BY <1>8, Zenon DEF ServerHead

(***************************************************************************)
(* The walk, step by step: at any moment it has decoded what the closed    *)
(* form says of the extensions read so far.                                *)
(***************************************************************************)
WalkInv ==
  /\ wire \in Exchanges
  /\ phase \in {"start", "rejected", "client", "answer", "server", "done"}
  /\ phase \in {"start", "answer"} => at = 0
  /\ phase = "client" => /\ wire.client.head /\ at \in 0..Len(wire.client.exts)
                         /\ ch = Decoded(wire.client, SubSeq(wire.client.exts, 1, at))
  /\ phase \in {"answer", "server", "done"} =>
       wire.client.head /\ ch = Cut(Decoded(wire.client, wire.client.exts), wire.client)
  /\ phase = "server" => /\ wire.server.head /\ at \in 0..Len(wire.server.exts)
                         /\ sh = Answered(wire.server, SubSeq(wire.server.exts, 1, at))
  /\ phase = "done" /\ wire.server.head => sh = Cut(Answered(wire.server, wire.server.exts), wire.server)

\* A message whose fixed fields were read is one.
LEMMA Messages ==
  ASSUME NEW x \in Exchanges
  PROVE  /\ x.client.head => x.client \in ClientMessage /\ x.client.exts \in Seq(Extension)
         /\ x.server.head => x.server \in ServerMessage /\ x.server.exts \in Seq(Extension)
<1>1. NoMessage.head = FALSE
  BY DEF NoMessage
<1>2. x.client \in ClientMessage \cup {NoMessage} /\ x.server \in ServerMessage \cup {NoMessage}
  BY ObservationAssumption
<1>3. (\A m \in ClientMessage : m.exts \in Seq(Extension)) /\ (\A m \in ServerMessage : m.exts \in Seq(Extension))
  BY DEF ClientMessage, ServerMessage
<1> QED BY <1>1, <1>2, <1>3

\* What the walk decodes is what the closed form says, at every moment.
THEOREM WalkInductive == Spec => []WalkInv
<1>1. Init => WalkInv
  BY DEF Init, WalkInv
<1>2. WalkInv /\ [Next]_vars => WalkInv'
  <2> SUFFICES ASSUME WalkInv, [Next]_vars PROVE WalkInv'
    OBVIOUS
  <2> DEFINE m == wire.client
             s == wire.server
  <2>0. wire \in Exchanges /\ (m.head => m \in ClientMessage /\ m.exts \in Seq(Extension))
          /\ (s.head => s \in ServerMessage /\ s.exts \in Seq(Extension))
    BY Messages DEF WalkInv
  <2>1. CASE ParseClientHello
    <3>1. wire' = wire /\ at' = at /\ at = 0 /\ phase = "start" /\ sh' = sh
      BY <2>1 DEF ParseClientHello, WalkInv
    <3>2. CASE m.head
      <4>1. phase' = "client" /\ ch' = ClientHead(m)
        BY <2>1, <3>2 DEF ParseClientHello
      <4>2. SubSeq(m.exts, 1, 0) = <<>> /\ Len(m.exts) \in Nat
        BY <2>0, <3>2
      <4>3. ch' = Decoded(m, SubSeq(m.exts, 1, 0))
        BY <2>0, <3>2, <4>1, <4>2, DecodedFirst
      <4> QED BY <2>0, <3>1, <3>2, <4>1, <4>2, <4>3 DEF WalkInv
    <3>3. CASE ~m.head
      <4>1. phase' = "rejected"
        BY <2>1, <3>3 DEF ParseClientHello
      <4> QED BY <2>0, <3>1, <4>1 DEF WalkInv
    <3> QED BY <3>2, <3>3
  <2>2. CASE NextClientExtension
    <3>1. /\ phase = "client" /\ phase' = "client" /\ wire' = wire /\ sh' = sh /\ at < Len(m.exts) /\ at' = at + 1
          /\ ch' = ClientExtension(ch, m.exts[at + 1])
      BY <2>2 DEF NextClientExtension
    <3>2. m.head /\ at \in 0..Len(m.exts) /\ ch = Decoded(m, SubSeq(m.exts, 1, at))
      BY <3>1 DEF WalkInv
    <3>3. at \in 0..(Len(m.exts) - 1) /\ at' \in 0..Len(m.exts)
      BY <2>0, <3>1, <3>2
    <3>4. /\ SubSeq(m.exts, 1, at) \in Seq(Extension) /\ m.exts[at + 1] \in Extension
          /\ SubSeq(m.exts, 1, at + 1) = Append(SubSeq(m.exts, 1, at), m.exts[at + 1])
      BY <2>0, <3>2, <3>3, FirstMembers, ZenonT(40)
    <3>5. ch' = Decoded(m, SubSeq(m.exts, 1, at'))
      BY <3>1, <3>2, <3>4, DecodedNext
    <3> QED BY <2>0, <3>1, <3>2, <3>3, <3>5 DEF WalkInv
  <2>3. CASE EndClientHello
    <3>1. /\ phase = "client" /\ phase' = "answer" /\ wire' = wire /\ sh' = sh /\ at = Len(m.exts) /\ at' = 0
          /\ ch' = Cut(ch, m)
      BY <2>3 DEF EndClientHello
    <3>2. m.head /\ ch = Decoded(m, SubSeq(m.exts, 1, at))
      BY <3>1 DEF WalkInv
    <3>3. SubSeq(m.exts, 1, Len(m.exts)) = m.exts
      BY <2>0, <3>2, FirstMembers, Zenon
    <3>4. ch' = Cut(Decoded(m, m.exts), m)
      BY <3>1, <3>2, <3>3
    <3> QED BY <2>0, <3>1, <3>2, <3>4 DEF WalkInv
  <2>4. CASE ParseServerHello
    <3>1. wire' = wire /\ at' = at /\ at = 0 /\ phase = "answer" /\ ch' = ch
      BY <2>4 DEF ParseServerHello, WalkInv
    <3>2. m.head /\ ch = Cut(Decoded(m, m.exts), m)
      BY <3>1 DEF WalkInv
    <3>3. CASE s.head
      <4>1. phase' = "server" /\ sh' = ServerHead(s)
        BY <2>4, <3>3 DEF ParseServerHello
      <4>2. SubSeq(s.exts, 1, 0) = <<>> /\ Len(s.exts) \in Nat
        BY <2>0, <3>3
      <4>3. sh' = Answered(s, SubSeq(s.exts, 1, 0))
        BY <2>0, <3>3, <4>1, <4>2, AnsweredFirst
      <4> QED BY <2>0, <3>1, <3>2, <3>3, <4>1, <4>2, <4>3 DEF WalkInv
    <3>4. CASE ~s.head
      <4>1. phase' = "done"
        BY <2>4, <3>4 DEF ParseServerHello
      <4> QED BY <2>0, <3>1, <3>2, <3>4, <4>1 DEF WalkInv
    <3> QED BY <3>3, <3>4
  <2>5. CASE NextServerExtension
    <3>1. /\ phase = "server" /\ phase' = "server" /\ wire' = wire /\ ch' = ch /\ at < Len(s.exts) /\ at' = at + 1
          /\ sh' = ServerExtension(sh, s.exts[at + 1])
      BY <2>5 DEF NextServerExtension
    <3>2. /\ m.head /\ ch = Cut(Decoded(m, m.exts), m)
          /\ s.head /\ at \in 0..Len(s.exts) /\ sh = Answered(s, SubSeq(s.exts, 1, at))
      BY <3>1 DEF WalkInv
    <3>3. at \in 0..(Len(s.exts) - 1) /\ at' \in 0..Len(s.exts)
      BY <2>0, <3>1, <3>2
    <3>4. /\ SubSeq(s.exts, 1, at) \in Seq(Extension) /\ s.exts[at + 1] \in Extension
          /\ SubSeq(s.exts, 1, at + 1) = Append(SubSeq(s.exts, 1, at), s.exts[at + 1])
      BY <2>0, <3>2, <3>3, FirstMembers, ZenonT(40)
    <3>5. sh' = Answered(s, SubSeq(s.exts, 1, at'))
      BY <3>1, <3>2, <3>4, AnsweredNext
    <3> QED BY <2>0, <3>1, <3>2, <3>3, <3>5 DEF WalkInv
  <2>6. CASE EndServerHello
    <3>1. /\ phase = "server" /\ phase' = "done" /\ wire' = wire /\ ch' = ch /\ at = Len(s.exts)
          /\ sh' = Cut(sh, s)
      BY <2>6 DEF EndServerHello
    <3>2. /\ m.head /\ ch = Cut(Decoded(m, m.exts), m)
          /\ s.head /\ sh = Answered(s, SubSeq(s.exts, 1, at))
      BY <3>1 DEF WalkInv
    <3>3. SubSeq(s.exts, 1, Len(s.exts)) = s.exts
      BY <2>0, <3>2, FirstMembers, Zenon
    <3>4. sh' = Cut(Answered(s, s.exts), s)
      BY <3>1, <3>2, <3>3
    <3> QED BY <2>0, <3>1, <3>2, <3>4 DEF WalkInv
  <2>7. CASE UNCHANGED vars
    BY <2>7 DEF vars, WalkInv
  <2> QED BY <2>1, <2>2, <2>3, <2>4, <2>5, <2>6, <2>7 DEF Next
<1> QED BY <1>1, <1>2, PTL DEF Spec



(***************************************************************************)
(* What the closed form says of a whole message.                           *)
(***************************************************************************)
LEMMA CutIs ==
  ASSUME NEW m, NEW s
  PROVE  LET d == Decoded(m, s)
             c == Cut(d, m)
         IN  /\ c = [f \in HelloFields |-> c[f]]
             /\ \A f \in HelloFields \ {"truncated"} : c[f] = d[f]
             /\ c.truncated <=> m.block \in {"short", "cut"}
<1> DEFINE d == Decoded(m, s)
           c == Cut(d, m)
           v == d.truncated \/ m.block = "cut"
<1>1. d = [f \in HelloFields |-> d[f]] /\ d.truncated = (m.block = "short")
  BY DEF Decoded, HelloFields
<1>2. c = [d EXCEPT !["truncated"] = v]
  BY DEF Cut
<1> HIDE DEF v, d
<1>3. "truncated" \in HelloFields
  BY DEF HelloFields
<1>4. Changes(d, [d EXCEPT !["truncated"] = v], HelloFields, "truncated", v)
  BY <1>1, <1>3, ChangeOne, Zenon
<1> HIDE DEF c
<1>5. Changes(d, c, HelloFields, "truncated", v)
  BY <1>2, <1>4
<1>6. /\ c = [f \in HelloFields |-> c[f]]
      /\ \A f \in HelloFields \ {"truncated"} : c[f] = d[f]
      /\ c["truncated"] = v
  BY <1>5 DEF Changes
<1>7. v <=> m.block \in {"short", "cut"}
  BY <1>1 DEF v
<1> QED BY <1>6, <1>7 DEF c, d

\* The last readable extension of a type.
LEMMA LastWholeIs ==
  ASSUME NEW m, m.exts \in Seq(Extension), NEW t
  PROVE  LastWhole(m, t) = Latest(m.exts, WholeOf(t)).items
<1>1. \A i \in DOMAIN m.exts : m.exts[i] \in Extension
  OBVIOUS
<1>2. {i \in Present(m, t) : m.exts[i].whole} = Spots(m.exts, WholeOf(t))
  BY <1>1 DEF Present, Spots, WholeOf
<1>3. None.items = <<>>
  BY DEF None
<1> QED BY <1>2, <1>3 DEF LastWhole, Latest

LEMMA LastNameIs ==
  ASSUME NEW m, m.exts \in Seq(Extension)
  PROVE  LastName(m) = NameIn(Latest(m.exts, Naming))
<1>1. \A i \in DOMAIN m.exts : m.exts[i] \in Extension
  OBVIOUS
<1> DEFINE S == {i \in Present(m, ExtServerName) : m.exts[i].whole \/ Hosts(m.exts[i]) # {}}
           e == m.exts[Max(S)]
<1>2. S = Spots(m.exts, Naming)
  BY <1>1 DEF Present, Spots, Naming
<1>3. NameIn(None) = 0
  BY DEF None, NameIn, Hosts
<1>4. LastName(m) = IF S = {} \/ Hosts(e) = {} THEN 0 ELSE e.items[Min(Hosts(e))]
  BY DEF LastName
<1>5. Latest(m.exts, Naming) = IF S = {} THEN None ELSE e
  BY <1>2 DEF Latest
<1> HIDE DEF S, e
<1> QED BY <1>3, <1>4, <1>5 DEF NameIn

LEMMA TypesIs ==
  ASSUME NEW m, m.exts \in Seq(Extension)
  PROVE  Types(m) = TypesOf(m.exts) /\ Types(m) \in Seq(Nat) /\ Len(Types(m)) = Len(m.exts)
         /\ \A i \in 1..Len(m.exts) : Types(m)[i] = m.exts[i].type
<1>1. DOMAIN m.exts = 1..Len(m.exts) /\ Len(m.exts) \in Nat
  OBVIOUS
<1>2. \A e \in Extension : e.type \in Nat
  BY ExtensionIs
<1>3. \A i \in 1..Len(m.exts) : m.exts[i].type \in Nat
  BY <1>2
<1>4. Types(m) = [i \in 1..Len(m.exts) |-> m.exts[i].type]
  BY <1>1 DEF Types
<1> QED BY <1>1, <1>3, <1>4 DEF TypesOf

LEMMA GreasyIs ==
  ASSUME NEW m, m.exts \in Seq(Extension)
  PROVE  Spots(m.exts, Greasy) # {} <=>
           \/ Range(Types(m)) \cap Reserved # {}
           \/ \E i \in DOMAIN m.exts :
                /\ \/ m.exts[i].type = ExtKeyShare
                   \/ m.exts[i].whole /\ m.exts[i].type \in
                        {ExtSupportedVersions, ExtSupportedGroups, ExtSignatureAlgorithms}
                /\ Range(m.exts[i].items) \cap Reserved # {}
<1>1. \A i \in DOMAIN m.exts : m.exts[i] \in Extension
  OBVIOUS
<1>2. DOMAIN m.exts = 1..Len(m.exts)
  OBVIOUS
<1>3. Range(Types(m)) \cap Reserved # {} <=> \E i \in DOMAIN m.exts : m.exts[i].type \in Reserved
  BY <1>2 DEF Types, Range
<1>4. Spots(m.exts, Greasy) # {} <=> \E i \in DOMAIN m.exts : m.exts[i] \in Greasy
  BY DEF Spots
<1> QED BY <1>1, <1>3, <1>4 DEF Greasy

\* The closed form satisfies what DecodedFaithful asks of the ClientHello.
LEMMA DecodedAll ==
  ASSUME NEW m \in ClientMessage, NEW c, c = Cut(Decoded(m, m.exts), m)
  PROVE  /\ c.name = LastName(m) /\ c.suites = Clean(m.suites) /\ c.exts = Clean(Types(m))
         /\ \A t \in DOMAIN ListField : c[ListField[t]] = Clean(LastWhole(m, t))
         /\ c.shares = Clean(LastWhole(m, ExtKeyShare))
         /\ c.alpn = LastWhole(m, ExtALPN) /\ c.modes = LastWhole(m, ExtPSKKeyExchangeModes)
         /\ c.flags = Range(Types(m)) \cap Flags
         /\ c.truncated <=> m.block \in {"short", "cut"}
         /\ c.ech.seen <=> Present(m, ExtEncryptedClientHello) # {}
         /\ Present(m, ExtEncryptedClientHello) # {} =>
              LET e == m.exts[Max(Present(m, ExtEncryptedClientHello))]
              IN  c.ech.outer <=> (e.items = <<>> \/ e.items[1] # 1)
         /\ c.legacy = m.legacy
<1> DEFINE d == Decoded(m, m.exts)
<1>1. m.exts \in Seq(Extension)
  BY DEF ClientMessage
<1>2. /\ \A f \in HelloFields \ {"truncated"} : c[f] = d[f]
      /\ c.truncated <=> m.block \in {"short", "cut"}
  BY CutIs
<1>3. /\ d.legacy = m.legacy /\ d.suites = Clean(m.suites) /\ d.exts = Clean(TypesOf(m.exts))
      /\ d.name = NameIn(Latest(m.exts, Naming)) /\ d.flags = Range(TypesOf(m.exts)) \cap Flags
      /\ d.ech = IF Spots(m.exts, OfType(ExtEncryptedClientHello)) = {} THEN Absent
                 ELSE ECHIn(Latest(m.exts, OfType(ExtEncryptedClientHello)))
  BY DEF Decoded
<1>4. /\ d.alpn = LastWhole(m, ExtALPN) /\ d.modes = LastWhole(m, ExtPSKKeyExchangeModes)
      /\ d.versions = Clean(LastWhole(m, ExtSupportedVersions)) /\ d.groups = Clean(LastWhole(m, ExtSupportedGroups))
      /\ d.sigAlgs = Clean(LastWhole(m, ExtSignatureAlgorithms))
      /\ d.sigAlgsCert = Clean(LastWhole(m, ExtSignatureAlgorithmsCert))
      /\ d.shares = Clean(LastWhole(m, ExtKeyShare))
  <2>1. \A t : LastWhole(m, t) = Latest(m.exts, WholeOf(t)).items
    BY <1>1, LastWholeIs
  <2> QED BY <2>1 DEF Decoded
<1>5. Present(m, ExtEncryptedClientHello) = Spots(m.exts, OfType(ExtEncryptedClientHello))
  <2>1. \A i \in DOMAIN m.exts : m.exts[i] \in Extension
    BY <1>1
  <2> QED BY <2>1 DEF Present, Spots, OfType
<1> HIDE DEF d
<1>6. /\ c.legacy = d.legacy /\ c.suites = d.suites /\ c.exts = d.exts /\ c.name = d.name /\ c.flags = d.flags
      /\ c.ech = d.ech /\ c.alpn = d.alpn /\ c.modes = d.modes /\ c.versions = d.versions /\ c.groups = d.groups
      /\ c.sigAlgs = d.sigAlgs /\ c.sigAlgsCert = d.sigAlgsCert /\ c.shares = d.shares
  BY <1>2 DEF HelloFields
<1>7. \A t \in DOMAIN ListField : c[ListField[t]] = Clean(LastWhole(m, t))
  <2>1. /\ DOMAIN ListField = {ExtSupportedVersions, ExtSupportedGroups, ExtSignatureAlgorithms, ExtSignatureAlgorithmsCert}
        /\ ListField[ExtSupportedVersions] = "versions" /\ ListField[ExtSupportedGroups] = "groups"
        /\ ListField[ExtSignatureAlgorithms] = "sigAlgs" /\ ListField[ExtSignatureAlgorithmsCert] = "sigAlgsCert"
    BY DEF ListField, ExtSupportedVersions, ExtSupportedGroups, ExtSignatureAlgorithms, ExtSignatureAlgorithmsCert
  <2> QED BY <1>4, <1>6, <2>1
<1>8. /\ c.ech.seen <=> Present(m, ExtEncryptedClientHello) # {}
      /\ Present(m, ExtEncryptedClientHello) # {} =>
           LET e == m.exts[Max(Present(m, ExtEncryptedClientHello))]
           IN  c.ech.outer <=> (e.items = <<>> \/ e.items[1] # 1)
  <2> DEFINE S == Spots(m.exts, OfType(ExtEncryptedClientHello))
             e == m.exts[Max(S)]
  <2>1. CASE S = {}
    <3>1. c.ech = Absent
      BY <1>3, <1>6, <2>1
    <3> QED BY <1>5, <2>1, <3>1 DEF Absent
  <2>2. CASE S # {}
    <3>1. Latest(m.exts, OfType(ExtEncryptedClientHello)) = e
      BY <2>2 DEF Latest
    <3>2. c.ech = ECHIn(e)
      BY <1>3, <1>6, <2>2, <3>1
    <3> HIDE DEF e, S
    <3>3. c.ech.seen = TRUE /\ c.ech.outer = ~(e.items # <<>> /\ e.items[1] = 1)
      BY <3>2 DEF ECHIn
    <3>4. c.ech.outer <=> (e.items = <<>> \/ e.items[1] # 1)
      BY <3>3
    <3> QED BY <1>5, <2>2, <3>3, <3>4 DEF e, S
  <2> QED BY <2>1, <2>2
<1>9. Types(m) = TypesOf(m.exts) /\ LastName(m) = NameIn(Latest(m.exts, Naming))
  BY <1>1, TypesIs, LastNameIs
<1> QED BY <1>2, <1>3, <1>4, <1>6, <1>7, <1>8, <1>9

\* The walk decodes what a reader of the whole message would.
THEOREM ObservationDecoded == Spec => []DecodedFaithful
<1>1. WalkInv => DecodedFaithful
  <2> SUFFICES ASSUME WalkInv, ClientRead PROVE DecodedFaithful
    BY DEF DecodedFaithful
  <2> DEFINE m == wire.client
  <2>1. wire \in Exchanges /\ m.head /\ ch = Cut(Decoded(m, m.exts), m)
    BY DEF WalkInv, ClientRead
  <2>2. m \in ClientMessage /\ m.exts \in Seq(Extension)
    BY <2>1, Messages
  <2>3. /\ ch.name = LastName(m) /\ ch.suites = Clean(m.suites) /\ ch.exts = Clean(Types(m))
        /\ \A t \in DOMAIN ListField : ch[ListField[t]] = Clean(LastWhole(m, t))
        /\ ch.shares = Clean(LastWhole(m, ExtKeyShare))
        /\ ch.alpn = LastWhole(m, ExtALPN) /\ ch.modes = LastWhole(m, ExtPSKKeyExchangeModes)
        /\ ch.flags = Range(Types(m)) \cap Flags
        /\ ch.truncated <=> m.block \in {"short", "cut"}
        /\ ch.ech.seen <=> Present(m, ExtEncryptedClientHello) # {}
        /\ Present(m, ExtEncryptedClientHello) # {} =>
             LET e == m.exts[Max(Present(m, ExtEncryptedClientHello))]
             IN  ch.ech.outer <=> (e.items = <<>> \/ e.items[1] # 1)
    BY <2>1, <2>2, DecodedAll
  <2>4. ECHNeverMissed
    BY <2>3 DEF ECHNeverMissed
  <2>5. ch.grease <=> Range(m.suites) \cap Reserved # {} \/ Spots(m.exts, Greasy) # {}
    <3>1. Decoded(m, m.exts).grease = (Range(m.suites) \cap Reserved # {} \/ Spots(m.exts, Greasy) # {})
      BY DEF Decoded
    <3>2. ch["grease"] = Decoded(m, m.exts)["grease"]
      BY <2>1, CutIs DEF HelloFields
    <3> QED BY <3>1, <3>2
  <2>6. ch.grease <=>
         \/ (Range(m.suites) \cup Range(Types(m))) \cap Reserved # {}
         \/ \E i \in DOMAIN m.exts :
              /\ \/ m.exts[i].type = ExtKeyShare
                 \/ m.exts[i].whole /\ m.exts[i].type \in
                      {ExtSupportedVersions, ExtSupportedGroups, ExtSignatureAlgorithms}
              /\ Range(m.exts[i].items) \cap Reserved # {}
    <3>1. Spots(m.exts, Greasy) # {} <=>
           \/ Range(Types(m)) \cap Reserved # {}
           \/ \E i \in DOMAIN m.exts :
                /\ \/ m.exts[i].type = ExtKeyShare
                   \/ m.exts[i].whole /\ m.exts[i].type \in
                        {ExtSupportedVersions, ExtSupportedGroups, ExtSignatureAlgorithms}
                /\ Range(m.exts[i].items) \cap Reserved # {}
      BY <2>2, GreasyIs
    <3>2. (Range(m.suites) \cup Range(Types(m))) \cap Reserved # {} <=>
            Range(m.suites) \cap Reserved # {} \/ Range(Types(m)) \cap Reserved # {}
      OBVIOUS
    <3> QED BY <2>5, <3>1, <3>2
  <2> QED BY <2>3, <2>4, <2>6 DEF DecodedFaithful
<1> QED BY <1>1, WalkInductive, PTL



(***************************************************************************)
(* A message without one of its extensions.                                *)
(***************************************************************************)
LEMMA RemoveAtIs ==
  ASSUME NEW T, NEW s \in Seq(T), NEW i \in 1..Len(s)
  PROVE  /\ RemoveAt(s, i) \in Seq(T) /\ Len(RemoveAt(s, i)) = Len(s) - 1
         /\ \A j \in 1..(Len(s) - 1) : RemoveAt(s, i)[j] = IF j < i THEN s[j] ELSE s[j + 1]
<1> DEFINE a == SubSeq(s, 1, i - 1)
           b == SubSeq(s, i + 1, Len(s))
<1>1. Len(s) \in Nat /\ i \in Int /\ i - 1 \in Int /\ i + 1 \in Int /\ 1 <= i /\ i <= Len(s)
  OBVIOUS
<1>2. (\A j \in 1..(i - 1) : s[j] \in T) /\ (\A j \in (i + 1)..Len(s) : s[j] \in T)
  BY <1>1
<1>3. a \in Seq(T) /\ Len(a) = i - 1 /\ \A j \in 1..(i - 1) : a[j] = s[j]
  <2>1. /\ a \in Seq(T)
        /\ Len(a) = IF 1 <= i - 1 THEN (i - 1) - 1 + 1 ELSE 0
        /\ \A j \in 1..((i - 1) - 1 + 1) : a[j] = s[1 + j - 1]
    BY <1>1, <1>2, SubSeqProperties
  <2> HIDE DEF a
  <2>2. Len(a) = i - 1
    BY <1>1, <2>1
  <2>3. \A j \in 1..(i - 1) : j \in 1..((i - 1) - 1 + 1) /\ 1 + j - 1 = j
    BY <1>1
  <2> QED BY <2>1, <2>2, <2>3
<1>4. b \in Seq(T) /\ Len(b) = Len(s) - i /\ \A j \in 1..(Len(s) - i) : b[j] = s[i + j]
  <2>1. /\ b \in Seq(T)
        /\ Len(b) = IF i + 1 <= Len(s) THEN Len(s) - (i + 1) + 1 ELSE 0
        /\ \A j \in 1..(Len(s) - (i + 1) + 1) : b[j] = s[(i + 1) + j - 1]
    BY <1>1, <1>2, SubSeqProperties
  <2> HIDE DEF b
  <2>2. Len(b) = Len(s) - i
    BY <1>1, <2>1
  <2>3. \A j \in 1..(Len(s) - i) : j \in 1..(Len(s) - (i + 1) + 1) /\ (i + 1) + j - 1 = i + j
    BY <1>1
  <2> QED BY <2>1, <2>2, <2>3
<1>5. RemoveAt(s, i) = a \o b
  BY DEF RemoveAt
<1> HIDE DEF a, b
<1>6. a \o b \in Seq(T) /\ Len(a \o b) = Len(s) - 1
  <2>1. a \in Seq(T) /\ b \in Seq(T)
    BY <1>3, <1>4
  <2>2. a \o b \in Seq(T) /\ Len(a \o b) = Len(a) + Len(b)
    BY <2>1
  <2> QED BY <1>1, <1>3, <1>4, <2>2
<1>7. ASSUME NEW j \in 1..(Len(s) - 1)
      PROVE  (a \o b)[j] = IF j < i THEN s[j] ELSE s[j + 1]
  <2>1. CASE j < i
    <3>1. j \in 1..(i - 1) /\ j \in 1..Len(a)
      BY <1>1, <1>3, <1>7, <2>1
    <3>2. (a \o b)[j] = a[j]
      BY <1>3, <1>4, <3>1
    <3> QED BY <1>3, <2>1, <3>1, <3>2
  <2>2. CASE ~(j < i)
    <3> DEFINE k == j - (i - 1)
    <3>1. k \in 1..(Len(s) - i) /\ i + k = j + 1 /\ j = Len(a) + k
      BY <1>1, <1>3, <1>7, <2>2
    <3>2. (a \o b)[j] = b[j - Len(a)]
      BY <1>1, <1>3, <1>4, <1>7, <2>2
    <3>3. j - Len(a) = k
      BY <1>3
    <3> HIDE DEF k
    <3> QED BY <1>4, <2>2, <3>1, <3>2, <3>3
  <2> QED BY <2>1, <2>2
<1> QED BY <1>5, <1>6, <1>7

\* Where the others are.
LEMMA RemoveAtMoves ==
  ASSUME NEW T, NEW s \in Seq(T), NEW i \in 1..Len(s)
  PROVE  LET r == RemoveAt(s, i)
             to(k) == IF k < i THEN k ELSE k - 1
             back(j) == IF j < i THEN j ELSE j + 1
         IN  /\ \A k \in 1..Len(s) : k # i => to(k) \in 1..Len(r) /\ r[to(k)] = s[k]
             /\ \A j \in 1..Len(r) : back(j) \in 1..Len(s) /\ back(j) # i /\ r[j] = s[back(j)] /\ to(back(j)) = j
             /\ \A k \in 1..Len(s), j \in 1..Len(r) : k # i /\ j > to(k) => back(j) > k
<1> DEFINE r == RemoveAt(s, i)
           to(k) == IF k < i THEN k ELSE k - 1
           back(j) == IF j < i THEN j ELSE j + 1
<1>1. /\ Len(r) = Len(s) - 1
      /\ \A j \in 1..(Len(s) - 1) : r[j] = IF j < i THEN s[j] ELSE s[j + 1]
  BY RemoveAtIs
<1>2. Len(s) \in Nat /\ i \in Nat /\ 1 <= i /\ i <= Len(s)
  OBVIOUS
<1> HIDE DEF r
<1>3. ASSUME NEW k \in 1..Len(s), k # i
      PROVE  to(k) \in 1..Len(r) /\ r[to(k)] = s[k]
  <2>1. CASE k < i
    BY <1>1, <1>2, <1>3, <2>1
  <2>2. CASE ~(k < i)
    <3>1. k - 1 \in 1..(Len(s) - 1) /\ ~(k - 1 < i) /\ (k - 1) + 1 = k
      BY <1>2, <1>3, <2>2
    <3> QED BY <1>1, <2>2, <3>1
  <2> QED BY <2>1, <2>2
<1>4. ASSUME NEW j \in 1..Len(r)
      PROVE  back(j) \in 1..Len(s) /\ back(j) # i /\ r[j] = s[back(j)] /\ to(back(j)) = j
  BY <1>1, <1>2
<1>5. ASSUME NEW k \in 1..Len(s), NEW j \in 1..Len(r), k # i, j > to(k)
      PROVE  back(j) > k
  BY <1>1, <1>2, <1>5
<1> QED BY <1>3, <1>4, <1>5 DEF r

\* What is no member of E is not missed when the last member of E is looked for.
LEMMA LatestRemove ==
  ASSUME NEW T, NEW s \in Seq(T), NEW i \in 1..Len(s), NEW E, s[i] \notin E
  PROVE  /\ Latest(RemoveAt(s, i), E) = Latest(s, E)
         /\ Spots(RemoveAt(s, i), E) = {} <=> Spots(s, E) = {}
<1> DEFINE r == RemoveAt(s, i)
           to(k) == IF k < i THEN k ELSE k - 1
           back(j) == IF j < i THEN j ELSE j + 1
<1>1. r \in Seq(T) /\ Len(r) \in Nat
  BY RemoveAtIs
<1>2. /\ \A k \in 1..Len(s) : k # i => to(k) \in 1..Len(r) /\ r[to(k)] = s[k]
      /\ \A j \in 1..Len(r) : back(j) \in 1..Len(s) /\ r[j] = s[back(j)]
      /\ \A k \in 1..Len(s), j \in 1..Len(r) : k # i /\ j > to(k) => back(j) > k
  BY RemoveAtMoves
<1>3. DOMAIN s = 1..Len(s) /\ DOMAIN r = 1..Len(r)
  BY <1>1
<1> HIDE DEF r, to, back
<1>4. CASE Spots(s, E) = {}
  <2>1. Spots(r, E) = {}
    BY <1>2, <1>3, <1>4 DEF Spots
  <2> QED BY <1>4, <2>1 DEF Latest, r
<1>5. CASE Spots(s, E) # {}
  <2>1. PICK k \in 1..Len(s) : /\ s[k] \in E /\ Latest(s, E) = s[k]
                               /\ \A j \in 1..Len(s) : j > k => s[j] \notin E
    BY <1>5, LatestExists
  <2>2. k # i /\ to(k) \in 1..Len(r) /\ r[to(k)] \in E
    BY <1>2, <2>1
  <2>3. \A j \in 1..Len(r) : j > to(k) => r[j] \notin E
    BY <1>2, <2>1, <2>2
  <2>4. Latest(r, E) = r[to(k)] /\ Spots(r, E) # {}
    BY <1>1, <2>2, <2>3, LatestIs
  <2> QED BY <1>2, <1>5, <2>1, <2>2, <2>4 DEF r
<1> QED BY <1>4, <1>5


\* One bad extension does not discard an otherwise readable handshake.
LEMMA RestDecoded ==
  ASSUME NEW m \in ClientMessage, NEW i \in DOMAIN m.exts, ~m.exts[i].whole,
         m.exts[i].type # ExtEncryptedClientHello,
         m.exts[i].type = ExtServerName => Hosts(m.exts[i]) = {},
         NEW c, c = Cut(Decoded(m, m.exts), m),
         NEW rest, rest = ReadClient([m EXCEPT !.exts = RemoveAt(m.exts, i)])
  PROVE  \A field \in DOMAIN c \ {"exts", "grease"} : c[field] = rest[field]
<1> DEFINE s == m.exts
           e == s[i]
           r == RemoveAt(s, i)
           n == [m EXCEPT !.exts = r]
           d == Decoded(m, s)
           f == Decoded(n, r)
<1>1. s \in Seq(Extension) /\ i \in 1..Len(s) /\ e \in Extension
  BY DEF ClientMessage
<1>2. r \in Seq(Extension)
  BY <1>1, RemoveAtIs
<1>3. n \in ClientMessage /\ n.exts = r /\ n.legacy = m.legacy /\ n.suites = m.suites /\ n.compression = m.compression
      /\ n.block = m.block
  BY <1>2 DEF ClientMessage
<1> HIDE DEF n
<1>4. rest = Cut(f, n)
  BY <1>3, ReadClientIs DEF n
<1>5. DOMAIN c = HelloFields
  BY CutIs, ZenonT(40)
<1>6. /\ \A g \in HelloFields \ {"truncated"} : c[g] = d[g]
      /\ c.truncated <=> m.block \in {"short", "cut"}
  BY CutIs
<1>7. /\ \A g \in HelloFields \ {"truncated"} : rest[g] = f[g]
      /\ rest.truncated <=> n.block \in {"short", "cut"}
  BY <1>4, CutIs
<1>a. c.truncated = rest.truncated
  <2>1. c.truncated = (m.block = "short" \/ m.block = "cut")
    BY DEF Cut, Decoded
  <2>2. rest.truncated = (n.block = "short" \/ n.block = "cut")
    BY <1>4, ZenonT(40) DEF Cut, Decoded
  <2> QED BY <1>3, <2>1, <2>2
<1>8. \A E : e \notin E => Latest(r, E) = Latest(s, E) /\ (Spots(r, E) = {} <=> Spots(s, E) = {})
  BY <1>1, LatestRemove
<1>9. \A t : e \notin WholeOf(t)
  BY DEF WholeOf
<1>10. e \notin Naming /\ e \notin OfType(ExtEncryptedClientHello)
  BY DEF Naming, OfType
<1>11. Range(TypesOf(s)) \cap Flags = Range(TypesOf(r)) \cap Flags
  <2>1. e.type \notin Flags
    BY <1>1, ExtensionIs
  <2>0. ASSUME NEW q \in Seq(Extension), NEW t PROVE t \in Range(TypesOf(q)) <=> Spots(q, OfType(t)) # {}
    BY DEF TypesOf, Range, Spots, OfType
  <2>2. \A t \in Flags : t \in Range(TypesOf(s)) <=> Spots(s, OfType(t)) # {}
    BY <1>1, <2>0, Zenon
  <2>3. \A t \in Flags : t \in Range(TypesOf(r)) <=> Spots(r, OfType(t)) # {}
    BY <1>2, <2>0, Zenon
  <2>4. \A t \in Flags : e \notin OfType(t)
    BY <2>1 DEF OfType
  <2>5. \A t \in Flags : t \in Range(TypesOf(s)) <=> t \in Range(TypesOf(r))
    BY <1>8, <2>2, <2>3, <2>4
  <2> QED BY <2>5
<1> HIDE DEF r
<1>12. /\ d.legacy = f.legacy /\ d.suites = f.suites /\ d.compression = f.compression /\ d.flags = f.flags
  BY <1>3, <1>11 DEF Decoded
<1>13. d.name = f.name /\ d.ech = f.ech
  BY <1>8, <1>10 DEF Decoded
<1>14. \A g \in Lists : d[g] = f[g]
  <2>1. \A t : Latest(r, WholeOf(t)) = Latest(s, WholeOf(t))
    BY <1>8, <1>9
  <2>2. /\ d.versions = f.versions /\ d.groups = f.groups /\ d.sigAlgs = f.sigAlgs /\ d.sigAlgsCert = f.sigAlgsCert
        /\ d.shares = f.shares /\ d.alpn = f.alpn /\ d.modes = f.modes
    BY <2>1 DEF Decoded
  <2> HIDE DEF d, f
  <2> QED BY <2>2 DEF Lists
<1> HIDE DEF d, f
<1>15. \A g \in HelloFields \ {"exts", "grease", "truncated"} : d[g] = f[g]
  BY <1>12, <1>13, <1>14 DEF HelloFields, Lists
<1> QED BY <1>5, <1>6, <1>7, <1>a, <1>15

THEOREM ObservationIsolated == Spec => []BadExtensionIsolated
<1>1. WalkInv => BadExtensionIsolated
  <2> SUFFICES ASSUME WalkInv, ClientRead, NEW i \in DOMAIN wire.client.exts,
                      ~wire.client.exts[i].whole, wire.client.exts[i].type # ExtEncryptedClientHello,
                      wire.client.exts[i].type = ExtServerName => Hosts(wire.client.exts[i]) = {},
                      NEW field \in DOMAIN ch \ {"exts", "grease"}
               PROVE  ch[field] = ReadClient([wire.client EXCEPT !.exts = RemoveAt(wire.client.exts, i)])[field]
    BY DEF BadExtensionIsolated
  <2>1. wire \in Exchanges /\ wire.client.head /\ ch = Cut(Decoded(wire.client, wire.client.exts), wire.client)
    BY DEF WalkInv, ClientRead
  <2>2. wire.client \in ClientMessage
    BY <2>1, Messages
  <2> QED BY <2>1, <2>2, RestDecoded
<1> QED BY <1>1, WalkInductive, PTL



(***************************************************************************)
(* The record: its grade and the version it judges.                        *)
(***************************************************************************)

\* The largest number of a list, if it is no zero.
LEMMA ListBounded ==
  ASSUME NEW list \in Seq(Nat)
  PROVE  \E n \in Nat : Range(list) \subseteq 0..n
<1> DEFINE F == {l \in Seq(Nat) : \E n \in Nat : Range(l) \subseteq 0..n}
<1>1. <<>> \in F
  <2>1. Range(<<>>) = {} /\ <<>> \in Seq(Nat)
    BY DEF Range
  <2> QED BY <2>1
<1>2. ASSUME NEW l \in Seq(Nat), l \in F, NEW x \in Nat PROVE Append(l, x) \in F
  <2>1. PICK n \in Nat : Range(l) \subseteq 0..n
    BY <1>2
  <2>2. Range(Append(l, x)) = Range(l) \cup {x} /\ Append(l, x) \in Seq(Nat)
    BY RangeAppend
  <2>3. Range(l) \subseteq 0..(n + x) /\ x \in 0..(n + x) /\ n + x \in Nat
    BY <2>1
  <2> QED BY <2>2, <2>3
<1>3. Seq(Nat) \subseteq F
  <2> HIDE DEF F
  <2> QED BY <1>1, <1>2, InductionOverSeq
<1> QED BY <1>3

LEMMA HighestIs ==
  ASSUME NEW list \in Seq(Nat)
  PROVE  LET T == Range(list) \ {0}
         IN  /\ Max(Range(list) \cup {0}) = IF T = {} THEN 0 ELSE Max(T)
             /\ T # {} => Max(T) \in Nat \ {0}
<1> DEFINE R == Range(list)
           T == R \ {0}
<1>1. PICK n \in Nat : R \subseteq 0..n
  BY ListBounded
<1>2. R \cup {0} \subseteq 0..n /\ T \subseteq 0..n /\ R \cup {0} # {} /\ (T = {} => R \cup {0} = {0})
      /\ (T # {} => R \cup {0} = T \cup {0})
  BY <1>1
<1>3. Max(R \cup {0}) \in R \cup {0} /\ \A y \in R \cup {0} : y <= Max(R \cup {0})
  BY <1>2, MaxIs
<1>4. CASE T = {}
  BY <1>2, <1>3, <1>4
<1>5. CASE T # {}
  <2>1. Max(T) \in T /\ \A y \in T : y <= Max(T)
    BY <1>2, <1>5, MaxIs
  <2> DEFINE top == Max(R \cup {0})
             best == Max(T)
  <2>2. top \in R \cup {0} /\ (\A y \in R \cup {0} : y <= top) /\ best \in T /\ (\A y \in T : y <= best)
    BY <1>3, <2>1
  <2> HIDE DEF top, best
  <2>3. best \in R \cup {0} /\ best # 0 /\ best \in 0..n /\ top \in 0..n /\ best <= top
    BY <1>2, <2>2
  <2>4. top # 0 /\ best \in Nat \ {0}
    BY <2>3
  <2>5. top <= best
    BY <2>2, <2>4
  <2>6. top = best
    BY <2>3, <2>5
  <2> QED BY <1>5, <2>4, <2>6 DEF top, best
<1> QED BY <1>4, <1>5

\* The readable lists of a message are lists of numbers.
LEMMA LastWholeType ==
  ASSUME NEW m, m.exts \in Seq(Extension), NEW t, t # ExtALPN
  PROVE  LastWhole(m, t) \in Seq(Nat) /\ Clean(LastWhole(m, t)) \in Seq(Nat)
<1> DEFINE s == m.exts
           E == WholeOf(t)
<1>1. LastWhole(m, t) = Latest(s, E).items
  BY LastWholeIs
<1>2. Latest(s, E).items \in Seq(Nat)
  <2>1. CASE Spots(s, E) = {}
    BY <2>1 DEF Latest, None
  <2>2. CASE Spots(s, E) # {}
    <3>1. PICK i \in 1..Len(s) : s[i] \in E /\ Latest(s, E) = s[i]
      BY <2>2, LatestExists
    <3>2. s[i] \in Extension /\ s[i].type = t
      BY <3>1 DEF WholeOf
    <3>3. s[i].items \in Seq(Nat)
      BY <3>2, ExtensionIs
    <3> QED BY <3>1, <3>3
  <2> QED BY <2>1, <2>2
<1>3. \A l \in Seq(Nat) : Clean(l) \in Seq(Nat)
  BY WithoutType DEF Clean
<1> QED BY <1>1, <1>2, <1>3

\* A list has a post-quantum group whether or not its GREASE is left out.
LEMMA CleanPQ ==
  ASSUME NEW list \in Seq(Nat)
  PROVE  AnyPQ(Clean(list)) <=> \E i \in DOMAIN list : PostQuantum(list[i])
<1>1. \A l \in Seq(Nat) : (\E i \in DOMAIN l : PostQuantum(l[i])) <=> \E v \in Range(l) : PostQuantum(v)
  BY DEF Range
<1>2. Range(Clean(list)) = Range(list) \ Reserved /\ Clean(list) \in Seq(Nat)
  BY WithoutRange, WithoutType DEF Clean
<1>3. \A v \in Reserved : ~PostQuantum(v)
  BY ReservedUnused
<1>4. AnyPQ(Clean(list)) <=> \E v \in Range(Clean(list)) : PostQuantum(v)
  BY <1>1, <1>2 DEF AnyPQ
<1> QED BY <1>1, <1>2, <1>3, <1>4

\* What the closed form says of a whole ServerHello.
LEMMA AnsweredAll ==
  ASSUME NEW m \in ServerMessage, NEW a, a = Cut(Answered(m, m.exts), m)
  PROVE  LET named == {i \in Present(m, ExtKeyShare) :
                         m.exts[i].items # <<>> /\ (m.retry \/ m.exts[i].whole)}
             S == {i \in Present(m, ExtSupportedVersions) : m.exts[i].items # <<>>}
         IN  /\ a.group = IF named = {} THEN 0 ELSE m.exts[Max(named)].items[1]
             /\ a.version = IF S = {} THEN 0 ELSE m.exts[Max(S)].items[1]
             /\ a.version \in Nat /\ a.group \in Nat /\ a.legacy = m.legacy /\ a.suite = m.suites[1]
             /\ a.exts = Clean(Types(m)) /\ a.retry = m.retry
<1> DEFINE s == m.exts
           d == Answered(m, s)
           named == {i \in Present(m, ExtKeyShare) : s[i].items # <<>> /\ (m.retry \/ s[i].whole)}
           S == {i \in Present(m, ExtSupportedVersions) : s[i].items # <<>>}
           v == d.truncated \/ m.block = "cut"
<1>1. s \in Seq(Extension)
  BY DEF ServerMessage
<1>2. d = [f \in AnswerFields |-> d[f]]
  BY AnsweredIs, Zenon DEF IsAnswer
<1>3. a = [d EXCEPT !["truncated"] = v]
  BY DEF Cut
<1>4. d.group = FirstOf(Latest(s, Grouping(m.retry)), 0) /\ d.version = FirstOf(Latest(s, Saying), 0)
      /\ d.legacy = m.legacy /\ d.suite = m.suites[1] /\ d.exts = Clean(TypesOf(s)) /\ d.retry = m.retry
  BY DEF Answered
<1> HIDE DEF d, v
<1>5. Changes(d, a, AnswerFields, "truncated", v)
  <2>1. "truncated" \in AnswerFields
    BY DEF AnswerFields
  <2>2. Changes(d, [d EXCEPT !["truncated"] = v], AnswerFields, "truncated", v)
    BY <1>2, <2>1, ChangeOne, Zenon
  <2> QED BY <1>3, <2>2
<1>6. a.group = d.group /\ a.version = d.version /\ a.legacy = d.legacy /\ a.suite = d.suite /\ a.exts = d.exts
      /\ a.retry = d.retry
  BY <1>5 DEF Changes, AnswerFields
<1>7. \A i \in DOMAIN s : s[i] \in Extension
  BY <1>1
<1>8. named = Spots(s, Grouping(m.retry)) /\ S = Spots(s, Saying)
  BY <1>7 DEF Present, Spots, Grouping, Saying
<1>9. ASSUME NEW E, \A e \in E : e \in Extension /\ e.items # <<>> /\ e.type # ExtALPN
      PROVE  LET x == FirstOf(Latest(s, E), 0)
             IN  /\ x = IF Spots(s, E) = {} THEN 0 ELSE s[Max(Spots(s, E))].items[1]
                 /\ x \in Nat
  <2>1. CASE Spots(s, E) = {}
    BY <2>1 DEF FirstOf, Latest, None
  <2>2. CASE Spots(s, E) # {}
    <3>1. Latest(s, E) = s[Max(Spots(s, E))]
      BY <2>2 DEF Latest
    <3>2. Latest(s, E) \in E
      BY <1>1, <2>2, LatestExists
    <3>3. Latest(s, E).items # <<>> /\ Latest(s, E).items \in Seq(Nat)
      BY <1>9, <3>2, ExtensionIs
    <3>4. Latest(s, E).items[1] \in Nat
      BY <3>3
    <3> QED BY <2>2, <3>1, <3>3, <3>4 DEF FirstOf
  <2> QED BY <2>1, <2>2
<1>10. /\ \A e \in Saying : e \in Extension /\ e.items # <<>> /\ e.type # ExtALPN
       /\ \A e \in Grouping(m.retry) : e \in Extension /\ e.items # <<>> /\ e.type # ExtALPN
  BY DEF Saying, Grouping, ExtALPN, ExtKeyShare, ExtSupportedVersions
<1>11. /\ d.group = IF named = {} THEN 0 ELSE s[Max(named)].items[1]
       /\ d.group \in Nat
       /\ d.version = IF S = {} THEN 0 ELSE s[Max(S)].items[1]
       /\ d.version \in Nat
  <2> HIDE DEF named, S
  <2> QED BY <1>4, <1>8, <1>9, <1>10
<1>12. Types(m) = TypesOf(s)
  BY <1>1, TypesIs
<1> QED BY <1>4, <1>6, <1>11, <1>12


\* The flow that the record is made of.
Flow ==
  [first |-> 1, last |-> 1, transport |-> "tcp", client |-> 1, address |-> 1, port |-> 443,
   hello |-> ch, observed |-> wire.server.head, server |-> sh, certs |-> <<>>]

LEMMA RecordIs ==
  /\ Record.pq = PQStatus(Flow) /\ Record.findings = Findings(Flow)
  /\ Flow.hello = ch /\ Flow.observed = wire.server.head /\ Flow.server = sh /\ Flow.certs = <<>>
<1>1. Record = Analyze(Flow)
  BY DEF Record, Flow
<1>2. Flow.hello = ch /\ Flow.observed = wire.server.head /\ Flow.server = sh /\ Flow.certs = <<>>
  BY DEF Flow
<1> DEFINE f == Flow
<1> HIDE DEF f
<1>3. Analyze(f).pq = PQStatus(f) /\ Analyze(f).findings = Findings(f)
  BY DEF Analyze
<1> QED BY <1>1, <1>2, <1>3 DEF f

\* What is known of the two hellos when the flow is done.
LEMMA DoneIs ==
  ASSUME WalkInv, phase = "done"
  PROVE  /\ wire.client \in ClientMessage /\ wire.client.exts \in Seq(Extension)
         /\ ch = Cut(Decoded(wire.client, wire.client.exts), wire.client)
         /\ wire.server.head \in BOOLEAN
         /\ wire.server.head => /\ wire.server \in ServerMessage /\ wire.server.exts \in Seq(Extension)
                                /\ sh = Cut(Answered(wire.server, wire.server.exts), wire.server)
<1>1. wire \in Exchanges
  BY DEF WalkInv
<1>2. wire.server \in ServerMessage \cup {NoMessage}
  BY <1>1, ObservationAssumption
<1>3. wire.server.head \in BOOLEAN
  <2>1. \A m \in ServerMessage : m.head = TRUE
    BY DEF ServerMessage
  <2>2. NoMessage.head = FALSE
    BY DEF NoMessage
  <2> QED BY <1>2, <2>1, <2>2
<1> QED BY <1>1, <1>3, Messages DEF WalkInv

\* The rungs of the readiness ladder are earned on the wire.
THEOREM ObservationGrade == Spec => []GradeEarned
<1>1. WalkInv => GradeEarned
  <2> SUFFICES ASSUME WalkInv, phase = "done" PROVE GradeEarned
    BY DEF GradeEarned
  <2> DEFINE pq(list) == \E i \in DOMAIN list : PostQuantum(list[i])
             named == {i \in Present(wire.server, ExtKeyShare) : LET e == wire.server.exts[i] IN
                         e.items # <<>> /\ (wire.server.retry \/ e.whole)}
             selected == wire.server.head /\ named # {}
                           /\ PostQuantum(wire.server.exts[Max(named)].items[1])
             shared == pq(LastWhole(wire.client, ExtKeyShare))
             listed == pq(LastWhole(wire.client, ExtSupportedGroups))
  <2>1. /\ wire.client \in ClientMessage /\ wire.client.exts \in Seq(Extension)
        /\ ch = Cut(Decoded(wire.client, wire.client.exts), wire.client)
        /\ wire.server.head \in BOOLEAN
        /\ wire.server.head => /\ wire.server \in ServerMessage /\ wire.server.exts \in Seq(Extension)
                               /\ sh = Cut(Answered(wire.server, wire.server.exts), wire.server)
    BY DoneIs
  <2>2. ch.shares = Clean(LastWhole(wire.client, ExtKeyShare)) /\ ch.groups = Clean(LastWhole(wire.client, ExtSupportedGroups))
    <3>1. ExtSupportedGroups \in DOMAIN ListField /\ ListField[ExtSupportedGroups] = "groups"
      BY DEF ListField, ExtSupportedVersions, ExtSupportedGroups, ExtSignatureAlgorithms, ExtSignatureAlgorithmsCert
    <3>2. /\ \A t \in DOMAIN ListField : ch[ListField[t]] = Clean(LastWhole(wire.client, t))
          /\ ch.shares = Clean(LastWhole(wire.client, ExtKeyShare))
      BY <2>1, DecodedAll
    <3> QED BY <3>1, <3>2
  <2>3. LastWhole(wire.client, ExtKeyShare) \in Seq(Nat) /\ LastWhole(wire.client, ExtSupportedGroups) \in Seq(Nat)
    <3>1. ExtKeyShare # ExtALPN /\ ExtSupportedGroups # ExtALPN
      BY DEF ExtKeyShare, ExtALPN, ExtSupportedGroups
    <3> QED BY <2>1, <3>1, LastWholeType
  <2>4. (AnyPQ(ch.shares) <=> shared) /\ (AnyPQ(ch.groups) <=> listed)
    BY <2>2, <2>3, CleanPQ
  <2>5. ~PostQuantum(0)
    BY DEF PostQuantum, PureKEM, Hybrid
  <2>6. SelectedGroup(Flow) = IF wire.server.head THEN sh.group ELSE 0
    BY RecordIs DEF SelectedGroup
  <2>7. wire.server.head => sh.group = IF named = {} THEN 0 ELSE wire.server.exts[Max(named)].items[1]
    BY <2>1, AnsweredAll
  <2>8. PostQuantum(SelectedGroup(Flow)) <=> selected
    <3> HIDE DEF named
    <3> QED BY <2>5, <2>6, <2>7
  <2> HIDE DEF selected, shared, listed, named
  <2>9. PQStatus(Flow) \in IF selected THEN {"post_quantum"}
                           ELSE IF shared THEN {"offered_not_selected"}
                           ELSE IF listed THEN {"advertised_only"}
                           ELSE {"classical", "unknown"}
    BY <2>4, <2>8, RecordIs DEF PQStatus
  <2>10. Record.pq \in IF selected THEN {"post_quantum"}
                       ELSE IF shared THEN {"offered_not_selected"}
                       ELSE IF listed THEN {"advertised_only"}
                       ELSE {"classical", "unknown"}
    BY <2>9, RecordIs, Zenon
  <2> QED BY <2>10, Zenon DEF GradeEarned, selected, shared, listed, named
<1> QED BY <1>1, WalkInductive, PTL

(***************************************************************************)
(* The findings, by what they are called.                                  *)
(***************************************************************************)
\* The findings about a cipher suite, and about nothing else.
CipherIds ==
  {"unknown_cipher", "anonymous_key_exchange", "export_cipher", "null_encryption", "broken_cipher", "weak_cipher",
   "sha1_signature", "no_forward_secrecy"}

FindingIds ==
  CipherIds \cup {"obsolete_protocol", "legacy_protocol", "compression_offered", "classical_key_exchange",
                  "ech_offered"}
Severities == {"info", "low", "medium", "high", "critical"}
Finding == [id : FindingIds, sev : Severities]
Called(list) == {list[i].id : i \in DOMAIN list}

LEMMA WhenIs ==
  ASSUME NEW cond, NEW id \in FindingIds, NEW sev \in Severities
  PROVE  When(cond, id, sev) \in Seq(Finding) /\ Called(When(cond, id, sev)) = IF cond THEN {id} ELSE {}
<1>1. CASE cond
  <2>1. When(cond, id, sev) = <<[id |-> id, sev |-> sev]>>
    BY <1>1 DEF When
  <2>2. [id |-> id, sev |-> sev] \in Finding
    BY DEF Finding
  <2> DEFINE x == [id |-> id, sev |-> sev]
  <2>3. x.id = id
    OBVIOUS
  <2> HIDE DEF x
  <2>4. <<x>> \in Seq(Finding) /\ Called(<<x>>) = {id}
    BY <2>2, <2>3 DEF Called, x
  <2> QED BY <1>1, <2>1, <2>4 DEF x
<1>2. CASE ~cond
  BY <1>2 DEF When, Called
<1> QED BY <1>1, <1>2

LEMMA CalledConcat ==
  ASSUME NEW s \in Seq(Finding), NEW t \in Seq(Finding)
  PROVE  s \o t \in Seq(Finding) /\ Called(s \o t) = Called(s) \cup Called(t)
<1> DEFINE u == s \o t
<1>1. /\ u \in Seq(Finding) /\ Len(u) = Len(s) + Len(t) /\ Len(s) \in Nat /\ Len(t) \in Nat
      /\ DOMAIN u = 1..Len(u) /\ DOMAIN s = 1..Len(s) /\ DOMAIN t = 1..Len(t)
  OBVIOUS
<1>2. /\ \A i \in 1..Len(s) : u[i] = s[i]
      /\ \A i \in 1..Len(t) : u[Len(s) + i] = t[i]
  OBVIOUS
<1> HIDE DEF u
<1>3. ASSUME NEW x \in Called(u) PROVE x \in Called(s) \cup Called(t)
  <2>1. PICK i \in 1..Len(u) : x = u[i].id
    BY <1>1, <1>3 DEF Called
  <2>2. CASE i <= Len(s)
    <3>1. i \in 1..Len(s)
      BY <1>1, <2>2
    <3> QED BY <1>1, <1>2, <2>1, <3>1 DEF Called
  <2>3. CASE ~(i <= Len(s))
    <3> DEFINE k == i - Len(s)
    <3>1. k \in 1..Len(t) /\ i = Len(s) + k
      BY <1>1, <2>3
    <3> HIDE DEF k
    <3> QED BY <1>1, <1>2, <2>1, <3>1 DEF Called
  <2> QED BY <2>2, <2>3
<1>4. ASSUME NEW x \in Called(s) \cup Called(t) PROVE x \in Called(u)
  <2>1. CASE x \in Called(s)
    <3>1. PICK i \in 1..Len(s) : x = s[i].id
      BY <1>1, <2>1 DEF Called
    <3>2. i \in 1..Len(u)
      BY <1>1
    <3> QED BY <1>1, <1>2, <3>1, <3>2 DEF Called
  <2>2. CASE x \in Called(t)
    <3>1. PICK i \in 1..Len(t) : x = t[i].id
      BY <1>1, <2>2 DEF Called
    <3>2. Len(s) + i \in 1..Len(u)
      BY <1>1
    <3> QED BY <1>1, <1>2, <3>1, <3>2 DEF Called
  <2> QED BY <1>4, <2>1, <2>2
<1>5. Called(u) = Called(s) \cup Called(t)
  BY <1>3, <1>4
<1> QED BY <1>1, <1>5 DEF u


\* A flow without certificates has no findings about any.
LEMMA NoChain == ChainFindings(<<>>) = <<>>
<1> DEFINE found == CHOOSE g : g = [n \in 0..Len(<<>>) |-> IF n = 0 THEN <<>> ELSE g[n - 1] \o CertFindings(<<>>, n)]
           h == [n \in 0..Len(<<>>) |-> <<>>]
<1>1. ChainFindings(<<>>) = found[Len(<<>>)]
  BY DEF ChainFindings
<1>2. Len(<<>>) = 0 /\ \A n \in 0..Len(<<>>) : n = 0
  OBVIOUS
<1>3. h = [n \in 0..Len(<<>>) |-> IF n = 0 THEN <<>> ELSE h[n - 1] \o CertFindings(<<>>, n)]
  BY <1>2
<1>4. found = [n \in 0..Len(<<>>) |-> IF n = 0 THEN <<>> ELSE found[n - 1] \o CertFindings(<<>>, n)]
  <2> HIDE DEF h
  <2> QED BY <1>3
<1> HIDE DEF found
<1>5. 0 \in 0..Len(<<>>)
  BY <1>2
<1>6. found[0] = <<>>
  BY <1>4, <1>5
<1> QED BY <1>1, <1>2, <1>6

LEMMA CipherCalled ==
  ASSUME NEW c
  PROVE  /\ CipherFindings(c) \in Seq(Finding)
         /\ Called(CipherFindings(c)) \subseteq CipherIds
         /\ "unknown_cipher" \in Called(CipherFindings(c)) <=> ~c.known
         /\ "anonymous_key_exchange" \in Called(CipherFindings(c)) <=> c.known /\ c.anonymous
         /\ "export_cipher" \in Called(CipherFindings(c)) <=> c.known /\ ~c.anonymous /\ c.export
         /\ "null_encryption" \in Called(CipherFindings(c)) <=> "NULL" \in Words(c.encryption)
         /\ "broken_cipher" \in Called(CipherFindings(c)) <=> Broken(c.encryption)
         /\ "weak_cipher" \in Called(CipherFindings(c)) <=>
              (c.encryption # <<>> /\ c.encryption[1] = "3DES") \/ c.mac = "MD5"
         /\ "no_forward_secrecy" \in Called(CipherFindings(c)) <=>
              c.known /\ ~c.forwardSecrecy /\ ~c.anonymous /\ ~c.signalling
<1> DEFINE p1 == ~c.known
           p2 == c.known /\ c.anonymous
           p3 == c.known /\ ~c.anonymous /\ c.export
           p4 == "NULL" \in Words(c.encryption)
           p5 == Broken(c.encryption)
           p6 == c.encryption # <<>> /\ c.encryption[1] = "3DES"
           p7 == c.mac = "MD5"
           p8 == c.mac = "SHA"
           p9 == c.known /\ ~c.forwardSecrecy /\ ~c.anonymous /\ ~c.signalling
           w1 == When(p1, "unknown_cipher", "info")
           w2 == When(p2, "anonymous_key_exchange", "critical")
           w3 == When(p3, "export_cipher", "critical")
           w4 == When(p4, "null_encryption", "critical")
           w5 == When(p5, "broken_cipher", "critical")
           w6 == When(p6, "weak_cipher", "high")
           w7 == When(p7, "weak_cipher", "high")
           w8 == When(p8, "sha1_signature", "medium")
           w9 == When(p9, "no_forward_secrecy", "high")
<1>1. CipherFindings(c) = w1 \o w2 \o w3 \o w4 \o w5 \o w6 \o w7 \o w8 \o w9
  BY DEF CipherFindings
<1> HIDE DEF p1, p2, p3, p4, p5, p6, p7, p8, p9
<1>2. /\ w1 \in Seq(Finding) /\ Called(w1) = IF p1 THEN {"unknown_cipher"} ELSE {}
      /\ w2 \in Seq(Finding) /\ Called(w2) = IF p2 THEN {"anonymous_key_exchange"} ELSE {}
      /\ w3 \in Seq(Finding) /\ Called(w3) = IF p3 THEN {"export_cipher"} ELSE {}
      /\ w4 \in Seq(Finding) /\ Called(w4) = IF p4 THEN {"null_encryption"} ELSE {}
      /\ w5 \in Seq(Finding) /\ Called(w5) = IF p5 THEN {"broken_cipher"} ELSE {}
      /\ w6 \in Seq(Finding) /\ Called(w6) = IF p6 THEN {"weak_cipher"} ELSE {}
      /\ w7 \in Seq(Finding) /\ Called(w7) = IF p7 THEN {"weak_cipher"} ELSE {}
      /\ w8 \in Seq(Finding) /\ Called(w8) = IF p8 THEN {"sha1_signature"} ELSE {}
      /\ w9 \in Seq(Finding) /\ Called(w9) = IF p9 THEN {"no_forward_secrecy"} ELSE {}
  <2>1. w1 \in Seq(Finding) /\ Called(w1) = IF p1 THEN {"unknown_cipher"} ELSE {}
    BY WhenIs DEF FindingIds, CipherIds, Severities
  <2>2. w2 \in Seq(Finding) /\ Called(w2) = IF p2 THEN {"anonymous_key_exchange"} ELSE {}
    BY WhenIs DEF FindingIds, CipherIds, Severities
  <2>3. w3 \in Seq(Finding) /\ Called(w3) = IF p3 THEN {"export_cipher"} ELSE {}
    BY WhenIs DEF FindingIds, CipherIds, Severities
  <2>4. w4 \in Seq(Finding) /\ Called(w4) = IF p4 THEN {"null_encryption"} ELSE {}
    BY WhenIs DEF FindingIds, CipherIds, Severities
  <2>5. w5 \in Seq(Finding) /\ Called(w5) = IF p5 THEN {"broken_cipher"} ELSE {}
    BY WhenIs DEF FindingIds, CipherIds, Severities
  <2>6. w6 \in Seq(Finding) /\ Called(w6) = IF p6 THEN {"weak_cipher"} ELSE {}
    BY WhenIs DEF FindingIds, CipherIds, Severities
  <2>7. w7 \in Seq(Finding) /\ Called(w7) = IF p7 THEN {"weak_cipher"} ELSE {}
    BY WhenIs DEF FindingIds, CipherIds, Severities
  <2>8. w8 \in Seq(Finding) /\ Called(w8) = IF p8 THEN {"sha1_signature"} ELSE {}
    BY WhenIs DEF FindingIds, CipherIds, Severities
  <2>9. w9 \in Seq(Finding) /\ Called(w9) = IF p9 THEN {"no_forward_secrecy"} ELSE {}
    BY WhenIs DEF FindingIds, CipherIds, Severities
  <2> QED BY <2>1, <2>2, <2>3, <2>4, <2>5, <2>6, <2>7, <2>8, <2>9
<1> HIDE DEF w1, w2, w3, w4, w5, w6, w7, w8, w9
<1>3. /\ CipherFindings(c) \in Seq(Finding)
      /\ Called(CipherFindings(c)) = Called(w1) \cup Called(w2) \cup Called(w3) \cup Called(w4) \cup Called(w5)
                                       \cup Called(w6) \cup Called(w7) \cup Called(w8) \cup Called(w9)
  <2> DEFINE u2 == w1 \o w2
             u3 == u2 \o w3
             u4 == u3 \o w4
             u5 == u4 \o w5
             u6 == u5 \o w6
             u7 == u6 \o w7
             u8 == u7 \o w8
             u9 == u8 \o w9
  <2>1. CipherFindings(c) = u9
    BY <1>1
  <2>2. u2 \in Seq(Finding) /\ Called(u2) = Called(w1) \cup Called(w2)
    BY <1>2, CalledConcat, Zenon
  <2> HIDE DEF u2
  <2>3. u3 \in Seq(Finding) /\ Called(u3) = Called(u2) \cup Called(w3)
    BY <1>2, <2>2, CalledConcat, Zenon
  <2> HIDE DEF u3
  <2>4. u4 \in Seq(Finding) /\ Called(u4) = Called(u3) \cup Called(w4)
    BY <1>2, <2>3, CalledConcat, Zenon
  <2> HIDE DEF u4
  <2>5. u5 \in Seq(Finding) /\ Called(u5) = Called(u4) \cup Called(w5)
    BY <1>2, <2>4, CalledConcat, Zenon
  <2> HIDE DEF u5
  <2>6. u6 \in Seq(Finding) /\ Called(u6) = Called(u5) \cup Called(w6)
    BY <1>2, <2>5, CalledConcat, Zenon
  <2> HIDE DEF u6
  <2>7. u7 \in Seq(Finding) /\ Called(u7) = Called(u6) \cup Called(w7)
    BY <1>2, <2>6, CalledConcat, Zenon
  <2> HIDE DEF u7
  <2>8. u8 \in Seq(Finding) /\ Called(u8) = Called(u7) \cup Called(w8)
    BY <1>2, <2>7, CalledConcat, Zenon
  <2> HIDE DEF u8
  <2>9. u9 \in Seq(Finding) /\ Called(u9) = Called(u8) \cup Called(w9)
    BY <1>2, <2>8, CalledConcat, Zenon
  <2> HIDE DEF u9
  <2> QED BY <2>1, <2>2, <2>3, <2>4, <2>5, <2>6, <2>7, <2>8, <2>9
<1> DEFINE K == Called(CipherFindings(c))
<1> HIDE DEF K
<1>4. \A id : id \in K <=> \/ p1 /\ id = "unknown_cipher"
                           \/ p2 /\ id = "anonymous_key_exchange"
                           \/ p3 /\ id = "export_cipher"
                           \/ p4 /\ id = "null_encryption"
                           \/ p5 /\ id = "broken_cipher"
                           \/ p6 /\ id = "weak_cipher"
                           \/ p7 /\ id = "weak_cipher"
                           \/ p8 /\ id = "sha1_signature"
                           \/ p9 /\ id = "no_forward_secrecy"
  <2>1. \A id : id \in Called(w1) <=> p1 /\ id = "unknown_cipher"
    BY <1>2
  <2>2. \A id : id \in Called(w2) <=> p2 /\ id = "anonymous_key_exchange"
    BY <1>2
  <2>3. \A id : id \in Called(w3) <=> p3 /\ id = "export_cipher"
    BY <1>2
  <2>4. \A id : id \in Called(w4) <=> p4 /\ id = "null_encryption"
    BY <1>2
  <2>5. \A id : id \in Called(w5) <=> p5 /\ id = "broken_cipher"
    BY <1>2
  <2>6. \A id : id \in Called(w6) <=> p6 /\ id = "weak_cipher"
    BY <1>2
  <2>7. \A id : id \in Called(w7) <=> p7 /\ id = "weak_cipher"
    BY <1>2
  <2>8. \A id : id \in Called(w8) <=> p8 /\ id = "sha1_signature"
    BY <1>2
  <2>9. \A id : id \in Called(w9) <=> p9 /\ id = "no_forward_secrecy"
    BY <1>2
  <2>10. \A id : id \in K <=> \/ id \in Called(w1) \/ id \in Called(w2) \/ id \in Called(w3) \/ id \in Called(w4)
                           \/ id \in Called(w5) \/ id \in Called(w6) \/ id \in Called(w7) \/ id \in Called(w8)
                           \/ id \in Called(w9)
    BY <1>3 DEF K
  <2> QED BY <2>1, <2>2, <2>3, <2>4, <2>5, <2>6, <2>7, <2>8, <2>9, <2>10
<1>5. K \subseteq CipherIds
  BY <1>4 DEF CipherIds
<1>6. "unknown_cipher" \in K <=> p1
  BY <1>4
<1>7. "anonymous_key_exchange" \in K <=> p2
  BY <1>4
<1>8. "export_cipher" \in K <=> p3
  BY <1>4
<1>9. "null_encryption" \in K <=> p4
  BY <1>4
<1>10. "broken_cipher" \in K <=> p5
  BY <1>4
<1>11. "weak_cipher" \in K <=> p6 \/ p7
  BY <1>4
<1>12. "no_forward_secrecy" \in K <=> p9
  BY <1>4
<1> QED BY <1>3, <1>5, <1>6, <1>7, <1>8, <1>9, <1>10, <1>11, <1>12 DEF K, p1, p2, p3, p4, p5, p6, p7, p8, p9

\* Of the rest of a record, the ids.
LEMMA FindingsCalled ==
  LET found == Called(Findings(Flow))
      v == JudgedVersion(Flow)
  IN  /\ "obsolete_protocol" \in found <=> v < TLS12
      /\ "legacy_protocol" \in found <=> v = TLS12
      /\ wire.server.head => found \cap CipherIds = Called(CipherFindings(Cipher(sh.suite)))
<1> DEFINE f == Flow
           p1 == JudgedVersion(f) < TLS12
           p2 == JudgedVersion(f) = TLS12
           p4 == f.hello.compression
           p5 == PQStatus(f) \in {"classical", "advertised_only", "offered_not_selected"}
           p6 == f.hello.ech.seen
           w1 == When(p1, "obsolete_protocol", "critical")
           w2 == When(p2, "legacy_protocol", "low")
           w3 == IF f.observed THEN CipherFindings(Cipher(f.server.suite)) ELSE <<>>
           w4 == When(p4, "compression_offered", "medium")
           w5 == When(p5, "classical_key_exchange", "info")
           w6 == When(p6, "ech_offered", "info")
           w7 == ChainFindings(f.certs)
<1>1. Findings(f) = w1 \o w2 \o w3 \o w4 \o w5 \o w6 \o w7
  BY DEF Findings
<1>2. w7 = <<>> /\ f.observed = wire.server.head /\ f.server = sh
  BY RecordIs, NoChain
<1> HIDE DEF p1, p2, p4, p5, p6
<1>3. /\ w1 \in Seq(Finding) /\ Called(w1) = IF p1 THEN {"obsolete_protocol"} ELSE {}
      /\ w2 \in Seq(Finding) /\ Called(w2) = IF p2 THEN {"legacy_protocol"} ELSE {}
      /\ w4 \in Seq(Finding) /\ Called(w4) = IF p4 THEN {"compression_offered"} ELSE {}
      /\ w5 \in Seq(Finding) /\ Called(w5) = IF p5 THEN {"classical_key_exchange"} ELSE {}
      /\ w6 \in Seq(Finding) /\ Called(w6) = IF p6 THEN {"ech_offered"} ELSE {}
  <2>1. w1 \in Seq(Finding) /\ Called(w1) = IF p1 THEN {"obsolete_protocol"} ELSE {}
    BY WhenIs DEF FindingIds, CipherIds, Severities
  <2>2. w2 \in Seq(Finding) /\ Called(w2) = IF p2 THEN {"legacy_protocol"} ELSE {}
    BY WhenIs DEF FindingIds, CipherIds, Severities
  <2>3. w4 \in Seq(Finding) /\ Called(w4) = IF p4 THEN {"compression_offered"} ELSE {}
    BY WhenIs DEF FindingIds, CipherIds, Severities
  <2>4. w5 \in Seq(Finding) /\ Called(w5) = IF p5 THEN {"classical_key_exchange"} ELSE {}
    BY WhenIs DEF FindingIds, CipherIds, Severities
  <2>5. w6 \in Seq(Finding) /\ Called(w6) = IF p6 THEN {"ech_offered"} ELSE {}
    BY WhenIs DEF FindingIds, CipherIds, Severities
  <2> QED BY <2>1, <2>2, <2>3, <2>4, <2>5
<1>4. w3 \in Seq(Finding) /\ Called(w3) \subseteq CipherIds
      /\ (wire.server.head => w3 = CipherFindings(Cipher(sh.suite)))
  <2>1. CASE f.observed
    <3>1. w3 = CipherFindings(Cipher(f.server.suite))
      BY <2>1
    <3>2. w3 \in Seq(Finding) /\ Called(w3) \subseteq CipherIds
      BY <3>1, CipherCalled
    <3> QED BY <1>2, <3>1, <3>2
  <2>2. CASE ~f.observed
    <3>1. w3 = <<>>
      BY <2>2
    <3>2. Called(<<>>) = {} /\ <<>> \in Seq(Finding)
      BY DEF Called
    <3> QED BY <1>2, <2>2, <3>1, <3>2
  <2> QED BY <2>1, <2>2
<1>5. w7 \in Seq(Finding) /\ Called(w7) = {}
  <2>1. Called(<<>>) = {} /\ <<>> \in Seq(Finding)
    BY DEF Called
  <2> QED BY <1>2, <2>1
<1> HIDE DEF f, w1, w2, w3, w4, w5, w6, w7
<1>6. Called(Findings(f)) = Called(w1) \cup Called(w2) \cup Called(w3) \cup Called(w4) \cup Called(w5)
                              \cup Called(w6) \cup Called(w7)
  <2> DEFINE u2 == w1 \o w2
             u3 == u2 \o w3
             u4 == u3 \o w4
             u5 == u4 \o w5
             u6 == u5 \o w6
             u7 == u6 \o w7
  <2>1. Findings(f) = u7
    BY <1>1
  <2>2. u2 \in Seq(Finding) /\ Called(u2) = Called(w1) \cup Called(w2)
    BY <1>3, CalledConcat, Zenon
  <2> HIDE DEF u2
  <2>3. u3 \in Seq(Finding) /\ Called(u3) = Called(u2) \cup Called(w3)
    BY <1>4, <2>2, CalledConcat, Zenon
  <2> HIDE DEF u3
  <2>4. u4 \in Seq(Finding) /\ Called(u4) = Called(u3) \cup Called(w4)
    BY <1>3, <2>3, CalledConcat, Zenon
  <2> HIDE DEF u4
  <2>5. u5 \in Seq(Finding) /\ Called(u5) = Called(u4) \cup Called(w5)
    BY <1>3, <2>4, CalledConcat, Zenon
  <2> HIDE DEF u5
  <2>6. u6 \in Seq(Finding) /\ Called(u6) = Called(u5) \cup Called(w6)
    BY <1>3, <2>5, CalledConcat, Zenon
  <2> HIDE DEF u6
  <2>7. u7 \in Seq(Finding) /\ Called(u7) = Called(u6) \cup Called(w7)
    BY <1>5, <2>6, CalledConcat, Zenon
  <2> HIDE DEF u7
  <2> QED BY <2>1, <2>2, <2>3, <2>4, <2>5, <2>6, <2>7
<1> DEFINE K == Called(Findings(f))
<1> HIDE DEF K
<1>7. \A id : id \in K <=> \/ p1 /\ id = "obsolete_protocol"
                           \/ p2 /\ id = "legacy_protocol"
                           \/ id \in Called(w3)
                           \/ p4 /\ id = "compression_offered"
                           \/ p5 /\ id = "classical_key_exchange"
                           \/ p6 /\ id = "ech_offered"
  <2>1. \A id : id \in Called(w1) <=> p1 /\ id = "obsolete_protocol"
    BY <1>3
  <2>2. \A id : id \in Called(w2) <=> p2 /\ id = "legacy_protocol"
    BY <1>3
  <2>3. \A id : id \in Called(w4) <=> p4 /\ id = "compression_offered"
    BY <1>3
  <2>4. \A id : id \in Called(w5) <=> p5 /\ id = "classical_key_exchange"
    BY <1>3
  <2>5. \A id : id \in Called(w6) <=> p6 /\ id = "ech_offered"
    BY <1>3
  <2>6. \A id : id \in K <=> \/ id \in Called(w1) \/ id \in Called(w2) \/ id \in Called(w3) \/ id \in Called(w4)
                           \/ id \in Called(w5) \/ id \in Called(w6)
    BY <1>5, <1>6 DEF K
  <2> QED BY <2>1, <2>2, <2>3, <2>4, <2>5, <2>6
<1>8. "obsolete_protocol" \in K <=> p1
  <2>1. "obsolete_protocol" \notin Called(w3)
    BY <1>4 DEF CipherIds
  <2> QED BY <1>7, <2>1
<1>9. "legacy_protocol" \in K <=> p2
  BY <1>4, <1>7 DEF CipherIds
<1>10. K \cap CipherIds = Called(w3)
  <2>1. \A id \in CipherIds : id \in K <=> id \in Called(w3)
    BY <1>7 DEF CipherIds
  <2> QED BY <1>4, <2>1
<1> QED BY <1>4, <1>8, <1>9, <1>10 DEF K, f, p1, p2


\* The version judged is the one in force, or the best one offered.
LEMMA WalkJudgesVersion ==
  ASSUME WalkInv
  PROVE  VersionJudged
<1> SUFFICES ASSUME phase = "done" PROVE VersionJudged
  BY DEF VersionJudged
<1> DEFINE m == wire.client
           n == wire.server
           offered == Range(Clean(LastWhole(m, ExtSupportedVersions))) \ {0}
           best == IF offered = {} THEN m.legacy ELSE Max(offered)
           S == {i \in Present(n, ExtSupportedVersions) : n.exts[i].items # <<>>}
           said == IF S = {} THEN 0 ELSE n.exts[Max(S)].items[1]
           judged == IF ~n.head THEN best
                     ELSE IF said = 0 THEN n.legacy ELSE said
<1>1. /\ m \in ClientMessage /\ m.exts \in Seq(Extension)
      /\ ch = Cut(Decoded(m, m.exts), m)
      /\ n.head \in BOOLEAN
      /\ n.head => n \in ServerMessage /\ n.exts \in Seq(Extension) /\ sh = Cut(Answered(n, n.exts), n)
  BY DoneIs
<1>2. ch.versions = Clean(LastWhole(m, ExtSupportedVersions)) /\ ch.legacy = m.legacy
  <2>1. ExtSupportedVersions \in DOMAIN ListField /\ ListField[ExtSupportedVersions] = "versions"
    BY DEF ListField, ExtSupportedVersions, ExtSupportedGroups, ExtSignatureAlgorithms, ExtSignatureAlgorithmsCert
  <2>2. /\ \A t \in DOMAIN ListField : ch[ListField[t]] = Clean(LastWhole(m, t))
        /\ ch.legacy = m.legacy
    BY <1>1, DecodedAll
  <2> QED BY <2>1, <2>2
<1>3. Clean(LastWhole(m, ExtSupportedVersions)) \in Seq(Nat)
  <2>1. ExtSupportedVersions # ExtALPN
    BY DEF ExtSupportedVersions, ExtALPN
  <2> QED BY <1>1, <2>1, LastWholeType
<1>4. m.legacy \in Nat /\ (n.head => n.legacy \in Nat)
  <2>1. \A x \in ClientMessage : x.legacy \in Nat
    BY DEF ClientMessage
  <2>2. \A x \in ServerMessage : x.legacy \in Nat
    BY DEF ServerMessage
  <2> QED BY <1>1, <2>1, <2>2
<1>5. OfferedVersion(ch) = best /\ best \in Nat
  <2> DEFINE l == ch.versions
             h == Max(Range(l) \cup {0})
  <2>1. h = IF Range(l) \ {0} = {} THEN 0 ELSE Max(Range(l) \ {0})
    BY <1>2, <1>3, HighestIs
  <2>2. Range(l) \ {0} # {} => Max(Range(l) \ {0}) \in Nat \ {0}
    BY <1>2, <1>3, HighestIs
  <2>3. OfferedVersion(ch) = IF h # 0 THEN h ELSE ch.legacy
    BY DEF OfferedVersion
  <2>4. offered = Range(l) \ {0}
    BY <1>2
  <2> HIDE DEF h, offered
  <2> QED BY <1>2, <1>4, <2>1, <2>2, <2>3, <2>4
<1>6. n.head => sh.version = said /\ sh.legacy = n.legacy /\ said \in Nat
  BY <1>1, AnsweredAll
<1>7. JudgedVersion(Flow) = judged /\ judged \in Nat
  <2>1. JudgedVersion(Flow) = IF n.head THEN NegotiatedVersion(sh) ELSE OfferedVersion(ch)
    BY RecordIs DEF JudgedVersion
  <2>2. NegotiatedVersion(sh) = IF sh.version # 0 THEN sh.version ELSE sh.legacy
    BY DEF NegotiatedVersion
  <2> HIDE DEF said, best
  <2> QED BY <1>4, <1>5, <1>6, <2>1, <2>2
<1> HIDE DEF judged
<1>8. /\ "obsolete_protocol" \in IDs(Record) <=> judged < TLS12
      /\ "legacy_protocol" \in IDs(Record) <=> judged = TLS12
  <2>1. IDs(Record) = Called(Findings(Flow))
    BY RecordIs DEF IDs, Called
  <2> QED BY <1>7, <2>1, FindingsCalled
<1>9. IDs(Record) \cap {"obsolete_protocol", "legacy_protocol"} =
        IF judged < TLS12 THEN {"obsolete_protocol"}
        ELSE IF judged = TLS12 THEN {"legacy_protocol"} ELSE {}
  BY <1>7, <1>8 DEF TLS12
<1> QED BY <1>9, Zenon DEF VersionJudged, judged

THEOREM ObservationVersion == Spec => []VersionJudged
<1>1. WalkInv => VersionJudged
  BY WalkJudgesVersion
<1> QED BY <1>1, WalkInductive, PTL

(***************************************************************************)
(* Suites.  A name is taken apart as it was put together, so each finding  *)
(* about a suite is there exactly if a word of the name says so.           *)
(***************************************************************************)

\* What stands before and after the first WITH.
LEMMA Split ==
  ASSUME NEW W, "WITH" \in W, NEW a \in Seq(W), NEW b \in Seq(W), "WITH" \notin Words(a),
         NEW name, name = a \o <<"WITH">> \o b
  PROVE  Before(name) = a /\ After(name) = b
<1> DEFINE p == Len(a) + 1
           I == {i \in 1..Len(name) : name[i] = "WITH"}
<1>0. <<"WITH">> \in Seq(W) /\ Len(<<"WITH">>) = 1 /\ <<"WITH">>[1] = "WITH"
  OBVIOUS
<1>1. name \in Seq(W) /\ Len(name) = p + Len(b) /\ name[p] = "WITH" /\ Len(a) \in Nat /\ Len(b) \in Nat
  <2> DEFINE w == <<"WITH">>
  <2>1. w \in Seq(W) /\ Len(w) = 1 /\ w[1] = "WITH" /\ name = (a \o w) \o b
    BY <1>0
  <2> HIDE DEF w
  <2>2. a \o w \in Seq(W) /\ Len(a \o w) = p /\ (a \o w)[p] = "WITH"
    BY <2>1
  <2> QED BY <2>1, <2>2
<1>2. \A i \in 1..Len(a) : name[i] = a[i] /\ a[i] # "WITH"
  BY DEF Words, Range
<1>3. \A i \in 1..Len(b) : name[p + i] = b[i]
  OBVIOUS
<1>4. p \in I /\ \A i \in I : p <= i
  BY <1>1, <1>2
<1>5. SelectInSeq(name, LAMBDA w : w = "WITH") = p
  <2>1. SelectInSeq(name, LAMBDA w : w = "WITH") = IF I # {} THEN Min(I) ELSE 0
    BY DEF SelectInSeq
  <2>2. Min(I) = p
    BY <1>1, <1>4 DEF Min
  <2> QED BY <1>4, <2>1, <2>2
<1>6. Before(name) = SubSeq(name, 1, p - 1) /\ After(name) = SubSeq(name, p + 1, Len(name))
  BY <1>5 DEF Before, After
<1>7. SubSeq(name, 1, p - 1) = a
  BY <1>1, <1>2
<1>8. SubSeq(name, p + 1, Len(name)) = b
  BY <1>1, <1>3
<1> QED BY <1>6, <1>7, <1>8


\* What is said of a sequence and one more word.

\* What is said of a sequence and one more word.
LEMMA OneWordMore ==
  ASSUME NEW W, NEW s \in Seq(W), NEW x \in W
  PROVE  LET t == s \o <<x>>
         IN  /\ t \in Seq(W) /\ Len(t) = Len(s) + 1 /\ Len(s) \in Nat
             /\ Front(t) = s /\ Last(t) = x /\ Words(t) = Words(s) \cup {x}
<1> DEFINE t == s \o <<x>>
<1>1. t \in Seq(W) /\ Len(t) = Len(s) + 1 /\ Len(s) \in Nat /\ Last(t) = x
  BY DEF Last
<1>2. (\A i \in 1..Len(s) : t[i] = s[i]) /\ t[Len(s) + 1] = x
  OBVIOUS
<1> HIDE DEF t
<1>3. Front(t) = s
  BY <1>1, <1>2 DEF Front
<1>4. Words(t) = Words(s) \cup {x}
  <2>1. DOMAIN t = 1..(Len(s) + 1) /\ DOMAIN s = 1..Len(s)
    BY <1>1
  <2>2. \A w : w \in Words(t) <=> \E i \in 1..(Len(s) + 1) : w = t[i]
    BY <2>1 DEF Words, Range
  <2>3. \A w : w \in Words(s) <=> \E i \in 1..Len(s) : w = s[i]
    BY <2>1 DEF Words, Range
  <2>4. \A w : w \in Words(t) <=> w \in Words(s) \/ w = x
    <3>1. ASSUME NEW w, w \in Words(t) PROVE w \in Words(s) \/ w = x
      <4>1. PICK i \in 1..(Len(s) + 1) : w = t[i]
        BY <2>2, <3>1
      <4>2. CASE i = Len(s) + 1
        BY <1>2, <4>1, <4>2
      <4>3. CASE i # Len(s) + 1
        <5>1. i \in 1..Len(s)
          BY <1>1, <4>3
        <5> QED BY <1>2, <2>3, <4>1, <5>1
      <4> QED BY <4>2, <4>3
    <3>2. ASSUME NEW w, w \in Words(s) PROVE w \in Words(t)
      <4>1. PICK i \in 1..Len(s) : w = s[i]
        BY <2>3, <3>2
      <4>2. i \in 1..(Len(s) + 1)
        BY <1>1
      <4> QED BY <1>2, <2>2, <4>1, <4>2
    <3>3. x \in Words(t)
      <4>1. Len(s) + 1 \in 1..(Len(s) + 1)
        BY <1>1
      <4> QED BY <1>2, <2>2, <4>1
    <3> QED BY <3>1, <3>2, <3>3
  <2> QED BY <2>4
<1> QED BY <1>1, <1>3, <1>4 DEF t

\* The words of two sequences together.
LEMMA WordsConcat ==
  ASSUME NEW W, NEW s \in Seq(W), NEW t \in Seq(W)
  PROVE  s \o t \in Seq(W) /\ Words(s \o t) = Words(s) \cup Words(t)
<1> DEFINE u == s \o t
<1>1. /\ u \in Seq(W) /\ Len(u) = Len(s) + Len(t) /\ Len(s) \in Nat /\ Len(t) \in Nat
      /\ DOMAIN u = 1..Len(u) /\ DOMAIN s = 1..Len(s) /\ DOMAIN t = 1..Len(t)
  OBVIOUS
<1>2. /\ \A i \in 1..Len(s) : u[i] = s[i]
      /\ \A i \in 1..Len(t) : u[Len(s) + i] = t[i]
  OBVIOUS
<1> HIDE DEF u
<1>3. ASSUME NEW x \in Words(u) PROVE x \in Words(s) \cup Words(t)
  <2>1. PICK i \in 1..Len(u) : x = u[i]
    BY <1>1, <1>3 DEF Words, Range
  <2>2. CASE i <= Len(s)
    <3>1. i \in 1..Len(s)
      BY <1>1, <2>2
    <3> QED BY <1>1, <1>2, <2>1, <3>1 DEF Words, Range
  <2>3. CASE ~(i <= Len(s))
    <3> DEFINE k == i - Len(s)
    <3>1. k \in 1..Len(t) /\ i = Len(s) + k
      BY <1>1, <2>3
    <3> HIDE DEF k
    <3> QED BY <1>1, <1>2, <2>1, <3>1 DEF Words, Range
  <2> QED BY <2>2, <2>3
<1>4. ASSUME NEW x \in Words(s) \cup Words(t) PROVE x \in Words(u)
  <2>1. CASE x \in Words(s)
    <3>1. PICK i \in 1..Len(s) : x = s[i]
      BY <1>1, <2>1 DEF Words, Range
    <3>2. i \in 1..Len(u)
      BY <1>1
    <3> QED BY <1>1, <1>2, <3>1, <3>2 DEF Words, Range
  <2>2. CASE x \in Words(t)
    <3>1. PICK i \in 1..Len(t) : x = t[i]
      BY <1>1, <2>2 DEF Words, Range
    <3>2. Len(s) + i \in 1..Len(u)
      BY <1>1
    <3> QED BY <1>1, <1>2, <3>1, <3>2 DEF Words, Range
  <2> QED BY <1>4, <2>1, <2>2
<1> QED BY <1>1, <1>3, <1>4 DEF u

\* The words before WITH: the key exchange, and the mark of an export suite.
Exchanged(kx, export) == IF export THEN kx \o <<"EXPORT">> ELSE kx

Anonymous(kx) == Len(kx) > 1 /\ Last(kx) = "anon"

\* What is read off a name made of these parts.
ReadOff(name, kx, export, e, mac) ==
  LET c == LegacySuite(name)
  IN  /\ c.known /\ ~c.signalling
      /\ c.export = export
      /\ c.anonymous = Anonymous(kx)
      /\ c.forwardSecrecy = (kx[1] \in {"ECDHE", "DHE"} /\ ~Anonymous(kx))
      /\ c.encryption = e
      /\ c.mac = IF IsAEAD(e) THEN "AEAD" ELSE mac
      /\ "WITH" \in Words(name)
      /\ Words(name) = Words(kx) \cup Words(e) \cup {"WITH", mac} \cup IF export THEN {"EXPORT"} ELSE {}
      /\ Last(name) = mac

\* What is read off the name of a suite of TLS 1.2 or below is what its parts say.
LEMMA LegacyIs ==
  ASSUME NEW W, {"WITH", "EXPORT"} \subseteq W,
         NEW kx \in Seq(W), kx # <<>>, "WITH" \notin Words(kx), "EXPORT" \notin Words(kx),
         NEW export \in BOOLEAN, NEW e \in Seq(W), e # <<>>, NEW mac \in W, mac # "8",
         NEW name, name = Exchanged(kx, export) \o <<"WITH">> \o (e \o <<mac>>)
  PROVE  ReadOff(name, kx, export, e, mac)
<1> DEFINE a == Exchanged(kx, export)
           b == e \o <<mac>>
           c == LegacySuite(name)
<1>1. "WITH" \in W /\ "EXPORT" \in W
  OBVIOUS
<1>2. /\ b \in Seq(W) /\ Len(b) = Len(e) + 1 /\ Len(e) \in Nat /\ Front(b) = e /\ Last(b) = mac
      /\ Words(b) = Words(e) \cup {mac}
  BY OneWordMore
<1>3. Len(e) > 0
  BY <1>2
<1>4. /\ a \in Seq(W) /\ (IF Last(a) = "EXPORT" THEN Front(a) ELSE a) = kx
      /\ Words(a) = Words(kx) \cup IF export THEN {"EXPORT"} ELSE {}
  <2>1. CASE export
    <3>1. a = kx \o <<"EXPORT">>
      BY <2>1 DEF Exchanged
    <3>2. a \in Seq(W) /\ Front(a) = kx /\ Last(a) = "EXPORT" /\ Words(a) = Words(kx) \cup {"EXPORT"}
      BY <1>1, <3>1, OneWordMore
    <3> QED BY <2>1, <3>2
  <2>2. CASE ~export
    <3>1. a = kx
      BY <2>2 DEF Exchanged
    <3>2. Last(kx) \in Words(kx)
      <4>1. Len(kx) \in 1..Len(kx) /\ DOMAIN kx = 1..Len(kx)
        OBVIOUS
      <4> QED BY <4>1 DEF Last, Words, Range
    <3>3. Last(kx) # "EXPORT"
      BY <3>2
    <3> QED BY <2>2, <3>1, <3>3
  <2> QED BY <2>1, <2>2
<1>5. "WITH" \notin Words(a)
  BY <1>4
<1>6. name = a \o <<"WITH">> \o b
  OBVIOUS
<1> HIDE DEF a, b
<1>7. Before(name) = a /\ After(name) = b
  BY <1>1, <1>2, <1>4, <1>5, <1>6, Split
<1>8. KeyExchangeOf(name) = kx
  BY <1>4, <1>7 DEF KeyExchangeOf
<1>9. /\ c.known = TRUE /\ c.signalling = FALSE
      /\ c.export = ("EXPORT" \in Words(a))
      /\ c.anonymous = Anonymous(kx)
      /\ c.forwardSecrecy = ((IF Anonymous(kx) THEN kx ELSE <<kx[1]>>) \in {<<"ECDHE">>, <<"DHE">>} /\ ~Anonymous(kx))
      /\ c.encryption = IF Len(b) > 1 /\ Last(b) # "8" THEN Front(b) ELSE b
      /\ c.mac = IF IsAEAD(IF Len(b) > 1 /\ Last(b) # "8" THEN Front(b) ELSE b) THEN "AEAD"
                 ELSE IF Len(b) > 1 /\ Last(b) # "8" THEN Last(b) ELSE ""
  BY <1>7, <1>8 DEF LegacySuite, Anonymous
<1> HIDE DEF c
<1>10. Len(b) > 1 /\ Last(b) # "8"
  BY <1>2, <1>3
<1>11. ("EXPORT" \in Words(a)) = export
  BY <1>4
<1>12. ((IF Anonymous(kx) THEN kx ELSE <<kx[1]>>) \in {<<"ECDHE">>, <<"DHE">>} /\ ~Anonymous(kx))
         = (kx[1] \in {"ECDHE", "DHE"} /\ ~Anonymous(kx))
  <2>1. \A x, y : <<x>> = <<y>> <=> x = y
    OBVIOUS
  <2> QED BY <2>1
<1>13. /\ Words(name) = Words(a) \cup {"WITH"} \cup Words(b) /\ Last(name) = mac
  <2> DEFINE w == a \o <<"WITH">>
  <2>1. w \in Seq(W) /\ Words(w) = Words(a) \cup {"WITH"} /\ name = w \o b
    <3>1. w \in Seq(W) /\ Words(w) = Words(a) \cup {"WITH"}
      <4>1. a \in Seq(W) /\ "WITH" \in W
        BY <1>1, <1>4
      <4>2. w \in Seq(W)
        BY <4>1, OneWordMore
      <4>3. Words(w) = Words(a) \cup {"WITH"}
        BY <4>1, OneWordMore
      <4> QED BY <4>2, <4>3
    <3> QED BY <1>6, <3>1
  <2> HIDE DEF w
  <2>2. Words(name) = Words(w) \cup Words(b)
    <3>1. Words(w \o b) = Words(w) \cup Words(b)
      <4>1. b \in Seq(W) /\ w \in Seq(W)
        BY <1>2, <2>1
      <4> QED BY <4>1, WordsConcat
    <3> QED BY <2>1, <3>1
  <2>3. Last(name) = Last(b)
    BY <1>2, <1>3, <2>1 DEF Last
  <2> QED BY <1>2, <2>1, <2>2, <2>3
<1>14. c.encryption = e /\ c.mac = IF IsAEAD(e) THEN "AEAD" ELSE mac
  BY <1>2, <1>9, <1>10
<1> QED BY <1>2, <1>4, <1>9, <1>11, <1>12, <1>13, <1>14 DEF c, ReadOff

\* The words that the parts of a name are made of.
KxWords == {"ECDHE", "DHE", "RSA", "DSS", "DH", "ECDH", "anon", "NULL"}
CipherWords == {"AES", "128", "256", "GCM", "CCM", "8", "CHACHA20", "POLY1305", "CBC", "3DES", "EDE", "RC4",
                "RC2", "40", "DES", "DES40", "NULL"}
MacWords == {"SHA", "SHA256", "MD5", "NULL"}
Vocabulary == KxWords \cup CipherWords \cup MacWords \cup {"WITH", "EXPORT"}

\* What SuiteJudged says of the words of a name, said of its properties.
Judged(words, c) ==
  LET ephemeral == "WITH" \notin words \/ (words \cap {"ECDHE", "DHE"} # {})
      nonesuch == words = {} \/ "SCSV" \in words
      has(S) == words \cap S # {}
  IN  /\ ~c.known <=> words = {}
      /\ c.known /\ c.anonymous <=> has({"anon"})
      /\ c.known /\ ~c.anonymous /\ c.export <=> has({"EXPORT"}) /\ ~has({"anon"})
      /\ "NULL" \in Words(c.encryption) <=> has({"NULL"})
      /\ Broken(c.encryption) <=> has({"RC4", "RC2", "DES", "DES40"})
      /\ (c.encryption # <<>> /\ c.encryption[1] = "3DES") \/ c.mac = "MD5" <=> has({"3DES", "MD5"})
      /\ c.known /\ ~c.forwardSecrecy /\ ~c.anonymous /\ ~c.signalling <=> ~nonesuch /\ ~ephemeral /\ ~has({"anon"})

\* The parts of a name of TLS 1.2 or below, of which the findings can be read.
Regular(kx, e, mac) ==
  /\ kx \in Seq(KxWords) /\ kx # <<>> /\ e \in Seq(CipherWords) /\ e # <<>> /\ mac \in MacWords
  /\ "anon" \in Words(kx) <=> Anonymous(kx)
  /\ kx[1] \in {"ECDHE", "DHE"} <=> (Words(kx) \cap {"ECDHE", "DHE"} # {})
  /\ "NULL" \in Words(kx) \cup {mac} => "NULL" \in Words(e)
  /\ Broken(e) <=> (Words(e) \cap {"RC4", "RC2", "DES", "DES40"} # {})
  /\ e[1] = "3DES" <=> "3DES" \in Words(e)
  /\ mac = "MD5" => ~IsAEAD(e)

\* A suite whose name is regular is judged by the words of the name.
LEMMA LegacyJudged ==
  ASSUME NEW kx, NEW e, NEW mac, Regular(kx, e, mac), NEW export \in BOOLEAN,
         NEW name, name = Exchanged(kx, export) \o <<"WITH">> \o (e \o <<mac>>)
  PROVE  Judged(Words(name), LegacySuite(name)) /\ "WITH" \in Words(name) /\ Last(name) # "SCSV"
<1> DEFINE W == Vocabulary
           c == LegacySuite(name)
           words == Words(name)
<1>1. /\ kx \in Seq(W) /\ kx # <<>> /\ e \in Seq(W) /\ e # <<>> /\ mac \in W /\ {"WITH", "EXPORT"} \subseteq W
      /\ Words(kx) \subseteq KxWords /\ Words(e) \subseteq CipherWords /\ mac \in MacWords
  <2>1. kx \in Seq(KxWords) /\ e \in Seq(CipherWords) /\ mac \in MacWords /\ kx # <<>> /\ e # <<>>
    BY DEF Regular
  <2>2. KxWords \subseteq W /\ CipherWords \subseteq W /\ MacWords \subseteq W /\ {"WITH", "EXPORT"} \subseteq W
    BY DEF Vocabulary
  <2> HIDE DEF W
  <2>3. ASSUME NEW S, S \subseteq W, NEW s \in Seq(S) PROVE s \in Seq(W) /\ Words(s) \subseteq S
    BY <2>3 DEF Words, Range
  <2> QED BY <2>1, <2>2, <2>3
<1>2. "WITH" \notin Words(kx) /\ "EXPORT" \notin Words(kx) /\ mac # "8"
  BY <1>1 DEF KxWords, MacWords
<1> HIDE DEF W
<1>3. /\ c.known /\ ~c.signalling
      /\ c.export = export
      /\ c.anonymous = Anonymous(kx)
      /\ c.forwardSecrecy = (kx[1] \in {"ECDHE", "DHE"} /\ ~Anonymous(kx))
      /\ c.encryption = e
      /\ c.mac = IF IsAEAD(e) THEN "AEAD" ELSE mac
      /\ "WITH" \in words
      /\ words = Words(kx) \cup Words(e) \cup {"WITH", mac} \cup IF export THEN {"EXPORT"} ELSE {}
      /\ Last(name) = mac
  <2>1. kx \in Seq(W) /\ e \in Seq(W) /\ mac \in W /\ {"WITH", "EXPORT"} \subseteq W /\ kx # <<>> /\ e # <<>>
    BY <1>1
  <2>2. ReadOff(name, kx, export, e, mac)
    BY <1>2, <2>1, LegacyIs
  <2> QED BY <2>2 DEF ReadOff
<1>4. /\ "anon" \in Words(kx) <=> Anonymous(kx)
      /\ kx[1] \in {"ECDHE", "DHE"} <=> ("ECDHE" \in Words(kx) \/ "DHE" \in Words(kx))
      /\ "NULL" \in Words(kx) \/ mac = "NULL" => "NULL" \in Words(e)
      /\ Broken(e) <=> ("RC4" \in Words(e) \/ "RC2" \in Words(e) \/ "DES" \in Words(e) \/ "DES40" \in Words(e))
      /\ e[1] = "3DES" <=> "3DES" \in Words(e)
      /\ mac = "MD5" => ~IsAEAD(e)
  BY DEF Regular
<1> HIDE DEF c, words
<1> DEFINE K == Words(kx)
           E == Words(e)
<1>5. K \subseteq KxWords /\ E \subseteq CipherWords /\ words = K \cup E \cup {"WITH", mac} \cup IF export THEN {"EXPORT"} ELSE {}
  BY <1>1, <1>3
<1>6. c.encryption # <<>> /\ Words(c.encryption) = E /\ (Broken(c.encryption) <=> Broken(e)) /\ c.encryption[1] = e[1]
  BY <1>1, <1>3
<1> DEFINE anonymous == Anonymous(kx)
           broken == Broken(e)
           aead == IsAEAD(e)
           first == kx[1]
           opening == e[1]
           ephemeral == first \in {"ECDHE", "DHE"}
<1>7. /\ "anon" \in K <=> anonymous
      /\ ephemeral <=> ("ECDHE" \in K \/ "DHE" \in K)
      /\ "NULL" \in K \/ mac = "NULL" => "NULL" \in E
      /\ broken <=> ("RC4" \in E \/ "RC2" \in E \/ "DES" \in E \/ "DES40" \in E)
      /\ opening = "3DES" <=> "3DES" \in E
      /\ mac = "MD5" => ~aead
  BY <1>4
<1>8. /\ c.known /\ ~c.signalling /\ (c.export <=> export) /\ (c.anonymous <=> anonymous)
      /\ c.forwardSecrecy <=> ephemeral /\ ~anonymous
      /\ c.mac = IF aead THEN "AEAD" ELSE mac
  BY <1>3
<1> HIDE DEF K, E, anonymous, broken, aead, first, opening, ephemeral
<1>9. /\ "anon" \in words <=> "anon" \in K
      /\ "EXPORT" \in words <=> export
      /\ "NULL" \in words <=> "NULL" \in E
      /\ "RC4" \in words <=> "RC4" \in E
      /\ "RC2" \in words <=> "RC2" \in E
      /\ "DES" \in words <=> "DES" \in E
      /\ "DES40" \in words <=> "DES40" \in E
      /\ "3DES" \in words <=> "3DES" \in E
      /\ "MD5" \in words <=> mac = "MD5"
      /\ "ECDHE" \in words <=> "ECDHE" \in K
      /\ "DHE" \in words <=> "DHE" \in K
      /\ "SCSV" \notin words /\ "WITH" \in words /\ mac # "SCSV"
  <2>1. mac \in MacWords
    BY <1>1
  <2>2. /\ "anon" \notin E /\ "EXPORT" \notin K /\ "EXPORT" \notin E /\ "SCSV" \notin K /\ "SCSV" \notin E
        /\ \A w \in {"RC4", "RC2", "DES", "DES40", "3DES", "MD5"} : w \notin K
        /\ "MD5" \notin E /\ "ECDHE" \notin E /\ "DHE" \notin E
    BY <1>5 DEF KxWords, CipherWords
  <2>3. mac = "SHA" \/ mac = "SHA256" \/ mac = "MD5" \/ mac = "NULL"
    BY <2>1 DEF MacWords
  <2>4. \A w : w \in words <=> w \in K \/ w \in E \/ w = "WITH" \/ w = mac \/ (export /\ w = "EXPORT")
    BY <1>5
  <2> HIDE DEF words
  <2>5. "NULL" \in words <=> "NULL" \in E
    BY <1>7, <2>3, <2>4
  <2> QED BY <2>2, <2>3, <2>4, <2>5
<1>10. ~c.known <=> words = {}
  BY <1>8, <1>9
<1>11. c.known /\ c.anonymous <=> words \cap {"anon"} # {}
  BY <1>7, <1>8, <1>9
<1>12. c.known /\ ~c.anonymous /\ c.export <=> words \cap {"EXPORT"} # {} /\ ~(words \cap {"anon"} # {})
  BY <1>7, <1>8, <1>9
<1>13. "NULL" \in Words(c.encryption) <=> words \cap {"NULL"} # {}
  BY <1>6, <1>9
<1>14. Broken(c.encryption) <=> words \cap {"RC4", "RC2", "DES", "DES40"} # {}
  BY <1>6, <1>7, <1>9 DEF broken
<1>15. (c.encryption # <<>> /\ c.encryption[1] = "3DES") \/ c.mac = "MD5" <=> words \cap {"3DES", "MD5"} # {}
  <2>1. c.mac = "MD5" <=> mac = "MD5"
    BY <1>7, <1>8
  <2>2. (c.encryption # <<>> /\ c.encryption[1] = "3DES") <=> "3DES" \in E
    BY <1>6, <1>7 DEF opening
  <2> QED BY <1>9, <2>1, <2>2
<1>16. c.known /\ ~c.forwardSecrecy /\ ~c.anonymous /\ ~c.signalling <=>
         ~(words = {} \/ "SCSV" \in words) /\ ~("WITH" \notin words \/ (words \cap {"ECDHE", "DHE"} # {}))
         /\ ~(words \cap {"anon"} # {})
  BY <1>7, <1>8, <1>9
<1>17. Judged(words, c)
  BY <1>10, <1>11, <1>12, <1>13, <1>14, <1>15, <1>16 DEF Judged
<1> QED BY <1>3, <1>9, <1>17 DEF words, c

\* The words of an AEAD of TLS 1.3.
AEADWords == {"AES", "128", "GCM", "CCM", "8", "CHACHA20", "POLY1305"}

\* And so is one of TLS 1.3, about which there is nothing to say.
LEMMA TLS13Judged ==
  ASSUME NEW e \in Seq(AEADWords), e # <<>>, NEW name, name = e \o <<"SHA256">>
  PROVE  Judged(Words(name), TLS13Suite(name)) /\ "WITH" \notin Words(name) /\ Last(name) # "SCSV"
<1> DEFINE W == AEADWords \cup {"SHA256"}
           c == TLS13Suite(name)
           words == Words(name)
<1>1. e \in Seq(W) /\ "SHA256" \in W /\ Words(e) \subseteq AEADWords
  <2> DEFINE A == AEADWords
  <2>1. e \in Seq(A) /\ A \subseteq W /\ "SHA256" \in W
    OBVIOUS
  <2> HIDE DEF W, A
  <2>2. e \in Seq(W) /\ Words(e) \subseteq A
    BY <2>1 DEF Words, Range
  <2> QED BY <2>1, <2>2 DEF A
<1>2. Front(name) = e /\ Last(name) = "SHA256" /\ words = Words(e) \cup {"SHA256"}
  <2> HIDE DEF W
  <2> QED BY <1>1, OneWordMore
<1>3. /\ c.known = TRUE /\ c.signalling = FALSE /\ c.export = FALSE /\ c.anonymous = FALSE
      /\ c.forwardSecrecy = TRUE /\ c.mac = "AEAD" /\ c.encryption = e
  BY <1>2 DEF TLS13Suite, Unknown
<1> HIDE DEF c
<1>4. e[1] \in Words(e) /\ Words(e) \subseteq AEADWords
  <2>1. 1 \in DOMAIN e
    BY DEF AEADWords
  <2> QED BY <1>1, <2>1 DEF Words, Range
<1>5. \A w \in {"NULL", "RC4", "RC2", "DES", "DES40", "3DES", "MD5", "anon", "EXPORT", "WITH", "SCSV"} : w \notin words
  BY <1>2, <1>4 DEF AEADWords
<1>6. ~Broken(e)
  <2>1. e[1] # "RC4" /\ "DES40" \notin Words(e)
    BY <1>4 DEF AEADWords
  <2>2. <<"DES", "CBC">>[1] = "DES" /\ <<"RC2", "CBC", "40">>[1] = "RC2"
    OBVIOUS
  <2>3. e[1] # "DES" /\ e[1] # "RC2"
    BY <1>4 DEF AEADWords
  <2> QED BY <2>1, <2>2, <2>3 DEF Broken
<1>7. e[1] # "3DES" /\ "NULL" \notin Words(e) /\ words # {}
  BY <1>2, <1>4 DEF AEADWords
<1> HIDE DEF words
<1>8. Judged(words, c)
  BY <1>3, <1>5, <1>6, <1>7 DEF Judged
<1> QED BY <1>2, <1>5, <1>8 DEF c, words

\* The suite that only signals.
LEMMA SignallingJudged ==
  LET name == <<"EMPTY", "RENEGOTIATION", "INFO", "SCSV">>
      c == [Unknown EXCEPT !.known = TRUE, !.signalling = TRUE]
  IN  Judged(Words(name), c) /\ Last(name) = "SCSV"
<1> DEFINE name == <<"EMPTY", "RENEGOTIATION", "INFO", "SCSV">>
           c == [Unknown EXCEPT !.known = TRUE, !.signalling = TRUE]
           words == Words(name)
<1>1. words = {"EMPTY", "RENEGOTIATION", "INFO", "SCSV"} /\ Last(name) = "SCSV"
  BY DEF Words, Range, Last
<1>2. /\ c.known = TRUE /\ c.signalling = TRUE /\ c.export = FALSE /\ c.anonymous = FALSE
      /\ c.forwardSecrecy = FALSE /\ c.mac = "" /\ c.encryption = <<>>
  BY DEF Unknown
<1> HIDE DEF c, words
<1>3. ~Broken(<<>>) /\ Words(<<>>) = {}
  BY DEF Broken, Words, Range
<1>4. Judged(words, c)
  BY <1>1, <1>2, <1>3 DEF Judged
<1> QED BY <1>1, <1>4 DEF c, words

\* And one without a name.
LEMMA UnknownJudged == Judged({}, Unknown)
<1>1. /\ Unknown.known = FALSE /\ Unknown.signalling = FALSE /\ Unknown.export = FALSE
      /\ Unknown.anonymous = FALSE /\ Unknown.mac = "" /\ Unknown.encryption = <<>>
  BY DEF Unknown
<1>2. ~Broken(<<>>) /\ Words(<<>>) = {}
  BY DEF Broken, Words, Range
<1> QED BY <1>1, <1>2 DEF Judged

\* The table, entry by entry.
LEMMA Named ==
  /\ DOMAIN CipherSuiteNames = NamedSuites
  /\ CipherSuiteNames[4865] = <<"AES", "128", "GCM", "SHA256">>
  /\ CipherSuiteNames[4867] = <<"CHACHA20", "POLY1305", "SHA256">>
  /\ CipherSuiteNames[4869] = <<"AES", "128", "CCM", "8", "SHA256">>
  /\ CipherSuiteNames[49199] = <<"ECDHE", "RSA", "WITH", "AES", "128", "GCM", "SHA256">>
  /\ CipherSuiteNames[52394] = <<"DHE", "RSA", "WITH", "CHACHA20", "POLY1305", "SHA256">>
  /\ CipherSuiteNames[49171] = <<"ECDHE", "RSA", "WITH", "AES", "128", "CBC", "SHA">>
  /\ CipherSuiteNames[61] = <<"RSA", "WITH", "AES", "256", "CBC", "SHA256">>
  /\ CipherSuiteNames[47] = <<"RSA", "WITH", "AES", "128", "CBC", "SHA">>
  /\ CipherSuiteNames[10] = <<"RSA", "WITH", "3DES", "EDE", "CBC", "SHA">>
  /\ CipherSuiteNames[4] = <<"RSA", "WITH", "RC4", "128", "MD5">>
  /\ CipherSuiteNames[18] = <<"DHE", "DSS", "WITH", "DES", "CBC", "SHA">>
  /\ CipherSuiteNames[0] = <<"NULL", "WITH", "NULL", "NULL">>
  /\ CipherSuiteNames[49168] = <<"ECDHE", "RSA", "WITH", "NULL", "SHA">>
  /\ CipherSuiteNames[6] = <<"RSA", "EXPORT", "WITH", "RC2", "CBC", "40", "MD5">>
  /\ CipherSuiteNames[17] = <<"DHE", "DSS", "EXPORT", "WITH", "DES40", "CBC", "SHA">>
  /\ CipherSuiteNames[23] = <<"DH", "anon", "EXPORT", "WITH", "RC4", "40", "MD5">>
  /\ CipherSuiteNames[58] = <<"DH", "anon", "WITH", "AES", "256", "CBC", "SHA">>
  /\ CipherSuiteNames[49173] = <<"ECDH", "anon", "WITH", "NULL", "SHA">>
  /\ CipherSuiteNames[255] = <<"EMPTY", "RENEGOTIATION", "INFO", "SCSV">>
BY DEF CipherSuiteNames, NamedSuites

\* The words of a suite's name, none if it has no name.
WordsOf(id) == IF id \in DOMAIN CipherSuiteNames THEN Range(CipherSuiteNames[id]) ELSE {}

\* The same, of an entry of the table.
LEMMA LegacyNamed ==
  ASSUME NEW id \in NamedSuites, NEW kx, NEW e, NEW mac, Regular(kx, e, mac), NEW export \in BOOLEAN,
         CipherSuiteNames[id] = Exchanged(kx, export) \o <<"WITH">> \o (e \o <<mac>>)
  PROVE  Judged(WordsOf(id), Cipher(id))
<1> DEFINE name == CipherSuiteNames[id]
<1>1. name = Exchanged(kx, export) \o <<"WITH">> \o (e \o <<mac>>)
  OBVIOUS
<1>2. id \in DOMAIN CipherSuiteNames
  BY Named
<1> HIDE DEF name
<1>3. Judged(Words(name), LegacySuite(name)) /\ "WITH" \in Words(name) /\ Last(name) # "SCSV"
  BY <1>1, LegacyJudged
<1>4. Cipher(id) = LegacySuite(name)
  BY <1>2, <1>3 DEF Cipher, name
<1>5. WordsOf(id) = Words(name)
  BY <1>2 DEF WordsOf, Words, name
<1> QED BY <1>3, <1>4, <1>5

LEMMA TLS13Named ==
  ASSUME NEW id \in NamedSuites, NEW e \in Seq(AEADWords), e # <<>>, CipherSuiteNames[id] = e \o <<"SHA256">>
  PROVE  Judged(WordsOf(id), Cipher(id))
<1> DEFINE name == CipherSuiteNames[id]
<1>1. name = e \o <<"SHA256">>
  OBVIOUS
<1>2. id \in DOMAIN CipherSuiteNames
  BY Named
<1> HIDE DEF name
<1>3. Judged(Words(name), TLS13Suite(name)) /\ "WITH" \notin Words(name) /\ Last(name) # "SCSV"
  BY <1>1, TLS13Judged
<1>4. Cipher(id) = TLS13Suite(name)
  BY <1>2, <1>3 DEF Cipher, name
<1>5. WordsOf(id) = Words(name)
  BY <1>2 DEF WordsOf, Words, name
<1> QED BY <1>3, <1>4, <1>5

\* Every suite is judged by the words of its name.
LEMMA CipherJudged ==
  ASSUME NEW id
  PROVE  Judged(WordsOf(id), Cipher(id))
<1>1. CASE id = 4865
  <2> DEFINE e == <<"AES", "128", "GCM">>
  <2>1. CipherSuiteNames[id] = e \o <<"SHA256">>
    BY <1>1, Named
  <2>2. e \in Seq(AEADWords) /\ e # <<>>
    BY DEF AEADWords
  <2> HIDE DEF e
  <2>3. id \in NamedSuites
    BY <1>1 DEF NamedSuites
  <2> QED BY <2>1, <2>2, <2>3, TLS13Named
<1>2. CASE id = 4867
  <2> DEFINE e == <<"CHACHA20", "POLY1305">>
  <2>1. CipherSuiteNames[id] = e \o <<"SHA256">>
    BY <1>2, Named
  <2>2. e \in Seq(AEADWords) /\ e # <<>>
    BY DEF AEADWords
  <2> HIDE DEF e
  <2>3. id \in NamedSuites
    BY <1>2 DEF NamedSuites
  <2> QED BY <2>1, <2>2, <2>3, TLS13Named
<1>3. CASE id = 4869
  <2> DEFINE e == <<"AES", "128", "CCM", "8">>
  <2>1. CipherSuiteNames[id] = e \o <<"SHA256">>
    BY <1>3, Named
  <2>2. e \in Seq(AEADWords) /\ e # <<>>
    BY DEF AEADWords
  <2> HIDE DEF e
  <2>3. id \in NamedSuites
    BY <1>3 DEF NamedSuites
  <2> QED BY <2>1, <2>2, <2>3, TLS13Named
<1>4. CASE id = 49199
  <2> DEFINE kx == <<"ECDHE", "RSA">>
             e == <<"AES", "128", "GCM">>
  <2>1. CipherSuiteNames[id] = Exchanged(kx, FALSE) \o <<"WITH">> \o (e \o <<"SHA256">>)
    BY <1>4, Named DEF Exchanged
  <2>2. Regular(kx, e, "SHA256")
    <3>1. kx \in Seq(KxWords) /\ kx # <<>> /\ e \in Seq(CipherWords) /\ e # <<>> /\ "SHA256" \in MacWords
      BY DEF KxWords, CipherWords, MacWords
    <3>2. Words(kx) = {"ECDHE", "RSA"} /\ Words(e) = {"AES", "128", "GCM"}
      BY DEF Words, Range
    <3>3. ~Anonymous(kx) /\ kx[1] = "ECDHE" /\ e[1] = "AES"
      BY DEF Anonymous, Last
    <3>4. ~Broken(e)
      BY <3>2, <3>3 DEF Broken
    <3> HIDE DEF kx, e
    <3> QED BY <3>1, <3>2, <3>3, <3>4 DEF Regular
  <2> HIDE DEF kx, e
  <2>3. id \in NamedSuites
    BY <1>4 DEF NamedSuites
  <2> QED BY <2>1, <2>2, <2>3, LegacyNamed
<1>5. CASE id = 52394
  <2> DEFINE kx == <<"DHE", "RSA">>
             e == <<"CHACHA20", "POLY1305">>
  <2>1. CipherSuiteNames[id] = Exchanged(kx, FALSE) \o <<"WITH">> \o (e \o <<"SHA256">>)
    BY <1>5, Named DEF Exchanged
  <2>2. Regular(kx, e, "SHA256")
    <3>1. kx \in Seq(KxWords) /\ kx # <<>> /\ e \in Seq(CipherWords) /\ e # <<>> /\ "SHA256" \in MacWords
      BY DEF KxWords, CipherWords, MacWords
    <3>2. Words(kx) = {"DHE", "RSA"} /\ Words(e) = {"CHACHA20", "POLY1305"}
      BY DEF Words, Range
    <3>3. ~Anonymous(kx) /\ kx[1] = "DHE" /\ e[1] = "CHACHA20"
      BY DEF Anonymous, Last
    <3>4. ~Broken(e)
      BY <3>2, <3>3 DEF Broken
    <3> HIDE DEF kx, e
    <3> QED BY <3>1, <3>2, <3>3, <3>4 DEF Regular
  <2> HIDE DEF kx, e
  <2>3. id \in NamedSuites
    BY <1>5 DEF NamedSuites
  <2> QED BY <2>1, <2>2, <2>3, LegacyNamed
<1>6. CASE id = 49171
  <2> DEFINE kx == <<"ECDHE", "RSA">>
             e == <<"AES", "128", "CBC">>
  <2>1. CipherSuiteNames[id] = Exchanged(kx, FALSE) \o <<"WITH">> \o (e \o <<"SHA">>)
    BY <1>6, Named DEF Exchanged
  <2>2. Regular(kx, e, "SHA")
    <3>1. kx \in Seq(KxWords) /\ kx # <<>> /\ e \in Seq(CipherWords) /\ e # <<>> /\ "SHA" \in MacWords
      BY DEF KxWords, CipherWords, MacWords
    <3>2. Words(kx) = {"ECDHE", "RSA"} /\ Words(e) = {"AES", "128", "CBC"}
      BY DEF Words, Range
    <3>3. ~Anonymous(kx) /\ kx[1] = "ECDHE" /\ e[1] = "AES"
      BY DEF Anonymous, Last
    <3>4. ~Broken(e)
      BY <3>2, <3>3 DEF Broken
    <3> HIDE DEF kx, e
    <3> QED BY <3>1, <3>2, <3>3, <3>4 DEF Regular
  <2> HIDE DEF kx, e
  <2>3. id \in NamedSuites
    BY <1>6 DEF NamedSuites
  <2> QED BY <2>1, <2>2, <2>3, LegacyNamed
<1>7. CASE id = 61
  <2> DEFINE kx == <<"RSA">>
             e == <<"AES", "256", "CBC">>
  <2>1. CipherSuiteNames[id] = Exchanged(kx, FALSE) \o <<"WITH">> \o (e \o <<"SHA256">>)
    BY <1>7, Named DEF Exchanged
  <2>2. Regular(kx, e, "SHA256")
    <3>1. kx \in Seq(KxWords) /\ kx # <<>> /\ e \in Seq(CipherWords) /\ e # <<>> /\ "SHA256" \in MacWords
      BY DEF KxWords, CipherWords, MacWords
    <3>2. Words(kx) = {"RSA"} /\ Words(e) = {"AES", "256", "CBC"}
      BY DEF Words, Range
    <3>3. ~Anonymous(kx) /\ kx[1] = "RSA" /\ e[1] = "AES"
      BY DEF Anonymous, Last
    <3>4. ~Broken(e)
      BY <3>2, <3>3 DEF Broken
    <3> HIDE DEF kx, e
    <3> QED BY <3>1, <3>2, <3>3, <3>4 DEF Regular
  <2> HIDE DEF kx, e
  <2>3. id \in NamedSuites
    BY <1>7 DEF NamedSuites
  <2> QED BY <2>1, <2>2, <2>3, LegacyNamed
<1>8. CASE id = 47
  <2> DEFINE kx == <<"RSA">>
             e == <<"AES", "128", "CBC">>
  <2>1. CipherSuiteNames[id] = Exchanged(kx, FALSE) \o <<"WITH">> \o (e \o <<"SHA">>)
    BY <1>8, Named DEF Exchanged
  <2>2. Regular(kx, e, "SHA")
    <3>1. kx \in Seq(KxWords) /\ kx # <<>> /\ e \in Seq(CipherWords) /\ e # <<>> /\ "SHA" \in MacWords
      BY DEF KxWords, CipherWords, MacWords
    <3>2. Words(kx) = {"RSA"} /\ Words(e) = {"AES", "128", "CBC"}
      BY DEF Words, Range
    <3>3. ~Anonymous(kx) /\ kx[1] = "RSA" /\ e[1] = "AES"
      BY DEF Anonymous, Last
    <3>4. ~Broken(e)
      BY <3>2, <3>3 DEF Broken
    <3> HIDE DEF kx, e
    <3> QED BY <3>1, <3>2, <3>3, <3>4 DEF Regular
  <2> HIDE DEF kx, e
  <2>3. id \in NamedSuites
    BY <1>8 DEF NamedSuites
  <2> QED BY <2>1, <2>2, <2>3, LegacyNamed
<1>9. CASE id = 10
  <2> DEFINE kx == <<"RSA">>
             e == <<"3DES", "EDE", "CBC">>
  <2>1. CipherSuiteNames[id] = Exchanged(kx, FALSE) \o <<"WITH">> \o (e \o <<"SHA">>)
    BY <1>9, Named DEF Exchanged
  <2>2. Regular(kx, e, "SHA")
    <3>1. kx \in Seq(KxWords) /\ kx # <<>> /\ e \in Seq(CipherWords) /\ e # <<>> /\ "SHA" \in MacWords
      BY DEF KxWords, CipherWords, MacWords
    <3>2. Words(kx) = {"RSA"} /\ Words(e) = {"3DES", "EDE", "CBC"}
      BY DEF Words, Range
    <3>3. ~Anonymous(kx) /\ kx[1] = "RSA" /\ e[1] = "3DES"
      BY DEF Anonymous, Last
    <3>4. ~Broken(e)
      BY <3>2, <3>3 DEF Broken
    <3> HIDE DEF kx, e
    <3> QED BY <3>1, <3>2, <3>3, <3>4 DEF Regular
  <2> HIDE DEF kx, e
  <2>3. id \in NamedSuites
    BY <1>9 DEF NamedSuites
  <2> QED BY <2>1, <2>2, <2>3, LegacyNamed
<1>10. CASE id = 4
  <2> DEFINE kx == <<"RSA">>
             e == <<"RC4", "128">>
  <2>1. CipherSuiteNames[id] = Exchanged(kx, FALSE) \o <<"WITH">> \o (e \o <<"MD5">>)
    BY <1>10, Named DEF Exchanged
  <2>2. Regular(kx, e, "MD5")
    <3>1. kx \in Seq(KxWords) /\ kx # <<>> /\ e \in Seq(CipherWords) /\ e # <<>> /\ "MD5" \in MacWords
      BY DEF KxWords, CipherWords, MacWords
    <3>2. Words(kx) = {"RSA"} /\ Words(e) = {"RC4", "128"}
      BY DEF Words, Range
    <3>3. ~Anonymous(kx) /\ kx[1] = "RSA" /\ e[1] = "RC4"
      BY DEF Anonymous, Last
    <3>4. Broken(e)
      BY <3>2, <3>3 DEF Broken
    <3>5. ~IsAEAD(e)
      BY <3>2 DEF IsAEAD
    <3> HIDE DEF kx, e
    <3> QED BY <3>1, <3>2, <3>3, <3>4, <3>5 DEF Regular
  <2> HIDE DEF kx, e
  <2>3. id \in NamedSuites
    BY <1>10 DEF NamedSuites
  <2> QED BY <2>1, <2>2, <2>3, LegacyNamed
<1>11. CASE id = 18
  <2> DEFINE kx == <<"DHE", "DSS">>
             e == <<"DES", "CBC">>
  <2>1. CipherSuiteNames[id] = Exchanged(kx, FALSE) \o <<"WITH">> \o (e \o <<"SHA">>)
    BY <1>11, Named DEF Exchanged
  <2>2. Regular(kx, e, "SHA")
    <3>1. kx \in Seq(KxWords) /\ kx # <<>> /\ e \in Seq(CipherWords) /\ e # <<>> /\ "SHA" \in MacWords
      BY DEF KxWords, CipherWords, MacWords
    <3>2. Words(kx) = {"DHE", "DSS"} /\ Words(e) = {"DES", "CBC"}
      BY DEF Words, Range
    <3>3. ~Anonymous(kx) /\ kx[1] = "DHE" /\ e[1] = "DES"
      BY DEF Anonymous, Last
    <3>4. Broken(e)
      BY <3>2, <3>3 DEF Broken
    <3> HIDE DEF kx, e
    <3> QED BY <3>1, <3>2, <3>3, <3>4 DEF Regular
  <2> HIDE DEF kx, e
  <2>3. id \in NamedSuites
    BY <1>11 DEF NamedSuites
  <2> QED BY <2>1, <2>2, <2>3, LegacyNamed
<1>12. CASE id = 0
  <2> DEFINE kx == <<"NULL">>
             e == <<"NULL">>
  <2>1. CipherSuiteNames[id] = Exchanged(kx, FALSE) \o <<"WITH">> \o (e \o <<"NULL">>)
    BY <1>12, Named DEF Exchanged
  <2>2. Regular(kx, e, "NULL")
    <3>1. kx \in Seq(KxWords) /\ kx # <<>> /\ e \in Seq(CipherWords) /\ e # <<>> /\ "NULL" \in MacWords
      BY DEF KxWords, CipherWords, MacWords
    <3>2. Words(kx) = {"NULL"} /\ Words(e) = {"NULL"}
      BY DEF Words, Range
    <3>3. ~Anonymous(kx) /\ kx[1] = "NULL" /\ e[1] = "NULL"
      BY DEF Anonymous, Last
    <3>4. ~Broken(e)
      BY <3>2, <3>3 DEF Broken
    <3> HIDE DEF kx, e
    <3> QED BY <3>1, <3>2, <3>3, <3>4 DEF Regular
  <2> HIDE DEF kx, e
  <2>3. id \in NamedSuites
    BY <1>12 DEF NamedSuites
  <2> QED BY <2>1, <2>2, <2>3, LegacyNamed
<1>13. CASE id = 49168
  <2> DEFINE kx == <<"ECDHE", "RSA">>
             e == <<"NULL">>
  <2>1. CipherSuiteNames[id] = Exchanged(kx, FALSE) \o <<"WITH">> \o (e \o <<"SHA">>)
    BY <1>13, Named DEF Exchanged
  <2>2. Regular(kx, e, "SHA")
    <3>1. kx \in Seq(KxWords) /\ kx # <<>> /\ e \in Seq(CipherWords) /\ e # <<>> /\ "SHA" \in MacWords
      BY DEF KxWords, CipherWords, MacWords
    <3>2. Words(kx) = {"ECDHE", "RSA"} /\ Words(e) = {"NULL"}
      BY DEF Words, Range
    <3>3. ~Anonymous(kx) /\ kx[1] = "ECDHE" /\ e[1] = "NULL"
      BY DEF Anonymous, Last
    <3>4. ~Broken(e)
      BY <3>2, <3>3 DEF Broken
    <3> HIDE DEF kx, e
    <3> QED BY <3>1, <3>2, <3>3, <3>4 DEF Regular
  <2> HIDE DEF kx, e
  <2>3. id \in NamedSuites
    BY <1>13 DEF NamedSuites
  <2> QED BY <2>1, <2>2, <2>3, LegacyNamed
<1>14. CASE id = 6
  <2> DEFINE kx == <<"RSA">>
             e == <<"RC2", "CBC", "40">>
  <2>1. CipherSuiteNames[id] = Exchanged(kx, TRUE) \o <<"WITH">> \o (e \o <<"MD5">>)
    BY <1>14, Named DEF Exchanged
  <2>2. Regular(kx, e, "MD5")
    <3>1. kx \in Seq(KxWords) /\ kx # <<>> /\ e \in Seq(CipherWords) /\ e # <<>> /\ "MD5" \in MacWords
      BY DEF KxWords, CipherWords, MacWords
    <3>2. Words(kx) = {"RSA"} /\ Words(e) = {"RC2", "CBC", "40"}
      BY DEF Words, Range
    <3>3. ~Anonymous(kx) /\ kx[1] = "RSA" /\ e[1] = "RC2"
      BY DEF Anonymous, Last
    <3>4. Broken(e)
      BY <3>2, <3>3 DEF Broken
    <3>5. ~IsAEAD(e)
      BY <3>2 DEF IsAEAD
    <3> HIDE DEF kx, e
    <3> QED BY <3>1, <3>2, <3>3, <3>4, <3>5 DEF Regular
  <2> HIDE DEF kx, e
  <2>3. id \in NamedSuites
    BY <1>14 DEF NamedSuites
  <2> QED BY <2>1, <2>2, <2>3, LegacyNamed
<1>15. CASE id = 17
  <2> DEFINE kx == <<"DHE", "DSS">>
             e == <<"DES40", "CBC">>
  <2>1. CipherSuiteNames[id] = Exchanged(kx, TRUE) \o <<"WITH">> \o (e \o <<"SHA">>)
    BY <1>15, Named DEF Exchanged
  <2>2. Regular(kx, e, "SHA")
    <3>1. kx \in Seq(KxWords) /\ kx # <<>> /\ e \in Seq(CipherWords) /\ e # <<>> /\ "SHA" \in MacWords
      BY DEF KxWords, CipherWords, MacWords
    <3>2. Words(kx) = {"DHE", "DSS"} /\ Words(e) = {"DES40", "CBC"}
      BY DEF Words, Range
    <3>3. ~Anonymous(kx) /\ kx[1] = "DHE" /\ e[1] = "DES40"
      BY DEF Anonymous, Last
    <3>4. Broken(e)
      BY <3>2, <3>3 DEF Broken
    <3> HIDE DEF kx, e
    <3> QED BY <3>1, <3>2, <3>3, <3>4 DEF Regular
  <2> HIDE DEF kx, e
  <2>3. id \in NamedSuites
    BY <1>15 DEF NamedSuites
  <2> QED BY <2>1, <2>2, <2>3, LegacyNamed
<1>16. CASE id = 23
  <2> DEFINE kx == <<"DH", "anon">>
             e == <<"RC4", "40">>
  <2>1. CipherSuiteNames[id] = Exchanged(kx, TRUE) \o <<"WITH">> \o (e \o <<"MD5">>)
    BY <1>16, Named DEF Exchanged
  <2>2. Regular(kx, e, "MD5")
    <3>1. kx \in Seq(KxWords) /\ kx # <<>> /\ e \in Seq(CipherWords) /\ e # <<>> /\ "MD5" \in MacWords
      BY DEF KxWords, CipherWords, MacWords
    <3>2. Words(kx) = {"DH", "anon"} /\ Words(e) = {"RC4", "40"}
      BY DEF Words, Range
    <3>3. Anonymous(kx) /\ kx[1] = "DH" /\ e[1] = "RC4"
      BY DEF Anonymous, Last
    <3>4. Broken(e)
      BY <3>2, <3>3 DEF Broken
    <3>5. ~IsAEAD(e)
      BY <3>2 DEF IsAEAD
    <3> HIDE DEF kx, e
    <3> QED BY <3>1, <3>2, <3>3, <3>4, <3>5 DEF Regular
  <2> HIDE DEF kx, e
  <2>3. id \in NamedSuites
    BY <1>16 DEF NamedSuites
  <2> QED BY <2>1, <2>2, <2>3, LegacyNamed
<1>17. CASE id = 58
  <2> DEFINE kx == <<"DH", "anon">>
             e == <<"AES", "256", "CBC">>
  <2>1. CipherSuiteNames[id] = Exchanged(kx, FALSE) \o <<"WITH">> \o (e \o <<"SHA">>)
    BY <1>17, Named DEF Exchanged
  <2>2. Regular(kx, e, "SHA")
    <3>1. kx \in Seq(KxWords) /\ kx # <<>> /\ e \in Seq(CipherWords) /\ e # <<>> /\ "SHA" \in MacWords
      BY DEF KxWords, CipherWords, MacWords
    <3>2. Words(kx) = {"DH", "anon"} /\ Words(e) = {"AES", "256", "CBC"}
      BY DEF Words, Range
    <3>3. Anonymous(kx) /\ kx[1] = "DH" /\ e[1] = "AES"
      BY DEF Anonymous, Last
    <3>4. ~Broken(e)
      BY <3>2, <3>3 DEF Broken
    <3> HIDE DEF kx, e
    <3> QED BY <3>1, <3>2, <3>3, <3>4 DEF Regular
  <2> HIDE DEF kx, e
  <2>3. id \in NamedSuites
    BY <1>17 DEF NamedSuites
  <2> QED BY <2>1, <2>2, <2>3, LegacyNamed
<1>18. CASE id = 49173
  <2> DEFINE kx == <<"ECDH", "anon">>
             e == <<"NULL">>
  <2>1. CipherSuiteNames[id] = Exchanged(kx, FALSE) \o <<"WITH">> \o (e \o <<"SHA">>)
    BY <1>18, Named DEF Exchanged
  <2>2. Regular(kx, e, "SHA")
    <3>1. kx \in Seq(KxWords) /\ kx # <<>> /\ e \in Seq(CipherWords) /\ e # <<>> /\ "SHA" \in MacWords
      BY DEF KxWords, CipherWords, MacWords
    <3>2. Words(kx) = {"ECDH", "anon"} /\ Words(e) = {"NULL"}
      BY DEF Words, Range
    <3>3. Anonymous(kx) /\ kx[1] = "ECDH" /\ e[1] = "NULL"
      BY DEF Anonymous, Last
    <3>4. ~Broken(e)
      BY <3>2, <3>3 DEF Broken
    <3> HIDE DEF kx, e
    <3> QED BY <3>1, <3>2, <3>3, <3>4 DEF Regular
  <2> HIDE DEF kx, e
  <2>3. id \in NamedSuites
    BY <1>18 DEF NamedSuites
  <2> QED BY <2>1, <2>2, <2>3, LegacyNamed
<1>19. CASE id = 255
  <2>1. id \in DOMAIN CipherSuiteNames /\ CipherSuiteNames[id] = <<"EMPTY", "RENEGOTIATION", "INFO", "SCSV">>
    BY <1>19, Named DEF NamedSuites
  <2> DEFINE name == <<"EMPTY", "RENEGOTIATION", "INFO", "SCSV">>
             c == [Unknown EXCEPT !.known = TRUE, !.signalling = TRUE]
  <2>2. Judged(Words(name), c) /\ Last(name) = "SCSV"
    BY SignallingJudged
  <2> HIDE DEF name
  <2>3. Cipher(id) = c
    BY <2>1, <2>2 DEF Cipher, name
  <2>4. WordsOf(id) = Words(name)
    BY <2>1 DEF WordsOf, Words, name
  <2> QED BY <2>2, <2>3, <2>4
<1>20. CASE id \notin NamedSuites
  <2>1. WordsOf(id) = {} /\ Cipher(id) = Unknown
    BY <1>20, Named DEF WordsOf, Cipher
  <2> QED BY <2>1, UnknownJudged
<1> QED BY <1>1, <1>2, <1>3, <1>4, <1>5, <1>6, <1>7, <1>8, <1>9, <1>10, <1>11, <1>12, <1>13, <1>14, <1>15, <1>16, <1>17, <1>18, <1>19, <1>20 DEF NamedSuites

\* A suite is judged by what its name says.
LEMMA WalkJudgesSuite ==
  ASSUME WalkInv
  PROVE  SuiteJudged
<1> SUFFICES ASSUME ServerRead PROVE SuiteJudged
  BY DEF SuiteJudged
<1> DEFINE n == wire.server
           id == n.suites[1]
           found == IDs(Record)
           words == WordsOf(id)
           c == Cipher(id)
<1>1. n.head /\ n \in ServerMessage /\ sh = Cut(Answered(n, n.exts), n)
  BY DoneIs DEF ServerRead
<1>2. sh.suite = id
  BY <1>1, AnsweredAll
<1>3. found \cap CipherIds = Called(CipherFindings(c))
  <2>1. found = Called(Findings(Flow))
    BY RecordIs DEF IDs, Called
  <2> HIDE DEF found, c
  <2>2. found \cap CipherIds = Called(CipherFindings(Cipher(sh.suite)))
    BY <1>1, <2>1, FindingsCalled
  <2> QED BY <1>2, <2>2 DEF c
<1>4. Judged(words, c)
  BY CipherJudged
<1> HIDE DEF found, words, c
<1>5. \A f \in CipherIds : f \in found <=> f \in Called(CipherFindings(c))
  BY <1>3
<1>6. /\ "unknown_cipher" \in found <=> ~c.known
      /\ "anonymous_key_exchange" \in found <=> c.known /\ c.anonymous
      /\ "export_cipher" \in found <=> c.known /\ ~c.anonymous /\ c.export
      /\ "null_encryption" \in found <=> "NULL" \in Words(c.encryption)
      /\ "broken_cipher" \in found <=> Broken(c.encryption)
      /\ "weak_cipher" \in found <=> (c.encryption # <<>> /\ c.encryption[1] = "3DES") \/ c.mac = "MD5"
      /\ "no_forward_secrecy" \in found <=> c.known /\ ~c.forwardSecrecy /\ ~c.anonymous /\ ~c.signalling
  BY <1>5, CipherCalled DEF CipherIds
<1> DEFINE ephemeral == "WITH" \notin words \/ (words \cap {"ECDHE", "DHE"} # {})
           nonesuch == words = {} \/ "SCSV" \in words
           has(S) == words \cap S # {}
<1>7. /\ "unknown_cipher" \in found <=> words = {}
      /\ "anonymous_key_exchange" \in found <=> has({"anon"})
      /\ "export_cipher" \in found <=> has({"EXPORT"}) /\ ~has({"anon"})
      /\ "null_encryption" \in found <=> has({"NULL"})
      /\ "broken_cipher" \in found <=> has({"RC4", "RC2", "DES", "DES40"})
      /\ "weak_cipher" \in found <=> has({"3DES", "MD5"})
      /\ "no_forward_secrecy" \in found <=> ~nonesuch /\ ~ephemeral /\ ~has({"anon"})
  BY <1>4, <1>6, Zenon DEF Judged
<1> QED BY <1>7, Zenon DEF SuiteJudged, found, words, WordsOf

\* Grade, version and suite of a record are judged by what was on the wire.
THEOREM ObservationRecord == Spec => []RecordFaithful
<1>1. WalkInv => SuiteJudged
  BY WalkJudgesSuite
<1> QED BY <1>1, WalkInductive, ObservationGrade, ObservationVersion, PTL DEF RecordFaithful


(***************************************************************************)
(* Fingerprints.  Lists with the same members, as often, have the same     *)
(* fingerprint.                                                            *)
(***************************************************************************)
SameMembers(l, k) == \A C : Cardinality(Spots(l, C)) = Cardinality(Spots(k, C))

LEMMA SortedSame ==
  ASSUME NEW l \in Seq(Nat), NEW k \in Seq(Nat), SameMembers(l, k)
  PROVE  Sorted(l) = Sorted(k) /\ Counted(l) = Counted(k) /\ Range(l) = Range(k)
<1>1. \A C : Cardinality(Spots(l, C)) = Cardinality(Spots(k, C))
  BY DEF SameMembers
<1>2. ASSUME NEW q \in Seq(Nat) PROVE Cardinality(Spots(q, Nat)) = Len(q)
  <2>1. Spots(q, Nat) = 1..Len(q) /\ Len(q) \in Nat
    BY DEF Spots
  <2>2. Cardinality(1..Len(q)) = IF 1 <= Len(q) THEN Len(q) - 1 + 1 ELSE 0
    <3>1. 1 \in Int /\ Len(q) \in Int
      BY <2>1
    <3>2. \A a, z \in Int : Cardinality(a..z) = IF a > z THEN 0 ELSE z - a + 1
      BY FS_Interval
    <3> QED BY <3>1, <3>2
  <2> QED BY <2>1, <2>2
<1>3. Len(l) = Len(k)
  BY <1>1, <1>2
<1>4. ASSUME NEW q \in Seq(Nat), NEW x PROVE x \in Range(q) <=> Cardinality(Spots(q, {x})) # 0
  <2>1. x \in Range(q) <=> Spots(q, {x}) # {}
    BY DEF Range, Spots
  <2>2. IsFiniteSet(Spots(q, {x}))
    BY SpotsFinite
  <2> QED BY <2>1, <2>2, FS_EmptySet
<1>5. Range(l) = Range(k)
  <2>1. \A x : x \in Range(l) <=> x \in Range(k)
    BY <1>1, <1>4
  <2> QED BY <2>1
<1>6. \A v : Cardinality({j \in DOMAIN l : l[j] < v}) = Cardinality({j \in DOMAIN k : k[j] < v})
  <2>1. ASSUME NEW v PROVE Cardinality({j \in DOMAIN l : l[j] < v}) = Cardinality({j \in DOMAIN k : k[j] < v})
    <3> DEFINE C == {x \in Nat : x < v}
    <3>1. {j \in DOMAIN l : l[j] < v} = Spots(l, C) /\ {j \in DOMAIN k : k[j] < v} = Spots(k, C)
      BY DEF Spots
    <3> QED BY <1>1, <3>1
  <2> QED BY <2>1
<1>7. \A v : Cardinality({j \in DOMAIN l : l[j] <= v}) = Cardinality({j \in DOMAIN k : k[j] <= v})
  <2>1. ASSUME NEW v PROVE Cardinality({j \in DOMAIN l : l[j] <= v}) = Cardinality({j \in DOMAIN k : k[j] <= v})
    <3> DEFINE C == {x \in Nat : x <= v}
    <3>1. {j \in DOMAIN l : l[j] <= v} = Spots(l, C) /\ {j \in DOMAIN k : k[j] <= v} = Spots(k, C)
      BY DEF Spots
    <3> QED BY <1>1, <3>1
  <2> QED BY <2>1
<1>8. Sorted(l) = Sorted(k)
  <2> DEFINE Ith(q, i) == CHOOSE v \in Range(q) :
               /\ Cardinality({j \in DOMAIN q : q[j] < v}) < i
               /\ Cardinality({j \in DOMAIN q : q[j] <= v}) >= i
  <2>1. ASSUME NEW i PROVE Ith(l, i) = Ith(k, i)
    <3>1. \A v : v \in Range(l) /\ Cardinality({j \in DOMAIN l : l[j] < v}) < i
                                /\ Cardinality({j \in DOMAIN l : l[j] <= v}) >= i
             <=> v \in Range(k) /\ Cardinality({j \in DOMAIN k : k[j] < v}) < i
                                /\ Cardinality({j \in DOMAIN k : k[j] <= v}) >= i
      BY <1>5, <1>6, <1>7, Zenon
    <3> QED BY <3>1, Zenon
  <2>2. Sorted(l) = [i \in 1..Len(l) |-> Ith(l, i)] /\ Sorted(k) = [i \in 1..Len(k) |-> Ith(k, i)]
    BY DEF Sorted
  <2> HIDE DEF Ith
  <2>3. [i \in 1..Len(l) |-> Ith(l, i)] = [i \in 1..Len(l) |-> Ith(k, i)]
    BY <2>1
  <2> QED BY <1>3, <2>2, <2>3
<1>9. Counted(l) = Counted(k)
  BY <1>3 DEF Counted
<1> QED BY <1>5, <1>8, <1>9

\* The same members are left of them.
LEMMA WithoutSameMembers ==
  ASSUME NEW l \in Seq(Nat), NEW k \in Seq(Nat), NEW S,
         \A C : Cardinality(Spots(l, C \ S)) = Cardinality(Spots(k, C \ S))
  PROVE  SameMembers(Without(l, S), Without(k, S))
<1>1. \A C : /\ Cardinality(Spots(Without(l, S), C)) = Cardinality(Spots(l, C \ S))
             /\ Cardinality(Spots(Without(k, S), C)) = Cardinality(Spots(k, C \ S))
  BY WithoutSpots
<1> QED BY <1>1 DEF SameMembers

\* Two hellos look alike if they differ in nothing that JA4 is made of.
Alike(c, d) ==
  /\ c.legacy = d.legacy /\ c.versions = d.versions /\ c.alpn = d.alpn /\ c.sigAlgs = d.sigAlgs
  /\ c.name # 0 <=> d.name # 0
  /\ ExtQUICTransportParams \in c.flags <=> ExtQUICTransportParams \in d.flags
  /\ c.suites \in Seq(Nat) /\ d.suites \in Seq(Nat) /\ SameMembers(c.suites, d.suites)
  /\ c.exts \in Seq(Nat) /\ d.exts \in Seq(Nat) /\ SameMembers(c.exts, d.exts)

LEMMA AlikeJA4 ==
  ASSUME NEW c, NEW d, Alike(c, d)
  PROVE  JA4(c) = JA4(d)
<1>1. Sorted(c.suites) = Sorted(d.suites) /\ Counted(c.suites) = Counted(d.suites) /\ Counted(c.exts) = Counted(d.exts)
  BY SortedSame DEF Alike
<1>2. HashedExtensions(c) = HashedExtensions(d)
  <2> DEFINE S == {ExtServerName, ExtALPN}
  <2> HIDE DEF S
  <2>1. /\ c.exts \in Seq(Nat) /\ d.exts \in Seq(Nat)
        /\ \A C : Cardinality(Spots(c.exts, C \ S)) = Cardinality(Spots(d.exts, C \ S))
    BY DEF Alike, SameMembers
  <2>2. SameMembers(Without(c.exts, S), Without(d.exts, S))
    BY <2>1, WithoutSameMembers
  <2>3. Without(c.exts, S) \in Seq(Nat) /\ Without(d.exts, S) \in Seq(Nat)
    BY <2>1, WithoutType
  <2>4. Sorted(Without(c.exts, S)) = Sorted(Without(d.exts, S))
    BY <2>2, <2>3, SortedSame
  <2> QED BY <2>4 DEF HashedExtensions, S
<1>3. OfferedVersion(c) = OfferedVersion(d)
  BY DEF Alike, OfferedVersion
<1>4. (ExtQUICTransportParams \in c.flags) = (ExtQUICTransportParams \in d.flags) /\ (c.name # 0) = (d.name # 0)
      /\ c.alpn = d.alpn /\ c.sigAlgs = d.sigAlgs
  BY DEF Alike
<1> QED BY <1>1, <1>2, <1>3, <1>4, Zenon DEF JA4

\* Two messages look alike if what the walk keeps of them does.
Indistinct(m, n) ==
  /\ m.legacy = n.legacy
  /\ \A C : Cardinality(Spots(m.suites, C \ Reserved)) = Cardinality(Spots(n.suites, C \ Reserved))
  /\ \A C : Cardinality(Spots(TypesOf(m.exts), C \ Reserved)) = Cardinality(Spots(TypesOf(n.exts), C \ Reserved))
  /\ \A t \in {ExtSupportedVersions, ExtSignatureAlgorithms, ExtALPN} :
       Latest(m.exts, WholeOf(t)).items = Latest(n.exts, WholeOf(t)).items
  /\ NameIn(Latest(m.exts, Naming)) # 0 <=> NameIn(Latest(n.exts, Naming)) # 0

LEMMA IndistinctJA4 ==
  ASSUME NEW m \in ClientMessage, NEW n \in ClientMessage, Indistinct(m, n)
  PROVE  JA4(ReadClient(m)) = JA4(ReadClient(n))
<1> DEFINE c == Cut(Decoded(m, m.exts), m)
           d == Cut(Decoded(n, n.exts), n)
           q == ExtQUICTransportParams
<1>1. ReadClient(m) = c /\ ReadClient(n) = d
  BY ReadClientIs
<1>2. /\ m.exts \in Seq(Extension) /\ n.exts \in Seq(Extension) /\ m.suites \in Seq(Nat) /\ n.suites \in Seq(Nat)
  BY DEF ClientMessage
<1>3. TypesOf(m.exts) \in Seq(Nat) /\ TypesOf(n.exts) \in Seq(Nat)
  BY <1>2, TypesIs
<1>4. ASSUME NEW x \in ClientMessage
      PROVE  LET h == Cut(Decoded(x, x.exts), x)
             IN  /\ h.legacy = x.legacy /\ h.suites = Clean(x.suites) /\ h.exts = Clean(TypesOf(x.exts))
                 /\ h.versions = Clean(Latest(x.exts, WholeOf(ExtSupportedVersions)).items)
                 /\ h.sigAlgs = Clean(Latest(x.exts, WholeOf(ExtSignatureAlgorithms)).items)
                 /\ h.alpn = Latest(x.exts, WholeOf(ExtALPN)).items
                 /\ h.name = NameIn(Latest(x.exts, Naming)) /\ h.flags = Range(TypesOf(x.exts)) \cap Flags
  <2> DEFINE e == Decoded(x, x.exts)
             h == Cut(e, x)
  <2>1. \A f \in HelloFields \ {"truncated"} : h[f] = e[f]
    BY CutIs
  <2>2. /\ e.legacy = x.legacy /\ e.suites = Clean(x.suites) /\ e.exts = Clean(TypesOf(x.exts))
        /\ e.versions = Clean(Latest(x.exts, WholeOf(ExtSupportedVersions)).items)
        /\ e.sigAlgs = Clean(Latest(x.exts, WholeOf(ExtSignatureAlgorithms)).items)
        /\ e.alpn = Latest(x.exts, WholeOf(ExtALPN)).items
        /\ e.name = NameIn(Latest(x.exts, Naming)) /\ e.flags = Range(TypesOf(x.exts)) \cap Flags
    BY DEF Decoded
  <2> HIDE DEF e, h
  <2>3. h.legacy = e.legacy /\ h.suites = e.suites /\ h.exts = e.exts /\ h.versions = e.versions
        /\ h.sigAlgs = e.sigAlgs /\ h.alpn = e.alpn /\ h.name = e.name /\ h.flags = e.flags
    BY <2>1 DEF HelloFields
  <2>4. /\ h.legacy = x.legacy /\ h.suites = Clean(x.suites) /\ h.exts = Clean(TypesOf(x.exts))
        /\ h.versions = Clean(Latest(x.exts, WholeOf(ExtSupportedVersions)).items)
        /\ h.sigAlgs = Clean(Latest(x.exts, WholeOf(ExtSignatureAlgorithms)).items)
        /\ h.alpn = Latest(x.exts, WholeOf(ExtALPN)).items
        /\ h.name = NameIn(Latest(x.exts, Naming)) /\ h.flags = Range(TypesOf(x.exts)) \cap Flags
    BY <2>2, <2>3
  <2> QED BY <2>4 DEF e, h
<1>5. Clean(m.suites) \in Seq(Nat) /\ Clean(n.suites) \in Seq(Nat)
      /\ Clean(TypesOf(m.exts)) \in Seq(Nat) /\ Clean(TypesOf(n.exts)) \in Seq(Nat)
  <2>1. \A l \in Seq(Nat) : Without(l, Reserved) \in Seq(Nat)
    BY WithoutType
  <2> QED BY <1>2, <1>3, <2>1 DEF Clean
<1>6. SameMembers(Clean(m.suites), Clean(n.suites)) /\ SameMembers(Clean(TypesOf(m.exts)), Clean(TypesOf(n.exts)))
  <2>1. \A l, k \in Seq(Nat) : (\A C : Cardinality(Spots(l, C \ Reserved)) = Cardinality(Spots(k, C \ Reserved)))
          => SameMembers(Without(l, Reserved), Without(k, Reserved))
    BY WithoutSameMembers
  <2> QED BY <1>2, <1>3, <2>1, Zenon DEF Clean, Indistinct
<1>7. q \in Range(TypesOf(m.exts)) \cap Flags <=> q \in Range(TypesOf(n.exts)) \cap Flags
  <2>1. Range(Clean(TypesOf(m.exts))) = Range(Clean(TypesOf(n.exts)))
    BY <1>5, <1>6, SortedSame
  <2>2. \A l \in Seq(Nat) : Range(Clean(l)) = Range(l) \ Reserved
    BY WithoutRange DEF Clean
  <2>3. q \notin Reserved
    BY ReservedUnused DEF Flags
  <2>4. Range(TypesOf(m.exts)) \ Reserved = Range(TypesOf(n.exts)) \ Reserved
    BY <1>3, <2>1, <2>2
  <2> QED BY <2>3, <2>4
<1> DEFINE cc == c
           dd == d
<1>8. /\ cc.legacy = m.legacy /\ cc.suites = Clean(m.suites) /\ cc.exts = Clean(TypesOf(m.exts))
      /\ cc.versions = Clean(Latest(m.exts, WholeOf(ExtSupportedVersions)).items)
      /\ cc.sigAlgs = Clean(Latest(m.exts, WholeOf(ExtSignatureAlgorithms)).items)
      /\ cc.alpn = Latest(m.exts, WholeOf(ExtALPN)).items
      /\ cc.name = NameIn(Latest(m.exts, Naming)) /\ cc.flags = Range(TypesOf(m.exts)) \cap Flags
  BY <1>4
<1>9. /\ dd.legacy = n.legacy /\ dd.suites = Clean(n.suites) /\ dd.exts = Clean(TypesOf(n.exts))
      /\ dd.versions = Clean(Latest(n.exts, WholeOf(ExtSupportedVersions)).items)
      /\ dd.sigAlgs = Clean(Latest(n.exts, WholeOf(ExtSignatureAlgorithms)).items)
      /\ dd.alpn = Latest(n.exts, WholeOf(ExtALPN)).items
      /\ dd.name = NameIn(Latest(n.exts, Naming)) /\ dd.flags = Range(TypesOf(n.exts)) \cap Flags
  BY <1>4
<1>10. ReadClient(m) = cc /\ ReadClient(n) = dd
  BY <1>1
<1> HIDE DEF cc, dd
<1>11. Alike(cc, dd)
  BY <1>5, <1>6, <1>7, <1>8, <1>9 DEF Alike, Indistinct
<1> QED BY <1>10, <1>11, AlikeJA4


(***************************************************************************)
(* The disguises of a message.                                             *)
(***************************************************************************)

\* q is l with its members moved by p.
Moves(p, q, l) ==
  /\ p \in [1..Len(l) -> 1..Len(l)]
  /\ \A i, j \in 1..Len(l) : p[i] = p[j] => i = j
  /\ \A i \in 1..Len(l) : \E j \in 1..Len(l) : p[j] = i
  /\ q = [i \in 1..Len(l) |-> l[p[i]]]

LEMMA ShuffleMoves ==
  ASSUME NEW T, NEW l \in Seq(T), NEW q \in Shuffles(l)
  PROVE  \E p : Moves(p, q, l)
<1> DEFINE D == 1..Len(l)
<1>1. DOMAIN l = D /\ Len(l) \in Nat
  OBVIOUS
<1>2. PICK p \in Bijection(D, D) : q = [i \in D |-> l[p[i]]]
  BY <1>1, Zenon DEF Shuffles
<1>3. p \in [D -> D] /\ (\A i \in D : \E j \in D : p[j] = i) /\ (\A i, j \in D : p[i] = p[j] => i = j)
  <2> HIDE DEF D
  <2> QED BY Fun_BijectionProperties
<1>4. Moves(p, q, l)
  BY <1>2, <1>3 DEF Moves
<1> QED BY <1>4

\* A shuffled list has the same members, as often.
LEMMA ShuffleSpots ==
  ASSUME NEW T, NEW l \in Seq(T), NEW q, NEW p, Moves(p, q, l)
  PROVE  q \in Seq(T) /\ Len(q) = Len(l) /\ \A C : Cardinality(Spots(q, C)) = Cardinality(Spots(l, C))
<1>1. DOMAIN l = 1..Len(l) /\ Len(l) \in Nat /\ \A i \in 1..Len(l) : l[i] \in T
  OBVIOUS
<1>2. \A i \in 1..Len(l) : p[i] \in 1..Len(l) /\ q[i] = l[p[i]]
  BY DEF Moves
<1>3. q \in [1..Len(l) -> T]
  BY <1>1, <1>2 DEF Moves
<1>4. q \in Seq(T) /\ Len(q) = Len(l) /\ DOMAIN q = 1..Len(l)
  BY <1>1, <1>3
<1>5. ASSUME NEW C PROVE Cardinality(Spots(q, C)) = Cardinality(Spots(l, C))
  <2> DEFINE A == Spots(q, C)
             B == Spots(l, C)
             f == [i \in A |-> p[i]]
  <2>1. /\ \A i : i \in A <=> i \in 1..Len(l) /\ q[i] \in C
        /\ \A i : i \in B <=> i \in 1..Len(l) /\ l[i] \in C
    BY <1>1, <1>4 DEF Spots
  <2>2. IsFiniteSet(A)
    BY <1>4, SpotsFinite
  <2> HIDE DEF A, B
  <2>3. f \in [A -> B]
    BY <1>2, <2>1
  <2>4. \A i, j \in A : f[i] = f[j] => i = j
    BY <2>1 DEF Moves
  <2>5. \A b \in B : \E i \in A : f[i] = b
    <3>1. ASSUME NEW b \in B PROVE \E i \in A : f[i] = b
      <4>1. PICK i \in 1..Len(l) : p[i] = b
        BY <2>1 DEF Moves
      <4>2. i \in A
        BY <1>2, <2>1, <4>1
      <4> QED BY <4>1, <4>2
    <3> QED BY <3>1
  <2> HIDE DEF f
  <2>6. f \in Bijection(A, B)
    BY <2>3, <2>4, <2>5, Fun_IsBij
  <2>7. ExistsBijection(A, B)
    BY <2>6, Fun_ExistsBij
  <2> QED BY <2>2, <2>7, FS_Bijection DEF A, B
<1> QED BY <1>4, <1>5

\* Suites in another order.
LEMMA ShuffledSuites ==
  ASSUME NEW m \in ClientMessage, NEW s \in Shuffles(m.suites)
  PROVE  [m EXCEPT !.suites = s] \in ClientMessage /\ Indistinct(m, [m EXCEPT !.suites = s])
<1> DEFINE n == [m EXCEPT !.suites = s]
<1>1. m.suites \in Seq(Nat)
  BY DEF ClientMessage
<1>2. PICK p : Moves(p, s, m.suites)
  BY <1>1, ShuffleMoves
<1>3. s \in Seq(Nat) /\ \A C : Cardinality(Spots(s, C)) = Cardinality(Spots(m.suites, C))
  BY <1>1, <1>2, ShuffleSpots
<1>4. n.suites = s /\ n.exts = m.exts /\ n.legacy = m.legacy /\ n \in ClientMessage
  BY <1>3 DEF ClientMessage
<1> HIDE DEF n
<1>5. \A C : Cardinality(Spots(m.suites, C \ Reserved)) = Cardinality(Spots(n.suites, C \ Reserved))
  BY <1>3, <1>4
<1>6. Indistinct(m, n)
  BY <1>4, <1>5 DEF Indistinct
<1> QED BY <1>4, <1>6 DEF n

\* Extensions of types that are not repeated are apart.
LEMMA TypesApart ==
  ASSUME NEW m, m.exts \in Seq(Extension), Cardinality(Range(Types(m))) = Len(m.exts)
  PROVE  \A i, j \in 1..Len(m.exts) : m.exts[i].type = m.exts[j].type => i = j
<1> DEFINE D == 1..Len(m.exts)
           t == Types(m)
<1>1. Len(m.exts) \in Nat /\ DOMAIN m.exts = D
  OBVIOUS
<1>2. IsFiniteSet(D) /\ Cardinality(D) = Len(m.exts)
  <2>1. 1 \in Int /\ Len(m.exts) \in Int
    BY <1>1
  <2>2. \A a, z \in Int : IsFiniteSet(a..z) /\ Cardinality(a..z) = IF a > z THEN 0 ELSE z - a + 1
    BY FS_Interval
  <2>3. IsFiniteSet(D) /\ Cardinality(D) = IF 1 > Len(m.exts) THEN 0 ELSE Len(m.exts) - 1 + 1
    BY <2>1, <2>2
  <2> QED BY <1>1, <2>3
<1>3. t = [i \in D |-> m.exts[i].type]
  BY <1>1 DEF Types
<1>4. Range(t) = {t[i] : i \in D}
  BY <1>3 DEF Range
<1> HIDE DEF D, t
<1>5. t \in [D -> Range(t)] /\ \A y \in Range(t) : \E i \in D : t[i] = y
  BY <1>3, <1>4
<1>6. t \in Surjection(D, Range(t))
  BY <1>5, Fun_IsSurj
<1>7. Cardinality(D) = Cardinality(Range(t))
  BY <1>2 DEF t
<1>8. t \in Injection(D, Range(t))
  BY <1>2, <1>6, <1>7, FS_SurjSameCardinalityImpliesInj
<1>9. \A i, j \in D : t[i] = t[j] => i = j
  BY <1>8, Fun_InjectionProperties
<1> QED BY <1>3, <1>9 DEF D

\* The only one of a kind is the last, wherever it is.
LEMMA ShuffledLatest ==
  ASSUME NEW T, NEW l \in Seq(T), NEW q, NEW p, Moves(p, q, l), NEW E,
         \A i, j \in 1..Len(l) : l[i] \in E /\ l[j] \in E => i = j
  PROVE  Latest(q, E) = Latest(l, E)
<1>1. q \in Seq(T) /\ Len(q) = Len(l)
  BY ShuffleSpots
<1>2. /\ \A i \in 1..Len(l) : p[i] \in 1..Len(l) /\ q[i] = l[p[i]]
      /\ \A i, j \in 1..Len(l) : p[i] = p[j] => i = j
      /\ \A i \in 1..Len(l) : \E j \in 1..Len(l) : p[j] = i
  BY DEF Moves
<1>3. CASE Spots(l, E) = {}
  <2>1. \A i \in 1..Len(l) : l[i] \notin E
    BY <1>3 DEF Spots
  <2>2. DOMAIN q = 1..Len(l) /\ \A i \in DOMAIN q : q[i] \notin E
    <3>1. DOMAIN q = 1..Len(l)
      BY <1>1
    <3>2. \A i \in 1..Len(l) : p[i] \in 1..Len(l) /\ q[i] = l[p[i]]
      BY <1>2
    <3> QED BY <2>1, <3>1, <3>2
  <2>3. Spots(q, E) = {}
    BY <2>2 DEF Spots
  <2> QED BY <1>3, <2>3 DEF Latest
<1>4. CASE Spots(l, E) # {}
  <2>1. PICK i \in 1..Len(l) : l[i] \in E /\ Latest(l, E) = l[i]
    BY <1>4, LatestExists
  <2>2. PICK j \in 1..Len(l) : p[j] = i
    BY <1>2
  <2>3. q[j] \in E /\ q[j] = l[i] /\ j \in 1..Len(q)
    BY <1>1, <1>2, <2>1, <2>2
  <2>4. \A k \in 1..Len(q) : k > j => q[k] \notin E
    <3>1. ASSUME NEW k \in 1..Len(q), k > j, q[k] \in E PROVE FALSE
      <4>1. k \in 1..Len(l) /\ l[p[k]] \in E /\ p[k] \in 1..Len(l)
        BY <1>1, <1>2, <3>1
      <4>2. p[k] = i
        BY <2>1, <4>1
      <4>3. k = j
        <5>1. p[k] = p[j]
          BY <2>2, <4>2
        <5>2. \A x, y \in 1..Len(l) : p[x] = p[y] => x = y
          BY <1>2
        <5> QED BY <2>2, <4>1, <5>1, <5>2
      <4> QED BY <1>1, <2>2, <3>1, <4>3
    <3> QED BY <3>1
  <2>5. Latest(q, E) = q[j]
    BY <1>1, <2>3, <2>4, LatestIs
  <2> QED BY <2>1, <2>3, <2>5
<1> QED BY <1>3, <1>4

\* Extensions in another order.
LEMMA ShuffledExtensions ==
  ASSUME NEW m \in ClientMessage, NEW x \in Shuffles(m.exts), Cardinality(Range(Types(m))) = Len(m.exts)
  PROVE  [m EXCEPT !.exts = x] \in ClientMessage /\ Indistinct(m, [m EXCEPT !.exts = x])
<1> DEFINE n == [m EXCEPT !.exts = x]
           s == m.exts
<1>1. s \in Seq(Extension) /\ DOMAIN s = 1..Len(s) /\ Len(s) \in Nat
  BY DEF ClientMessage
<1>2. PICK p : Moves(p, x, s)
  BY <1>1, ShuffleMoves
<1>3. x \in Seq(Extension) /\ Len(x) = Len(s) /\ DOMAIN x = 1..Len(s)
  BY <1>1, <1>2, ShuffleSpots
<1>4. n.suites = m.suites /\ n.exts = x /\ n.legacy = m.legacy /\ n \in ClientMessage
  BY <1>3 DEF ClientMessage
<1>5. \A i, j \in 1..Len(s) : s[i].type = s[j].type => i = j
  BY <1>1, TypesApart
<1>6. /\ p \in [1..Len(s) -> 1..Len(s)]
      /\ \A i \in 1..Len(s) : x[i] = s[p[i]]
  BY <1>2 DEF Moves
<1>7. \A C : Cardinality(Spots(TypesOf(x), C \ Reserved)) = Cardinality(Spots(TypesOf(s), C \ Reserved))
  <2>1. /\ TypesOf(s) \in Seq(Nat) /\ Len(TypesOf(s)) = Len(s)
        /\ \A i \in 1..Len(s) : TypesOf(s)[i] = s[i].type
    BY <1>1, TypesIs DEF Types, TypesOf
  <2>2. TypesOf(x) = [i \in 1..Len(s) |-> TypesOf(s)[p[i]]]
    BY <1>3, <1>6, <2>1 DEF TypesOf
  <2>3. Moves(p, TypesOf(x), TypesOf(s))
    BY <1>2, <2>1, <2>2 DEF Moves
  <2> QED BY <2>1, <2>3, ShuffleSpots
<1>8. \A E, t : (\A e \in E : e.type = t) => Latest(x, E) = Latest(s, E)
  <2>1. ASSUME NEW E, NEW t, \A e \in E : e.type = t PROVE Latest(x, E) = Latest(s, E)
    <3>1. \A i, j \in 1..Len(s) : s[i] \in E /\ s[j] \in E => i = j
      BY <1>5, <2>1
    <3> QED BY <1>1, <1>2, <3>1, ShuffledLatest
  <2> QED BY <2>1
<1>9. \A t : Latest(x, WholeOf(t)) = Latest(s, WholeOf(t))
  <2>1. \A t : \A e \in WholeOf(t) : e.type = t
    BY DEF WholeOf
  <2> QED BY <1>8, <2>1
<1>10. Latest(x, Naming) = Latest(s, Naming)
  <2>1. \A e \in Naming : e.type = ExtServerName
    BY DEF Naming
  <2> QED BY <1>8, <2>1
<1> HIDE DEF n
<1>11. Indistinct(m, n)
  BY <1>4, <1>7, <1>9, <1>10 DEF Indistinct
<1> QED BY <1>4, <1>11 DEF n


\* The last of a kind is still there if only others are left out.
LEMMA WithoutLatest ==
  ASSUME NEW T, NEW list \in Seq(T), NEW G, NEW E, E \cap G = {}
  PROVE  Latest(Without(list, G), E) = Latest(list, E)
<1> DEFINE F == {s \in Seq(T) : Latest(Without(s, G), E) = Latest(s, E)}
<1>1. <<>> \in F
  <2>1. <<>> \in Seq(T)
    OBVIOUS
  <2>2. Without(<<>>, G) = <<>>
    BY <2>1, WithoutType
  <2> QED BY <2>1, <2>2
<1>2. \A s \in Seq(T) : s \in F => \A x \in T : Append(s, x) \in F
  <2> SUFFICES ASSUME NEW s \in Seq(T), s \in F, NEW x \in T PROVE Append(s, x) \in F
    OBVIOUS
  <2> DEFINE w == Without(s, G)
             v == Without(Append(s, x), G)
  <2>1. w \in Seq(T) /\ Append(s, x) \in Seq(T)
    BY WithoutType
  <2>2. v = IF x \in G THEN w ELSE Append(w, x)
    BY WithoutAppend
  <2>3. Latest(Append(s, x), E) = IF x \in E THEN x ELSE Latest(s, E)
    BY LatestAppend
  <2>4. Latest(Append(w, x), E) = IF x \in E THEN x ELSE Latest(w, E)
    <3> HIDE DEF w
    <3> QED BY <2>1, LatestAppend
  <2>5. Latest(w, E) = Latest(s, E)
    OBVIOUS
  <2> HIDE DEF w, v
  <2>6. Latest(v, E) = Latest(Append(s, x), E)
    BY <2>2, <2>3, <2>4, <2>5
  <2> QED BY <2>1, <2>6 DEF v
<1> HIDE DEF F
<1>3. Seq(T) \subseteq F
  BY <1>1, <1>2, InductionOverSeq
<1>4. list \in F
  BY <1>3
<1> QED BY <1>4 DEF F

\* The types of the extensions of some types.
LEMMA TypesSpots ==
  ASSUME NEW s \in Seq(Extension), NEW C
  PROVE  Spots(TypesOf(s), C) = Spots(s, {e \in Extension : e.type \in C})
<1>1. DOMAIN s = 1..Len(s) /\ \A i \in 1..Len(s) : s[i] \in Extension
  OBVIOUS
<1>2. DOMAIN TypesOf(s) = 1..Len(s) /\ \A i \in 1..Len(s) : TypesOf(s)[i] = s[i].type
  BY DEF TypesOf
<1> QED BY <1>1, <1>2 DEF Spots

\* The message without GREASE.
LEMMA CleanedMessage ==
  ASSUME NEW m \in ClientMessage, NEW n,
         n = [m EXCEPT !.suites = Clean(m.suites),
                       !.exts = Without(m.exts, {e \in Range(m.exts) : e.type \in Reserved})]
  PROVE  n \in ClientMessage /\ Indistinct(m, n)
<1> DEFINE G == {e \in Range(m.exts) : e.type \in Reserved}
           s == m.exts
           x == Without(s, G)
           l == m.suites
           k == Clean(l)
<1>1. s \in Seq(Extension) /\ l \in Seq(Nat)
  BY DEF ClientMessage
<1>2. x \in Seq(Extension)
  <2> HIDE DEF G
  <2> QED BY <1>1, WithoutType
<1>3. k \in Seq(Nat)
  BY <1>1, WithoutType DEF Clean
<1> HIDE DEF x, k
<1>4. n = [m EXCEPT !.suites = k, !.exts = x]
  BY DEF x, k
<1>5. n.suites = k /\ n.exts = x /\ n.legacy = m.legacy /\ n \in ClientMessage
  BY <1>2, <1>3, <1>4 DEF ClientMessage
<1>6. \A C : Cardinality(Spots(l, C \ Reserved)) = Cardinality(Spots(k, C \ Reserved))
  <2>1. ASSUME NEW C PROVE Cardinality(Spots(l, C \ Reserved)) = Cardinality(Spots(k, C \ Reserved))
    <3> DEFINE D == C \ Reserved
    <3>1. D \ Reserved = D
      OBVIOUS
    <3> HIDE DEF D
    <3>2. Cardinality(Spots(Without(l, Reserved), D)) = Cardinality(Spots(l, D \ Reserved))
      BY <1>1, WithoutSpots
    <3> QED BY <3>1, <3>2 DEF D, k, Clean
  <2> QED BY <2>1
<1>7. \A C : Cardinality(Spots(TypesOf(s), C \ Reserved)) = Cardinality(Spots(TypesOf(x), C \ Reserved))
  <2>1. ASSUME NEW C PROVE Cardinality(Spots(TypesOf(s), C \ Reserved)) = Cardinality(Spots(TypesOf(x), C \ Reserved))
    <3> DEFINE D == C \ Reserved
               E == {e \in Extension : e.type \in D}
    <3>1. E \ G = E
      OBVIOUS
    <3> HIDE DEF G, D
    <3>2. Spots(TypesOf(s), D) = Spots(s, E) /\ Spots(TypesOf(x), D) = Spots(x, E)
      BY <1>1, <1>2, TypesSpots
    <3> HIDE DEF E
    <3>3. Cardinality(Spots(x, E)) = Cardinality(Spots(s, E \ G))
      BY <1>1, WithoutSpots DEF x
    <3> QED BY <3>1, <3>2, <3>3 DEF D
  <2> QED BY <2>1
<1>8. \A E, t : (\A e \in E : e.type = t) /\ t \notin Reserved => Latest(x, E) = Latest(s, E)
  <2>1. ASSUME NEW E, NEW t, \A e \in E : e.type = t, t \notin Reserved PROVE Latest(x, E) = Latest(s, E)
    <3>1. E \cap G = {}
      BY <2>1
    <3> HIDE DEF G
    <3> QED BY <1>1, <3>1, WithoutLatest DEF x
  <2> QED BY <2>1
<1> HIDE DEF G
<1>9. \A t \in {ExtSupportedVersions, ExtSignatureAlgorithms, ExtALPN} : Latest(x, WholeOf(t)) = Latest(s, WholeOf(t))
  <2>1. \A t : \A e \in WholeOf(t) : e.type = t
    BY DEF WholeOf
  <2>2. ExtSupportedVersions \notin Reserved /\ ExtSignatureAlgorithms \notin Reserved /\ ExtALPN \notin Reserved
    BY ReservedUnused DEF ListField
  <2> QED BY <1>8, <2>1, <2>2
<1>10. Latest(x, Naming) = Latest(s, Naming)
  <2>1. \A e \in Naming : e.type = ExtServerName
    BY DEF Naming
  <2>2. ExtServerName \notin Reserved
    BY ReservedUnused
  <2> QED BY <1>8, <2>1, <2>2
<1>11. Indistinct(m, n)
  BY <1>5, <1>6, <1>7, <1>9, <1>10 DEF Indistinct
<1> QED BY <1>5, <1>11

\* An extension with another name in it.
LEMMA RenamedIs ==
  ASSUME NEW e \in Extension, NEW r, r = Renamed(e)
  PROVE  /\ r \in Extension /\ r.type = e.type /\ r.whole = e.whole
         /\ e.type # ExtServerName => r = e
         /\ e.type = ExtServerName => Hosts(r) = Hosts(e) /\ (NameIn(r) # 0 <=> NameIn(e) # 0)
<1>1. CASE e.type # ExtServerName
  BY <1>1 DEF Renamed
<1>2. CASE e.type = ExtServerName
  <2> DEFINE it == e.items
             new == [i \in DOMAIN it |-> IF it[i] = 0 THEN 0 ELSE 99]
  <2>1. ExtServerName # ExtALPN /\ ExtServerName \notin Flags
    BY DEF ExtServerName, ExtALPN, Flags, ExtStatusRequest, ExtExtendedMasterSecret, ExtSessionTicket,
           ExtPreSharedKey, ExtEarlyData, ExtQUICTransportParams, ExtRenegotiationInfo
  <2>2. it \in Seq(Nat)
    BY <1>2, <2>1, ExtensionIs
  <2>3. DOMAIN it = 1..Len(it) /\ Len(it) \in Nat
    BY <2>2
  <2>4. new \in Seq(Nat) /\ DOMAIN new = DOMAIN it /\ \A i \in DOMAIN it : new[i] # 0 <=> it[i] # 0
    BY <2>3
  <2>5. r = [e EXCEPT !.items = new]
    BY <1>2 DEF Renamed
  <2> HIDE DEF new
  <2>6. e \in [type : Nat \ {ExtALPN}, whole : BOOLEAN, items : Seq(Nat)] /\ e.type \notin Flags
    BY <1>2, <2>1 DEF Extension
  <2>7. r \in [type : Nat \ {ExtALPN}, whole : BOOLEAN, items : Seq(Nat)]
        /\ r.type = e.type /\ r.whole = e.whole /\ r.items = new
    BY <2>4, <2>5, <2>6
  <2>8. r \in Extension
    BY <2>6, <2>7 DEF Extension
  <2>9. Hosts(r) = Hosts(e)
    BY <2>4, <2>7 DEF Hosts
  <2>10. NameIn(r) # 0 <=> NameIn(e) # 0
    <3> DEFINE H == Hosts(e)
    <3>1. CASE H = {}
      BY <2>9, <3>1 DEF NameIn
    <3>2. CASE H # {}
      <4>1. H \subseteq Nat /\ H \subseteq DOMAIN it
        BY <2>3 DEF Hosts
      <4>2. \A i \in H : it[i] # 0
        BY DEF Hosts
      <4> HIDE DEF H, it
      <4>3. Min(H) \in H
        BY <3>2, <4>1, MinIs
      <4>4. it[Min(H)] # 0 /\ new[Min(H)] # 0
        BY <2>4, <4>1, <4>2, <4>3
      <4> QED BY <2>7, <2>9, <3>2, <4>4 DEF NameIn, H, it
    <3> QED BY <3>1, <3>2
  <2> QED BY <1>2, <2>7, <2>8, <2>9, <2>10
<1> QED BY <1>1, <1>2

\* The message with another name in it.
LEMMA RenamedMessage ==
  ASSUME NEW m \in ClientMessage, NEW x, x = [i \in DOMAIN m.exts |-> Renamed(m.exts[i])]
  PROVE  [m EXCEPT !.exts = x] \in ClientMessage /\ Indistinct(m, [m EXCEPT !.exts = x])
<1> DEFINE n == [m EXCEPT !.exts = x]
           s == m.exts
<1>1. s \in Seq(Extension) /\ DOMAIN s = 1..Len(s) /\ Len(s) \in Nat /\ \A i \in 1..Len(s) : s[i] \in Extension
  BY DEF ClientMessage
<1>2. \A i \in 1..Len(s) : /\ x[i] \in Extension /\ x[i].type = s[i].type /\ x[i].whole = s[i].whole
                           /\ s[i].type # ExtServerName => x[i] = s[i]
                           /\ s[i].type = ExtServerName => Hosts(x[i]) = Hosts(s[i]) /\ (NameIn(x[i]) # 0 <=> NameIn(s[i]) # 0)
  BY <1>1, RenamedIs
<1>3. x \in Seq(Extension) /\ Len(x) = Len(s) /\ DOMAIN x = 1..Len(s)
  <2>1. x = [i \in 1..Len(s) |-> x[i]]
    BY <1>1
  <2>2. \A i \in 1..Len(s) : x[i] \in Extension
    BY <1>2
  <2> HIDE DEF s
  <2>3. x \in [1..Len(s) -> Extension]
    BY <2>1, <2>2
  <2> QED BY <1>1, <2>3
<1>4. n.suites = m.suites /\ n.exts = x /\ n.legacy = m.legacy /\ n \in ClientMessage
  BY <1>3 DEF ClientMessage
<1>5. TypesOf(x) = TypesOf(s)
  BY <1>2, <1>3 DEF TypesOf
<1>6. ASSUME NEW E, \A i \in 1..Len(s) : x[i] \in E <=> s[i] \in E
      PROVE  \/ Latest(x, E) = None /\ Latest(s, E) = None
             \/ \E i \in 1..Len(s) : s[i] \in E /\ Latest(x, E) = x[i] /\ Latest(s, E) = s[i]
  <2>1. Spots(x, E) = Spots(s, E)
    BY <1>1, <1>3, <1>6 DEF Spots
  <2>2. CASE Spots(s, E) = {}
    BY <2>1, <2>2 DEF Latest
  <2>3. CASE Spots(s, E) # {}
    <3>1. PICK i \in 1..Len(s) : /\ s[i] \in E /\ Latest(s, E) = s[i]
                                 /\ \A j \in 1..Len(s) : j > i => s[j] \notin E
      BY <1>1, <2>3, LatestExists
    <3>2. x[i] \in E /\ i \in 1..Len(x) /\ \A j \in 1..Len(x) : j > i => x[j] \notin E
      BY <1>3, <1>6, <3>1
    <3>3. Latest(x, E) = x[i]
      BY <1>3, <3>2, LatestIs
    <3> QED BY <3>1, <3>3
  <2> QED BY <2>2, <2>3
<1>7. \A t \in {ExtSupportedVersions, ExtSignatureAlgorithms, ExtALPN} : Latest(x, WholeOf(t)).items = Latest(s, WholeOf(t)).items
  <2> SUFFICES ASSUME NEW t \in {ExtSupportedVersions, ExtSignatureAlgorithms, ExtALPN}
               PROVE  Latest(x, WholeOf(t)) = Latest(s, WholeOf(t))
    OBVIOUS
  <2>1. t # ExtServerName
    BY DEF ExtSupportedVersions, ExtSignatureAlgorithms, ExtALPN, ExtServerName
  <2>2. \A i \in 1..Len(s) : x[i] \in WholeOf(t) <=> s[i] \in WholeOf(t)
    BY <1>1, <1>2 DEF WholeOf
  <2>3. \A i \in 1..Len(s) : s[i] \in WholeOf(t) => x[i] = s[i]
    BY <1>2, <2>1 DEF WholeOf
  <2> QED BY <1>6, <2>2, <2>3
<1>8. NameIn(Latest(s, Naming)) # 0 <=> NameIn(Latest(x, Naming)) # 0
  <2>1. \A i \in 1..Len(s) : x[i] \in Naming <=> s[i] \in Naming
    BY <1>1, <1>2 DEF Naming
  <2>2. \A i \in 1..Len(s) : s[i] \in Naming => (NameIn(x[i]) # 0 <=> NameIn(s[i]) # 0)
    BY <1>2 DEF Naming
  <2>3. \/ Latest(x, Naming) = None /\ Latest(s, Naming) = None
        \/ \E i \in 1..Len(s) : s[i] \in Naming /\ Latest(x, Naming) = x[i] /\ Latest(s, Naming) = s[i]
    BY <1>6, <2>1
  <2> QED BY <2>2, <2>3
<1> HIDE DEF n
<1>9. Indistinct(m, n)
  BY <1>4, <1>5, <1>7, <1>8 DEF Indistinct
<1> QED BY <1>4, <1>9 DEF n

\* No disguise changes the fingerprint.
LEMMA DisguisesAlike ==
  ASSUME NEW m \in ClientMessage, Cardinality(Range(Types(m))) = Len(m.exts), NEW n \in Disguises(m)
  PROVE  JA4(ReadClient(n)) = JA4(ReadClient(m))
<1> DEFINE c == [m EXCEPT !.suites = Clean(m.suites),
                          !.exts = Without(m.exts, {e \in Range(m.exts) : e.type \in Reserved})]
           r == [m EXCEPT !.exts = [i \in DOMAIN m.exts |-> Renamed(m.exts[i])]]
<1>1. \/ \E s \in Shuffles(m.suites) : n = [m EXCEPT !.suites = s]
      \/ \E x \in Shuffles(m.exts) : n = [m EXCEPT !.exts = x]
      \/ n = c
      \/ n = r
  BY DEF Disguises
<1> HIDE DEF c, r
<1>2. m.exts \in Seq(Extension)
  BY DEF ClientMessage
<1>3. n \in ClientMessage /\ Indistinct(m, n)
  <2>1. CASE \E s \in Shuffles(m.suites) : n = [m EXCEPT !.suites = s]
    BY <2>1, ShuffledSuites
  <2>2. CASE \E x \in Shuffles(m.exts) : n = [m EXCEPT !.exts = x]
    BY <2>2, ShuffledExtensions
  <2>3. CASE n = c
    BY <2>3, CleanedMessage DEF c
  <2>4. CASE n = r
    BY <2>4, RenamedMessage DEF r
  <2> QED BY <1>1, <2>1, <2>2, <2>3, <2>4
<1> QED BY <1>3, IndistinctJA4

\* The fingerprint of a client tells implementations apart, and not the
\* connections of one; that of a server tells the order of its answer.
THEOREM ObservationFingerprint == Spec => []FingerprintStable
<1>1. WalkInv => FingerprintStable
  <2> SUFFICES ASSUME WalkInv PROVE FingerprintStable
    OBVIOUS
  <2>1. ASSUME ClientRead, Cardinality(Range(Types(wire.client))) = Len(wire.client.exts),
               NEW m \in Disguises(wire.client)
        PROVE  JA4(ReadClient(m)) = JA4(ch)
    <3>1. wire \in Exchanges /\ wire.client.head /\ ch = Cut(Decoded(wire.client, wire.client.exts), wire.client)
      BY <2>1 DEF WalkInv, ClientRead
    <3>2. wire.client \in ClientMessage
      BY <3>1, Messages
    <3>3. ReadClient(wire.client) = ch
      BY <3>1, <3>2, ReadClientIs
    <3> QED BY <2>1, <3>2, <3>3, DisguisesAlike
  <2>2. \A a, b : a.exts # b.exts => JA4S(a, FALSE) # JA4S(b, FALSE)
    BY DEF JA4S
  <2> QED BY <2>1, <2>2 DEF FingerprintStable
<1> QED BY <1>1, WalkInductive, PTL

=============================================================================
