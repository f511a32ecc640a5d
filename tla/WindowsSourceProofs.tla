------------------------ MODULE WindowsSourceProofs ------------------------
(***************************************************************************)
(* Proofs about WindowsSource, for any number of packets.                  *)
(***************************************************************************)
EXTENDS WindowsSource, FoldLemmas

(***************************************************************************)
(* The parts of the inductive invariant.  NoUseAfterFree needs who holds   *)
(* the lock (TypeOK), that the handle is reset in the step that calls      *)
(* pcap_close, and that pcap_open_live is called once, before any Close;   *)
(* HandleOwned needs that nobody can close a source before OpenLive        *)
(* returns it.                                                             *)
(***************************************************************************)
HandleInv ==
  /\ freed \in {0, 1}
  /\ handle => freed = 0
  /\ mu = "reader" => handle
  /\ HandleOwned

OpenInv ==
  /\ reader \in Unopened => \A p \in Closers : closer[p] = "idle"
  /\ reader \in Unopened \ {"refused"} => ~closed /\ freed = 0
  /\ reader \in {"load", "resolve", "open"} => ~handle

IInv == TypeOK /\ HandleInv /\ OpenInv

\* The invariant holds before OpenLive.
LEMMA InitIInv == Init => IInv
  <1> SUFFICES ASSUME Init PROVE IInv
      OBVIOUS
  <1>1. TypeOK
    BY WindowsAssumption DEF Init, TypeOK, Closers, Nobody, Unopened, WindowsAssumption
  <1>2. HandleInv
    BY DEF Init, HandleInv, HandleOwned, Nobody
  <1>3. OpenInv
    BY DEF Init, OpenInv
  <1> QED BY <1>1, <1>2, <1>3 DEF IInv

\* No step of OpenLive breaks it.
LEMMA OpensIInv == IInv /\ Opens => IInv'
  <1> SUFFICES ASSUME IInv, Opens PROVE IInv'
      OBVIOUS
  <1> USE DEF IInv, HandleInv, OpenInv, HandleOwned, TypeOK, Closers, Nobody, Unopened
  <1>1. CASE Load
    <2>1. reader' \in {"resolve", "refused"}
      BY <1>1 DEF Load
    <2>2. reader = "load" /\ UNCHANGED <<asked, closer, closed, mu, handle, freed, given>>
      BY <1>1 DEF Load
    <2> QED BY <2>1, <2>2, SMT
  <1>2. CASE Resolve
    <2>1. asked'.devs \in Listings /\ asked'.want \in Wants
      BY <1>2 DEF Resolve
    <2>2. reader' \in {"refused", "open"}
      BY <1>2 DEF Resolve
    <2>3. reader = "resolve" /\ UNCHANGED <<closer, closed, mu, handle, freed, given>>
      BY <1>2 DEF Resolve
    <2> QED BY <2>1, <2>2, <2>3, SMT
  <1>3. CASE OpenDevice
    BY <1>3, SMT DEF OpenDevice
  <1>4. CASE Configured
    BY <1>4, SMT DEF Configured
  <1>5. CASE NotConfigured
    <2>1. /\ reader = "configure" /\ reader' = "refused" /\ closed' /\ ~handle'
          /\ closed' \in BOOLEAN /\ handle' \in BOOLEAN
          /\ UNCHANGED <<asked, closer, mu, given>>
      BY <1>5 DEF NotConfigured
    <2>2. freed' = 1
      BY <1>5, SMT DEF NotConfigured
    <2> QED BY <2>1, <2>2, SMT
  <1> QED BY <1>1, <1>2, <1>3, <1>4, <1>5 DEF Opens

\* No step of Next, nextOnce or Close breaks it.
LEMMA NextIInv == IInv /\ [Next]_vars => IInv'
  <1> SUFFICES ASSUME IInv, [Next]_vars PROVE IInv'
      OBVIOUS
  <1> USE DEF IInv, HandleInv, OpenInv, HandleOwned, TypeOK, Closers, Nobody, Unopened
  <1>1. CASE Check
    BY <1>1, SMT DEF Check
  <1>2. CASE NextOnce
    BY <1>2, SMT DEF NextOnce
  <1>3. CASE GotPacket
    BY <1>3, SMT DEF GotPacket
  <1>4. CASE Copied
    BY <1>4, SMT DEF Copied
  <1>5. CASE NoPacket
    BY <1>5, SMT DEF NoPacket
  <1>6. CASE Judge
    BY <1>6, SMT DEF Judge, Judged
  <1>7. ASSUME NEW p \in Closers, Close(p) PROVE IInv'
    BY <1>7, SMT DEF Close, MayClose
  <1>8. ASSUME NEW p \in Closers, CloseLocks(p) PROVE IInv'
    BY <1>8, SMT DEF CloseLocks
  <1>9. ASSUME NEW p \in Closers, CloseFrees(p) PROVE IInv'
    <2>1. mu = p /\ mu' = "nobody" /\ ~handle' /\ handle' \in BOOLEAN
      BY <1>9 DEF CloseFrees
    <2>2. freed' \in {0, 1}
      <3>1. CASE handle
        BY <1>9, <3>1, SMT DEF CloseFrees
      <3>2. CASE ~handle
        BY <1>9, <3>2, SMT DEF CloseFrees
      <3> QED BY <3>1, <3>2
    <2>3. closer' \in [Closers -> {"idle", "lock", "free", "returned"}]
      BY <1>9 DEF CloseFrees
    <2>4. \A q \in Closers : closer'[q] # "free"
      BY <1>9, <2>1, SMT DEF CloseFrees
    <2>5. /\ reader' = reader /\ reader \notin Unopened /\ reader \notin {"driver", "copy"}
          /\ closed' = closed /\ given' = given /\ asked' = asked
      BY <1>9, <2>1, SMT DEF CloseFrees
    <2> QED BY <2>1, <2>2, <2>3, <2>4, <2>5
  <1>10. CASE UNCHANGED vars
    BY <1>10, SMT DEF vars
  <1> HIDE DEF IInv
  <1>11. CASE Opens
    BY <1>11, OpensIInv
  <1> QED BY <1>1, <1>2, <1>3, <1>4, <1>5, <1>6, <1>7, <1>8, <1>9, <1>10, <1>11
          DEF Next, Reads, Closes, Finished

\* The invariant holds throughout.
LEMMA IInvHolds == Spec => []IInv
  BY InitIInv, NextIInv, PTL DEF Spec

\* windowsSource keeps its type, and libpcap is only entered under mu.
THEOREM TypeCorrect == Spec => []TypeOK
  <1>1. IInv => TypeOK
    BY DEF IInv
  <1> QED BY <1>1, IInvHolds, PTL

\* nextOnce never touches a pcap_t that Close has freed, and Close frees it
\* once, in every interleaving of the read and the two Close calls.
THEOREM NeverUsedAfterFree == Spec => []NoUseAfterFree
  <1>1. IInv => NoUseAfterFree
    BY SMT DEF IInv, HandleInv, TypeOK, NoUseAfterFree
  <1> QED BY <1>1, IInvHolds, PTL

\* No way out of OpenLive and no order of the Close calls leaves a handle that
\* nobody will free.
THEOREM HandleAlwaysOwned == Spec => []HandleOwned
  <1>1. IInv => HandleOwned
    BY DEF IInv, HandleInv
  <1> QED BY <1>1, IInvHolds, PTL

\* windowsSource implements Source: every step of OpenLive, Next, nextOnce and
\* Close is a step that a source may take, or none the consumer can see.
THEOREM ImplementsSource == Spec => SourceKept
  <1>1. Init => Contract!SourceInit
    BY DEF Init, Contract!SourceInit
  <1>2. IInv /\ [Next]_vars => [Contract!SourceNext]_(Contract!sourceVars)
    <2> SUFFICES ASSUME IInv, [Next]_vars
                 PROVE  [Contract!SourceNext]_(Contract!sourceVars)
        OBVIOUS
    <2> USE DEF IInv, TypeOK, Closers, Contract!SourceNext, Contract!sourceVars, Contract!Give,
                Contract!Shut, Contract!Exhaust, Contract!Fail
    <2>1. CASE Check
      BY <2>1, SMT DEF Check
    <2>2. CASE NextOnce
      BY <2>2, SMT DEF NextOnce
    <2>3. CASE GotPacket
      BY <2>3, SMT DEF GotPacket
    <2>4. CASE Copied
      BY <2>4, SMT DEF Copied
    <2>5. CASE NoPacket
      BY <2>5, SMT DEF NoPacket
    <2>6. CASE Judge
      BY <2>6, SMT DEF Judge, Judged
    <2>7. ASSUME NEW p \in Closers, Close(p) PROVE [Contract!SourceNext]_(Contract!sourceVars)
      <3>1. reader' = reader /\ given' = given /\ closed' = TRUE
        BY <2>7 DEF Close
      <3>2. CASE closed
        BY <3>1, <3>2
      <3>3. CASE ~closed
        BY <3>1, <3>3
      <3> QED BY <3>2, <3>3
    <2>8. ASSUME NEW p \in Closers, CloseLocks(p) \/ CloseFrees(p)
          PROVE  [Contract!SourceNext]_(Contract!sourceVars)
      BY <2>8, SMT DEF CloseLocks, CloseFrees
    <2>9. CASE UNCHANGED vars
      BY <2>9, SMT DEF vars
    <2>10. CASE Opens
      <3>1. /\ reader \notin {"eof", "error"} /\ reader' \notin {"eof", "error"}
            /\ given' = given
        BY <2>10 DEF Opens, Load, Resolve, OpenDevice, Configured, NotConfigured
      <3>2. closed' = closed \/ (~closed /\ closed' = TRUE)
        BY <2>10 DEF Opens, Load, Resolve, OpenDevice, Configured, NotConfigured, OpenInv, Unopened
      <3> QED BY <3>1, <3>2
    <2> QED BY <2>1, <2>2, <2>3, <2>4, <2>5, <2>6, <2>7, <2>8, <2>9, <2>10, Zenon
            DEF Next, Reads, Closes, Finished
  <1> QED BY <1>1, <1>2, IInvHolds, PTL DEF Spec, SourceKept, Contract!SourceSpec

(***************************************************************************)
(* The device that was chosen.  resolveDevice is the only code that sets   *)
(* it, so it is always pickDevice's answer; that the answer is the device  *)
(* which was meant holds of any listing.                                   *)
(***************************************************************************)
Picked ==
  /\ asked.devs \in Listings
  /\ asked.chosen = PickDevice(asked.devs, asked.want)

\* FirstOf finds a member of a set of positions, and 0 only in an empty one.
LEMMA FirstOfIs ==
  ASSUME NEW n \in Nat, NEW S, S \subseteq 1..n
  PROVE  IF FirstOf(S) = 0 THEN S = {} ELSE FirstOf(S) \in S
<1>1. CASE S = {}
  BY <1>1 DEF FirstOf
<1>2. CASE S # {}
  <2>1. S \subseteq Nat
    OBVIOUS
  <2>2. Min(S) \in S
    BY <1>2, <2>1, MinIs
  <2>3. Min(S) # 0
    BY <2>2
  <2> QED BY <1>2, <2>2, <2>3 DEF FirstOf
<1> QED BY <1>1, <1>2

\* OnlyOf finds the only member of a set of positions, and 0 if there is none or
\* another.
LEMMA OnlyOfIs ==
  ASSUME NEW n \in Nat, NEW S, S \subseteq 1..n, S # {}
  PROVE  IF OnlyOf(S) = 0 THEN \A i \in S : \E j \in S : j # i ELSE S = {OnlyOf(S)}
<1>1. IsFiniteSet(S) /\ S \subseteq Nat
  <2>1. IsFiniteSet(1..n)
    BY FS_Interval
  <2>2. IsFiniteSet(S)
    BY <2>1, FS_Subset
  <2>3. S \subseteq Nat
    OBVIOUS
  <2> QED BY <2>2, <2>3
<1>2. Min(S) \in S /\ Min(S) # 0
  <2>1. Min(S) \in S
    BY <1>1, MinIs
  <2> QED BY <2>1
<1>3. CASE Cardinality(S) = 1
  <2>1. \E x : S = {x}
    BY <1>1, <1>3, FS_Singleton
  <2> QED BY <1>2, <1>3, <2>1 DEF OnlyOf
<1>4. CASE Cardinality(S) # 1
  <2>1. ASSUME NEW i \in S, \A j \in S : j = i PROVE FALSE
    <3>1. S = {i}
      BY <2>1
    <3> QED BY <3>1, <1>4, FS_Singleton
  <2> QED BY <1>4, <2>1 DEF OnlyOf
<1> QED BY <1>3, <1>4

\* How closely a device answers, read from the conditions.
LEMMA ClosenessIs ==
  ASSUME NEW dev, NEW want
  PROVE  Closeness(dev, want) =
           IF dev.path = want THEN 1
           ELSE IF Lower(Name(dev)) = Lower(want) THEN 2
           ELSE IF Holds(Lower(Name(dev)), Lower(want)) THEN 3
           ELSE IF Holds(Lower(dev.path), Lower(want)) THEN 4
           ELSE 5
<1> DEFINE a == dev.path = want
           b == Lower(Name(dev)) = Lower(want)
           c == Holds(Lower(Name(dev)), Lower(want))
           d == Holds(Lower(dev.path), Lower(want))
           ways == <<a, b, c, d, TRUE>>
           T == {w \in DOMAIN ways : ways[w]}
<1>1. Closeness(dev, want) = Min(T)
  BY DEF Closeness
<1>2. a \in BOOLEAN /\ b \in BOOLEAN /\ c \in BOOLEAN /\ d \in BOOLEAN
  BY DEF Holds
<1> HIDE DEF a, b, c, d
<1>3. DOMAIN ways = 1..5
  OBVIOUS
<1>4. ways[1] = a /\ ways[2] = b /\ ways[3] = c /\ ways[4] = d /\ ways[5] = TRUE
  OBVIOUS
<1> HIDE DEF ways
<1>5. /\ T \subseteq 1..5
      /\ 5 \in T
      /\ (1 \in T <=> a) /\ (2 \in T <=> b) /\ (3 \in T <=> c) /\ (4 \in T <=> d)
  BY <1>2, <1>3, <1>4
<1> HIDE DEF T
<1>6. Min(T) \in T /\ \A y \in T : Min(T) <= y
  <2>1. T \subseteq Nat /\ T # {}
    BY <1>5
  <2> QED BY <2>1, MinIs
<1>7. Min(T) = IF a THEN 1 ELSE IF b THEN 2 ELSE IF c THEN 3 ELSE IF d THEN 4 ELSE 5
  <2>1. Min(T) \in {1, 2, 3, 4, 5}
    <3>1. Min(T) \in 1..5
      BY <1>5, <1>6
    <3> QED BY <3>1
  <2>2. CASE a
    BY <1>5, <1>6, <2>1, <2>2
  <2>3. CASE ~a /\ b
    BY <1>5, <1>6, <2>1, <2>3
  <2>4. CASE ~a /\ ~b /\ c
    BY <1>5, <1>6, <2>1, <2>4
  <2>5. CASE ~a /\ ~b /\ ~c /\ d
    BY <1>5, <1>6, <2>1, <2>5
  <2>6. CASE ~a /\ ~b /\ ~c /\ ~d
    BY <1>5, <1>6, <2>1, <2>6
  <2> QED BY <2>2, <2>3, <2>4, <2>5, <2>6
<1> QED BY <1>1, <1>7 DEF a, b, c, d

\* pickDevice without a name: an interface that carries traffic, one that is up
\* if there is one.
LEMMA DefaultDeviceIs ==
  ASSUME NEW devs \in Listings
  PROVE  LET usable == {i \in DOMAIN devs : ~devs[i].loopback /\ HasRoutableAddress(devs[i].addrs)}
         IN  IF DefaultDevice(devs) = 0 THEN usable = {}
             ELSE /\ DefaultDevice(devs) \in usable
                  /\ \A i \in usable : devs[i].up => devs[DefaultDevice(devs)].up
<1> DEFINE usable == {i \in DOMAIN devs : ~devs[i].loopback /\ HasRoutableAddress(devs[i].addrs)}
           up == {i \in usable : devs[i].up}
<1>1. Len(devs) \in Nat /\ up \subseteq 1..Len(devs) /\ usable \subseteq 1..Len(devs)
  BY WindowsAssumption
<1>2. DefaultDevice(devs) = IF up # {} THEN FirstOf(up) ELSE FirstOf(usable)
  BY DEF DefaultDevice
<1>3. /\ IF FirstOf(up) = 0 THEN up = {} ELSE FirstOf(up) \in up
      /\ IF FirstOf(usable) = 0 THEN usable = {} ELSE FirstOf(usable) \in usable
  <2> HIDE DEF up, usable
  <2> QED BY <1>1, FirstOfIs
<1>4. \A i \in usable : devs[i].up => i \in up
  OBVIOUS
<1>5. up \subseteq usable /\ \A i \in up : devs[i].up
  OBVIOUS
<1>6. IF DefaultDevice(devs) = 0 THEN usable = {}
      ELSE /\ DefaultDevice(devs) \in usable
           /\ \A i \in usable : devs[i].up => devs[DefaultDevice(devs)].up
  <2> HIDE DEF up, usable
  <2> QED BY <1>2, <1>3, <1>4, <1>5
<1> QED BY <1>6

\* pickDevice with a name: the device that answers more closely than every
\* other, and none if none answers or two answer alike.
LEMMA NamedDeviceIs ==
  ASSUME NEW devs \in Listings, NEW want, want # <<>>,
         NEW close, close = [i \in DOMAIN devs |-> Closeness(devs[i], want)],
         NEW best, best = {i \in DOMAIN devs : \A j \in DOMAIN devs \ {i} : close[i] < close[j]}
  PROVE  IF PickDevice(devs, want) = 0 THEN \A i \in best : close[i] = NoMatch
         ELSE PickDevice(devs, want) \in best /\ close[PickDevice(devs, want)] # NoMatch
<1> DEFINE exact == {i \in DOMAIN devs : devs[i].path = want}
           whole == {i \in DOMAIN devs : Lower(Name(devs[i])) = Lower(want)}
           part == {i \in DOMAIN devs : Holds(Lower(Name(devs[i])), Lower(want))}
           path == {i \in DOMAIN devs : Holds(Lower(devs[i].path), Lower(want))}
           tiers == <<whole, part, path>>
           hit == {t \in DOMAIN tiers : tiers[t] # {}}
           pick == PickDevice(devs, want)
<1>1. /\ Len(devs) \in Nat /\ exact \subseteq 1..Len(devs) /\ whole \subseteq 1..Len(devs)
      /\ part \subseteq 1..Len(devs) /\ path \subseteq 1..Len(devs)
  BY WindowsAssumption
<1>2. \A i \in DOMAIN devs :
        close[i] = IF i \in exact THEN 1 ELSE IF i \in whole THEN 2
                   ELSE IF i \in part THEN 3 ELSE IF i \in path THEN 4 ELSE 5
  BY ClosenessIs
<1>3. \A i, j \in exact : i = j
  BY WindowsAssumption
<1>4. pick = IF exact # {} THEN FirstOf(exact) ELSE IF hit = {} THEN 0 ELSE OnlyOf(tiers[Min(hit)])
  BY DEF PickDevice, Tiers
<1>5. exact \subseteq DOMAIN devs /\ whole \subseteq DOMAIN devs /\ part \subseteq DOMAIN devs
      /\ path \subseteq DOMAIN devs
  OBVIOUS
<1>6. tiers[1] = whole /\ tiers[2] = part /\ tiers[3] = path /\ DOMAIN tiers = {1, 2, 3}
  OBVIOUS
<1>7. /\ whole # {} => hit # {} /\ Min(hit) = 1
      /\ whole = {} /\ part # {} => hit # {} /\ Min(hit) = 2
      /\ whole = {} /\ part = {} /\ path # {} => hit # {} /\ Min(hit) = 3
      /\ whole = {} /\ part = {} /\ path = {} => hit = {}
  <2> HIDE DEF whole, part, path, tiers
  <2>1. /\ hit \subseteq {1, 2, 3} /\ (1 \in hit <=> whole # {}) /\ (2 \in hit <=> part # {})
        /\ (3 \in hit <=> path # {})
    BY <1>6
  <2> HIDE DEF hit
  <2>2. hit # {} => Min(hit) \in hit /\ \A t \in hit : Min(hit) <= t
    <3>1. hit \subseteq Nat
      BY <2>1
    <3> QED BY <3>1, MinIs
  <2>3. CASE whole # {}
    <3>1. 1 \in hit /\ Min(hit) \in {1, 2, 3} /\ Min(hit) <= 1
      BY <2>1, <2>2, <2>3
    <3> QED BY <2>3, <3>1
  <2>4. CASE whole = {} /\ part # {}
    <3>1. 2 \in hit /\ Min(hit) \in {2, 3} /\ Min(hit) <= 2
      BY <2>1, <2>2, <2>4
    <3> QED BY <2>4, <3>1
  <2>5. CASE whole = {} /\ part = {} /\ path # {}
    BY <2>1, <2>2, <2>5
  <2>6. CASE whole = {} /\ part = {} /\ path = {}
    BY <2>1, <2>6
  <2> QED BY <2>3, <2>4, <2>5, <2>6
<1> HIDE DEF exact, whole, part, path, tiers, hit, pick
<1>8. CASE exact # {}
  <2>1. pick \in exact
    BY <1>1, <1>4, <1>8, FirstOfIs
  <2>2. \A j \in DOMAIN devs \ {pick} : close[j] > 1
    BY <1>2, <1>3, <2>1
  <2>3. close[pick] = 1 /\ pick \in DOMAIN devs /\ pick # 0
    BY <1>1, <1>2, <1>5, <2>1
  <2> QED BY <2>2, <2>3 DEF pick, NoMatch
<1>9. ASSUME NEW S \in {whole, part, path}, S # {}, exact = {}, pick = OnlyOf(S),
             NEW n \in {2, 3, 4}, \A i \in S : close[i] = n,
             \A i \in DOMAIN devs \ S : close[i] > n
      PROVE  IF pick = 0 THEN \A i \in best : close[i] = NoMatch
             ELSE pick \in best /\ close[pick] # NoMatch
  <2>1. S \subseteq 1..Len(devs) /\ S \subseteq DOMAIN devs
    BY <1>1, <1>5
  <2>2. IF pick = 0 THEN \A i \in S : \E j \in S : j # i ELSE S = {pick}
    BY <1>1, <1>9, <2>1, OnlyOfIs
  <2>3. CASE pick = 0
    <3>1. ASSUME NEW i \in best PROVE FALSE
      <4>1. PICK j \in S : j # i
        BY <1>9, <2>2, <2>3
      <4>2. close[i] < n
        BY <1>9, <2>1, <4>1
      <4>3. i \in DOMAIN devs
        OBVIOUS
      <4>4. close[i] = n \/ close[i] > n
        BY <1>9, <4>3
      <4>5. close[i] \in Int
        BY <1>2, <4>3
      <4>6. \A x \in Int : ~(x < n /\ (x = n \/ x > n))
        OBVIOUS
      <4> QED BY <4>2, <4>4, <4>5, <4>6
    <3> QED BY <2>3, <3>1
  <2>4. CASE pick # 0
    <3>1. S = {pick} /\ close[pick] = n /\ pick \in DOMAIN devs
      BY <1>9, <2>1, <2>2, <2>4
    <3>2. \A j \in DOMAIN devs \ {pick} : close[pick] < close[j]
      BY <1>9, <3>1
    <3>3. close[pick] # NoMatch
      BY <3>1 DEF NoMatch
    <3> QED BY <2>4, <3>1, <3>2, <3>3
  <2> QED BY <2>3, <2>4
<1>10. CASE exact = {} /\ whole # {}
  <2>1. pick = OnlyOf(whole)
    BY <1>4, <1>6, <1>7, <1>10
  <2>2. \A i \in whole : close[i] = 2
    BY <1>2, <1>5, <1>10
  <2>3. \A i \in DOMAIN devs \ whole : close[i] > 2
    BY <1>2, <1>10
  <2> QED BY <1>9, <1>10, <2>1, <2>2, <2>3 DEF pick
<1>11. CASE exact = {} /\ whole = {} /\ part # {}
  <2>1. pick = OnlyOf(part)
    BY <1>4, <1>6, <1>7, <1>11
  <2>2. \A i \in part : close[i] = 3
    BY <1>2, <1>5, <1>11
  <2>3. \A i \in DOMAIN devs \ part : close[i] > 3
    BY <1>2, <1>11
  <2> QED BY <1>9, <1>11, <2>1, <2>2, <2>3 DEF pick
<1>12. CASE exact = {} /\ whole = {} /\ part = {} /\ path # {}
  <2>1. pick = OnlyOf(path)
    BY <1>4, <1>6, <1>7, <1>12
  <2>2. \A i \in path : close[i] = 4
    BY <1>2, <1>5, <1>12
  <2>3. \A i \in DOMAIN devs \ path : close[i] > 4
    BY <1>2, <1>12
  <2> QED BY <1>9, <1>12, <2>1, <2>2, <2>3 DEF pick
<1>13. CASE exact = {} /\ whole = {} /\ part = {} /\ path = {}
  <2>1. pick = 0
    BY <1>4, <1>7, <1>13
  <2>2. \A i \in DOMAIN devs : close[i] = 5
    BY <1>2, <1>13
  <2> QED BY <2>1, <2>2 DEF pick, NoMatch
<1> QED BY <1>8, <1>10, <1>11, <1>12, <1>13

\* The device OpenLive opens is one the user meant: of any listing, any request
\* by name is answered by the interface closest to it or refused, and without
\* a name an interface is taken that carries traffic.
THEOREM DeviceAlwaysIntended == Spec => []DeviceIntended
<1>1. Init => Picked
  <2> SUFFICES ASSUME Init PROVE Picked
      OBVIOUS
  <2>1. asked.devs = <<>> /\ asked.want = <<>> /\ asked.chosen = 0 /\ <<>> \in Listings
    BY WindowsAssumption DEF Init
  <2>2. DefaultDevice(<<>>) = 0
    <3>1. {i \in DOMAIN <<>> : ~(<<>>[i].loopback) /\ HasRoutableAddress(<<>>[i].addrs)} = {}
      OBVIOUS
    <3> QED BY <2>1, <3>1, DefaultDeviceIs
  <2> QED BY <2>1, <2>2 DEF Picked, PickDevice
<1>2. Picked /\ [Next]_vars => Picked'
  <2> SUFFICES ASSUME Picked, [Next]_vars PROVE Picked'
      OBVIOUS
  <2>1. CASE Resolve
    BY <2>1 DEF Resolve, Picked
  <2>2. CASE asked' = asked
    BY <2>2 DEF Picked
  <2>3. Resolve \/ asked' = asked
    BY DEF Next, vars, Opens, Reads, Closes, Finished, Load, OpenDevice, Configured, NotConfigured, Check,
           NextOnce, GotPacket, Copied, NoPacket, Judge, Close, CloseLocks, CloseFrees
  <2> QED BY <2>1, <2>2, <2>3
<1>3. Picked => DeviceIntended
  <2> SUFFICES ASSUME Picked PROVE DeviceIntended
      OBVIOUS
  <2>1. NamedDeviceIntended
    <3> DEFINE devs == asked.devs
               close == [i \in DOMAIN devs |-> Closeness(devs[i], asked.want)]
               best == {i \in DOMAIN devs : \A j \in DOMAIN devs \ {i} : close[i] < close[j]}
    <3>1. asked.want # <<>> =>
            IF asked.chosen = 0 THEN \A i \in best : close[i] = NoMatch
            ELSE asked.chosen \in best /\ close[asked.chosen] # NoMatch
      <4>1. devs \in Listings /\ asked.chosen = PickDevice(devs, asked.want)
        BY DEF Picked
      <4>2. /\ close = [i \in DOMAIN devs |-> Closeness(devs[i], asked.want)]
            /\ best = {i \in DOMAIN devs : \A j \in DOMAIN devs \ {i} : close[i] < close[j]}
        OBVIOUS
      <4> HIDE DEF devs, close, best
      <4> QED BY <4>1, <4>2, NamedDeviceIs
    <3> QED BY <3>1 DEF NamedDeviceIntended
  <2>2. DefaultDeviceUseful
    BY DefaultDeviceIs DEF Picked, PickDevice, DefaultDeviceUseful
  <2> QED BY <2>1, <2>2 DEF DeviceIntended
<1> QED BY <1>1, <1>2, <1>3, PTL DEF Spec

=============================================================================
