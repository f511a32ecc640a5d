----------------------------- MODULE FoldLemmas -----------------------------
(***************************************************************************)
(* Facts about the operators the models are built from: least and greatest *)
(* numbers, functions defined by recursion over the numbers, and sums over *)
(* finite sets.  Induction is stated for sets of numbers, so that a proof  *)
(* cites it with the set of the numbers it is about.                       *)
(***************************************************************************)
EXTENDS Integers, FiniteSets, FiniteSetsExt, Functions, Sequences, FiniteSetTheorems,
        WellFoundedInduction, TLAPS

\* Every set of natural numbers has a least member.
LEMMA LeastNumber ==
  ASSUME NEW T, T \subseteq Nat, T # {}
  PROVE  \E x \in T : \A y \in T : x <= y
<1> DEFINE R == OpToRel(<, Nat)
<1>1. IsWellFoundedOn(R, Nat)
  BY NatLessThanWellFounded
<1>2. \A x, y \in Nat : x < y => <<x, y>> \in R
  BY DEF OpToRel
<1> HIDE DEF R
<1>3. PICK x \in T : \A y \in T : <<y, x>> \notin R
  BY <1>1, WFMin
<1>4. ASSUME NEW y \in T PROVE x <= y
  <2>1. x \in Nat /\ y \in Nat /\ ~(y < x)
    BY <1>2, <1>3
  <2> QED BY <2>1
<1> QED BY <1>4

\* Induction over the numbers up to a bound.
LEMMA InductionUpTo ==
  ASSUME NEW n \in Nat, NEW S, 0 \in S,
         \A m \in 0..(n - 1) : m \in S => m + 1 \in S
  PROVE  0..n \subseteq S
<1> DEFINE T == {m \in 0..n : m \notin S}
<1>1. SUFFICES ASSUME T # {} PROVE FALSE
  OBVIOUS
<1>2. PICK m \in T : \A k \in T : m <= k
  <2>1. T \subseteq Nat
    OBVIOUS
  <2> HIDE DEF T
  <2> QED BY <1>1, <2>1, LeastNumber
<1>3. m \in 0..n /\ m \notin S /\ m # 0
  OBVIOUS
<1>4. m - 1 \in 0..(n - 1) /\ m - 1 \in 0..n /\ ~(m <= m - 1) /\ (m - 1) + 1 = m
  BY <1>3
<1>5. m - 1 \in S
  BY <1>2, <1>4
<1> QED BY <1>3, <1>4, <1>5

\* Induction over all numbers.
LEMMA InductionOverNat ==
  ASSUME NEW S, 0 \in S, \A m \in Nat : m \in S => m + 1 \in S
  PROVE  Nat \subseteq S
<1>1. ASSUME NEW n \in Nat PROVE n \in S
  <2>1. \A m \in 0..(n - 1) : m \in S => m + 1 \in S
    OBVIOUS
  <2>2. 0..n \subseteq S
    BY <2>1, InductionUpTo
  <2> QED BY <2>2
<1> QED BY <1>1

\* Min of a set of numbers.
LEMMA MinIs ==
  ASSUME NEW T, T \subseteq Nat, T # {}
  PROVE  Min(T) \in T /\ \A y \in T : Min(T) <= y
BY LeastNumber DEF Min

\* Max of a set of numbers that has a bound.
LEMMA MaxIs ==
  ASSUME NEW T, NEW n \in Nat, T \subseteq 0..n, T # {}
  PROVE  Max(T) \in T /\ \A y \in T : y <= Max(T)
<1> DEFINE U == {n - x : x \in T}
<1>1. U \subseteq Nat /\ U # {}
  <2>1. \A x \in T : n - x \in Nat
    OBVIOUS
  <2> QED BY <2>1
<1>2. PICK u \in U : \A v \in U : u <= v
  BY <1>1, LeastNumber
<1>3. PICK x \in T : u = n - x
  OBVIOUS
<1>4. \A y \in T : y <= x
  <2>1. ASSUME NEW y \in T PROVE y <= x
    <3>1. n - y \in U
      OBVIOUS
    <3>2. n - x <= n - y
      BY <1>2, <1>3, <3>1
    <3> QED BY <3>2
  <2> QED BY <2>1
<1>5. \E z \in T : \A y \in T : z >= y
  BY <1>4
<1>6. Max(T) \in T /\ \A y \in T : Max(T) >= y
  BY <1>5 DEF Max
<1> QED BY <1>6

(***************************************************************************)
(* Sums over a finite set.  SumIter says that it is the function that      *)
(* MapThenSumSet builds for the weights w: it takes the members of a set   *)
(* one after the other, in the order CHOOSE picks them.                    *)
(***************************************************************************)
Pick(s) == CHOOSE x \in s : TRUE

SumIter(it, w, S) ==
  it = [s \in SUBSET S |-> IF s = {} THEN 0 ELSE w[Pick(s)] + it[s \ {Pick(s)}]]

Total(w, S) == (CHOOSE it : SumIter(it, w, S))[S]

\* A set that is not empty is not changed by Pick but for the member it loses.
LEMMA PickIs ==
  ASSUME NEW s, s # {}
  PROVE  Pick(s) \in s
BY DEF Pick

\* What is taken out of a finite set makes it smaller by one.
LEMMA OneLess ==
  ASSUME NEW S, IsFiniteSet(S), NEW x \in S
  PROVE  /\ IsFiniteSet(S \ {x})
         /\ Cardinality(S) \in Nat /\ Cardinality(S \ {x}) \in Nat
         /\ Cardinality(S \ {x}) + 1 = Cardinality(S)
<1>1. /\ IsFiniteSet(S \ {x})
      /\ Cardinality(S \ {x}) = Cardinality(S) - 1
  BY FS_RemoveElement
<1>2. Cardinality(S) \in Nat /\ Cardinality(S \ {x}) \in Nat
  BY <1>1, FS_CardinalityType
<1> QED BY <1>1, <1>2

\* The function exists.
LEMMA SumExists ==
  ASSUME NEW S, IsFiniteSet(S), NEW w, \A x \in S : w[x] \in Nat
  PROVE  \E it \in [SUBSET S -> Nat] : SumIter(it, w, S)
<1> DEFINE D(n) == {s \in SUBSET S : Cardinality(s) <= n}
           Step(it, s) == IF s = {} THEN 0 ELSE w[Pick(s)] + it[s \ {Pick(s)}]
           P(n) == \E it \in [D(n) -> Nat] : \A s \in D(n) : it[s] = Step(it, s)
           N == {n \in Nat : P(n)}
<1>1. \A s \in SUBSET S : IsFiniteSet(s) /\ Cardinality(s) \in Nat
  BY FS_Subset, FS_CardinalityType
<1>2. 0 \in N
  <2>1. D(0) = {{}}
    <3>1. \A s \in SUBSET S : Cardinality(s) <= 0 => s = {}
      BY <1>1, FS_EmptySet
    <3>2. {} \in SUBSET S /\ Cardinality({}) <= 0
      BY FS_EmptySet
    <3> QED BY <3>1, <3>2
  <2> DEFINE it == [s \in D(0) |-> 0]
  <2>2. it \in [D(0) -> Nat] /\ \A s \in D(0) : it[s] = Step(it, s)
    BY <2>1
  <2> QED BY <2>2
<1>3. ASSUME NEW n \in Nat, n \in N PROVE n + 1 \in N
  <2>1. PICK it \in [D(n) -> Nat] : \A s \in D(n) : it[s] = Step(it, s)
    BY <1>3
  <2> DEFINE up == [s \in D(n + 1) |-> Step(it, s)]
  <2>2. \A s \in D(n + 1) : s # {} => s \ {Pick(s)} \in D(n) /\ w[Pick(s)] \in Nat
    <3>1. ASSUME NEW s \in D(n + 1), s # {} PROVE s \ {Pick(s)} \in D(n) /\ w[Pick(s)] \in Nat
      <4>1. Pick(s) \in s
        BY <3>1, PickIs
      <4>2. Cardinality(s \ {Pick(s)}) <= n
        <5>1. IsFiniteSet(s) /\ Cardinality(s) <= n + 1
          BY <1>1
        <5> QED BY <4>1, <5>1, OneLess
      <4> QED BY <4>1, <4>2
    <3> QED BY <3>1
  <2>3. \A s \in D(n) : s \in D(n + 1)
    BY <1>1
  <2>4. up \in [D(n + 1) -> Nat]
    <3>1. \A s \in D(n + 1) : Step(it, s) \in Nat
      <4> HIDE DEF D
      <4> QED BY <2>1, <2>2
    <3> QED BY <3>1
  <2>5. \A s \in D(n + 1) : up[s] = Step(up, s)
    <3>1. \A s \in D(n) : up[s] = it[s]
      BY <2>1, <2>3
    <3> HIDE DEF D
    <3> QED BY <2>2, <2>3, <3>1
  <2>6. P(n + 1)
    <3> HIDE DEF D, up
    <3> QED BY <2>4, <2>5
  <2> HIDE DEF P
  <2> QED BY <2>6
<1>4. Nat \subseteq N
  <2> HIDE DEF N
  <2> QED BY <1>2, <1>3, InductionOverNat
<1>5. PICK it \in [D(Cardinality(S)) -> Nat] : \A s \in D(Cardinality(S)) : it[s] = Step(it, s)
  <2>1. Cardinality(S) \in Nat
    BY FS_CardinalityType
  <2> QED BY <1>4, <2>1
<1>6. D(Cardinality(S)) = SUBSET S
  BY FS_Subset
<1>7. SumIter(it, w, S)
  <2>1. it = [s \in SUBSET S |-> it[s]]
    BY <1>5, <1>6
  <2> QED BY <1>5, <1>6, <2>1 DEF SumIter
<1> QED BY <1>5, <1>6, <1>7

\* What the function gives.
LEMMA SumStep ==
  ASSUME NEW S, NEW w, NEW it, SumIter(it, w, S)
  PROVE  /\ it[{}] = 0
         /\ \A s \in SUBSET S : s # {} => it[s] = w[Pick(s)] + it[s \ {Pick(s)}]
<1>1. \A s \in SUBSET S : it[s] = IF s = {} THEN 0 ELSE w[Pick(s)] + it[s \ {Pick(s)}]
  BY DEF SumIter
<1> QED BY <1>1

\* Two of them agree where their weights do.
LEMMA SumAgree ==
  ASSUME NEW S, IsFiniteSet(S), NEW R, NEW v, NEW w, NEW it, NEW jt,
         SumIter(it, v, S), SumIter(jt, w, R),
         NEW T, T \subseteq S, T \subseteq R, \A x \in T : v[x] = w[x]
  PROVE  it[T] = jt[T]
<1> DEFINE N == {n \in Nat : \A s \in SUBSET T : Cardinality(s) = n => it[s] = jt[s]}
<1>1. \A s \in SUBSET T : IsFiniteSet(s) /\ Cardinality(s) \in Nat
  BY FS_Subset, FS_CardinalityType
<1>2. 0 \in N
  <2>1. \A s \in SUBSET T : Cardinality(s) = 0 => s = {}
    BY <1>1, FS_EmptySet
  <2> QED BY <2>1, SumStep
<1>3. ASSUME NEW n \in Nat, n \in N PROVE n + 1 \in N
  <2>1. ASSUME NEW s \in SUBSET T, Cardinality(s) = n + 1 PROVE it[s] = jt[s]
    <3>1. s # {}
      BY <2>1, FS_EmptySet
    <3>2. Pick(s) \in s
      BY <3>1, PickIs
    <3>3. Cardinality(s \ {Pick(s)}) = n
      BY <1>1, <2>1, <3>2, OneLess
    <3>4. it[s \ {Pick(s)}] = jt[s \ {Pick(s)}]
      BY <1>3, <3>3
    <3>5. it[s] = v[Pick(s)] + it[s \ {Pick(s)}] /\ jt[s] = w[Pick(s)] + jt[s \ {Pick(s)}]
      BY <3>1, SumStep
    <3> QED BY <3>2, <3>4, <3>5
  <2> QED BY <2>1
<1>4. Nat \subseteq N
  <2> HIDE DEF N
  <2> QED BY <1>2, <1>3, InductionOverNat
<1> QED BY <1>1, <1>4

\* The members may be taken in any order.
LEMMA SumAny ==
  ASSUME NEW S, IsFiniteSet(S), NEW w, \A x \in S : w[x] \in Nat,
         NEW it, \A t \in SUBSET S : it[t] \in Nat, SumIter(it, w, S),
         NEW s \in SUBSET S, NEW y \in s, NEW r, r = s \ {y}
  PROVE  it[s] = w[y] + it[r]
<1> DEFINE P(n) == \A t \in SUBSET S : Cardinality(t) = n =>
                     \A z \in t : it[t] = w[z] + it[t \ {z}]
           N == {n \in Nat : P(n)}
<1>1. \A t \in SUBSET S : IsFiniteSet(t) /\ Cardinality(t) \in Nat
  BY FS_Subset, FS_CardinalityType
<1>2. 0 \in N
  <2>1. \A t \in SUBSET S : Cardinality(t) = 0 => t = {}
    BY <1>1, FS_EmptySet
  <2> QED BY <2>1
<1>3. ASSUME NEW n \in Nat, n \in N PROVE n + 1 \in N
  <2>1. ASSUME NEW t \in SUBSET S, Cardinality(t) = n + 1, NEW z \in t
        PROVE  it[t] = w[z] + it[t \ {z}]
    <3> DEFINE p == Pick(t)
    <3>1. p \in t
      BY PickIs
    <3>2. it[t] = w[p] + it[t \ {p}]
      BY SumStep
    <3> HIDE DEF p
    <3>3. CASE z = p
      BY <3>2, <3>3
    <3>4. CASE z # p
      <4>1. Cardinality(t \ {p}) = n /\ Cardinality(t \ {z}) = n
        BY <1>1, <2>1, <3>1, OneLess
      <4>2. it[t \ {p}] = w[z] + it[(t \ {p}) \ {z}]
        BY <1>3, <3>4, <4>1
      <4>3. it[t \ {z}] = w[p] + it[(t \ {z}) \ {p}]
        BY <1>3, <3>1, <3>4, <4>1
      <4>4. (t \ {p}) \ {z} = (t \ {z}) \ {p}
        OBVIOUS
      <4> DEFINE rest == it[(t \ {z}) \ {p}]
      <4>5. w[p] \in Nat /\ w[z] \in Nat /\ rest \in Nat
        BY <3>1
      <4>6. it[t] = w[p] + (w[z] + rest) /\ it[t \ {z}] = w[p] + rest
        BY <3>2, <4>2, <4>3, <4>4
      <4> HIDE DEF rest
      <4> QED BY <4>5, <4>6
    <3> QED BY <3>3, <3>4
  <2>2. P(n + 1)
    BY <2>1
  <2> HIDE DEF P
  <2> QED BY <2>2
<1>4. Nat \subseteq N
  <2> HIDE DEF N
  <2> QED BY <1>2, <1>3, InductionOverNat
<1> QED BY <1>1, <1>4

\* The function that Total takes.
LEMMA TotalIter ==
  ASSUME NEW S, IsFiniteSet(S), NEW w, \A x \in S : w[x] \in Nat
  PROVE  \E it \in [SUBSET S -> Nat] : SumIter(it, w, S) /\ Total(w, S) = it[S]
<1>1. PICK it \in [SUBSET S -> Nat] : SumIter(it, w, S)
  BY SumExists
<1> DEFINE jt == CHOOSE j : SumIter(j, w, S)
<1>2. SumIter(jt, w, S) /\ Total(w, S) = jt[S]
  BY <1>1 DEF Total
<1> HIDE DEF jt
<1>3. it[S] = jt[S]
  BY <1>1, <1>2, SumAgree
<1> QED BY <1>1, <1>2, <1>3

\* A sum of numbers is a number, that of nothing 0.
LEMMA TotalType ==
  ASSUME NEW S, IsFiniteSet(S), NEW w, \A x \in S : w[x] \in Nat
  PROVE  Total(w, S) \in Nat /\ (S = {} => Total(w, S) = 0)
<1>1. PICK it \in [SUBSET S -> Nat] : SumIter(it, w, S) /\ Total(w, S) = it[S]
  BY TotalIter
<1>2. it[{}] = 0
  BY <1>1, SumStep
<1> QED BY <1>1, <1>2

\* Any one member may be taken apart.
LEMMA TotalSplit ==
  ASSUME NEW S, IsFiniteSet(S), NEW w, \A x \in S : w[x] \in Nat, NEW x \in S,
         NEW R, R = S \ {x}, NEW v, \A y \in R : v[y] = w[y]
  PROVE  Total(w, S) = w[x] + Total(v, R)
<1>1. PICK it \in [SUBSET S -> Nat] : SumIter(it, w, S) /\ Total(w, S) = it[S]
  BY TotalIter
<1>2. IsFiniteSet(S \ {x})
  BY OneLess
<1>3. PICK jt : SumIter(jt, v, S \ {x}) /\ Total(v, S \ {x}) = jt[S \ {x}]
  BY <1>2, TotalIter, ZenonT(40)
<1>4. it[S] = w[x] + it[S \ {x}]
  <2>1. (\A t \in SUBSET S : it[t] \in Nat) /\ S \in SUBSET S
    OBVIOUS
  <2> QED BY <1>1, <2>1, SumAny
<1>5. it[S \ {x}] = jt[S \ {x}]
  BY <1>1, <1>3, SumAgree
<1> QED BY <1>1, <1>3, <1>4, <1>5

\* Equal weights have equal sums.
LEMMA TotalAgree ==
  ASSUME NEW S, IsFiniteSet(S), NEW w, NEW v,
         \A x \in S : w[x] \in Nat /\ v[x] = w[x]
  PROVE  Total(w, S) = Total(v, S)
<1>1. PICK it : SumIter(it, w, S) /\ Total(w, S) = it[S]
  BY TotalIter
<1>2. PICK jt : SumIter(jt, v, S) /\ Total(v, S) = jt[S]
  BY TotalIter
<1> QED BY <1>1, <1>2, SumAgree

\* A part of a set has no greater sum.
LEMMA TotalPart ==
  ASSUME NEW S, IsFiniteSet(S), NEW w, \A x \in S : w[x] \in Nat, NEW T, T \subseteq S
  PROVE  Total(w, T) <= Total(w, S)
<1> DEFINE N == {n \in Nat : \A R \in SUBSET S : T \subseteq R /\ Cardinality(R) = n =>
                               Total(w, T) <= Total(w, R)}
<1>1. \A R \in SUBSET S : IsFiniteSet(R) /\ Cardinality(R) \in Nat /\ Total(w, R) \in Nat
  <2>1. \A R \in SUBSET S : IsFiniteSet(R) /\ Cardinality(R) \in Nat
    BY FS_Subset, FS_CardinalityType
  <2> QED BY <2>1, TotalType
<1>2. 0 \in N
  <2>1. \A R \in SUBSET S : Cardinality(R) = 0 => R = {}
    BY <1>1, FS_EmptySet
  <2>2. \A R \in SUBSET S : T \subseteq R /\ Cardinality(R) = 0 => T = R
    BY <2>1
  <2> QED BY <1>1, <2>2
<1>3. ASSUME NEW n \in Nat, n \in N PROVE n + 1 \in N
  <2>1. ASSUME NEW R \in SUBSET S, T \subseteq R, Cardinality(R) = n + 1
        PROVE  Total(w, T) <= Total(w, R)
    <3>1. CASE R = T
      BY <1>1, <3>1
    <3>2. CASE R # T
      <4>1. PICK x \in R : x \notin T
        BY <2>1, <3>2
      <4>2. T \subseteq R \ {x} /\ R \ {x} \in SUBSET S
        BY <2>1, <4>1
      <4>3. Cardinality(R \ {x}) = n
        BY <1>1, <2>1, OneLess
      <4>4. Total(w, T) <= Total(w, R \ {x})
        BY <1>3, <4>2, <4>3
      <4>5. Total(w, R) = w[x] + Total(w, R \ {x})
        BY <1>1, TotalSplit
      <4>6. w[x] \in Nat /\ Total(w, T) \in Nat /\ Total(w, R \ {x}) \in Nat
        BY <1>1, <4>2
      <4> QED BY <4>4, <4>5, <4>6
    <3> QED BY <3>1, <3>2
  <2> QED BY <2>1
<1>4. Nat \subseteq N
  <2> HIDE DEF N
  <2> QED BY <1>2, <1>3, InductionOverNat
<1> QED BY <1>1, <1>4

\* The sums of the library are such sums.
LEMMA SumFunctionIs ==
  ASSUME NEW w, NEW S, IsFiniteSet(S), \A x \in S : w[x] \in Nat
  PROVE  SumFunctionOnSet(w, S) = Total(w, S)
<1> DEFINE Def(g) == [s \in SUBSET S |-> IF s = {} THEN 0 ELSE w[Pick(s)] + g[s \ {Pick(s)}]]
           iter == CHOOSE g : g = Def(g)
<1>1. SumFunctionOnSet(w, S) = iter[S]
  BY Zenon DEF SumFunctionOnSet, FoldFunctionOnSet, MapThenFoldSet, Pick
<1>2. PICK it \in [SUBSET S -> Nat] : SumIter(it, w, S) /\ Total(w, S) = it[S]
  BY TotalIter
<1>3. \A g : SumIter(g, w, S) <=> g = Def(g)
  BY DEF SumIter
<1>4. iter = Def(iter)
  <2>1. \E g : g = Def(g)
    BY <1>2, <1>3
  <2> HIDE DEF Def
  <2> QED BY <2>1
<1> HIDE DEF iter, Def
<1>5. SumIter(iter, w, S)
  BY <1>3, <1>4
<1>6. iter[S] = it[S]
  BY <1>2, <1>5, SumAgree
<1> QED BY <1>1, <1>2, <1>6

\* The image of a finite set is finite, and no larger.
LEMMA FiniteImage ==
  ASSUME NEW S, IsFiniteSet(S), NEW T, NEW f,
         \A s \in S : f[s] \in T, \A t \in T : \E s \in S : f[s] = t
  PROVE  IsFiniteSet(T) /\ Cardinality(T) <= Cardinality(S)
<1> DEFINE g == [s \in S |-> f[s]]
<1>1. g \in Surjection(S, T)
  BY DEF Surjection
<1> HIDE DEF g
<1> QED BY <1>1, FS_Surjection

\* Induction over the parts of a finite set: F is the set of the parts of which
\* something is to be shown.
LEMMA InductionOverParts ==
  ASSUME NEW S, IsFiniteSet(S), NEW F, {} \in F,
         \A T \in SUBSET S : T \in F => \A x \in S : x \notin T => T \cup {x} \in F
  PROVE  S \in F
<1> DEFINE P(n) == \A T \in SUBSET S : Cardinality(T) = n => T \in F
           N == {n \in Nat : P(n)}
<1>1. \A T \in SUBSET S : IsFiniteSet(T) /\ Cardinality(T) \in Nat
  BY FS_Subset, FS_CardinalityType
<1>2. 0 \in N
  BY <1>1, FS_EmptySet
<1>3. ASSUME NEW n \in Nat, n \in N PROVE n + 1 \in N
  <2>1. ASSUME NEW T \in SUBSET S, Cardinality(T) = n + 1 PROVE T \in F
    <3>1. PICK x : x \in T
      <4>1. T # {}
        BY <2>1, FS_EmptySet
      <4> QED BY <4>1
    <3>2. T \ {x} \in SUBSET S /\ Cardinality(T \ {x}) = n
      BY <1>1, <2>1, <3>1, OneLess
    <3>3. T \ {x} \in F
      BY <1>3, <3>2
    <3>4. (T \ {x}) \cup {x} \in F
      BY <3>1, <3>2, <3>3
    <3>5. (T \ {x}) \cup {x} = T
      BY <3>1
    <3> QED BY <3>4, <3>5
  <2>2. P(n + 1)
    BY <2>1
  <2> HIDE DEF P
  <2> QED BY <2>2
<1>4. Nat \subseteq N
  <2> HIDE DEF N
  <2> QED BY <1>2, <1>3, InductionOverNat
<1>5. Cardinality(S) \in Nat
  BY FS_CardinalityType
<1> QED BY <1>4, <1>5

\* A recursion over the numbers up to L: from b, by the steps F, inside V.
StaysIn(F, V, L) == \A n \in 1..L : \A v \in V : F[n][v] \in V

Solves(g, b, F, V, L) ==
  g \in [0..L -> V] /\ g[0] = b /\ \A n \in 1..L : g[n] = F[n][g[n - 1]]

\* The recursion has a solution, if its steps stay in V.
LEMMA RecursionUpTo ==
  ASSUME NEW L \in Nat, NEW V, NEW b \in V, NEW F, StaysIn(F, V, L)
  PROVE  \E g : Solves(g, b, F, V, L)
<1> DEFINE P(m) == \E g \in [0..m -> V] : g[0] = b /\ \A n \in 1..m : g[n] = F[n][g[n - 1]]
           N == {m \in 0..L : P(m)}
<1>1. 0 \in N
  <2> DEFINE g == [n \in 0..0 |-> b]
  <2>1. g \in [0..0 -> V] /\ g[0] = b /\ \A n \in 1..0 : g[n] = F[n][g[n - 1]]
    OBVIOUS
  <2>2. P(0)
    <3> HIDE DEF g
    <3> QED BY <2>1
  <2> HIDE DEF P
  <2> QED BY <2>2
<1>2. ASSUME NEW m \in 0..(L - 1), m \in N PROVE m + 1 \in N
  <2>1. PICK g \in [0..m -> V] : g[0] = b /\ \A n \in 1..m : g[n] = F[n][g[n - 1]]
    BY <1>2
  <2> DEFINE h == [n \in 0..(m + 1) |-> IF n = m + 1 THEN F[m + 1][g[m]] ELSE g[n]]
  <2>2. m \in Nat /\ m + 1 \in 0..L /\ m + 1 \in 1..L /\ m \in 0..m
    OBVIOUS
  <2>3. h \in [0..(m + 1) -> V]
    <3>1. F[m + 1][g[m]] \in V
      BY <2>2 DEF StaysIn
    <3>2. \A n \in 0..(m + 1) : n # m + 1 => n \in 0..m
      BY <2>2
    <3> QED BY <3>1, <3>2
  <2>4. h[0] = b
    BY <2>1, <2>2
  <2>5. ASSUME NEW n \in 1..(m + 1) PROVE h[n] = F[n][h[n - 1]]
    <3>1. CASE n = m + 1
      <4>1. n - 1 = m /\ h[m] = g[m]
        BY <2>2, <3>1
      <4> QED BY <2>2, <3>1, <4>1
    <3>2. CASE n # m + 1
      <4>1. n \in 1..m /\ n \in 0..(m + 1) /\ n - 1 # m + 1 /\ n - 1 \in 0..(m + 1)
        BY <2>2, <3>2
      <4> QED BY <2>1, <3>2, <4>1
    <3> QED BY <3>1, <3>2
  <2>6. P(m + 1)
    <3> HIDE DEF h
    <3> QED BY <2>3, <2>4, <2>5
  <2> HIDE DEF P
  <2> QED BY <2>2, <2>6
<1>3. P(L)
  <2>1. 0..L \subseteq N
    <3> HIDE DEF N
    <3> QED BY <1>1, <1>2, InductionUpTo
  <2> HIDE DEF P
  <2> QED BY <2>1
<1> QED BY <1>3 DEF Solves

(***************************************************************************)
(* Sequences                                                               *)
(***************************************************************************)

\* The first members of a sequence, one at a time.
LEMMA FirstMembers ==
  ASSUME NEW T, NEW s \in Seq(T)
  PROVE  /\ SubSeq(s, 1, 0) = <<>> /\ SubSeq(s, 1, Len(s)) = s
         /\ \A n \in 0..(Len(s) - 1) : /\ SubSeq(s, 1, n) \in Seq(T) /\ s[n + 1] \in T
                                       /\ SubSeq(s, 1, n + 1) = Append(SubSeq(s, 1, n), s[n + 1])
<1>1. SubSeq(s, 1, 0) = <<>>
  OBVIOUS
<1>2. SubSeq(s, 1, Len(s)) = s
  OBVIOUS
<1>3. ASSUME NEW n \in 0..(Len(s) - 1)
      PROVE  /\ SubSeq(s, 1, n) \in Seq(T) /\ s[n + 1] \in T
             /\ SubSeq(s, 1, n + 1) = Append(SubSeq(s, 1, n), s[n + 1])
  <2>1. n \in Nat /\ n + 1 \in 1..Len(s) /\ Len(s) \in Nat
    OBVIOUS
  <2>2. SubSeq(s, 1, n) \in Seq(T) /\ s[n + 1] \in T
    BY <2>1
  <2>3. SubSeq(s, 1, n + 1) \in Seq(T) /\ Len(SubSeq(s, 1, n + 1)) = n + 1 /\ Len(SubSeq(s, 1, n)) = n
    BY <2>1
  <2>4. \A i \in 1..(n + 1) : SubSeq(s, 1, n + 1)[i] = Append(SubSeq(s, 1, n), s[n + 1])[i]
    BY <2>1, <2>2, <2>3
  <2> QED BY <2>2, <2>3, <2>4
<1> QED BY <1>1, <1>2, <1>3

\* Induction over sequences: F is the set of the sequences of which something is
\* to be shown.
LEMMA InductionOverSeq ==
  ASSUME NEW T, NEW F, <<>> \in F,
         \A s \in Seq(T) : s \in F => \A x \in T : Append(s, x) \in F
  PROVE  Seq(T) \subseteq F
<1>1. ASSUME NEW s \in Seq(T) PROVE s \in F
  <2> DEFINE S == {n \in 0..Len(s) : SubSeq(s, 1, n) \in F}
  <2>0. /\ SubSeq(s, 1, 0) = <<>> /\ SubSeq(s, 1, Len(s)) = s
        /\ \A n \in 0..(Len(s) - 1) : /\ SubSeq(s, 1, n) \in Seq(T) /\ s[n + 1] \in T
                                      /\ SubSeq(s, 1, n + 1) = Append(SubSeq(s, 1, n), s[n + 1])
    BY FirstMembers, Zenon
  <2>1. Len(s) \in Nat /\ 0 \in S
    <3>1. SubSeq(s, 1, 0) \in F
      BY <2>0, Zenon
    <3> QED BY <3>1
  <2>2. \A n \in 0..(Len(s) - 1) : n \in S => n + 1 \in S
    <3>1. ASSUME NEW n \in 0..(Len(s) - 1), n \in S PROVE n + 1 \in S
      <4>1. SubSeq(s, 1, n + 1) \in F
        BY <2>0, <3>1, Zenon
      <4> QED BY <2>1, <4>1
    <3> QED BY <3>1
  <2>3. Len(s) \in S
    <3>1. 0..Len(s) \subseteq S
      <4> HIDE DEF S
      <4> QED BY <2>1, <2>2, InductionUpTo
    <3> QED BY <2>1, <3>1
  <2> QED BY <2>0, <2>3
<1> QED BY <1>1

=============================================================================
