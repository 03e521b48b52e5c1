------------------------------ MODULE ListProofs ------------------------------
(***************************************************************************)
(* What the operators of Lists do, for every list and every set. The       *)
(* arguments are by induction on a number; an induction is stated with a   *)
(* set of numbers, and comes from the well-foundedness of the inclusion of *)
(* finite sets.                                                            *)
(***************************************************************************)
EXTENDS Lists, Integers, FiniteSetTheorems, SequenceTheorems, WellFoundedInduction, TLAPS

\* Induction over the naturals, for a set of them.
LEMMA Induct ==
    ASSUME NEW T, T \subseteq Nat, 0 \in T, \A n \in T : n + 1 \in T
    PROVE  T = Nat
<1> DEFINE A == {1..n : n \in Nat \ T}
           R == StrictSubsetOrdering(Nat)
<1>1. IsWellFoundedOn(R, FiniteSubsetsOf(Nat))
  BY FS_StrictSubsetOrderingWellFounded
<1>2. A \subseteq FiniteSubsetsOf(Nat)
  <2> SUFFICES ASSUME NEW n \in Nat \ T PROVE 1..n \in FiniteSubsetsOf(Nat)
    OBVIOUS
  <2>1. IsFiniteSet(1..n) /\ 1..n \subseteq Nat
    BY FS_Interval
  <2> QED  BY <2>1 DEF FiniteSubsetsOf
<1>3. ASSUME A # {} PROVE FALSE
  <2>1. PICK x \in A : \A y \in A : <<y, x>> \notin R
    <3> HIDE DEF A, R
    <3> QED  BY <1>1, <1>2, <1>3, WFMin
  <2>2. PICK n \in Nat \ T : x = 1..n
    BY <2>1
  <2>3. n # 0 /\ n - 1 \in Nat /\ n - 1 \notin T
    BY <2>2
  <2>4. 1..(n - 1) \in A
    BY <2>3
  <2>5. <<1..(n - 1), 1..n>> \in R
    <3>1. n \in 1..n /\ n \notin 1..(n - 1) /\ 1..(n - 1) \subseteq 1..n /\ 1..n \subseteq Nat
      BY <2>2, <2>3
    <3> QED  BY <3>1 DEF StrictSubsetOrdering
  <2> QED  BY <2>1, <2>2, <2>4, <2>5
<1> QED  BY <1>3

\* A set of numbers that has one has a least one.
LEMMA Least ==
    ASSUME NEW S, S \subseteq Nat, S # {}
    PROVE  \E m \in S : \A x \in S : m <= x
<1> DEFINE T == {n \in Nat : \A x \in S : n <= x}
<1>1. 0 \in T
  OBVIOUS
<1>2. T # Nat
  <2>1. PICK x \in S : x \in Nat
    OBVIOUS
  <2>2. x + 1 \notin T
    BY <2>1
  <2> QED  BY <2>1, <2>2
<1>3. PICK n \in T : n + 1 \notin T
  <2> HIDE DEF T
  <2>1. T \subseteq Nat
    BY DEF T
  <2> QED  BY <1>1, <1>2, <2>1, Induct
<1>4. PICK x \in S : ~(n + 1 <= x)
  BY <1>3
<1>5. x = n
  BY <1>3, <1>4
<1> QED  BY <1>3, <1>4, <1>5

\* A finite set of numbers has an upper bound.
LEMMA Bounded ==
    ASSUME NEW S, IsFiniteSet(S), S \subseteq Nat
    PROVE  \E b \in Nat : \A x \in S : x <= b
<1> DEFINE Has(F) == \E b \in Nat : \A x \in F : x <= b
           A == {F \in FiniteSubsetsOf(Nat) : ~Has(F)}
           R == StrictSubsetOrdering(Nat)
<1>1. IsWellFoundedOn(R, FiniteSubsetsOf(Nat))
  BY FS_StrictSubsetOrderingWellFounded
<1>2. A \subseteq FiniteSubsetsOf(Nat)
  OBVIOUS
<1>3. ASSUME A # {} PROVE FALSE
  <2>1. PICK F \in A : \A G \in A : <<G, F>> \notin R
    <3> HIDE DEF A, R
    <3> QED  BY <1>1, <1>2, <1>3, WFMin
  <2>2. F \in SUBSET Nat /\ IsFiniteSet(F) /\ ~Has(F)
    BY <2>1 DEF FiniteSubsetsOf
  <2>3. PICK m \in F : TRUE
    BY <2>2
  <2>4. m \in Nat
    BY <2>2, <2>3
  <2> DEFINE G == F \ {m}
  <2>5. G \subseteq F /\ G # F /\ G \in SUBSET Nat
    BY <2>2, <2>3
  <2>6. <<G, F>> \in R
    BY <2>2, <2>5 DEF StrictSubsetOrdering
  <2>7. IsFiniteSet(G)
    BY <2>2, FS_RemoveElement
  <2>8. Has(G)
    <3> HIDE DEF G, R, Has
    <3>1. G \notin A
      BY <2>1, <2>6
    <3> QED  BY <2>5, <2>7, <3>1 DEF FiniteSubsetsOf
  <2>9. PICK b \in Nat : \A x \in G : x <= b
    BY <2>8
  <2>10. PICK c \in Nat : b <= c /\ m <= c
    BY <2>4, <2>9
  <2>11. ASSUME NEW x \in F PROVE x <= c
    <3>1. x \in Nat /\ (x = m \/ x \in G)
      BY <2>2
    <3>2. x = m \/ x <= b
      BY <2>9, <3>1
    <3> QED  BY <2>4, <2>10, <3>1, <3>2
  <2> QED  BY <2>2, <2>10, <2>11
<1>4. S \in FiniteSubsetsOf(Nat)
  BY DEF FiniteSubsetsOf
<1> QED  BY <1>3, <1>4

\* The rank of a number of S is its place in the order, and every place is taken.
LEMMA RankType ==
    ASSUME NEW S, IsFiniteSet(S), S \subseteq Nat
    PROVE  /\ Cardinality(S) \in Nat
           /\ \A x \in S : Rank(S, x) \in 1..Cardinality(S)
           /\ \A x, y \in S : x < y => Rank(S, x) < Rank(S, y)
<1> DEFINE Upto(x) == {y \in S : y <= x}
<1>1. Cardinality(S) \in Nat
  BY FS_CardinalityType
<1>2. \A x : IsFiniteSet(Upto(x)) /\ Cardinality(Upto(x)) \in Nat /\ Cardinality(Upto(x)) <= Cardinality(S)
  <2> SUFFICES ASSUME NEW x
               PROVE  IsFiniteSet(Upto(x)) /\ Cardinality(Upto(x)) \in Nat /\ Cardinality(Upto(x)) <= Cardinality(S)
    OBVIOUS
  <2>1. Upto(x) \subseteq S
    OBVIOUS
  <2> HIDE DEF Upto
  <2> QED  BY <2>1, FS_Subset, FS_CardinalityType
<1>3. ASSUME NEW x \in S PROVE Rank(S, x) \in 1..Cardinality(S)
  <2>1. x \in Upto(x)
    OBVIOUS
  <2> HIDE DEF Upto
  <2>2. Cardinality(Upto(x)) # 0
    BY <1>2, <2>1, FS_EmptySet
  <2>3. Rank(S, x) = Cardinality(Upto(x))
    BY DEF Rank, Upto
  <2> QED  BY <1>1, <1>2, <2>2, <2>3
<1>4. ASSUME NEW x \in S, NEW y \in S, x < y PROVE Rank(S, x) < Rank(S, y)
  <2>1. Upto(x) \subseteq Upto(y) /\ y \in Upto(y) /\ y \notin Upto(x)
    <3>1. x \in Nat /\ y \in Nat /\ y <= y /\ ~(y <= x)
      BY <1>4
    <3>2. ASSUME NEW z \in S, z <= x PROVE z <= y
      <4>1. z \in Nat
        OBVIOUS
      <4> QED  BY <1>4, <3>1, <3>2, <4>1
    <3> QED  BY <3>1, <3>2, Zenon
  <2>2. Rank(S, x) = Cardinality(Upto(x)) /\ Rank(S, y) = Cardinality(Upto(y))
    BY DEF Rank
  <2> HIDE DEF Upto
  <2>3. /\ Cardinality(Upto(x)) <= Cardinality(Upto(y))
        /\ Cardinality(Upto(x)) = Cardinality(Upto(y)) => Upto(x) = Upto(y)
    BY <1>2, <2>1, FS_Subset
  <2> QED  BY <1>2, <2>1, <2>2, <2>3
<1> QED  BY <1>1, <1>3, <1>4

LEMMA RankOnto ==
    ASSUME NEW S, IsFiniteSet(S), S \subseteq Nat, NEW k \in 1..Cardinality(S)
    PROVE  \E x \in S : Rank(S, x) = k
<1> DEFINE T == {n \in Nat : Cardinality({y \in S : y < n}) < k}
           Below(n) == {y \in S : y < n}
<1>1. Cardinality(S) \in Nat /\ k \in Nat /\ k >= 1 /\ k <= Cardinality(S)
  BY FS_CardinalityType
<1>2. \A n : IsFiniteSet(Below(n)) /\ Cardinality(Below(n)) \in Nat
  <2> SUFFICES ASSUME NEW n PROVE IsFiniteSet(Below(n)) /\ Cardinality(Below(n)) \in Nat
    OBVIOUS
  <2>1. Below(n) \subseteq S
    OBVIOUS
  <2> HIDE DEF Below
  <2> QED  BY <2>1, FS_Subset, FS_CardinalityType
<1>3. \A n \in Nat : n \in T <=> Cardinality(Below(n)) < k
  OBVIOUS
<1>4. 0 \in T
  <2>1. Below(0) = {}
    <3>1. ASSUME NEW y \in S PROVE ~(y < 0)
      <4>1. y \in Nat
        OBVIOUS
      <4> QED  BY <4>1
    <3> QED  BY <3>1, Zenon
  <2>2. Cardinality(Below(0)) = 0
    BY <2>1, FS_EmptySet
  <2> QED  BY <1>1, <1>3, <2>2
<1>5. T # Nat
  <2>1. PICK b \in Nat : \A x \in S : x <= b
    BY Bounded
  <2>2. Below(b + 1) = S
    <3>1. ASSUME NEW y \in S PROVE y < b + 1
      <4>1. y \in Nat /\ y <= b
        BY <2>1
      <4> QED  BY <4>1
    <3> QED  BY <3>1, Zenon
  <2>3. b + 1 \in Nat /\ b + 1 \notin T
    BY <1>1, <1>3, <2>1, <2>2
  <2> QED  BY <2>3
<1>6. PICK n \in T : n + 1 \notin T
  <2>1. T \subseteq Nat
    OBVIOUS
  <2> HIDE DEF T
  <2> QED  BY <1>4, <1>5, <2>1, Induct
<1>7. n \in Nat /\ n + 1 \in Nat
  BY <1>6
<1>8. n \in S
  <2>1. n \notin S => Below(n + 1) = Below(n)
    <3>1. ASSUME n \notin S, NEW y \in S PROVE y < n + 1 <=> y < n
      <4>1. y \in Nat /\ y # n
        BY <3>1
      <4> QED  BY <1>7, <4>1
    <3> QED  BY <3>1, Zenon
  <2> HIDE DEF Below, T
  <2> QED  BY <1>3, <1>6, <1>7, <2>1
<1>9. Below(n + 1) = Below(n) \union {n} /\ n \notin Below(n)
  <2>1. ASSUME NEW y \in S PROVE y < n + 1 <=> y < n \/ y = n
    <3>1. y \in Nat
      OBVIOUS
    <3> QED  BY <1>7, <3>1
  <2>2. ~(n < n)
    BY <1>7
  <2> QED  BY <1>8, <2>1, <2>2, Zenon
<1>10. Rank(S, n) = Cardinality(Below(n + 1))
  <2>1. {y \in S : y <= n} = Below(n + 1)
    <3>1. ASSUME NEW y \in S PROVE y <= n <=> y < n + 1
      <4>1. y \in Nat
        OBVIOUS
      <4> QED  BY <1>7, <4>1
    <3> QED  BY <3>1, Zenon
  <2> QED  BY <2>1 DEF Rank
<1> HIDE DEF Below, T
<1>11. Cardinality(Below(n + 1)) = Cardinality(Below(n)) + 1
  BY <1>2, <1>9, FS_AddElement
<1>12. Cardinality(Below(n)) < k /\ ~(Cardinality(Below(n + 1)) < k)
  BY <1>3, <1>6, <1>7
<1> QED  BY <1>1, <1>2, <1>8, <1>10, <1>11, <1>12

\* Ordered lists what is in the set, each number once and in its order.
LEMMA OrderedIs ==
    ASSUME NEW S, IsFiniteSet(S), S \subseteq Nat
    PROVE  /\ Ordered(S) \in Seq(S) /\ Len(Ordered(S)) = Cardinality(S)
           /\ Elements(Ordered(S)) = S
           /\ \A j, k \in DOMAIN Ordered(S) : j < k => Ordered(S)[j] < Ordered(S)[k]
<1> DEFINE q == Ordered(S)
           n == Cardinality(S)
<1>1. /\ n \in Nat /\ \A x \in S : Rank(S, x) \in 1..n
      /\ \A x, y \in S : x < y => Rank(S, x) < Rank(S, y)
  BY RankType
<1>2. \A k \in 1..n : q[k] \in S /\ Rank(S, q[k]) = k
  <2> SUFFICES ASSUME NEW k \in 1..n PROVE q[k] \in S /\ Rank(S, q[k]) = k
    OBVIOUS
  <2>1. \E x \in S : Rank(S, x) = k
    BY RankOnto
  <2>2. q[k] = CHOOSE x \in S : Rank(S, x) = k
    BY DEF Ordered
  <2> HIDE DEF q
  <2> QED  BY <2>1, <2>2, Zenon
<1>3. q = [k \in 1..n |-> q[k]] /\ DOMAIN q = 1..n
  BY DEF Ordered
<1> HIDE DEF q, n
<1>4. q \in Seq(S) /\ Len(q) = n
  <2>1. q \in [1..n -> S]
    BY <1>2, <1>3
  <2>2. q \in Seq(S)
    BY <1>1, <2>1, SeqDef
  <2> QED  BY <1>1, <1>3, <2>2, LenProperties
<1>5. \A x, y \in S : Rank(S, x) = Rank(S, y) => x = y
  <2> SUFFICES ASSUME NEW x \in S, NEW y \in S, x # y PROVE Rank(S, x) # Rank(S, y)
    OBVIOUS
  <2>1. x \in Nat /\ y \in Nat /\ Rank(S, x) \in 1..n /\ Rank(S, y) \in 1..n
    BY <1>1
  <2>2. x < y \/ y < x
    BY <2>1
  <2> QED  BY <1>1, <2>1, <2>2
<1>6. Elements(q) = S
  <2>1. \A x \in S : x = q[Rank(S, x)]
    BY <1>1, <1>2, <1>5
  <2> QED  BY <1>1, <1>2, <1>3, <2>1 DEF Elements
<1>7. ASSUME NEW j \in DOMAIN q, NEW k \in DOMAIN q, j < k PROVE q[j] < q[k]
  <2>1. PICK a \in S, b \in S : a = q[j] /\ b = q[k] /\ Rank(S, a) = j /\ Rank(S, b) = k
    BY <1>2, <1>3
  <2>2. a \in Nat /\ b \in Nat /\ j \in Nat /\ k \in Nat
    BY <1>1, <1>3
  <2>3. a # b
    BY <1>7, <2>1, <2>2
  <2>4. b < a => k < j
    BY <1>1, <2>1
  <2>5. a < b
    BY <1>7, <2>2, <2>3, <2>4
  <2> QED  BY <2>1, <2>5
<1> QED  BY <1>4, <1>6, <1>7 DEF q, n

LEMMA UptoIs ==
    ASSUME NEW n \in Nat
    PROVE  IsFiniteSet(1..n) /\ Cardinality(1..n) = n
  BY FS_Interval

\* Without drops exactly what it is told to drop.
LEMMA WithoutIs ==
    ASSUME NEW X, NEW s \in Seq(X), NEW S
    PROVE  /\ Without(s, S) \in Seq(X) /\ Len(Without(s, S)) <= Len(s)
           /\ Elements(Without(s, S)) = Elements(s) \ S
           /\ NoneTwice(s) => NoneTwice(Without(s, S))
<1> DEFINE I == {i \in DOMAIN s : s[i] \notin S}
           at == Ordered(I)
           w == Without(s, S)
<1>1. Len(s) \in Nat /\ DOMAIN s = 1..Len(s) /\ \A i \in DOMAIN s : s[i] \in X
  BY LenProperties
<1>2. I \subseteq DOMAIN s /\ I \subseteq Nat
  BY <1>1
<1>3. IsFiniteSet(I) /\ Cardinality(I) <= Len(s)
  <2>1. IsFiniteSet(DOMAIN s) /\ Cardinality(DOMAIN s) = Len(s)
    BY <1>1, UptoIs
  <2> HIDE DEF I
  <2> QED  BY <1>2, <2>1, FS_Subset
<1>4. /\ at \in Seq(I) /\ Len(at) = Cardinality(I) /\ Elements(at) = I
      /\ \A j, k \in DOMAIN at : j < k => at[j] < at[k]
  <2> HIDE DEF I
  <2> QED  BY <1>2, <1>3, OrderedIs
<1>5. w = [k \in DOMAIN at |-> s[at[k]]]
  BY DEF Without
<1> HIDE DEF at, w
<1>6. Len(at) \in Nat /\ DOMAIN at = 1..Len(at) /\ \A k \in DOMAIN at : at[k] \in I
  <2> HIDE DEF I
  <2> QED  BY <1>4, LenProperties
<1>7. w \in Seq(X) /\ Len(w) <= Len(s)
  <2>1. w \in [1..Len(at) -> X]
    BY <1>1, <1>5, <1>6
  <2>2. w \in Seq(X)
    BY <1>6, <2>1, SeqDef
  <2>3. Len(w) = Len(at)
    BY <1>6, <2>1, <2>2, LenProperties
  <2> QED  BY <1>3, <1>4, <2>2, <2>3
<1>8. Elements(w) = {s[i] : i \in I}
  <2>1. \A i \in I : \E k \in DOMAIN at : at[k] = i
    BY <1>4 DEF Elements
  <2> HIDE DEF I
  <2> QED  BY <1>5, <1>6, <2>1 DEF Elements
<1>9. Elements(w) = Elements(s) \ S
  BY <1>8 DEF Elements
<1>10. ASSUME NoneTwice(s), NEW j \in DOMAIN w, NEW k \in DOMAIN w, w[j] = w[k] PROVE j = k
  <2>1. j \in 1..Len(at) /\ k \in 1..Len(at) /\ w[j] = s[at[j]] /\ w[k] = s[at[k]]
    BY <1>5, <1>6, <1>10
  <2>2. at[j] \in DOMAIN s /\ at[k] \in DOMAIN s /\ at[j] \in Nat
    BY <1>2, <1>6, <2>1
  <2>3. at[j] = at[k]
    BY <1>10, <2>1, <2>2 DEF NoneTwice
  <2>4. ~(j < k) /\ ~(k < j)
    BY <1>4, <1>6, <2>1, <2>2, <2>3
  <2> QED  BY <1>6, <2>1, <2>4
<1> QED  BY <1>7, <1>9, <1>10 DEF NoneTwice, w

\* What Without leaves keeps its order.
LEMMA WithoutKeepsOrder ==
    ASSUME NEW X, NEW s \in Seq(X), NEW S,
           NEW j \in DOMAIN Without(s, S), NEW k \in DOMAIN Without(s, S), j < k
    PROVE  \E p, q \in DOMAIN s : p < q /\ Without(s, S)[j] = s[p] /\ Without(s, S)[k] = s[q]
<1> DEFINE I == {i \in DOMAIN s : s[i] \notin S}
           at == Ordered(I)
           w == Without(s, S)
<1>1. Len(s) \in Nat /\ DOMAIN s = 1..Len(s)
  BY LenProperties
<1>2. I \subseteq DOMAIN s /\ I \subseteq Nat
  BY <1>1
<1>3. IsFiniteSet(I)
  <2>1. IsFiniteSet(DOMAIN s)
    BY <1>1, UptoIs
  <2> HIDE DEF I
  <2> QED  BY <1>2, <2>1, FS_Subset
<1>4. /\ at \in Seq(I)
      /\ \A m, n \in DOMAIN at : m < n => at[m] < at[n]
  <2> HIDE DEF I
  <2> QED  BY <1>2, <1>3, OrderedIs
<1>5. w = [m \in DOMAIN at |-> s[at[m]]]
  BY DEF Without
<1> HIDE DEF at, w, I
<1>6. \A m \in DOMAIN at : at[m] \in I
  BY <1>4, LenProperties
<1>7. j \in DOMAIN at /\ k \in DOMAIN at /\ w[j] = s[at[j]] /\ w[k] = s[at[k]]
  BY <1>5 DEF w
<1>8. at[j] \in DOMAIN s /\ at[k] \in DOMAIN s /\ at[j] < at[k]
  BY <1>2, <1>4, <1>6, <1>7
<1> QED  BY <1>7, <1>8 DEF w

\* An entry is added at the end, the first one goes, the one at i goes.
LEMMA AppendIs ==
    ASSUME NEW X, NEW s \in Seq(X), NEW x \in X
    PROVE  /\ Append(s, x) \in Seq(X) /\ Len(Append(s, x)) = Len(s) + 1
           /\ Elements(Append(s, x)) = Elements(s) \union {x}
           /\ NoneTwice(s) /\ x \notin Elements(s) => NoneTwice(Append(s, x))
<1> DEFINE t == Append(s, x)
<1>1. /\ t \in Seq(X) /\ Len(t) = Len(s) + 1 /\ Len(s) \in Nat
      /\ \A k \in 1..Len(s) : t[k] = s[k]
      /\ t[Len(s) + 1] = x
  BY AppendProperties, LenProperties
<1> HIDE DEF t
<1>2. DOMAIN s = 1..Len(s) /\ DOMAIN t = 1..(Len(s) + 1)
  BY <1>1, LenProperties
<1>3. \A k \in DOMAIN t : k \in DOMAIN s \/ k = Len(s) + 1
  BY <1>1, <1>2
<1>4. Elements(t) = Elements(s) \union {x}
  <2>1. Len(s) + 1 \in DOMAIN t /\ DOMAIN s \subseteq DOMAIN t
    BY <1>1, <1>2
  <2>2. \A k \in DOMAIN s : t[k] = s[k]
    BY <1>1, <1>2
  <2> QED  BY <1>1, <1>3, <2>1, <2>2, Zenon DEF Elements
<1>5. ASSUME NoneTwice(s), x \notin Elements(s), NEW i \in DOMAIN t, NEW j \in DOMAIN t, t[i] = t[j]
      PROVE  i = j
  <2>1. \A k \in DOMAIN s : t[k] = s[k] /\ s[k] # x
    BY <1>1, <1>2, <1>5 DEF Elements
  <2> QED  BY <1>1, <1>3, <1>5, <2>1 DEF NoneTwice
<1> QED  BY <1>1, <1>4, <1>5 DEF NoneTwice, t

LEMMA TailIs ==
    ASSUME NEW X, NEW s \in Seq(X), s # <<>>
    PROVE  /\ Tail(s) \in Seq(X) /\ Len(Tail(s)) = Len(s) - 1 /\ Head(s) \in Elements(s)
           /\ Elements(s) = Elements(Tail(s)) \union {Head(s)}
           /\ NoneTwice(s) => NoneTwice(Tail(s)) /\ Head(s) \notin Elements(Tail(s))
<1> DEFINE t == Tail(s)
<1>1. /\ t \in Seq(X) /\ Len(t) = Len(s) - 1 /\ Len(s) \in Nat /\ Len(s) >= 1 /\ Head(s) = s[1]
      /\ \A k \in 1..Len(t) : t[k] = s[k + 1]
  <2>1. Len(s) \in Nat
    BY LenProperties
  <2> QED  BY <2>1
<1> HIDE DEF t
<1>2. DOMAIN s = 1..Len(s) /\ DOMAIN t = 1..(Len(s) - 1)
  BY <1>1, LenProperties
<1>3. /\ 1 \in DOMAIN s
      /\ \A k \in DOMAIN t : k + 1 \in DOMAIN s /\ k + 1 # 1 /\ t[k] = s[k + 1]
      /\ \A k \in DOMAIN s : k = 1 \/ \E j \in DOMAIN t : k = j + 1
  <2>1. \A k \in DOMAIN s : k # 1 => k - 1 \in DOMAIN t /\ k = (k - 1) + 1
    BY <1>1, <1>2
  <2> QED  BY <1>1, <1>2, <2>1
<1>4. Elements(s) = Elements(t) \union {Head(s)}
  <2>1. ASSUME NEW k \in DOMAIN t PROVE t[k] \in Elements(s)
    BY <1>3 DEF Elements
  <2>2. ASSUME NEW k \in DOMAIN s PROVE s[k] \in Elements(t) \/ s[k] = Head(s)
    <3>1. k = 1 \/ \E j \in DOMAIN t : k = j + 1
      BY <1>3
    <3>2. \A j \in DOMAIN t : k = j + 1 => s[k] = t[j]
      BY <1>3
    <3>3. \A j \in DOMAIN t : t[j] \in Elements(t)
      BY DEF Elements
    <3> QED  BY <1>1, <3>1, <3>2, <3>3
  <2>3. Head(s) \in Elements(s)
    BY <1>1, <1>3 DEF Elements
  <2> QED  BY <2>1, <2>2, <2>3, Zenon DEF Elements
<1>5. ASSUME NoneTwice(s) PROVE NoneTwice(t) /\ s[1] \notin Elements(t)
  <2>1. ASSUME NEW i \in DOMAIN t, NEW j \in DOMAIN t, t[i] = t[j] PROVE i = j
    <3>1. i + 1 = j + 1
      BY <1>3, <1>5, <2>1 DEF NoneTwice
    <3> QED  BY <1>1, <1>2, <3>1
  <2>2. \A k \in DOMAIN t : t[k] # s[1]
    BY <1>3, <1>5 DEF NoneTwice
  <2> QED  BY <2>1, <2>2 DEF NoneTwice, Elements
<1> QED  BY <1>1, <1>3, <1>4, <1>5 DEF Elements, t

LEMMA CutIs ==
    ASSUME NEW X, NEW s \in Seq(X), NEW i \in DOMAIN s, NoneTwice(s),
           NEW t, t = CutAt(s, i)
    PROVE  /\ t \in Seq(X) /\ Len(t) = Len(s) - 1
           /\ Elements(t) = Elements(s) \ {s[i]} /\ NoneTwice(t)
<1> DEFINE at(j) == IF j < i THEN j ELSE j + 1
<1>1. /\ Len(s) \in Nat /\ DOMAIN s = 1..Len(s) /\ Len(s) - 1 \in Nat /\ i \in 1..Len(s)
      /\ \A k \in DOMAIN s : s[k] \in X
  BY LenProperties
<1>2. t = [j \in 1..(Len(s) - 1) |-> s[at(j)]] /\ DOMAIN t = 1..(Len(s) - 1)
  BY DEF CutAt
<1>3. /\ \A j \in DOMAIN t : t[j] = s[at(j)] /\ at(j) \in DOMAIN s /\ at(j) # i
      /\ \A j, k \in DOMAIN t : at(j) = at(k) => j = k
      /\ \A k \in DOMAIN s : k # i => \E j \in DOMAIN t : at(j) = k
  <2>1. \A j \in DOMAIN t : t[j] = s[at(j)] /\ at(j) \in DOMAIN s /\ at(j) # i
    BY <1>1, <1>2
  <2>2. \A j, k \in DOMAIN t : at(j) = at(k) => j = k
    BY <1>1, <1>2
  <2>3. ASSUME NEW k \in DOMAIN s, k # i PROVE \E j \in DOMAIN t : at(j) = k
    <3>1. CASE k < i
      BY <1>1, <1>2, <3>1
    <3>2. CASE ~(k < i)
      <4>1. k - 1 \in DOMAIN t /\ at(k - 1) = k
        BY <1>1, <1>2, <2>3, <3>2
      <4> QED  BY <4>1
    <3> QED  BY <3>1, <3>2
  <2> QED  BY <2>1, <2>2, <2>3
<1> HIDE DEF at
<1>4. t \in Seq(X) /\ Len(t) = Len(s) - 1
  <2>1. t = [j \in 1..(Len(s) - 1) |-> t[j]]
    BY <1>2
  <2>2. t \in [1..(Len(s) - 1) -> X]
    BY <1>1, <1>2, <1>3, <2>1
  <2>3. t \in Seq(X)
    BY <1>1, <2>2, SeqDef
  <2> QED  BY <1>1, <1>2, <2>3, LenProperties
<1>5. NoneTwice(t)
  BY <1>3 DEF NoneTwice
<1>6. Elements(t) = Elements(s) \ {s[i]}
  <2>1. \A k \in DOMAIN s : s[k] = s[i] => k = i
    BY DEF NoneTwice
  <2>2. \A j \in DOMAIN t : t[j] \in Elements(s) \ {s[i]}
    <3> SUFFICES ASSUME NEW j \in DOMAIN t PROVE t[j] \in Elements(s) \ {s[i]}
      OBVIOUS
    <3>1. at(j) \in DOMAIN s /\ at(j) # i /\ t[j] = s[at(j)]
      BY <1>3
    <3>2. s[at(j)] # s[i]
      BY <2>1, <3>1
    <3> QED  BY <3>1, <3>2 DEF Elements
  <2>3. \A k \in DOMAIN s : k # i => s[k] \in Elements(t)
    BY <1>3 DEF Elements
  <2>4. \A x \in Elements(s) : \E k \in DOMAIN s : x = s[k]
    BY DEF Elements
  <2>5. \A x \in Elements(t) : \E k \in DOMAIN t : x = t[k]
    BY DEF Elements
  <2>6. Elements(t) \subseteq Elements(s) \ {s[i]}
    BY <2>2, <2>5
  <2>7. ASSUME NEW x \in Elements(s), x # s[i] PROVE x \in Elements(t)
    BY <2>3, <2>4, <2>7
  <2> QED  BY <2>6, <2>7
<1> QED  BY <1>4, <1>5, <1>6

\* Two lists one after the other.
LEMMA JoinIs ==
    ASSUME NEW X, NEW s \in Seq(X), NEW t \in Seq(X)
    PROVE  /\ s \o t \in Seq(X) /\ Elements(s \o t) = Elements(s) \union Elements(t)
           /\ NoneTwice(s) /\ NoneTwice(t) /\ Elements(s) \cap Elements(t) = {} => NoneTwice(s \o t)
           /\ s # <<>> => Head(s \o t) = Head(s) /\ s \o t # <<>>
<1> DEFINE u == s \o t
           m == Len(s)
           n == Len(t)
<1>1. /\ u \in Seq(X) /\ Len(u) = m + n
      /\ \A k \in 1..(m + n) : u[k] = IF k <= m THEN s[k] ELSE t[k - m]
  BY ConcatProperties
<1>2. /\ m \in Nat /\ n \in Nat /\ DOMAIN s = 1..m /\ DOMAIN t = 1..n /\ DOMAIN u = 1..(m + n)
  BY <1>1, LenProperties
<1>3. s # <<>> => Head(u) = Head(s) /\ u # <<>>
  <2>1. s # <<>> => m >= 1 /\ s[1] = Head(s)
    BY <1>2, EmptySeq
  <2>2. m >= 1 => Len(u) >= 1 /\ u[1] = s[1]
    BY <1>1, <1>2
  <2>3. Len(u) >= 1 => Head(u) = u[1] /\ u # <<>>
    <3> HIDE DEF u
    <3> QED  BY <1>1, EmptySeq
  <2> QED  BY <2>1, <2>2, <2>3
<1> HIDE DEF u, m, n
<1>4. /\ \A k \in DOMAIN s : k \in DOMAIN u /\ u[k] = s[k]
      /\ \A k \in DOMAIN t : m + k \in DOMAIN u /\ u[m + k] = t[k]
      /\ \A k \in DOMAIN u : k \in DOMAIN s \/ \E j \in DOMAIN t : k = m + j
  <2>1. \A k \in DOMAIN s : k \in DOMAIN u /\ u[k] = s[k]
    BY <1>1, <1>2
  <2>2. ASSUME NEW k \in DOMAIN t PROVE m + k \in DOMAIN u /\ u[m + k] = t[k]
    <3>1. m + k \in 1..(m + n) /\ ~(m + k <= m) /\ (m + k) - m = k
      BY <1>2
    <3> QED  BY <1>1, <1>2, <3>1
  <2>3. ASSUME NEW k \in DOMAIN u, k \notin DOMAIN s PROVE \E j \in DOMAIN t : k = m + j
    <3>1. k - m \in DOMAIN t /\ k = m + (k - m)
      BY <1>2, <2>3
    <3> QED  BY <3>1
  <2> QED  BY <2>1, <2>2, <2>3
<1>5. Elements(u) = Elements(s) \union Elements(t)
  <2>1. \A k \in DOMAIN u : u[k] \in Elements(s) \union Elements(t)
    BY <1>4 DEF Elements
  <2>2. /\ \A k \in DOMAIN s : s[k] \in Elements(u)
        /\ \A k \in DOMAIN t : t[k] \in Elements(u)
    BY <1>4 DEF Elements
  <2> QED  BY <2>1, <2>2 DEF Elements
<1>6. ASSUME NoneTwice(s), NoneTwice(t), Elements(s) \cap Elements(t) = {},
             NEW j \in DOMAIN u, NEW k \in DOMAIN u, u[j] = u[k]
      PROVE  j = k
  <2>1. /\ \A i \in DOMAIN s : s[i] \in Elements(s)
        /\ \A i \in DOMAIN t : t[i] \in Elements(t)
    BY DEF Elements
  <2>2. CASE j \in DOMAIN s
    <3>1. k \in DOMAIN s
      BY <1>4, <1>6, <2>1, <2>2
    <3> QED  BY <1>4, <1>6, <2>2, <3>1 DEF NoneTwice
  <2>3. CASE j \notin DOMAIN s
    <3>1. PICK a \in DOMAIN t : j = m + a
      BY <1>4, <2>3
    <3>2. k \notin DOMAIN s
      BY <1>4, <1>6, <2>1, <3>1
    <3>3. PICK c \in DOMAIN t : k = m + c
      BY <1>4, <3>2
    <3>4. t[a] = t[c]
      BY <1>4, <1>6, <3>1, <3>3
    <3> QED  BY <1>6, <3>1, <3>3, <3>4 DEF NoneTwice
  <2> QED  BY <2>2, <2>3
<1> QED  BY <1>1, <1>3, <1>5, <1>6 DEF NoneTwice, u
=============================================================================
