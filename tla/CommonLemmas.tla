---------------------------- MODULE CommonLemmas ----------------------------
(***************************************************************************)
(* Lemmas that the proofs of several components rest on: the least of a    *)
(* set of natural numbers, remainders, and the operators of OrderedSets    *)
(* (the ranks of the elements of a finite set count it off in order, and a *)
(* new largest element comes last).                                        *)
(***************************************************************************)
EXTENDS OrderedSets, Sequences, FiniteSetTheorems, WellFoundedInduction, TLAPS

\* A non-empty set of natural numbers has a least element.
LEMMA LessThan == \A x, y \in Nat : <<x, y>> \in OpToRel(<, Nat) <=> x < y
  BY DEF OpToRel

LEMMA LeastElement ==
    ASSUME NEW S, S \subseteq Nat, S # {} PROVE \E x \in S : \A y \in S : x <= y
<1>1. PICK x \in S : \A y \in S : ~ (<<y, x>> \in OpToRel(<, Nat))
  BY WFMin, NatLessThanWellFounded
<1>2. ASSUME NEW y \in S PROVE x <= y
  <2>1. x \in Nat /\ y \in Nat /\ ~(<<y, x>> \in OpToRel(<, Nat))
    BY <1>1
  <2>2. ~(y < x)
    BY <2>1, LessThan, Zenon
  <2>3. x \in Nat /\ y \in Nat
    BY <2>1, Zenon
  <2> QED
    BY <2>2, <2>3
<1> QED
  BY <1>2

-----------------------------------------------------------------------------
\* Division with remainder, of a natural number by a positive one.
LEMMA ModSmall == ASSUME NEW n \in Nat \ {0}, NEW a \in Nat, a < n PROVE a % n = a
  OBVIOUS

LEMMA DivMod ==
    ASSUME NEW n \in Nat \ {0}, NEW a \in Nat
    PROVE  a = n * (a \div n) + (a % n) /\ (a \div n) \in Nat /\ a % n \in 0..(n - 1)
  OBVIOUS

LEMMA ModUnique ==
    ASSUME NEW n \in Nat \ {0}, NEW q \in Nat, NEW r \in Nat, r < n
    PROVE  (n * q + r) % n = r
  OBVIOUS

LEMMA DivIs ==
    ASSUME NEW n \in Nat \ {0}, NEW q \in Nat, NEW r \in Nat, r < n
    PROVE  (n * q + r) \div n = q
  OBVIOUS

\* The remainder of a number that counts up.
LEMMA ModNext ==
    ASSUME NEW n \in Nat \ {0}, NEW a \in Nat
    PROVE  (a + 1) % n = IF (a % n) + 1 = n THEN 0 ELSE (a % n) + 1
<1> DEFINE q == a \div n
           r == a % n
<1>1. a = n * q + r /\ q \in Nat /\ r \in 0..(n - 1)
  BY DivMod
<1> HIDE DEF q, r
<1>2. CASE r + 1 = n
  <2>1. a + 1 = n * q + n
    BY <1>1, <1>2
  <2>2. n * (q + 1) = n * q + n
    BY <1>1
  <2>3. a + 1 = n * (q + 1) + 0
    BY <1>1, <2>1, <2>2
  <2>4. (n * (q + 1) + 0) % n = 0
    BY <1>1, ModUnique
  <2> QED
    BY <1>2, <2>3, <2>4 DEF r
<1>3. CASE r + 1 # n
  <2>1. a + 1 = n * q + (r + 1)
    BY <1>1
  <2>2. r + 1 \in Nat /\ r + 1 < n
    BY <1>1, <1>3
  <2>3. (n * q + (r + 1)) % n = r + 1
    BY <1>1, <2>2, ModUnique
  <2> QED
    BY <1>3, <2>1, <2>3 DEF r
<1> QED
  BY <1>2, <1>3

\* Quotient and remainder are unique.
LEMMA DivUnique ==
    ASSUME NEW n \in Nat \ {0}, NEW p \in Nat, NEW r \in Nat, r < n, NEW q \in Nat, NEW s \in Nat, s < n,
           n * p + r = n * q + s
    PROVE  p = q /\ r = s
<1>1. (n * p + r) % n = r /\ (n * q + s) % n = s
  BY ModUnique
<1>2. r = s
  BY <1>1
<1>3. n * p \in Nat /\ n * q \in Nat /\ n * p = n * q
  BY <1>2
<1>4. p = q
  BY <1>3
<1> QED
  BY <1>2, <1>4

\* There are k numbers with one remainder among the first k times n.
LEMMA OneInEvery ==
    ASSUME NEW n \in Nat \ {0}, NEW k \in Nat, NEW r \in 1..n
    PROVE  LET S == {n * q + r : q \in 0..(k - 1)}
           IN  IsFiniteSet(S) /\ Cardinality(S) = k
<1> DEFINE Q == 0..(k - 1)
           S == {n * q + r : q \in Q}
           f == [q \in Q |-> n * q + r]
<1>1. IsFiniteSet(Q) /\ Cardinality(Q) = k
  BY FS_Interval
<1>2. f \in [Q -> S]
  OBVIOUS
<1>3. ASSUME NEW p \in Q, NEW q \in Q, f[p] = f[q]
      PROVE  p = q
  <2>1. p \in Nat /\ q \in Nat /\ r - 1 \in Nat /\ r - 1 < n /\ n * p \in Nat /\ n * q \in Nat
    OBVIOUS
  <2>2. n * p + r = n * q + r
    BY <1>3
  <2>3. n * p + (r - 1) = n * q + (r - 1)
    BY <2>1, <2>2
  <2> QED
    BY <2>1, <2>3, DivUnique
<1>4. \A s \in S : \E q \in Q : f[q] = s
  OBVIOUS
<1> HIDE DEF Q, S, f
<1>5. f \in Bijection(Q, S)
  BY <1>2, <1>3, <1>4 DEF Bijection, Injection, IsInjective, Surjection
<1>6. ExistsBijection(Q, S)
  BY <1>5 DEF ExistsBijection
<1> QED
  BY <1>1, <1>6, FS_Bijection DEF S, Q

\* Numbers of one remainder are followed by numbers of one remainder.
LEMMA ModSuccessors ==
    ASSUME NEW n \in Nat \ {0}, NEW a \in Nat, NEW b \in Nat, a % n = b % n
    PROVE  (a + 1) % n = (b + 1) % n
<1>1. (a + 1) % n = IF (a % n) + 1 = n THEN 0 ELSE (a % n) + 1
  BY ModNext
<1>2. (b + 1) % n = IF (b % n) + 1 = n THEN 0 ELSE (b % n) + 1
  BY ModNext
<1> QED
  BY <1>1, <1>2

\* Of the first k numbers, those that fall on the place r of a round of n.
LEMMA TimesInTurn ==
    ASSUME NEW n \in Nat \ {0}, NEW k \in Nat, NEW r \in 1..n, r <= k
    PROVE  Cardinality({i \in 1..k : ((i - 1) % n) + 1 = r}) = ((k - r) \div n) + 1
<1> DEFINE d == (k - r) \div n
           E == {i \in 1..k : ((i - 1) % n) + 1 = r}
           S == {n * q + r : q \in 0..((d + 1) - 1)}
<1>1. k - r \in Nat /\ r - 1 \in Nat /\ r - 1 < n
  OBVIOUS
<1>2. PICK s \in 0..(n - 1) : d \in Nat /\ k - r = n * d + s
  BY <1>1, DivMod
<1> HIDE DEF d
<1>3. n * d \in Nat
  BY <1>2
<1>4. ASSUME NEW i \in E
      PROVE  i \in S
  <2>1. i \in 1..k /\ (i - 1) % n = r - 1 /\ i - 1 \in Nat
    OBVIOUS
  <2> DEFINE q == (i - 1) \div n
  <2>2. i - 1 = n * q + (r - 1) /\ q \in Nat
    BY <2>1, DivMod
  <2> HIDE DEF q, E
  <2>3. ~(d < q)
    <3>1. SUFFICES ASSUME d < q
                   PROVE  FALSE
      OBVIOUS
    <3>2. PICK t \in Nat : q = d + 1 + t
      <4>1. q - d - 1 \in Nat /\ q = d + 1 + (q - d - 1)
        BY <1>2, <2>2, <3>1
      <4> QED
        BY <4>1
    <3>3. n * (d + 1 + t) = n * d + n + n * t /\ n * t \in Nat
      BY <1>2, <3>2
    <3> QED
      BY <1>2, <1>3, <2>1, <2>2, <3>2, <3>3
  <2>4. q \in 0..((d + 1) - 1) /\ i = n * q + r
    <3>1. n * q \in Nat
      BY <2>2
    <3> QED
      BY <1>2, <2>1, <2>2, <2>3, <3>1
  <2> QED
    BY <2>4
<1>5. ASSUME NEW i \in S
      PROVE  i \in E
  <2>1. PICK q \in 0..((d + 1) - 1) : i = n * q + r
    OBVIOUS
  <2>2. PICK t \in Nat : d = q + t
    <3>1. d - q \in Nat /\ d = q + (d - q)
      BY <1>2, <2>1
    <3> QED
      BY <3>1
  <2>3. n * (q + t) = n * q + n * t /\ n * q \in Nat /\ n * t \in Nat /\ q \in Nat
    BY <2>1, <2>2
  <2>4. (n * q + (r - 1)) % n = r - 1
    BY <1>1, <2>3, ModUnique
  <2> HIDE DEF S
  <2>5. i - 1 = n * q + (r - 1) /\ i \in 1..k
    BY <1>1, <1>2, <2>1, <2>2, <2>3
  <2> QED
    BY <2>4, <2>5
<1>6. E = S
  BY <1>4, <1>5
<1>7. Cardinality(S) = d + 1
  <2> DEFINE k1 == d + 1
  <2>1. k1 \in Nat
    BY <1>2
  <2> HIDE DEF k1, E
  <2>2. Cardinality({n * q + r : q \in 0..(k1 - 1)}) = k1
    BY <2>1, OneInEvery
  <2> QED
    BY <2>2 DEF k1
<1> QED
  BY <1>6, <1>7 DEF d

-----------------------------------------------------------------------------
\* The rank of an element is a position in the sequence.
LEMMA RankType ==
    ASSUME NEW S, IsFiniteSet(S), S \subseteq Int, NEW i \in S
    PROVE  Rank(S, i) \in 1..Cardinality(S) /\ Cardinality(S) \in Nat
<1> DEFINE below == {h \in S : h <= i}
<1>1. /\ below \subseteq S /\ i \in below
  OBVIOUS
<1>2. IsFiniteSet(below) /\ Cardinality(below) <= Cardinality(S)
  BY <1>1, FS_Subset
<1>3. Cardinality(below) \in Nat /\ Cardinality(S) \in Nat /\ Cardinality(below) # 0
  BY <1>1, <1>2, FS_CardinalityType, FS_EmptySet
<1> QED
  BY <1>2, <1>3 DEF Rank

\* The lesser of two elements has the lesser rank.
LEMMA RankIncreases ==
    ASSUME NEW S, IsFiniteSet(S), S \subseteq Int, NEW i \in S, NEW j \in S, i < j
    PROVE  Rank(S, i) < Rank(S, j)
<1> DEFINE A == {h \in S : h <= i}
           B == {h \in S : h <= j}
<1>1. A \subseteq B /\ j \in B /\ j \notin A
  <2>1. \A h \in S : h \in Int
    OBVIOUS
  <2>2. \A h \in S : h <= i => h <= j
    BY <2>1
  <2>3. j <= j /\ ~(j <= i)
    BY <2>1
  <2> QED
    BY <2>2, <2>3
<1>2. IsFiniteSet(B)
  BY FS_Subset
<1>3. Cardinality(A) <= Cardinality(B) /\ Cardinality(A) # Cardinality(B) /\ IsFiniteSet(A)
  BY <1>1, <1>2, FS_Subset
<1>4. Cardinality(A) \in Nat /\ Cardinality(B) \in Nat
  BY <1>2, <1>3, FS_CardinalityType
<1> QED
  BY <1>3, <1>4 DEF Rank

\* So an element is found at its rank.
LEMMA InOrderAtRank ==
    ASSUME NEW S, IsFiniteSet(S), S \subseteq Int, NEW i \in S
    PROVE  InOrder(S)[Rank(S, i)] = i
<1>1. Rank(S, i) \in 1..Cardinality(S)
  BY RankType
<1>2. ASSUME NEW j \in S, Rank(S, j) = Rank(S, i) PROVE j = i
  <2>1. Rank(S, i) \in Int /\ Rank(S, j) \in Int /\ i \in Int /\ j \in Int
    <3>1. Rank(S, i) \in 1..Cardinality(S) /\ Rank(S, j) \in 1..Cardinality(S)
      BY RankType
    <3> QED
      BY <3>1
  <2>2. i < j => Rank(S, i) < Rank(S, j)
    BY RankIncreases
  <2>3. j < i => Rank(S, j) < Rank(S, i)
    BY RankIncreases
  <2> QED
    BY <1>2, <2>1, <2>2, <2>3
<1> QED
  BY <1>1, <1>2 DEF InOrder

\* Every position is the rank of an element.
LEMMA EveryRank ==
    ASSUME NEW S, IsFiniteSet(S), S \subseteq Int, NEW k \in 1..Cardinality(S)
    PROVE  \E i \in S : Rank(S, i) = k
<1> DEFINE f == [i \in S |-> Rank(S, i)]
<1>1. f \in [S -> 1..Cardinality(S)]
  BY RankType
<1>2. ASSUME NEW i \in S, NEW j \in S, f[i] = f[j] PROVE i = j
  <2>1. Rank(S, i) = Rank(S, j)
    BY <1>2
  <2>2. InOrder(S)[Rank(S, i)] = i /\ InOrder(S)[Rank(S, j)] = j
    BY InOrderAtRank
  <2> QED
    BY <2>1, <2>2
<1>3. f \in Injection(S, 1..Cardinality(S))
  BY <1>1, <1>2 DEF Injection, IsInjective
<1>4. IsFiniteSet(1..Cardinality(S)) /\ Cardinality(1..Cardinality(S)) = Cardinality(S)
  BY FS_CardinalityType, FS_Interval
<1>5. f \in Surjection(S, 1..Cardinality(S))
  BY <1>3, <1>4, FS_Injection
<1> QED
  BY <1>5 DEF Surjection

\* What stands at a position is an element, of that rank.
LEMMA InOrderType ==
    ASSUME NEW S, IsFiniteSet(S), S \subseteq Int, NEW k \in 1..Cardinality(S)
    PROVE  InOrder(S)[k] \in S /\ Rank(S, InOrder(S)[k]) = k
  BY EveryRank DEF InOrder

\* A new element that is above all comes last, and the others stay in place.
LEMMA InOrderAppends ==
    ASSUME NEW S, IsFiniteSet(S), S \subseteq Int, NEW m \in Int, \A i \in S : i < m
    PROVE  LET T == S \union {m}
           IN  /\ IsFiniteSet(T) /\ Cardinality(S) \in Nat
               /\ Cardinality(T) = Cardinality(S) + 1
               /\ \A j \in 1..Cardinality(S) : InOrder(T)[j] = InOrder(S)[j]
               /\ InOrder(T)[Cardinality(S) + 1] = m
<1> DEFINE T == S \union {m}
<1>1. m \notin S
  OBVIOUS
<1>2. IsFiniteSet(T) /\ Cardinality(T) = Cardinality(S) + 1 /\ Cardinality(S) \in Nat
  BY <1>1, FS_AddElement, FS_CardinalityType
<1>3. ASSUME NEW i \in S PROVE Rank(T, i) = Rank(S, i)
  <2>1. ~(m <= i)
    OBVIOUS
  <2>2. {h \in T : h <= i} = {h \in S : h <= i}
    BY <2>1
  <2> QED
    BY <2>2 DEF Rank
<1>4. Rank(T, m) = Cardinality(S) + 1
  <2>1. \A h \in T : h <= m
    <3>1. m <= m /\ \A h \in S : h \in Int /\ h < m
      OBVIOUS
    <3>2. \A h \in S : h <= m
      BY <3>1
    <3> QED
      BY <3>1, <3>2
  <2>2. {h \in T : h <= m} = T
    BY <2>1, Zenon
  <2> QED
    BY <1>2, <2>2 DEF Rank
<1> HIDE DEF T
<1>5. T \subseteq Int /\ m \in T /\ S \subseteq T
  BY DEF T
<1>6. ASSUME NEW j \in 1..Cardinality(S) PROVE InOrder(T)[j] = InOrder(S)[j]
  <2>1. InOrder(S)[j] \in S /\ Rank(S, InOrder(S)[j]) = j
    BY InOrderType
  <2>2. InOrder(S)[j] \in T /\ Rank(T, InOrder(S)[j]) = j
    BY <1>3, <1>5, <2>1
  <2> QED
    BY <1>2, <1>5, <2>2, InOrderAtRank
<1>7. InOrder(T)[Cardinality(S) + 1] = m
  BY <1>2, <1>4, <1>5, InOrderAtRank
<1> QED
  BY <1>2, <1>6, <1>7 DEF T

-----------------------------------------------------------------------------
\* The entries at given places of a sequence are a sequence of its entries.
LEMMA AtPlacesType ==
    ASSUME NEW E, NEW s \in Seq(E), NEW S, S \subseteq DOMAIN s
    PROVE  /\ IsFiniteSet(S) /\ Cardinality(S) \in Nat /\ S \subseteq Int
           /\ AtPlaces(s, S) \in Seq(E) /\ Len(AtPlaces(s, S)) = Cardinality(S)
<1>1. IsFiniteSet(S) /\ Cardinality(S) \in Nat /\ S \subseteq Int
  <2>1. IsFiniteSet(DOMAIN s)
    BY FS_Interval
  <2> QED
    BY <2>1, FS_Subset, FS_CardinalityType
<1>2. \A j \in 1..Cardinality(S) : s[InOrder(S)[j]] \in E
  BY <1>1, InOrderType
<1> QED
  BY <1>1, <1>2 DEF AtPlaces

\* No places, no entries.
LEMMA AtPlacesNone ==
    ASSUME NEW s
    PROVE  AtPlaces(s, {}) = <<>>
<1>1. Cardinality({}) = 0
  BY FS_EmptySet
<1>2. AtPlaces(s, {}) = [j \in 1..0 |-> s[InOrder({})[j]]]
  BY <1>1 DEF AtPlaces
<1>3. 1..0 = {}
  OBVIOUS
<1>4. AtPlaces(s, {}) \in [{} -> {}]
  BY <1>2, <1>3, Zenon
<1> HIDE DEF AtPlaces
<1>5. AtPlaces(s, {}) \in [1..0 -> {}]
  BY <1>3, <1>4
<1>6. AtPlaces(s, {}) \in Seq({}) /\ Len(AtPlaces(s, {})) = 0
  BY <1>5
<1> QED
  BY <1>6

\* Of a sequence that grows, the entries at the places selected grow by the
\* new one if its place is selected, and are the same otherwise.
LEMMA AtPlacesGrows ==
    ASSUME NEW E, NEW s \in Seq(E), NEW e \in E, NEW S, S \subseteq DOMAIN s
    PROVE  LET m == Len(s) + 1 IN
           /\ AtPlaces(Append(s, e), S) = AtPlaces(s, S)
           /\ AtPlaces(Append(s, e), S \union {m}) = Append(AtPlaces(s, S), e)
<1> DEFINE m == Len(s) + 1
           t == Append(s, e)
           T == S \union {m}
           c == Cardinality(S)
<1>1. IsFiniteSet(S) /\ c \in Nat /\ S \subseteq Int
  BY AtPlacesType
<1>2. AtPlaces(s, S) \in Seq(E) /\ Len(AtPlaces(s, S)) = c
  BY AtPlacesType
<1>3. m \in Int /\ \A i \in S : i < m
  OBVIOUS
<1>4. /\ Cardinality(T) = c + 1
      /\ \A j \in 1..c : InOrder(T)[j] = InOrder(S)[j]
      /\ InOrder(T)[c + 1] = m
  BY <1>1, <1>3, InOrderAppends
<1>5. \A i \in DOMAIN s : t[i] = s[i]
  OBVIOUS
<1>6. t[m] = e
  OBVIOUS
<1>7. \A j \in 1..c : InOrder(S)[j] \in DOMAIN s
  BY <1>1, InOrderType
<1> HIDE DEF m, t, T, c
<1>8. AtPlaces(t, S) = AtPlaces(s, S)
  BY <1>5, <1>7 DEF AtPlaces, c
<1>9. DOMAIN AtPlaces(t, T) = 1..(c + 1)
  BY <1>4 DEF AtPlaces
<1>10. ASSUME NEW j \in 1..(c + 1) PROVE AtPlaces(t, T)[j] = Append(AtPlaces(s, S), e)[j]
  <2>1. CASE j \in 1..c
    <3>1. AtPlaces(t, T)[j] = s[InOrder(S)[j]]
      BY <1>4, <1>5, <1>7, <2>1 DEF AtPlaces
    <3>2. AtPlaces(s, S)[j] = s[InOrder(S)[j]]
      BY <2>1 DEF AtPlaces, c
    <3> QED
      BY <1>1, <1>2, <2>1, <3>1, <3>2
  <2>2. CASE j = c + 1
    <3>1. AtPlaces(t, T)[j] = e
      BY <1>4, <1>6, <2>2 DEF AtPlaces
    <3> QED
      BY <1>1, <1>2, <2>2, <3>1
  <2>3. j \in 1..c \/ j = c + 1
    <3>1. c \in Nat
      BY <1>1
    <3> QED
      BY <3>1
  <2> QED
    BY <2>1, <2>2, <2>3
<1>11. DOMAIN Append(AtPlaces(s, S), e) = 1..(c + 1)
  BY <1>1, <1>2
<1>12. AtPlaces(t, T) = Append(AtPlaces(s, S), e)
  <2> DEFINE F == AtPlaces(t, T)
             G == Append(AtPlaces(s, S), e)
  <2>1. F = [j \in 1..(c + 1) |-> F[j]]
    BY <1>4 DEF AtPlaces
  <2>2. G = [j \in 1..(c + 1) |-> G[j]]
    <3>1. G \in Seq(E) /\ Len(G) = c + 1
      BY <1>1, <1>2
    <3> HIDE DEF G
    <3> QED
      BY <3>1
  <2>3. \A j \in 1..(c + 1) : F[j] = G[j]
    BY <1>10
  <2> HIDE DEF F, G
  <2>4. F = G
    BY <2>1, <2>2, <2>3
  <2> QED
    BY <2>4 DEF F, G
<1> QED
  BY <1>8, <1>12 DEF m, t, T
=============================================================================
