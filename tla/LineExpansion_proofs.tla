------------------------ MODULE LineExpansion_proofs ------------------------
(***************************************************************************)
(* Proofs about LineExpansion, for every input file, every number of passes*)
(* and every length of line.                                               *)
(***************************************************************************)
EXTENDS LineExpansion, CommonLemmas, SequenceTheorems

-----------------------------------------------------------------------------
(***************************************************************************)
(* Sequences and sets of numbers.                                          *)
(***************************************************************************)
LEMMA ConcatIs ==
    ASSUME NEW S, NEW s \in Seq(S), NEW t \in Seq(S)
    PROVE  /\ s \o t \in Seq(S) /\ Len(s \o t) = Len(s) + Len(t)
           /\ \A p \in 1..Len(s) : (s \o t)[p] = s[p]
           /\ \A p \in 1..Len(t) : (s \o t)[Len(s) + p] = t[p]
           /\ \A p \in 1..Len(s \o t) : (s \o t)[p] = IF p <= Len(s) THEN s[p] ELSE t[p - Len(s)]
<1>1. s \o t \in Seq(S) /\ Len(s \o t) = Len(s) + Len(t) /\ Len(s) \in Nat /\ Len(t) \in Nat
  OBVIOUS
<1>2. ASSUME NEW p \in 1..Len(s) PROVE (s \o t)[p] = s[p]
  OBVIOUS
<1>3. ASSUME NEW p \in 1..Len(t) PROVE (s \o t)[Len(s) + p] = t[p]
  OBVIOUS
<1>4. ASSUME NEW p \in 1..Len(s \o t)
      PROVE  (s \o t)[p] = IF p <= Len(s) THEN s[p] ELSE t[p - Len(s)]
  <2>1. CASE p <= Len(s)
    BY <1>1, <1>2, <2>1
  <2>2. CASE p > Len(s)
    <3> DEFINE q == p - Len(s)
    <3>1. q \in 1..Len(t) /\ Len(s) + q = p
      BY <1>1, <2>2
    <3>2. (s \o t)[Len(s) + q] = t[q]
      BY <1>3, <3>1
    <3> QED
      BY <1>1, <2>2, <3>1, <3>2
  <2> QED
    BY <1>1, <2>1, <2>2
<1> QED
  BY <1>1, <1>2, <1>3, <1>4

\* A sequence with what is from one place to another replaced.
CanSplice(S, s, t, from, to) ==
    s \in Seq(S) /\ t \in Seq(S) /\ from \in 1..(Len(s) + 1) /\ to \in (from - 1)..Len(s)
IsSpliced(r, S, s, t, from, to) ==
    /\ r \in Seq(S) /\ Len(r) = Len(s) - (to - from + 1) + Len(t)
    /\ \A p \in 1..Len(r) :
         r[p] = IF p < from THEN s[p]
                ELSE IF p < from + Len(t) THEN t[p - from + 1]
                ELSE s[p - Len(t) + (to - from + 1)]

\* A sequence with some of its middle replaced, element by element.
LEMMA SplicedIs ==
    ASSUME NEW S, NEW s, NEW t, NEW from, NEW to, CanSplice(S, s, t, from, to)
    PROVE  IsSpliced(Spliced(s, from, to, t), S, s, t, from, to)
<1>0. s \in Seq(S) /\ t \in Seq(S) /\ from \in 1..(Len(s) + 1) /\ to \in (from - 1)..Len(s)
  BY DEF CanSplice
<1> USE <1>0
<1> DEFINE a == SubSeq(s, 1, from - 1)
           b == SubSeq(s, to + 1, Len(s))
<1>1. /\ a \in Seq(S) /\ Len(a) = from - 1
      /\ \A p \in 1..(from - 1) : a[p] = s[p]
  OBVIOUS
<1>2. /\ b \in Seq(S) /\ Len(b) = Len(s) - to
      /\ \A p \in 1..(Len(s) - to) : b[p] = s[p + to]
  OBVIOUS
<1> HIDE DEF a, b
<1> DEFINE c == a \o t
<1>3. /\ c \in Seq(S) /\ Len(c) = from - 1 + Len(t)
      /\ \A p \in 1..Len(c) : c[p] = IF p < from THEN s[p] ELSE t[p - from + 1]
  <2>1. /\ c \in Seq(S) /\ Len(c) = from - 1 + Len(t)
        /\ \A p \in 1..Len(c) : c[p] = IF p <= from - 1 THEN a[p] ELSE t[p - (from - 1)]
    <3>1. a \in Seq(S) /\ t \in Seq(S) /\ Len(a) = from - 1
      BY <1>1
    <3>2. /\ a \o t \in Seq(S) /\ Len(a \o t) = Len(a) + Len(t)
          /\ \A p \in 1..Len(a \o t) : (a \o t)[p] = IF p <= Len(a) THEN a[p] ELSE t[p - Len(a)]
      BY ONLY <3>1, ConcatIs
    <3> QED
      BY <3>1, <3>2
  <2>2. ASSUME NEW p \in 1..Len(c)
        PROVE  c[p] = IF p < from THEN s[p] ELSE t[p - from + 1]
    <3>1. CASE p < from
      BY <1>1, <2>1, <3>1
    <3>2. CASE ~(p < from)
      <4>1. p - (from - 1) = p - from + 1 /\ ~(p <= from - 1)
        BY <2>1, <3>2
      <4> QED
        BY <2>1, <3>2, <4>1
    <3> QED
      BY <3>1, <3>2
  <2> QED
    BY <2>1, <2>2
<1> DEFINE r == c \o b
<1> HIDE DEF c
<1>4. /\ r \in Seq(S) /\ Len(r) = Len(c) + Len(b)
      /\ \A p \in 1..Len(r) : r[p] = IF p <= Len(c) THEN c[p] ELSE b[p - Len(c)]
  <2>1. c \in Seq(S) /\ b \in Seq(S)
    BY <1>2, <1>3
  <2> QED
    BY <2>1, ConcatIs
<1>5. Spliced(s, from, to, t) = r
  BY DEF Spliced, a, b, c
<1> HIDE DEF r
<1>6. ASSUME NEW p \in 1..Len(r)
      PROVE  r[p] = IF p < from THEN s[p]
                    ELSE IF p < from + Len(t) THEN t[p - from + 1]
                    ELSE s[p - Len(t) + (to - from + 1)]
  <2>1. CASE p <= Len(c)
    <3>1. r[p] = c[p] /\ p \in 1..Len(c)
      BY <1>3, <1>4, <2>1
    <3>2. p < from + Len(t)
      BY <1>3, <2>1
    <3> QED
      BY <1>3, <3>1, <3>2
  <2>2. CASE p > Len(c)
    <3> DEFINE q == p - Len(c)
    <3>1. r[p] = b[q] /\ q \in 1..(Len(s) - to)
      BY <1>2, <1>3, <1>4, <2>2
    <3>2. ~(p < from) /\ ~(p < from + Len(t)) /\ q + to = p - Len(t) + (to - from + 1)
      BY <1>3, <2>2
    <3>3. b[q] = s[q + to]
      BY <1>2, <3>1
    <3> HIDE DEF q
    <3> QED
      BY <3>1, <3>2, <3>3
  <2> QED
    BY <1>3, <2>1, <2>2
<1>7. Len(r) = Len(s) - (to - from + 1) + Len(t)
  BY <1>2, <1>3, <1>4
<1> QED
  BY <1>4, <1>5, <1>6, <1>7 DEF IsSpliced

\* A finite set of integers has a largest, which is the Max of it.
LEMMA GreatestElement ==
    ASSUME NEW S, IsFiniteSet(S), S \subseteq Int, S # {}
    PROVE  Max(S) \in S /\ \A x \in S : x <= Max(S)
<1> DEFINE k == Cardinality(S)
<1>1. k \in 1..k
  <2>1. PICK x \in S : TRUE
    OBVIOUS
  <2>2. Rank(S, x) \in 1..k /\ k \in Nat
    BY <2>1, RankType
  <2> QED
    BY <2>2
<1>2. PICK m \in S : Rank(S, m) = k
  BY <1>1, EveryRank
<1>3. ASSUME NEW x \in S PROVE x <= m
  <2>1. Rank(S, x) \in 1..k /\ k \in Nat
    BY RankType
  <2>2. ASSUME m < x PROVE FALSE
    <3>1. Rank(S, m) < Rank(S, x)
      BY <2>2, RankIncreases
    <3> HIDE DEF k
    <3> QED
      BY <1>2, <2>1, <3>1
  <2> QED
    BY <2>2
<1>4. \E y \in S : \A x \in S : y >= x
  BY <1>3
<1> QED
  BY <1>4 DEF Max

\* The places of a set in order, one after the other.
LEMMA PlacesInOrder ==
    ASSUME NEW S, IsFiniteSet(S), S \subseteq Int
    PROVE  /\ Cardinality(S) \in Nat
           /\ \A a \in 1..Cardinality(S) : InOrder(S)[a] \in S
           /\ \A a, b \in 1..Cardinality(S) : a < b => InOrder(S)[a] < InOrder(S)[b]
           /\ \A i \in S : \E a \in 1..Cardinality(S) : InOrder(S)[a] = i
<1>1. Cardinality(S) \in Nat
  BY FS_CardinalityType
<1>2. ASSUME NEW a \in 1..Cardinality(S)
      PROVE  InOrder(S)[a] \in S /\ Rank(S, InOrder(S)[a]) = a
  BY InOrderType
<1>3. ASSUME NEW a \in 1..Cardinality(S), NEW b \in 1..Cardinality(S), a < b
      PROVE  InOrder(S)[a] < InOrder(S)[b]
  <2> DEFINE i == InOrder(S)[a]
             j == InOrder(S)[b]
  <2>1. i \in S /\ j \in S /\ Rank(S, i) = a /\ Rank(S, j) = b
    BY <1>2
  <2> HIDE DEF i, j
  <2>2. ASSUME j < i PROVE FALSE
    <3>1. Rank(S, j) < Rank(S, i)
      BY <2>1, <2>2, RankIncreases
    <3> QED
      BY <1>3, <2>1, <3>1
  <2>3. i # j
    BY <1>3, <2>1
  <2>4. i \in Int /\ j \in Int
    BY <2>1
  <2>5. i < j
    BY <2>2, <2>3, <2>4
  <2> QED
    BY <2>5 DEF i, j
<1>4. ASSUME NEW i \in S
      PROVE  \E a \in 1..Cardinality(S) : InOrder(S)[a] = i
  <2>1. Rank(S, i) \in 1..Cardinality(S) /\ InOrder(S)[Rank(S, i)] = i
    BY RankType, InOrderAtRank
  <2> QED
    BY <2>1
<1> QED
  BY <1>1, <1>2, <1>3, <1>4

\* What is selected from a sequence without repetition.
IsSelection(r, E, s, S) ==
    /\ r \in Seq(E) /\ Len(r) = Cardinality(S) /\ Len(r) \in Nat
    /\ ToSet(r) = {s[i] : i \in S}
    /\ IsInjective(s) => IsInjective(r)
    /\ \A a, b \in 1..Len(r) : a < b => \E i, j \in S : i < j /\ r[a] = s[i] /\ r[b] = s[j]

\* The elements at given places: from those places, in their order.
LEMMA Selected ==
    ASSUME NEW E, NEW s \in Seq(E), NEW S, S \subseteq DOMAIN s
    PROVE  IsSelection(AtPlaces(s, S), E, s, S)
<1> DEFINE r == AtPlaces(s, S)
           w == InOrder(S)
           k == Cardinality(S)
<1>1. IsFiniteSet(S) /\ S \subseteq Int /\ r \in Seq(E) /\ Len(r) = k /\ k \in Nat
  BY AtPlacesType
<1>2. /\ \A a \in 1..k : w[a] \in S
      /\ \A a, b \in 1..k : a < b => w[a] < w[b]
      /\ \A i \in S : \E a \in 1..k : w[a] = i
  BY <1>1, PlacesInOrder
<1>3. \A a \in 1..k : r[a] = s[w[a]]
  BY <1>1 DEF AtPlaces
<1> HIDE DEF r, w, k
<1>4. DOMAIN r = 1..k
  BY <1>1
<1>5. ToSet(r) = {s[i] : i \in S}
  BY <1>2, <1>3, <1>4 DEF ToSet
<1>6. ASSUME IsInjective(s) PROVE IsInjective(r)
  <2> SUFFICES ASSUME NEW a \in 1..k, NEW b \in 1..k, r[a] = r[b]
               PROVE  a = b
    BY <1>4 DEF IsInjective
  <2>1. w[a] = w[b]
    BY <1>2, <1>3, <1>6 DEF IsInjective
  <2>2. w[a] \in Int /\ w[b] \in Int
    BY <1>1, <1>2
  <2> QED
    BY <1>1, <1>2, <2>1, <2>2
<1>7. \A a, b \in 1..k : a < b => \E i, j \in S : i < j /\ r[a] = s[i] /\ r[b] = s[j]
  BY <1>2, <1>3
<1> QED
  BY <1>1, <1>5, <1>6, <1>7 DEF r, k, IsSelection

\* What is put into lists, and the lists that the parser builds.
EntryType == [name : Names, type : Types, depth : Nat]
NodeType == [id : Nat, name : Names, type : Types, depth : Nat, sampler : Names \union {None}]
FastLists == {L \in [list : Seq(NodeType), map : [Names -> Seq(Nat)]] : InStep(L)}

\* The set of a concatenation, and when it has no repetitions.
LEMMA JoinedSets ==
    ASSUME NEW E, NEW s \in Seq(E), NEW t \in Seq(E)
    PROVE  /\ ToSet(s \o t) = ToSet(s) \union ToSet(t)
           /\ IsInjective(s) /\ IsInjective(t) /\ ToSet(s) \intersect ToSet(t) = {} => IsInjective(s \o t)
<1> DEFINE r == s \o t
<1>1. /\ r \in Seq(E) /\ Len(r) = Len(s) + Len(t)
      /\ \A p \in 1..Len(s) : r[p] = s[p]
      /\ \A p \in 1..Len(t) : r[Len(s) + p] = t[p]
      /\ \A p \in 1..Len(r) : r[p] = IF p <= Len(s) THEN s[p] ELSE t[p - Len(s)]
  BY ConcatIs
<1> HIDE DEF r
<1>2. DOMAIN r = 1..Len(r) /\ DOMAIN s = 1..Len(s) /\ DOMAIN t = 1..Len(t) /\ Len(s) \in Nat /\ Len(t) \in Nat
  BY <1>1
<1>3. ASSUME NEW p \in 1..Len(r)
      PROVE  \/ p \in 1..Len(s) /\ r[p] = s[p]
             \/ (p - Len(s)) \in 1..Len(t) /\ r[p] = t[p - Len(s)]
  BY <1>1, <1>2
<1>4. ToSet(r) \subseteq ToSet(s) \union ToSet(t)
  BY <1>2, <1>3 DEF ToSet
<1>5. ToSet(s) \subseteq ToSet(r)
  <2>1. \A p \in 1..Len(s) : p \in 1..Len(r)
    BY <1>1, <1>2
  <2> QED
    BY <1>1, <1>2, <2>1 DEF ToSet
<1>6. ToSet(t) \subseteq ToSet(r)
  <2>1. \A p \in 1..Len(t) : Len(s) + p \in 1..Len(r)
    BY <1>1, <1>2
  <2> QED
    BY <1>1, <1>2, <2>1 DEF ToSet
<1>7. ASSUME IsInjective(s), IsInjective(t), ToSet(s) \intersect ToSet(t) = {},
             NEW p \in 1..Len(r), NEW q \in 1..Len(r), r[p] = r[q]
      PROVE  p = q
  <2>1. ASSUME NEW i \in 1..Len(s), NEW j \in 1..Len(t), s[i] = t[j] PROVE FALSE
    <3>1. s[i] \in ToSet(s) /\ t[j] \in ToSet(t)
      BY <1>2 DEF ToSet
    <3> QED
      BY <1>7, <2>1, <3>1
  <2>2. CASE p \in 1..Len(s) /\ r[p] = s[p] /\ q \in 1..Len(s) /\ r[q] = s[q]
    BY <1>2, <1>7, <2>2 DEF IsInjective
  <2>3. CASE (p - Len(s)) \in 1..Len(t) /\ r[p] = t[p - Len(s)] /\ (q - Len(s)) \in 1..Len(t) /\ r[q] = t[q - Len(s)]
    <3>1. p - Len(s) = q - Len(s)
      BY <1>2, <1>7, <2>3 DEF IsInjective
    <3> QED
      BY <1>2, <3>1
  <2> QED
    BY <1>3, <1>7, <2>1, <2>2, <2>3
<1>8. IsInjective(s) /\ IsInjective(t) /\ ToSet(s) \intersect ToSet(t) = {} => IsInjective(r)
  BY <1>2, <1>7 DEF IsInjective
<1> QED
  BY <1>4, <1>5, <1>6, <1>8 DEF r

-----------------------------------------------------------------------------
\* What it is to be a list in step with its index.
LEMMA FastListFacts ==
    ASSUME NEW L \in FastLists
    PROVE  /\ L.list \in Seq(NodeType) /\ L.map \in [Names -> Seq(Nat)] /\ InStep(L)
           /\ Len(L.list) \in Nat /\ DOMAIN L.list = 1..Len(L.list)
           /\ \A p \in 1..Len(L.list) : L.list[p] \in NodeType
           /\ \A n \in Names : L.map[n] \in Seq(Nat) /\ Len(L.map[n]) \in Nat
                                 /\ DOMAIN L.map[n] = 1..Len(L.map[n])
<1>1. L.list \in Seq(NodeType) /\ L.map \in [Names -> Seq(Nat)] /\ InStep(L)
  BY DEF FastLists
<1>2. \A n \in Names : L.map[n] \in Seq(Nat)
  BY <1>1
<1> QED
  BY <1>1, <1>2

\* An empty FastList is in step.
LEMMA EmptyIsFastList == Empty \in FastLists
<1>1. Empty.list = <<>> /\ Empty.map = [n \in Names |-> <<>>] /\ Empty \in [list : Seq(NodeType), map : [Names -> Seq(Nat)]]
  BY DEF Empty
<1>2. \A n \in Names : Empty.map[n] = <<>> /\ ToSet(Empty.map[n]) = {} /\ IsInjective(Empty.map[n])
  BY <1>1 DEF ToSet, IsInjective
<1>3. {Empty.list[p].id : p \in 1..Len(Empty.list)} = {}
  BY <1>1
<1>4. \A n \in Names : {Empty.list[p].id : p \in {q \in 1..Len(Empty.list) : Empty.list[q].name = n}} = {}
  BY <1>1
<1>5. \A p, q \in 1..Len(Empty.list) : Empty.list[p].id = Empty.list[q].id => p = q
  BY <1>1
<1> QED
  BY <1>1, <1>2, <1>4, <1>5 DEF FastLists, InStep

\* No node has a number above the last.
LEMMA LastIdIs ==
    ASSUME NEW L \in FastLists
    PROVE  LastId(L) \in Nat /\ \A p \in 1..Len(L.list) : L.list[p].id <= LastId(L)
<1> DEFINE S == {0} \union Ids(L)
           f == [p \in 1..Len(L.list) |-> L.list[p].id]
<1>1. \A p \in 1..Len(L.list) : L.list[p].id \in Nat
  BY FastListFacts DEF NodeType
<1>2. IsFiniteSet(1..Len(L.list))
  BY FastListFacts, FS_Interval
<1>3. f \in Surjection(1..Len(L.list), Ids(L))
  BY DEF Surjection, Ids
<1> HIDE DEF f
<1>5. IsFiniteSet(Ids(L))
  BY <1>2, <1>3, FS_Surjection
<1>6. IsFiniteSet({0}) /\ IsFiniteSet(S)
  BY <1>5, FS_Singleton, FS_Union
<1>7. S \subseteq Nat /\ 0 \in S
  BY <1>1 DEF Ids
<1>8. Max(S) \in S /\ \A x \in S : x <= Max(S)
  <2>1. S \subseteq Int /\ S # {}
    BY <1>7
  <2> HIDE DEF S
  <2> QED
    BY <1>6, <2>1, GreatestElement
<1>9. \A p \in 1..Len(L.list) : L.list[p].id \in S
  BY DEF Ids
<1>10. LastId(L) = Max(S)
  BY DEF LastId
<1> HIDE DEF S
<1> QED
  BY <1>7, <1>8, <1>9, <1>10

\* The nodes made for entries: new numbers, no sampler.
LEMMA NewNodesAre ==
    ASSUME NEW L \in FastLists, NEW es \in Seq(EntryType)
    PROVE  /\ NewIds(L, es) \in Seq(Nat) /\ Len(NewIds(L, es)) = Len(es)
           /\ \A i \in 1..Len(es) : NewIds(L, es)[i] = LastId(L) + i
           /\ NewNodes(L, es) \in Seq(NodeType) /\ Len(NewNodes(L, es)) = Len(es)
           /\ \A i \in 1..Len(es) :
                LET e == NewNodes(L, es)[i]
                IN  /\ e.id = LastId(L) + i /\ e.name = es[i].name /\ e.type = es[i].type
                    /\ e.depth = es[i].depth /\ e.sampler = None
<1> DEFINE Made(i) == [id |-> NewIds(L, es)[i], name |-> es[i].name, type |-> es[i].type,
                       depth |-> es[i].depth, sampler |-> None]
<1>1. Len(es) \in Nat /\ LastId(L) \in Nat /\ \A i \in 1..Len(es) : es[i] \in EntryType
  BY LastIdIs
<1>2. /\ NewIds(L, es) \in Seq(Nat) /\ Len(NewIds(L, es)) = Len(es)
      /\ \A i \in 1..Len(es) : NewIds(L, es)[i] = LastId(L) + i
  <2>1. \A i \in 1..Len(es) : LastId(L) + i \in Nat
    BY <1>1
  <2> QED
    BY <1>1, <2>1 DEF NewIds
<1>3. \A i \in 1..Len(es) : Made(i) \in NodeType
  <2> SUFFICES ASSUME NEW i \in 1..Len(es) PROVE Made(i) \in NodeType
    OBVIOUS
  <2>1. es[i].name \in Names /\ es[i].type \in Types /\ es[i].depth \in Nat
    BY <1>1 DEF EntryType
  <2>2. NewIds(L, es)[i] \in Nat
    BY <1>1, <1>2
  <2> QED
    BY <2>1, <2>2 DEF NodeType
<1>4. NewNodes(L, es) = [i \in 1..Len(es) |-> Made(i)]
  BY DEF NewNodes
<1>5. \A i \in 1..Len(es) : NewNodes(L, es)[i] = Made(i)
  BY <1>4
<1>6. NewNodes(L, es) \in Seq(NodeType) /\ Len(NewNodes(L, es)) = Len(es)
  BY <1>1, <1>3, <1>4
<1>7. ASSUME NEW i \in 1..Len(es)
      PROVE  LET e == NewNodes(L, es)[i]
             IN  /\ e.id = LastId(L) + i /\ e.name = es[i].name /\ e.type = es[i].type
                 /\ e.depth = es[i].depth /\ e.sampler = None
  <2>1. NewNodes(L, es)[i] = Made(i) /\ NewIds(L, es)[i] = LastId(L) + i
    BY <1>2, <1>5
  <2> QED
    BY <2>1
<1> QED
  BY <1>2, <1>6, <1>7

\* What entries put into a list before a place make of it.
Inserted(M, L, pos, es) ==
    /\ M \in FastLists /\ Len(M.list) = Len(L.list) + Len(es)
    /\ \A p \in 1..Len(M.list) :
         M.list[p] = IF p < pos THEN L.list[p]
                     ELSE IF p < pos + Len(es) THEN NewNodes(L, es)[p - pos + 1]
                     ELSE L.list[p - Len(es)]
    /\ \A n \in Names : M.map[n] = L.map[n] \o NewIdsOf(L, es, n)

\* An insertion keeps a list in step, and what it puts where (FastList::insert).
LEMMA InsertAllIs ==
    ASSUME NEW L \in FastLists, NEW pos \in 1..(Len(L.list) + 1), NEW es \in Seq(EntryType)
    PROVE  Inserted(InsertAll(L, pos, es), L, pos, es)
<1> DEFINE M == InsertAll(L, pos, es)
           k == Len(es)
           m == Len(L.list)
           new == NewNodes(L, es)
           top == LastId(L)
<1>1. /\ M.list = Spliced(L.list, pos, pos - 1, new)
      /\ M.map = [n \in Names |-> L.map[n] \o NewIdsOf(L, es, n)]
      /\ M = [list |-> M.list, map |-> M.map]
  BY DEF InsertAll
<1>2. /\ L.list \in Seq(NodeType) /\ L.map \in [Names -> Seq(Nat)] /\ InStep(L) /\ m \in Nat
      /\ \A p \in 1..m : L.list[p] \in NodeType
      /\ \A n \in Names : L.map[n] \in Seq(Nat)
  BY FastListFacts
<1>3. top \in Nat /\ \A p \in 1..m : L.list[p].id <= top
  BY LastIdIs
<1>4. /\ NewIds(L, es) \in Seq(Nat) /\ Len(NewIds(L, es)) = k /\ k \in Nat
      /\ \A i \in 1..k : NewIds(L, es)[i] = top + i
      /\ new \in Seq(NodeType) /\ Len(new) = k
      /\ \A i \in 1..k : new[i].id = top + i /\ new[i].name = es[i].name
  BY NewNodesAre
<1>5. /\ M.list \in Seq(NodeType) /\ Len(M.list) = m + k
      /\ \A p \in 1..Len(M.list) :
           M.list[p] = IF p < pos THEN L.list[p]
                       ELSE IF p < pos + k THEN new[p - pos + 1]
                       ELSE L.list[p - k]
  <2>1. pos - 1 \in (pos - 1)..Len(L.list) /\ (pos - 1) - pos + 1 = 0
    BY <1>2
  <2>2. CanSplice(NodeType, L.list, new, pos, pos - 1)
    BY <1>2, <1>4, <2>1 DEF CanSplice, m
  <2>3. IsSpliced(M.list, NodeType, L.list, new, pos, pos - 1)
    BY <1>1, <2>2, SplicedIs
  <2> HIDE DEF M, new, k
  <2> QED
    BY <1>2, <1>4, <2>1, <2>3 DEF IsSpliced
<1> HIDE DEF M, new, k, m, top
<1>6. /\ \A p \in 1..m : \E q \in 1..(m + k) : M.list[q] = L.list[p]
      /\ \A i \in 1..k : \E q \in 1..(m + k) : M.list[q] = new[i]
  <2>1. ASSUME NEW p \in 1..m PROVE \E q \in 1..(m + k) : M.list[q] = L.list[p]
    <3>1. CASE p < pos
      <4>1. p \in 1..(m + k) /\ M.list[p] = L.list[p]
        BY <1>2, <1>4, <1>5, <3>1
      <4> QED
        BY <4>1
    <3>2. CASE ~(p < pos)
      <4> DEFINE q == p + k
      <4>1. q \in 1..(m + k) /\ ~(q < pos) /\ ~(q < pos + k) /\ q - k = p
        BY <1>2, <1>4, <3>2
      <4> HIDE DEF q
      <4>2. M.list[q] = L.list[p]
        BY <1>5, <4>1
      <4> QED
        BY <4>1, <4>2
    <3> QED
      BY <3>1, <3>2
  <2>2. ASSUME NEW i \in 1..k PROVE \E q \in 1..(m + k) : M.list[q] = new[i]
    <3> DEFINE q == pos + i - 1
    <3>1. q \in 1..(m + k) /\ ~(q < pos) /\ q < pos + k /\ q - pos + 1 = i
      BY <1>2, <1>4 DEF m
    <3>2. M.list[q] = new[i]
      BY <1>5, <3>1
    <3> QED
      BY <3>1, <3>2
  <2> QED
    BY <2>1, <2>2
<1>7. ASSUME NEW q \in 1..(m + k)
      PROVE  \/ q < pos /\ q \in 1..m /\ M.list[q] = L.list[q]
             \/ q >= pos /\ q < pos + k /\ q - pos + 1 \in 1..k /\ M.list[q] = new[q - pos + 1]
             \/ q >= pos + k /\ q - k \in 1..m /\ M.list[q] = L.list[q - k]
  <2>1. M.list[q] = IF q < pos THEN L.list[q]
                       ELSE IF q < pos + k THEN new[q - pos + 1]
                       ELSE L.list[q - k]
    BY <1>5
  <2> QED
    BY <1>2, <1>4, <2>1 DEF m
<1>8. ASSUME NEW p \in 1..m, NEW i \in 1..k, L.list[p].id = new[i].id PROVE FALSE
  <2>1. L.list[p].id \in Nat
    BY <1>2 DEF NodeType
  <2> QED
    BY <1>3, <1>4, <1>8, <2>1
<1>9. ASSUME NEW p \in 1..(m + k), NEW q \in 1..(m + k), M.list[p].id = M.list[q].id
      PROVE  p = q
  <2>1. \A i, j \in 1..m : L.list[i].id = L.list[j].id => i = j
    BY <1>2 DEF InStep, m
  <2>2. \A i, j \in 1..k : new[i].id = new[j].id => i = j
    BY <1>3, <1>4
  <2>3. k \in Nat /\ pos \in Nat /\ p \in Nat /\ q \in Nat
    BY <1>2, <1>4
  <2>0. /\ \/ q < pos /\ q \in 1..m /\ M.list[q] = L.list[q]
           \/ q >= pos /\ q < pos + k /\ q - pos + 1 \in 1..k /\ M.list[q] = new[q - pos + 1]
           \/ q >= pos + k /\ q - k \in 1..m /\ M.list[q] = L.list[q - k]
        /\ \A i \in 1..m, j \in 1..k : L.list[i].id # new[j].id
    BY <1>7, <1>8
  <2>4. CASE p >= pos /\ p < pos + k /\ p - pos + 1 \in 1..k /\ M.list[p] = new[p - pos + 1]
    <3>1. q >= pos /\ q < pos + k /\ q - pos + 1 \in 1..k /\ M.list[q] = new[q - pos + 1]
      BY <1>9, <2>0, <2>4
    <3>2. p - pos + 1 = q - pos + 1
      BY <1>9, <2>2, <2>4, <3>1
    <3> QED
      BY <2>3, <3>2
  <2>5. CASE p < pos /\ p \in 1..m /\ M.list[p] = L.list[p]
    <3>1. \/ q < pos /\ q \in 1..m /\ M.list[q] = L.list[q]
          \/ q >= pos + k /\ q - k \in 1..m /\ M.list[q] = L.list[q - k]
      BY <1>9, <2>0, <2>5
    <3>2. p = q \/ (q >= pos + k /\ p = q - k)
      <4>1. ASSUME q \in 1..m, M.list[q] = L.list[q] PROVE p = q
        BY <1>9, <2>1, <2>5, <4>1
      <4>2. ASSUME q - k \in 1..m, M.list[q] = L.list[q - k] PROVE p = q - k
        BY <1>9, <2>1, <2>5, <4>2
      <4> QED
        BY <3>1, <4>1, <4>2
    <3> QED
      BY <2>3, <2>5, <3>2
  <2>6. CASE p >= pos + k /\ p - k \in 1..m /\ M.list[p] = L.list[p - k]
    <3>1. \/ q < pos /\ q \in 1..m /\ M.list[q] = L.list[q]
          \/ q >= pos + k /\ q - k \in 1..m /\ M.list[q] = L.list[q - k]
      BY <1>9, <2>0, <2>6
    <3>2. (q < pos /\ p - k = q) \/ p - k = q - k
      BY <1>9, <2>1, <2>6, <3>1
    <3> QED
      BY <2>3, <2>6, <3>2
  <2> QED
    BY <1>7, <2>4, <2>5, <2>6
<1>10. ASSUME NEW n \in Names
       PROVE  /\ M.map[n] \in Seq(Nat) /\ IsInjective(M.map[n])
              /\ ToSet(M.map[n]) = {M.list[p].id : p \in {q \in 1..(m + k) : M.list[q].name = n}}
  <2> DEFINE S == {i \in 1..k : es[i].name = n}
             old == L.map[n]
             add == NewIdsOf(L, es, n)
  <2>1. S \subseteq DOMAIN NewIds(L, es)
    BY <1>4
  <2>2. add = AtPlaces(NewIds(L, es), S)
    BY DEF NewIdsOf, k
  <2>3. IsInjective(NewIds(L, es))
    <3>1. DOMAIN NewIds(L, es) = 1..k
      BY <1>4
    <3>2. \A i, j \in 1..k : top + i = top + j => i = j
      BY <1>3
    <3> QED
      BY <1>4, <3>1, <3>2 DEF IsInjective
  <2> HIDE DEF S, add
  <2>4. add \in Seq(Nat) /\ IsInjective(add) /\ ToSet(add) = {NewIds(L, es)[i] : i \in S}
    BY <1>4, <2>1, <2>2, <2>3, Selected DEF IsSelection
  <2>5. old \in Seq(Nat) /\ IsInjective(old)
        /\ ToSet(old) = {L.list[p].id : p \in {q \in 1..m : L.list[q].name = n}}
    BY <1>2 DEF InStep, m
  <2>6. ToSet(add) = {new[i].id : i \in S}
    <3>1. \A i \in S : NewIds(L, es)[i] = new[i].id
      BY <1>4 DEF S
    <3> QED
      BY <2>4, <3>1
  <2> HIDE DEF old
  <2>7. ToSet(old) \intersect ToSet(add) = {}
    <3>1. \A i \in S : i \in 1..k
      BY DEF S
    <3> QED
      BY <1>8, <2>5, <2>6, <3>1
  <2>8. M.map[n] = old \o add
    BY <1>1 DEF old, add
  <2>9. M.map[n] \in Seq(Nat) /\ IsInjective(M.map[n]) /\ ToSet(M.map[n]) = ToSet(old) \union ToSet(add)
    <3>1. old \in Seq(Nat) /\ add \in Seq(Nat)
      BY <2>4, <2>5
    <3>2. /\ ToSet(old \o add) = ToSet(old) \union ToSet(add)
          /\ IsInjective(old) /\ IsInjective(add) /\ ToSet(old) \intersect ToSet(add) = {} => IsInjective(old \o add)
      BY <3>1, JoinedSets
    <3>3. old \o add \in Seq(Nat)
      BY <3>1
    <3> QED
      BY <2>4, <2>5, <2>7, <2>8, <3>2, <3>3
  <2>10. ASSUME NEW p \in 1..(m + k), M.list[p].name = n
         PROVE  M.list[p].id \in ToSet(old) \union ToSet(add)
    <3>1. CASE p >= pos /\ p < pos + k /\ p - pos + 1 \in 1..k /\ M.list[p] = new[p - pos + 1]
      <4>1. p - pos + 1 \in S
        BY <1>4, <2>10, <3>1 DEF S
      <4> QED
        BY <2>6, <3>1, <4>1
    <3>2. CASE p \in 1..m /\ M.list[p] = L.list[p]
      BY <2>5, <2>10, <3>2
    <3>3. CASE p - k \in 1..m /\ M.list[p] = L.list[p - k]
      BY <2>5, <2>10, <3>3
    <3> QED
      BY <1>7, <3>1, <3>2, <3>3
  <2>11. ASSUME NEW x \in ToSet(old) \union ToSet(add)
         PROVE  \E p \in 1..(m + k) : M.list[p].name = n /\ M.list[p].id = x
    <3>1. CASE x \in ToSet(old)
      BY <1>6, <2>5, <3>1
    <3>2. CASE x \in ToSet(add)
      <4>1. \A i \in S : i \in 1..k /\ new[i].name = n
        BY <1>4 DEF S
      <4> QED
        BY <1>6, <2>6, <3>2, <4>1
    <3> QED
      BY <3>1, <3>2
  <2> QED
    BY <2>9, <2>10, <2>11
<1>11. M.map \in [Names -> Seq(Nat)]
  BY <1>1, <1>10
<1>12. InStep(M)
  BY <1>5, <1>9, <1>10 DEF InStep
<1>13. M \in FastLists
  BY <1>1, <1>5, <1>11, <1>12 DEF FastLists
<1> QED
  BY <1>1, <1>5, <1>13 DEF Inserted, M, m, k, new

\* What is left of a list without what is from one place to another.
Erased(M, L, from, to) ==
    /\ M \in FastLists /\ Len(M.list) = Len(L.list) - (to - from + 1)
    /\ \A p \in 1..Len(M.list) :
         M.list[p] = IF p < from THEN L.list[p] ELSE L.list[p + (to - from + 1)]
    /\ \A n \in Names : \A k, l \in 1..Len(M.map[n]) :
         k < l => \E i, j \in 1..Len(L.map[n]) :
                     i < j /\ M.map[n][k] = L.map[n][i] /\ M.map[n][l] = L.map[n][j]

\* An erasure keeps a list in step, and what it leaves (FastList::erase).
LEMMA EraseRangeIs ==
    ASSUME NEW L \in FastLists, NEW from \in 1..(Len(L.list) + 1), NEW to \in (from - 1)..Len(L.list)
    PROVE  Erased(EraseRange(L, from, to), L, from, to)
<1> DEFINE M == EraseRange(L, from, to)
           m == Len(L.list)
           d == to - from + 1
           gone == {L.list[p].id : p \in from..to}
           Kept(n) == {k \in 1..Len(L.map[n]) : L.map[n][k] \notin gone}
<1>1. /\ M.list = Spliced(L.list, from, to, <<>>)
      /\ M.map = [n \in Names |-> AtPlaces(L.map[n], Kept(n))]
      /\ M = [list |-> M.list, map |-> M.map]
  BY DEF EraseRange
<1>2. /\ L.list \in Seq(NodeType) /\ InStep(L) /\ m \in Nat
      /\ \A p \in 1..m : L.list[p] \in NodeType
      /\ \A n \in Names : L.map[n] \in Seq(Nat) /\ DOMAIN L.map[n] = 1..Len(L.map[n])
  BY FastListFacts
<1>3. from \in Nat \ {0} /\ to \in Nat /\ d \in 0..m /\ from <= m + 1 /\ to <= m /\ to - from + 1 = d /\ from - 1 <= to
  BY <1>2
<1> HIDE DEF M, m, d, gone
<1>4. /\ M.list \in Seq(NodeType) /\ Len(M.list) = m - d /\ m - d \in Nat
      /\ \A p \in 1..(m - d) : M.list[p] = IF p < from THEN L.list[p] ELSE L.list[p + d]
  <2>1. <<>> \in Seq(NodeType) /\ Len(<<>>) = 0
    OBVIOUS
  <2>2. CanSplice(NodeType, L.list, <<>>, from, to)
    BY <1>2, <2>1 DEF CanSplice
  <2>3. IsSpliced(M.list, NodeType, L.list, <<>>, from, to)
    BY <1>1, <2>2, SplicedIs
  <2>4. /\ M.list \in Seq(NodeType) /\ Len(M.list) = m - d + 0
        /\ \A p \in 1..Len(M.list) :
              M.list[p] = IF p < from THEN L.list[p]
                          ELSE IF p < from + 0 THEN <<>>[p - from + 1]
                          ELSE L.list[p - 0 + d]
    BY <1>3, <2>1, <2>3 DEF IsSpliced, m
  <2> QED
    BY <1>2, <1>3, <2>4
<1>5. ASSUME NEW q \in 1..(m - d)
      PROVE  \/ q < from /\ q \in 1..m /\ M.list[q] = L.list[q]
             \/ q >= from /\ q + d \in 1..m /\ q + d > to /\ M.list[q] = L.list[q + d]
  BY <1>2, <1>3, <1>4
<1>6. ASSUME NEW p \in 1..m, p \notin from..to
      PROVE  \E q \in 1..(m - d) : M.list[q] = L.list[p]
  <2>1. CASE p < from
    <3>1. p \in 1..(m - d)
      BY <1>2, <1>3, <2>1
    <3> QED
      BY <1>4, <2>1, <3>1
  <2>2. CASE p > to
    <3> DEFINE q == p - d
    <3>1. q \in 1..(m - d) /\ ~(q < from) /\ q + d = p
      BY <1>2, <1>3, <2>2
    <3> HIDE DEF q
    <3>2. M.list[q] = L.list[p]
      BY <1>4, <3>1
    <3> QED
      BY <3>1, <3>2
  <2> QED
    BY <1>2, <1>3, <1>6, <2>1, <2>2
<1>7. \A i, j \in 1..m : L.list[i].id = L.list[j].id => i = j
  BY <1>2 DEF InStep, m
<1>8. ASSUME NEW p \in 1..(m - d), NEW q \in 1..(m - d), M.list[p].id = M.list[q].id
      PROVE  p = q
  <2>1. p \in Nat /\ q \in Nat
    OBVIOUS
  <2>2. \/ q < from /\ q \in 1..m /\ M.list[q] = L.list[q]
        \/ q >= from /\ q + d \in 1..m /\ q + d > to /\ M.list[q] = L.list[q + d]
    BY <1>5
  <2>3. CASE p < from /\ p \in 1..m /\ M.list[p] = L.list[p]
    <3>1. CASE q \in 1..m /\ M.list[q] = L.list[q]
      BY <1>7, <1>8, <2>3, <3>1
    <3>2. CASE q >= from /\ q + d \in 1..m /\ M.list[q] = L.list[q + d]
      <4>1. p = q + d
        BY <1>7, <1>8, <2>3, <3>2
      <4> QED
        BY <1>3, <2>1, <2>3, <3>2, <4>1
    <3> QED
      BY <2>2, <3>1, <3>2
  <2>4. CASE p >= from /\ p + d \in 1..m /\ M.list[p] = L.list[p + d]
    <3>1. CASE q < from /\ q \in 1..m /\ M.list[q] = L.list[q]
      <4>1. p + d = q
        BY <1>7, <1>8, <2>4, <3>1
      <4> QED
        BY <1>3, <2>1, <2>4, <3>1, <4>1
    <3>2. CASE q + d \in 1..m /\ M.list[q] = L.list[q + d]
      <4>1. p + d = q + d
        BY <1>7, <1>8, <2>4, <3>2
      <4> QED
        BY <1>3, <2>1, <4>1
    <3> QED
      BY <2>2, <3>1, <3>2
  <2> QED
    BY <1>5, <2>3, <2>4
<1>9. ASSUME NEW n \in Names
      PROVE  /\ M.map[n] \in Seq(Nat) /\ IsInjective(M.map[n])
             /\ ToSet(M.map[n]) = {M.list[p].id : p \in {q \in 1..(m - d) : M.list[q].name = n}}
             /\ \A k, l \in 1..Len(M.map[n]) :
                  k < l => \E i, j \in 1..Len(L.map[n]) :
                              i < j /\ M.map[n][k] = L.map[n][i] /\ M.map[n][l] = L.map[n][j]
  <2> DEFINE K == Kept(n)
             old == L.map[n]
  <2>1. old \in Seq(Nat) /\ DOMAIN old = 1..Len(old) /\ IsInjective(old)
        /\ ToSet(old) = {L.list[p].id : p \in {q \in 1..m : L.list[q].name = n}}
    BY <1>2 DEF InStep, m
  <2>2. M.map[n] = AtPlaces(old, K) /\ K \subseteq DOMAIN old
    BY <1>1, <2>1
  <2>3. \A k \in 1..Len(old) : k \in K <=> old[k] \notin gone
    OBVIOUS
  <2>4. \A k \in K : k \in 1..Len(old)
    OBVIOUS
  <2> HIDE DEF K, old
  <2>5. /\ M.map[n] \in Seq(Nat) /\ IsInjective(M.map[n]) /\ ToSet(M.map[n]) = {old[k] : k \in K}
        /\ \A a, b \in 1..Len(M.map[n]) :
             a < b => \E i, j \in K : i < j /\ M.map[n][a] = old[i] /\ M.map[n][b] = old[j]
    <3> DEFINE r == AtPlaces(old, K)
    <3>1. /\ r \in Seq(Nat) /\ ToSet(r) = {old[k] : k \in K}
          /\ IsInjective(old) => IsInjective(r)
          /\ \A a, b \in 1..Len(r) : a < b => \E i, j \in K : i < j /\ r[a] = old[i] /\ r[b] = old[j]
      <4>1. old \in Seq(Nat) /\ K \subseteq DOMAIN old
        BY <2>1, <2>2
      <4>2. IsSelection(r, Nat, old, K)
        BY <4>1, Selected
      <4> QED
        BY <4>2 DEF IsSelection
    <3>2. r = M.map[n]
      BY <2>2
    <3> HIDE DEF r
    <3> QED
      BY <2>1, <3>1, <3>2
  <2>6. ASSUME NEW x \in ToSet(M.map[n])
        PROVE  \E p \in 1..(m - d) : M.list[p].name = n /\ M.list[p].id = x
    <3>1. PICK k \in 1..Len(old) : x = old[k] /\ old[k] \notin gone
      BY <2>3, <2>4, <2>5
    <3>2. old[k] \in ToSet(old)
      BY <2>1 DEF ToSet
    <3>3. PICK p \in 1..m : L.list[p].name = n /\ L.list[p].id = x
      BY <2>1, <3>1, <3>2
    <3>4. p \notin from..to
      BY <3>1, <3>3 DEF gone
    <3>5. PICK q \in 1..(m - d) : M.list[q] = L.list[p]
      BY <1>6, <3>4
    <3> QED
      BY <3>3, <3>5
  <2>7. ASSUME NEW p \in 1..(m - d), M.list[p].name = n
        PROVE  M.list[p].id \in ToSet(M.map[n])
    <3>1. PICK r \in 1..m : M.list[p] = L.list[r] /\ r \notin from..to
      <4>1. CASE p < from /\ p \in 1..m /\ M.list[p] = L.list[p]
        <5>1. p \notin from..to
          BY <1>3, <4>1
        <5> QED
          BY <4>1, <5>1
      <4>2. CASE p >= from /\ p + d \in 1..m /\ p + d > to /\ M.list[p] = L.list[p + d]
        <5>1. p + d \notin from..to
          BY <1>3, <4>2
        <5> QED
          BY <4>2, <5>1
      <4> QED
        BY <1>5, <4>1, <4>2
    <3>2. L.list[r].id \in ToSet(old)
      BY <2>1, <2>7, <3>1
    <3>3. PICK k \in 1..Len(old) : old[k] = L.list[r].id
      BY <2>1, <3>2 DEF ToSet
    <3>4. L.list[r].id \notin gone
      <4> SUFFICES ASSUME NEW s \in from..to, L.list[r].id = L.list[s].id PROVE FALSE
        BY DEF gone
      <4>1. s \in 1..m
        BY <1>2, <1>3
      <4> QED
        BY <1>7, <3>1, <4>1
    <3>5. k \in K
      BY <2>3, <3>3, <3>4
    <3> QED
      BY <2>5, <3>1, <3>3, <3>5
  <2>8. ToSet(M.map[n]) = {M.list[p].id : p \in {q \in 1..(m - d) : M.list[q].name = n}}
    BY <2>6, <2>7
  <2>9. ASSUME NEW k \in 1..Len(M.map[n]), NEW l \in 1..Len(M.map[n]), k < l
        PROVE  \E i, j \in 1..Len(old) : i < j /\ M.map[n][k] = old[i] /\ M.map[n][l] = old[j]
    <3>1. PICK i \in K, j \in K : i < j /\ M.map[n][k] = old[i] /\ M.map[n][l] = old[j]
      BY <2>5, <2>9
    <3>2. i \in 1..Len(old) /\ j \in 1..Len(old)
      <4>1. K \subseteq 1..Len(old)
        BY <2>1, <2>2
      <4> HIDE DEF K, old
      <4> QED
        BY <4>1
    <3> QED
      BY <3>1, <3>2
  <2> QED
    BY <2>5, <2>8, <2>9 DEF old
<1>10. M.map \in [Names -> Seq(Nat)]
  BY <1>1, <1>9
<1>11. InStep(M)
  BY <1>4, <1>8, <1>9 DEF InStep
<1>12. M \in FastLists
  BY <1>1, <1>4, <1>10, <1>11 DEF FastLists
<1> QED
  BY <1>3, <1>4, <1>9, <1>12 DEF Erased, M, m

-----------------------------------------------------------------------------
\* One entry at the end.
LEMMA PushBackIs ==
    ASSUME NEW L \in FastLists, NEW e \in EntryType
    PROVE  LET M == PushBack(L, e) IN
           /\ M \in FastLists /\ Len(M.list) = Len(L.list) + 1
           /\ \A p \in 1..Len(L.list) : M.list[p] = L.list[p]
           /\ LET x == M.list[Len(L.list) + 1]
              IN  x.name = e.name /\ x.type = e.type /\ x.depth = e.depth /\ x.sampler = None
<1> DEFINE m == Len(L.list)
           es == <<e>>
           M == InsertAll(L, m + 1, es)
<1>1. m \in Nat /\ es \in Seq(EntryType) /\ Len(es) = 1 /\ es[1] = e /\ m + 1 \in 1..(m + 1)
  BY FastListFacts
<1>2. M = PushBack(L, e)
  BY DEF PushBack
<1> HIDE DEF es
<1>3. /\ M \in FastLists /\ Len(M.list) = m + Len(es)
      /\ \A p \in 1..Len(M.list) :
                M.list[p] = IF p < m + 1 THEN L.list[p]
                            ELSE IF p < m + 1 + Len(es) THEN NewNodes(L, es)[p - (m + 1) + 1]
                            ELSE L.list[p - Len(es)]
  BY <1>1, InsertAllIs DEF Inserted
<1> HIDE DEF M
<1>4. \A p \in 1..m : M.list[p] = L.list[p]
  <2> SUFFICES ASSUME NEW p \in 1..m PROVE M.list[p] = L.list[p]
    OBVIOUS
  <2> HIDE DEF m
  <2>1. p \in 1..Len(M.list) /\ p < m + 1
    BY <1>1, <1>3
  <2> QED
    BY <1>3, <2>1
<1>5. M.list[m + 1] = NewNodes(L, es)[1]
  <2> DEFINE q == m + 1
  <2>1. q \in 1..Len(M.list) /\ ~(q < m + 1) /\ q < m + 1 + Len(es) /\ q - (m + 1) + 1 = 1
    BY <1>1, <1>3
  <2> HIDE DEF q, m
  <2>2. M.list[q] = NewNodes(L, es)[1]
    BY <1>3, <2>1
  <2> QED
    BY <2>2 DEF q
<1>6. LET x == NewNodes(L, es)[1]
      IN  x.name = e.name /\ x.type = e.type /\ x.depth = e.depth /\ x.sampler = None
  BY <1>1, NewNodesAre
<1> QED
  BY <1>1, <1>2, <1>3, <1>4, <1>5, <1>6

\* One node of a list replaced by new ones.
LEMMA ReplaceIs ==
    ASSUME NEW L \in FastLists, NEW pos \in 1..Len(L.list), NEW es \in Seq(EntryType)
    PROVE  LET M == Erase(InsertAll(L, pos, es), pos + Len(es)) IN
           /\ M \in FastLists /\ Len(M.list) = Len(L.list) - 1 + Len(es)
           /\ \A p \in 1..Len(M.list) :
                M.list[p] = IF p < pos THEN L.list[p]
                            ELSE IF p < pos + Len(es) THEN NewNodes(L, es)[p - pos + 1]
                            ELSE L.list[p - Len(es) + 1]
<1> DEFINE I == InsertAll(L, pos, es)
           m == Len(L.list)
           k == Len(es)
           new == NewNodes(L, es)
           from == pos + k
           M == EraseRange(I, from, from)
<1>1. m \in Nat /\ k \in Nat /\ pos \in Nat /\ pos >= 1 /\ pos <= m /\ pos \in 1..(m + 1)
  BY FastListFacts
<1>2. /\ I \in FastLists /\ Len(I.list) = m + k
      /\ \A p \in 1..(m + k) : I.list[p] = IF p < pos THEN L.list[p]
                            ELSE IF p < from THEN new[p - pos + 1]
                            ELSE L.list[p - k]
  BY <1>1, InsertAllIs DEF Inserted
<1>3. M = Erase(InsertAll(L, pos, es), pos + Len(es))
  BY DEF Erase
<1> HIDE DEF I, m, k, new
<1>4. from \in 1..(Len(I.list) + 1) /\ from \in (from - 1)..Len(I.list) /\ from - from + 1 = 1 /\ from \in Nat
  BY <1>1, <1>2
<1> HIDE DEF from
<1>5. /\ M \in FastLists /\ Len(M.list) = m + k - 1
      /\ \A p \in 1..Len(M.list) : M.list[p] = IF p < from THEN I.list[p] ELSE I.list[p + 1]
  <2>1. Erased(M, I, from, from)
    BY <1>2, <1>4, EraseRangeIs
  <2> HIDE DEF M
  <2>2. /\ M \in FastLists /\ Len(M.list) = Len(I.list) - 1
        /\ \A p \in 1..Len(M.list) : M.list[p] = IF p < from THEN I.list[p] ELSE I.list[p + 1]
    BY <1>4, <2>1 DEF Erased
  <2> QED
    BY <1>1, <1>2, <2>2
<1> HIDE DEF M
<1>6. ASSUME NEW p \in 1..Len(M.list)
      PROVE  M.list[p] = IF p < pos THEN L.list[p]
                         ELSE IF p < from THEN new[p - pos + 1]
                         ELSE L.list[p - k + 1]
  <2> DEFINE q == p + 1
  <2>1. p \in 1..(m + k) /\ q \in 1..(m + k) /\ q - k = p - k + 1 /\ p \in Nat /\ q = p + 1
    BY <1>1, <1>5
  <2>0. M.list[p] = IF p < from THEN I.list[p] ELSE I.list[q]
    BY <1>5
  <2> HIDE DEF q
  <2>2. CASE p < from
    <3>1. M.list[p] = I.list[p]
      BY <2>0, <2>2
    <3> QED
      BY <1>2, <2>1, <2>2, <3>1
  <2>3. CASE ~(p < from)
    <3>1. M.list[p] = I.list[q]
      BY <2>0, <2>3
    <3>2. ~(p < pos) /\ ~(q < pos) /\ ~(q < from)
      BY <1>1, <2>1, <2>3 DEF from
    <3>3. I.list[q] = L.list[q - k]
      BY <1>2, <2>1, <3>2
    <3>4. M.list[p] = L.list[p - k + 1]
      BY <2>1, <3>1, <3>3
    <3> QED
      BY <2>3, <3>2, <3>4
  <2> QED
    BY <2>2, <2>3
<1>7. m + k - 1 = m - 1 + k
  BY <1>1
<1> QED
  BY <1>3, <1>5, <1>6, <1>7 DEF m, k, new, from

\* Nodes changed where they are.
LEMMA ChangedInPlace ==
    ASSUME NEW L \in FastLists, NEW s \in Seq(NodeType), Len(s) = Len(L.list),
           \A p \in 1..Len(s) : s[p].id = L.list[p].id /\ s[p].name = L.list[p].name,
           NEW M, M = [list |-> s, map |-> L.map]
    PROVE  M \in FastLists
<1>1. M.list = s /\ M.map = L.map /\ M \in [list : Seq(NodeType), map : [Names -> Seq(Nat)]]
  BY FastListFacts
<1>2. InStep(L) /\ Len(s) \in Nat
  BY FastListFacts
<1>3. \A p, q \in 1..Len(M.list) : M.list[p].id = M.list[q].id => p = q
  BY <1>1, <1>2 DEF InStep
<1>4. ASSUME NEW n \in Names
      PROVE  /\ IsInjective(M.map[n])
             /\ ToSet(M.map[n]) = {M.list[p].id : p \in {q \in 1..Len(M.list) : M.list[q].name = n}}
  <2>1. {M.list[p].id : p \in {q \in 1..Len(M.list) : M.list[q].name = n}}
          = {L.list[p].id : p \in {q \in 1..Len(L.list) : L.list[q].name = n}}
    BY <1>1
  <2> QED
    BY <1>1, <1>2, <2>1 DEF InStep
<1> QED
  BY <1>1, <1>3, <1>4 DEF FastLists, InStep

-----------------------------------------------------------------------------
\* A name is found by way of the index.
LEMMA PositionsAre ==
    ASSUME NEW L \in FastLists, NEW n \in Names
    PROVE  /\ Positions(L, n) \in Seq(1..Len(L.list)) /\ Len(Positions(L, n)) = Len(L.map[n])
           /\ \A c \in 1..Len(L.map[n]) :
                LET p == Positions(L, n)[c]
                IN  p \in 1..Len(L.list) /\ L.list[p].id = L.map[n][c] /\ L.list[p].name = n
           /\ \A p \in 1..Len(L.list) : L.list[p].name = n =>
                \E c \in 1..Len(L.map[n]) : Positions(L, n)[c] = p
<1>1. /\ DOMAIN L.map[n] = 1..Len(L.map[n]) /\ Len(L.map[n]) \in Nat /\ InStep(L)
      /\ ToSet(L.map[n]) = {L.list[p].id : p \in {q \in 1..Len(L.list) : L.list[q].name = n}}
      /\ \A p, q \in 1..Len(L.list) : L.list[p].id = L.list[q].id => p = q
  BY FastListFacts DEF InStep
<1>2. \A c \in 1..Len(L.map[n]) : Positions(L, n)[c] = PositionOf(L, L.map[n][c])
  BY DEF Positions
<1>3. ASSUME NEW c \in 1..Len(L.map[n])
      PROVE  LET p == PositionOf(L, L.map[n][c])
             IN  p \in 1..Len(L.list) /\ L.list[p].id = L.map[n][c] /\ L.list[p].name = n
  <2>1. L.map[n][c] \in ToSet(L.map[n])
    BY <1>1 DEF ToSet
  <2>2. PICK q \in 1..Len(L.list) : L.list[q].id = L.map[n][c] /\ L.list[q].name = n
    BY <1>1, <2>1
  <2> DEFINE p == PositionOf(L, L.map[n][c])
  <2>3. p \in 1..Len(L.list) /\ L.list[p].id = L.map[n][c]
    BY <2>2 DEF PositionOf
  <2>4. p = q
    BY <1>1, <2>2, <2>3
  <2> QED
    BY <2>2, <2>3, <2>4
<1>4. ASSUME NEW p \in 1..Len(L.list), L.list[p].name = n
      PROVE  \E c \in 1..Len(L.map[n]) : Positions(L, n)[c] = p
  <2>1. L.list[p].id \in ToSet(L.map[n])
    BY <1>1, <1>4
  <2>2. PICK c \in 1..Len(L.map[n]) : L.map[n][c] = L.list[p].id
    BY <1>1, <2>1 DEF ToSet
  <2>3. PositionOf(L, L.map[n][c]) = p
    BY <1>1, <1>3, <2>2
  <2> QED
    BY <1>2, <2>3
<1>5. Positions(L, n) \in Seq(1..Len(L.list)) /\ Len(Positions(L, n)) = Len(L.map[n])
  BY <1>1, <1>3 DEF Positions
<1> QED
  BY <1>2, <1>3, <1>4, <1>5

\* What the search of a list finds has the name looked for (FastList::find).
LEMMA FindIs ==
    ASSUME NEW L \in FastLists, NEW n \in Names, NEW c
    PROVE  /\ Find(L, n, c) \in 0..Len(L.list)
           /\ Find(L, n, c) # 0 => /\ c \in 1..Len(L.map[n]) /\ Find(L, n, c) = Positions(L, n)[c]
                                   /\ L.list[Find(L, n, c)].name = n
           /\ Find(L, n, c) = 0 => c \notin 1..Len(L.map[n])
<1>1. Len(L.list) \in Nat
  BY FastListFacts
<1>2. CASE c \in 1..Len(L.map[n])
  <2>1. Find(L, n, c) = Positions(L, n)[c]
    BY <1>2 DEF Find
  <2> QED
    BY <1>1, <1>2, <2>1, PositionsAre
<1>3. CASE c \notin 1..Len(L.map[n])
  <2>1. Find(L, n, c) = 0
    BY <1>3 DEF Find
  <2> QED
    BY <1>1, <1>3, <2>1
<1> QED
  BY <1>2, <1>3

-----------------------------------------------------------------------------
\* What is put in place of a line.
LEMMA EntriesAre ==
    ASSUME NEW lst \in Seq(Items), NEW d \in Nat
    PROVE  LET es == [i \in 1..Len(lst) |-> Entry(lst[i].name, lst[i].type, d)] IN
           /\ es \in Seq(EntryType) /\ Len(es) = Len(lst) /\ Len(lst) \in Nat
           /\ \A i \in 1..Len(lst) : /\ es[i].name = lst[i].name /\ es[i].type = lst[i].type
                                     /\ es[i].depth = d
<1>1. Len(lst) \in Nat /\ \A i \in 1..Len(lst) : lst[i] \in Items
  OBVIOUS
<1>2. \A i \in 1..Len(lst) : Entry(lst[i].name, lst[i].type, d) \in EntryType
  BY <1>1 DEF Items, EntryType, Entry, Types
<1> QED
  BY <1>1, <1>2 DEF Entry

\* The contents of a line, forwards and back to front.
LEMMA ContentsAre ==
    ASSUME NEW lst \in Seq(Items), NEW type \in {"line", "revline"}, NEW d \in Nat
    PROVE  LET es == Contents(lst, type, d) IN
           /\ es \in Seq(EntryType) /\ Len(es) = Len(lst) /\ Len(lst) \in Nat
           /\ \A i \in 1..Len(lst) :
                /\ es[i].depth = d /\ es[i].type \in {"line", "revline"}
                /\ type = "line" => es[i].name = lst[i].name /\ es[i].type = lst[i].type
                /\ type = "revline" =>
                     LET j == Len(lst) - i + 1
                     IN  es[i].name = lst[j].name /\ es[i].type = Opposite(lst[j].type)
<1>1. Len(lst) \in Nat /\ \A i \in 1..Len(lst) : lst[i] \in Items
  OBVIOUS
<1>2. CASE type = "line"
  <2>1. Contents(lst, type, d) = [i \in 1..Len(lst) |-> Entry(lst[i].name, lst[i].type, d)]
    BY <1>2 DEF Contents
  <2>2. \A i \in 1..Len(lst) : lst[i].type \in {"line", "revline"}
    BY <1>1 DEF Items
  <2> DEFINE es == [i \in 1..Len(lst) |-> Entry(lst[i].name, lst[i].type, d)]
  <2>3. /\ es \in Seq(EntryType) /\ Len(es) = Len(lst)
        /\ \A i \in 1..Len(lst) : es[i].name = lst[i].name /\ es[i].type = lst[i].type /\ es[i].depth = d
    BY EntriesAre
  <2> HIDE DEF es
  <2>4. Contents(lst, type, d) = es
    BY <2>1 DEF es
  <2> QED
    BY <1>1, <1>2, <2>2, <2>3, <2>4
<1>3. CASE type = "revline"
  <2> DEFINE x == [i \in 1..Len(lst) |-> Entry(lst[i].name, Opposite(lst[i].type), d)]
             es == Contents(lst, type, d)
  <2>1. es = Reverse(x)
    BY <1>3 DEF Contents
  <2>2. Len(x) = Len(lst)
    BY <1>1
  <2>3. es = [i \in 1..Len(lst) |-> x[Len(lst) - i + 1]]
    BY <2>1, <2>2 DEF Reverse
  <2>4. \A i \in 1..Len(lst) : es[i] = LET j == Len(lst) - i + 1
                                        IN  Entry(lst[j].name, Opposite(lst[j].type), d)
    <3> SUFFICES ASSUME NEW i \in 1..Len(lst)
                 PROVE  es[i] = LET j == Len(lst) - i + 1
                                IN  Entry(lst[j].name, Opposite(lst[j].type), d)
      OBVIOUS
    <3> DEFINE j == Len(lst) - i + 1
    <3>1. j \in 1..Len(lst)
      BY <1>1
    <3>2. es[i] = x[j]
      BY <2>3
    <3> HIDE DEF es, j
    <3> QED
      BY <3>1, <3>2 DEF j
  <2> HIDE DEF es
  <2>5. \A i \in 1..Len(lst) :
           /\ es[i] \in EntryType /\ es[i].depth = d /\ es[i].type \in {"line", "revline"}
           /\ LET j == Len(lst) - i + 1
              IN  es[i].name = lst[j].name /\ es[i].type = Opposite(lst[j].type)
    <3> SUFFICES ASSUME NEW i \in 1..Len(lst)
                 PROVE  /\ es[i] \in EntryType /\ es[i].depth = d /\ es[i].type \in {"line", "revline"}
                        /\ LET j == Len(lst) - i + 1
                           IN  es[i].name = lst[j].name /\ es[i].type = Opposite(lst[j].type)
      OBVIOUS
    <3> DEFINE j == Len(lst) - i + 1
    <3>1. j \in 1..Len(lst)
      BY <1>1
    <3>2. es[i] = Entry(lst[j].name, Opposite(lst[j].type), d)
      BY <2>4
    <3>3. lst[j] \in Items
      BY <1>1, <3>1
    <3> HIDE DEF j
    <3>4. es[i] \in EntryType /\ es[i].depth = d /\ es[i].type \in {"line", "revline"}
          /\ es[i].name = lst[j].name /\ es[i].type = Opposite(lst[j].type)
      BY <3>2, <3>3 DEF Items, Entry, EntryType, Opposite, Types
    <3> QED
      BY <3>4 DEF j
  <2>6. es = [i \in 1..Len(lst) |-> es[i]]
    BY <2>3 DEF es
  <2>7. es \in Seq(EntryType) /\ Len(es) = Len(lst)
    BY <1>1, <2>5, <2>6
  <2> QED
    BY <1>1, <1>3, <2>5, <2>7 DEF es
<1> QED
  BY <1>2, <1>3

\* In the index of a name nodes stand by depth first, and then along the list.
Before(L, p, q) ==
    L.list[p].depth < L.list[q].depth \/ (L.list[p].depth = L.list[q].depth /\ p < q)
ByDepth(L) ==
    \A n \in Names : \A k, l \in 1..Len(L.map[n]) : \A p, q \in 1..Len(L.list) :
        k < l /\ L.list[p].id = L.map[n][k] /\ L.list[q].id = L.map[n][l] => Before(L, p, q)
OrderedLists == {L \in FastLists : ByDepth(L)}

\* Every entry of the index is a node of the list.
LEMMA IndexedSomewhere ==
    ASSUME NEW L \in FastLists, NEW n \in Names, NEW c \in 1..Len(L.map[n])
    PROVE  \E p \in 1..Len(L.list) : L.list[p].id = L.map[n][c]
<1> DEFINE p == Positions(L, n)[c]
<1>1. p \in 1..Len(L.list) /\ L.list[p].id = L.map[n][c]
  BY PositionsAre
<1> QED
  BY <1>1

\* An empty list is in order of depth.
LEMMA EmptyIsOrdered == Empty \in OrderedLists
<1>1. \A n \in Names : Empty.map[n] = <<>>
  BY DEF Empty
<1> QED
  BY <1>1, EmptyIsFastList DEF OrderedLists, ByDepth

\* New nodes keep the order if none is deeper and none as deep follows them.
LEMMA InsertOrdered ==
    ASSUME NEW L \in OrderedLists, NEW pos \in 1..(Len(L.list) + 1), NEW es \in Seq(EntryType),
           NEW d \in Nat, \A i \in 1..Len(es) : es[i].depth = d,
           \A p \in 1..Len(L.list) : L.list[p].depth <= d /\ (p >= pos => L.list[p].depth < d)
    PROVE  InsertAll(L, pos, es) \in OrderedLists
<1> DEFINE M == InsertAll(L, pos, es)
           m == Len(L.list)
           k == Len(es)
           new == NewNodes(L, es)
           top == LastId(L)
<1>1. /\ L \in FastLists /\ m \in Nat /\ k \in Nat /\ pos \in Nat /\ pos \in 1..(m + 1) /\ top \in Nat
      /\ \A p \in 1..m : L.list[p].id <= top /\ L.list[p].id \in Nat /\ L.list[p].depth \in Nat
      /\ \A p \in 1..m : L.list[p].depth <= d /\ (p >= pos => L.list[p].depth < d)
  <2>1. L \in FastLists
    BY DEF OrderedLists
  <2>2. m \in Nat /\ \A p \in 1..m : L.list[p].id \in Nat /\ L.list[p].depth \in Nat
    BY <2>1, FastListFacts DEF NodeType
  <2> QED
    BY <2>1, <2>2, LastIdIs
<1>2. Inserted(M, L, pos, es)
  BY <1>1, InsertAllIs
<1>3. /\ NewIds(L, es) \in Seq(Nat) /\ Len(NewIds(L, es)) = k
      /\ \A i \in 1..k : NewIds(L, es)[i] = top + i
      /\ \A i \in 1..k : new[i].id = top + i /\ new[i].depth = d
  BY <1>1, NewNodesAre
<1> HIDE DEF M, m, k, new, top
<1>4. M \in FastLists /\ Len(M.list) = m + k
  BY <1>2 DEF Inserted, m, k
<1>5. ASSUME NEW p \in 1..(m + k)
      PROVE  \/ p < pos /\ p \in 1..m /\ M.list[p] = L.list[p]
             \/ p >= pos /\ p < pos + k /\ p - pos + 1 \in 1..k /\ M.list[p] = new[p - pos + 1]
             \/ p >= pos + k /\ p - k >= pos /\ p - k \in 1..m /\ M.list[p] = L.list[p - k]
  <2>1. M.list[p] = IF p < pos THEN L.list[p]
                       ELSE IF p < pos + k THEN new[p - pos + 1]
                       ELSE L.list[p - k]
    BY <1>2, <1>4 DEF Inserted, m, k, new
  <2> QED
    BY <1>1, <2>1
\* Which node of the new list an old node or a new one is.
<1>6. ASSUME NEW p \in 1..(m + k), NEW r \in 1..m, M.list[p].id = L.list[r].id
      PROVE  \/ p < pos /\ r = p /\ M.list[p] = L.list[r]
             \/ p >= pos + k /\ r = p - k /\ r >= pos /\ M.list[p] = L.list[r]
  <2>1. \A i, j \in 1..m : L.list[i].id = L.list[j].id => i = j
    BY <1>1, FastListFacts DEF InStep, m
  <2>2. ASSUME p - pos + 1 \in 1..k, M.list[p] = new[p - pos + 1] PROVE FALSE
    BY <1>1, <1>3, <1>6, <2>2
  <2>3. ASSUME p \in 1..m, M.list[p] = L.list[p] PROVE r = p
    BY <1>6, <2>1, <2>3
  <2>4. ASSUME p - k \in 1..m, M.list[p] = L.list[p - k] PROVE r = p - k
    BY <1>6, <2>1, <2>4
  <2> QED
    BY <1>5, <2>2, <2>3, <2>4
<1>7. ASSUME NEW p \in 1..(m + k), NEW i \in 1..k, M.list[p].id = top + i
      PROVE  p >= pos /\ p < pos + k /\ p - pos + 1 = i /\ M.list[p].depth = d
  <2>1. ASSUME NEW r \in 1..m, M.list[p] = L.list[r] PROVE FALSE
    BY <1>1, <1>7, <2>1
  <2>2. p >= pos /\ p < pos + k /\ p - pos + 1 \in 1..k /\ M.list[p] = new[p - pos + 1]
    BY <1>5, <2>1
  <2>3. top + (p - pos + 1) = top + i
    BY <1>3, <1>7, <2>2
  <2>4. p - pos + 1 \in Int
    BY <1>1
  <2> QED
    BY <1>1, <1>3, <2>2, <2>3, <2>4
<1>8. ASSUME NEW n \in Names, NEW a \in 1..Len(M.map[n]), NEW b \in 1..Len(M.map[n]),
             NEW p \in 1..(m + k), NEW q \in 1..(m + k), a < b,
             M.list[p].id = M.map[n][a], M.list[q].id = M.map[n][b]
      PROVE  Before(M, p, q)
  <2> DEFINE old == L.map[n]
             S == {i \in 1..k : es[i].name = n}
             add == NewIdsOf(L, es, n)
             h == Len(old)
  <2>1. M.map[n] = old \o add
    BY <1>2 DEF Inserted
  <2>2. old \in Seq(Nat)
    BY <1>1, FastListFacts
  <2>3. add \in Seq(Nat) /\ \A x, y \in 1..Len(add) : x < y => \E i, j \in S : i < j /\ add[x] = top + i /\ add[y] = top + j
    <3>1. S \subseteq DOMAIN NewIds(L, es)
      BY <1>3
    <3>2. add = AtPlaces(NewIds(L, es), S)
      BY DEF NewIdsOf, k
    <3>3. \A i \in S : NewIds(L, es)[i] = top + i
      BY <1>3
    <3> HIDE DEF S, add
    <3> DEFINE ids == NewIds(L, es)
               r == AtPlaces(ids, S)
    <3> HIDE DEF ids, r
    <3>4. /\ add \in Seq(Nat)
          /\ \A x, y \in 1..Len(add) : x < y => \E i, j \in S : i < j /\ add[x] = ids[i] /\ add[y] = ids[j]
      <4>1. ids \in Seq(Nat) /\ S \subseteq DOMAIN ids /\ add = r
        BY <1>3, <3>1, <3>2 DEF ids, r
      <4>2. IsSelection(r, Nat, ids, S)
        BY <4>1, Selected DEF r
      <4> QED
        BY <4>1, <4>2 DEF IsSelection
    <3>5. \A i \in S : ids[i] = top + i
      BY <3>3 DEF ids
    <3>6. ASSUME NEW x \in 1..Len(add), NEW y \in 1..Len(add), x < y
          PROVE  \E i, j \in S : i < j /\ add[x] = top + i /\ add[y] = top + j
      <4>1. PICK i, j \in S : i < j /\ add[x] = ids[i] /\ add[y] = ids[j]
        BY <3>4, <3>6
      <4> QED
        BY <3>5, <4>1
    <3> QED
      BY <3>4, <3>6
  <2>4. \A x \in 1..Len(add) : \E i \in S : add[x] = top + i
    <3>1. S \subseteq DOMAIN NewIds(L, es)
      BY <1>3
    <3>2. add = AtPlaces(NewIds(L, es), S)
      BY DEF NewIdsOf, k
    <3>3. \A i \in S : NewIds(L, es)[i] = top + i
      BY <1>3
    <3> HIDE DEF S, add
    <3> DEFINE ids == NewIds(L, es)
    <3> HIDE DEF ids
    <3>4. add \in Seq(Nat) /\ ToSet(add) = {ids[i] : i \in S}
      <4>1. ids \in Seq(Nat) /\ S \subseteq DOMAIN ids /\ add = AtPlaces(ids, S)
        BY <1>3, <3>1, <3>2 DEF ids
      <4>2. AtPlaces(ids, S) \in Seq(Nat) /\ ToSet(AtPlaces(ids, S)) = {ids[i] : i \in S}
        BY <4>1, Selected DEF IsSelection
      <4> QED
        BY <4>1, <4>2
    <3> USE DEF ids
    <3>5. \A x \in 1..Len(add) : add[x] \in ToSet(add)
      BY <3>4 DEF ToSet
    <3> QED
      BY <3>3, <3>4, <3>5
  <2>5. \A i \in S : i \in 1..k
    OBVIOUS
  <2> HIDE DEF S, add, old
  <2>6. h \in Nat /\ Len(M.map[n]) = h + Len(add) /\ Len(add) \in Nat
    BY <2>1, <2>2, <2>3, ConcatIs
  <2>7. \A x \in 1..Len(M.map[n]) : M.map[n][x] = IF x <= h THEN old[x] ELSE add[x - h]
    BY <2>1, <2>2, <2>3, ConcatIs
  <2> HIDE DEF h
  <2> DEFINE w == Len(add)
  <2>8. /\ a \in Nat /\ b \in Nat /\ p \in Nat /\ q \in Nat /\ a >= 1 /\ a <= h + w /\ b <= h + w
        /\ h \in Nat /\ w \in Nat
    BY <2>6
  <2> HIDE DEF w
  <2>13. /\ a < b /\ M.list[p].id = M.map[n][a] /\ M.list[q].id = M.map[n][b]
    BY <1>8
  <2>9. \A x \in 1..h : \E r \in 1..m : L.list[r].id = old[x]
    BY <1>1, IndexedSomewhere DEF old, m, h
  <2>10. CASE b <= h
    <3>1. a \in 1..h /\ b \in 1..h /\ M.list[p].id = old[a] /\ M.list[q].id = old[b]
      BY <1>8, <2>6, <2>7, <2>8, <2>10
    <3>2. PICK r \in 1..m : L.list[r].id = old[a]
      BY <2>9, <3>1
    <3>3. PICK s \in 1..m : L.list[s].id = old[b]
      BY <2>9, <3>1
    <3>4. Before(L, r, s)
      BY <1>8, <3>1, <3>2, <3>3 DEF OrderedLists, ByDepth, old, h, m
    <3>5. \/ p < pos /\ r = p /\ M.list[p] = L.list[r]
          \/ p >= pos + k /\ r = p - k /\ r >= pos /\ M.list[p] = L.list[r]
      BY <1>6, <3>1, <3>2
    <3>6. \/ q < pos /\ s = q /\ M.list[q] = L.list[s]
          \/ q >= pos + k /\ s = q - k /\ s >= pos /\ M.list[q] = L.list[s]
      BY <1>6, <3>1, <3>3
    <3>7. M.list[p] = L.list[r] /\ M.list[q] = L.list[s]
      BY <3>5, <3>6
    <3>8. r < s => p < q
      BY <1>1, <2>8, <3>5, <3>6
    <3> QED
      BY <3>4, <3>7, <3>8 DEF Before
  <2>11. CASE a <= h /\ b > h
    <3>1. a \in 1..h /\ b - h \in 1..Len(add) /\ M.list[p].id = old[a] /\ M.list[q].id = add[b - h]
      <4>1. a \in 1..h /\ b - h \in 1..w /\ ~(b <= h)
        BY <2>8, <2>11
      <4>2. M.map[n][a] = old[a] /\ M.map[n][b] = add[b - h]
        BY <2>7, <2>11, <4>1
      <4> QED
        BY <2>13, <4>1, <4>2 DEF w
    <3>2. PICK r \in 1..m : L.list[r].id = old[a]
      BY <2>9, <3>1
    <3>3. PICK i \in S : add[b - h] = top + i
      BY <2>4, <3>1
    <3>4. q >= pos /\ M.list[q].depth = d
      BY <1>7, <2>5, <3>1, <3>3
    <3>5. /\ M.list[p] = L.list[r]
          /\ \/ p < pos
             \/ r >= pos
      BY <1>6, <3>1, <3>2
    <3>6. L.list[r].depth <= d /\ (r >= pos => L.list[r].depth < d) /\ L.list[r].depth \in Nat
      BY <1>1
    <3>7. L.list[r].depth < d \/ (L.list[r].depth = d /\ p < q)
      BY <1>1, <2>8, <3>4, <3>5, <3>6
    <3> QED
      BY <3>4, <3>5, <3>7 DEF Before
  <2>12. CASE a > h
    <3>1. /\ a - h \in 1..Len(add) /\ b - h \in 1..Len(add) /\ a - h < b - h
          /\ M.list[p].id = add[a - h] /\ M.list[q].id = add[b - h]
      <4>1. a - h \in 1..w /\ b - h \in 1..w /\ a - h < b - h /\ ~(a <= h) /\ ~(b <= h)
        <5>1. a < b
          BY <2>13
        <5> QED
          BY <2>8, <2>12, <5>1
      <4>2. M.map[n][a] = add[a - h] /\ M.map[n][b] = add[b - h]
        BY <2>7, <4>1
      <4> QED
        BY <2>13, <4>1, <4>2 DEF w
    <3>2. PICK i \in S, j \in S : i < j /\ add[a - h] = top + i /\ add[b - h] = top + j
      BY <2>3, <3>1
    <3>3. p - pos + 1 = i /\ q - pos + 1 = j /\ M.list[p].depth = d /\ M.list[q].depth = d
      BY <1>7, <2>5, <3>1, <3>2
    <3>4. p < q
      BY <1>1, <2>8, <3>2, <3>3
    <3> QED
      BY <3>3, <3>4 DEF Before
  <2> QED
    BY <1>8, <2>6, <2>8, <2>10, <2>11, <2>12
<1>9. ByDepth(M)
  BY <1>4, <1>8 DEF ByDepth
<1> QED
  BY <1>4, <1>9 DEF OrderedLists, M

\* An erasure leaves the index in order of depth.
LEMMA EraseOrdered ==
    ASSUME NEW L \in OrderedLists, NEW from \in 1..(Len(L.list) + 1), NEW to \in (from - 1)..Len(L.list)
    PROVE  EraseRange(L, from, to) \in OrderedLists
<1> DEFINE M == EraseRange(L, from, to)
           m == Len(L.list)
           g == to - from + 1
<1>1. /\ L \in FastLists /\ m \in Nat /\ from \in Nat /\ g \in Nat /\ from <= m + 1 /\ g <= m
  <2>1. L \in FastLists
    BY DEF OrderedLists
  <2> QED
    BY <2>1, FastListFacts
<1>2. Erased(M, L, from, to)
  BY <1>1, EraseRangeIs
<1> HIDE DEF M
<1>3. /\ M \in FastLists /\ Len(M.list) = m - g
      /\ \A p \in 1..(m - g) : M.list[p] = IF p < from THEN L.list[p] ELSE L.list[p + g]
      /\ \A n \in Names : \A k, l \in 1..Len(M.map[n]) :
           k < l => \E i, j \in 1..Len(L.map[n]) :
                       i < j /\ M.map[n][k] = L.map[n][i] /\ M.map[n][l] = L.map[n][j]
  BY <1>2 DEF Erased
<1>4. \A p \in 1..(m - g) : IF p < from THEN p \in 1..m ELSE p + g \in 1..m
  <2> HIDE DEF m, g
  <2> QED
    BY <1>1
<1> HIDE DEF m, g
<1>5. ASSUME NEW n \in Names, NEW a \in 1..Len(M.map[n]), NEW b \in 1..Len(M.map[n]),
             NEW p \in 1..(m - g), NEW q \in 1..(m - g), a < b,
             M.list[p].id = M.map[n][a], M.list[q].id = M.map[n][b]
      PROVE  Before(M, p, q)
  <2>1. PICK i \in 1..Len(L.map[n]), j \in 1..Len(L.map[n]) :
           i < j /\ M.map[n][a] = L.map[n][i] /\ M.map[n][b] = L.map[n][j]
    BY <1>3, <1>5
  <2> DEFINE r == IF p < from THEN p ELSE p + g
             s == IF q < from THEN q ELSE q + g
  <2>2. r \in 1..m /\ s \in 1..m /\ M.list[p] = L.list[r] /\ M.list[q] = L.list[s]
    BY <1>3, <1>4
  <2>3. r < s => p < q
    BY <1>1
  <2> HIDE DEF r, s
  <2>4. Before(L, r, s)
    BY <1>5, <2>1, <2>2 DEF OrderedLists, ByDepth, m
  <2> QED
    BY <2>2, <2>3, <2>4 DEF Before
<1>6. ByDepth(M)
  BY <1>3, <1>5 DEF ByDepth
<1> QED
  BY <1>3, <1>6 DEF OrderedLists, M

(* Lists built by the actions *)
HeaderOf(name) == PushBack(Empty, Entry(name, "line", 0))
StartOf(name, lst) ==
    InsertAll(HeaderOf(name), 2, [i \in 1..Len(lst) |-> Entry(lst[i].name, lst[i].type, 1)])

\* A list with nothing but the line itself.
LEMMA HeaderIs ==
    ASSUME NEW name \in Names
    PROVE  LET H == HeaderOf(name) IN
           /\ H \in OrderedLists /\ H \in FastLists /\ Len(H.list) = 1
           /\ H.list[1].name = name /\ H.list[1].type = "line" /\ H.list[1].depth = 0
           /\ H.list[1].sampler = None
<1> DEFINE e == Entry(name, "line", 0)
           es == <<e>>
           H == HeaderOf(name)
<1>1. e \in EntryType /\ e.name = name /\ e.type = "line" /\ e.depth = 0
  BY DEF Entry, EntryType, Types
<1>2. Empty \in FastLists /\ Empty \in OrderedLists /\ Len(Empty.list) = 0
  BY EmptyIsFastList, EmptyIsOrdered DEF Empty
<1> HIDE DEF e
<1>3. es \in Seq(EntryType) /\ \A i \in 1..Len(es) : es[i].depth = 0
  BY <1>1
<1> HIDE DEF es
<1>4. InsertAll(Empty, 1, es) \in OrderedLists
  <2>1. 1 \in 1..(Len(Empty.list) + 1) /\ 0 \in Nat
        /\ \A p \in 1..Len(Empty.list) : Empty.list[p].depth <= 0 /\ (p >= 1 => Empty.list[p].depth < 0)
    BY <1>2
  <2> QED
    BY <1>2, <1>3, <2>1, InsertOrdered
<1>5. H = InsertAll(Empty, 1, es)
  BY <1>2 DEF HeaderOf, PushBack, es, e
<1>6. Len(H.list) = 1 /\ H.list[1].name = name /\ H.list[1].type = "line" /\ H.list[1].depth = 0
           /\ H.list[1].sampler = None
  <2> DEFINE M == PushBack(Empty, e)
             x == M.list[Len(Empty.list) + 1]
  <2>1. Len(M.list) = Len(Empty.list) + 1
           /\ x.name = e.name /\ x.type = e.type /\ x.depth = e.depth /\ x.sampler = None
    BY <1>1, <1>2, PushBackIs
  <2>2. M = H
    BY DEF HeaderOf, e
  <2> HIDE DEF M
  <2> QED
    BY <1>1, <1>2, <2>1, <2>2
<1> QED
  BY <1>4, <1>5, <1>6 DEF OrderedLists

\* A list as an expansion begins with it: the line and its own entries.
LEMMA StartIs ==
    ASSUME NEW name \in Names, NEW lst \in Seq(Items)
    PROVE  LET L == StartOf(name, lst) IN
           /\ L \in OrderedLists /\ L \in FastLists /\ Len(L.list) = Len(lst) + 1
           /\ L.list[1] = HeaderOf(name).list[1]
           /\ \A i \in 1..Len(lst) :
                LET e == L.list[i + 1]
                IN  e.name = lst[i].name /\ e.type = lst[i].type /\ e.depth = 1 /\ e.sampler = None
<1> DEFINE H == HeaderOf(name)
           es == [i \in 1..Len(lst) |-> Entry(lst[i].name, lst[i].type, 1)]
           L == StartOf(name, lst)
           k == Len(lst)
<1>1. H \in OrderedLists /\ H \in FastLists /\ Len(H.list) = 1 /\ H.list[1].depth = 0
  BY HeaderIs
<1>2. /\ es \in Seq(EntryType) /\ Len(es) = Len(lst) /\ Len(lst) \in Nat
      /\ \A i \in 1..Len(lst) : es[i].name = lst[i].name /\ es[i].type = lst[i].type /\ es[i].depth = 1
  BY EntriesAre
<1> HIDE DEF es
<1>3. L = InsertAll(H, 2, es)
  BY DEF StartOf, es
<1> HIDE DEF H, L, k
<1>4. L \in OrderedLists
  <2>1. 2 \in 1..(Len(H.list) + 1) /\ 1 \in Nat
        /\ \A p \in 1..Len(H.list) : H.list[p].depth <= 1 /\ (p >= 2 => H.list[p].depth < 1)
    BY <1>1
  <2>2. \A i \in 1..Len(es) : es[i].depth = 1
    BY <1>2
  <2> QED
    BY <1>1, <1>2, <1>3, <2>1, <2>2, InsertOrdered
<1>5. Inserted(L, H, 2, es)
  <2>1. 2 \in 1..(Len(H.list) + 1)
    BY <1>1
  <2> QED
    BY <1>1, <1>2, <1>3, <2>1, InsertAllIs
<1>6. /\ Len(L.list) = k + 1
      /\ \A p \in 1..(k + 1) : L.list[p] = IF p < 2 THEN H.list[p]
                     ELSE IF p < 2 + k THEN NewNodes(H, es)[p - 2 + 1]
                     ELSE H.list[p - k]
  BY <1>1, <1>2, <1>5 DEF Inserted, k
<1>7. L.list[1] = H.list[1]
  BY <1>2, <1>6 DEF k
<1>8. ASSUME NEW i \in 1..k PROVE L.list[i + 1] = NewNodes(H, es)[i]
  <2> DEFINE p == i + 1
  <2>1. p \in 1..(k + 1) /\ ~(p < 2) /\ p < 2 + k /\ p - 2 + 1 = i
    BY <1>2 DEF k
  <2> HIDE DEF p
  <2>2. L.list[p] = NewNodes(H, es)[i]
    BY <1>6, <2>1
  <2> QED
    BY <2>2 DEF p
<1>9. \A i \in 1..k : LET e == NewNodes(H, es)[i]
                      IN  e.name = es[i].name /\ e.type = es[i].type /\ e.depth = es[i].depth /\ e.sampler = None
  BY <1>1, <1>2, NewNodesAre DEF k
<1>10. \A i \in 1..k : LET e == L.list[i + 1]
                      IN  e.name = lst[i].name /\ e.type = lst[i].type /\ e.depth = 1 /\ e.sampler = None
  BY <1>2, <1>8, <1>9 DEF k
<1>11. L \in FastLists
  BY <1>4 DEF OrderedLists
<1> QED
  BY <1>4, <1>6, <1>7, <1>10, <1>11 DEF k, L, H

\* What a range leaves is a list in step.
LEMMA CutIs ==
    ASSUME NEW L \in FastLists, NEW start \in Names \union {None}, NEW end \in Names \union {None}
    PROVE  /\ CutBefore(L, start) \in FastLists
           /\ CutAfter(L, end) \in FastLists
           /\ start = None => CutBefore(L, start) = L
           /\ end = None => CutAfter(L, end) = L
<1>1. Len(L.list) \in Nat
  BY FastListFacts
<1>2. CutBefore(L, start) \in FastLists
  <2> DEFINE p == IF start = None THEN 0 ELSE Find(L, start, 1)
  <2>1. p \in 0..Len(L.list)
    <3>1. start # None => start \in Names
      OBVIOUS
    <3> QED
      BY <1>1, <3>1, FindIs
  <2>2. CutBefore(L, start) = IF p = 0 THEN L ELSE EraseRange(L, 1, p - 1)
    BY DEF CutBefore
  <2> HIDE DEF p
  <2>3. ASSUME p # 0 PROVE EraseRange(L, 1, p - 1) \in FastLists
    <3>1. 1 \in 1..(Len(L.list) + 1) /\ p - 1 \in (1 - 1)..Len(L.list)
      BY <1>1, <2>1, <2>3
    <3> QED
      BY <3>1, EraseRangeIs DEF Erased
  <2> QED
    BY <2>2, <2>3
<1>3. CutAfter(L, end) \in FastLists
  <2> DEFINE p == IF end = None THEN 0 ELSE Find(L, end, 1)
  <2>1. p \in 0..Len(L.list)
    <3>1. end # None => end \in Names
      OBVIOUS
    <3> QED
      BY <1>1, <3>1, FindIs
  <2>2. CutAfter(L, end) = IF p = 0 THEN L ELSE EraseRange(L, p + 1, Len(L.list))
    BY DEF CutAfter
  <2> HIDE DEF p
  <2>3. ASSUME p # 0 PROVE EraseRange(L, p + 1, Len(L.list)) \in FastLists
    <3>1. p + 1 \in 1..(Len(L.list) + 1) /\ Len(L.list) \in (p + 1 - 1)..Len(L.list)
      BY <1>1, <2>1, <2>3
    <3> QED
      BY <3>1, EraseRangeIs DEF Erased
  <2> QED
    BY <2>2, <2>3
<1>4. start = None => CutBefore(L, start) = L
  BY DEF CutBefore
<1>5. end = None => CutAfter(L, end) = L
  BY DEF CutAfter
<1> QED
  BY <1>2, <1>3, <1>4, <1>5

Pcs == {"parse", "expand", "range", "exit", "undefined", "done"}
Jobs == [name : Names \union {None}, start : Names \union {None}, end : Names \union {None},
         into : {"beamline", "sequence"}]

DefinedInv ==
    /\ DOMAIN defined \subseteq Names
    /\ \A n \in DOMAIN defined :
         /\ defined[n].type \in {"element", "marker", "line"}
         /\ defined[n].lst = None \/ (defined[n].lst \in Seq(Items) /\ defined[n].type = "line")
    /\ sequences \in Seq(Names)
    /\ \A k \in 1..Len(sequences) : HasList(sequences[k])

ListsInv ==
    /\ beamline \in FastLists /\ target \in FastLists
    /\ \A n \in DOMAIN expanded : expanded[n] \in FastLists

ControlInv ==
    /\ file \in Files /\ at \in Nat \ {0} /\ iteration \in 0..MaxIterations /\ it \in Nat \ {0, 1}
    /\ isExpanded \in BOOLEAN /\ pc \in Pcs /\ job \in Jobs
    /\ at <= Len(file) => job.into = "beamline"
    /\ pc \in {"expand", "range"} => HasList(job.name)
    /\ pc \in {"expand", "range"} /\ job.into # "beamline" =>
         /\ job.start = None /\ job.end = None
         /\ at - Len(file) \in 1..Len(sequences) /\ job.name = sequences[at - Len(file)]
    /\ pc = "done" => at > Len(file) + Len(sequences)

TypeInv == DefinedInv /\ ListsInv /\ ControlInv

\* The consequences of TypeInv that are used most.
LEMMA TypeFacts ==
    ASSUME TypeInv
    PROVE  /\ Len(file) \in Nat /\ Len(sequences) \in Nat /\ MaxIterations \in Nat \ {0}
           /\ at <= Len(file) => IsStatement(Statement)
           /\ None \notin Names /\ None \notin Seq(Items)
           /\ \A n : IsDefined(n) => n \in Names
           /\ \A n : HasList(n) => defined[n].lst \in Seq(Items) /\ defined[n].type = "line" /\ n \in Names
           /\ \A k \in 1..Len(sequences) : sequences[k] \in Names
<1>1. Len(file) \in Nat /\ MaxIterations \in Nat \ {0} /\ None \notin Names /\ None \notin Seq(Items)
      /\ \A i \in 1..Len(file) : IsStatement(file[i])
  BY FilesAssumption DEF TypeInv, ControlInv
<1>2. at <= Len(file) => at \in 1..Len(file)
  BY <1>1 DEF TypeInv, ControlInv
<1>3. \A n : HasList(n) => defined[n].lst \in Seq(Items) /\ defined[n].type = "line" /\ n \in Names
  BY DEF TypeInv, DefinedInv, HasList, ListIn, IsDefined
<1>4. \A n : IsDefined(n) => n \in Names
  BY DEF TypeInv, DefinedInv, IsDefined
<1>5. Len(sequences) \in Nat /\ \A k \in 1..Len(sequences) : sequences[k] \in Names
  BY DEF TypeInv, DefinedInv
<1> QED
  BY <1>1, <1>2, <1>3, <1>4, <1>5 DEF Statement

\* Before the first statement the types are right.
LEMMA InitTypeInv == Init => TypeInv
<1> SUFFICES ASSUME Init PROVE TypeInv
  OBVIOUS
<1> USE DEF Init
<1>1. DefinedInv
  BY DEF DefinedInv, HasList, ListIn, IsDefined
<1>2. ListsInv
  BY EmptyIsFastList DEF ListsInv
<1>3. ControlInv
  <2>1. job \in Jobs /\ pc \in Pcs /\ pc = "parse"
    BY DEF Jobs, Pcs
  <2>2. MaxIterations \in Nat \ {0} /\ iteration = 0 /\ iteration \in 0..MaxIterations
    BY FilesAssumption
  <2>3. job.into = "beamline"
    OBVIOUS
  <2> QED
    <3>0. file \in Files /\ at = 1 /\ it = 2 /\ isExpanded = FALSE
      OBVIOUS
    <3> USE DEF Init
    <3>1. file \in Files /\ at \in Nat \ {0} /\ it \in Nat \ {0, 1} /\ isExpanded \in BOOLEAN
      <4> HIDE DEF Init
      <4>1. isExpanded \in BOOLEAN
        BY <3>0, Zenon
      <4>2. at \in Nat \ {0}
        BY <3>0
      <4>3. it \in Nat \ {0, 1}
        BY <3>0
      <4> QED
        BY <3>0, <4>1, <4>2, <4>3
    <3>2. pc \notin {"expand", "range"} /\ pc # "done"
      BY <2>1
    <3> QED
      BY <2>1, <2>2, <2>3, <3>1, <3>2, Zenon DEF ControlInv
<1> QED
  BY <1>1, <1>2, <1>3 DEF TypeInv

-----------------------------------------------------------------------------
\* An error leaves them right.
LEMMA ExitType == ASSUME TypeInv, NEW why, Exit(why) PROVE TypeInv'
<1>1. UNCHANGED <<defined, sequences, beamline, expanded, target>>
  BY DEF Exit, expansion
<1>2. DefinedInv'
  BY <1>1 DEF TypeInv, DefinedInv, HasList, ListIn, IsDefined
<1>3. ListsInv'
  BY <1>1 DEF TypeInv, ListsInv
<1>4. ControlInv'
  BY DEF TypeInv, ControlInv, Exit, expansion, Pcs
<1> QED
  BY <1>2, <1>3, <1>4 DEF TypeInv

\* What is left alone keeps the invariant.
LEMMA SameTables ==
    ASSUME TypeInv, UNCHANGED <<defined, sequences>> PROVE DefinedInv' /\ \A n : HasList(n)' <=> HasList(n)
  BY DEF TypeInv, DefinedInv, HasList, ListIn, IsDefined

\* So does a definition (Parser::write_table).
LEMMA WriteTableType ==
    ASSUME TypeInv, pc = "parse", at <= Len(file),
           NEW name \in Names, NEW type \in {"element", "marker", "line"}, NEW lst,
           lst = None \/ (lst \in Seq(Items) /\ type = "line"), WriteTable(name, type, lst)
    PROVE  TypeInv'
<1>1. CASE IsDefined(name)
  BY <1>1, ExitType DEF WriteTable
<1>2. CASE ~IsDefined(name)
  <2>1. /\ defined' = [n \in DOMAIN defined \union {name} |->
                            IF n = name THEN [type |-> type, lst |-> lst] ELSE defined[n]]
        /\ sequences' = IF lst = None THEN sequences ELSE Append(sequences, name)
        /\ at' = at + 1
        /\ UNCHANGED <<file, pc, beamline, expanded, expansion, reason>>
    BY <1>2 DEF WriteTable
  <2>2. /\ DOMAIN defined' = DOMAIN defined \union {name}
        /\ \A n \in DOMAIN defined : n # name /\ defined'[n] = defined[n]
        /\ defined'[name].type = type /\ defined'[name].lst = lst
    BY <1>2, <2>1 DEF IsDefined
  <2>3. sequences \in Seq(Names) /\ Len(sequences) \in Nat
    BY DEF TypeInv, DefinedInv
  <2>4. /\ sequences' \in Seq(Names)
        /\ \A k \in 1..Len(sequences') :
              \/ k \in 1..Len(sequences) /\ sequences'[k] = sequences[k]
              \/ sequences'[k] = name /\ lst # None
    <3>1. CASE lst = None
      BY <2>1, <2>3, <3>1
    <3>2. CASE lst # None
      BY <2>1, <2>3, <3>2
    <3> QED
      BY <3>1, <3>2
  <2>5. DefinedInv'
    <3>1. DOMAIN defined' \subseteq Names
      BY <2>2 DEF TypeInv, DefinedInv
    <3>2. ASSUME NEW n \in DOMAIN defined'
          PROVE  /\ defined'[n].type \in {"element", "marker", "line"}
                 /\ defined'[n].lst = None \/ (defined'[n].lst \in Seq(Items) /\ defined'[n].type = "line")
      <4>1. CASE n = name
        BY <2>2, <4>1
      <4>2. CASE n # name
        <5>1. n \in DOMAIN defined /\ defined'[n] = defined[n]
          BY <2>2, <4>2
        <5> QED
          BY <5>1 DEF TypeInv, DefinedInv
      <4> QED
        BY <4>1, <4>2
    <3>3. ASSUME NEW k \in 1..Len(sequences')
          PROVE  sequences'[k] \in DOMAIN defined' /\ defined'[sequences'[k]].lst # None
      <4>1. CASE sequences'[k] = name /\ lst # None
        BY <2>2, <4>1 DEF HasList, ListIn, IsDefined
      <4>2. CASE k \in 1..Len(sequences) /\ sequences'[k] = sequences[k]
        <5>1. HasList(sequences[k])
          BY <4>2 DEF TypeInv, DefinedInv
        <5> QED
          BY <2>2, <4>2, <5>1 DEF HasList, ListIn, IsDefined
      <4> QED
        BY <2>4, <4>1, <4>2
    <3> QED
      BY <2>4, <3>1, <3>2, <3>3 DEF DefinedInv, HasList, ListIn, IsDefined
  <2>6. ListsInv'
    BY <2>1 DEF TypeInv, ListsInv, expansion
  <2>7. ControlInv'
    <3>1. UNCHANGED <<file, pc, job, it, iteration, isExpanded>> /\ at' = at + 1 /\ pc' = "parse"
      BY <2>1 DEF expansion
    <3>2. Len(file) \in Nat
      BY TypeFacts
    <3> QED
      BY <3>1, <3>2 DEF TypeInv, ControlInv
  <2> QED
    BY <2>5, <2>6, <2>7 DEF TypeInv
<1> QED
  BY <1>1, <1>2

\* So does every declaration.
LEMMA DeclareType ==
    ASSUME TypeInv, DeclareComponent \/ DeclareLine \/ DeclareNewInstance PROVE TypeInv'
<1>1. CASE DeclareComponent
  <2>1. /\ pc = "parse" /\ at <= Len(file) /\ Statement.do = "component"
        /\ WriteTable(Statement.name, Statement.type, None)
    BY <1>1 DEF DeclareComponent, Reading
  <2>2. Statement.name \in Names /\ Statement.type \in {"element", "marker"}
    BY <2>1, TypeFacts DEF IsStatement
  <2> QED
    BY <2>1, <2>2, WriteTableType
<1>2. CASE DeclareLine
  <2>1. /\ pc = "parse" /\ at <= Len(file) /\ Statement.do = "line"
        /\ WriteTable(Statement.name, "line", Statement.lst)
    BY <1>2 DEF DeclareLine, Reading
  <2>2. Statement.name \in Names /\ Statement.lst \in Seq(Items)
    BY <2>1, TypeFacts DEF IsStatement
  <2> QED
    BY <2>1, <2>2, WriteTableType
<1>3. CASE DeclareNewInstance
  <2>1. pc = "parse" /\ at <= Len(file) /\ Statement.do = "newinstance"
    BY <1>3 DEF DeclareNewInstance, Reading
  <2>2. Statement.name \in Names
    BY <2>1, TypeFacts DEF IsStatement
  <2>3. CASE IsDefined(Statement.of)
    <3>1. defined[Statement.of].type \in {"element", "marker", "line"}
      BY <2>3 DEF IsDefined, TypeInv, DefinedInv
    <3>2. WriteTable(Statement.name, defined[Statement.of].type, None)
      BY <1>3, <2>3 DEF DeclareNewInstance
    <3> QED
      BY <2>1, <2>2, <3>1, <3>2, WriteTableType
  <2>4. CASE ~IsDefined(Statement.of)
    BY <1>3, <2>4, ExitType DEF DeclareNewInstance
  <2> QED
    BY <2>3, <2>4
<1> QED
  BY <1>1, <1>2, <1>3

\* The cases of the start of an expansion.
Starting(name, start, end, into) ==
    /\ HasList(name)
    /\ job' = [name |-> name, start |-> start, end |-> end, into |-> into]
    /\ it' = 2 /\ isExpanded' = TRUE /\ iteration' = 0
    /\ target' = StartOf(name, defined[name].lst)
    /\ pc' = "expand" /\ UNCHANGED <<file, at, defined, sequences, beamline, expanded, reason>>
Without(name, start, end, into) ==
    /\ IsDefined(name) /\ IsLine(defined[name].type) /\ defined[name].lst = None
    /\ job' = [name |-> name, start |-> start, end |-> end, into |-> into]
    /\ it' = 2 /\ isExpanded' = TRUE /\ iteration' = 0
    /\ target' = HeaderOf(name) /\ Finish(HeaderOf(name))
    /\ UNCHANGED <<file, defined, sequences, reason>>

\* The ways expand_line goes on when it is called.
LEMMA ExpandLineCases ==
    ASSUME NEW name, NEW start, NEW end, NEW into, ExpandLine(name, start, end, into)
    PROVE  \/ \E why \in {"undefined", "notline"} : Exit(why)
           \/ Starting(name, start, end, into)
           \/ Without(name, start, end, into)
<1>1. CASE ~IsDefined(name)
  BY <1>1 DEF ExpandLine
<1>2. CASE IsDefined(name) /\ ~IsLine(defined[name].type)
  BY <1>2 DEF ExpandLine
<1>3. CASE IsDefined(name) /\ IsLine(defined[name].type)
  <2> DEFINE lst == defined[name].lst
  <2>1. /\ job' = [name |-> name, start |-> start, end |-> end, into |-> into]
        /\ it' = 2 /\ isExpanded' = TRUE /\ iteration' = 0
        /\ IF lst = None
           THEN target' = HeaderOf(name) /\ Finish(HeaderOf(name))
           ELSE target' = StartOf(name, lst) /\ pc' = "expand" /\ UNCHANGED <<at, beamline, expanded>>
        /\ UNCHANGED <<file, defined, sequences, reason>>
    BY <1>3 DEF ExpandLine, HeaderOf, StartOf
  <2>2. CASE lst = None
    BY <1>3, <2>1, <2>2 DEF Without
  <2>3. CASE lst # None
    BY <1>3, <2>1, <2>3 DEF Starting, HasList, ListIn, IsDefined
  <2> QED
    BY <2>2, <2>3
<1> QED
  BY <1>1, <1>2, <1>3

\* Where a list goes that is ready.
LEMMA FinishType ==
    ASSUME TypeInv, NEW list \in FastLists, Finish(list)
    PROVE  /\ beamline' \in FastLists /\ \A n \in DOMAIN expanded' : expanded'[n] \in FastLists
           /\ at' \in Nat \ {0} /\ at' = at + 1 /\ pc' = "parse"
<1>1. at' \in Nat \ {0} /\ at' = at + 1 /\ pc' = "parse"
  BY DEF Finish, TypeInv, ControlInv
<1>2. CASE job'.into = "beamline"
  <2>1. beamline' = list /\ expanded' = expanded
    BY <1>2 DEF Finish
  <2> QED
    BY <1>1, <2>1 DEF TypeInv, ListsInv
<1>3. CASE job'.into # "beamline"
  <2>1. beamline' = beamline /\ expanded' = [n \in DOMAIN expanded \union {job'.name} |->
                                IF n = job'.name THEN list ELSE expanded[n]]
    BY <1>3 DEF Finish
  <2>2. ASSUME NEW n \in DOMAIN expanded' PROVE expanded'[n] \in FastLists
    BY <2>1 DEF TypeInv, ListsInv
  <2> QED
    BY <1>1, <2>1, <2>2 DEF TypeInv, ListsInv
<1> QED
  BY <1>2, <1>3

\* Each of them leaves the types right.
LEMMA ExpandLineType ==
    ASSUME TypeInv, pc = "parse", NEW name \in Names, NEW start \in Names \union {None}, NEW end \in Names \union {None},
           NEW into \in {"beamline", "sequence"}, ExpandLine(name, start, end, into),
           at <= Len(file) => into = "beamline",
           into # "beamline" => /\ start = None /\ end = None
                                /\ at - Len(file) \in 1..Len(sequences) /\ name = sequences[at - Len(file)]
    PROVE  TypeInv'
<1>1. CASE \E why \in {"undefined", "notline"} : Exit(why)
  BY <1>1, ExitType
<1>2. CASE Starting(name, start, end, into)
  <2>1. defined[name].lst \in Seq(Items)
    BY <1>2, TypeFacts DEF Starting
  <2>2. target' \in FastLists
    BY <1>2, <2>1, StartIs DEF Starting
  <2>3. ListsInv'
    BY <1>2, <2>2 DEF Starting, TypeInv, ListsInv
  <2>4. UNCHANGED <<defined, sequences>>
    BY <1>2 DEF Starting
  <2>5. DefinedInv' /\ (HasList(name)' <=> HasList(name))
    BY <2>4, SameTables
  <2>6. job' \in Jobs /\ job'.name = name /\ job'.start = start /\ job'.end = end /\ job'.into = into
    BY <1>2 DEF Starting, Jobs
  <2>7. 0 \in 0..MaxIterations /\ 2 \in Nat \ {0, 1} /\ TRUE \in BOOLEAN
    BY TypeFacts
  <2>8. iteration' \in 0..MaxIterations /\ it' \in Nat \ {0, 1} /\ isExpanded' \in BOOLEAN
    BY <1>2, <2>7, Zenon DEF Starting
  <2>9. /\ file' = file /\ at' = at /\ pc' = "expand" /\ sequences' = sequences
        /\ file \in Files /\ at \in Nat \ {0} /\ HasList(job.name)'
    <3>1. HasList(name) /\ job'.name = name /\ defined' = defined
      BY <1>2, <2>6 DEF Starting
    <3>2. HasList(job.name)'
      BY <3>1, Zenon DEF HasList, ListIn, IsDefined
    <3> QED
      BY <1>2, <3>2 DEF Starting, TypeInv, ControlInv
  <2>10. ControlInv'
    BY <2>6, <2>8, <2>9 DEF ControlInv, Pcs
  <2> QED
    BY <2>3, <2>5, <2>10 DEF TypeInv
<1>3. CASE Without(name, start, end, into)
  <2>1. HeaderOf(name) \in FastLists
    BY HeaderIs
  <2>2. Finish(HeaderOf(name)) /\ target' = HeaderOf(name) /\ UNCHANGED <<file, defined, sequences>>
    BY <1>3 DEF Without
  <2>3. /\ beamline' \in FastLists /\ \A n \in DOMAIN expanded' : expanded'[n] \in FastLists
        /\ at' \in Nat \ {0} /\ at' = at + 1 /\ pc' = "parse"
    BY <2>1, <2>2, FinishType
  <2>4. ListsInv'
    BY <2>1, <2>2, <2>3 DEF ListsInv
  <2>5. DefinedInv'
    BY <2>2, SameTables
  <2>6. job' \in Jobs /\ job'.into = into
    BY <1>3 DEF Without, Jobs
  <2>7. 0 \in 0..MaxIterations /\ 2 \in Nat \ {0, 1} /\ TRUE \in BOOLEAN /\ Len(file) \in Nat
    BY TypeFacts
  <2>8. iteration' \in 0..MaxIterations /\ it' \in Nat \ {0, 1} /\ isExpanded' \in BOOLEAN
    BY <1>3, <2>7, Zenon DEF Without
  <2>9. at' <= Len(file') => job'.into = "beamline"
    BY <2>2, <2>3, <2>6, <2>7 DEF TypeInv, ControlInv
  <2>10. file' \in Files
    BY <2>2 DEF TypeInv, ControlInv
  <2>11. ControlInv'
    BY <2>3, <2>6, <2>8, <2>9, <2>10 DEF ControlInv, Pcs
  <2> QED
    BY <2>4, <2>5, <2>11 DEF TypeInv
<1> QED
  BY <1>1, <1>2, <1>3, ExpandLineCases

\* So does use.
LEMMA UseType == ASSUME TypeInv, Use PROVE TypeInv'
<1>1. /\ pc = "parse" /\ at <= Len(file) /\ Statement.do = "use"
      /\ ExpandLine(Statement.name, Statement.start, Statement.end, "beamline")
  BY DEF Use, Reading
<1>2. Statement.name \in Names /\ Statement.start \in Names \union {None} /\ Statement.end \in Names \union {None}
  BY <1>1, TypeFacts DEF IsStatement
<1> QED
  BY <1>1, <1>2, ExpandLineType

\* So does the expansion of a declared line at the end.
LEMMA ExpandSequenceType == ASSUME TypeInv, ExpandSequence PROVE TypeInv'
<1> DEFINE k == at - Len(file)
<1>1. pc = "parse" /\ k \in 1..Len(sequences) /\ ExpandLine(sequences[k], None, None, "sequence")
  BY DEF ExpandSequence
<1>2. sequences[k] \in Names /\ ~(at <= Len(file))
  BY <1>1, TypeFacts DEF TypeInv, ControlInv
<1> QED
  BY <1>1, <1>2, ExpandLineType

\* The cases of a node.
Node == target.list[it]
NewEntries == Contents(defined[Node.name].lst, Node.type, Node.depth + 1)
AtNode == /\ pc = "expand" /\ it <= Len(target.list)
          /\ UNCHANGED <<pc, job, iteration, reason, file, at, defined, sequences, beamline, expanded>>
Passing == AtNode /\ ~IsLine(Node.type) /\ it' = it + 1 /\ UNCHANGED <<target, isExpanded>>
Replacing ==
    /\ AtNode /\ IsLine(Node.type) /\ HasList(Node.name) /\ isExpanded' = FALSE
    /\ target' = Erase(InsertAll(target, it, NewEntries), it + Len(defined[Node.name].lst))
    /\ it' = it + Len(defined[Node.name].lst)
Retyping ==
    /\ AtNode /\ IsLine(Node.type) /\ IsDefined(Node.name) /\ ~HasList(Node.name) /\ isExpanded' = FALSE
    /\ target' = [target EXCEPT !.list[it].type = defined[Node.name].type]
    /\ it' = it + 1

\* The ways a node is dealt with in a pass.
LEMMA ExpandNodeCases ==
    ASSUME ExpandNode
    PROVE  \/ \E why \in {"undefined", "memory"} : Exit(why)
           \/ Passing \/ Replacing \/ Retyping
<1> DEFINE lst == defined[Node.name].lst
<1>1. /\ pc = "expand" /\ it <= Len(target.list)
      /\ IF ~IsLine(Node.type)
         THEN /\ it' = it + 1
              /\ UNCHANGED <<pc, job, target, isExpanded, iteration, reason>>
              /\ UNCHANGED <<file, at, defined, sequences, beamline, expanded>>
         ELSE IF ~IsDefined(Node.name) THEN Exit("undefined")
         ELSE IF lst # None /\ Len(target.list) + Len(lst) - 1 > MaxLength THEN Exit("memory")
         ELSE /\ isExpanded' = FALSE
              /\ IF lst # None
                 THEN /\ target' = Erase(InsertAll(target, it, NewEntries), it + Len(lst))
                      /\ it' = it + Len(lst)
                 ELSE /\ target' = [target EXCEPT !.list[it].type = defined[Node.name].type]
                      /\ it' = it + 1
              /\ UNCHANGED <<pc, job, iteration, reason>>
              /\ UNCHANGED <<file, at, defined, sequences, beamline, expanded>>
  BY DEF ExpandNode, Node, NewEntries
<1>2. CASE ~IsLine(Node.type)
  BY <1>1, <1>2 DEF Passing, AtNode
<1>3. CASE IsLine(Node.type) /\ ~IsDefined(Node.name)
  BY <1>1, <1>3
<1>4. CASE IsLine(Node.type) /\ IsDefined(Node.name) /\ lst # None /\ Len(target.list) + Len(lst) - 1 > MaxLength
  BY <1>1, <1>4
<1>5. CASE /\ IsLine(Node.type) /\ IsDefined(Node.name)
           /\ ~(lst # None /\ Len(target.list) + Len(lst) - 1 > MaxLength)
  <2>1. CASE lst # None
    BY <1>1, <1>5, <2>1 DEF Replacing, AtNode, HasList, ListIn, IsDefined
  <2>2. CASE lst = None
    BY <1>1, <1>5, <2>2 DEF Retyping, AtNode, HasList, ListIn
  <2> QED
    BY <2>1, <2>2
<1> QED
  BY <1>2, <1>3, <1>4, <1>5

\* The node reached is one of the list's.
LEMMA NodeFacts ==
    ASSUME TypeInv, it <= Len(target.list)
    PROVE  /\ it \in 1..Len(target.list) /\ Node \in NodeType /\ it \in Nat \ {0, 1} /\ Len(target.list) \in Nat
           /\ IsLine(Node.type) => Node.type \in {"line", "revline"}
<1>1. target \in FastLists /\ it \in Nat \ {0, 1}
  BY DEF TypeInv, ListsInv, ControlInv
<1>2. it \in 1..Len(target.list) /\ Len(target.list) \in Nat /\ target.list[it] \in NodeType
  BY <1>1, FastListFacts
<1> QED
  BY <1>1, <1>2 DEF Node, IsLine

\* What takes the place of a line.
LEMMA ReplacingIs ==
    ASSUME TypeInv, Replacing
    PROVE  /\ defined[Node.name].lst \in Seq(Items) /\ Len(defined[Node.name].lst) \in Nat
           /\ Node.type \in {"line", "revline"} /\ Node.depth \in Nat
           /\ NewEntries \in Seq(EntryType) /\ Len(NewEntries) = Len(defined[Node.name].lst)
           /\ target' = Erase(InsertAll(target, it, NewEntries), it + Len(NewEntries))
<1>1. it \in 1..Len(target.list) /\ Node \in NodeType /\ Node.type \in {"line", "revline"}
  BY NodeFacts DEF Replacing, AtNode
<1>2. defined[Node.name].lst \in Seq(Items)
  BY TypeFacts DEF Replacing
<1>3. Node.depth \in Nat /\ Node.depth + 1 \in Nat
  BY <1>1 DEF NodeType
<1>4. /\ NewEntries \in Seq(EntryType) /\ Len(NewEntries) = Len(defined[Node.name].lst)
      /\ Len(defined[Node.name].lst) \in Nat
  BY <1>1, <1>2, <1>3, ContentsAre DEF NewEntries
<1> QED
  BY <1>1, <1>2, <1>3, <1>4 DEF Replacing

\* A node of a line with no list gets the type of its definition, and no more changes.
LEMMA RetypingIs ==
    ASSUME TypeInv, Retyping
    PROVE  /\ target' \in FastLists /\ target'.map = target.map /\ Len(target'.list) = Len(target.list)
           /\ \A p \in 1..Len(target.list) :
                target'.list[p] = IF p = it THEN [Node EXCEPT !.type = defined[Node.name].type]
                                  ELSE target.list[p]
<1> DEFINE s == [target.list EXCEPT ![it].type = defined[Node.name].type]
           new == [Node EXCEPT !.type = defined[Node.name].type]
<1>1. target \in FastLists /\ it \in 1..Len(target.list) /\ Node \in NodeType /\ Len(target.list) \in Nat
      /\ target.list \in Seq(NodeType) /\ target \in [list : Seq(NodeType), map : [Names -> Seq(Nat)]]
      /\ \A p \in 1..Len(target.list) : target.list[p] \in NodeType
  BY NodeFacts, FastListFacts DEF Retyping, AtNode, TypeInv, ListsInv, FastLists
<1>2. target' = [target EXCEPT !.list = s]
  BY <1>1 DEF Retyping
<1>3. target' = [list |-> s, map |-> target.map]
  BY <1>1, <1>2
<1>4. defined[Node.name].type \in Types
  BY DEF Retyping, TypeInv, DefinedInv, IsDefined, Types
<1>5. new \in NodeType /\ new.id = Node.id /\ new.name = Node.name
  BY <1>1, <1>4 DEF NodeType
<1>6. s = [target.list EXCEPT ![it] = new]
  BY <1>1 DEF Node
<1> HIDE DEF new, s
<1>7. /\ s \in Seq(NodeType) /\ Len(s) = Len(target.list)
      /\ \A p \in 1..Len(s) : s[p] = IF p = it THEN new ELSE target.list[p]
  BY <1>1, <1>5, <1>6
<1>8. \A p \in 1..Len(s) : s[p].id = target.list[p].id /\ s[p].name = target.list[p].name
  BY <1>5, <1>7 DEF Node
<1>9. [list |-> s, map |-> target.map] \in FastLists
  BY <1>1, <1>7, <1>8, ChangedInPlace
<1>10. target'.list = s /\ target'.map = target.map
  BY <1>3
<1> QED
  BY <1>3, <1>7, <1>9, <1>10 DEF new

\* A node dealt with leaves the types right.
LEMMA ExpandNodeType == ASSUME TypeInv, ExpandNode PROVE TypeInv'
<1>1. CASE \E why \in {"undefined", "memory"} : Exit(why)
  BY <1>1, ExitType
<1>2. CASE Passing \/ Replacing \/ Retyping
  <2>1. it \in 1..Len(target.list) /\ it \in Nat \ {0, 1} /\ AtNode
    BY <1>2, NodeFacts DEF Passing, Replacing, Retyping, AtNode
  <2>2. target' \in FastLists
    <3>1. CASE Passing
      BY <3>1 DEF Passing, TypeInv, ListsInv
    <3>2. CASE Replacing
      <4>1. NewEntries \in Seq(EntryType) /\ target \in FastLists
        BY <3>2, ReplacingIs DEF TypeInv, ListsInv
      <4>2. Erase(InsertAll(target, it, NewEntries), it + Len(NewEntries)) \in FastLists
        BY <2>1, <4>1, ReplaceIs
      <4> QED
        BY <3>2, <4>2, ReplacingIs
    <3>3. CASE Retyping
      BY <3>3, RetypingIs
    <3> QED
      BY <1>2, <3>1, <3>2, <3>3
  <2>3. it' \in Nat \ {0, 1}
    <3>1. CASE Replacing
      <4>1. Len(defined[Node.name].lst) \in Nat
        BY <3>1, ReplacingIs
      <4> QED
        BY <2>1, <3>1, <4>1 DEF Replacing
    <3>2. CASE Passing \/ Retyping
      BY <2>1, <3>2 DEF Passing, Retyping
    <3> QED
      BY <1>2, <3>1, <3>2
  <2>4. isExpanded' \in BOOLEAN
    <3>1. FALSE \in BOOLEAN /\ isExpanded \in BOOLEAN
      BY Zenon DEF TypeInv, ControlInv
    <3>2. isExpanded' = FALSE \/ isExpanded' = isExpanded
      BY <1>2, Zenon DEF Passing, Replacing, Retyping
    <3> QED
      BY <3>1, <3>2, Zenon
  <2>5. DefinedInv' /\ ListsInv'
    BY <2>1, <2>2, SameTables DEF AtNode, TypeInv, ListsInv
  <2>6. ControlInv'
    BY <2>1, <2>3, <2>4 DEF AtNode, TypeInv, ControlInv, HasList, ListIn, IsDefined
  <2> QED
    BY <2>5, <2>6 DEF TypeInv
<1> QED
  BY <1>1, <1>2, ExpandNodeCases

\* So does the end of a pass.
LEMMA EndPassType == ASSUME TypeInv, EndPass PROVE TypeInv'
<1>1. CASE TooMany(iteration + 1)
  BY <1>1, ExitType DEF EndPass
<1>2. CASE ~TooMany(iteration + 1)
  <2>1. /\ pc = "expand" /\ iteration' = iteration + 1
        /\ UNCHANGED <<job, target, reason, file, at, defined, sequences, beamline, expanded>>
        /\ \/ pc' = "range" /\ UNCHANGED <<it, isExpanded>>
           \/ it' = 2 /\ isExpanded' = TRUE /\ UNCHANGED pc
    BY <1>2 DEF EndPass
  <2>2. iteration' \in 0..MaxIterations
    BY <1>2, <2>1, TypeFacts DEF TooMany, TypeInv, ControlInv
  <2>3. isExpanded' \in BOOLEAN
    <3>1. TRUE \in BOOLEAN /\ isExpanded \in BOOLEAN
      BY Zenon DEF TypeInv, ControlInv
    <3> QED
      BY <2>1, <3>1, Zenon
  <2>4. DefinedInv' /\ ListsInv'
    BY <2>1, SameTables DEF TypeInv, ListsInv
  <2>5. it' \in Nat \ {0, 1} /\ pc' \in {"expand", "range"}
    BY <2>1 DEF TypeInv, ControlInv
  <2>6. ControlInv'
    BY <2>1, <2>2, <2>3, <2>5 DEF TypeInv, ControlInv, HasList, ListIn, IsDefined, Pcs
  <2> QED
    BY <2>4, <2>6 DEF TypeInv
<1> QED
  BY <1>1, <1>2

-----------------------------------------------------------------------------
\* The line without what is out of the range asked for.
Cut == CutAfter(CutBefore(target, job.start), job.end)
TunnelEntry == Entry(Tunnel, defined[Tunnel].type, 0)
Kept == IF IsDefined(Tunnel) THEN PushBack(Cut, TunnelEntry) ELSE Cut

\* What is left of a line by its range, with a tunnel, is a list in step.
LEMMA KeptIs ==
    ASSUME TypeInv
    PROVE  /\ CutBefore(target, job.start) \in FastLists /\ Cut \in FastLists /\ Kept \in FastLists
           /\ IsDefined(Tunnel) => TunnelEntry \in EntryType
           /\ job.start \in Names \union {None} /\ job.end \in Names \union {None}
<1>1. job.start \in Names \union {None} /\ job.end \in Names \union {None} /\ target \in FastLists
  BY DEF TypeInv, ControlInv, Jobs, ListsInv
<1>2. CutBefore(target, job.start) \in FastLists
  BY <1>1, CutIs
<1>3. Cut \in FastLists
  BY <1>1, <1>2, CutIs DEF Cut
<1>4. IsDefined(Tunnel) => TunnelEntry \in EntryType
  BY DEF TypeInv, DefinedInv, IsDefined, TunnelEntry, Entry, EntryType, Types
<1>5. Kept \in FastLists
  BY <1>3, <1>4, PushBackIs DEF Kept
<1> QED
  BY <1>1, <1>2, <1>3, <1>4, <1>5

\* The last step of an expansion.
LEMMA KeepRangeIs ==
    ASSUME KeepRange
    PROVE  /\ pc = "range" /\ target' = Kept /\ Finish(Kept)
           /\ UNCHANGED <<job, it, isExpanded, iteration, file, defined, sequences, reason>>
  BY DEF KeepRange, Kept, Cut, TunnelEntry

\* It leaves the types right.
LEMMA KeepRangeType == ASSUME TypeInv, KeepRange PROVE TypeInv'
<1>1. /\ pc = "range" /\ target' = Kept /\ Finish(Kept) /\ Kept \in FastLists
      /\ UNCHANGED <<job, it, isExpanded, iteration, file, defined, sequences, reason>>
  BY KeepRangeIs, KeptIs
<1>2. /\ beamline' \in FastLists /\ \A n \in DOMAIN expanded' : expanded'[n] \in FastLists
      /\ at' \in Nat \ {0} /\ at' = at + 1 /\ pc' = "parse"
  BY <1>1, FinishType
<1>3. DefinedInv' /\ ListsInv'
  BY <1>1, <1>2, SameTables DEF ListsInv
<1>4. at' <= Len(file') => job'.into = "beamline"
  BY <1>1, <1>2, TypeFacts DEF TypeInv, ControlInv
<1>5. ControlInv'
  BY <1>1, <1>2, <1>4 DEF TypeInv, ControlInv, Pcs
<1> QED
  BY <1>3, <1>5 DEF TypeInv

\* Samplers on some nodes of the beam line.
Sampled(positions) ==
    [p \in 1..Len(beamline.list) |->
        IF p \in Carriers(beamline, positions)
        THEN [beamline.list[p] EXCEPT !.sampler = Statement.name]
        ELSE beamline.list[p]]
Attaching(positions) ==
    /\ \A p \in positions : ~RunsOffTheList(beamline, p)
    /\ beamline' = [list |-> Sampled(positions), map |-> beamline.map]
    /\ at' = at + 1
    /\ UNCHANGED <<file, pc, defined, sequences, expanded, expansion, reason>>
RunningOff(positions) ==
    /\ \E p \in positions : RunsOffTheList(beamline, p)
    /\ pc' = "undefined"
    /\ UNCHANGED <<file, at, defined, sequences, beamline, expanded, expansion, reason>>

\* A FastList whose list is replaced keeps its index.
LEMMA ListWith ==
    ASSUME NEW L \in FastLists, NEW s
    PROVE  [L EXCEPT !.list = s] = [list |-> s, map |-> L.map]
  BY DEF FastLists

\* Samplers are attached, or the walk leaves the list.
LEMMA AttachToCases ==
    ASSUME TypeInv, NEW positions, AttachTo(positions)
    PROVE  Attaching(positions) \/ RunningOff(positions)
<1>1. CASE \E p \in positions : RunsOffTheList(beamline, p)
  BY <1>1 DEF AttachTo, RunningOff
<1>2. CASE ~ \E p \in positions : RunsOffTheList(beamline, p)
  <2>1. beamline' = [beamline EXCEPT !.list = Sampled(positions)]
    BY <1>2 DEF AttachTo, Sampled
  <2>2. beamline \in FastLists
    BY DEF TypeInv, ListsInv
  <2>3. beamline' = [list |-> Sampled(positions), map |-> beamline.map]
    BY <2>1, <2>2, ListWith
  <2> QED
    BY <1>2, <2>3 DEF AttachTo, Attaching
<1> QED
  BY <1>1, <1>2

\* The two ways to sample by name.
LEMMA SampleCases ==
    ASSUME TypeInv, SampleInstances \/ SampleInstance
    PROVE  /\ pc = "parse" /\ at <= Len(file) /\ Statement.name \in Names /\ Statement.do = "sample"
           /\ \/ Exit("nosuch")
              \/ \E positions \in SUBSET (1..Len(beamline.list)) :
                    /\ AttachTo(positions)
                    /\ \A p \in positions : beamline.list[p].name = Statement.name
<1>1. pc = "parse" /\ at <= Len(file) /\ Statement.do = "sample"
  BY DEF SampleInstances, SampleInstance, Reading
<1>2. Statement.name \in Names /\ beamline \in FastLists
  BY <1>1, TypeFacts DEF IsStatement, TypeInv, ListsInv
<1>3. CASE SampleInstances
  <2> DEFINE s == Positions(beamline, Statement.name)
  <2>1. Exit("nosuch") \/ AttachTo(ToSet(s))
    BY <1>3 DEF SampleInstances
  <2>2. s \in Seq(1..Len(beamline.list)) /\ DOMAIN s = 1..Len(beamline.map[Statement.name])
        /\ \A c \in DOMAIN s : s[c] \in 1..Len(beamline.list) /\ beamline.list[s[c]].name = Statement.name
    <3>1. /\ s \in Seq(1..Len(beamline.list)) /\ Len(s) = Len(beamline.map[Statement.name])
          /\ \A c \in 1..Len(beamline.map[Statement.name]) :
               s[c] \in 1..Len(beamline.list) /\ beamline.list[s[c]].name = Statement.name
      BY <1>2, PositionsAre
    <3> QED
      BY <3>1
  <2> HIDE DEF s
  <2>3. /\ ToSet(s) \in SUBSET (1..Len(beamline.list))
        /\ \A p \in ToSet(s) : beamline.list[p].name = Statement.name
    BY <2>2 DEF ToSet
  <2> QED
    BY <1>1, <1>2, <2>1, <2>3
<1>4. CASE SampleInstance
  <2> DEFINE p == Find(beamline, Statement.name, Statement.count)
  <2>1. IF p = 0 THEN Exit("nosuch") ELSE AttachTo({p})
    BY <1>4 DEF SampleInstance
  <2>2. /\ p \in 0..Len(beamline.list) /\ Len(beamline.list) \in Nat
        /\ p # 0 => beamline.list[p].name = Statement.name
    BY <1>2, FindIs, FastListFacts
  <2> HIDE DEF p
  <2>3. p # 0 => {p} \in SUBSET (1..Len(beamline.list))
    BY <2>2
  <2> QED
    BY <1>1, <1>2, <2>1, <2>2, <2>3
<1> QED
  BY <1>3, <1>4

\* Attaching changes the samplers of the carriers and nothing else.
LEMMA SampledIs ==
    ASSUME TypeInv, NEW positions, Statement.name \in Names
    PROVE  /\ Sampled(positions) \in Seq(NodeType) /\ Len(Sampled(positions)) = Len(beamline.list)
           /\ \A p \in 1..Len(beamline.list) :
                LET e == Sampled(positions)[p] IN
                /\ e.id = beamline.list[p].id /\ e.name = beamline.list[p].name
                /\ e.type = beamline.list[p].type
                /\ e.sampler = IF p \in Carriers(beamline, positions) THEN Statement.name
                               ELSE beamline.list[p].sampler
           /\ [list |-> Sampled(positions), map |-> beamline.map] \in FastLists
<1> DEFINE m == Len(beamline.list)
           s == Sampled(positions)
<1>1. beamline \in FastLists /\ m \in Nat /\ \A p \in 1..m : beamline.list[p] \in NodeType
  BY FastListFacts DEF TypeInv, ListsInv
<1>2. s = [p \in 1..m |-> IF p \in Carriers(beamline, positions)
                          THEN [beamline.list[p] EXCEPT !.sampler = Statement.name]
                          ELSE beamline.list[p]]
  BY DEF Sampled
<1> HIDE DEF s
<1>3. ASSUME NEW p \in 1..m
      PROVE  /\ s[p] \in NodeType
             /\ s[p].id = beamline.list[p].id /\ s[p].name = beamline.list[p].name
             /\ s[p].type = beamline.list[p].type
             /\ s[p].sampler = IF p \in Carriers(beamline, positions) THEN Statement.name
                               ELSE beamline.list[p].sampler
  <2>1. s[p] = IF p \in Carriers(beamline, positions)
               THEN [beamline.list[p] EXCEPT !.sampler = Statement.name]
               ELSE beamline.list[p]
    BY <1>2
  <2>2. beamline.list[p] \in NodeType
    BY <1>1
  <2> DEFINE e == beamline.list[p]
  <2> HIDE DEF e
  <2>3. /\ [e EXCEPT !.sampler = Statement.name] \in NodeType
        /\ LET f == [e EXCEPT !.sampler = Statement.name]
           IN  f.id = e.id /\ f.name = e.name /\ f.type = e.type /\ f.sampler = Statement.name
    BY <2>2 DEF NodeType, e
  <2> QED
    BY <2>1, <2>2, <2>3 DEF e
<1>4. s \in Seq(NodeType) /\ Len(s) = m
  <2>1. s = [p \in 1..m |-> s[p]]
    BY <1>2
  <2> QED
    BY <1>1, <1>3, <2>1
<1>5. [list |-> s, map |-> beamline.map] \in FastLists
  BY <1>1, <1>3, <1>4, ChangedInPlace
<1> QED
  BY <1>3, <1>4, <1>5 DEF s

SampledAll ==
    [p \in 1..Len(beamline.list) |-> [beamline.list[p] EXCEPT !.sampler =
        IF ~IsLine(beamline.list[p].type) /\ Statement.type \in {None, beamline.list[p].type}
        THEN beamline.list[p].name ELSE beamline.list[p].sampler]]

\* So does sampling all, for nodes that are not lines.
LEMMA SampleAllIs ==
    ASSUME TypeInv, SampleAll
    PROVE  /\ pc = "parse" /\ at <= Len(file) /\ Statement.do = "sampleall" /\ at' = at + 1
           /\ UNCHANGED <<file, pc, defined, sequences, expanded, expansion, reason>>
           /\ beamline' \in FastLists /\ Len(beamline'.list) = Len(beamline.list)
           /\ \A p \in 1..Len(beamline.list) :
                LET e == beamline.list[p]
                    f == beamline'.list[p] IN
                /\ f.name = e.name /\ f.type = e.type
                /\ f.sampler = e.name \/ f.sampler = e.sampler
<1> DEFINE m == Len(beamline.list)
           s == SampledAll
<1>1. beamline \in FastLists /\ m \in Nat /\ \A p \in 1..m : beamline.list[p] \in NodeType
  BY FastListFacts DEF TypeInv, ListsInv
<1>2. /\ pc = "parse" /\ at <= Len(file) /\ Statement.do = "sampleall" /\ at' = at + 1
      /\ UNCHANGED <<file, pc, defined, sequences, expanded, expansion, reason>>
  BY DEF SampleAll, Reading
<1>3. beamline' = [beamline EXCEPT !.list = s]
  <2> DEFINE r == [p \in 1..m |->
                      LET e == beamline.list[p]
                      IN  [e EXCEPT !.sampler = IF ~IsLine(e.type) /\ Statement.type \in {None, e.type}
                                                THEN e.name ELSE @]]
  <2>1. beamline' = [beamline EXCEPT !.list = r]
    BY <1>1 DEF SampleAll, FastLists
  <2>2. r = s
    BY <1>1 DEF SampledAll, NodeType
  <2> QED
    BY <2>1, <2>2
<1>4. beamline' = [list |-> s, map |-> beamline.map]
  BY <1>1, <1>3, ListWith
<1>5. s = [p \in 1..m |-> s[p]]
  BY DEF SampledAll
<1>6. ASSUME NEW p \in 1..m
      PROVE  LET e == beamline.list[p] IN
             /\ s[p] \in NodeType /\ s[p].id = e.id /\ s[p].name = e.name /\ s[p].type = e.type
             /\ s[p].sampler = e.name \/ s[p].sampler = e.sampler
  <2> DEFINE e == beamline.list[p]
             y == IF ~IsLine(e.type) /\ Statement.type \in {None, e.type} THEN e.name ELSE e.sampler
  <2>1. s[p] = [e EXCEPT !.sampler = y] /\ e \in NodeType
    BY <1>1 DEF SampledAll
  <2>2. y = e.name \/ y = e.sampler
    OBVIOUS
  <2> HIDE DEF s, e, y
  <2>3. y \in Names \union {None}
    BY <2>1, <2>2 DEF NodeType
  <2>4. /\ s[p] \in NodeType /\ s[p].id = e.id /\ s[p].name = e.name /\ s[p].type = e.type
        /\ s[p].sampler = y
    BY <2>1, <2>3 DEF NodeType
  <2> QED
    BY <2>2, <2>4 DEF e
<1> HIDE DEF s
<1>7. s \in Seq(NodeType) /\ Len(s) = m
  BY <1>1, <1>5, <1>6
<1>8. [list |-> s, map |-> beamline.map] \in FastLists
  BY <1>1, <1>6, <1>7, ChangedInPlace
<1>9. beamline'.list = s
  BY <1>4
<1> QED
  BY <1>2, <1>4, <1>6, <1>7, <1>8, <1>9

-----------------------------------------------------------------------------
\* Samplers leave the types right.
LEMMA SampleType ==
    ASSUME TypeInv, SampleInstances \/ SampleInstance \/ SampleAll \/ Stop PROVE TypeInv'
\* A step that changes the beam line alone.
<1>1. ASSUME pc = "parse", beamline' \in FastLists, at' = at + 1,
             UNCHANGED <<file, pc, defined, sequences, expanded, expansion, reason>>
      PROVE  TypeInv'
  <2>1. DefinedInv' /\ ListsInv'
    BY <1>1, SameTables DEF TypeInv, ListsInv, expansion
  <2>2. ControlInv'
    BY <1>1, TypeFacts DEF TypeInv, ControlInv, expansion
  <2> QED
    BY <2>1, <2>2 DEF TypeInv
<1>2. CASE SampleInstances \/ SampleInstance
  <2>1. /\ pc = "parse" /\ Statement.name \in Names
        /\ Exit("nosuch") \/ \E positions : AttachTo(positions)
    BY <1>2, SampleCases
  <2>2. ASSUME NEW positions, AttachTo(positions) PROVE TypeInv'
    <3>1. CASE Attaching(positions)
      BY <1>1, <2>1, <3>1, SampledIs DEF Attaching
    <3>2. CASE RunningOff(positions)
      <4>1. DefinedInv' /\ ListsInv'
        BY <3>2, SameTables DEF RunningOff, TypeInv, ListsInv, expansion
      <4>2. ControlInv'
        BY <3>2 DEF RunningOff, TypeInv, ControlInv, expansion, Pcs
      <4> QED
        BY <4>1, <4>2 DEF TypeInv
    <3> QED
      BY <2>2, <3>1, <3>2, AttachToCases
  <2> QED
    BY <2>1, <2>2, ExitType
<1>3. CASE SampleAll
  BY <1>1, <1>3, SampleAllIs
<1>4. CASE Stop
  <2>1. DefinedInv' /\ ListsInv'
    BY <1>4, SameTables DEF Stop, TypeInv, ListsInv, expansion
  <2>2. ControlInv'
    BY <1>4 DEF Stop, TypeInv, ControlInv, expansion, Pcs
  <2> QED
    BY <2>1, <2>2 DEF TypeInv
<1> QED
  BY <1>2, <1>3, <1>4

\* TypeInv is inductive.
LEMMA NextTypeInv == ASSUME TypeInv, [Next]_vars PROVE TypeInv'
<1>1. CASE Next
  BY <1>1, DeclareType, UseType, ExpandSequenceType, ExpandNodeType, EndPassType, KeepRangeType, SampleType DEF Next
<1>2. CASE UNCHANGED vars
  <2>1. DefinedInv' /\ ListsInv'
    BY <1>2, SameTables DEF vars, TypeInv, ListsInv, expansion
  <2>2. ControlInv'
    BY <1>2 DEF vars, TypeInv, ControlInv, expansion, HasList, ListIn, IsDefined
  <2> QED
    BY <2>1, <2>2 DEF TypeInv
<1> QED
  BY <1>1, <1>2

\* It gives the property the runs check.
LEMMA TypeInvIsTyped == ASSUME TypeInv PROVE TypeOK
<1>1. ASSUME NEW L \in FastLists
      PROVE  InStep(L) /\ \A p \in 1..Len(L.list) : L.list[p].type \in Types
  BY FastListFacts DEF NodeType
<1>2. \A L \in {beamline, target} \union {expanded[n] : n \in DOMAIN expanded} : L \in FastLists
  BY DEF TypeInv, ListsInv
<1>3. \A n \in DOMAIN defined : defined[n].type \in Types \ {"revline"}
  BY DEF TypeInv, DefinedInv, Types
<1>4. file \in Files /\ at \in Nat /\ it \in Nat /\ iteration \in 0..MaxIterations
      /\ pc \in {"parse", "expand", "range", "exit", "undefined", "done"}
  BY DEF TypeInv, ControlInv, Pcs
<1> QED
  BY <1>1, <1>2, <1>3, <1>4 DEF TypeOK

\* The variables have their types, and every list of the parser is in step with
\* its index, whatever is declared, expanded, cut and sampled (FastList).
THEOREM LineTypeCorrect == Spec => []TypeOK
<1>1. Init => TypeInv
  BY InitTypeInv
<1>2. TypeInv /\ [Next]_vars => TypeInv'
  BY NextTypeInv
<1>3. TypeInv => TypeOK
  BY TypeInvIsTyped
<1> QED
  BY <1>1, <1>2, <1>3, PTL DEF Spec

\* The first and the last node that a range keeps.
FirstKept(L, start) == IF start = None \/ Find(L, start, 1) = 0 THEN 1 ELSE Find(L, start, 1)
LastKept(L, end) == IF end = None \/ Find(L, end, 1) = 0 THEN Len(L.list) ELSE Find(L, end, 1)

\* The index of C has what it has of each name in the order of that of L.
SameOrder(C, L) ==
    \A n \in Names : \A k, l \in 1..Len(C.map[n]) :
        k < l => \E i, j \in 1..Len(L.map[n]) :
                    i < j /\ C.map[n][k] = L.map[n][i] /\ C.map[n][l] = L.map[n][j]

\* What the start of a range leaves, and how its index is related to that before.
LEMMA CutBeforeIs ==
    ASSUME NEW L \in FastLists, NEW start \in Names \union {None}, Len(L.list) > 0
    PROVE  LET C == CutBefore(L, start)
               from == FirstKept(L, start)
           IN  /\ C \in FastLists /\ from \in 1..Len(L.list) /\ Len(C.list) = Len(L.list) - from + 1
               /\ \A p \in 1..Len(C.list) : C.list[p] = L.list[p + from - 1]
               /\ from = 1 \/ (start # None /\ L.list[from].name = start)
               /\ SameOrder(C, L)
<1> DEFINE C == CutBefore(L, start)
           from == FirstKept(L, start)
           p == Find(L, start, 1)
           m == Len(L.list)
<1>1. m \in Nat /\ m > 0
  BY FastListFacts
<1>2. CASE start = None \/ p = 0
  <2>1. C = L
    BY <1>2 DEF CutBefore
  <2>2. from = 1
    BY <1>2 DEF FirstKept
  <2>3. \A q \in 1..m : q + 1 - 1 = q
    BY <1>1
  <2>4. from \in 1..m /\ m - from + 1 = m
    BY <1>1, <2>2
  <2>5. SameOrder(L, L)
    BY DEF SameOrder
  <2>6. \A q \in 1..Len(C.list) : C.list[q] = L.list[q + from - 1]
    BY <2>1, <2>2, <2>3
  <2> HIDE DEF C, from
  <2> QED
    BY <2>1, <2>2, <2>4, <2>5, <2>6 DEF C, from
<1>3. CASE start # None /\ p # 0
  <2>1. start \in Names
    BY <1>3
  <2>2. p \in 0..m /\ L.list[p].name = start
    BY <1>3, <2>1, FindIs
  <2>3. from = p /\ C = EraseRange(L, 1, p - 1)
    BY <1>3 DEF FirstKept, CutBefore
  <2> HIDE DEF p, C, from, m
  <2>4. p \in 1..m /\ 1 \in 1..(m + 1) /\ p - 1 \in (1 - 1)..m
    BY <1>1, <1>3, <2>2
  <2>5. Erased(C, L, 1, p - 1)
    BY <2>3, <2>4, EraseRangeIs DEF m
  <2>6. p - 1 - 1 + 1 = p - 1 /\ m - (p - 1) = m - p + 1
    BY <1>1, <2>4
  <2>7. Len(C.list) = m - p + 1
    BY <2>5, <2>6 DEF Erased, m
  <2>8. ASSUME NEW q \in 1..Len(C.list) PROVE C.list[q] = L.list[q + p - 1]
    <3>1. q + (p - 1) = q + p - 1 /\ ~(q < 1)
      BY <1>1, <2>4, <2>7
    <3> QED
      BY <2>5, <2>6, <3>1 DEF Erased
  <2> QED
    <3>1. SameOrder(C, L)
      BY <2>5 DEF Erased, SameOrder
    <3>2. C \in FastLists
      BY <2>5 DEF Erased
    <3> QED
      BY <1>3, <2>2, <2>3, <2>4, <2>7, <2>8, <3>1, <3>2 DEF m, C, from
<1> QED
  BY <1>2, <1>3

\* What the end of a range leaves.
LEMMA CutAfterIs ==
    ASSUME NEW L \in FastLists, NEW end \in Names \union {None}, Len(L.list) > 0
    PROVE  LET C == CutAfter(L, end)
               to == LastKept(L, end)
           IN  /\ C \in FastLists /\ to \in 1..Len(L.list) /\ Len(C.list) = to
               /\ \A p \in 1..to : C.list[p] = L.list[p]
<1> DEFINE C == CutAfter(L, end)
           to == LastKept(L, end)
           p == Find(L, end, 1)
           m == Len(L.list)
<1>1. m \in Nat /\ m > 0
  BY FastListFacts
<1>2. CASE end = None \/ p = 0
  <2>1. C = L /\ to = m
    BY <1>2 DEF CutAfter, LastKept
  <2>2. m \in 1..m
    BY <1>1
  <2> HIDE DEF C, to
  <2> QED
    BY <2>1, <2>2 DEF C, to
<1>3. CASE end # None /\ p # 0
  <2>1. end \in Names
    BY <1>3
  <2>2. p \in 0..m
    BY <1>3, <2>1, FindIs
  <2>3. to = p /\ C = EraseRange(L, p + 1, m)
    BY <1>3 DEF LastKept, CutAfter
  <2> HIDE DEF p, C, to, m
  <2>4. p \in 1..m /\ p + 1 \in 1..(m + 1) /\ m \in (p + 1 - 1)..m
    BY <1>1, <1>3, <2>2
  <2>5. Erased(C, L, p + 1, m)
    BY <2>3, <2>4, EraseRangeIs DEF m
  <2>6. m - (p + 1) + 1 = m - p /\ m - (m - p) = p
    BY <1>1, <2>4
  <2>7. Len(C.list) = p
    BY <2>5, <2>6 DEF Erased, m
  <2>8. ASSUME NEW q \in 1..p PROVE C.list[q] = L.list[q]
    <3>1. q < p + 1
      BY <2>4
    <3> QED
      BY <2>5, <2>7, <3>1 DEF Erased
  <2> QED
    BY <2>3, <2>4, <2>5, <2>7, <2>8 DEF Erased, m, C, to
<1> QED
  BY <1>2, <1>3

-----------------------------------------------------------------------------
\* A line that is being expanded begins with itself.
HeaderInv ==
    pc \in {"expand", "range"} =>
        /\ Len(target.list) > 0 /\ target.list[1].name = job.name /\ target.list[1].type = "line"
        /\ target.list[1].depth = 0
        /\ \A p \in 1..Len(target.list) : target.list[p].sampler = None
        /\ pc = "expand" => it <= Len(target.list) + 1

\* An expansion begins with the line itself.
LEMMA HeaderStarts ==
    ASSUME TypeInv, NEW name \in Names, NEW start, NEW end, NEW into, Starting(name, start, end, into)
    PROVE  HeaderInv'
<1> DEFINE lst == defined[name].lst
<1>1. lst \in Seq(Items) /\ Len(lst) \in Nat
  BY TypeFacts DEF Starting
<1>2. target' = StartOf(name, lst) /\ job'.name = name /\ it' = 2 /\ pc' = "expand"
  BY DEF Starting
<1> HIDE DEF lst
<1>3. /\ Len(target'.list) = Len(lst) + 1 /\ target'.list[1] = HeaderOf(name).list[1]
      /\ \A i \in 1..Len(lst) : target'.list[i + 1].sampler = None
  BY <1>1, <1>2, StartIs
<1>4. /\ HeaderOf(name).list[1].name = name /\ HeaderOf(name).list[1].type = "line"
      /\ HeaderOf(name).list[1].depth = 0 /\ HeaderOf(name).list[1].sampler = None
  BY HeaderIs
<1>5. ASSUME NEW p \in 1..(Len(lst) + 1) PROVE target'.list[p].sampler = None
  <2>1. CASE p = 1
    BY <1>3, <1>4, <2>1
  <2>2. CASE p # 1
    <3> DEFINE i == p - 1
    <3>1. i \in 1..Len(lst) /\ i + 1 = p
      BY <1>1, <2>2
    <3> HIDE DEF i
    <3> QED
      BY <1>3, <3>1
  <2> QED
    BY <2>1, <2>2
<1> QED
  BY <1>1, <1>2, <1>3, <1>4, <1>5 DEF HeaderInv

\* No node of a pass is put before it.
LEMMA HeaderStays ==
    ASSUME TypeInv, HeaderInv, Passing \/ Replacing \/ Retyping PROVE HeaderInv'
<1>1. it \in 1..Len(target.list) /\ it \in Nat \ {0, 1} /\ AtNode /\ Len(target.list) \in Nat
  BY NodeFacts DEF Passing, Replacing, Retyping, AtNode
<1>2. /\ pc = "expand" /\ pc' = pc /\ job' = job
      /\ target.list[1].name = job.name /\ target.list[1].type = "line" /\ target.list[1].depth = 0
      /\ \A p \in 1..Len(target.list) : target.list[p].sampler = None
  BY <1>1 DEF AtNode, HeaderInv
<1>3. CASE Passing
  BY <1>1, <1>2, <1>3 DEF Passing, HeaderInv
<1>4. CASE Replacing
  <2> DEFINE k == Len(NewEntries)
  <2>1. NewEntries \in Seq(EntryType) /\ target \in FastLists /\ k \in Nat /\ it' = it + k
        /\ target' = Erase(InsertAll(target, it, NewEntries), it + k)
    BY <1>4, ReplacingIs DEF TypeInv, ListsInv, Replacing
  <2> DEFINE new == NewNodes(target, NewEntries)
             m == Len(target.list)
  <2>2. /\ Len(target'.list) = m - 1 + k
        /\ \A p \in 1..Len(target'.list) :
                target'.list[p] = IF p < it THEN target.list[p]
                            ELSE IF p < it + k THEN new[p - it + 1]
                            ELSE target.list[p - k + 1]
    BY <1>1, <2>1, ReplaceIs
  <2>3. \A i \in 1..k : new[i].sampler = None
    BY <2>1, NewNodesAre
  <2> HIDE DEF new, m, k
  <2>4. ASSUME NEW p \in 1..Len(target'.list) PROVE target'.list[p].sampler = None
    <3>1. CASE p < it
      BY <1>1, <1>2, <2>2, <3>1 DEF m
    <3>2. CASE ~(p < it) /\ p < it + k
      <4>1. p - it + 1 \in 1..k
        BY <1>1, <2>1, <3>2
      <4> QED
        BY <2>2, <2>3, <3>2, <4>1
    <3>3. CASE ~(p < it) /\ ~(p < it + k)
      <4>1. p - k + 1 \in 1..m
        BY <1>1, <2>1, <2>2, <3>3 DEF m
      <4> QED
        BY <1>2, <2>2, <3>3, <4>1 DEF m
    <3> QED
      BY <3>1, <3>2, <3>3
  <2>5. 1 \in 1..Len(target'.list) /\ 1 < it /\ Len(target'.list) > 0 /\ it' <= Len(target'.list) + 1
    BY <1>1, <2>1, <2>2 DEF m
  <2>6. target'.list[1] = target.list[1]
    BY <2>2, <2>5
  <2> QED
    BY <1>2, <2>4, <2>5, <2>6 DEF HeaderInv
<1>5. CASE Retyping
  <2>1. /\ Len(target'.list) = Len(target.list) /\ it' = it + 1
        /\ \A p \in 1..Len(target.list) :
                target'.list[p] = IF p = it THEN [Node EXCEPT !.type = defined[Node.name].type]
                                  ELSE target.list[p]
    BY <1>5, RetypingIs DEF Retyping
  <2>2. [Node EXCEPT !.type = defined[Node.name].type].sampler = None
    BY <1>1, <1>2, NodeFacts DEF Node, NodeType
  <2>3. 1 \in 1..Len(target.list) /\ 1 # it /\ Len(target.list) > 0
    BY <1>1
  <2>4. target'.list[1] = target.list[1] /\ it' <= Len(target'.list) + 1
    BY <1>1, <2>1, <2>3
  <2>5. \A p \in 1..Len(target'.list) : target'.list[p].sampler = None
    BY <1>2, <2>1, <2>2
  <2> QED
    BY <1>2, <2>1, <2>3, <2>4, <2>5 DEF HeaderInv
<1> QED
  BY <1>3, <1>4, <1>5

\* HeaderInv is inductive, given the types.
LEMMA HeaderKept == ASSUME TypeInv, HeaderInv, [Next]_vars PROVE HeaderInv'
<1>1. CASE pc' \notin {"expand", "range"}
  BY <1>1 DEF HeaderInv
<1>2. CASE UNCHANGED <<pc, job, target, it>>
  BY <1>2 DEF HeaderInv
<1>3. CASE Use
  <2>1. pc = "parse" /\ ExpandLine(Statement.name, Statement.start, Statement.end, "beamline")
        /\ Statement.name \in Names
    BY <1>3, TypeFacts DEF Use, Reading, IsStatement
  <2> QED
    BY <1>1, <2>1, ExpandLineCases, HeaderStarts DEF Exit, Without, Finish
<1>4. CASE ExpandSequence
  <2>1. PICK k \in 1..Len(sequences) : ExpandLine(sequences[k], None, None, "sequence")
    BY <1>4 DEF ExpandSequence
  <2>2. sequences[k] \in Names
    BY TypeFacts
  <2> QED
    BY <1>1, <2>1, <2>2, ExpandLineCases, HeaderStarts DEF Exit, Without, Finish
<1>5. CASE ExpandNode
  <2>1. CASE Passing \/ Replacing \/ Retyping
    BY <2>1, HeaderStays
  <2>2. CASE \E why \in {"undefined", "memory"} : Exit(why)
    BY <1>1, <2>2 DEF Exit
  <2> QED
    BY <1>5, <2>1, <2>2, ExpandNodeCases
<1>6. CASE EndPass
  <2>1. CASE TooMany(iteration + 1)
    BY <1>1, <1>6, <2>1 DEF EndPass, Exit
  <2>2. CASE ~TooMany(iteration + 1)
    <3>1. pc = "expand" /\ job' = job /\ target' = target /\ (pc' = "range" \/ it' = 2)
      BY <1>6, <2>2 DEF EndPass
    <3>2. Len(target.list) \in Nat
      BY FastListFacts DEF TypeInv, ListsInv
    <3> QED
      BY <3>1, <3>2 DEF HeaderInv
  <2> QED
    BY <2>1, <2>2
<1>7. CASE KeepRange
  BY <1>1, <1>7, KeepRangeIs DEF Finish
<1>8. CASE DeclareComponent \/ DeclareLine \/ DeclareNewInstance
  BY <1>1, <1>2, <1>8 DEF DeclareComponent, DeclareLine, DeclareNewInstance, WriteTable, Exit, expansion
<1>9. CASE SampleInstances \/ SampleInstance \/ SampleAll \/ Stop
  BY <1>1, <1>2, <1>9 DEF SampleInstances, SampleInstance, SampleAll, Stop, AttachTo, Exit, expansion
<1>10. CASE UNCHANGED vars
  BY <1>2, <1>10 DEF vars, expansion
<1> QED
  BY <1>3, <1>4, <1>5, <1>6, <1>7, <1>8, <1>9, <1>10 DEF Next

\* Where a range begins, and what is left of it.
Before1 == CutBefore(target, job.start)
Initial == FirstKept(target, job.start)
Final == LastKept(Before1, job.end)

\* The line cut to its range, in places of the whole line.
LEMMA KeptFacts ==
    ASSUME TypeInv, HeaderInv, pc = "range"
    PROVE  /\ Initial \in 1..Len(target.list) /\ Final \in 1..Len(Before1.list)
           /\ Len(Before1.list) = Len(target.list) - Initial + 1
           /\ \A p \in 1..Len(Before1.list) : Before1.list[p] = target.list[p + Initial - 1]
           /\ Len(Kept.list) = Final + (IF IsDefined(Tunnel) THEN 1 ELSE 0)
           /\ \A p \in 1..Final : Kept.list[p] = target.list[p + Initial - 1]
           /\ IsDefined(Tunnel) => Kept.list[Final + 1].name = Tunnel /\ Kept.list[Final + 1].sampler = None
           /\ Initial = 1 \/ (job.start # None /\ target.list[Initial].name = job.start)
           /\ Final \in Nat /\ Initial \in Nat /\ Len(target.list) \in Nat
<1>1. /\ target \in FastLists /\ Len(target.list) > 0 /\ Len(target.list) \in Nat
      /\ job.start \in Names \union {None} /\ job.end \in Names \union {None}
  BY FastListFacts DEF TypeInv, ListsInv, ControlInv, Jobs, HeaderInv
<1>2. /\ Before1 \in FastLists /\ Initial \in 1..Len(target.list)
      /\ Len(Before1.list) = Len(target.list) - Initial + 1
      /\ \A p \in 1..Len(Before1.list) : Before1.list[p] = target.list[p + Initial - 1]
      /\ Initial = 1 \/ (job.start # None /\ target.list[Initial].name = job.start)
  BY <1>1, CutBeforeIs DEF Before1, Initial
<1>3. Len(Before1.list) > 0 /\ Len(Before1.list) \in Nat
  BY <1>1, <1>2
<1>4. /\ Cut \in FastLists /\ Final \in 1..Len(Before1.list) /\ Len(Cut.list) = Final
      /\ \A p \in 1..Final : Cut.list[p] = Before1.list[p]
  BY <1>1, <1>2, <1>3, CutAfterIs DEF Cut, Final, Before1
<1>5. \A p \in 1..Final : Cut.list[p] = target.list[p + Initial - 1]
  BY <1>2, <1>3, <1>4
<1>6. CASE IsDefined(Tunnel)
  <2>1. TunnelEntry \in EntryType /\ TunnelEntry.name = Tunnel
    BY <1>6, KeptIs DEF TunnelEntry, Entry
  <2>2. Kept = PushBack(Cut, TunnelEntry)
    BY <1>6 DEF Kept
  <2>3. /\ Len(Kept.list) = Len(Cut.list) + 1
        /\ \A p \in 1..Len(Cut.list) : Kept.list[p] = Cut.list[p]
        /\ Kept.list[Len(Cut.list) + 1].name = TunnelEntry.name
        /\ Kept.list[Len(Cut.list) + 1].sampler = None
    BY <1>4, <2>1, <2>2, PushBackIs
  <2>4. \A p \in 1..Final : Kept.list[p] = target.list[p + Initial - 1]
    BY <1>4, <1>5, <2>3
  <2>5. Kept.list[Final + 1].name = Tunnel /\ Kept.list[Final + 1].sampler = None
    BY <1>4, <2>1, <2>3
  <2>6. Len(Kept.list) = Final + 1 /\ Final \in Nat /\ Initial \in Nat
    BY <1>2, <1>3, <1>4, <2>3
  <2> QED
    BY <1>1, <1>2, <1>4, <1>6, <2>4, <2>5, <2>6
<1>7. CASE ~IsDefined(Tunnel)
  <2>1. Kept = Cut
    BY <1>7 DEF Kept
  <2>2. Final + 0 = Final
    BY <1>3, <1>4
  <2> QED
    BY <1>1, <1>2, <1>4, <1>5, <1>7, <2>1, <2>2
<1> QED
  BY <1>6, <1>7

-----------------------------------------------------------------------------
SampledEarlier == \E i \in 1..(at - 1) : i <= Len(file) /\ file[i].do = "sampleall"
MarkerAfter(p) ==
    \E q \in (p + 1)..Len(beamline.list) :
        /\ beamline.list[q].name = beamline.list[p].sampler /\ beamline.list[q].type = "marker"
        /\ \A r \in (p + 1)..(q - 1) : IsSpecial(beamline.list[r].type)

SamplerInv ==
    \A p \in 1..Len(beamline.list) :
        LET e == beamline.list[p] IN
        /\ e.type = "marker" /\ e.sampler # None => SampledEarlier
        /\ e.sampler \notin {None, e.name} => ~IsSpecial(e.type) /\ MarkerAfter(p)

\* A beam line that begins with a marker begins with the start of its range.
BeamInv ==
    (pc \in {"parse", "undefined"} /\ job.into = "beamline" /\ Len(beamline.list) > 0) =>
       beamline.list[1].type = "line" \/ (job.start # None /\ beamline.list[1].name = job.start)
OffInv == pc = "undefined" => job.start # None /\ beamline.list[1].name = job.start

SampleInv == SamplerInv /\ BeamInv /\ OffInv

\* A line that is ready carries no samplers.
LEMMA FinishSampler ==
    ASSUME TypeInv, SamplerInv, NEW list, Finish(list), file' = file,
           \A p \in 1..Len(list.list) : list.list[p].sampler = None
    PROVE  SamplerInv'
<1>1. CASE job'.into = "beamline"
  <2>1. beamline' = list
    BY <1>1 DEF Finish
  <2> QED
    BY <2>1 DEF SamplerInv
<1>2. CASE job'.into # "beamline"
  <2>1. beamline' = beamline /\ at' = at + 1 /\ at \in Nat
    BY <1>2 DEF Finish, TypeInv, ControlInv
  <2>2. SampledEarlier => SampledEarlier'
    <3>1. \A i \in 1..(at - 1) : i \in 1..(at' - 1)
      BY <2>1
    <3> QED
      BY <3>1 DEF SampledEarlier
  <2>3. \A p : MarkerAfter(p) => MarkerAfter(p)'
    BY <2>1 DEF MarkerAfter
  <2> QED
    BY <2>1, <2>2, <2>3 DEF SamplerInv
<1> QED
  BY <1>1, <1>2

\* Steps that leave the beam line alone.
LEMMA SamplerSame ==
    ASSUME SamplerInv, UNCHANGED <<file, beamline>>, at \in Nat, at' \in {at, at + 1} PROVE SamplerInv'
<1>1. SampledEarlier => SampledEarlier'
  <2>1. CASE at' = at
    BY <2>1 DEF SampledEarlier
  <2>2. CASE at' = at + 1
    <3>1. \A i \in 1..(at - 1) : i \in 1..(at' - 1)
      BY <2>2
    <3> QED
      BY <3>1 DEF SampledEarlier
  <2> QED
    BY <2>1, <2>2
<1>2. \A p : MarkerAfter(p) => MarkerAfter(p)'
  BY DEF MarkerAfter
<1> QED
  BY <1>1, <1>2 DEF SamplerInv

\* The step from a marker to the element that carries its sampler.
LEMMA CarrierIs ==
    ASSUME NEW L \in FastLists, NEW p \in 1..Len(L.list), L.list[p].type = "marker" => Carrier(L, p) > 1
    PROVE  LET c == Carrier(L, p) IN
           /\ c \in 1..Len(L.list)
           /\ L.list[p].type # "marker" => c = p
           /\ L.list[p].type = "marker" => /\ c < p /\ ~IsSpecial(L.list[c].type)
                                           /\ \A r \in (c + 1)..(p - 1) : IsSpecial(L.list[r].type)
<1> DEFINE c == Carrier(L, p)
           I == {i \in 1..(p - 1) : ~IsSpecial(L.list[i].type)}
<1>1. Len(L.list) \in Nat
  BY FastListFacts
<1>2. CASE L.list[p].type # "marker"
  BY <1>2 DEF Carrier
<1>3. CASE L.list[p].type = "marker"
  <2>1. c = SelectLastInSubSeq(L.list, 1, p - 1, LAMBDA e : ~IsSpecial(e.type))
    BY <1>3 DEF Carrier
  <2>2. c = IF I # {} THEN Max(I) ELSE 0
    BY <2>1 DEF SelectLastInSubSeq
  <2>3. I # {}
    <3> HIDE DEF I, c
    <3>1. c > 1
      BY <1>3 DEF c
    <3> QED
      BY <2>2, <3>1
  <2>4. IsFiniteSet(I) /\ I \subseteq Int
    <3>1. IsFiniteSet(1..(p - 1))
      BY FS_Interval
    <3>2. I \subseteq 1..(p - 1)
      OBVIOUS
    <3> HIDE DEF I
    <3>3. I \in SUBSET (1..(p - 1))
      BY <3>2
    <3>4. IsFiniteSet(I)
      BY <3>1, <3>3, FS_Subset
    <3>5. \A i \in 1..(p - 1) : i \in Int
      OBVIOUS
    <3> QED
      BY <3>2, <3>4, <3>5
  <2>5. Max(I) \in I /\ \A i \in I : i <= Max(I)
    <3> HIDE DEF I
    <3> QED
      BY <2>3, <2>4, GreatestElement
  <2>6. c \in 1..(p - 1) /\ ~IsSpecial(L.list[c].type)
    BY <2>2, <2>3, <2>5
  <2>7. ASSUME NEW r \in (c + 1)..(p - 1) PROVE IsSpecial(L.list[r].type)
    <3>1. r \in 1..(p - 1)
      BY <2>6
    <3>2. r \in I => r <= c
      BY <2>2, <2>3, <2>5
    <3> HIDE DEF c
    <3>3. r \notin I
      BY <2>6, <3>2
    <3> QED
      BY <3>1, <3>3
  <2> HIDE DEF I
  <2> QED
    BY <1>1, <1>3, <2>6, <2>7
<1> QED
  BY <1>2, <1>3

\* A sampler attached is beside its name (Parser::set_sampler).
LEMMA AttachingSampler ==
    ASSUME TypeInv, SamplerInv, NEW positions \in SUBSET (1..Len(beamline.list)), Attaching(positions),
           \A p \in positions : beamline.list[p].name = Statement.name, Statement.name \in Names
    PROVE  SamplerInv'
<1> DEFINE m == Len(beamline.list)
           n == Statement.name
           s == Sampled(positions)
<1>1. /\ beamline' = [list |-> s, map |-> beamline.map] /\ file' = file /\ at' = at + 1
      /\ at \in Nat /\ beamline \in FastLists /\ m \in Nat
  BY FastListFacts DEF Attaching, TypeInv, ControlInv, ListsInv
<1>2. /\ Len(s) = m
      /\ \A p \in 1..m :
                /\ s[p].name = beamline.list[p].name
                /\ s[p].type = beamline.list[p].type
                /\ s[p].sampler = IF p \in Carriers(beamline, positions) THEN n ELSE beamline.list[p].sampler
  BY SampledIs
<1>3. beamline'.list = s
  BY <1>1
<1> HIDE DEF s, m, n
<1>4. SampledEarlier => SampledEarlier'
  <2>1. \A i \in 1..(at - 1) : i \in 1..(at' - 1)
    BY <1>1
  <2> QED
    BY <1>1, <2>1 DEF SampledEarlier
<1>5. ASSUME NEW p \in 1..m
      PROVE  LET e == s[p] IN
        /\ e.type = "marker" /\ e.sampler # None => SampledEarlier'
        /\ e.sampler \notin {None, e.name} =>
             /\ ~IsSpecial(e.type)
             /\ \E q \in (p + 1)..m :
                    /\ s[q].name = e.sampler /\ s[q].type = "marker"
                    /\ \A r \in (p + 1)..(q - 1) : IsSpecial(s[r].type)
  <2>1. CASE p \in Carriers(beamline, positions)
    <3>1. PICK w \in positions : /\ p = Carrier(beamline, w)
                                 /\ beamline.list[w].type = "marker" => Carrier(beamline, w) > 1
      BY <2>1 DEF Carriers
    <3>2. w \in 1..m /\ beamline.list[w].name = n
      BY DEF m, n
    <3>3. /\ beamline.list[w].type # "marker" => p = w
          /\ beamline.list[w].type = "marker" =>
                 /\ p < w /\ ~IsSpecial(beamline.list[p].type)
                 /\ \A r \in (p + 1)..(w - 1) : IsSpecial(beamline.list[r].type)
      BY <1>1, <3>1, <3>2, CarrierIs DEF m
    <3>4. s[p].sampler = n /\ s[p].type = beamline.list[p].type /\ s[p].name = beamline.list[p].name
      BY <1>2, <2>1
    <3>5. CASE beamline.list[w].type # "marker"
      BY <3>2, <3>3, <3>4, <3>5
    <3>6. CASE beamline.list[w].type = "marker"
      <4>1. w \in (p + 1)..m
        BY <1>1, <3>2, <3>3, <3>6
      <4>2. s[w].name = n /\ s[w].type = "marker"
        BY <1>2, <3>2, <3>6
      <4>3. \A r \in (p + 1)..(w - 1) : r \in 1..m
        BY <1>1, <3>2
      <4>4. \A r \in (p + 1)..(w - 1) : IsSpecial(s[r].type)
        BY <1>2, <3>3, <3>6, <4>3
      <4>5. ~IsSpecial(s[p].type) /\ s[p].type # "marker"
        BY <3>3, <3>4, <3>6 DEF IsSpecial
      <4> QED
        BY <3>4, <4>1, <4>2, <4>4, <4>5
    <3> QED
      BY <3>5, <3>6
  <2>2. CASE p \notin Carriers(beamline, positions)
    <3>1. s[p].sampler = beamline.list[p].sampler /\ s[p].type = beamline.list[p].type
          /\ s[p].name = beamline.list[p].name
      BY <1>2, <2>2
    <3>2. /\ beamline.list[p].type = "marker" /\ beamline.list[p].sampler # None => SampledEarlier
          /\ beamline.list[p].sampler \notin {None, beamline.list[p].name} =>
                ~IsSpecial(beamline.list[p].type) /\ MarkerAfter(p)
      BY DEF SamplerInv, m
    <3>3. ASSUME MarkerAfter(p)
          PROVE  \E q \in (p + 1)..m :
                    /\ s[q].name = s[p].sampler /\ s[q].type = "marker"
                    /\ \A r \in (p + 1)..(q - 1) : IsSpecial(s[r].type)
      <4>1. PICK q \in (p + 1)..m :
                /\ beamline.list[q].name = beamline.list[p].sampler /\ beamline.list[q].type = "marker"
                /\ \A r \in (p + 1)..(q - 1) : IsSpecial(beamline.list[r].type)
        BY <3>3 DEF MarkerAfter, m
      <4>2. q \in 1..m /\ \A r \in (p + 1)..(q - 1) : r \in 1..m
        BY <1>1
      <4> QED
        BY <1>2, <3>1, <4>1, <4>2
    <3> QED
      BY <1>4, <3>1, <3>2, <3>3
  <2> QED
    BY <2>1, <2>2
<1> QED
  BY <1>2, <1>3, <1>5 DEF SamplerInv, MarkerAfter

\* Nothing is sampled at the start.
LEMMA InitSampleInv == Init => HeaderInv /\ SampleInv
<1> SUFFICES ASSUME Init PROVE HeaderInv /\ SampleInv
  OBVIOUS
<1>1. pc = "parse" /\ beamline.list = <<>> /\ Len(beamline.list) = 0
  BY DEF Init, Empty
<1>2. SamplerInv
  BY <1>1 DEF SamplerInv
<1>3. BeamInv /\ OffInv /\ HeaderInv
  BY <1>1 DEF BeamInv, OffInv, HeaderInv
<1> QED
  BY <1>2, <1>3 DEF SampleInv

\* Steps that leave the beam line and the parser's place alone.
LEMMA SampleSame ==
    ASSUME TypeInv, SampleInv, UNCHANGED <<file, beamline>>, at' \in {at, at + 1},
           UNCHANGED <<pc, job>> \/ pc' \notin {"parse", "undefined"}
    PROVE  SampleInv'
<1>1. SamplerInv'
  BY SamplerSame DEF SampleInv, TypeInv, ControlInv
<1>2. BeamInv' /\ OffInv'
  BY DEF SampleInv, BeamInv, OffInv
<1> QED
  BY <1>1, <1>2 DEF SampleInv

\* A list that is ready: the line without nodes, or the range kept.
LEMMA WithoutSample ==
    ASSUME TypeInv, SampleInv, NEW name \in Names, NEW start, NEW end, NEW into,
           Without(name, start, end, into)
    PROVE  SampleInv'
<1> DEFINE H == HeaderOf(name)
<1>1. Finish(H) /\ file' = file /\ pc' = "parse"
  BY DEF Without, Finish
<1>2. Len(H.list) = 1 /\ H.list[1].type = "line" /\ H.list[1].sampler = None
  BY HeaderIs
<1> HIDE DEF H
<1>3. \A p \in 1..Len(H.list) : H.list[p].sampler = None
  BY <1>2
<1>4. SamplerInv'
  BY <1>1, <1>3, FinishSampler DEF SampleInv
<1>5. job'.into = "beamline" => beamline' = H
  BY <1>1 DEF Finish
<1>6. BeamInv' /\ OffInv'
  BY <1>1, <1>2, <1>5 DEF BeamInv, OffInv
<1> QED
  BY <1>4, <1>6 DEF SampleInv

\* A line that is ready may begin with a marker only where it was cut.
LEMMA KeepRangeSample ==
    ASSUME TypeInv, HeaderInv, SampleInv, KeepRange PROVE SampleInv'
<1>1. pc = "range" /\ Finish(Kept) /\ UNCHANGED <<job, file>> /\ pc' = "parse"
  BY KeepRangeIs DEF Finish
<1>2. /\ Initial \in 1..Len(target.list) /\ Final \in 1..Len(Before1.list)
      /\ Len(Before1.list) = Len(target.list) - Initial + 1
      /\ Len(Kept.list) = Final + (IF IsDefined(Tunnel) THEN 1 ELSE 0)
      /\ \A p \in 1..Final : Kept.list[p] = target.list[p + Initial - 1]
      /\ IsDefined(Tunnel) => Kept.list[Final + 1].sampler = None
      /\ Initial = 1 \/ (job.start # None /\ target.list[Initial].name = job.start)
      /\ Final \in Nat /\ Initial \in Nat /\ Len(target.list) \in Nat
  BY <1>1, KeptFacts
<1>3. target.list[1].type = "line" /\ \A p \in 1..Len(target.list) : target.list[p].sampler = None
  BY <1>1 DEF HeaderInv
<1>4. ASSUME NEW p \in 1..Len(Kept.list) PROVE Kept.list[p].sampler = None
  <2>1. CASE p <= Final
    <3>1. p \in 1..Final /\ p + Initial - 1 \in 1..Len(target.list)
      BY <1>2, <2>1
    <3> QED
      BY <1>2, <1>3, <3>1
  <2>2. CASE p > Final
    <3>1. p = Final + 1 /\ IsDefined(Tunnel)
      BY <1>2, <2>2
    <3> QED
      BY <1>2, <3>1
  <2> QED
    BY <1>2, <2>1, <2>2
<1>5. SamplerInv'
  BY <1>1, <1>4, FinishSampler DEF SampleInv
<1>6. Kept.list[1] = target.list[Initial]
  <2>1. 1 \in 1..Final /\ 1 + Initial - 1 = Initial
    BY <1>2
  <2> QED
    BY <1>2, <2>1
<1>7. job'.into = "beamline" => beamline' = Kept
  BY <1>1 DEF Finish
<1>8. BeamInv' /\ OffInv'
  BY <1>1, <1>2, <1>3, <1>6, <1>7 DEF BeamInv, OffInv
<1> QED
  BY <1>5, <1>8 DEF SampleInv

\* Attaching keeps all that is said of samplers.
LEMMA AttachToSample ==
    ASSUME TypeInv, SampleInv, pc = "parse", at <= Len(file),
           NEW positions \in SUBSET (1..Len(beamline.list)), AttachTo(positions),
           \A p \in positions : beamline.list[p].name = Statement.name, Statement.name \in Names
    PROVE  SampleInv'
<1>0. Len(beamline.list) \in Nat /\ beamline \in FastLists
  BY FastListFacts DEF TypeInv, ListsInv
<1>1. CASE Attaching(positions)
  <2>1. SamplerInv'
    BY <1>1, AttachingSampler DEF SampleInv
  <2>2. UNCHANGED <<pc, job>> /\ beamline'.list = Sampled(positions)
    BY <1>1 DEF Attaching, expansion
  <2>3. /\ Len(Sampled(positions)) = Len(beamline.list)
        /\ \A p \in 1..Len(beamline.list) : Sampled(positions)[p].name = beamline.list[p].name
                                            /\ Sampled(positions)[p].type = beamline.list[p].type
    BY SampledIs
  <2>4. Len(beamline.list) > 0 => 1 \in 1..Len(beamline.list)
    BY <1>0
  <2>5. BeamInv' /\ OffInv'
    BY <2>2, <2>3, <2>4 DEF SampleInv, BeamInv, OffInv
  <2> QED
    BY <2>1, <2>5 DEF SampleInv
<1>2. CASE RunningOff(positions)
  <2>1. PICK p \in positions : RunsOffTheList(beamline, p)
    BY <1>2 DEF RunningOff
  <2>2. p = 1 /\ 1 \in 1..Len(beamline.list) /\ beamline.list[1].type = "marker" /\ Len(beamline.list) > 0
    BY <1>0, <2>1 DEF RunsOffTheList
  <2>3. job.into = "beamline"
    BY DEF TypeInv, ControlInv
  <2>4. job.start # None /\ beamline.list[1].name = job.start
    BY <2>2, <2>3 DEF SampleInv, BeamInv
  <2>5. UNCHANGED <<file, at, beamline, job>> /\ pc' = "undefined"
    BY <1>2 DEF RunningOff, expansion
  <2>6. BeamInv' /\ OffInv'
    BY <2>4, <2>5 DEF BeamInv, OffInv
  <2>7. SamplerInv'
    BY <2>5, SamplerSame DEF SampleInv, TypeInv, ControlInv
  <2> QED
    BY <2>6, <2>7 DEF SampleInv
<1> QED
  BY <1>1, <1>2, AttachToCases

\* So does sampling all, after which markers may have their own.
LEMMA SampleAllSample == ASSUME TypeInv, SampleInv, SampleAll PROVE SampleInv'
<1> DEFINE m == Len(beamline.list)
<1>1. /\ pc = "parse" /\ at <= Len(file) /\ Statement.do = "sampleall" /\ at' = at + 1
      /\ file' = file /\ pc' = pc /\ job' = job
      /\ Len(beamline'.list) = m
      /\ \A p \in 1..m :
                LET e == beamline.list[p]
                    f == beamline'.list[p] IN
                /\ f.name = e.name /\ f.type = e.type
                /\ f.sampler = e.name \/ f.sampler = e.sampler
  BY SampleAllIs DEF expansion
<1>2. m \in Nat /\ at \in Nat \ {0}
  BY FastListFacts DEF TypeInv, ListsInv, ControlInv
<1>3. SampledEarlier'
  <2>1. at \in 1..(at' - 1)
    BY <1>1, <1>2
  <2> QED
    BY <1>1, <2>1 DEF SampledEarlier, Statement
<1>4. ASSUME NEW p \in 1..m,
             beamline'.list[p].sampler \notin {None, beamline'.list[p].name}
      PROVE  ~IsSpecial(beamline'.list[p].type) /\ MarkerAfter(p)'
  <2>1. /\ beamline'.list[p].sampler = beamline.list[p].sampler
        /\ beamline'.list[p].type = beamline.list[p].type
        /\ beamline'.list[p].name = beamline.list[p].name
    BY <1>1, <1>4
  <2>2. ~IsSpecial(beamline.list[p].type) /\ MarkerAfter(p)
    BY <1>4, <2>1 DEF SampleInv, SamplerInv
  <2>3. PICK q \in (p + 1)..m :
                /\ beamline.list[q].name = beamline.list[p].sampler /\ beamline.list[q].type = "marker"
                /\ \A r \in (p + 1)..(q - 1) : IsSpecial(beamline.list[r].type)
    BY <2>2 DEF MarkerAfter
  <2>4. q \in 1..m /\ \A r \in (p + 1)..(q - 1) : r \in 1..m
    BY <1>2
  <2>5. /\ q \in (p + 1)..Len(beamline'.list)
        /\ beamline'.list[q].name = beamline'.list[p].sampler /\ beamline'.list[q].type = "marker"
        /\ \A r \in (p + 1)..(q - 1) : IsSpecial(beamline'.list[r].type)
    BY <1>1, <2>1, <2>3, <2>4
  <2>6. MarkerAfter(p)'
    BY <2>5 DEF MarkerAfter
  <2> QED
    BY <2>1, <2>2, <2>6
<1>5. SamplerInv'
  BY <1>1, <1>3, <1>4 DEF SamplerInv
<1>6. m > 0 => 1 \in 1..m
  BY <1>2
<1>7. BeamInv' /\ OffInv'
  BY <1>1, <1>6 DEF SampleInv, BeamInv, OffInv
<1> QED
  BY <1>5, <1>7 DEF SampleInv

\* SampleInv is inductive, given the types and HeaderInv.
LEMMA NextSampleInv ==
    ASSUME TypeInv, HeaderInv, SampleInv, [Next]_vars PROVE SampleInv'
<1>1. ASSUME NEW why, Exit(why) PROVE SampleInv'
  BY <1>1, SampleSame DEF Exit
<1>2. ASSUME NEW name \in Names, NEW start, NEW end, NEW into, ExpandLine(name, start, end, into)
      PROVE  SampleInv'
  <2>1. CASE Starting(name, start, end, into)
    BY <2>1, SampleSame DEF Starting
  <2>2. CASE Without(name, start, end, into)
    BY <2>2, WithoutSample
  <2> QED
    BY <1>1, <1>2, <2>1, <2>2, ExpandLineCases
<1>3. CASE DeclareComponent \/ DeclareLine \/ DeclareNewInstance
  <2>1. PICK name, type, lst, why : WriteTable(name, type, lst) \/ Exit(why)
    BY <1>3 DEF DeclareComponent, DeclareLine, DeclareNewInstance
  <2>2. CASE IsDefined(name) \/ Exit(why)
    BY <1>1, <2>1, <2>2 DEF WriteTable
  <2>3. CASE ~IsDefined(name) /\ WriteTable(name, type, lst)
    BY <2>3, SampleSame DEF WriteTable, expansion
  <2> QED
    BY <2>1, <2>2, <2>3
<1>4. CASE Use
  BY <1>2, <1>4, TypeFacts DEF Use, Reading, IsStatement
<1>5. CASE ExpandSequence
  BY <1>2, <1>5, TypeFacts DEF ExpandSequence
<1>6. CASE ExpandNode
  <2>1. CASE Passing \/ Replacing \/ Retyping
    <3>1. AtNode
      BY <2>1 DEF Passing, Replacing, Retyping
    <3> QED
      BY <3>1, SampleSame DEF AtNode
  <2> QED
    BY <1>1, <1>6, <2>1, ExpandNodeCases
<1>7. CASE EndPass
  <2>1. CASE TooMany(iteration + 1)
    BY <1>1, <1>7, <2>1 DEF EndPass
  <2>2. CASE ~TooMany(iteration + 1)
    BY <1>7, <2>2, SampleSame DEF EndPass
  <2> QED
    BY <2>1, <2>2
<1>8. CASE KeepRange
  BY <1>8, KeepRangeSample
<1>9. CASE SampleInstances \/ SampleInstance
  BY <1>1, <1>9, SampleCases, AttachToSample
<1>10. CASE SampleAll
  BY <1>10, SampleAllSample
<1>11. CASE Stop
  BY <1>11, SampleSame DEF Stop
<1>12. CASE UNCHANGED vars
  BY <1>12, SampleSame DEF vars, expansion
<1> QED
  BY <1>3, <1>4, <1>5, <1>6, <1>7, <1>8, <1>9, <1>10, <1>11, <1>12 DEF Next

\* A sampler has the name of its element, or of a marker that follows it with only
\* markers and lines between (Parser::set_sampler), for every input file.
THEOREM SamplersCorrect == Spec => []SamplersBesideTheirNames
<1> DEFINE I == TypeInv /\ HeaderInv /\ SampleInv
<1>1. Init => I
  BY InitTypeInv, InitSampleInv
<1>2. I /\ [Next]_vars => I'
  BY NextTypeInv, HeaderKept, NextSampleInv
<1>3. I => SamplersBesideTheirNames
  BY DEF SampleInv, OffInv, SamplerInv, SampledEarlier, MarkerAfter, SamplersBesideTheirNames
<1> HIDE DEF I
<1> QED
  BY <1>1, <1>2, <1>3, PTL DEF Spec

\* A set of natural numbers has a smallest, which is the Min of it.
LEMMA SmallestElement ==
    ASSUME NEW S, S \subseteq Nat, S # {}
    PROVE  Min(S) \in S /\ \A y \in S : Min(S) <= y
<1>1. \E x \in S : \A y \in S : x <= y
  BY LeastElement
<1> QED
  BY <1>1 DEF Min

\* The first of a name that is left is the first in the index not before the cut.
LEMMA FirstLeft ==
    ASSUME TypeInv, HeaderInv, pc = "range", job.end # None
    PROVE  LET ends == Positions(target, job.end)
               after == {k \in 1..Len(ends) : ends[k] >= Initial}
           IN  Final + Initial - 1 = IF after = {} THEN Len(target.list) ELSE ends[Min(after)]
<1> DEFINE L == target
           B == Before1
           n == job.end
           ends == Positions(L, n)
           after == {k \in 1..Len(ends) : ends[k] >= Initial}
           m == Len(L.list)
           P == Find(B, n, 1)
<1>1. /\ L \in FastLists /\ m > 0 /\ m \in Nat /\ B \in FastLists /\ n \in Names
      /\ job.start \in Names \union {None}
  BY KeptIs, FastListFacts DEF TypeInv, ListsInv, ControlInv, Jobs, HeaderInv, Before1
<1>2. /\ Initial \in 1..m /\ Len(B.list) = m - Initial + 1
      /\ \A p \in 1..Len(B.list) : B.list[p] = L.list[p + Initial - 1]
      /\ \A k, l \in 1..Len(B.map[n]) :
                    k < l => \E i, j \in 1..Len(L.map[n]) :
                                i < j /\ B.map[n][k] = L.map[n][i] /\ B.map[n][l] = L.map[n][j]
  <2>1. /\ Initial \in 1..m /\ Len(B.list) = m - Initial + 1 /\ SameOrder(B, L)
        /\ \A p \in 1..Len(B.list) : B.list[p] = L.list[p + Initial - 1]
    BY <1>1, CutBeforeIs DEF Before1, Initial
  <2> HIDE DEF B, L, n
  <2> QED
    BY <1>1, <2>1 DEF SameOrder
<1>3. /\ Len(ends) = Len(L.map[n]) /\ Len(ends) \in Nat
      /\ \A c \in 1..Len(ends) : ends[c] \in 1..m /\ L.list[ends[c]].id = L.map[n][c] /\ L.list[ends[c]].name = n
      /\ \A p \in 1..m : L.list[p].name = n => \E c \in 1..Len(ends) : ends[c] = p
  <2>1. Len(L.map[n]) \in Nat
    BY <1>1, FastListFacts
  <2> HIDE DEF L, ends, m
  <2>2. /\ ends \in Seq(1..m) /\ Len(ends) = Len(L.map[n])
        /\ \A c \in 1..Len(L.map[n]) : ends[c] \in 1..m /\ L.list[ends[c]].id = L.map[n][c] /\ L.list[ends[c]].name = n
        /\ \A p \in 1..m : L.list[p].name = n => \E c \in 1..Len(L.map[n]) : ends[c] = p
    BY <1>1, PositionsAre DEF ends, m
  <2> QED
    BY <2>1, <2>2
<1>4. Final = IF P = 0 THEN Len(B.list) ELSE P
  BY DEF Final, LastKept
<1>5. /\ P \in 0..Len(B.list)
      /\ P # 0 => P = Positions(B, n)[1] /\ 1 \in 1..Len(B.map[n])
      /\ P = 0 => 1 \notin 1..Len(B.map[n])
  BY <1>1, FindIs
<1>6. /\ Len(B.map[n]) \in Nat
      /\ \A c \in 1..Len(B.map[n]) :
            LET q == Positions(B, n)[c]
            IN  q \in 1..Len(B.list) /\ B.list[q].id = B.map[n][c] /\ B.list[q].name = n
      /\ \A p \in 1..Len(B.list) : B.list[p].name = n =>
            \E c \in 1..Len(B.map[n]) : Positions(B, n)[c] = p
  BY <1>1, PositionsAre, FastListFacts
<1>7. \A k \in after : k \in 1..Len(ends) /\ ends[k] >= Initial
  OBVIOUS
<1>8. \A k \in 1..Len(ends) : ends[k] >= Initial => k \in after
  OBVIOUS
<1> HIDE DEF L, B, n, ends, after, m, P
<1>9. CASE P = 0
  <2>1. after = {}
    <3> SUFFICES ASSUME NEW k \in after PROVE FALSE
      OBVIOUS
    <3> DEFINE x == ends[k] - Initial + 1
    <3>1. k \in 1..Len(ends) /\ ends[k] >= Initial /\ ends[k] \in 1..m /\ L.list[ends[k]].name = n
      BY <1>3, <1>7
    <3>2. x \in 1..Len(B.list) /\ x + Initial - 1 = ends[k]
      BY <1>1, <1>2, <3>1
    <3> HIDE DEF x
    <3>3. B.list[x].name = n
      BY <1>2, <3>1, <3>2
    <3>4. PICK c \in 1..Len(B.map[n]) : Positions(B, n)[c] = x
      BY <1>6, <3>2, <3>3
    <3>5. 1 \in 1..Len(B.map[n])
      BY <1>6
    <3> QED
      BY <1>5, <1>9, <3>5
  <2>2. Final + Initial - 1 = m
    BY <1>1, <1>2, <1>4, <1>9
  <2> QED
    BY <2>1, <2>2 DEF L, n, ends, after, m
<1>10. CASE P # 0
  <2>1. /\ P \in 1..Len(B.list) /\ 1 \in 1..Len(B.map[n])
        /\ B.list[P].id = B.map[n][1] /\ B.list[P].name = n
    BY <1>5, <1>6, <1>10
  <2> DEFINE y == P + Initial - 1
  <2>2. y \in 1..m /\ y >= Initial /\ B.list[P] = L.list[y]
    BY <1>1, <1>2, <2>1
  <2>3. Final + Initial - 1 = y
    BY <1>4, <1>10
  <2> HIDE DEF y
  <2>4. PICK i \in 1..Len(ends) : ends[i] = y
    BY <1>3, <2>1, <2>2
  <2>5. i \in after
    BY <1>8, <2>2, <2>4
  <2> DEFINE a == Min(after)
  <2>6. a \in after /\ \A k \in after : a <= k
    <3>1. after \subseteq Nat
      BY <1>3, <1>7
    <3> QED
      BY <2>5, <3>1, SmallestElement
  <2> HIDE DEF a
  <2>7. a \in 1..Len(ends) /\ ends[a] >= Initial /\ ends[a] \in 1..m /\ L.list[ends[a]].name = n
        /\ L.list[ends[a]].id = L.map[n][a]
    BY <1>3, <1>7, <2>6
  <2> DEFINE x == ends[a] - Initial + 1
  <2>8. x \in 1..Len(B.list) /\ x + Initial - 1 = ends[a]
    BY <1>1, <1>2, <2>7
  <2> HIDE DEF x
  <2>9. B.list[x] = L.list[ends[a]]
    BY <1>2, <2>8
  <2>10. PICK c \in 1..Len(B.map[n]) : Positions(B, n)[c] = x
    BY <1>6, <2>7, <2>8, <2>9
  <2>11. B.map[n][c] = L.map[n][a]
    BY <1>6, <2>7, <2>9, <2>10
  <2>12. c = 1
    <3> SUFFICES ASSUME c # 1 PROVE FALSE
      OBVIOUS
    <3>1. 1 < c
      BY <1>6
    <3>2. PICK u, w \in 1..Len(L.map[n]) : u < w /\ B.map[n][1] = L.map[n][u] /\ B.map[n][c] = L.map[n][w]
      BY <1>2, <2>1, <3>1
    <3>3. u \in 1..Len(ends) /\ w \in 1..Len(ends)
      BY <1>3, <3>2
    <3>4. L.list[ends[w]].id = L.list[ends[a]].id /\ ends[w] \in 1..m
      BY <1>3, <2>7, <2>11, <3>2, <3>3
    <3>5. \A p, q \in 1..m : L.list[p].id = L.list[q].id => p = q
      BY <1>1, FastListFacts DEF InStep, m
    <3>6. L.map[n][w] = L.map[n][a]
      BY <2>11, <3>2
    <3>7. w = a
      <4>1. IsInjective(L.map[n]) /\ DOMAIN L.map[n] = 1..Len(L.map[n])
        BY <1>1, FastListFacts DEF InStep
      <4> QED
        BY <1>3, <2>7, <3>2, <3>6, <4>1 DEF IsInjective
    <3>8. ends[u] \in 1..m /\ L.list[ends[u]].id = L.map[n][u]
      BY <1>3, <3>3
    <3>9. ends[u] = y
      BY <2>1, <2>2, <3>2, <3>5, <3>8
    <3>10. u \in after
      BY <1>8, <2>2, <3>3, <3>9
    <3>11. a <= u
      BY <2>6, <3>10
    <3> QED
      BY <1>3, <2>7, <3>2, <3>3, <3>7, <3>11
  <2>13. x = P
    BY <1>5, <1>10, <2>10, <2>12
  <2>14. ends[a] = y
    BY <2>8, <2>13 DEF y
  <2> QED
    BY <2>3, <2>5, <2>14 DEF L, n, ends, after, m, a
<1> QED
  BY <1>9, <1>10

\* What is left of a line in any case: all from the first instance of the start, in the
\* order of the index, to the first instance of the end that is not before it.
KeptByIndex ==
    pc = "range" =>
        LET line == target.list
            starts == IF job.start = None THEN <<>> ELSE Positions(target, job.start)
            from == IF starts = <<>> THEN 1 ELSE starts[1]
            ends == IF job.end = None THEN <<>> ELSE Positions(target, job.end)
            after == {k \in 1..Len(ends) : ends[k] >= from}
            to == IF after = {} THEN Len(line) ELSE ends[Min(after)]
        IN  IsPrefix(SubSeq(line, from, to), target'.list)
                /\ Len(target'.list) = to - from + 1 + (IF IsDefined(Tunnel) THEN 1 ELSE 0)

LEMMA RangeByIndex == ASSUME TypeInv, HeaderInv, KeepRange PROVE KeptByIndex
<1> DEFINE line == target.list
           starts == IF job.start = None THEN <<>> ELSE Positions(target, job.start)
           from == IF starts = <<>> THEN 1 ELSE starts[1]
           ends == IF job.end = None THEN <<>> ELSE Positions(target, job.end)
           after == {k \in 1..Len(ends) : ends[k] >= from}
           to == IF after = {} THEN Len(line) ELSE ends[Min(after)]
           more == IF IsDefined(Tunnel) THEN 1 ELSE 0
<1>1. pc = "range" /\ target' = Kept
  BY KeepRangeIs
<1>2. /\ Initial \in 1..Len(line) /\ Final \in 1..Len(Before1.list)
      /\ Len(Before1.list) = Len(line) - Initial + 1
      /\ Len(Kept.list) = Final + more
      /\ \A p \in 1..Final : Kept.list[p] = line[p + Initial - 1]
      /\ Final \in Nat /\ Initial \in Nat /\ Len(line) \in Nat /\ more \in {0, 1}
  BY <1>1, KeptFacts
<1>3. target \in FastLists /\ Kept \in FastLists /\ job.start \in Names \union {None} /\ job.end \in Names \union {None}
  BY KeptIs DEF TypeInv, ListsInv
<1>4. from = Initial
  <2>1. CASE job.start = None
    BY <2>1 DEF Initial, FirstKept
  <2>2. CASE job.start # None
    <3>1. job.start \in Names
      BY <1>3, <2>2
    <3> DEFINE s == Positions(target, job.start)
               c == Len(target.map[job.start])
               f == Find(target, job.start, 1)
    <3>2. s \in Seq(1..Len(line)) /\ Len(s) = c /\ c \in Nat
      BY <1>3, <3>1, PositionsAre, FastListFacts
    <3>3. f = IF 1 \in 1..c THEN s[1] ELSE 0
      BY DEF Find
    <3>4. Initial = IF f = 0 THEN 1 ELSE f
      BY <2>2 DEF Initial, FirstKept
    <3>5. from = IF s = <<>> THEN 1 ELSE s[1]
      BY <2>2
    <3> HIDE DEF s, c, f, from
    <3>6. CASE s = <<>>
      BY <3>2, <3>3, <3>4, <3>5, <3>6
    <3>7. CASE s # <<>>
      <4>1. 1 \in 1..c /\ s[1] # 0
        BY <3>2, <3>7
      <4> QED
        BY <3>3, <3>4, <3>5, <3>7, <4>1
    <3> QED
      BY <3>6, <3>7
  <2> QED
    BY <2>1, <2>2
<1>5. to = Final + Initial - 1
  <2>1. CASE job.end = None
    <3>1. ends = <<>> /\ Len(ends) = 0
      BY <2>1
    <3>2. after = {}
      BY <3>1
    <3>3. Final = Len(Before1.list)
      BY <2>1 DEF Final, LastKept
    <3> HIDE DEF after
    <3> QED
      BY <1>2, <3>2, <3>3
  <2>2. CASE job.end # None
    <3> DEFINE E == Positions(target, job.end)
               A == {k \in 1..Len(E) : E[k] >= Initial}
    <3>1. Final + Initial - 1 = IF A = {} THEN Len(target.list) ELSE E[Min(A)]
      BY <1>1, <2>2, FirstLeft
    <3>2. ends = E
      BY <2>2
    <3> HIDE DEF from, E
    <3>3. after = A
      BY <1>4, <3>2
    <3> QED
      BY <3>1, <3>2, <3>3
  <2> QED
    BY <2>1, <2>2
<1> DEFINE s == SubSeq(line, from, to)
           t == target'.list
<1> HIDE DEF from, to, line, more
<1>6. /\ to - from + 1 = Final /\ from \in 1..Len(line) /\ to \in from..Len(line)
      /\ Len(t) = Final + more
  BY <1>1, <1>2, <1>4, <1>5
<1>7. line \in Seq(NodeType) /\ t \in Seq(NodeType)
  BY <1>1, <1>3, FastListFacts DEF line
<1>8. Len(s) = Final /\ s \in Seq(NodeType) /\ \A p \in 1..Final : s[p] = line[from + p - 1]
  BY <1>2, <1>6, <1>7
<1>9. \A p \in 1..Final : s[p] = t[p]
  <2> SUFFICES ASSUME NEW p \in 1..Final PROVE s[p] = t[p]
    OBVIOUS
  <2>1. p + Initial - 1 = from + p - 1
    BY <1>2, <1>4
  <2> QED
    BY <1>1, <1>2, <1>8, <2>1
<1>10. Final <= Len(t) /\ Len(t) \in Nat
  BY <1>2, <1>6
<1> HIDE DEF s, t
<1>11. SubSeq(s, 1, Len(s)) = SubSeq(t, 1, Len(s))
  <2>1. Len(SubSeq(s, 1, Final)) = Final /\ \A p \in 1..Final : SubSeq(s, 1, Final)[p] = s[p]
    BY <1>2, <1>8
  <2>2. Len(SubSeq(t, 1, Final)) = Final /\ \A p \in 1..Final : SubSeq(t, 1, Final)[p] = t[p]
    BY <1>2, <1>7, <1>10
  <2>3. SubSeq(s, 1, Final) \in Seq(NodeType) /\ SubSeq(t, 1, Final) \in Seq(NodeType)
    BY <1>2, <1>7, <1>8, <1>10
  <2>4. SubSeq(s, 1, Final) = SubSeq(t, 1, Final)
    BY <1>9, <2>1, <2>2, <2>3
  <2> QED
    BY <1>8, <2>4
<1>12. IsPrefix(s, t)
  BY <1>8, <1>10, <1>11 DEF IsPrefix
<1>13. Len(t) = to - from + 1 + more
  BY <1>6
<1> QED
  BY <1>12, <1>13 DEF KeptByIndex, s, t, from, to, line, more

\* Where the instances of a name are indexed along the line, the first in the index
\* from some place on is the first in the line.
LEMMA FirstAlongLine ==
    ASSUME target \in FastLists, NEW name \in Names \union {None}, IndexedAlongLine(name),
           NEW from \in Nat
    PROVE  LET places == IF name = None THEN <<>> ELSE Positions(target, name)
               after == {k \in 1..Len(places) : places[k] >= from}
               line == {p \in Places(target.list, name) : p >= from}
           IN  /\ after = {} <=> line = {}
               /\ after # {} => places[Min(after)] = Min(line) /\ Min(after) \in after
<1> DEFINE places == IF name = None THEN <<>> ELSE Positions(target, name)
           after == {k \in 1..Len(places) : places[k] >= from}
           line == {p \in Places(target.list, name) : p >= from}
<1>1. CASE name = None
  <2>1. \A p \in 1..Len(target.list) : target.list[p].name # None
    BY FastListFacts, FilesAssumption DEF NodeType
  <2>2. line = {}
    BY <1>1, <2>1 DEF Places
  <2>3. Len(places) = 0
    BY <1>1
  <2>4. after = {}
    BY <2>3
  <2> HIDE DEF line, after
  <2> QED
    BY <2>2, <2>4 DEF line, after
<1>2. CASE name # None
  <2>1. name \in Names /\ places = Positions(target, name)
    BY <1>2
  <2>2. \A k, l \in 1..Len(places) : k < l => places[k] < places[l]
    BY <1>2 DEF IndexedAlongLine
  <2> HIDE DEF places
  <2>3. /\ places \in Seq(1..Len(target.list)) /\ Len(places) = Len(target.map[name])
        /\ \A c \in 1..Len(places) : /\ places[c] \in 1..Len(target.list)
                                     /\ target.list[places[c]].name = name
        /\ \A p \in 1..Len(target.list) : target.list[p].name = name =>
             \E c \in 1..Len(places) : places[c] = p
    <3>1. /\ places \in Seq(1..Len(target.list)) /\ Len(places) = Len(target.map[name])
          /\ \A c \in 1..Len(target.map[name]) : /\ places[c] \in 1..Len(target.list)
                                                 /\ target.list[places[c]].name = name
          /\ \A p \in 1..Len(target.list) : target.list[p].name = name =>
               \E c \in 1..Len(target.map[name]) : places[c] = p
      BY <2>1, PositionsAre
    <3> QED
      BY <3>1, Zenon
  <2>4. Len(target.list) \in Nat /\ Len(places) \in Nat
    BY <2>3, FastListFacts
  <2>5. \A k \in after : places[k] \in line
    BY <2>3 DEF Places
  <2>6. \A p \in line : \E k \in after : places[k] = p
    BY <2>3 DEF Places
  <2>7. after \subseteq Nat /\ line \subseteq Nat
    BY <2>4 DEF Places
  <2>8. \A k, l \in after : k <= l => places[k] <= places[l]
    BY <2>2, <2>3, <2>4
  <2> HIDE DEF after, line
  <2>9. ASSUME after # {}
        PROVE  places[Min(after)] = Min(line) /\ Min(after) \in after
    <3>1. Min(after) \in after /\ \A k \in after : Min(after) <= k
      BY <2>7, <2>9, SmallestElement
    <3>2. line # {}
      BY <2>5, <3>1
    <3>3. Min(line) \in line /\ \A p \in line : Min(line) <= p
      BY <2>7, <3>2, SmallestElement
    <3>4. PICK k \in after : places[k] = Min(line)
      BY <2>6, <3>3
    <3>5. places[Min(after)] <= Min(line)
      BY <2>8, <3>1, <3>4
    <3>6. places[Min(after)] \in line /\ Min(line) <= places[Min(after)]
      BY <2>5, <3>1, <3>3
    <3>7. places[Min(after)] \in Nat /\ Min(line) \in Nat
      BY <2>7, <3>3, <3>6
    <3> QED
      BY <3>1, <3>5, <3>6, <3>7
  <2>10. after = {} <=> line = {}
    BY <2>5, <2>6
  <2> QED
    BY <2>9, <2>10 DEF after, line, places
<1> QED
  BY <1>1, <1>2

\* The step that cuts a line to its range then leaves what the rule says.
LEMMA RangeStep ==
    ASSUME TypeInv, HeaderInv, KeepRange, IndexedAlongLine(job.start), IndexedAlongLine(job.end)
    PROVE  KeptByRule
<1> DEFINE line == target.list
           starts == IF job.start = None THEN <<>> ELSE Positions(target, job.start)
           from == IF starts = <<>> THEN 1 ELSE starts[1]
           ends == IF job.end = None THEN <<>> ELSE Positions(target, job.end)
           after == {k \in 1..Len(ends) : ends[k] >= from}
           to == IF after = {} THEN Len(line) ELSE ends[Min(after)]
           startPlaces == Places(line, job.start)
           first == IF startPlaces = {} THEN 1 ELSE Min(startPlaces)
           endPlaces == {p \in Places(line, job.end) : p >= first}
           last == IF endPlaces = {} THEN Len(line) ELSE Min(endPlaces)
<1>1. /\ pc = "range" /\ target \in FastLists
      /\ job.start \in Names \union {None} /\ job.end \in Names \union {None}
  BY KeptIs DEF KeepRange, TypeInv, ListsInv
<1>2. /\ IsPrefix(SubSeq(line, from, to), target'.list)
      /\ Len(target'.list) = to - from + 1 + (IF IsDefined(Tunnel) THEN 1 ELSE 0)
  BY <1>1, RangeByIndex DEF KeptByIndex
<1>3. from = first /\ from \in Nat
  <2> DEFINE above == {k \in 1..Len(starts) : starts[k] >= 1}
             all == {p \in startPlaces : p >= 1}
  <2>1. /\ above = {} <=> all = {}
        /\ above # {} => starts[Min(above)] = Min(all) /\ Min(above) \in above
    BY <1>1, FirstAlongLine, 1 \in Nat
  <2>2. Len(line) \in Nat /\ all = startPlaces /\ startPlaces \subseteq Nat
    BY <1>1, FastListFacts DEF Places
  <2>3. starts \in Seq(1..Len(line))
    <3>1. CASE job.start = None
      BY <3>1
    <3>2. CASE job.start # None
      <4>1. job.start \in Names /\ starts = Positions(target, job.start)
        BY <1>1, <3>2
      <4> HIDE DEF starts
      <4> QED
        BY <1>1, <4>1, PositionsAre
    <3> QED
      BY <3>1, <3>2
  <2> HIDE DEF starts, startPlaces, line
  <2>4. above = 1..Len(starts) /\ Len(starts) \in Nat
    BY <2>2, <2>3
  <2>5. CASE starts = <<>>
    <3>1. above = {}
      BY <2>4, <2>5
    <3> HIDE DEF above, all
    <3> QED
      BY <2>1, <2>2, <2>5, <3>1
  <2>6. CASE starts # <<>>
    <3>1. 1 \in above /\ \A k \in above : 1 <= k
      BY <2>3, <2>4, <2>6
    <3>2. Min(above) \in above /\ \A k \in above : Min(above) <= k
      <4>1. above \subseteq Nat /\ above # {}
        BY <2>4, <3>1
      <4> HIDE DEF above
      <4> QED
        BY <4>1, SmallestElement
    <3>3. Min(above) = 1
      BY <2>4, <3>1, <3>2
    <3>4. starts[1] \in Nat
      BY <2>2, <2>3, <2>4, <3>1
    <3> HIDE DEF above, all
    <3> QED
      BY <2>1, <2>2, <2>6, <3>1, <3>3, <3>4
  <2> QED
    BY <2>5, <2>6
<1>4. to = last
  <2> HIDE DEF from, first
  <2> DEFINE same == {p \in Places(line, job.end) : p >= from}
  <2>1. /\ after = {} <=> same = {}
        /\ after # {} => ends[Min(after)] = Min(same)
    BY <1>1, <1>3, FirstAlongLine
  <2>2. same = endPlaces
    BY <1>3
  <2> HIDE DEF after, same, endPlaces
  <2> QED
    BY <2>1, <2>2
<1> HIDE DEF from, to, first, last
<1>5. IsPrefix(SubSeq(line, first, last), target'.list)
      /\ Len(target'.list) = last - first + 1 + (IF IsDefined(Tunnel) THEN 1 ELSE 0)
  BY <1>2, <1>3, <1>4
<1> QED
  BY <1>5 DEF KeptByRule, first, last

\* A range of names that are indexed along the line leaves all from the first instance
\* of its start to the first of its end after it, of lines of any length
\* (Parser::expand_line).
THEOREM RangeCorrect == Spec => RangeKept
<1> DEFINE I == TypeInv /\ HeaderInv
           A == pc = "range" /\ IsOfTwoNames /\ IndexedAlongLine(job.start) /\ IndexedAlongLine(job.end)
                  => KeptByRule
<1>1. Init => I
  BY InitTypeInv, InitSampleInv
<1>2. I /\ [Next]_vars => I'
  BY NextTypeInv, HeaderKept
<1>3. I /\ [Next]_vars => [A]_vars
  <2> SUFFICES ASSUME I, Next, pc = "range", IndexedAlongLine(job.start), IndexedAlongLine(job.end)
               PROVE  KeptByRule
    OBVIOUS
  <2>1. KeepRange
    BY DEF Next, DeclareComponent, DeclareLine, DeclareNewInstance, Use, ExpandSequence, ExpandNode,
           EndPass, SampleInstances, SampleInstance, SampleAll, Stop, Reading
  <2> QED
    BY <2>1, RangeStep
<1> HIDE DEF I
<1>4. Spec => [][A]_vars
  BY <1>1, <1>2, <1>3, PTL DEF Spec
<1> QED
  BY <1>4 DEF RangeKept

\* A line declared like another: it has no list and is never replaced.
Stuck(table, name) == name \in DOMAIN table /\ ~ListIn(table, name) /\ IsLine(table[name].type)

NextPass ==
    /\ pc = "expand" /\ it > Len(target.list) /\ iteration + 1 <= MaxIterations
    /\ iteration' = iteration + 1 /\ UNCHANGED <<job, target, defined>>
    /\ \/ isExpanded /\ pc' = "range" /\ UNCHANGED <<it, isExpanded>>
       \/ ~isExpanded /\ pc' = "expand" /\ it' = 2 /\ isExpanded' = TRUE

\* What a step is to the line being expanded.
LEMMA ExpansionSteps ==
    ASSUME TypeInv, [Next]_vars
    PROVE  \/ pc' \notin {"expand", "range"}
           \/ pc' = pc /\ UNCHANGED <<job, target, it, isExpanded, iteration, defined>>
           \/ \E name \in Names : \E start, end, into : Starting(name, start, end, into)
           \/ Passing \/ Replacing \/ Retyping
           \/ NextPass
<1> DEFINE Idle == pc' \notin {"expand", "range"}
           Still == pc' = pc /\ UNCHANGED <<job, target, it, isExpanded, iteration, defined>>
<1>1. CASE Use
  <2>1. pc = "parse" /\ ExpandLine(Statement.name, Statement.start, Statement.end, "beamline")
        /\ Statement.name \in Names
    BY <1>1, TypeFacts DEF Use, Reading, IsStatement
  <2>2. CASE Starting(Statement.name, Statement.start, Statement.end, "beamline")
    BY <2>1, <2>2
  <2>3. CASE (\E why \in {"undefined", "notline"} : Exit(why))
             \/ Without(Statement.name, Statement.start, Statement.end, "beamline")
    <3>1. Idle
      BY <2>3 DEF Exit, Without, Finish
    <3> QED
      BY <3>1
  <2> QED
    BY <2>1, <2>2, <2>3, ExpandLineCases
<1>2. CASE ExpandSequence
  <2>1. PICK k \in 1..Len(sequences) : ExpandLine(sequences[k], None, None, "sequence")
    BY <1>2 DEF ExpandSequence
  <2>2. sequences[k] \in Names
    BY TypeFacts
  <2>3. CASE Starting(sequences[k], None, None, "sequence")
    BY <2>2, <2>3
  <2>4. CASE (\E why \in {"undefined", "notline"} : Exit(why)) \/ Without(sequences[k], None, None, "sequence")
    <3>1. Idle
      BY <2>4 DEF Exit, Without, Finish
    <3> QED
      BY <3>1
  <2> QED
    BY <2>1, <2>3, <2>4, ExpandLineCases
<1>3. CASE ExpandNode
  <2>1. CASE \E why \in {"undefined", "memory"} : Exit(why)
    <3>1. Idle
      BY <2>1 DEF Exit
    <3> QED
      BY <3>1
  <2> QED
    BY <1>3, <2>1, ExpandNodeCases
<1>4. CASE EndPass
  <2>1. CASE TooMany(iteration + 1)
    <3>1. Idle
      BY <1>4, <2>1 DEF EndPass, Exit
    <3> QED
      BY <3>1
  <2>2. CASE ~TooMany(iteration + 1)
    <3>1. iteration + 1 <= MaxIterations
      BY <2>2, TypeFacts DEF TooMany, TypeInv, ControlInv
    <3>2. NextPass
      BY <1>4, <2>2, <3>1 DEF EndPass, NextPass
    <3> QED
      BY <3>2
  <2> QED
    BY <2>1, <2>2
<1>5. CASE KeepRange
  <2>1. Idle
    BY <1>5, KeepRangeIs DEF Finish
  <2> QED
    BY <2>1
<1>6. CASE DeclareComponent \/ DeclareLine \/ DeclareNewInstance \/ SampleInstances \/ SampleInstance \/ SampleAll
  <2>1. pc = "parse" /\ (pc' = pc \/ pc' = "exit" \/ pc' = "undefined")
    BY <1>6 DEF DeclareComponent, DeclareLine, DeclareNewInstance, WriteTable, Exit, Reading,
                SampleInstances, SampleInstance, SampleAll, AttachTo
  <2>2. Idle
    BY <2>1
  <2> QED
    BY <2>2
<1>7. CASE Stop
  BY <1>7 DEF Stop
<1>8. CASE UNCHANGED vars
  <2>1. Still
    BY <1>8 DEF vars, expansion
  <2> QED
    BY <2>1
<1> QED
  BY <1>1, <1>2, <1>3, <1>4, <1>5, <1>6, <1>7, <1>8 DEF Next

\* Where a pass has got to: nodes are as deep as there have been passes; those
\* that name a line and wait for this pass are just as deep.
PassInv ==
    /\ pc = "expand" => \A p \in 2..Len(target.list) :
         LET e == target.list[p] IN
         /\ e.depth \in 1..(iteration + 2)
         /\ p >= it => e.depth <= iteration + 1
         /\ isExpanded => e.depth <= iteration + 1
         /\ p < it /\ isExpanded => ~IsLine(e.type)
         /\ ~IsLine(e.type) => IsDefined(e.name) /\ ~HasList(e.name)
         /\ IsLine(e.type) /\ ~Stuck(defined, e.name) =>
                e.depth = IF p < it THEN iteration + 2 ELSE iteration + 1
    /\ pc = "range" => \A p \in 2..Len(target.list) :
         LET e == target.list[p]
         IN  e.depth \in 1..iteration /\ ~IsLine(e.type) /\ IsDefined(e.name) /\ ~HasList(e.name)

\* At its start an expansion has the line's own entries, of depth 1.
LEMMA PassStarts ==
    ASSUME TypeInv, NEW name \in Names, NEW start, NEW end, NEW into, Starting(name, start, end, into)
    PROVE  PassInv'
<1> DEFINE lst == defined[name].lst
<1>1. lst \in Seq(Items) /\ Len(lst) \in Nat /\ target' = StartOf(name, lst)
      /\ pc' = "expand" /\ it' = 2 /\ iteration' = 0
  BY TypeFacts DEF Starting
<1> HIDE DEF lst
<1>2. /\ Len(target'.list) = Len(lst) + 1
      /\ \A i \in 1..Len(lst) : /\ target'.list[i + 1].type = lst[i].type
                                /\ target'.list[i + 1].depth = 1
  BY <1>1, StartIs
<1>3. ASSUME NEW p \in 2..Len(target'.list)
      PROVE  IsLine(target'.list[p].type) /\ target'.list[p].depth = 1
  <2> DEFINE i == p - 1
  <2>1. i \in 1..Len(lst) /\ i + 1 = p
    BY <1>1, <1>2
  <2> HIDE DEF i
  <2>2. lst[i] \in Items
    BY <1>1, <2>1
  <2>3. target'.list[p].type = lst[i].type /\ target'.list[p].depth = 1
    BY <1>2, <2>1
  <2> QED
    BY <2>2, <2>3 DEF Items, IsLine
<1> QED
  BY <1>1, <1>3 DEF PassInv

\* A pass that replaced something is followed by one a level down.
LEMMA PassPasses == ASSUME TypeInv, PassInv, HeaderInv, NextPass PROVE PassInv'
<1>1. /\ pc = "expand" /\ it = Len(target.list) + 1 /\ iteration' = iteration + 1 /\ target' = target
      /\ defined' = defined /\ Len(target.list) \in Nat /\ iteration \in Nat
  BY FastListFacts, TypeFacts DEF NextPass, TypeInv, ListsInv, ControlInv, HeaderInv
<1>2. ASSUME NEW p \in 2..Len(target.list)
      PROVE  LET e == target.list[p] IN
             /\ e.depth \in 1..(iteration + 2)
             /\ isExpanded => e.depth <= iteration + 1
             /\ isExpanded => ~IsLine(e.type)
             /\ ~IsLine(e.type) => IsDefined(e.name) /\ ~HasList(e.name)
             /\ IsLine(e.type) /\ ~Stuck(defined, e.name) => e.depth = iteration + 2
  BY <1>1 DEF PassInv
<1>3. CASE isExpanded /\ pc' = "range"
  <2>1. ASSUME NEW p \in 2..Len(target'.list)
        PROVE  LET e == target'.list[p]
               IN  e.depth \in 1..iteration' /\ ~IsLine(e.type) /\ IsDefined(e.name) /\ ~HasList(e.name)
    BY <1>1, <1>2, <1>3
  <2> QED
    BY <1>1, <1>3, <2>1 DEF PassInv, IsDefined, HasList, ListIn
<1>4. CASE ~isExpanded /\ pc' = "expand" /\ it' = 2
  <2>1. ASSUME NEW p \in 2..Len(target'.list)
        PROVE  LET e == target'.list[p] IN
               /\ e.depth \in 1..(iteration' + 2) /\ e.depth <= iteration' + 1 /\ p >= it' /\ ~(p < it')
               /\ ~IsLine(e.type) => IsDefined(e.name) /\ ~HasList(e.name)
               /\ IsLine(e.type) /\ ~Stuck(defined, e.name) => e.depth = iteration' + 1
    BY <1>1, <1>2, <1>4
  <2> QED
    BY <1>1, <1>4, <2>1 DEF PassInv, IsDefined, HasList, ListIn
<1> QED
  BY <1>3, <1>4 DEF NextPass

\* Where the nodes are once a line is replaced by what it stands for.
LEMMA ReplacedNodes ==
    ASSUME TypeInv, HeaderInv, Replacing
    PROVE  LET k == Len(NewEntries) IN
           /\ it \in 2..Len(target.list) /\ k \in Nat /\ it' = it + k /\ Len(target.list) \in Nat
           /\ Len(target'.list) = Len(target.list) - 1 + k
           /\ \A p \in 1..Len(target'.list) : p < it => target'.list[p] = target.list[p]
           /\ \A p \in 1..Len(target'.list) : p >= it /\ p < it' =>
                p - it + 1 \in 1..k /\ target'.list[p].name = NewEntries[p - it + 1].name
                /\ target'.list[p].type = NewEntries[p - it + 1].type
                /\ target'.list[p].depth = NewEntries[p - it + 1].depth
           /\ \A p \in 1..Len(target'.list) : p >= it' =>
                p - k + 1 \in (it + 1)..Len(target.list) /\ target'.list[p] = target.list[p - k + 1]
<1> DEFINE k == Len(NewEntries)
           new == NewNodes(target, NewEntries)
           m == Len(target.list)
<1>1. it \in 1..m /\ it \in Nat \ {0, 1} /\ AtNode /\ m \in Nat
  BY NodeFacts DEF Replacing, AtNode
<1>2. NewEntries \in Seq(EntryType) /\ target \in FastLists /\ k \in Nat /\ it' = it + k
        /\ target' = Erase(InsertAll(target, it, NewEntries), it + k)
  BY ReplacingIs DEF TypeInv, ListsInv, Replacing
<1>3. /\ Len(target'.list) = m - 1 + k
      /\ \A p \in 1..Len(target'.list) :
                target'.list[p] = IF p < it THEN target.list[p]
                            ELSE IF p < it + k THEN new[p - it + 1]
                            ELSE target.list[p - k + 1]
  BY <1>1, <1>2, ReplaceIs
<1>4. \A i \in 1..k : new[i].name = NewEntries[i].name /\ new[i].type = NewEntries[i].type
                      /\ new[i].depth = NewEntries[i].depth
  BY <1>2, NewNodesAre
<1> HIDE DEF new, m, k
<1>5. ASSUME NEW p \in 1..Len(target'.list), p >= it, p < it'
      PROVE  p - it + 1 \in 1..k /\ target'.list[p] = new[p - it + 1]
  BY <1>1, <1>2, <1>3, <1>5
<1>6. ASSUME NEW p \in 1..Len(target'.list), p >= it, p < it'
      PROVE  p - it + 1 \in 1..k /\ target'.list[p].name = NewEntries[p - it + 1].name
                /\ target'.list[p].type = NewEntries[p - it + 1].type
                /\ target'.list[p].depth = NewEntries[p - it + 1].depth
  BY <1>4, <1>5, <1>6
<1>7. ASSUME NEW p \in 1..Len(target'.list), p >= it'
      PROVE  p - k + 1 \in (it + 1)..m /\ target'.list[p] = target.list[p - k + 1]
  BY <1>1, <1>2, <1>3, <1>7
<1>8. ASSUME NEW p \in 1..Len(target'.list), p < it
      PROVE  target'.list[p] = target.list[p]
  BY <1>3, <1>8
<1> QED
  BY <1>1, <1>2, <1>3, <1>6, <1>7, <1>8 DEF m, k

\* What a line stands for names lines only, one level deeper than it.
LEMMA NewEntriesAre ==
    ASSUME TypeInv, Replacing
    PROVE  \A i \in 1..Len(NewEntries) : IsLine(NewEntries[i].type) /\ NewEntries[i].depth = Node.depth + 1
<1>1. /\ defined[Node.name].lst \in Seq(Items) /\ Node.type \in {"line", "revline"}
      /\ Node.depth \in Nat /\ Len(NewEntries) = Len(defined[Node.name].lst)
  BY ReplacingIs
<1>2. Node.depth + 1 \in Nat
  BY <1>1
<1>3. \A i \in 1..Len(defined[Node.name].lst) :
            NewEntries[i].depth = Node.depth + 1 /\ NewEntries[i].type \in {"line", "revline"}
  BY <1>1, <1>2, ContentsAre DEF NewEntries
<1> QED
  BY <1>1, <1>3 DEF IsLine

\* Within a pass what is replaced moves a level down and behind the node reached.
LEMMA PassStays ==
    ASSUME TypeInv, HeaderInv, PassInv, Passing \/ Replacing \/ Retyping PROVE PassInv'
<1>0. iteration \in Nat /\ it \in Nat \ {0, 1} /\ it \in 1..Len(target.list) /\ Len(target.list) \in Nat
      /\ AtNode /\ Node \in NodeType
  BY NodeFacts DEF Passing, Replacing, Retyping, AtNode, TypeInv, ControlInv
<1>1. /\ pc = "expand" /\ pc' = "expand" /\ iteration' = iteration /\ defined' = defined
  BY <1>0 DEF AtNode
<1>2. \A p \in 2..Len(target.list) :
         LET e == target.list[p] IN
         /\ e.depth \in 1..(iteration + 2)
         /\ p >= it => e.depth <= iteration + 1
         /\ isExpanded => e.depth <= iteration + 1
         /\ p < it /\ isExpanded => ~IsLine(e.type)
         /\ ~IsLine(e.type) => IsDefined(e.name) /\ ~HasList(e.name)
         /\ IsLine(e.type) /\ ~Stuck(defined, e.name) =>
                e.depth = IF p < it THEN iteration + 2 ELSE iteration + 1
  BY <1>1 DEF PassInv
<1> DEFINE Fine(e, passed) ==
         /\ e.depth \in 1..(iteration + 2)
         /\ ~passed => e.depth <= iteration + 1
         /\ ~IsLine(e.type) => IsDefined(e.name) /\ ~HasList(e.name)
         /\ IsLine(e.type) /\ ~Stuck(defined, e.name) =>
                e.depth = IF passed THEN iteration + 2 ELSE iteration + 1
<1>3. ASSUME isExpanded' = FALSE, \A p \in 2..Len(target'.list) : Fine(target'.list[p], p < it'), it' \in Nat
      PROVE  PassInv'
  BY <1>1, <1>3 DEF PassInv, IsDefined, HasList, ListIn
<1>4. CASE Passing
  <2>1. target' = target /\ isExpanded' = isExpanded /\ it' = it + 1 /\ ~IsLine(Node.type)
    BY <1>4 DEF Passing
  <2>2. ASSUME NEW p \in 2..Len(target.list)
        PROVE  LET e == target.list[p] IN
         /\ e.depth \in 1..(iteration + 2)
         /\ p >= it' => e.depth <= iteration + 1
         /\ isExpanded => e.depth <= iteration + 1
         /\ p < it' /\ isExpanded => ~IsLine(e.type)
         /\ ~IsLine(e.type) => IsDefined(e.name) /\ ~HasList(e.name)
         /\ IsLine(e.type) /\ ~Stuck(defined, e.name) =>
                e.depth = IF p < it' THEN iteration + 2 ELSE iteration + 1
    <3>1. CASE p = it
      BY <1>0, <1>2, <2>1, <3>1 DEF Node
    <3>2. CASE p # it
      BY <1>0, <1>2, <2>1, <3>2
    <3> QED
      BY <3>1, <3>2
  <2> QED
    BY <1>1, <2>1, <2>2 DEF PassInv, IsDefined, HasList, ListIn
<1>5. CASE Replacing
  <2> DEFINE k == Len(NewEntries)
  <2>1. /\ it \in 2..Len(target.list) /\ k \in Nat /\ it' = it + k
        /\ Len(target'.list) = Len(target.list) - 1 + k
        /\ \A p \in 1..Len(target'.list) : p < it => target'.list[p] = target.list[p]
        /\ \A p \in 1..Len(target'.list) : p >= it /\ p < it' =>
             p - it + 1 \in 1..k /\ target'.list[p].name = NewEntries[p - it + 1].name
             /\ target'.list[p].type = NewEntries[p - it + 1].type
             /\ target'.list[p].depth = NewEntries[p - it + 1].depth
        /\ \A p \in 1..Len(target'.list) : p >= it' =>
             p - k + 1 \in (it + 1)..Len(target.list) /\ target'.list[p] = target.list[p - k + 1]
    BY <1>5, ReplacedNodes
  <2>2. \A i \in 1..k : IsLine(NewEntries[i].type) /\ NewEntries[i].depth = Node.depth + 1
    BY <1>5, NewEntriesAre
  <2>3. Node.depth = iteration + 1
    <3>1. IsLine(Node.type) /\ ~Stuck(defined, Node.name)
      BY <1>5 DEF Replacing, HasList, Stuck
    <3> QED
      BY <1>0, <1>2, <3>1 DEF Node
  <2> HIDE DEF k
  <2>4. ASSUME NEW p \in 2..Len(target'.list) PROVE Fine(target'.list[p], p < it')
    <3>1. CASE p < it
      <4>1. target'.list[p] = target.list[p] /\ p < it' /\ p \in 2..Len(target.list)
        BY <1>0, <2>1, <3>1
      <4> QED
        BY <1>2, <3>1, <4>1
    <3>2. CASE p >= it /\ p < it'
      <4>1. p - it + 1 \in 1..k /\ target'.list[p].type = NewEntries[p - it + 1].type
            /\ target'.list[p].depth = NewEntries[p - it + 1].depth
        BY <2>1, <3>2
      <4>2. IsLine(target'.list[p].type) /\ target'.list[p].depth = iteration + 2
        BY <1>0, <2>2, <2>3, <4>1
      <4> QED
        BY <1>0, <3>2, <4>2
    <3>3. CASE p >= it'
      <4> DEFINE q == p - k + 1
      <4>1. q \in (it + 1)..Len(target.list) /\ target'.list[p] = target.list[q]
        BY <2>1, <3>3
      <4> HIDE DEF q
      <4>2. q \in 2..Len(target.list) /\ ~(q < it) /\ q >= it /\ ~(p < it')
        BY <1>0, <2>1, <3>3, <4>1
      <4> QED
        BY <1>2, <4>1, <4>2
    <3> QED
      BY <1>0, <2>1, <3>1, <3>2, <3>3
  <2>5. isExpanded' = FALSE /\ it' \in Nat
    BY <1>0, <1>5, <2>1 DEF Replacing
  <2> QED
    BY <1>3, <2>4, <2>5
<1>6. CASE Retyping
  <2>1. /\ Len(target'.list) = Len(target.list) /\ it' = it + 1 /\ isExpanded' = FALSE
        /\ \A p \in 1..Len(target.list) :
                target'.list[p] = IF p = it THEN [Node EXCEPT !.type = defined[Node.name].type]
                                  ELSE target.list[p]
        /\ IsLine(Node.type) /\ IsDefined(Node.name) /\ ~HasList(Node.name)
    BY <1>6, RetypingIs DEF Retyping
  <2> DEFINE e == [Node EXCEPT !.type = defined[Node.name].type]
  <2>2. e.name = Node.name /\ e.depth = Node.depth /\ e.type = defined[Node.name].type
    BY <1>0 DEF NodeType
  <2> HIDE DEF e
  <2>3. Fine(e, TRUE)
    <3>1. Node.depth \in 1..(iteration + 2)
      BY <1>0, <1>2 DEF Node
    <3>2. IsLine(e.type) => Stuck(defined, e.name)
      BY <2>1, <2>2 DEF Stuck, HasList, IsDefined
    <3> QED
      BY <2>1, <2>2, <3>1, <3>2
  <2>4. ASSUME NEW p \in 2..Len(target'.list) PROVE Fine(target'.list[p], p < it')
    <3>1. CASE p = it
      <4>1. target'.list[p] = e /\ (p < it') = TRUE
        BY <1>0, <2>1, <3>1 DEF e
      <4> QED
        BY <2>3, <4>1
    <3>2. CASE p # it
      <4>1. target'.list[p] = target.list[p] /\ p \in 2..Len(target.list) /\ ((p < it') <=> (p < it))
        BY <1>0, <2>1, <3>2
      <4> QED
        BY <1>0, <1>2, <2>1, <3>2, <4>1
    <3> QED
      BY <3>1, <3>2
  <2>5. isExpanded' = FALSE /\ it' \in Nat
    BY <1>0, <2>1
  <2> QED
    BY <1>3, <2>4, <2>5
<1> QED
  BY <1>4, <1>5, <1>6

\* PassInv is inductive, given the types and HeaderInv.
LEMMA PassKept == ASSUME TypeInv, HeaderInv, PassInv, [Next]_vars PROVE PassInv'
<1>1. CASE pc' \notin {"expand", "range"}
  BY <1>1 DEF PassInv
<1>2. CASE pc' = pc /\ UNCHANGED <<job, target, it, isExpanded, iteration, defined>>
  BY <1>2 DEF PassInv, IsDefined, HasList, ListIn
<1> QED
  BY <1>1, <1>2, ExpansionSteps, PassStarts, PassPasses, PassStays

-----------------------------------------------------------------------------
\* While a line is expanded its index has the nodes of a name by depth.
OrderInv == pc \in {"expand", "range"} => target \in OrderedLists

\* OrderInv is inductive: what a pass inserts is as deep as any node yet.
LEMMA OrderKept == ASSUME TypeInv, HeaderInv, PassInv, OrderInv, [Next]_vars PROVE OrderInv'
<1>1. CASE pc' \notin {"expand", "range"} \/ (pc' = pc /\ target' = target)
  BY <1>1 DEF OrderInv
<1>2. ASSUME NEW name \in Names, NEW start, NEW end, NEW into, Starting(name, start, end, into)
      PROVE  OrderInv'
  BY <1>2, StartIs, TypeFacts DEF Starting, OrderInv
<1>3. CASE NextPass
  BY <1>3 DEF NextPass, OrderInv
<1>4. CASE Passing
  BY <1>4 DEF Passing, AtNode, OrderInv
<1>5. CASE Retyping
  <2>1. target \in OrderedLists
    BY <1>5 DEF Retyping, AtNode, OrderInv
  <2>2. /\ target' \in FastLists /\ target'.map = target.map /\ Len(target'.list) = Len(target.list)
        /\ \A p \in 1..Len(target.list) :
                target'.list[p] = IF p = it THEN [Node EXCEPT !.type = defined[Node.name].type]
                                  ELSE target.list[p]
    BY <1>5, RetypingIs
  <2>3. Node \in NodeType /\ Node = target.list[it]
    BY <1>5, NodeFacts DEF Node, Retyping, AtNode
  <2>4. \A p \in 1..Len(target.list) : target'.list[p].id = target.list[p].id
                                       /\ target'.list[p].depth = target.list[p].depth
    BY <2>2, <2>3 DEF NodeType
  <2>5. target' \in OrderedLists
    <3>1. ByDepth(target)
      BY <2>1 DEF OrderedLists
    <3> DEFINE M == target'
    <3>2. /\ M \in FastLists /\ M.map = target.map /\ Len(M.list) = Len(target.list)
          /\ \A p \in 1..Len(target.list) : M.list[p].id = target.list[p].id
                                       /\ M.list[p].depth = target.list[p].depth
      BY <2>2, <2>4
    <3> HIDE DEF M
    <3>3. ByDepth(M)
      BY <3>1, <3>2 DEF ByDepth, Before
    <3>4. M \in OrderedLists
      BY <3>2, <3>3 DEF OrderedLists
    <3> QED
      BY <3>4 DEF M
  <2> QED
    BY <2>5 DEF OrderInv
<1>6. CASE Replacing
  <2> DEFINE d == iteration + 2
             M == InsertAll(target, it, NewEntries)
             at1 == it + Len(NewEntries)
  <2>1. /\ target \in OrderedLists /\ target \in FastLists /\ it \in 2..Len(target.list) /\ pc = "expand"
        /\ Len(target.list) \in Nat /\ iteration \in Nat /\ d \in Nat
        /\ IsLine(Node.type) /\ ~Stuck(defined, Node.name)
    BY <1>6, ReplacedNodes DEF Replacing, AtNode, OrderInv, TypeInv, ListsInv, ControlInv, HasList, Stuck
  <2>2. /\ NewEntries \in Seq(EntryType) /\ Len(NewEntries) \in Nat /\ target' = Erase(M, at1)
    BY <1>6, ReplacingIs
  <2>3. \A p \in 2..Len(target.list) :
            target.list[p].depth \in 1..d /\ (p >= it => target.list[p].depth <= iteration + 1)
            /\ (p = it => target.list[p].depth = iteration + 1)
    BY <2>1 DEF PassInv, Node
  <2>4. \A i \in 1..Len(NewEntries) : NewEntries[i].depth = d
    <3>1. Node.depth = iteration + 1
      BY <2>1, <2>3 DEF Node
    <3> QED
      BY <1>6, <2>1, <3>1, NewEntriesAre
  <2>5. \A p \in 1..Len(target.list) : target.list[p].depth <= d /\ (p >= it => target.list[p].depth < d)
    <3> SUFFICES ASSUME NEW p \in 1..Len(target.list)
                 PROVE target.list[p].depth <= d /\ (p >= it => target.list[p].depth < d)
      OBVIOUS
    <3>1. CASE p = 1
      <4>1. target.list[1].depth = 0
        BY <2>1 DEF HeaderInv
      <4> QED
        BY <2>1, <3>1, <4>1
    <3>2. CASE p # 1
      <4>1. p \in 2..Len(target.list)
        BY <2>1, <3>2
      <4> QED
        BY <2>1, <2>3, <4>1
    <3> QED
      BY <3>1, <3>2
  <2>6. it \in 1..(Len(target.list) + 1)
    BY <2>1
  <2> HIDE DEF M, d
  <2>7. M \in OrderedLists
    BY <2>1, <2>2, <2>4, <2>5, <2>6, InsertOrdered DEF M
  <2>8. Len(M.list) = Len(target.list) + Len(NewEntries)
    BY <2>1, <2>2, <2>6, InsertAllIs DEF M, Inserted
  <2>9. at1 \in 1..(Len(M.list) + 1) /\ at1 \in (at1 - 1)..Len(M.list)
    BY <2>1, <2>2, <2>8
  <2>10. target' \in OrderedLists
    BY <2>2, <2>7, <2>9, EraseOrdered DEF Erase
  <2> QED
    BY <2>10 DEF OrderInv
<1> QED
  BY <1>1, <1>2, <1>3, <1>4, <1>5, <1>6, ExpansionSteps

-----------------------------------------------------------------------------
\* What 0 has and n takes over from n - 1 all numbers have.
LEMMA InductionUpTo ==
    ASSUME NEW N \in Nat, NEW S, 0 \in S, \A n \in 1..N : n - 1 \in S => n \in S
    PROVE  \A n \in 0..N : n \in S
<1> DEFINE Bad == {n \in 0..N : n \notin S}
<1>1. SUFFICES ASSUME Bad # {} PROVE FALSE
  OBVIOUS
<1>2. Bad \subseteq Nat
  OBVIOUS
<1>3. \A n \in Bad : n \in 0..N /\ n \notin S
  OBVIOUS
<1>4. \A n \in 0..N : n \notin S => n \in Bad
  OBVIOUS
<1> HIDE DEF Bad
<1>5. PICK n \in Bad : \A j \in Bad : n <= j
  BY <1>1, <1>2, LeastElement
<1>6. n # 0 /\ n \in 1..N
  BY <1>3, <1>5
<1>7. n - 1 \in 0..N /\ n - 1 \notin Bad
  BY <1>5, <1>6
<1> QED
  BY <1>3, <1>4, <1>5, <1>6, <1>7

\* A function defined level by level.
IsLevels(f, N, V, b, g) ==
    f \in [0..N -> V] /\ f[0] = b /\ \A n \in 1..N : f[n] = g[n][f[n - 1]]

\* A function defined level by level exists.
LEMMA RecursionByLevels ==
    ASSUME NEW N \in Nat, NEW V, NEW b \in V, NEW g, \A n \in 1..N, v \in V : g[n][v] \in V
    PROVE  \E f : IsLevels(f, N, V, b, g)
<1> DEFINE S == {m \in 0..N : \E f : IsLevels(f, m, V, b, g)}
<1>1. 0 \in S
  <2> DEFINE f == [i \in 0..0 |-> b]
  <2>1. IsLevels(f, 0, V, b, g)
    BY DEF IsLevels
  <2> QED
    BY <2>1
<1>2. ASSUME NEW n \in 1..N, n - 1 \in S PROVE n \in S
  <2>1. PICK f : IsLevels(f, n - 1, V, b, g)
    BY <1>2
  <2> DEFINE top == g[n][f[n - 1]]
             h == [i \in 0..n |-> IF i = n THEN top ELSE f[i]]
  <2>2. /\ f \in [0..(n - 1) -> V] /\ f[0] = b /\ \A i \in 1..(n - 1) : f[i] = g[i][f[i - 1]]
    BY <2>1 DEF IsLevels
  <2>3. n - 1 \in 0..(n - 1) /\ n \in 0..n /\ 0 \in 0..n /\ 0 # n
    OBVIOUS
  <2>4. top \in V
    BY <2>2, <2>3
  <2>5. \A i \in 0..n : i # n => i \in 0..(n - 1)
    OBVIOUS
  <2>6. h \in [0..n -> V]
    <3> HIDE DEF top
    <3> QED
      BY <2>2, <2>4, <2>5
  <2>7. h[0] = b /\ h[n] = top
    BY <2>2, <2>3
  <2>8. \A i \in 0..(n - 1) : h[i] = f[i]
    OBVIOUS
  <2> HIDE DEF h
  <2>9. ASSUME NEW i \in 1..n PROVE h[i] = g[i][h[i - 1]]
    <3>1. i - 1 \in 0..(n - 1)
      OBVIOUS
    <3>2. h[i - 1] = f[i - 1]
      BY <2>8, <3>1
    <3>3. CASE i = n
      BY <2>7, <3>2, <3>3
    <3>4. CASE i # n
      <4>1. i \in 1..(n - 1) /\ i \in 0..(n - 1)
        BY <3>4
      <4> QED
        BY <2>2, <2>8, <3>2, <4>1
    <3> QED
      BY <3>3, <3>4
  <2>10. IsLevels(h, n, V, b, g)
    BY <2>6, <2>7, <2>9 DEF IsLevels
  <2>11. n \in 0..N
    OBVIOUS
  <2> QED
    BY <2>10, <2>11
<1> HIDE DEF S
<1>3. \A n \in 0..N : n \in S
  BY <1>1, <1>2, InductionUpTo
<1>4. N \in S
  BY <1>3
<1> QED
  BY <1>4 DEF S

-----------------------------------------------------------------------------
\* FlattenSeq: what the parts of s up to each come to, one after the other.
Runs(f, s, E) ==
    /\ f \in [0..Len(s) -> Seq(E)] /\ f[0] = <<>>
    /\ \A i \in 1..Len(s) : f[i] = f[i - 1] \o s[i]

\* FlattenSeq is the last of its partial results.
LEMMA FlattenRuns ==
    ASSUME NEW E, NEW s \in Seq(Seq(E))
    PROVE  \E f : Runs(f, s, E) /\ f[Len(s)] = FlattenSeq(s)
<1> DEFINE n == Len(s)
           b == <<>>
           g == [i \in 1..n |-> [v \in Seq(E) |-> v \o s[i]]]
<1>1. n \in Nat /\ b \in Seq(E) /\ \A i \in 1..n : s[i] \in Seq(E)
  OBVIOUS
<1>2. \A i \in 1..n, v \in Seq(E) : g[i][v] \in Seq(E) /\ g[i][v] = v \o s[i]
  OBVIOUS
<1> HIDE DEF n, b, g
<1>3. PICK f : IsLevels(f, n, Seq(E), b, g)
  BY <1>1, <1>2, RecursionByLevels
<1>4. \A i \in 1..n : i - 1 \in 0..n
  BY <1>1
<1>5. Runs(f, s, E)
  BY <1>2, <1>3, <1>4 DEF IsLevels, Runs, n, b
<1>6. CASE n = 0
  <2>1. FlattenSeq(s) = <<>>
    BY <1>6 DEF FlattenSeq, n
  <2> QED
    BY <1>5, <1>6, <2>1 DEF Runs, n
<1>7. CASE n # 0
  <2> DEFINE h == [i \in 1..n |-> f[i]]
             c == CHOOSE c : c = [i \in 1..n |-> IF i = 1 THEN s[i] ELSE c[i - 1] \o s[i]]
  <2>1. FlattenSeq(s) = c[n]
    BY <1>7 DEF FlattenSeq, n
  <2>2. h = [i \in 1..n |-> IF i = 1 THEN s[i] ELSE h[i - 1] \o s[i]]
    <3>1. ASSUME NEW i \in 1..n PROVE h[i] = IF i = 1 THEN s[i] ELSE h[i - 1] \o s[i]
      <4>1. f[i] = f[i - 1] \o s[i] /\ h[i] = f[i]
        BY <1>5 DEF Runs, n
      <4>2. CASE i = 1
        <5>1. f[i - 1] = <<>> /\ s[i] \in Seq(E)
          BY <1>1, <1>5, <4>2 DEF Runs
        <5>2. <<>> \o s[i] = s[i]
          BY <5>1
        <5> QED
          BY <4>1, <4>2, <5>1, <5>2
      <4>3. CASE i # 1
        <5>1. i - 1 \in 1..n
          BY <1>1, <4>3
        <5>2. h[i - 1] = f[i - 1]
          BY <5>1
        <5> QED
          BY <4>1, <4>3, <5>2
      <4> QED
        BY <4>2, <4>3
    <3> QED
      BY <3>1
  <2> HIDE DEF h
  <2>3. c = [i \in 1..n |-> IF i = 1 THEN s[i] ELSE c[i - 1] \o s[i]]
    BY <2>2, Zenon
  <2> HIDE DEF c
  <2>4. \A i \in 1..n : c[i] = IF i = 1 THEN s[i] ELSE c[i - 1] \o s[i]
    BY <2>3, Zenon
  <2> DEFINE S == {0} \union {i \in 1..n : c[i] = f[i]}
  <2>5. ASSUME NEW i \in 1..n, i - 1 \in S PROVE i \in S
    <3>1. f[i] = f[i - 1] \o s[i]
      BY <1>5 DEF Runs, n
    <3>2. CASE i = 1
      <4>1. f[i - 1] = <<>> /\ s[i] \in Seq(E)
        BY <1>1, <1>5, <3>2 DEF Runs
      <4>2. <<>> \o s[i] = s[i]
        BY <4>1
      <4> QED
        BY <2>4, <3>1, <3>2, <4>1, <4>2
    <3>3. CASE i # 1
      <4>1. i - 1 # 0
        BY <3>3
      <4>2. c[i - 1] = f[i - 1]
        BY <2>5, <4>1
      <4> QED
        BY <2>4, <3>1, <3>3, <4>2
    <3> QED
      BY <3>2, <3>3
  <2>6. 0 \in S
    OBVIOUS
  <2>7. \A i \in S : i # 0 => c[i] = f[i]
    OBVIOUS
  <2> HIDE DEF S
  <2>8. \A i \in 0..n : i \in S
    BY <1>1, <2>5, <2>6, InductionUpTo
  <2>9. c[n] = f[n]
    BY <1>1, <1>7, <2>7, <2>8
  <2> QED
    BY <1>5, <2>1, <2>9 DEF n
<1> QED
  BY <1>6, <1>7

\* Any partial results end in FlattenSeq.
LEMMA FlattenIs ==
    ASSUME NEW E, NEW s \in Seq(Seq(E)), NEW f, Runs(f, s, E)
    PROVE  FlattenSeq(s) = f[Len(s)] /\ FlattenSeq(s) \in Seq(E)
<1>1. PICK h : Runs(h, s, E) /\ h[Len(s)] = FlattenSeq(s)
  BY FlattenRuns
<1> DEFINE n == Len(s)
           S == {i \in 0..n : f[i] = h[i]}
<1>2. n \in Nat
  OBVIOUS
<1>3. 0 \in S
  BY <1>1, <1>2 DEF Runs
<1>4. ASSUME NEW i \in 1..n, i - 1 \in S PROVE i \in S
  <2>1. f[i] = f[i - 1] \o s[i] /\ h[i] = h[i - 1] \o s[i]
    BY <1>1 DEF Runs
  <2>2. f[i - 1] = h[i - 1] /\ i \in 0..n
    BY <1>2, <1>4
  <2> QED
    BY <2>1, <2>2
<1> HIDE DEF S, n
<1>5. \A i \in 0..n : i \in S
  BY <1>2, <1>3, <1>4, InductionUpTo
<1>6. n \in S
  BY <1>2, <1>5
<1>7. f[n] = h[n]
  BY <1>6 DEF S
<1>8. n \in 0..n
  BY <1>2
<1>9. f[n] \in Seq(E)
  BY <1>8 DEF Runs, n
<1> QED
  BY <1>1, <1>7, <1>9 DEF n

\* Parts put one after the other are a sequence over the same set.
LEMMA FlattenType ==
    ASSUME NEW E, NEW s \in Seq(Seq(E)) PROVE FlattenSeq(s) \in Seq(E)
<1>1. PICK f : Runs(f, s, E)
  BY FlattenRuns
<1> QED
  BY <1>1, FlattenIs

\* Reverse, element by element.
LEMMA ReverseIs ==
    ASSUME NEW E, NEW s \in Seq(E)
    PROVE  /\ Reverse(s) \in Seq(E) /\ Len(Reverse(s)) = Len(s)
           /\ \A i \in 1..Len(s) : Reverse(s)[i] = s[Len(s) - i + 1]
<1>1. \A i \in 1..Len(s) : Len(s) - i + 1 \in 1..Len(s)
  OBVIOUS
<1> QED
  BY <1>1 DEF Reverse

\* Back to front twice is forwards.
LEMMA ReverseTwice == ASSUME NEW E, NEW s \in Seq(E) PROVE Reverse(Reverse(s)) = s
<1> DEFINE r == Reverse(s)
           q == Reverse(r)
<1>1. r \in Seq(E) /\ Len(r) = Len(s) /\ \A i \in 1..Len(s) : r[i] = s[Len(s) - i + 1]
  BY ReverseIs
<1> HIDE DEF r
<1>2. q \in Seq(E) /\ Len(q) = Len(r) /\ \A i \in 1..Len(r) : q[i] = r[Len(r) - i + 1]
  BY <1>1, ReverseIs
<1> HIDE DEF q
<1>3. ASSUME NEW i \in 1..Len(s) PROVE q[i] = s[i]
  <2> DEFINE j == Len(s) - i + 1
  <2>1. j \in 1..Len(s) /\ Len(s) - j + 1 = i
    OBVIOUS
  <2>2. q[i] = r[j]
    BY <1>1, <1>2
  <2> HIDE DEF j
  <2> QED
    BY <1>1, <2>1, <2>2
<1>4. q = s
  BY <1>1, <1>2, <1>3, SeqEqual
<1> QED
  BY <1>4 DEF q, r

\* Reverse exchanges what is concatenated.
LEMMA ReverseConcat ==
    ASSUME NEW E, NEW s \in Seq(E), NEW t \in Seq(E)
    PROVE  Reverse(s \o t) = Reverse(t) \o Reverse(s)
<1> DEFINE st == s \o t
           a == Reverse(st)
           rs == Reverse(s)
           rt == Reverse(t)
           b == rt \o rs
<1>1. /\ st \in Seq(E) /\ Len(st) = Len(s) + Len(t)
      /\ \A p \in 1..Len(st) : st[p] = IF p <= Len(s) THEN s[p] ELSE t[p - Len(s)]
  BY ConcatIs
<1>2. /\ rs \in Seq(E) /\ Len(rs) = Len(s) /\ \A i \in 1..Len(s) : rs[i] = s[Len(s) - i + 1]
      /\ rt \in Seq(E) /\ Len(rt) = Len(t) /\ \A i \in 1..Len(t) : rt[i] = t[Len(t) - i + 1]
  BY ReverseIs
<1>3. Len(s) \in Nat /\ Len(t) \in Nat
  OBVIOUS
<1> HIDE DEF st, rs, rt
<1>4. a \in Seq(E) /\ Len(a) = Len(st) /\ \A i \in 1..Len(st) : a[i] = st[Len(st) - i + 1]
  BY <1>1, ReverseIs
<1>5. /\ b \in Seq(E) /\ Len(b) = Len(rt) + Len(rs)
      /\ \A p \in 1..Len(b) : b[p] = IF p <= Len(rt) THEN rt[p] ELSE rs[p - Len(rt)]
  BY <1>2, ConcatIs
<1> HIDE DEF a, b
<1>6. ASSUME NEW p \in 1..Len(a) PROVE a[p] = b[p]
  <2> DEFINE j == Len(st) - p + 1
  <2>1. j \in 1..Len(st) /\ p \in 1..Len(b) /\ j = Len(s) + Len(t) - p + 1 /\ p \in Nat
    BY <1>1, <1>2, <1>3, <1>4, <1>5
  <2>2. a[p] = st[j]
    BY <1>4
  <2> HIDE DEF j
  <2>3. CASE p <= Len(t)
    <3>1. b[p] = t[Len(t) - p + 1]
      <4>1. p \in 1..Len(t) /\ p <= Len(rt)
        BY <1>2, <1>3, <2>1, <2>3
      <4>2. b[p] = rt[p]
        BY <1>5, <2>1, <4>1
      <4> QED
        BY <1>2, <4>1, <4>2
    <3>2. ~(j <= Len(s)) /\ j - Len(s) = Len(t) - p + 1
      BY <1>3, <2>1, <2>3
    <3> QED
      BY <1>1, <2>1, <2>2, <3>1, <3>2
  <2>4. CASE ~(p <= Len(t))
    <3> DEFINE i == p - Len(t)
    <3>1. i \in 1..Len(s) /\ Len(s) - i + 1 = j /\ j <= Len(s)
      BY <1>1, <1>2, <1>3, <1>4, <2>1, <2>4
    <3>2. b[p] = rs[i]
      BY <1>2, <1>5, <2>1, <2>4
    <3> HIDE DEF i
    <3>3. b[p] = s[j]
      BY <1>2, <3>1, <3>2
    <3> QED
      BY <1>1, <2>1, <2>2, <3>1, <3>3
  <2> QED
    BY <2>3, <2>4
<1>7. Len(a) = Len(b)
  BY <1>1, <1>2, <1>3, <1>4, <1>5
<1>8. a = b
  BY <1>4, <1>5, <1>6, <1>7, SeqEqual
<1> QED
  BY <1>8 DEF a, b, st, rs, rt

-----------------------------------------------------------------------------
\* Flattening is done piece by piece.
LEMMA FlattenConcat ==
    ASSUME NEW E, NEW s \in Seq(Seq(E)), NEW t \in Seq(Seq(E))
    PROVE  FlattenSeq(s \o t) = FlattenSeq(s) \o FlattenSeq(t)
<1> DEFINE r == s \o t
           n == Len(s)
           m == Len(t)
<1>1. /\ r \in Seq(Seq(E)) /\ Len(r) = n + m /\ n \in Nat /\ m \in Nat
      /\ \A p \in 1..n : r[p] = s[p]
      /\ \A p \in 1..m : r[n + p] = t[p] /\ t[p] \in Seq(E)
  BY ConcatIs
<1>2. PICK f : Runs(f, s, E)
  BY FlattenRuns
<1>3. PICK h : Runs(h, t, E)
  BY FlattenRuns
<1>4. FlattenSeq(s) = f[n] /\ FlattenSeq(t) = h[m] /\ f[n] \in Seq(E)
  BY <1>2, <1>3, FlattenIs
<1>5. /\ f \in [0..n -> Seq(E)] /\ f[0] = <<>> /\ \A i \in 1..n : f[i] = f[i - 1] \o s[i]
      /\ h \in [0..m -> Seq(E)] /\ h[0] = <<>> /\ \A i \in 1..m : h[i] = h[i - 1] \o t[i]
  BY <1>2, <1>3 DEF Runs
<1> DEFINE w == f[n]
           c == [i \in 0..(n + m) |-> IF i <= n THEN f[i] ELSE w \o h[i - n]]
<1> HIDE DEF r, n, m, w
<1>6. c \in [0..(n + m) -> Seq(E)]
  <2> SUFFICES ASSUME NEW i \in 0..(n + m) PROVE (IF i <= n THEN f[i] ELSE w \o h[i - n]) \in Seq(E)
    OBVIOUS
  <2>1. CASE i <= n
    BY <1>1, <1>5, <2>1
  <2>2. CASE ~(i <= n)
    <3>1. i - n \in 0..m
      BY <1>1, <2>2
    <3>2. h[i - n] \in Seq(E) /\ w \in Seq(E)
      BY <1>4, <1>5, <3>1 DEF w
    <3>3. w \o h[i - n] \in Seq(E)
      BY <3>2
    <3> QED
      BY <2>2, <3>3
  <2> QED
    BY <2>1, <2>2
<1>7. c[0] = <<>>
  BY <1>1, <1>5
<1>8. ASSUME NEW i \in 1..(n + m) PROVE c[i] = c[i - 1] \o r[i]
  <2>1. i \in 0..(n + m) /\ i - 1 \in 0..(n + m) /\ i \in Nat
    BY <1>1
  <2>2. CASE i <= n
    <3>1. i \in 1..n /\ i - 1 <= n
      BY <1>1, <2>2
    <3>2. c[i] = f[i] /\ c[i - 1] = f[i - 1]
      BY <2>1, <2>2, <3>1
    <3> QED
      BY <1>1, <1>5, <3>1, <3>2
  <2>3. CASE ~(i <= n)
    <3> DEFINE j == i - n
    <3>1. j \in 1..m /\ n + j = i /\ j - 1 = i - 1 - n /\ j - 1 \in 0..m
      BY <1>1, <2>1, <2>3
    <3>2. c[i] = w \o h[j]
      BY <2>1, <2>3
    <3>3. c[i - 1] = w \o h[j - 1]
      <4>1. CASE i - 1 <= n
        <5>1. i - 1 = n /\ j - 1 = 0
          BY <1>1, <2>1, <2>3, <4>1
        <5>2. c[i - 1] = w
          BY <2>1, <4>1, <5>1 DEF w
        <5>3. w \in Seq(E) /\ w \o <<>> = w
          BY <1>4 DEF w
        <5> QED
          BY <1>5, <5>1, <5>2, <5>3
      <4>2. CASE ~(i - 1 <= n)
        BY <2>1, <3>1, <4>2
      <4> QED
        BY <4>1, <4>2
    <3> HIDE DEF j, c
    <3>4. h[j] = h[j - 1] \o t[j] /\ h[j - 1] \in Seq(E) /\ t[j] \in Seq(E) /\ w \in Seq(E) /\ r[i] = t[j]
      BY <1>1, <1>4, <1>5, <3>1 DEF w
    <3>5. (w \o h[j - 1]) \o t[j] = w \o (h[j - 1] \o t[j])
      <4> DEFINE x == h[j - 1]
                 y == t[j]
      <4>1. x \in Seq(E) /\ y \in Seq(E) /\ w \in Seq(E)
        BY <3>4
      <4> HIDE DEF x, y
      <4>2. (w \o x) \o y = w \o (x \o y)
        BY <4>1, ConcatAssociative
      <4> QED
        BY <4>2 DEF x, y
    <3> QED
      BY <3>2, <3>3, <3>4, <3>5
  <2> QED
    BY <2>2, <2>3
<1>9. Runs(c, r, E)
  BY <1>1, <1>6, <1>7, <1>8 DEF Runs
<1>10. FlattenSeq(r) = c[n + m]
  BY <1>1, <1>9, FlattenIs
<1>11. c[n + m] = w \o h[m]
  <2>1. n + m \in 0..(n + m)
    BY <1>1
  <2>2. CASE m = 0
    <3>1. w \in Seq(E) /\ w \o <<>> = w
      BY <1>4 DEF w
    <3> QED
      BY <1>1, <1>5, <2>1, <2>2, <3>1 DEF w
  <2>3. CASE m # 0
    BY <1>1, <2>1, <2>3
  <2> QED
    BY <2>2, <2>3
<1> QED
  BY <1>4, <1>10, <1>11 DEF r, w

\* One part flattens to itself.
LEMMA FlattenOne ==
    ASSUME NEW E, NEW x \in Seq(E)
    PROVE  FlattenSeq(<<x>>) = x
<1> DEFINE f == [i \in 0..1 |-> IF i = 0 THEN <<>> ELSE x]
<1>1. <<x>> \in Seq(Seq(E)) /\ Len(<<x>>) = 1 /\ <<x>>[1] = x
  OBVIOUS
<1>2. f \in [0..1 -> Seq(E)] /\ f[0] = <<>> /\ f[1] = x
  OBVIOUS
<1>3. f[1] = f[0] \o x
  BY <1>2
<1> HIDE DEF f
<1>4. Runs(f, <<x>>, E)
  <2>1. \A i \in 1..1 : f[i] = f[i - 1] \o <<x>>[i]
    BY <1>1, <1>3
  <2> QED
    BY <1>1, <1>2, <2>1 DEF Runs
<1> QED
  BY <1>1, <1>2, <1>4, FlattenIs

\* Back to front, parts and all.
LEMMA FlattenReverse ==
    ASSUME NEW E, NEW s \in Seq(Seq(E))
    PROVE  Reverse(FlattenSeq(s)) = FlattenSeq([i \in 1..Len(s) |-> Reverse(s[Len(s) - i + 1])])
<1> DEFINE n == Len(s)
           T(k) == [i \in 1..k |-> Reverse(s[k - i + 1])]
<1>1. PICK f : Runs(f, s, E) /\ f[Len(s)] = FlattenSeq(s)
  BY FlattenRuns
<1>2. /\ n \in Nat /\ f \in [0..n -> Seq(E)] /\ f[0] = <<>> /\ \A i \in 1..n : f[i] = f[i - 1] \o s[i]
      /\ f[n] = FlattenSeq(s) /\ \A i \in 1..n : s[i] \in Seq(E)
  BY <1>1 DEF Runs
<1>3. ASSUME NEW k \in 0..n PROVE T(k) \in Seq(Seq(E)) /\ Len(T(k)) = k
  <2>1. \A i \in 1..k : Reverse(s[k - i + 1]) \in Seq(E)
    <3> SUFFICES ASSUME NEW i \in 1..k PROVE Reverse(s[k - i + 1]) \in Seq(E)
      OBVIOUS
    <3>1. k - i + 1 \in 1..n
      BY <1>2
    <3>2. s[k - i + 1] \in Seq(E)
      BY <1>2, <3>1
    <3> QED
      BY <3>2, ReverseIs
  <2> QED
    BY <1>2, <2>1
<1> DEFINE S == {k \in 0..n : Reverse(f[k]) = FlattenSeq(T(k))}
<1> HIDE DEF n
<1>4. 0 \in S
  <2>1. T(0) = <<>> /\ Reverse(<<>>) = <<>>
    BY DEF Reverse
  <2>2. FlattenSeq(<<>>) = <<>>
    BY DEF FlattenSeq
  <2> QED
    BY <1>2, <2>1, <2>2
<1>5. ASSUME NEW k \in 1..n, k - 1 \in S PROVE k \in S
  <2> DEFINE x == s[k]
             r == Reverse(x)
             old == T(k - 1)
             new == T(k)
             g == f[k - 1]
  <2>1. k \in 0..n /\ k - 1 \in 0..n /\ k \in Nat
    BY <1>2
  <2>2. x \in Seq(E) /\ g \in Seq(E) /\ f[k] = g \o x /\ Reverse(g) = FlattenSeq(old)
    BY <1>2, <1>5, <2>1
  <2>3. r \in Seq(E)
    BY <2>2, ReverseIs
  <2>4. old \in Seq(Seq(E)) /\ Len(old) = k - 1 /\ new \in Seq(Seq(E)) /\ Len(new) = k
    BY <1>3, <2>1
  <2>5. /\ \A i \in 1..(k - 1) : old[i] = Reverse(s[(k - 1) - i + 1])
        /\ \A i \in 1..k : new[i] = Reverse(s[k - i + 1])
    OBVIOUS
  <2>6. new = <<r>> \o old
    <3> DEFINE one == <<r>>
               both == one \o old
    <3>1. one \in Seq(Seq(E)) /\ Len(one) = 1 /\ one[1] = r
      BY <2>3
    <3> HIDE DEF one, old, new, r
    <3>2. /\ both \in Seq(Seq(E)) /\ Len(both) = k
          /\ \A i \in 1..k : both[i] = IF i <= 1 THEN one[i] ELSE old[i - 1]
      <4>1. /\ both \in Seq(Seq(E)) /\ Len(both) = Len(one) + Len(old)
            /\ \A i \in 1..(Len(one) + Len(old)) : both[i] = IF i <= Len(one) THEN one[i] ELSE old[i - Len(one)]
        BY <2>4, <3>1, ConcatProperties
      <4> HIDE DEF both
      <4> QED
        BY <2>1, <2>4, <3>1, <4>1
    <3>3. ASSUME NEW i \in 1..k PROVE both[i] = new[i]
      <4>1. CASE i = 1
        <5>1. k - i + 1 = k
          BY <2>1, <4>1
        <5>2. both[i] = one[1] /\ one[1] = r
          BY <3>1, <3>2, <4>1
        <5>3. new[i] = Reverse(s[k])
          BY <2>5, <5>1
        <5> QED
          BY <5>2, <5>3 DEF r
      <4>2. CASE i # 1
        <5>1. i - 1 \in 1..(k - 1) /\ (k - 1) - (i - 1) + 1 = k - i + 1 /\ ~(i <= 1)
          BY <2>1, <4>2
        <5> QED
          BY <2>5, <3>2, <5>1
      <4> QED
        BY <4>1, <4>2
    <3> HIDE DEF both
    <3>4. new = both
      BY <2>4, <3>2, <3>3, SeqEqual
    <3> QED
      BY <3>4 DEF both, one
  <2>7. <<r>> \in Seq(Seq(E))
    BY <2>3
  <2> HIDE DEF x, r, old, new, g
  <2>8. FlattenSeq(new) = FlattenSeq(<<r>>) \o FlattenSeq(old)
    BY <2>4, <2>6, <2>7, FlattenConcat
  <2>9. FlattenSeq(<<r>>) = r
    BY <2>3, FlattenOne
  <2>10. Reverse(g \o x) = Reverse(x) \o Reverse(g)
    BY <2>2, ReverseConcat
  <2>11. Reverse(f[k]) = FlattenSeq(new)
    BY <2>2, <2>8, <2>9, <2>10 DEF r
  <2> QED
    BY <2>1, <2>11 DEF new
<1> HIDE DEF S
<1>6. \A k \in 0..n : k \in S
  BY <1>2, <1>4, <1>5, InductionUpTo
<1>7. n \in S
  BY <1>2, <1>6
<1>8. Reverse(f[n]) = FlattenSeq(T(n))
  BY <1>7 DEF S
<1> QED
  BY <1>2, <1>8 DEF n

\* Empty parts flatten to nothing.
LEMMA FlattenEmptyParts ==
    ASSUME NEW E, NEW s \in Seq(Seq(E)), \A i \in 1..Len(s) : s[i] = <<>>
    PROVE  FlattenSeq(s) = <<>>
<1> DEFINE f == [i \in 0..Len(s) |-> <<>>]
<1>1. Len(s) \in Nat /\ <<>> \in Seq(E) /\ <<>> \o <<>> = <<>>
  <2>1. <<>> \in Seq(E)
    OBVIOUS
  <2> QED
    BY <2>1, ConcatEmptySeq
<1>2. \A i \in 0..Len(s) : f[i] = <<>>
  OBVIOUS
<1>3. f \in [0..Len(s) -> Seq(E)]
  BY <1>1
<1> HIDE DEF f
<1>4. ASSUME NEW i \in 1..Len(s) PROVE f[i] = f[i - 1] \o s[i]
  <2>1. i \in 0..Len(s) /\ i - 1 \in 0..Len(s)
    BY <1>1
  <2>2. f[i] = <<>> /\ f[i - 1] = <<>> /\ s[i] = <<>>
    BY <1>2, <2>1
  <2> QED
    BY <1>1, <2>2
<1>5. f[0] = <<>> /\ f[Len(s)] = <<>>
  BY <1>1, <1>2
<1>6. Runs(f, s, E)
  BY <1>3, <1>4, <1>5 DEF Runs
<1> QED
  BY <1>5, <1>6, FlattenIs

\* Parts of one element each flatten to those elements.
LEMMA FlattenSingles ==
    ASSUME NEW E, NEW t \in Seq(E), NEW s \in Seq(Seq(E)), Len(s) = Len(t), \A i \in 1..Len(t) : s[i] = <<t[i]>>
    PROVE  FlattenSeq(s) = t
<1> DEFINE f == [i \in 0..Len(t) |-> SubSeq(t, 1, i)]
<1>1. Len(t) \in Nat /\ \A i \in 1..Len(t) : t[i] \in E
  OBVIOUS
<1>2. \A i \in 0..Len(t) : f[i] = SubSeq(t, 1, i)
  OBVIOUS
<1>3. \A i \in 0..Len(t) : SubSeq(t, 1, i) \in Seq(E)
  BY <1>1
<1>4. f \in [0..Len(s) -> Seq(E)]
  BY <1>2, <1>3
<1> HIDE DEF f
<1>5. ASSUME NEW i \in 1..Len(s) PROVE f[i] = f[i - 1] \o s[i]
  <2>1. i \in 0..Len(t) /\ i - 1 \in 0..Len(t) /\ i \in 1..Len(t) /\ 1 \in 1..Len(t) /\ i \in Int
    BY <1>1
  <2>2. SubSeq(t, 1, i) = SubSeq(t, 1, i - 1) \o <<t[i]>>
    BY <2>1, SubSeqRecursiveSecond
  <2> QED
    BY <1>2, <2>1, <2>2
<1>6. f[0] = <<>>
  <2>1. SubSeq(t, 1, 0) = <<>>
    BY SubSeqEmpty
  <2> QED
    BY <1>1, <1>2, <2>1
<1>7. f[Len(s)] = t
  BY <1>1, <1>2, SubSeqFull
<1>8. Runs(f, s, E)
  BY <1>4, <1>5, <1>6 DEF Runs
<1> QED
  BY <1>7, <1>8, FlattenIs

-----------------------------------------------------------------------------
\* The elements of a line, one level at a time.
Sub == [name : Names, depth : Nat]
Levelled == [Names -> Seq(Sub)]
IsTable(d) == \A n \in Names : ListIn(d, n) => d[n].lst \in Seq(Items)
TurnedParts(v, lst) == [i \in 1..Len(lst) |-> Turned(v[lst[i].name], lst[i].type)]
LevelFrom(d, n, v) ==
    [name \in Names |->
        IF ~ListIn(d, name) THEN <<[name |-> name, depth |-> MaxIterations - n]>>
        ELSE IF n = 0 THEN <<>>
        ELSE FlattenSeq(TurnedParts(v, d[name].lst))]

\* Turning a sequence leaves its elements and its length.
LEMMA TurnedIs ==
    ASSUME NEW E, NEW s \in Seq(E), NEW type
    PROVE  Turned(s, type) \in Seq(E) /\ Len(Turned(s, type)) = Len(s)
  BY ReverseIs DEF Turned

\* What the entries of a line stand for, each turned if it is reversed.
LEMMA TurnedPartsAre ==
    ASSUME NEW v \in Levelled, NEW lst \in Seq(Items)
    PROVE  /\ TurnedParts(v, lst) \in Seq(Seq(Sub)) /\ Len(TurnedParts(v, lst)) = Len(lst)
           /\ \A i \in 1..Len(lst) : TurnedParts(v, lst)[i] = Turned(v[lst[i].name], lst[i].type)
<1>1. \A i \in 1..Len(lst) : Turned(v[lst[i].name], lst[i].type) \in Seq(Sub)
  <2> SUFFICES ASSUME NEW i \in 1..Len(lst) PROVE Turned(v[lst[i].name], lst[i].type) \in Seq(Sub)
    OBVIOUS
  <2>1. lst[i] \in Items
    OBVIOUS
  <2>2. v[lst[i].name] \in Seq(Sub)
    BY <2>1 DEF Items, Levelled
  <2> QED
    BY <2>2, TurnedIs
<1> DEFINE t(i) == Turned(v[lst[i].name], lst[i].type)
<1>2. \A i \in 1..Len(lst) : t(i) \in Seq(Sub)
  BY <1>1
<1>3. TurnedParts(v, lst) = [i \in 1..Len(lst) |-> t(i)]
  BY DEF TurnedParts
<1>4. Len(lst) \in Nat
  OBVIOUS
<1> HIDE DEF t
<1>5. /\ TurnedParts(v, lst) \in Seq(Seq(Sub)) /\ Len(TurnedParts(v, lst)) = Len(lst)
      /\ \A i \in 1..Len(lst) : TurnedParts(v, lst)[i] = t(i)
  BY <1>2, <1>3, <1>4
<1> QED
  BY <1>5 DEF t

\* One level more of Flat is of the right type.
LEMMA LevelType ==
    ASSUME NEW d, IsTable(d), NEW n \in 0..MaxIterations, NEW v, n # 0 => v \in Levelled
    PROVE  LevelFrom(d, n, v) \in Levelled
<1>1. MaxIterations \in Nat
  BY FilesAssumption
<1> SUFFICES ASSUME NEW name \in Names
             PROVE  (IF ~ListIn(d, name) THEN <<[name |-> name, depth |-> MaxIterations - n]>>
                     ELSE IF n = 0 THEN <<>> ELSE FlattenSeq(TurnedParts(v, d[name].lst))) \in Seq(Sub)
  BY DEF LevelFrom, Levelled
<1>2. CASE ~ListIn(d, name)
  <2>1. MaxIterations - n \in Nat
    BY <1>1
  <2>2. [name |-> name, depth |-> MaxIterations - n] \in Sub
    BY <2>1 DEF Sub
  <2>3. <<[name |-> name, depth |-> MaxIterations - n]>> \in Seq(Sub)
    BY <2>2
  <2> QED
    BY <1>2, <2>3
<1>3. CASE ListIn(d, name) /\ n = 0
  <2>1. <<>> \in Seq(Sub)
    OBVIOUS
  <2> QED
    BY <1>3, <2>1
<1>4. CASE ListIn(d, name) /\ n # 0
  <2>1. d[name].lst \in Seq(Items)
    BY <1>4 DEF IsTable
  <2>2. TurnedParts(v, d[name].lst) \in Seq(Seq(Sub))
    BY <1>4, <2>1, TurnedPartsAre
  <2>3. FlattenSeq(TurnedParts(v, d[name].lst)) \in Seq(Sub)
    BY <2>2, FlattenType
  <2> QED
    BY <1>4, <2>3
<1> QED
  BY <1>2, <1>3, <1>4

\* Flat is what its definition says, at every level.
LEMMA FlatLevels ==
    ASSUME NEW d, IsTable(d)
    PROVE  \A n \in 0..MaxIterations :
                Flat(d)[n] \in Levelled /\ Flat(d)[n] = LevelFrom(d, n, Flat(d)[n - 1])
<1> DEFINE N == MaxIterations
           V == Levelled
           b == LevelFrom(d, 0, <<>>)
           g == [n \in 1..N |-> [v \in V |-> LevelFrom(d, n, v)]]
           c == Flat(d)
<1>1. N \in Nat /\ b \in V
  <2>1. N \in Nat
    BY FilesAssumption
  <2>2. 0 \in 0..MaxIterations
    BY <2>1
  <2> QED
    BY <2>1, <2>2, LevelType
<1>2. \A n \in 1..N, v \in V : g[n][v] \in V /\ g[n][v] = LevelFrom(d, n, v)
  <2> SUFFICES ASSUME NEW n \in 1..N, NEW v \in V PROVE LevelFrom(d, n, v) \in V
    OBVIOUS
  <2>1. n \in 0..MaxIterations /\ n # 0
    BY <1>1
  <2> QED
    BY <2>1, LevelType
<1>3. \A v : LevelFrom(d, 0, v) = b
  BY DEF LevelFrom
<1> HIDE DEF N, V, b, g
<1>4. PICK f : IsLevels(f, N, V, b, g)
  BY <1>1, <1>2, RecursionByLevels
<1>5. f = [n \in 0..N |-> LevelFrom(d, n, f[n - 1])]
  <2>1. f = [n \in 0..N |-> f[n]]
    BY <1>4 DEF IsLevels
  <2>2. ASSUME NEW n \in 0..N PROVE f[n] = LevelFrom(d, n, f[n - 1])
    <3>1. CASE n = 0
      BY <1>3, <1>4, <3>1 DEF IsLevels
    <3>2. CASE n # 0
      <4>1. n \in 1..N /\ n - 1 \in 0..N
        BY <1>1, <3>2
      <4>2. f[n - 1] \in V /\ f[n] = g[n][f[n - 1]]
        BY <1>4, <4>1 DEF IsLevels
      <4> QED
        BY <1>2, <4>1, <4>2
    <3> QED
      BY <3>1, <3>2
  <2> QED
    BY <2>1, <2>2
<1>6. c = [n \in 0..N |-> LevelFrom(d, n, c[n - 1])]
  BY <1>5, Zenon DEF Flat, LevelFrom, TurnedParts, N
<1> HIDE DEF c
<1>7. \A n \in 0..N : c[n] = LevelFrom(d, n, c[n - 1])
  BY <1>6, Zenon
<1> DEFINE S == {n \in 0..N : c[n] \in V}
<1>8. 0 \in S
  BY <1>1, <1>3, <1>7
<1>9. ASSUME NEW n \in 1..N, n - 1 \in S PROVE n \in S
  <2>1. n \in 0..N /\ c[n - 1] \in V
    BY <1>1, <1>9
  <2>2. g[n][c[n - 1]] \in V /\ g[n][c[n - 1]] = LevelFrom(d, n, c[n - 1])
    BY <1>2, <2>1
  <2>3. c[n] \in V
    BY <1>7, <2>1, <2>2
  <2> QED
    BY <2>1, <2>3
<1>10. \A n \in S : c[n] \in V
  OBVIOUS
<1> HIDE DEF S
<1>11. \A n \in 0..N : n \in S
  BY <1>1, <1>8, <1>9, InductionUpTo
<1> QED
  BY <1>7, <1>10, <1>11 DEF N, V, c

\* What a name stands for with n levels left.
LEMMA FlatIs ==
    ASSUME NEW d, IsTable(d), NEW n \in 0..MaxIterations, NEW name \in Names
    PROVE  /\ Flat(d)[n][name] \in Seq(Sub)
           /\ ~ListIn(d, name) => Flat(d)[n][name] = <<[name |-> name, depth |-> MaxIterations - n]>>
           /\ ListIn(d, name) /\ n = 0 => Flat(d)[n][name] = <<>>
           /\ ListIn(d, name) /\ n # 0 => /\ Flat(d)[n - 1] \in Levelled
                                          /\ Flat(d)[n][name] = FlattenSeq(TurnedParts(Flat(d)[n - 1], d[name].lst))
<1>1. Flat(d)[n] \in Levelled /\ Flat(d)[n] = LevelFrom(d, n, Flat(d)[n - 1])
  BY FlatLevels
<1> DEFINE c == Flat(d)
<1> HIDE DEF c
<1>2. c[n] \in [Names -> Seq(Sub)]
  BY <1>1 DEF Levelled, c
<1>3. c[n][name] = IF ~ListIn(d, name) THEN <<[name |-> name, depth |-> MaxIterations - n]>>
        ELSE IF n = 0 THEN <<>>
        ELSE FlattenSeq(TurnedParts(c[n - 1], d[name].lst))
  BY <1>1 DEF LevelFrom, c
<1>4. n # 0 => c[n - 1] \in Levelled
  <2>1. n # 0 => n - 1 \in 0..MaxIterations
    BY FilesAssumption
  <2> QED
    BY <2>1, FlatLevels DEF c
<1> QED
  BY <1>2, <1>3, <1>4 DEF c

-----------------------------------------------------------------------------
\* The elements that a node, or what is put into a list, comes to.
PartOf(table, e) ==
    IF e.depth > MaxIterations THEN <<>>
    ELSE IF IsLine(e.type) THEN Turned(Flat(table)[MaxIterations - e.depth][e.name], e.type)
    ELSE <<[name |-> e.name, depth |-> e.depth]>>
PartsOf(table, es) == [i \in 1..Len(es) |-> PartOf(table, es[i])]
\* Those of all nodes but the first, which is the line itself.
Parts(table, list) == [i \in 1..(Len(list) - 1) |-> PartOf(table, list[i + 1])]

\* A replacement has one result.
LEMMA SplicedUnique ==
    ASSUME NEW S, NEW s, NEW t, NEW from, NEW to, CanSplice(S, s, t, from, to),
           NEW q, NEW r, IsSpliced(q, S, s, t, from, to), IsSpliced(r, S, s, t, from, to)
    PROVE  q = r
<1>1. q \in Seq(S) /\ r \in Seq(S) /\ Len(q) = Len(r)
  BY DEF IsSpliced
<1>2. \A p \in 1..Len(q) : q[p] = r[p]
  BY <1>1 DEF IsSpliced
<1> QED
  BY <1>1, <1>2, SeqEqual

\* One part taken apart leaves the whole as it was.
LEMMA FlattenReplace ==
    ASSUME NEW E, NEW s \in Seq(Seq(E)), NEW t, NEW new \in Seq(Seq(E)), NEW pos \in 1..Len(s),
           IsSpliced(t, Seq(E), s, new, pos, pos), FlattenSeq(new) = s[pos]
    PROVE  FlattenSeq(t) = FlattenSeq(s)
<1> DEFINE x == s[pos]
           one == <<x>>
           a == SubSeq(s, 1, pos - 1)
           b == SubSeq(s, pos + 1, Len(s))
           an == a \o new
           ao == a \o one
<1>1. Len(s) \in Nat /\ pos \in Nat /\ x \in Seq(E)
  OBVIOUS
<1>2. one \in Seq(Seq(E)) /\ Len(one) = 1 /\ one[1] = x
  BY <1>1
<1>3. a \in Seq(Seq(E)) /\ b \in Seq(Seq(E))
  BY <1>1
<1>4. CanSplice(Seq(E), s, new, pos, pos) /\ CanSplice(Seq(E), s, one, pos, pos)
  BY <1>1, <1>2 DEF CanSplice
<1> HIDE DEF x, one
<1>5. IsSpliced(Spliced(s, pos, pos, new), Seq(E), s, new, pos, pos)
      /\ IsSpliced(Spliced(s, pos, pos, one), Seq(E), s, one, pos, pos)
  BY <1>4, SplicedIs
<1>6. t = Spliced(s, pos, pos, new)
  BY <1>4, <1>5, SplicedUnique
<1>7. s = Spliced(s, pos, pos, one)
  <2>1. ASSUME NEW p \in 1..Len(s)
        PROVE  s[p] = IF p < pos THEN s[p]
                      ELSE IF p < pos + Len(one) THEN one[p - pos + 1]
                      ELSE s[p - Len(one) + (pos - pos + 1)]
    <3>1. CASE p = pos
      BY <1>1, <1>2, <3>1 DEF x
    <3>2. CASE p # pos
      <4>1. p - Len(one) + (pos - pos + 1) = p /\ (p < pos \/ ~(p < pos + Len(one)))
        BY <1>1, <1>2, <3>2
      <4> QED
        BY <4>1
    <3> QED
      BY <3>1, <3>2
  <2>2. Len(s) = Len(s) - (pos - pos + 1) + Len(one)
    BY <1>1, <1>2
  <2>3. IsSpliced(s, Seq(E), s, one, pos, pos)
    BY <2>1, <2>2 DEF IsSpliced
  <2> QED
    BY <1>4, <1>5, <2>3, SplicedUnique
<1>8. t = an \o b /\ s = ao \o b
  BY <1>6, <1>7 DEF Spliced
<1> HIDE DEF a, b
<1>9. /\ an \in Seq(Seq(E)) /\ FlattenSeq(an) = FlattenSeq(a) \o FlattenSeq(new)
      /\ ao \in Seq(Seq(E)) /\ FlattenSeq(ao) = FlattenSeq(a) \o FlattenSeq(one)
  BY <1>2, <1>3, ConcatIs, FlattenConcat
<1> HIDE DEF an, ao
<1>10. FlattenSeq(t) = FlattenSeq(an) \o FlattenSeq(b) /\ FlattenSeq(s) = FlattenSeq(ao) \o FlattenSeq(b)
  <2>1. FlattenSeq(an \o b) = FlattenSeq(an) \o FlattenSeq(b)
    BY <1>3, <1>9, FlattenConcat
  <2>2. FlattenSeq(ao \o b) = FlattenSeq(ao) \o FlattenSeq(b)
    BY <1>3, <1>9, FlattenConcat
  <2> QED
    BY <1>8, <2>1, <2>2
<1>11. FlattenSeq(one) = x
  BY <1>1, FlattenOne DEF one
<1> QED
  BY <1>9, <1>10, <1>11 DEF x

\* What a node stands for is a sequence of elements.
LEMMA PartType ==
    ASSUME NEW d, IsTable(d), NEW e, e.name \in Names, e.depth \in Nat
    PROVE  PartOf(d, e) \in Seq(Sub)
<1>1. CASE e.depth > MaxIterations
  <2>1. <<>> \in Seq(Sub)
    OBVIOUS
  <2> QED
    BY <1>1, <2>1 DEF PartOf
<1>2. CASE ~(e.depth > MaxIterations) /\ IsLine(e.type)
  <2>1. MaxIterations - e.depth \in 0..MaxIterations
    BY <1>2, FilesAssumption
  <2>2. Flat(d)[MaxIterations - e.depth][e.name] \in Seq(Sub)
    BY <2>1, FlatIs
  <2>3. Turned(Flat(d)[MaxIterations - e.depth][e.name], e.type) \in Seq(Sub)
    BY <2>2, TurnedIs
  <2> QED
    BY <1>2, <2>3 DEF PartOf
<1>3. CASE ~(e.depth > MaxIterations) /\ ~IsLine(e.type)
  <2>1. [name |-> e.name, depth |-> e.depth] \in Sub
    BY DEF Sub
  <2>2. <<[name |-> e.name, depth |-> e.depth]>> \in Seq(Sub)
    BY <2>1
  <2> QED
    BY <1>3, <2>2 DEF PartOf
<1> QED
  BY <1>1, <1>2, <1>3

\* What entries stand for, one by one.
LEMMA PartsOfAre ==
    ASSUME NEW d, IsTable(d), NEW es \in Seq(EntryType)
    PROVE  /\ PartsOf(d, es) \in Seq(Seq(Sub)) /\ Len(PartsOf(d, es)) = Len(es)
           /\ \A i \in 1..Len(es) : PartsOf(d, es)[i] = PartOf(d, es[i])
<1>1. \A i \in 1..Len(es) : PartOf(d, es[i]) \in Seq(Sub)
  <2> SUFFICES ASSUME NEW i \in 1..Len(es) PROVE PartOf(d, es[i]) \in Seq(Sub)
    OBVIOUS
  <2>1. es[i] \in EntryType
    OBVIOUS
  <2>2. es[i].name \in Names /\ es[i].depth \in Nat
    BY <2>1 DEF EntryType
  <2> QED
    BY <2>2, PartType
<1> DEFINE t(i) == PartOf(d, es[i])
<1>2. \A i \in 1..Len(es) : t(i) \in Seq(Sub)
  BY <1>1
<1>3. PartsOf(d, es) = [i \in 1..Len(es) |-> t(i)] /\ Len(es) \in Nat
  BY DEF PartsOf
<1> HIDE DEF t
<1>4. /\ PartsOf(d, es) \in Seq(Seq(Sub)) /\ Len(PartsOf(d, es)) = Len(es)
      /\ \A i \in 1..Len(es) : PartsOf(d, es)[i] = t(i)
  BY <1>2, <1>3
<1> QED
  BY <1>4 DEF t

\* What the nodes after the first stand for, one by one.
LEMMA PartsAre ==
    ASSUME NEW d, IsTable(d), NEW list \in Seq(NodeType), Len(list) > 0
    PROVE  /\ Parts(d, list) \in Seq(Seq(Sub)) /\ Len(Parts(d, list)) = Len(list) - 1
           /\ \A i \in 1..(Len(list) - 1) : Parts(d, list)[i] = PartOf(d, list[i + 1])
<1>1. \A i \in 1..(Len(list) - 1) : PartOf(d, list[i + 1]) \in Seq(Sub)
  <2> SUFFICES ASSUME NEW i \in 1..(Len(list) - 1) PROVE PartOf(d, list[i + 1]) \in Seq(Sub)
    OBVIOUS
  <2>1. i + 1 \in 1..Len(list)
    OBVIOUS
  <2>2. list[i + 1] \in NodeType
    BY <2>1
  <2>3. list[i + 1].name \in Names /\ list[i + 1].depth \in Nat
    BY <2>2 DEF NodeType
  <2> QED
    BY <2>3, PartType
<1> DEFINE t(i) == PartOf(d, list[i + 1])
           n == Len(list) - 1
<1>2. \A i \in 1..n : t(i) \in Seq(Sub)
  BY <1>1
<1>3. Parts(d, list) = [i \in 1..n |-> t(i)] /\ n \in Nat
  BY DEF Parts
<1> HIDE DEF t, n
<1>4. /\ Parts(d, list) \in Seq(Seq(Sub)) /\ Len(Parts(d, list)) = n
      /\ \A i \in 1..n : Parts(d, list)[i] = t(i)
  BY <1>2, <1>3
<1> QED
  BY <1>4 DEF t, n

\* The other way round.
LEMMA TurnedOpposite ==
    ASSUME NEW E, NEW s \in Seq(E), NEW type \in {"line", "revline"}
    PROVE  Reverse(Turned(s, type)) = Turned(s, Opposite(type))
<1>1. CASE type = "line"
  BY <1>1 DEF Turned, Opposite
<1>2. CASE type = "revline"
  BY <1>2, ReverseTwice DEF Turned, Opposite
<1> QED
  BY <1>1, <1>2

\* A line comes to the same as what is put in its place.
LEMMA LineMeans ==
    ASSUME NEW d, IsTable(d), NEW e, e.name \in Names, e.depth \in Nat, e.type \in {"line", "revline"},
           ListIn(d, e.name)
    PROVE  LET es == Contents(d[e.name].lst, e.type, e.depth + 1)
           IN  FlattenSeq(PartsOf(d, es)) = PartOf(d, e)
<1> DEFINE lst == d[e.name].lst
           es == Contents(lst, e.type, e.depth + 1)
           P == PartsOf(d, es)
           N == MaxIterations
           k == Len(lst)
           dep == e.depth + 1
<1>1. lst \in Seq(Items) /\ N \in Nat /\ k \in Nat /\ dep \in Nat /\ IsLine(e.type)
  BY FilesAssumption DEF IsTable, IsLine
<1>2. /\ es \in Seq(EntryType) /\ Len(es) = k
      /\ \A i \in 1..k :
           /\ es[i].depth = dep /\ es[i].type \in {"line", "revline"}
           /\ e.type = "line" => es[i].name = lst[i].name /\ es[i].type = lst[i].type
           /\ e.type = "revline" =>
                LET j == Len(lst) - i + 1
                IN  es[i].name = lst[j].name /\ es[i].type = Opposite(lst[j].type)
  <2>1. e.type \in {"line", "revline"}
    OBVIOUS
  <2> HIDE DEF lst, dep
  <2>2. es = Contents(lst, e.type, dep)
    BY DEF dep
  <2> HIDE DEF es
  <2> QED
    BY ONLY <1>1, <2>1, <2>2, ContentsAre
<1> HIDE DEF es
<1>3. P \in Seq(Seq(Sub)) /\ Len(P) = k /\ \A i \in 1..k : P[i] = PartOf(d, es[i])
  BY <1>2, PartsOfAre
<1>4. \A i \in 1..k : lst[i].name \in Names /\ lst[i].type \in {"line", "revline"}
  <2>1. \A i \in 1..k : lst[i] \in Items
    BY <1>1
  <2> QED
    BY <2>1 DEF Items
<1> HIDE DEF lst, P, k, N
<1>5. CASE e.depth >= N
  <2>1. \A i \in 1..k : P[i] = <<>>
    <3>1. dep > N
      BY <1>1, <1>5
    <3> QED
      BY <1>2, <1>3, <3>1 DEF PartOf, N
  <2>2. FlattenSeq(P) = <<>>
    BY <1>3, <2>1, FlattenEmptyParts
  <2>3. PartOf(d, e) = <<>>
    <3>1. CASE e.depth > N
      BY <3>1 DEF PartOf, N
    <3>2. CASE e.depth = N
      <4>1. N - e.depth = 0 /\ 0 \in 0..N /\ ~(e.depth > N)
        BY <1>1, <3>2
      <4>2. Flat(d)[0][e.name] = <<>>
        <5>1. 0 \in 0..MaxIterations
          BY <4>1 DEF N
        <5> QED
          BY ONLY <5>1, FlatIs, IsTable(d), e.name \in Names, ListIn(d, e.name)
      <4>3. Reverse(<<>>) = <<>>
        BY DEF Reverse
      <4>4. Turned(<<>>, e.type) = <<>>
        BY <4>3 DEF Turned
      <4>5. PartOf(d, e) = Turned(Flat(d)[N - e.depth][e.name], e.type)
        BY <1>1, <4>1 DEF PartOf, N
      <4> QED
        BY <4>1, <4>2, <4>4, <4>5
    <3> QED
      BY <1>1, <1>5, <3>1, <3>2
  <2> QED
    BY <2>2, <2>3 DEF P, es, lst
<1>6. CASE ~(e.depth >= N)
  <2> DEFINE n == N - e.depth
             v == Flat(d)[n - 1]
             T == TurnedParts(v, lst)
  <2>1. n \in 0..N /\ n # 0 /\ ~(dep > N) /\ ~(e.depth > N) /\ N - dep = n - 1
    BY <1>1, <1>6
  <2>2. v \in Levelled /\ Flat(d)[n][e.name] = FlattenSeq(T)
    BY <2>1, FlatIs DEF N, lst
  <2>3. PartOf(d, e) = Turned(FlattenSeq(T), e.type)
    BY <1>1, <2>1, <2>2 DEF PartOf, N
  <2> HIDE DEF v
  <2>4. T \in Seq(Seq(Sub)) /\ Len(T) = k /\ \A i \in 1..k : T[i] = Turned(v[lst[i].name], lst[i].type)
    BY <1>1, <2>2, TurnedPartsAre DEF k
  <2>5. ASSUME NEW i \in 1..k PROVE P[i] = Turned(v[es[i].name], es[i].type)
    <3>1. IsLine(es[i].type) /\ es[i].depth = dep
      BY <1>2 DEF IsLine
    <3>2. PartOf(d, es[i]) = Turned(Flat(d)[N - dep][es[i].name], es[i].type)
      BY <2>1, <3>1 DEF PartOf, N
    <3> QED
      BY <1>3, <2>1, <3>2 DEF v
  <2> HIDE DEF T, n
  <2>6. CASE e.type = "line"
    <3>1. \A i \in 1..k : P[i] = T[i]
      BY <1>2, <2>4, <2>5, <2>6
    <3>2. P = T
      BY <1>3, <2>4, <3>1, SeqEqual
    <3> QED
      BY <2>3, <2>6, <3>2 DEF Turned, P, es, lst
  <2>7. CASE e.type = "revline"
    <3> DEFINE R == [i \in 1..Len(T) |-> Reverse(T[Len(T) - i + 1])]
    <3>1. Reverse(FlattenSeq(T)) = FlattenSeq(R)
      BY <2>4, FlattenReverse
    <3>2. ASSUME NEW i \in 1..k PROVE P[i] = Reverse(T[k - i + 1])
      <4> DEFINE j == k - i + 1
      <4>1. j \in 1..k
        BY <1>1
      <4>2. es[i].name = lst[j].name /\ es[i].type = Opposite(lst[j].type)
        BY <1>2, <2>7 DEF k
      <4> HIDE DEF j
      <4>3. T[j] = Turned(v[lst[j].name], lst[j].type)
        BY <2>4, <4>1
      <4>4. v[lst[j].name] \in Seq(Sub)
        BY <1>4, <2>2, <4>1 DEF Levelled
      <4>5. Reverse(T[j]) = Turned(v[lst[j].name], Opposite(lst[j].type))
        BY <1>4, <4>1, <4>3, <4>4, TurnedOpposite
      <4>6. P[i] = Turned(v[lst[j].name], Opposite(lst[j].type))
        BY <2>5, <4>2
      <4> QED
        BY <4>5, <4>6 DEF j
    <3>3. P = [i \in 1..k |-> P[i]]
      BY <1>3
    <3>4. R = [i \in 1..k |-> Reverse(T[k - i + 1])]
      BY <2>4
    <3> HIDE DEF R
    <3>5. P = R
      BY <3>2, <3>3, <3>4
    <3>6. ~(e.type = "line")
      BY <2>7
    <3> QED
      BY <2>3, <3>1, <3>5, <3>6 DEF Turned, P, es, lst
  <2> QED
    BY <2>6, <2>7
<1> QED
  BY <1>5, <1>6

\* A node that has no list comes to itself, whatever it is taken for.
LEMMA NodeMeans ==
    ASSUME NEW d, IsTable(d), NEW e, e.name \in Names, e.depth \in Nat, e.depth <= MaxIterations,
           ~ListIn(d, e.name)
    PROVE  PartOf(d, e) = <<[name |-> e.name, depth |-> e.depth]>>
<1> DEFINE n == MaxIterations - e.depth
           x == [name |-> e.name, depth |-> e.depth]
           one == <<x>>
<1>1. n \in 0..MaxIterations /\ MaxIterations - n = e.depth /\ ~(e.depth > MaxIterations)
  BY FilesAssumption
<1>2. Flat(d)[n][e.name] = one
  BY <1>1, FlatIs
<1>3. one \in Seq({x}) /\ Len(one) = 1 /\ one[1] = x
  OBVIOUS
<1> HIDE DEF x, one
<1>4. Reverse(one) = one
  <2> DEFINE r == Reverse(one)
  <2>1. r \in Seq({x}) /\ Len(r) = 1 /\ r[1] = one[1]
    <3>1. 1 \in 1..Len(one) /\ Len(one) - 1 + 1 = 1
      BY <1>3
    <3> QED
      BY <1>3, <3>1, ReverseIs
  <2> HIDE DEF r
  <2>2. \A i \in 1..Len(r) : r[i] = one[i]
    BY <1>3, <2>1
  <2>3. r = one
    BY <1>3, <2>1, <2>2, SeqEqual
  <2> QED
    BY <2>3 DEF r
<1>5. Turned(one, e.type) = one
  BY <1>4 DEF Turned
<1>6. CASE IsLine(e.type)
  BY <1>1, <1>2, <1>5, <1>6 DEF PartOf, one, x
<1>7. CASE ~IsLine(e.type)
  BY <1>1, <1>7 DEF PartOf, one, x
<1> QED
  BY <1>6, <1>7

\* While a line is expanded, it is always the same that its nodes come to: what
\* the line stands for by the definitions.
MeaningInv ==
    pc \in {"expand", "range"} =>
        FlattenSeq(Parts(defined, target.list)) = Flat(defined)[MaxIterations][job.name]

\* The definitions of the parser are a table as Flat and Height take it.
LEMMA DefinedIsTable == ASSUME TypeInv PROVE IsTable(defined)
  BY TypeFacts DEF IsTable, HasList

\* At the start the nodes stand for what the line does.
LEMMA MeaningStarts ==
    ASSUME TypeInv, NEW name \in Names, NEW start, NEW end, NEW into, Starting(name, start, end, into)
    PROVE  MeaningInv'
<1> DEFINE lst == defined[name].lst
           e == [name |-> name, type |-> "line", depth |-> 0]
           es == Contents(lst, "line", 1)
           list == target'.list
           P == Parts(defined, list)
           Q == PartsOf(defined, es)
           N == MaxIterations
<1>1. /\ lst \in Seq(Items) /\ Len(lst) \in Nat /\ target' = StartOf(name, lst)
      /\ defined' = defined /\ job'.name = name /\ HasList(name)
  BY TypeFacts DEF Starting
<1>2. N \in Nat /\ IsTable(defined)
  BY DefinedIsTable, FilesAssumption
<1> HIDE DEF lst
<1>3. /\ target' \in FastLists /\ Len(list) = Len(lst) + 1
      /\ \A i \in 1..Len(lst) : /\ list[i + 1].name = lst[i].name
                                /\ list[i + 1].type = lst[i].type
                                /\ list[i + 1].depth = 1
  BY <1>1, StartIs
<1>4. /\ es \in Seq(EntryType) /\ Len(es) = Len(lst)
      /\ \A i \in 1..Len(lst) : es[i].depth = 1 /\ es[i].name = lst[i].name /\ es[i].type = lst[i].type
  <2>1. "line" \in {"line", "revline"} /\ 1 \in Nat
    OBVIOUS
  <2> QED
    BY <1>1, <2>1, ContentsAre
<1>5. list \in Seq(NodeType) /\ Len(list) > 0 /\ Len(list) - 1 = Len(lst)
  BY <1>1, <1>3, FastListFacts
<1> HIDE DEF list
<1>6. P \in Seq(Seq(Sub)) /\ Len(P) = Len(lst) /\ \A i \in 1..Len(lst) : P[i] = PartOf(defined, list[i + 1])
  BY <1>2, <1>5, PartsAre
<1> HIDE DEF es
<1>7. Q \in Seq(Seq(Sub)) /\ Len(Q) = Len(lst) /\ \A i \in 1..Len(lst) : Q[i] = PartOf(defined, es[i])
  BY <1>2, <1>4, PartsOfAre
<1> HIDE DEF P, Q
<1>8. ASSUME NEW i \in 1..Len(lst) PROVE P[i] = Q[i]
  <2>1. P[i] = PartOf(defined, list[i + 1]) /\ Q[i] = PartOf(defined, es[i])
    BY <1>6, <1>7
  <2>2. list[i + 1].name = es[i].name /\ list[i + 1].type = es[i].type /\ list[i + 1].depth = es[i].depth
    BY <1>3, <1>4
  <2> QED
    BY <2>1, <2>2 DEF PartOf
<1>9. P = Q
  BY <1>6, <1>7, <1>8, SeqEqual
<1>10. FlattenSeq(Q) = PartOf(defined, e)
  <2>1. e.name \in Names /\ e.depth \in Nat /\ e.type \in {"line", "revline"} /\ ListIn(defined, e.name)
        /\ e.name = name /\ e.type = "line" /\ e.depth + 1 = 1
    BY <1>1 DEF HasList
  <2> HIDE DEF e
  <2>2. FlattenSeq(PartsOf(defined, Contents(defined[e.name].lst, e.type, e.depth + 1))) = PartOf(defined, e)
    BY <1>2, <2>1, LineMeans
  <2> QED
    BY <2>1, <2>2 DEF Q, es, lst
<1>11. PartOf(defined, e) = Flat(defined)[N][name]
  <2>1. e.depth = 0 /\ e.type = "line" /\ e.name = name /\ IsLine(e.type)
    BY DEF IsLine
  <2>2. N - 0 = N /\ ~(0 > N)
    BY <1>2
  <2> HIDE DEF e
  <2>3. PartOf(defined, e) = Turned(Flat(defined)[N][name], "line")
    BY <2>1, <2>2 DEF PartOf, N
  <2> QED
    BY <2>3 DEF Turned
<1> QED
  BY <1>1, <1>9, <1>10, <1>11 DEF MeaningInv, P, N, list

\* Putting its contents in place of a line changes nothing in that.
LEMMA MeaningReplaces ==
    ASSUME TypeInv, HeaderInv, MeaningInv, Replacing PROVE MeaningInv'
<1> DEFINE k == Len(NewEntries)
           m == Len(target.list)
           old == target.list
           list == target'.list
           P == Parts(defined, old)
           Q == Parts(defined, list)
           R == PartsOf(defined, NewEntries)
<1>1. /\ it \in 2..m /\ k \in Nat /\ it' = it + k /\ m \in Nat
      /\ Len(list) = m - 1 + k
      /\ \A p \in 1..Len(list) : p < it => list[p] = old[p]
      /\ \A p \in 1..Len(list) : p >= it /\ p < it' =>
           p - it + 1 \in 1..k /\ list[p].name = NewEntries[p - it + 1].name
           /\ list[p].type = NewEntries[p - it + 1].type
           /\ list[p].depth = NewEntries[p - it + 1].depth
      /\ \A p \in 1..Len(list) : p >= it' =>
           p - k + 1 \in (it + 1)..m /\ list[p] = old[p - k + 1]
  BY ReplacedNodes
<1>2. /\ AtNode /\ defined' = defined /\ job' = job /\ pc = "expand" /\ IsTable(defined)
      /\ target \in FastLists /\ target' \in FastLists
  <2>1. AtNode /\ target \in FastLists
    BY DEF Replacing, TypeInv, ListsInv
  <2>3. NewEntries \in Seq(EntryType) /\ target' = Erase(InsertAll(target, it, NewEntries), it + k)
    BY ReplacingIs
  <2>4. it \in 1..Len(target.list)
    BY <1>1
  <2>5. target' \in FastLists
    BY <2>1, <2>3, <2>4, ReplaceIs
  <2> QED
    BY <2>1, <2>5, DefinedIsTable DEF AtNode
<1>3. old \in Seq(NodeType) /\ list \in Seq(NodeType) /\ NewEntries \in Seq(EntryType)
  BY <1>2, FastListFacts, ReplacingIs
<1>4. Node = old[it] /\ Node \in NodeType /\ Node.type \in {"line", "revline"} /\ HasList(Node.name)
  <2>1. it <= Len(target.list)
    BY <1>1
  <2> QED
    BY <1>2, <2>1, NodeFacts, ReplacingIs DEF Node, Replacing
<1> HIDE DEF k, m, old, list
<1>5. P \in Seq(Seq(Sub)) /\ Len(P) = m - 1 /\ \A i \in 1..(m - 1) : P[i] = PartOf(defined, old[i + 1])
  <2>1. Len(old) > 0 /\ Len(old) = m
    BY <1>1 DEF m, old
  <2> QED
    BY <1>2, <1>3, <2>1, PartsAre
<1>6. Q \in Seq(Seq(Sub)) /\ Len(Q) = m + k - 2 /\ \A i \in 1..(m + k - 2) : Q[i] = PartOf(defined, list[i + 1])
  <2>1. Len(list) > 0 /\ Len(list) - 1 = m + k - 2
    BY <1>1
  <2> QED
    BY <1>2, <1>3, <2>1, PartsAre
<1>7. R \in Seq(Seq(Sub)) /\ Len(R) = k /\ \A i \in 1..k : R[i] = PartOf(defined, NewEntries[i])
  BY <1>2, <1>3, PartsOfAre DEF k
<1>8. FlattenSeq(R) = P[it - 1]
  <2>1. FlattenSeq(PartsOf(defined, Contents(defined[Node.name].lst, Node.type, Node.depth + 1))) = PartOf(defined, Node)
    <3>1. Node.name \in Names /\ Node.depth \in Nat
      BY <1>4 DEF NodeType
    <3> QED
      BY <1>2, <1>4, <3>1, LineMeans DEF HasList
  <2>2. it - 1 \in 1..(m - 1) /\ it - 1 + 1 = it
    BY <1>1
  <2> QED
    BY <1>4, <1>5, <2>1, <2>2 DEF NewEntries
<1> HIDE DEF P, Q, R
<1>9. IsSpliced(Q, Seq(Sub), P, R, it - 1, it - 1)
  <2> SUFFICES ASSUME NEW i \in 1..Len(Q)
               PROVE  Q[i] = IF i < it - 1 THEN P[i]
                             ELSE IF i < (it - 1) + Len(R) THEN R[i - (it - 1) + 1]
                             ELSE P[i - Len(R) + ((it - 1) - (it - 1) + 1)]
    <3>1. Len(Q) = Len(P) - ((it - 1) - (it - 1) + 1) + Len(R)
      BY <1>1, <1>5, <1>6, <1>7
    <3> QED
      BY <1>6, <3>1 DEF IsSpliced
  <2>1. i \in 1..(m + k - 2) /\ i + 1 \in 1..Len(list) /\ i \in Nat
    BY <1>1, <1>6
  <2>2. Q[i] = PartOf(defined, list[i + 1])
    BY <1>6, <2>1
  <2>3. CASE i < it - 1
    <3>1. i + 1 < it /\ i \in 1..(m - 1)
      BY <1>1, <2>1, <2>3
    <3>2. list[i + 1] = old[i + 1]
      BY <1>1, <2>1, <3>1
    <3> QED
      BY <1>5, <2>2, <2>3, <3>1, <3>2
  <2>4. CASE i >= it - 1 /\ i < it - 1 + k
    <3> DEFINE q == i + 1
               j == i - (it - 1) + 1
    <3>1. q >= it /\ q < it' /\ q - it + 1 = j /\ j \in 1..k /\ q \in 1..Len(list)
      BY <1>1, <2>1, <2>4
    <3> HIDE DEF q, j
    <3>2. list[q].name = NewEntries[j].name /\ list[q].type = NewEntries[j].type
          /\ list[q].depth = NewEntries[j].depth
      BY <1>1, <3>1
    <3>3. PartOf(defined, list[q]) = PartOf(defined, NewEntries[j])
      BY <3>2 DEF PartOf
    <3>4. Q[i] = R[j]
      BY <1>7, <2>2, <3>1, <3>3 DEF q
    <3>5. ~(i < it - 1) /\ i < it - 1 + Len(R)
      BY <1>1, <1>7, <2>1, <2>4
    <3> QED
      BY <3>4, <3>5 DEF j
  <2>5. CASE ~(i < it - 1 + k)
    <3> DEFINE q == i + 1
               j == i - k + 1
    <3>1. q >= it' /\ q \in 1..Len(list) /\ q - k + 1 = j + 1 /\ j \in Nat
          /\ j = i - Len(R) + ((it - 1) - (it - 1) + 1)
      BY <1>1, <1>7, <2>1, <2>5
    <3> HIDE DEF q
    <3>2. j + 1 \in (it + 1)..m /\ list[q] = old[j + 1]
      BY <1>1, <3>1
    <3>3. j \in 1..(m - 1)
      BY <1>1, <3>1, <3>2
    <3>4. Q[i] = P[j]
      BY <1>5, <2>2, <3>2, <3>3 DEF q
    <3>5. ~(i < it - 1) /\ ~(i < it - 1 + Len(R))
      BY <1>1, <1>7, <2>1, <2>5
    <3> QED
      BY <3>1, <3>4, <3>5
  <2> QED
    BY <1>1, <2>1, <2>3, <2>4, <2>5
<1>10. it - 1 \in 1..Len(P)
  BY <1>1, <1>5
<1>11. FlattenSeq(Q) = FlattenSeq(P)
  BY <1>5, <1>7, <1>8, <1>9, <1>10, FlattenReplace
<1>12. FlattenSeq(P) = Flat(defined)[MaxIterations][job.name]
  BY <1>2 DEF MeaningInv, P, old
<1> QED
  BY <1>2, <1>11, <1>12 DEF MeaningInv, Q, list

\* Nor does a line that has no list.
LEMMA MeaningRetypes ==
    ASSUME TypeInv, HeaderInv, PassInv, MeaningInv, Retyping PROVE MeaningInv'
<1> DEFINE list == target'.list
           old == target.list
           P == Parts(defined, old)
           Q == Parts(defined, list)
<1>1. /\ target' \in FastLists /\ Len(list) = Len(old)
      /\ \A p \in 1..Len(old) :
              list[p] = IF p = it THEN [Node EXCEPT !.type = defined[Node.name].type] ELSE old[p]
  BY RetypingIs
<1>2. /\ pc = "expand" /\ AtNode /\ defined' = defined /\ job' = job /\ IsTable(defined) /\ target \in FastLists
      /\ IsLine(Node.type) /\ IsDefined(Node.name) /\ ~HasList(Node.name)
      /\ Node \in NodeType /\ it \in 1..Len(old) /\ Node = old[it] /\ it \in Nat \ {0, 1}
  BY DefinedIsTable, NodeFacts DEF Retyping, AtNode, TypeInv, ListsInv, Node
<1>3. old \in Seq(NodeType) /\ list \in Seq(NodeType) /\ Len(old) \in Nat /\ Len(old) > 0
  BY <1>1, <1>2, FastListFacts
<1> HIDE DEF old, list
<1>4. /\ P \in Seq(Seq(Sub)) /\ Len(P) = Len(old) - 1
      /\ \A i \in 1..(Len(old) - 1) : P[i] = PartOf(defined, old[i + 1])
  BY <1>2, <1>3, PartsAre
<1>5. /\ Q \in Seq(Seq(Sub)) /\ Len(Q) = Len(old) - 1
      /\ \A i \in 1..(Len(old) - 1) : Q[i] = PartOf(defined, list[i + 1])
  <2>1. Len(list) = Len(old) /\ Len(list) > 0 /\ Len(list) - 1 = Len(old) - 1
    BY <1>1, <1>3
  <2>2. list \in Seq(NodeType) /\ IsTable(defined)
    BY <1>2, <1>3
  <2>3. /\ Q \in Seq(Seq(Sub)) /\ Len(Q) = Len(list) - 1
        /\ \A i \in 1..(Len(list) - 1) : Q[i] = PartOf(defined, list[i + 1])
    <3> HIDE DEF Q
    <3>1. Q = Parts(defined, list)
      BY DEF Q
    <3> QED
      BY ONLY <2>1, <2>2, <3>1, PartsAre
  <2> HIDE DEF Q
  <2> QED
    BY <2>1, <2>3
<1> HIDE DEF P, Q
<1>6. PartOf(defined, list[it]) = PartOf(defined, old[it])
  <2> DEFINE e == list[it]
             f == old[it]
  <2>1. e = [f EXCEPT !.type = defined[f.name].type]
    BY <1>1, <1>2
  <2>2. e.name = f.name /\ e.depth = f.depth /\ f.name \in Names /\ f.depth \in Nat /\ ~ListIn(defined, f.name)
    BY <1>2, <2>1 DEF NodeType, HasList
  <2> HIDE DEF e, f
  <2>3. ASSUME f.depth > MaxIterations PROVE PartOf(defined, e) = PartOf(defined, f)
    BY <2>2, <2>3 DEF PartOf
  <2>4. ASSUME f.depth <= MaxIterations PROVE PartOf(defined, e) = PartOf(defined, f)
    <3>1. PartOf(defined, f) = <<[name |-> f.name, depth |-> f.depth]>>
      BY <1>2, <2>2, <2>4, NodeMeans
    <3>2. e.name \in Names /\ e.depth \in Nat /\ e.depth <= MaxIterations /\ ~ListIn(defined, e.name)
      BY <2>2, <2>4
    <3>3. PartOf(defined, e) = <<[name |-> e.name, depth |-> e.depth]>>
      BY <1>2, <3>2, NodeMeans
    <3> QED
      BY <2>2, <3>1, <3>3
  <2>5. PartOf(defined, e) = PartOf(defined, f)
    BY <2>2, <2>3, <2>4, FilesAssumption
  <2> QED
    BY <2>5 DEF e, f
<1>7. ASSUME NEW i \in 1..(Len(old) - 1) PROVE Q[i] = P[i]
  <2>1. CASE i + 1 = it
    BY <1>4, <1>5, <1>6, <2>1
  <2>2. CASE i + 1 # it
    <3>1. i + 1 \in 1..Len(old)
      BY <1>3
    <3> QED
      BY <1>1, <1>4, <1>5, <2>2, <3>1
  <2> QED
    BY <2>1, <2>2
<1>8. Q = P
  BY <1>4, <1>5, <1>7, SeqEqual
<1> QED
  BY <1>2, <1>8 DEF MeaningInv, P, Q, old, list

\* MeaningInv is inductive, given the types, HeaderInv and PassInv.
LEMMA MeaningKept == ASSUME TypeInv, HeaderInv, PassInv, MeaningInv, [Next]_vars PROVE MeaningInv'
<1>1. CASE pc' \notin {"expand", "range"}
  BY <1>1 DEF MeaningInv
<1>2. CASE pc' = pc /\ UNCHANGED <<job, target, it, isExpanded, iteration, defined>>
  BY <1>2 DEF MeaningInv
<1>3. CASE Passing
  BY <1>3 DEF Passing, AtNode, MeaningInv
<1>4. CASE NextPass
  BY <1>4 DEF NextPass, MeaningInv
<1> QED
  BY <1>1, <1>2, <1>3, <1>4, ExpansionSteps, MeaningStarts, MeaningReplaces, MeaningRetypes

\* The nodes left are the elements that the line stands for.
LEMMA RangeMeans ==
    ASSUME TypeInv, HeaderInv, PassInv, MeaningInv, pc = "range"
    PROVE  /\ Len(target.list) \in Nat /\ Len(target.list) > 0
           /\ Substituted(job.name) \in Seq(Sub) /\ Len(Substituted(job.name)) = Len(target.list) - 1
           /\ \A p \in 2..Len(target.list) :
                /\ Substituted(job.name)[p - 1].name = target.list[p].name
                /\ Substituted(job.name)[p - 1].depth = target.list[p].depth
<1> DEFINE list == target.list
           m == Len(list)
           P == Parts(defined, list)
           t == [i \in 1..(m - 1) |-> [name |-> list[i + 1].name, depth |-> list[i + 1].depth]]
<1>1. list \in Seq(NodeType) /\ m \in Nat /\ m > 0 /\ IsTable(defined)
  BY FastListFacts, DefinedIsTable DEF HeaderInv, TypeInv, ListsInv
<1>2. \A p \in 2..m : list[p].depth \in 1..iteration /\ ~IsLine(list[p].type)
  BY DEF PassInv
<1>3. iteration \in 0..MaxIterations /\ MaxIterations \in Nat
  BY FilesAssumption DEF TypeInv, ControlInv
<1> HIDE DEF list
<1>4. P \in Seq(Seq(Sub)) /\ Len(P) = m - 1 /\ \A i \in 1..(m - 1) : P[i] = PartOf(defined, list[i + 1])
  BY <1>1, PartsAre
<1>5. \A i \in 1..(m - 1) : i + 1 \in 2..m /\ i + 1 \in 1..m
  BY <1>1
<1>6. ASSUME NEW i \in 1..(m - 1)
      PROVE  [name |-> list[i + 1].name, depth |-> list[i + 1].depth] \in Sub
  <2>1. list[i + 1] \in NodeType
    BY <1>1, <1>5
  <2> QED
    BY <2>1 DEF NodeType, Sub
<1>7. t \in Seq(Sub) /\ Len(t) = m - 1
  <2> DEFINE n == m - 1
             x(i) == [name |-> list[i + 1].name, depth |-> list[i + 1].depth]
  <2>1. n \in Nat /\ \A i \in 1..n : x(i) \in Sub
    BY <1>1, <1>6
  <2>2. t = [i \in 1..n |-> x(i)]
    OBVIOUS
  <2> HIDE DEF n, x, t
  <2>3. t \in Seq(Sub) /\ Len(t) = n
    BY <2>1, <2>2
  <2> QED
    BY <2>3 DEF n
<1>8. \A i \in 1..(m - 1) : t[i].name = list[i + 1].name /\ t[i].depth = list[i + 1].depth
                            /\ t[i] = [name |-> list[i + 1].name, depth |-> list[i + 1].depth]
  OBVIOUS
<1> HIDE DEF t, P, m
<1>9. ASSUME NEW i \in 1..(m - 1) PROVE P[i] = <<t[i]>>
  <2> DEFINE e == list[i + 1]
  <2>1. e.depth \in 1..iteration /\ ~IsLine(e.type)
    BY <1>2, <1>5
  <2>2. ~(e.depth > MaxIterations)
    BY <1>3, <2>1
  <2>3. PartOf(defined, e) = <<[name |-> e.name, depth |-> e.depth]>>
    BY <2>1, <2>2 DEF PartOf
  <2> QED
    BY <1>4, <1>8, <2>3
<1>10. FlattenSeq(P) = t
  BY <1>4, <1>7, <1>9, FlattenSingles
<1>11. Substituted(job.name) = t
  BY <1>10 DEF MeaningInv, Substituted, P, list
<1>12. ASSUME NEW p \in 2..m PROVE t[p - 1].name = list[p].name /\ t[p - 1].depth = list[p].depth
  <2> DEFINE i == p - 1
  <2>1. i \in 1..(m - 1) /\ i + 1 = p
    BY <1>1
  <2> HIDE DEF i
  <2>2. t[i].name = list[p].name /\ t[i].depth = list[p].depth
    BY <1>8, <2>1
  <2> QED
    BY <2>2 DEF i
<1> QED
  BY <1>1, <1>7, <1>11, <1>12 DEF m, list

\* What the n-th instance of a name rests on: where each pass has got to, that
\* the nodes come to what the line stands for, and the order of the index.
ExpansionInv == HeaderInv /\ PassInv /\ OrderInv /\ MeaningInv

\* Nothing is being expanded at the start.
LEMMA InitExpansionInv == Init => ExpansionInv
  BY DEF Init, ExpansionInv, HeaderInv, PassInv, OrderInv, MeaningInv

\* ExpansionInv is inductive, given the types.
LEMMA NextExpansionInv == ASSUME TypeInv, ExpansionInv, [Next]_vars PROVE ExpansionInv'
  BY HeaderKept, PassKept, OrderKept, MeaningKept DEF ExpansionInv

\* When the passes are over, instances are counted by depth.
LEMMA ExpansionByDepth == ASSUME TypeInv, ExpansionInv PROVE InstancesByDepth
<1> DEFINE depth(p) == IF p = 1 THEN 0 ELSE Substituted(job.name)[p - 1].depth
<1> SUFFICES ASSUME pc = "range", NEW n \in Names, NEW k \in 1..Len(target.map[n]),
                    NEW l \in 1..Len(target.map[n]), k < l
             PROVE  LET p == Positions(target, n)[k]
                        q == Positions(target, n)[l]
                    IN  depth(p) < depth(q) \/ (depth(p) = depth(q) /\ p < q)
  BY DEF InstancesByDepth
<1> DEFINE p == Positions(target, n)[k]
           q == Positions(target, n)[l]
<1>1. /\ target \in FastLists /\ target \in OrderedLists /\ Len(target.list) \in Nat
      /\ target.list[1].depth = 0 /\ Len(target.list) > 0
  <2>1. target \in FastLists
    BY DEF TypeInv, ListsInv
  <2> QED
    BY <2>1, FastListFacts DEF ExpansionInv, OrderInv, HeaderInv
<1>2. /\ p \in 1..Len(target.list) /\ target.list[p].id = target.map[n][k]
      /\ q \in 1..Len(target.list) /\ target.list[q].id = target.map[n][l]
  BY <1>1, PositionsAre
<1> HIDE DEF p, q
<1>3. Before(target, p, q)
  BY <1>1, <1>2 DEF OrderedLists, ByDepth
<1>4. \A r \in 2..Len(target.list) : Substituted(job.name)[r - 1].depth = target.list[r].depth
  BY RangeMeans DEF ExpansionInv
<1>5. ASSUME NEW r \in 1..Len(target.list) PROVE depth(r) = target.list[r].depth
  <2>1. CASE r = 1
    BY <1>1, <2>1
  <2>2. CASE r # 1
    <3>1. r \in 2..Len(target.list)
      BY <1>1, <2>2
    <3> QED
      BY <1>4, <2>2, <3>1
  <2> QED
    BY <2>1, <2>2
<1> HIDE DEF depth
<1>6. depth(p) = target.list[p].depth /\ depth(q) = target.list[q].depth
  BY <1>2, <1>5
<1>7. depth(p) < depth(q) \/ (depth(p) = depth(q) /\ p < q)
  BY <1>3, <1>6 DEF Before
<1> QED
  BY <1>7 DEF p, q

\* The n-th instance of a name is counted by depth of nesting first and only then
\* along the line, however lines are nested, reversed and repeated
\* (FastList::find after Parser::expand_line).
THEOREM InstancesCorrect == Spec => []InstancesByDepth
<1>1. Init => TypeInv /\ ExpansionInv
  BY InitTypeInv, InitExpansionInv
<1>2. TypeInv /\ ExpansionInv /\ [Next]_vars => TypeInv' /\ ExpansionInv'
  BY NextTypeInv, NextExpansionInv
<1>3. TypeInv /\ ExpansionInv => InstancesByDepth
  BY ExpansionByDepth
<1> QED
  BY <1>1, <1>2, <1>3, PTL DEF Spec

-----------------------------------------------------------------------------
\* The greatest of 0 and some numbers.
LEMMA MaxOver ==
    ASSUME NEW k \in Nat, NEW f, \A i \in 1..k : f[i] \in Nat
    PROVE  LET m == Max({0} \union {f[i] : i \in 1..k})
           IN  m \in Nat /\ (\A i \in 1..k : f[i] <= m) /\ (m = 0 \/ \E i \in 1..k : m = f[i])
<1> DEFINE T == {f[i] : i \in 1..k}
           S == {0} \union T
           g == [i \in 1..k |-> f[i]]
<1>1. IsFiniteSet(1..k)
  BY FS_Interval
<1>2. g \in Surjection(1..k, T)
  BY DEF Surjection
<1>3. IsFiniteSet(T)
  BY <1>1, <1>2, FS_Surjection
<1>4. IsFiniteSet({0}) /\ IsFiniteSet(S)
  BY <1>3, FS_Singleton, FS_Union
<1>5. S \subseteq Nat /\ 0 \in S
  OBVIOUS
<1>6. Max(S) \in S /\ \A x \in S : x <= Max(S)
  <2>1. S \subseteq Int /\ S # {}
    BY <1>5
  <2> HIDE DEF S
  <2> QED
    BY <1>4, <2>1, GreatestElement
<1>7. \A i \in 1..k : f[i] \in S
  OBVIOUS
<1>8. \A x \in S : x = 0 \/ \E i \in 1..k : x = f[i]
  OBVIOUS
<1> DEFINE m == Max(S)
<1>9. m \in S /\ \A x \in S : x <= m
  BY <1>6
<1> HIDE DEF m, S
<1>10. m \in Nat /\ (\A i \in 1..k : f[i] <= m) /\ (m = 0 \/ \E i \in 1..k : m = f[i])
  BY <1>5, <1>7, <1>8, <1>9
<1> QED
  BY <1>10 DEF m, S

Heights == [Names -> Nat \ {0}]
Highest(v, lst) == Max({0} \union {v[lst[i].name] : i \in 1..Len(lst)})
HeightFrom(d, n, v) ==
    [name \in Names |->
        IF ~ListIn(d, name)
        THEN IF name \in DOMAIN d /\ IsLine(d[name].type) THEN MaxIterations + 1 ELSE 1
        ELSE IF n = 0 THEN MaxIterations + 1
        ELSE 1 + Highest(v, d[name].lst)]

\* The most levels that an entry of a line has.
LEMMA HighestIs ==
    ASSUME NEW v \in Heights, NEW lst \in Seq(Items)
    PROVE  /\ Highest(v, lst) \in Nat
           /\ \A i \in 1..Len(lst) : v[lst[i].name] \in Nat \ {0} /\ v[lst[i].name] <= Highest(v, lst)
           /\ Highest(v, lst) = 0 \/ \E i \in 1..Len(lst) : Highest(v, lst) = v[lst[i].name]
<1> DEFINE k == Len(lst)
           f == [i \in 1..k |-> v[lst[i].name]]
<1>1. k \in Nat /\ \A i \in 1..k : lst[i] \in Items
  OBVIOUS
<1>2. \A i \in 1..k : v[lst[i].name] \in Nat \ {0}
  BY <1>1 DEF Items, Heights
<1>3. \A i \in 1..k : f[i] = v[lst[i].name]
  OBVIOUS
<1>4. {f[i] : i \in 1..k} = {v[lst[i].name] : i \in 1..k}
  BY <1>3
<1>5. Highest(v, lst) = Max({0} \union {f[i] : i \in 1..k})
  BY <1>4 DEF Highest
<1> HIDE DEF f, k
<1>6. \A i \in 1..k : f[i] \in Nat
  BY <1>2, <1>3
<1>7. LET m == Max({0} \union {f[i] : i \in 1..k})
      IN  m \in Nat /\ (\A i \in 1..k : f[i] <= m) /\ (m = 0 \/ \E i \in 1..k : m = f[i])
  BY <1>1, <1>6, MaxOver
<1> QED
  BY <1>2, <1>3, <1>5, <1>7 DEF k

\* One level more of Height is of the right type.
LEMMA HeightType ==
    ASSUME NEW d, IsTable(d), NEW n, NEW v, n # 0 => v \in Heights
    PROVE  HeightFrom(d, n, v) \in Heights
<1>1. MaxIterations \in Nat
  BY FilesAssumption
<1> SUFFICES ASSUME NEW name \in Names
             PROVE  (IF ~ListIn(d, name)
                     THEN IF name \in DOMAIN d /\ IsLine(d[name].type) THEN MaxIterations + 1 ELSE 1
                     ELSE IF n = 0 THEN MaxIterations + 1
                     ELSE 1 + Highest(v, d[name].lst)) \in Nat \ {0}
  BY DEF HeightFrom, Heights
<1>2. ListIn(d, name) /\ n # 0 => Highest(v, d[name].lst) \in Nat
  BY HighestIs DEF IsTable
<1> QED
  BY <1>1, <1>2

\* Height is what its definition says, at every level.
LEMMA HeightLevels ==
    ASSUME NEW d, IsTable(d)
    PROVE  \A n \in 0..(MaxIterations + 1) :
                Height(d)[n] \in Heights /\ Height(d)[n] = HeightFrom(d, n, Height(d)[n - 1])
<1> DEFINE N == MaxIterations + 1
           V == Heights
           b == HeightFrom(d, 0, <<>>)
           g == [n \in 1..N |-> [v \in V |-> HeightFrom(d, n, v)]]
           c == Height(d)
<1>1. N \in Nat /\ b \in V
  BY FilesAssumption, HeightType
<1>2. \A n \in 1..N, v \in V : g[n][v] \in V /\ g[n][v] = HeightFrom(d, n, v)
  BY HeightType
<1>3. \A v : HeightFrom(d, 0, v) = b
  BY DEF HeightFrom
<1> HIDE DEF N, V, b, g
<1>4. PICK f : IsLevels(f, N, V, b, g)
  BY <1>1, <1>2, RecursionByLevels
<1>5. f = [n \in 0..N |-> HeightFrom(d, n, f[n - 1])]
  <2>1. f = [n \in 0..N |-> f[n]]
    BY <1>4 DEF IsLevels
  <2>2. ASSUME NEW n \in 0..N PROVE f[n] = HeightFrom(d, n, f[n - 1])
    <3>1. CASE n = 0
      BY <1>3, <1>4, <3>1 DEF IsLevels
    <3>2. CASE n # 0
      <4>1. n \in 1..N /\ n - 1 \in 0..N
        BY <1>1, <3>2
      <4>2. f[n - 1] \in V /\ f[n] = g[n][f[n - 1]]
        BY <1>4, <4>1 DEF IsLevels
      <4> QED
        BY <1>2, <4>1, <4>2
    <3> QED
      BY <3>1, <3>2
  <2> QED
    BY <2>1, <2>2
<1>6. c = [n \in 0..N |-> HeightFrom(d, n, c[n - 1])]
  BY <1>5, Zenon DEF Height, HeightFrom, Highest, N
<1> HIDE DEF c
<1>7. \A n \in 0..N : c[n] = HeightFrom(d, n, c[n - 1])
  BY <1>6, Zenon
<1> DEFINE S == {n \in 0..N : c[n] \in V}
<1>8. 0 \in S
  BY <1>1, <1>3, <1>7
<1>9. ASSUME NEW n \in 1..N, n - 1 \in S PROVE n \in S
  <2>1. n \in 0..N /\ c[n - 1] \in V
    BY <1>1, <1>9
  <2>2. g[n][c[n - 1]] \in V /\ g[n][c[n - 1]] = HeightFrom(d, n, c[n - 1])
    BY <1>2, <2>1
  <2>3. c[n] \in V
    BY <1>7, <2>1, <2>2
  <2> QED
    BY <2>1, <2>3
<1>10. \A n \in S : c[n] \in V
  OBVIOUS
<1> HIDE DEF S
<1>11. \A n \in 0..N : n \in S
  BY <1>1, <1>8, <1>9, InductionUpTo
<1> QED
  BY <1>7, <1>10, <1>11 DEF N, V, c

\* h is a level more than the most that any entry of lst has.
OneAbove(h, v, lst) ==
    /\ \A i \in 1..Len(lst) : 1 + v[lst[i].name] <= h
    /\ h = 1 \/ \E i \in 1..Len(lst) : h = 1 + v[lst[i].name]

\* The levels below a name with n levels left to look.
LEMMA HeightIs ==
    ASSUME NEW d, IsTable(d), NEW n \in 0..(MaxIterations + 1), NEW name \in Names
    PROVE  /\ Height(d)[n][name] \in Nat \ {0}
           /\ ~ListIn(d, name) => Height(d)[n][name] = IF Stuck(d, name) THEN MaxIterations + 1 ELSE 1
           /\ ListIn(d, name) /\ n = 0 => Height(d)[n][name] = MaxIterations + 1
           /\ ListIn(d, name) /\ n # 0 => OneAbove(Height(d)[n][name], Height(d)[n - 1], d[name].lst)
<1> DEFINE c == Height(d)
           N == MaxIterations + 1
<1>1. N \in Nat /\ n \in 0..N
  BY FilesAssumption
<1>2. \A i \in 0..N : c[i] \in Heights /\ c[i] = HeightFrom(d, i, c[i - 1])
  BY HeightLevels
<1> HIDE DEF c
<1>3. c[n][name] \in Nat \ {0}
  BY <1>1, <1>2 DEF Heights
<1>4. c[n][name] = IF ~ListIn(d, name)
        THEN IF name \in DOMAIN d /\ IsLine(d[name].type) THEN MaxIterations + 1 ELSE 1
        ELSE IF n = 0 THEN MaxIterations + 1
        ELSE 1 + Highest(c[n - 1], d[name].lst)
  BY <1>1, <1>2 DEF HeightFrom
<1> HIDE DEF N
<1>5. ASSUME ListIn(d, name), n # 0 PROVE OneAbove(c[n][name], c[n - 1], d[name].lst)
  <2> DEFINE v == c[n - 1]
             lst == d[name].lst
             h == Highest(v, lst)
  <2>1. lst \in Seq(Items)
    BY <1>5 DEF IsTable
  <2>2. v \in Heights
    <3>1. n - 1 \in 0..N
      BY <1>1, <1>5
    <3> QED
      BY <1>2, <3>1
  <2>3. c[n][name] = 1 + h
    BY <1>4, <1>5
  <2> HIDE DEF v, lst
  <2>4. /\ h \in Nat
        /\ \A i \in 1..Len(lst) : v[lst[i].name] \in Nat \ {0} /\ v[lst[i].name] <= h
        /\ h = 0 \/ \E i \in 1..Len(lst) : h = v[lst[i].name]
    BY <2>1, <2>2, HighestIs
  <2> HIDE DEF h
  <2>5. \A i \in 1..Len(lst) : 1 + v[lst[i].name] <= c[n][name]
    BY <2>3, <2>4
  <2>6. c[n][name] = 1 \/ \E i \in 1..Len(lst) : c[n][name] = 1 + v[lst[i].name]
    BY <2>3, <2>4
  <2> QED
    BY <2>5, <2>6 DEF v, lst, OneAbove
<1> QED
  BY <1>3, <1>4, <1>5 DEF c, Stuck, N

-----------------------------------------------------------------------------
LevelsOf(table, name) == Height(table)[MaxIterations + 1][name]
\* The level to which a line at a node reaches.
Below(table, e) == e.depth + Height(table)[MaxIterations + 1 - e.depth][e.name]
Waits(e) == IsLine(e.type) /\ e.depth <= MaxIterations + 1
\* The lowest level is that of a line still to be replaced, but for the last pass.
Reached(table, list, levels) ==
    \E p \in 2..Len(list) : IsLine(list[p].type) /\ levels <= Below(table, list[p])

\* How many passes a line needs, and how many it has had.
LevelsInv ==
    /\ pc = "expand" =>
         /\ LevelsOf(defined, job.name) >= iteration + 1
         /\ ~isExpanded => LevelsOf(defined, job.name) >= iteration + 2
         /\ \A p \in 2..Len(target.list) : Waits(target.list[p]) =>
                Below(defined, target.list[p]) <= LevelsOf(defined, job.name)
         /\ iteration < MaxIterations =>
                \/ LevelsOf(defined, job.name) <= iteration + 1
                \/ ~isExpanded /\ LevelsOf(defined, job.name) <= iteration + 2
                \/ Reached(defined, target.list, LevelsOf(defined, job.name))
    /\ pc = "range" => LevelsOf(defined, job.name) <= iteration
    /\ pc = "exit" /\ reason = "loop" => LevelsOf(defined, job.name) > MaxIterations

\* Every name has a level at least.
LEMMA LevelsType ==
    ASSUME NEW d, IsTable(d), NEW name \in Names PROVE LevelsOf(d, name) \in Nat \ {0}
<1>1. MaxIterations + 1 \in 0..(MaxIterations + 1)
  BY FilesAssumption
<1> QED
  BY <1>1, HeightIs DEF LevelsOf

\* One level more than what is below it, if anything is.
LEMMA BelowIs ==
    ASSUME NEW d, IsTable(d), NEW e, e.name \in Names, e.depth \in Nat, e.depth <= MaxIterations + 1
    PROVE  /\ Below(d, e) \in Nat /\ Below(d, e) >= e.depth + 1
           /\ Stuck(d, e.name) => Below(d, e) = e.depth + MaxIterations + 1
           /\ ~ListIn(d, e.name) /\ ~Stuck(d, e.name) => Below(d, e) = e.depth + 1
<1> DEFINE n == MaxIterations + 1 - e.depth
           h == Height(d)[n][e.name]
<1>1. n \in 0..(MaxIterations + 1) /\ MaxIterations \in Nat
  BY FilesAssumption
<1>2. h \in Nat \ {0} /\ (~ListIn(d, e.name) => h = IF Stuck(d, e.name) THEN MaxIterations + 1 ELSE 1)
  BY <1>1, HeightIs
<1>3. Stuck(d, e.name) => ~ListIn(d, e.name)
  BY DEF Stuck
<1>4. Below(d, e) = e.depth + h
  BY DEF Below
<1> HIDE DEF h, n
<1> QED
  BY <1>1, <1>2, <1>3, <1>4

\* The same names, in whatever order.
SameNames(es, lst) ==
    /\ \A i \in 1..Len(es) : \E j \in 1..Len(lst) : es[i].name = lst[j].name
    /\ \A j \in 1..Len(lst) : \E i \in 1..Len(es) : es[i].name = lst[j].name

\* What is put in place of a line reaches as deep as the line.
LEMMA BelowList ==
    ASSUME NEW d, IsTable(d), NEW e, e.name \in Names, e.depth \in Nat, e.depth <= MaxIterations,
           ListIn(d, e.name), NEW es \in Seq(EntryType), NEW lst, lst = d[e.name].lst,
           \A i \in 1..Len(es) : es[i].depth = e.depth + 1, SameNames(es, lst)
    PROVE  /\ \A i \in 1..Len(es) : Below(d, es[i]) \in Nat /\ Below(d, es[i]) <= Below(d, e)
           /\ Below(d, e) = e.depth + 1 \/ \E i \in 1..Len(es) : Below(d, es[i]) = Below(d, e)
<1> DEFINE n == MaxIterations + 1 - e.depth
           v == Height(d)[n - 1]
           h == Height(d)[n][e.name]
           B(i) == Below(d, es[i])
<1>1. /\ n \in 1..(MaxIterations + 1) /\ n \in 0..(MaxIterations + 1) /\ n # 0 /\ MaxIterations \in Nat
      /\ n - 1 = MaxIterations + 1 - (e.depth + 1) /\ e.depth + 1 <= MaxIterations + 1
  <2>1. MaxIterations \in Nat
    BY FilesAssumption
  <2> DEFINE k == e.depth
  <2>2. k \in Nat /\ k <= MaxIterations /\ n = MaxIterations + 1 - k
    OBVIOUS
  <2> HIDE DEF n, k
  <2>3. /\ n \in 1..(MaxIterations + 1) /\ n \in 0..(MaxIterations + 1) /\ n # 0
        /\ n - 1 = MaxIterations + 1 - (k + 1) /\ k + 1 <= MaxIterations + 1
    BY <2>1, <2>2
  <2> QED
    BY <2>1, <2>3 DEF k
<1> HIDE DEF n
<1>2. /\ \A j \in 1..Len(lst) : 1 + v[lst[j].name] <= h
      /\ h = 1 \/ \E j \in 1..Len(lst) : h = 1 + v[lst[j].name]
      /\ h \in Nat \ {0}
  <2>1. Height(d)[n][e.name] \in Nat \ {0}
    BY <1>1, HeightIs
  <2>0. OneAbove(Height(d)[n][e.name], Height(d)[n - 1], d[e.name].lst)
    BY <1>1, HeightIs
  <2>2. \A j \in 1..Len(lst) : 1 + v[lst[j].name] <= h
    BY <2>0 DEF OneAbove
  <2>3. h = 1 \/ \E j \in 1..Len(lst) : h = 1 + v[lst[j].name]
    BY <2>0 DEF OneAbove
  <2> QED
    BY <2>1, <2>2, <2>3
<1>3. ASSUME NEW i \in 1..Len(es)
      PROVE  B(i) = e.depth + 1 + v[es[i].name] /\ B(i) \in Nat /\ v[es[i].name] \in Nat
  <2>1. es[i] \in EntryType
    OBVIOUS
  <2>2. es[i].name \in Names /\ es[i].depth \in Nat /\ es[i].depth = e.depth + 1
    BY <2>1 DEF EntryType
  <2>3. B(i) = e.depth + 1 + v[es[i].name]
    BY <1>1, <2>2 DEF Below, n
  <2>4. n - 1 \in 0..(MaxIterations + 1)
    BY <1>1
  <2>5. v[es[i].name] \in Nat
    BY <2>2, <2>4, HeightIs
  <2> HIDE DEF v, B
  <2> QED
    BY <2>3, <2>5
<1>4. Below(d, e) = e.depth + h
  BY DEF Below, n
<1> HIDE DEF v, h, B
<1>5. ASSUME NEW i \in 1..Len(es) PROVE B(i) \in Nat /\ B(i) <= Below(d, e)
  <2>1. PICK j \in 1..Len(lst) : es[i].name = lst[j].name
    BY DEF SameNames
  <2>2. 1 + v[es[i].name] <= h
    BY <1>2, <2>1
  <2> QED
    BY <1>2, <1>3, <1>4, <2>2
<1>6. Below(d, e) = e.depth + 1 \/ \E i \in 1..Len(es) : B(i) = Below(d, e)
  <2>1. CASE h = 1
    BY <1>4, <2>1
  <2>2. ASSUME NEW j \in 1..Len(lst), h = 1 + v[lst[j].name] PROVE \E i \in 1..Len(es) : B(i) = Below(d, e)
    <3>1. PICK i \in 1..Len(es) : es[i].name = lst[j].name
      BY DEF SameNames
    <3>2. B(i) = e.depth + 1 + v[es[i].name] /\ h = 1 + v[es[i].name] /\ v[es[i].name] \in Nat
      BY <1>3, <2>2, <3>1
    <3>3. B(i) = Below(d, e)
      <4> DEFINE w == v[es[i].name]
                 k == e.depth
      <4>1. B(i) = k + 1 + w /\ h = 1 + w /\ w \in Nat /\ k \in Nat /\ Below(d, e) = k + h
        BY <1>4, <3>2
      <4> HIDE DEF w, k
      <4> QED
        BY ONLY <4>1
    <3> QED
      BY <3>3
  <2> QED
    BY <1>2, <2>1, <2>2
<1> QED
  BY <1>5, <1>6 DEF B

\* Back to front or not, the contents of a line have its names.
LEMMA ContentsNames ==
    ASSUME NEW lst \in Seq(Items), NEW type \in {"line", "revline"}, NEW d \in Nat
    PROVE  SameNames(Contents(lst, type, d), lst)
<1> DEFINE es == Contents(lst, type, d)
           k == Len(lst)
<1>1. /\ Len(es) = k /\ k \in Nat
      /\ \A i \in 1..k :
           /\ type = "line" => es[i].name = lst[i].name
           /\ type = "revline" => es[i].name = lst[k - i + 1].name
  BY ContentsAre
<1> HIDE DEF es, k
<1>2. CASE type = "line"
  <2>1. \A i \in 1..k : es[i].name = lst[i].name
    BY <1>1, <1>2
  <2> QED
    BY <1>1, <2>1 DEF SameNames, es, k
<1>3. CASE type = "revline"
  <2>1. \A i \in 1..k : k - i + 1 \in 1..k /\ es[i].name = lst[k - i + 1].name
    BY <1>1, <1>3
  <2>2. ASSUME NEW j \in 1..k PROVE \E i \in 1..k : es[i].name = lst[j].name
    <3> DEFINE i == k - j + 1
    <3>1. i \in 1..k /\ k - i + 1 = j
      BY <1>1
    <3> HIDE DEF i
    <3> QED
      BY <2>1, <3>1
  <2> QED
    BY <1>1, <2>1, <2>2 DEF SameNames, es, k
<1> QED
  BY <1>2, <1>3

\* At the start the deepest entry is in the list.
LEMMA LevelsStart ==
    ASSUME TypeInv, NEW name \in Names, NEW start, NEW end, NEW into, Starting(name, start, end, into)
    PROVE  LevelsInv'
<1> DEFINE lst == defined[name].lst
           e == [name |-> name, type |-> "line", depth |-> 0]
           es == Contents(lst, "line", 1)
           list == target'.list
           L == LevelsOf(defined, name)
           N == MaxIterations
<1>1. /\ lst \in Seq(Items) /\ Len(lst) \in Nat /\ target' = StartOf(name, lst)
      /\ defined' = defined /\ job'.name = name /\ ListIn(defined, name)
      /\ pc' = "expand" /\ isExpanded' = TRUE /\ iteration' = 0
  BY TypeFacts DEF Starting, HasList
<1>2. N \in Nat \ {0} /\ IsTable(defined)
  BY DefinedIsTable, FilesAssumption
<1>3. L \in Nat \ {0}
  BY <1>2, LevelsType
<1>4. L = Below(defined, e)
  <2>1. e.name = name /\ e.depth = 0 /\ N + 1 - 0 = N + 1
    BY <1>2
  <2>2. L = Height(defined)[N + 1][name] /\ Height(defined)[N + 1][name] \in Nat
    BY <1>3 DEF LevelsOf
  <2> HIDE DEF L, e
  <2>3. Below(defined, e) = 0 + Height(defined)[N + 1][name]
    BY <2>1 DEF Below
  <2> QED
    BY <2>2, <2>3
<1> HIDE DEF L
<1>5. /\ Len(list) = Len(lst) + 1
      /\ \A i \in 1..Len(lst) : /\ list[i + 1].name = lst[i].name
                                /\ list[i + 1].type = lst[i].type
                                /\ list[i + 1].depth = 1
  <2> HIDE DEF lst
  <2> QED
    BY <1>1, StartIs
<1>6. /\ es \in Seq(EntryType) /\ Len(es) = Len(lst) /\ SameNames(es, lst)
      /\ \A i \in 1..Len(lst) : es[i].depth = 1 /\ es[i].name = lst[i].name /\ es[i].type = lst[i].type
                                /\ es[i].type \in {"line", "revline"}
  <2>1. "line" \in {"line", "revline"} /\ 1 \in Nat
    OBVIOUS
  <2> HIDE DEF lst
  <2> QED
    BY <1>1, <2>1, ContentsAre, ContentsNames
<1> HIDE DEF es
<1>7. /\ \A i \in 1..Len(es) : Below(defined, es[i]) \in Nat /\ Below(defined, es[i]) <= Below(defined, e)
      /\ Below(defined, e) = 1 \/ \E i \in 1..Len(es) : Below(defined, es[i]) = Below(defined, e)
  <2>1. e.name = name /\ e.depth = 0 /\ e.depth + 1 = 1
    OBVIOUS
  <2>2. e.name \in Names /\ e.depth \in Nat /\ e.depth <= N /\ ListIn(defined, e.name) /\ lst = defined[e.name].lst
    BY <1>1, <1>2
  <2>3. \A i \in 1..Len(es) : es[i].depth = e.depth + 1
    BY <1>6
  <2> HIDE DEF e, lst
  <2>4. /\ \A i \in 1..Len(es) : Below(defined, es[i]) \in Nat /\ Below(defined, es[i]) <= Below(defined, e)
        /\ Below(defined, e) = e.depth + 1 \/ \E i \in 1..Len(es) : Below(defined, es[i]) = Below(defined, e)
    BY <1>2, <1>6, <2>2, <2>3, BelowList
  <2> QED
    BY <2>1, <2>4
<1> HIDE DEF e, lst, list
<1>8. \A i \in 1..Len(lst) : Below(defined, list[i + 1]) = Below(defined, es[i]) /\ IsLine(list[i + 1].type)
  BY <1>5, <1>6 DEF Below, IsLine
<1>9. ASSUME NEW p \in 2..Len(list) PROVE Below(defined, list[p]) <= L
  <2> DEFINE i == p - 1
  <2>1. i \in 1..Len(lst) /\ i + 1 = p
    BY <1>1, <1>5
  <2> HIDE DEF i
  <2> QED
    BY <1>4, <1>6, <1>7, <1>8, <2>1
<1>10. L <= 1 \/ Reached(defined, list, L)
  <2>1. CASE Below(defined, e) = 1
    BY <1>3, <1>4, <2>1
  <2>2. ASSUME NEW i \in 1..Len(es), Below(defined, es[i]) = Below(defined, e)
        PROVE  Reached(defined, list, L)
    <3> DEFINE p == i + 1
    <3>1. p \in 2..Len(list) /\ IsLine(list[p].type)
      BY <1>1, <1>5, <1>6, <1>8
    <3>2. Below(defined, list[p]) = L
      BY <1>4, <1>6, <1>8, <2>2
    <3>3. L <= Below(defined, list[p])
      BY <1>3, <3>2
    <3> HIDE DEF p
    <3> QED
      BY <3>1, <3>3 DEF Reached
  <2> QED
    BY <1>7, <2>1, <2>2
<1>11. pc' # "range" /\ pc' # "exit" /\ iteration' + 1 = 1
  BY <1>1
<1> QED
  BY <1>1, <1>3, <1>9, <1>10, <1>11 DEF LevelsInv, L, list

\* A pass more is made only for a level more.
LEMMA LevelsPass == ASSUME TypeInv, HeaderInv, PassInv, LevelsInv, NextPass PROVE LevelsInv'
<1> DEFINE L == LevelsOf(defined, job.name)
<1>1. /\ pc = "expand" /\ it = Len(target.list) + 1 /\ iteration' = iteration + 1 /\ target' = target
      /\ defined' = defined /\ job' = job /\ Len(target.list) \in Nat /\ iteration \in Nat
      /\ iteration < MaxIterations /\ MaxIterations \in Nat
  BY FastListFacts, TypeFacts DEF NextPass, TypeInv, ListsInv, ControlInv, HeaderInv
<1>2. L \in Nat
  <2>1. job.name \in Names
    BY <1>1, TypeFacts DEF TypeInv, ControlInv
  <2> QED
    BY <2>1, LevelsType, DefinedIsTable
<1>3. /\ L >= iteration + 1 /\ (~isExpanded => L >= iteration + 2)
      /\ \A p \in 2..Len(target.list) : Waits(target.list[p]) => Below(defined, target.list[p]) <= L
      /\ \/ L <= iteration + 1
         \/ ~isExpanded /\ L <= iteration + 2
         \/ Reached(defined, target.list, L)
  BY <1>1 DEF LevelsInv
<1> HIDE DEF L
<1>4. CASE isExpanded /\ pc' = "range"
  <2>1. ~Reached(defined, target.list, L)
    <3> SUFFICES ASSUME NEW p \in 2..Len(target.list), IsLine(target.list[p].type) PROVE FALSE
      BY DEF Reached
    <3>1. p < it
      BY <1>1
    <3> QED
      BY <1>1, <1>4, <3>1 DEF PassInv
  <2>2. L <= iteration'
    BY <1>1, <1>3, <1>4, <2>1
  <2> QED
    BY <1>1, <1>4, <2>2 DEF LevelsInv, L
<1>5. CASE ~isExpanded /\ pc' = "expand" /\ isExpanded' = TRUE
  <2>1. L >= iteration' + 1
    BY <1>1, <1>2, <1>3, <1>5
  <2>2. L <= iteration' + 1 \/ Reached(defined, target.list, L)
    BY <1>1, <1>2, <1>3, <1>5
  <2> QED
    BY <1>1, <1>3, <1>5, <2>1, <2>2 DEF LevelsInv, L
<1> QED
  BY <1>4, <1>5 DEF NextPass

\* A line put apart hands its depth on to an entry of it.
LEMMA LevelsReplace == ASSUME TypeInv, HeaderInv, PassInv, LevelsInv, Replacing PROVE LevelsInv'
<1> DEFINE L == LevelsOf(defined, job.name)
           k == Len(NewEntries)
           m == Len(target.list)
           old == target.list
           list == target'.list
           es == NewEntries
           N == MaxIterations
<1>1. /\ it \in 2..m /\ k \in Nat /\ it' = it + k /\ m \in Nat
      /\ Len(list) = m - 1 + k
      /\ \A p \in 1..Len(list) : p < it => list[p] = old[p]
      /\ \A p \in 1..Len(list) : p >= it /\ p < it' =>
           p - it + 1 \in 1..k /\ list[p].name = NewEntries[p - it + 1].name
           /\ list[p].type = NewEntries[p - it + 1].type
           /\ list[p].depth = NewEntries[p - it + 1].depth
      /\ \A p \in 1..Len(list) : p >= it' =>
           p - k + 1 \in (it + 1)..m /\ list[p] = old[p - k + 1]
  BY ReplacedNodes
<1>2. /\ pc = "expand" /\ pc' = "expand" /\ defined' = defined /\ job' = job /\ iteration' = iteration
      /\ isExpanded' = FALSE /\ IsTable(defined) /\ iteration \in 0..N /\ N \in Nat
      /\ IsLine(Node.type) /\ ListIn(defined, Node.name)
  BY DefinedIsTable, FilesAssumption DEF Replacing, AtNode, TypeInv, ControlInv, HasList
<1>3. /\ es \in Seq(EntryType) /\ Node.type \in {"line", "revline"} /\ Node.depth \in Nat
      /\ Node.name \in Names /\ Node = old[it] /\ Len(es) = k
  <2>1. it <= Len(target.list)
    BY <1>1
  <2> QED
    BY <2>1, NodeFacts, ReplacingIs DEF Node, NodeType
<1>4. L \in Nat
  <2>1. job.name \in Names
    BY <1>2, TypeFacts DEF TypeInv, ControlInv
  <2> QED
    BY <1>2, <2>1, LevelsType
<1>5. /\ L >= iteration + 1 /\ (~isExpanded => L >= iteration + 2)
      /\ \A p \in 2..m : Waits(old[p]) => Below(defined, old[p]) <= L
      /\ iteration < N => \/ L <= iteration + 1
                          \/ ~isExpanded /\ L <= iteration + 2
                          \/ Reached(defined, old, L)
  BY <1>2 DEF LevelsInv
<1>6. Node.depth = iteration + 1
  <2>1. ~Stuck(defined, Node.name) /\ it >= it /\ ~(it < it)
    BY <1>1, <1>2 DEF Stuck
  <2> QED
    BY <1>1, <1>2, <1>3, <2>1 DEF PassInv
<1>7. \A i \in 1..k : IsLine(es[i].type) /\ es[i].depth = iteration + 2
  BY <1>2, <1>3, <1>6, NewEntriesAre
<1>8. SameNames(es, defined[Node.name].lst)
  <2>1. defined[Node.name].lst \in Seq(Items) /\ Node.depth + 1 \in Nat
    BY <1>3, ReplacingIs
  <2> QED
    BY <1>3, <2>1, ContentsNames DEF NewEntries
<1> HIDE DEF L, k, m, old, list, es
<1>9. Below(defined, Node) \in Nat /\ Below(defined, Node) >= iteration + 2 /\ Below(defined, Node) <= L
  <2>1. Node.depth <= N + 1
    BY <1>2, <1>6
  <2>2. Below(defined, Node) \in Nat /\ Below(defined, Node) >= Node.depth + 1
    BY <1>2, <1>3, <2>1, BelowIs
  <2>3. Waits(old[it])
    BY <1>2, <1>3, <2>1 DEF Waits
  <2>4. Below(defined, old[it]) <= L
    BY <1>1, <1>5, <2>3
  <2> QED
    BY <1>2, <1>3, <1>6, <2>2, <2>4
<1>10. L >= iteration + 2
  BY <1>2, <1>4, <1>9
<1>11. ASSUME iteration < N
       PROVE  /\ \A i \in 1..k : Below(defined, es[i]) \in Nat /\ Below(defined, es[i]) <= Below(defined, Node)
              /\ \/ Below(defined, Node) = iteration + 2
                 \/ \E i \in 1..k : Below(defined, es[i]) = Below(defined, Node)
  <2> DEFINE lst == defined[Node.name].lst
  <2>1. Node.depth <= N /\ Node.depth + 1 = iteration + 2 /\ lst = defined[Node.name].lst
    BY <1>2, <1>6, <1>11
  <2> HIDE DEF lst
  <2>2. \A i \in 1..Len(es) : es[i].depth = Node.depth + 1
    BY <1>3, <1>7, <2>1
  <2>3. SameNames(es, lst)
    BY <1>8 DEF lst
  <2>4. /\ \A i \in 1..Len(es) : Below(defined, es[i]) \in Nat /\ Below(defined, es[i]) <= Below(defined, Node)
        /\ Below(defined, Node) = Node.depth + 1 \/ \E i \in 1..Len(es) : Below(defined, es[i]) = Below(defined, Node)
    BY <1>2, <1>3, <2>1, <2>2, <2>3, BelowList
  <2> QED
    BY <1>3, <2>1, <2>4
\* A node of the new list is an old one or new.
<1>12. ASSUME NEW p \in 2..Len(list)
       PROVE  \/ \E q \in 2..m : list[p] = old[q]
              \/ \E i \in 1..k : /\ list[p].name = es[i].name /\ list[p].type = es[i].type
                                 /\ list[p].depth = es[i].depth
  <2>1. p \in 1..Len(list) /\ p \in Nat
    BY <1>1
  <2>2. CASE p < it
    <3>1. p \in 2..m /\ list[p] = old[p]
      BY <1>1, <2>1, <2>2
    <3> QED
      BY <3>1
  <2>3. CASE p >= it /\ p < it'
    BY <1>1, <2>1, <2>3 DEF es
  <2>4. CASE p >= it'
    <3> DEFINE q == p - k + 1
    <3>1. q \in (it + 1)..m /\ list[p] = old[q]
      BY <1>1, <2>1, <2>4
    <3> HIDE DEF q
    <3>2. q \in 2..m
      BY <1>1, <3>1
    <3> QED
      BY <3>1, <3>2
  <2> QED
    BY <1>1, <2>1, <2>2, <2>3, <2>4
<1>13. ASSUME NEW p \in 2..Len(list), Waits(list[p]) PROVE Below(defined, list[p]) <= L
  <2>1. CASE \E q \in 2..m : list[p] = old[q]
    BY <1>5, <1>13, <2>1
  <2>2. ASSUME NEW i \in 1..k, list[p].name = es[i].name, list[p].depth = es[i].depth
        PROVE  Below(defined, list[p]) <= L
    <3>1. iteration < N
      <4>1. iteration + 2 <= N + 1
        BY <1>7, <1>13, <2>2 DEF Waits
      <4> QED
        BY <1>2, <4>1
    <3>2. Below(defined, es[i]) \in Nat /\ Below(defined, es[i]) <= Below(defined, Node)
      BY <1>11, <3>1
    <3>3. Below(defined, list[p]) = Below(defined, es[i])
      BY <2>2 DEF Below
    <3> QED
      BY <1>4, <1>9, <3>2, <3>3
  <2> QED
    BY <1>12, <2>1, <2>2
\* An old node other than the one replaced is still there, and all new ones are.
<1>14. ASSUME NEW q \in 2..m, q # it PROVE \E p \in 2..Len(list) : list[p] = old[q]
  <2>1. CASE q < it
    <3>1. q \in 2..Len(list) /\ q \in 1..Len(list) /\ list[q] = old[q]
      BY <1>1, <2>1
    <3> QED
      BY <3>1
  <2>2. CASE q > it
    <3> DEFINE p == q + k - 1
    <3>1. p \in 2..Len(list) /\ p \in 1..Len(list) /\ p >= it' /\ p - k + 1 = q
      BY <1>1, <2>2
    <3> HIDE DEF p
    <3>2. list[p] = old[q]
      BY <1>1, <3>1
    <3> QED
      BY <3>1, <3>2
  <2> QED
    BY <1>1, <1>14, <2>1, <2>2
<1>15. ASSUME NEW i \in 1..k
       PROVE  \E p \in 2..Len(list) : /\ list[p].name = es[i].name /\ list[p].type = es[i].type
                                      /\ list[p].depth = es[i].depth
  <2> DEFINE p == it + i - 1
  <2>1. p \in 2..Len(list) /\ p \in 1..Len(list) /\ p >= it /\ p < it' /\ p - it + 1 = i
    BY <1>1
  <2> HIDE DEF p
  <2>2. list[p].name = es[i].name /\ list[p].type = es[i].type /\ list[p].depth = es[i].depth
    BY <1>1, <2>1 DEF es
  <2> QED
    BY <2>1, <2>2
<1>16. ASSUME iteration < N PROVE L <= iteration + 2 \/ Reached(defined, list, L)
  <2>1. CASE L <= iteration + 1 \/ L <= iteration + 2
    BY <1>2, <1>4, <2>1
  <2>2. ASSUME NEW q \in 2..m, IsLine(old[q].type), L <= Below(defined, old[q])
        PROVE  L <= iteration + 2 \/ Reached(defined, list, L)
    <3>1. CASE q # it
      <4>1. PICK p \in 2..Len(list) : list[p] = old[q]
        BY <1>14, <3>1
      <4>2. IsLine(list[p].type) /\ L <= Below(defined, list[p])
        BY <2>2, <4>1
      <4> QED
        BY <4>2 DEF Reached
    <3>2. CASE q = it
      <4>1. L <= Below(defined, Node)
        BY <1>3, <2>2, <3>2
      <4>2. CASE Below(defined, Node) = iteration + 2
        BY <4>1, <4>2
      <4>3. ASSUME NEW i \in 1..k, Below(defined, es[i]) = Below(defined, Node)
            PROVE  Reached(defined, list, L)
        <5>1. PICK p \in 2..Len(list) : /\ list[p].name = es[i].name /\ list[p].type = es[i].type
                                        /\ list[p].depth = es[i].depth
          BY <1>15
        <5>2. IsLine(list[p].type)
          BY <1>7, <5>1
        <5>3. Below(defined, list[p]) = Below(defined, es[i])
          BY <5>1 DEF Below
        <5>4. L <= Below(defined, list[p])
          BY <4>1, <4>3, <5>3
        <5> QED
          BY <5>2, <5>4 DEF Reached
      <4> QED
        BY <1>11, <1>16, <4>2, <4>3
    <3> QED
      BY <3>1, <3>2
  <2>3. ASSUME Reached(defined, old, L) PROVE L <= iteration + 2 \/ Reached(defined, list, L)
    <3>1. PICK q \in 2..m : IsLine(old[q].type) /\ L <= Below(defined, old[q])
      BY <2>3 DEF Reached, m, old
    <3> QED
      BY <2>2, <3>1
  <2> QED
    BY <1>5, <1>16, <2>1, <2>3
<1> QED
  BY <1>2, <1>4, <1>10, <1>13, <1>16 DEF LevelsInv, L, list, N

\* A line with no list has no end to its levels.
LEMMA LevelsRetype == ASSUME TypeInv, HeaderInv, PassInv, LevelsInv, Retyping PROVE LevelsInv'
<1> DEFINE L == LevelsOf(defined, job.name)
           m == Len(target.list)
           old == target.list
           list == target'.list
           N == MaxIterations
<1>1. /\ Len(list) = m
      /\ \A p \in 1..m :
              list[p] = IF p = it THEN [Node EXCEPT !.type = defined[Node.name].type] ELSE old[p]
  BY RetypingIs
<1>2. /\ pc = "expand" /\ pc' = "expand" /\ defined' = defined /\ job' = job /\ iteration' = iteration
      /\ isExpanded' = FALSE /\ IsTable(defined) /\ iteration \in 0..N /\ N \in Nat
      /\ IsLine(Node.type) /\ IsDefined(Node.name) /\ ~ListIn(defined, Node.name)
      /\ it \in 1..m /\ it \in Nat \ {0, 1} /\ m \in Nat /\ Node \in NodeType /\ Node = old[it]
  BY NodeFacts, DefinedIsTable, FilesAssumption DEF Retyping, AtNode, TypeInv, ControlInv, HasList, Node
<1>3. L \in Nat
  <2>1. job.name \in Names
    BY <1>2, TypeFacts DEF TypeInv, ControlInv
  <2> QED
    BY <1>2, <2>1, LevelsType
<1>4. /\ L >= iteration + 1
      /\ \A p \in 2..m : Waits(old[p]) => Below(defined, old[p]) <= L
      /\ iteration < N => \/ L <= iteration + 1
                          \/ ~isExpanded /\ L <= iteration + 2
                          \/ Reached(defined, old, L)
  BY <1>2 DEF LevelsInv
<1>5. /\ Node.depth \in Nat /\ Node.depth >= 1 /\ Node.depth <= iteration + 1 /\ it \in 2..m
      /\ ~Stuck(defined, Node.name) => Node.depth = iteration + 1
  <2>1. it \in 2..m /\ it >= it /\ ~(it < it)
    BY <1>2
  <2> QED
    BY <1>2, <2>1 DEF PassInv
<1> HIDE DEF L, m, old, list
<1>6. Below(defined, Node) \in Nat /\ Below(defined, Node) >= iteration + 2 /\ Below(defined, Node) <= L
      /\ (~Stuck(defined, Node.name) => Below(defined, Node) = iteration + 2)
  <2>1. Node.depth <= N + 1 /\ Node.name \in Names
    BY <1>2, <1>5 DEF NodeType
  <2>2. /\ Below(defined, Node) \in Nat
        /\ Stuck(defined, Node.name) => Below(defined, Node) = Node.depth + N + 1
        /\ ~Stuck(defined, Node.name) => Below(defined, Node) = Node.depth + 1
    BY <1>2, <1>5, <2>1, BelowIs
  <2>3. Waits(old[it])
    BY <1>2, <2>1 DEF Waits
  <2>4. Below(defined, old[it]) <= L
    BY <1>4, <1>5, <2>3
  <2>5. Below(defined, Node) <= L
    BY <1>2, <2>4
  <2> QED
    BY <1>2, <1>5, <2>2, <2>5
<1>7. L >= iteration + 2
  BY <1>2, <1>3, <1>6
<1>8. list[it].name = Node.name /\ list[it].depth = Node.depth /\ list[it].type = defined[Node.name].type
  BY <1>1, <1>2 DEF NodeType
<1>9. \A p \in 2..m : Below(defined, list[p]) = Below(defined, old[p])
  <2> SUFFICES ASSUME NEW p \in 2..m PROVE Below(defined, list[p]) = Below(defined, old[p])
    OBVIOUS
  <2>1. CASE p = it
    BY <1>2, <1>8, <2>1 DEF Below
  <2>2. CASE p # it
    BY <1>1, <1>2, <2>2
  <2> QED
    BY <2>1, <2>2
<1>10. ASSUME NEW p \in 2..m, Waits(list[p]) PROVE Below(defined, list[p]) <= L
  <2>1. Waits(old[p])
    <3>1. CASE p = it
      BY <1>2, <1>8, <1>10, <3>1 DEF Waits
    <3>2. CASE p # it
      BY <1>1, <1>2, <1>10, <3>2
    <3> QED
      BY <3>1, <3>2
  <2> QED
    BY <1>4, <1>9, <2>1
<1>11. ASSUME iteration < N PROVE L <= iteration + 2 \/ Reached(defined, list, L)
  <2>1. CASE L <= iteration + 1 \/ L <= iteration + 2
    BY <1>2, <1>3, <2>1
  <2>2. ASSUME NEW q \in 2..m, IsLine(old[q].type), L <= Below(defined, old[q])
        PROVE  L <= iteration + 2 \/ Reached(defined, list, L)
    <3>1. L <= Below(defined, list[q])
      BY <1>9, <2>2
    <3>2. CASE q # it
      <4>1. IsLine(list[q].type)
        BY <1>1, <1>2, <2>2, <3>2
      <4> QED
        BY <1>1, <3>1, <4>1 DEF Reached
    <3>3. CASE q = it /\ Stuck(defined, Node.name)
      <4>1. IsLine(list[q].type)
        BY <1>8, <3>3 DEF Stuck
      <4> QED
        BY <1>1, <3>1, <4>1 DEF Reached
    <3>4. CASE q = it /\ ~Stuck(defined, Node.name)
      BY <1>2, <1>6, <2>2, <3>4
    <3> QED
      BY <3>2, <3>3, <3>4
  <2>3. ASSUME Reached(defined, old, L) PROVE L <= iteration + 2 \/ Reached(defined, list, L)
    <3>1. PICK q \in 2..m : IsLine(old[q].type) /\ L <= Below(defined, old[q])
      BY <2>3 DEF Reached, m, old
    <3> QED
      BY <2>2, <3>1
  <2> QED
    BY <1>4, <1>11, <2>1, <2>3
<1> QED
  BY <1>1, <1>2, <1>3, <1>7, <1>10, <1>11 DEF LevelsInv, L, list, N, m

\* The parser only calls a line recursive at the end of a pass.
LEMMA LoopSteps ==
    ASSUME TypeInv, [Next]_vars, pc' = "exit", reason' = "loop"
    PROVE  \/ pc = "exit" /\ reason = "loop" /\ UNCHANGED <<job, defined>>
           \/ pc = "expand" /\ TooMany(iteration + 1) /\ UNCHANGED <<job, defined>>
<1>1. CASE Use \/ ExpandSequence
  <2>1. PICK name, start, end, into : ExpandLine(name, start, end, into)
    BY <1>1 DEF Use, ExpandSequence
  <2>2. ~Starting(name, start, end, into) /\ ~Without(name, start, end, into)
    BY DEF Starting, Without, Finish
  <2>3. \E why \in {"undefined", "notline"} : Exit(why)
    BY <2>1, <2>2, ExpandLineCases
  <2> QED
    BY <2>3 DEF Exit
<1>2. CASE ExpandNode
  <2>1. ~Passing /\ ~Replacing /\ ~Retyping
    BY DEF Passing, Replacing, Retyping, AtNode
  <2> QED
    BY <1>2, <2>1, ExpandNodeCases DEF Exit
<1>3. CASE EndPass
  BY <1>3 DEF EndPass, Exit, expansion
<1>4. CASE KeepRange
  BY <1>4 DEF KeepRange, Finish
<1>5. CASE DeclareComponent \/ DeclareLine \/ DeclareNewInstance \/ SampleInstances \/ SampleInstance \/ SampleAll
  <2>1. pc = "parse" /\ (pc' = pc \/ pc' = "undefined" \/ \E why \in {"duplicate", "undefined", "nosuch"} : Exit(why))
    BY <1>5 DEF DeclareComponent, DeclareLine, DeclareNewInstance, WriteTable, Reading,
                SampleInstances, SampleInstance, SampleAll, AttachTo
  <2> QED
    BY <2>1 DEF Exit
<1>6. CASE Stop
  BY <1>6 DEF Stop
<1>7. CASE UNCHANGED vars
  BY <1>7 DEF vars, expansion
<1> QED
  BY <1>1, <1>2, <1>3, <1>4, <1>5, <1>6, <1>7 DEF Next

\* LevelsInv is inductive, given the types, HeaderInv and PassInv.
LEMMA LevelsKept == ASSUME TypeInv, HeaderInv, PassInv, LevelsInv, [Next]_vars PROVE LevelsInv'
<1>1. CASE pc' \notin {"expand", "range"}
  <2>1. ASSUME pc' = "exit", reason' = "loop"
        PROVE  LevelsOf(defined', job'.name) > MaxIterations
    <3>1. CASE pc = "exit" /\ reason = "loop" /\ UNCHANGED <<job, defined>>
      BY <3>1 DEF LevelsInv
    <3>2. CASE pc = "expand" /\ TooMany(iteration + 1) /\ UNCHANGED <<job, defined>>
      <4>1. job.name \in Names
        BY <3>2, TypeFacts DEF TypeInv, ControlInv
      <4>2. LevelsOf(defined, job.name) \in Nat
        BY <4>1, LevelsType, DefinedIsTable
      <4>3. iteration \in Nat /\ MaxIterations \in Nat /\ iteration + 1 > MaxIterations
        BY <3>2, FilesAssumption DEF TypeInv, ControlInv, TooMany
      <4>4. LevelsOf(defined, job.name) >= iteration + 1
        BY <3>2 DEF LevelsInv
      <4>5. LevelsOf(defined, job.name) > MaxIterations
        BY <4>2, <4>3, <4>4
      <4> QED
        BY <3>2, <4>5
    <3> QED
      BY <2>1, <3>1, <3>2, LoopSteps
  <2> QED
    BY <1>1, <2>1 DEF LevelsInv
<1>2. CASE pc' \in {"expand", "range"} /\ pc' = pc /\ UNCHANGED <<job, target, it, isExpanded, iteration, defined>>
  BY <1>2 DEF LevelsInv
<1>3. CASE Passing
  BY <1>3 DEF Passing, AtNode, LevelsInv
<1> QED
  BY <1>1, <1>2, <1>3, ExpansionSteps, LevelsStart, LevelsPass, LevelsReplace, LevelsRetype

-----------------------------------------------------------------------------
\* Names of nodes and elements.
LEMMA NamesAre ==
    ASSUME NEW E, \A e \in E : e.name \in Names, NEW s \in Seq(E)
    PROVE  NamesOf(s) \in Seq(Names) /\ Len(NamesOf(s)) = Len(s) /\ \A i \in 1..Len(s) : NamesOf(s)[i] = s[i].name
<1>1. \A i \in 1..Len(s) : s[i] \in E
  OBVIOUS
<1> DEFINE x(i) == s[i].name
<1>2. \A i \in 1..Len(s) : x(i) \in Names
  BY <1>1
<1>3. NamesOf(s) = [i \in 1..Len(s) |-> x(i)] /\ Len(s) \in Nat
  BY DEF NamesOf
<1> HIDE DEF x
<1>4. NamesOf(s) \in Seq(Names) /\ Len(NamesOf(s)) = Len(s) /\ \A i \in 1..Len(s) : NamesOf(s)[i] = x(i)
  BY <1>2, <1>3
<1> QED
  BY <1>4 DEF x

\* The names once the last pass is over.
LEMMA RangeNames ==
    ASSUME TypeInv, ExpansionInv, pc = "range"
    PROVE  NamesOf(target.list) = <<job.name>> \o NamesOf(Substituted(job.name))
<1> DEFINE list == target.list
           sub == Substituted(job.name)
           one == <<job.name>>
           a == NamesOf(list)
           b == NamesOf(sub)
           c == one \o b
           m == Len(list)
<1>1. /\ m \in Nat /\ m > 0 /\ sub \in Seq(Sub) /\ Len(sub) = m - 1
      /\ \A p \in 2..m : sub[p - 1].name = list[p].name
  BY RangeMeans DEF ExpansionInv
<1>2. list \in Seq(NodeType) /\ list[1].name = job.name /\ job.name \in Names
  BY FastListFacts, TypeFacts DEF ExpansionInv, HeaderInv, TypeInv, ListsInv, ControlInv
<1>3. (\A e \in NodeType : e.name \in Names) /\ (\A e \in Sub : e.name \in Names)
  BY DEF NodeType, Sub
<1> HIDE DEF list, sub
<1>4. a \in Seq(Names) /\ Len(a) = m /\ \A i \in 1..m : a[i] = list[i].name
  BY <1>2, <1>3, NamesAre
<1>5. b \in Seq(Names) /\ Len(b) = m - 1 /\ \A i \in 1..(m - 1) : b[i] = sub[i].name
  BY <1>1, <1>3, NamesAre
<1>6. one \in Seq(Names) /\ Len(one) = 1 /\ one[1] = job.name
  BY <1>2
<1> HIDE DEF a, b, one, m
<1>7. c \in Seq(Names) /\ Len(c) = m /\ \A p \in 1..m : c[p] = IF p <= 1 THEN one[p] ELSE b[p - 1]
  <2>1. /\ c \in Seq(Names) /\ Len(c) = Len(one) + Len(b)
        /\ \A p \in 1..(Len(one) + Len(b)) : c[p] = IF p <= Len(one) THEN one[p] ELSE b[p - Len(one)]
    BY <1>5, <1>6, ConcatProperties
  <2> HIDE DEF c
  <2> QED
    BY <1>1, <1>5, <1>6, <2>1
<1> HIDE DEF c
<1>8. ASSUME NEW p \in 1..m PROVE a[p] = c[p]
  <2>1. CASE p = 1
    BY <1>2, <1>4, <1>6, <1>7, <2>1
  <2>2. CASE p # 1
    <3>1. p \in 2..m /\ p - 1 \in 1..(m - 1) /\ ~(p <= 1)
      BY <1>1, <2>2
    <3> QED
      BY <1>1, <1>4, <1>5, <1>7, <3>1
  <2> QED
    BY <2>1, <2>2
<1>9. a = c
  BY <1>4, <1>7, <1>8, SeqEqual
<1> QED
  BY <1>9 DEF a, b, c, one, list, sub

-----------------------------------------------------------------------------
\* The names a line comes to in the end.
Expansion(table, name) ==
    <<name>> \o NamesOf(Flat(table)[MaxIterations][name])
             \o (IF Tunnel \in DOMAIN table THEN <<Tunnel>> ELSE <<>>)

\* Where the parser is when it expands, and what it has expanded of the lines declared.
PlaceInv == pc \in {"expand", "range"} /\ job.into = "beamline" => at <= Len(file)
DoneInv ==
    \A k \in 1..Len(sequences) : k <= at - Len(file) - 1 =>
        /\ sequences[k] \in DOMAIN expanded
        /\ NamesOf(expanded[sequences[k]].list) = Expansion(defined, sequences[k])

\* A line used is expanded before the file ends.
LEMMA PlaceKept == ASSUME TypeInv, PlaceInv, [Next]_vars PROVE PlaceInv'
<1>1. CASE pc' \notin {"expand", "range"}
  BY <1>1 DEF PlaceInv
<1>2. CASE pc \in {"expand", "range"} /\ UNCHANGED <<job, at, file>>
  BY <1>2 DEF PlaceInv
<1>3. CASE Use
  <2>1. ExpandLine(Statement.name, Statement.start, Statement.end, "beamline") /\ at <= Len(file)
    BY <1>3 DEF Use, Reading
  <2>2. CASE Starting(Statement.name, Statement.start, Statement.end, "beamline")
    BY <2>1, <2>2 DEF Starting, PlaceInv
  <2>3. CASE (\E why \in {"undefined", "notline"} : Exit(why))
             \/ Without(Statement.name, Statement.start, Statement.end, "beamline")
    <3>1. pc' \notin {"expand", "range"}
      BY <2>3 DEF Exit, Without, Finish
    <3> QED
      BY <1>1, <3>1
  <2> QED
    BY <2>1, <2>2, <2>3, ExpandLineCases
<1>4. CASE ExpandSequence
  <2>1. PICK k \in 1..Len(sequences) : ExpandLine(sequences[k], None, None, "sequence")
    BY <1>4 DEF ExpandSequence
  <2>2. CASE Starting(sequences[k], None, None, "sequence")
    <3>1. job'.into = "sequence"
      BY <2>2 DEF Starting
    <3> QED
      BY <3>1 DEF PlaceInv
  <2>3. CASE (\E why \in {"undefined", "notline"} : Exit(why)) \/ Without(sequences[k], None, None, "sequence")
    <3>1. pc' \notin {"expand", "range"}
      BY <2>3 DEF Exit, Without, Finish
    <3> QED
      BY <1>1, <3>1
  <2> QED
    BY <2>1, <2>2, <2>3, ExpandLineCases
<1>5. CASE ExpandNode
  <2>1. CASE \E why \in {"undefined", "memory"} : Exit(why)
    BY <1>1, <2>1 DEF Exit
  <2>2. CASE Passing \/ Replacing \/ Retyping
    BY <1>2, <2>2 DEF Passing, Replacing, Retyping, AtNode
  <2> QED
    BY <1>5, <2>1, <2>2, ExpandNodeCases
<1>6. CASE EndPass
  BY <1>1, <1>2, <1>6 DEF EndPass, Exit
<1>7. CASE KeepRange
  BY <1>1, <1>7 DEF KeepRange, Finish
<1>8. CASE DeclareComponent \/ DeclareLine \/ DeclareNewInstance \/ SampleInstances \/ SampleInstance \/ SampleAll
  <2>1. pc = "parse" /\ (pc' = pc \/ pc' = "exit" \/ pc' = "undefined")
    BY <1>8 DEF DeclareComponent, DeclareLine, DeclareNewInstance, WriteTable, Exit, Reading,
                SampleInstances, SampleInstance, SampleAll, AttachTo
  <2> QED
    BY <1>1, <2>1
<1>9. CASE Stop
  BY <1>1, <1>9 DEF Stop
<1>10. CASE UNCHANGED vars
  BY <1>10 DEF vars, expansion, PlaceInv
<1> QED
  BY <1>3, <1>4, <1>5, <1>6, <1>7, <1>8, <1>9, <1>10 DEF Next

\* The parser's steps along the file and the lines declared.
Reads == /\ at <= Len(file) /\ at' \in {at, at + 1} /\ file' = file
Stays == UNCHANGED <<file, at, defined, sequences, expanded>>

\* The tables change only at a statement and at the end of an expansion.
LEMMA PlaceSteps == ASSUME TypeInv, [Next]_vars PROVE Reads \/ Stays \/ KeepRange
<1>1. CASE Use
  <2>1. ExpandLine(Statement.name, Statement.start, Statement.end, "beamline") /\ at <= Len(file)
    BY <1>1 DEF Use, Reading
  <2>2. at' \in {at, at + 1} /\ file' = file
    <3>1. CASE \E why \in {"undefined", "notline"} : Exit(why)
      BY <3>1 DEF Exit
    <3>2. CASE Starting(Statement.name, Statement.start, Statement.end, "beamline")
      BY <3>2 DEF Starting
    <3>3. CASE Without(Statement.name, Statement.start, Statement.end, "beamline")
      BY <3>3 DEF Without, Finish
    <3> QED
      BY <2>1, <3>1, <3>2, <3>3, ExpandLineCases
  <2> QED
    BY <2>1, <2>2 DEF Reads
<1>2. CASE ExpandSequence
  <2>1. PICK k \in 1..Len(sequences) : ExpandLine(sequences[k], None, None, "sequence")
    BY <1>2 DEF ExpandSequence
  <2>2. HasList(sequences[k])
    BY DEF TypeInv, DefinedInv
  <2>3. ~Without(sequences[k], None, None, "sequence")
    BY <2>2 DEF Without, HasList, ListIn
  <2>4. CASE \E why \in {"undefined", "notline"} : Exit(why)
    BY <2>4 DEF Exit, Stays
  <2>5. CASE Starting(sequences[k], None, None, "sequence")
    BY <2>5 DEF Starting, Stays
  <2> QED
    BY <2>1, <2>3, <2>4, <2>5, ExpandLineCases
<1>3. CASE ExpandNode
  <2>1. CASE \E why \in {"undefined", "memory"} : Exit(why)
    BY <2>1 DEF Exit, Stays
  <2>2. CASE Passing \/ Replacing \/ Retyping
    BY <2>2 DEF Passing, Replacing, Retyping, AtNode, Stays
  <2> QED
    BY <1>3, <2>1, <2>2, ExpandNodeCases
<1>4. CASE EndPass
  BY <1>4 DEF EndPass, Exit, Stays
<1>5. CASE DeclareComponent \/ DeclareLine \/ DeclareNewInstance
  <2>1. at <= Len(file)
    BY <1>5 DEF DeclareComponent, DeclareLine, DeclareNewInstance, Reading
  <2>2. at' \in {at, at + 1} /\ file' = file
    BY <1>5 DEF DeclareComponent, DeclareLine, DeclareNewInstance, WriteTable, Exit
  <2> QED
    BY <2>1, <2>2 DEF Reads
<1>6. CASE SampleInstances \/ SampleInstance \/ SampleAll
  <2>1. at <= Len(file)
    BY <1>6 DEF SampleInstances, SampleInstance, SampleAll, Reading
  <2>2. at' \in {at, at + 1} /\ file' = file
    BY <1>6 DEF SampleInstances, SampleInstance, SampleAll, AttachTo, Exit
  <2> QED
    BY <2>1, <2>2 DEF Reads
<1>7. CASE Stop \/ UNCHANGED vars
  BY <1>7 DEF Stop, vars, Stays
<1> QED
  BY <1>1, <1>2, <1>3, <1>4, <1>5, <1>6, <1>7 DEF Next

\* A line and what is kept of it, when all of it is.
LEMMA KeptNames ==
    ASSUME TypeInv, ExpansionInv, pc = "range", job.start = None, job.end = None
    PROVE  NamesOf(Kept.list) = Expansion(defined, job.name)
<1> DEFINE a == NamesOf(target.list)
           tail == IF Tunnel \in DOMAIN defined THEN <<Tunnel>> ELSE <<>>
<1>1. a = <<job.name>> \o NamesOf(Flat(defined)[MaxIterations][job.name])
  BY RangeNames DEF Substituted
<1>2. target \in FastLists /\ target.list \in Seq(NodeType) /\ Len(target.list) \in Nat
  BY FastListFacts DEF TypeInv, ListsInv
<1>3. \A e \in NodeType : e.name \in Names
  BY DEF NodeType
<1>4. a \in Seq(Names) /\ Len(a) = Len(target.list) /\ \A i \in 1..Len(a) : a[i] = target.list[i].name
  BY <1>2, <1>3, NamesAre
<1>5. Cut = target
  BY <1>2, CutIs DEF Cut
<1>6. NamesOf(Kept.list) = a \o tail
  <2>1. CASE Tunnel \notin DOMAIN defined
    <3>1. Kept = target /\ tail = <<>>
      BY <1>5, <2>1 DEF Kept, IsDefined
    <3> HIDE DEF a
    <3>2. a \o <<>> = a
      BY <1>4, ConcatEmptySeq
    <3> QED
      BY <3>1, <3>2 DEF a
  <2>2. CASE Tunnel \in DOMAIN defined
    <3> DEFINE M == PushBack(target, TunnelEntry)
               one == <<Tunnel>>
               n == Len(target.list)
               b == NamesOf(M.list)
               c == a \o one
    <3>1. Kept = M /\ tail = one /\ TunnelEntry \in EntryType /\ Tunnel \in Names
      BY <1>5, <2>2, KeptIs, TypeFacts DEF Kept, IsDefined
    <3>2. TunnelEntry.name = Tunnel
      BY DEF TunnelEntry, Entry
    <3>3. /\ M \in FastLists /\ Len(M.list) = n + 1
          /\ \A p \in 1..n : M.list[p] = target.list[p]
          /\ M.list[n + 1].name = Tunnel
      BY <1>2, <3>1, <3>2, PushBackIs
    <3>4. M.list \in Seq(NodeType)
      BY <3>3, FastListFacts
    <3> HIDE DEF M, a, n
    <3>5. b \in Seq(Names) /\ Len(b) = n + 1 /\ \A i \in 1..(n + 1) : b[i] = M.list[i].name
      BY <1>3, <3>3, <3>4, NamesAre
    <3>6. one \in Seq(Names) /\ Len(one) = 1 /\ one[1] = Tunnel
      BY <3>1
    <3> HIDE DEF b, one
    <3>7. c \in Seq(Names) /\ Len(c) = n + 1 /\ \A i \in 1..(n + 1) : c[i] = IF i <= n THEN a[i] ELSE one[i - n]
      <4>1. n \in Nat /\ Len(a) = n
        BY <1>2, <1>4 DEF n
      <4>2. /\ c \in Seq(Names) /\ Len(c) = Len(a) + Len(one)
            /\ \A i \in 1..(Len(a) + Len(one)) : c[i] = IF i <= Len(a) THEN a[i] ELSE one[i - Len(a)]
        BY <1>4, <3>6, ConcatProperties
      <4> HIDE DEF c
      <4> QED
        BY <3>6, <4>1, <4>2
    <3> HIDE DEF c
    <3>8. ASSUME NEW i \in 1..(n + 1) PROVE b[i] = c[i]
      <4>1. n \in Nat /\ Len(a) = n
        BY <1>2, <1>4 DEF n
      <4>2. CASE i <= n
        <5>1. i \in 1..n
          BY <4>1, <4>2
        <5>2. b[i] = target.list[i].name
          BY <3>3, <3>5, <5>1
        <5>3. a[i] = target.list[i].name
          BY <1>4, <4>1, <5>1
        <5> QED
          BY <3>7, <4>2, <5>2, <5>3
      <4>3. CASE ~(i <= n)
        <5>1. i = n + 1 /\ i - n = 1
          BY <4>1, <4>3
        <5> QED
          BY <3>3, <3>5, <3>6, <3>7, <4>3, <5>1
      <4> QED
        BY <4>2, <4>3
    <3>9. b = c
      BY <3>5, <3>7, <3>8, SeqEqual
    <3> QED
      BY <3>1, <3>9 DEF b, c, M
  <2> QED
    BY <2>1, <2>2
<1> QED
  BY <1>1, <1>6 DEF Expansion

\* A line that is ready stays as it is and stays right.
LEMMA DoneKept ==
    ASSUME TypeInv, ExpansionInv, PlaceInv, DoneInv, [Next]_vars PROVE DoneInv'
<1>0. at \in Nat \ {0} /\ Len(file) \in Nat
  BY TypeFacts DEF TypeInv, ControlInv
<1>1. CASE at <= Len(file) /\ at' \in {at, at + 1} /\ file' = file
  <2>1. \A k \in 1..Len(sequences') : ~(k <= at' - Len(file') - 1)
    BY <1>0, <1>1
  <2> QED
    BY <2>1 DEF DoneInv
<1>2. CASE Stays
  BY <1>2 DEF Stays, DoneInv
<1>3. CASE KeepRange
  <2>1. /\ pc = "range" /\ Finish(Kept) /\ UNCHANGED <<job, file, defined, sequences>>
    BY <1>3, KeepRangeIs
  <2>2. at' = at + 1
    BY <2>1 DEF Finish
  <2>3. CASE job.into = "beamline"
    BY <1>1, <2>1, <2>2, <2>3 DEF PlaceInv
  <2>4. CASE job.into # "beamline"
    <3> DEFINE k0 == at - Len(file)
               name == job.name
    <3>1. /\ job.start = None /\ job.end = None /\ k0 \in 1..Len(sequences) /\ name = sequences[k0]
      BY <2>1, <2>4 DEF TypeInv, ControlInv
    <3>2. NamesOf(Kept.list) = Expansion(defined, name)
      BY <2>1, <3>1, KeptNames
    <3>3. expanded' = [n \in DOMAIN expanded \union {name} |-> IF n = name THEN Kept ELSE expanded[n]]
      BY <2>1, <2>4 DEF Finish
    <3> HIDE DEF name
    <3>4. ASSUME NEW k \in 1..Len(sequences), k <= at' - Len(file) - 1
          PROVE  /\ sequences[k] \in DOMAIN expanded'
                 /\ NamesOf(expanded'[sequences[k]].list) = Expansion(defined, sequences[k])
      <4>1. CASE sequences[k] = name
        <5>1. name \in DOMAIN expanded' /\ expanded'[name] = Kept
          BY <3>3
        <5> QED
          BY <3>2, <4>1, <5>1
      <4>2. CASE sequences[k] # name
        <5>1. k # k0
          BY <3>1, <4>2
        <5>2. k <= at - Len(file) - 1
          BY <1>0, <2>2, <3>4, <5>1
        <5>3. /\ sequences[k] \in DOMAIN expanded
              /\ NamesOf(expanded[sequences[k]].list) = Expansion(defined, sequences[k])
          BY <5>2 DEF DoneInv
        <5>4. sequences[k] \in DOMAIN expanded' /\ expanded'[sequences[k]] = expanded[sequences[k]]
          BY <3>3, <4>2, <5>3
        <5> QED
          BY <5>3, <5>4
      <4> QED
        BY <4>1, <4>2
    <3>5. file' = file /\ sequences' = sequences /\ defined' = defined
      BY <2>1
    <3> QED
      BY <3>4, <3>5 DEF DoneInv
  <2> QED
    BY <2>3, <2>4
<1> QED
  BY <1>1, <1>2, <1>3, PlaceSteps DEF Reads

\* All there is to know of a line that is expanded, and of those that were.
LineInv == TypeInv /\ ExpansionInv /\ LevelsInv /\ PlaceInv /\ DoneInv

\* All of it holds at the start.
LEMMA InitLineInv == Init => LineInv
<1> SUFFICES ASSUME Init PROVE LineInv
  OBVIOUS
<1>1. LevelsInv /\ PlaceInv
  BY DEF Init, LevelsInv, PlaceInv
<1>2. DoneInv
  <2>1. Len(sequences) = 0
    BY DEF Init
  <2> QED
    BY <2>1 DEF DoneInv
<1> QED
  BY <1>1, <1>2, InitTypeInv, InitExpansionInv DEF LineInv

\* All of it together is inductive.
LEMMA NextLineInv == ASSUME LineInv, [Next]_vars PROVE LineInv'
<1>1. TypeInv /\ ExpansionInv /\ LevelsInv /\ PlaceInv /\ DoneInv /\ HeaderInv /\ PassInv
  BY DEF LineInv, ExpansionInv
<1> QED
  BY <1>1, NextTypeInv, NextExpansionInv, LevelsKept, PlaceKept, DoneKept DEF LineInv

\* It gives what the runs check of an expansion.
LEMMA LineExpands == ASSUME LineInv PROVE ExpandsToDefinition
<1>1. TypeInv /\ ExpansionInv /\ LevelsInv /\ DoneInv /\ HeaderInv /\ PassInv
  BY DEF LineInv, ExpansionInv
<1>2. ASSUME pc = "exit", reason = "loop" PROVE Levels(job.name) > MaxIterations
  BY <1>1, <1>2 DEF LevelsInv, Levels, LevelsOf
<1>3. ASSUME pc = "range"
      PROVE  /\ Levels(job.name) <= MaxIterations
             /\ \A p \in 1..Len(target.list) : IsDefined(target.list[p].name)
             /\ NamesOf(target.list) = <<job.name>> \o NamesOf(Substituted(job.name))
             /\ \A p \in 2..Len(target.list) : ~IsLine(target.list[p].type)
  <2>1. Levels(job.name) <= MaxIterations
    <3>1. job.name \in Names
      BY <1>1, <1>3, TypeFacts DEF TypeInv, ControlInv
    <3>2. LevelsOf(defined, job.name) \in Nat
      BY <1>1, <3>1, LevelsType, DefinedIsTable
    <3>3. iteration \in 0..MaxIterations /\ MaxIterations \in Nat
      BY <1>1, FilesAssumption DEF TypeInv, ControlInv
    <3>4. LevelsOf(defined, job.name) <= iteration
      BY <1>1, <1>3 DEF LevelsInv
    <3>5. LevelsOf(defined, job.name) <= MaxIterations
      BY <3>2, <3>3, <3>4
    <3> QED
      BY <3>5 DEF Levels, LevelsOf
  <2>2. \A p \in 2..Len(target.list) : ~IsLine(target.list[p].type) /\ IsDefined(target.list[p].name)
    BY <1>1, <1>3 DEF PassInv
  <2>3. ASSUME NEW p \in 1..Len(target.list) PROVE IsDefined(target.list[p].name)
    <3>1. CASE p = 1
      <4>1. target.list[1].name = job.name /\ HasList(job.name)
        BY <1>1, <1>3 DEF HeaderInv, TypeInv, ControlInv
      <4> QED
        BY <3>1, <4>1 DEF HasList, ListIn, IsDefined
    <3>2. CASE p # 1
      <4>1. Len(target.list) \in Nat
        BY <1>1, FastListFacts DEF TypeInv, ListsInv
      <4>2. p \in 2..Len(target.list)
        BY <3>2, <4>1
      <4> QED
        BY <2>2, <4>2
    <3> QED
      BY <3>1, <3>2
  <2> QED
    BY <1>1, <1>3, <2>1, <2>2, <2>3, RangeNames
<1>4. ASSUME pc = "done", NEW n \in ToSet(sequences)
      PROVE  NamesOf(expanded[n].list) = <<n>> \o NamesOf(Substituted(n))
                                            \o (IF IsDefined(Tunnel) THEN <<Tunnel>> ELSE <<>>)
  <2>1. at > Len(file) + Len(sequences) /\ at \in Nat /\ Len(file) \in Nat /\ Len(sequences) \in Nat
        /\ sequences \in Seq(Names)
    BY <1>1, <1>4, TypeFacts DEF TypeInv, ControlInv, DefinedInv
  <2>2. PICK k \in 1..Len(sequences) : sequences[k] = n
    BY <1>4, <2>1 DEF ToSet
  <2>3. k <= at - Len(file) - 1
    BY <2>1
  <2>4. NamesOf(expanded[n].list) = Expansion(defined, n)
    BY <1>1, <2>2, <2>3 DEF DoneInv
  <2> QED
    BY <2>4 DEF Expansion, Substituted, IsDefined
<1> QED
  BY <1>2, <1>3, <1>4 DEF ExpandsToDefinition

\* Expanding by passes comes, for lines nested, reversed and repeated in whatever
\* way and for any number of passes, to what the definitions say, for the line in
\* use and for every line declared; and a line is called recursive only if it
\* needs more passes than there may be (Parser::expand_line, expand_sequences).
THEOREM ExpansionCorrect == Spec => []ExpandsToDefinition
<1>1. LineInv /\ [Next]_vars => LineInv'
  BY NextLineInv
<1>2. LineInv => ExpandsToDefinition
  BY LineExpands
<1> QED
  BY <1>1, <1>2, InitLineInv, PTL DEF Spec
=============================================================================
