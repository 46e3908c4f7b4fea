---------------------- MODULE TrajectoryStorage_proofs ----------------------
(***************************************************************************)
(* Proofs about the trajectories stored: for every event, every order of   *)
(* the addresses and all options, stored are those the options ask for,    *)
(* the rows refer to their parents, and the walk up the table, where it    *)
(* ends as it should, is the ancestry of the track.                        *)
(*                                                                         *)
(* The tracks of an event are numbered so that a parent comes before its   *)
(* children.  What is defined by recursion from a track to its parent is   *)
(* therefore defined for all, and what holds for a track when it holds for *)
(* its parent holds for all.                                               *)
(***************************************************************************)
EXTENDS TrajectoryStorage, CommonLemmas

\* What a track has when its parent has it, every track has.
LEMMA InductionOverParents ==
    ASSUME NEW n \in Nat, NEW p, \A t \in 1..n : p[t] \in 0..(t - 1),
           NEW S, \A t \in 1..n : (p[t] # 0 => p[t] \in S) => t \in S
    PROVE  1..n \subseteq S
<1> DEFINE Bad == (1..n) \ S
<1>1. SUFFICES ASSUME Bad # {}
               PROVE  FALSE
  OBVIOUS
<1>2. Bad \subseteq Nat
  OBVIOUS
<1>3. PICK t \in Bad : \A u \in Bad : t <= u
  BY <1>1, <1>2, LeastElement
<1>4. p[t] # 0 => p[t] \in (1..n) /\ p[t] < t
  BY <1>3
<1>5. p[t] # 0 => p[t] \in S
  BY <1>3, <1>4
<1> QED
  BY <1>3, <1>5

\* A function of the tracks is defined by what it is where no parent is asked,
\* and by what it is made of from its value for the parent.
CanRecur(n, p, ends, V, b, g) ==
    /\ n \in Nat /\ \A t \in 1..n : p[t] \in 0..(t - 1)
    /\ \A t \in 1..n : t \notin ends => p[t] # 0
    /\ \A t \in 1..n : b[t] \in V
    /\ \A t \in 1..n, v \in V : g[t][v] \in V
Recurs(f, n, p, ends, V, b, g) ==
    /\ f \in [1..n -> V]
    /\ \A t \in 1..n : f[t] = IF t \in ends THEN b[t] ELSE g[t][f[p[t]]]

LEMMA RecursionOverParents ==
    ASSUME NEW n, NEW p, NEW ends, NEW V, NEW b, NEW g, CanRecur(n, p, ends, V, b, g)
    PROVE  \E f : Recurs(f, n, p, ends, V, b, g)
<1> USE DEF CanRecur
<1> DEFINE IsUpTo(f, k) == \A t \in 1..k : f[t] = IF t \in ends THEN b[t] ELSE g[t][f[p[t]]]
           Bad == {k \in 0..n : ~ \E f \in [1..k -> V] : IsUpTo(f, k)}
<1>1. Bad = {}
  <2>1. SUFFICES ASSUME Bad # {}
                 PROVE  FALSE
    OBVIOUS
  <2>2. Bad \subseteq Nat
    OBVIOUS
  <2>3. PICK k \in Bad : \A j \in Bad : k <= j
    <3> HIDE DEF Bad
    <3> QED
      BY <2>1, <2>2, LeastElement
  <2>4. k # 0
    <3>1. \E f \in [1..0 -> V] : IsUpTo(f, 0)
      <4>1. [t \in 1..0 |-> b[t]] \in [1..0 -> V] /\ IsUpTo([t \in 1..0 |-> b[t]], 0)
        OBVIOUS
      <4> QED
        BY <4>1
    <3>2. 0 \notin Bad
      BY <3>1
    <3> HIDE DEF Bad
    <3> QED
      BY <2>3, <3>2
  <2>5. k \in 1..n /\ (k - 1) \in 0..n /\ (k - 1) \notin Bad
    <3>1. k \in 0..n
      BY <2>3
    <3> HIDE DEF Bad
    <3> QED
      BY <2>3, <2>4, <3>1
  <2>6. PICK f \in [1..(k - 1) -> V] : IsUpTo(f, k - 1)
    BY <2>5
  <2> DEFINE top == IF k \in ends THEN b[k] ELSE g[k][f[p[k]]]
             h == [t \in 1..k |-> IF t = k THEN top ELSE f[t]]
  <2>7. top \in V
    <3>1. k \notin ends => p[k] \in 1..(k - 1)
      BY <2>5
    <3> QED
      BY <2>5, <2>6, <3>1
  <2>8. h \in [1..k -> V]
    <3> HIDE DEF top
    <3>1. \A t \in 1..k : t # k => t \in 1..(k - 1)
      BY <2>5
    <3> QED
      BY <2>6, <2>7, <3>1
  <2>9. IsUpTo(h, k)
    <3>1. ASSUME NEW t \in 1..k
          PROVE  t \notin ends => p[t] \in 1..k /\ p[t] # k /\ h[p[t]] = f[p[t]]
      <4>1. t \notin ends => p[t] \in 1..k /\ p[t] # k
        BY <2>5
      <4> HIDE DEF top
      <4> QED
        BY <4>1
    <3>2. ASSUME NEW t \in 1..k, t # k
          PROVE  h[t] = IF t \in ends THEN b[t] ELSE g[t][h[p[t]]]
      <4>1. t \in 1..(k - 1)
        BY <2>5, <3>2
      <4>2. f[t] = IF t \in ends THEN b[t] ELSE g[t][f[p[t]]]
        BY <2>6, <4>1
      <4>3. h[t] = f[t]
        BY <3>2
      <4> HIDE DEF h, IsUpTo
      <4> QED
        BY <3>1, <4>2, <4>3
    <3>3. h[k] = IF k \in ends THEN b[k] ELSE g[k][h[p[k]]]
      <4>1. k \in 1..k
        BY <2>5
      <4>2. h[k] = top
        BY <4>1
      <4>3. k \notin ends => h[p[k]] = f[p[k]]
        BY <3>1, <4>1
      <4> HIDE DEF h, IsUpTo
      <4> QED
        BY <4>2, <4>3
    <3> HIDE DEF h
    <3> QED
      BY <3>2, <3>3
  <2> HIDE DEF h, IsUpTo
  <2> QED
    BY <2>3, <2>8, <2>9
<1>2. PICK f \in [1..n -> V] : IsUpTo(f, n)
  BY <1>1
<1> QED
  BY <1>2 DEF Recurs

-----------------------------------------------------------------------------
\* What an event is.
LEMMA EventFacts ==
    ASSUME IsEvent(event)
    PROVE  /\ Len(event.parent) \in Nat /\ Tracks = 1..Len(event.parent) /\ 1 \in Tracks
           /\ \A t \in Tracks : event.parent[t] \in 0..(t - 1) /\ t \in Nat
           /\ \A t \in Tracks : ~IsPrimary(t) => Parent(t) \in Tracks /\ Parent(t) < t
           /\ IsPrimary(1)
<1> DEFINE n == Len(event.parent)
<1>1. /\ n \in Nat /\ n > 0
      /\ \A t \in 1..n : event.parent[t] \in 0..(t - 1)
  BY DEF IsEvent
<1>2. Tracks = 1..n
  BY DEF Tracks
<1> HIDE DEF n
<1>3. 1 \in Tracks /\ event.parent[1] = 0
  BY <1>1, <1>2
<1>4. \A t \in Tracks : event.parent[t] # 0 => event.parent[t] \in Tracks /\ event.parent[t] < t
  BY <1>1, <1>2
<1>5. \A t \in Tracks : event.parent[t] \in 0..(t - 1) /\ t \in Nat
  BY <1>1, <1>2
<1> QED
  BY <1>1, <1>2, <1>3, <1>4, <1>5 DEF IsPrimary, Parent, n

\* The depth of a track and the tracks that lead to it, as they are defined.
LEMMA DepthOfEquation ==
    ASSUME IsEvent(event)
    PROVE  /\ DepthOf \in [Tracks -> Nat]
           /\ \A t \in Tracks : DepthOf[t] = IF IsPrimary(t) THEN 0 ELSE DepthOf[Parent(t)] + 1
<1> DEFINE n == Len(event.parent)
           p == event.parent
           ends == {t \in Tracks : IsPrimary(t)}
           V == Nat
           b == [t \in Tracks |-> 0]
           g == [t \in Tracks |-> [v \in Nat |-> v + 1]]
<1>1. /\ n \in Nat /\ Tracks = 1..n
      /\ \A t \in 1..n : p[t] \in 0..(t - 1)
      /\ \A t \in 1..n : t \notin ends => p[t] # 0
      /\ \A t \in Tracks : ~IsPrimary(t) => p[t] \in Tracks
  BY EventFacts DEF IsPrimary, Parent
<1>2. /\ \A t \in 1..n : b[t] \in V
      /\ \A t \in 1..n, v \in V : g[t][v] \in V
  BY <1>1
<1> HIDE DEF n, p, ends, V, b, g
<1>3. PICK f : Recurs(f, n, p, ends, V, b, g)
  <2>1. CanRecur(n, p, ends, V, b, g)
    BY <1>1, <1>2 DEF CanRecur
  <2> QED
    BY <2>1, RecursionOverParents
<1>4. f = [t \in Tracks |-> IF IsPrimary(t) THEN 0 ELSE f[Parent(t)] + 1]
  <2>1. \A t \in Tracks : (IF t \in ends THEN b[t] ELSE g[t][f[p[t]]])
                            = (IF IsPrimary(t) THEN 0 ELSE f[Parent(t)] + 1)
    BY <1>1, <1>3 DEF Recurs, ends, V, b, g, p, Parent
  <2>2. f = [t \in Tracks |-> f[t]]
    BY <1>1, <1>3 DEF Recurs
  <2> QED
    BY <1>1, <1>3, <2>1, <2>2 DEF Recurs
<1>5. DepthOf = [t \in Tracks |-> IF IsPrimary(t) THEN 0 ELSE DepthOf[Parent(t)] + 1]
  BY <1>4, Zenon DEF DepthOf
<1>6. ASSUME NEW t \in Tracks
      PROVE  DepthOf[t] = IF IsPrimary(t) THEN 0 ELSE DepthOf[Parent(t)] + 1
  BY <1>5, Zenon
<1>7. \A t \in Tracks : DepthOf[t] \in Nat
  <2> DEFINE S == {t \in Tracks : DepthOf[t] \in Nat}
  <2>1. \A t \in 1..n : (p[t] # 0 => p[t] \in S) => t \in S
    <3>1. \A t \in Tracks : DepthOf[Parent(t)] \in Nat => DepthOf[Parent(t)] + 1 \in Nat
      OBVIOUS
    <3> QED
      BY <1>1, <1>6, <3>1 DEF IsPrimary, Parent, p
  <2> HIDE DEF S
  <2>2. 1..n \subseteq S
    BY <1>1, <2>1, InductionOverParents
  <2> QED
    BY <1>1, <2>2 DEF S
<1>8. DepthOf \in [Tracks -> Nat]
  <2> DEFINE F == [t \in Tracks |-> IF IsPrimary(t) THEN 0 ELSE DepthOf[Parent(t)] + 1]
  <2>1. \A t \in Tracks : F[t] \in Nat
    BY <1>6, <1>7
  <2>2. F \in [Tracks -> Nat]
    BY <2>1
  <2> QED
    BY <1>5, <2>2
<1> QED
  BY <1>6, <1>8

LEMMA AncestorsOfEquation ==
    ASSUME IsEvent(event)
    PROVE  /\ \A t \in Tracks : AncestorsOf[t] \subseteq Tracks
           /\ \A t \in Tracks : AncestorsOf[t] = IF IsPrimary(t) THEN {}
                                                 ELSE {Parent(t)} \union AncestorsOf[Parent(t)]
<1> DEFINE n == Len(event.parent)
           p == event.parent
           ends == {t \in Tracks : IsPrimary(t)}
           V == SUBSET Nat
           b == [t \in Tracks |-> {}]
           g == [t \in Tracks |-> [v \in SUBSET Nat |-> {Parent(t)} \union v]]
<1>1. /\ n \in Nat /\ Tracks = 1..n
      /\ \A t \in 1..n : p[t] \in 0..(t - 1)
      /\ \A t \in 1..n : t \notin ends => p[t] # 0
      /\ \A t \in Tracks : ~IsPrimary(t) => p[t] \in Tracks
  BY EventFacts DEF IsPrimary, Parent
<1>2. /\ \A t \in 1..n : b[t] \in V
      /\ \A t \in 1..n, v \in V : g[t][v] \in V
  <2>1. \A t \in Tracks : Parent(t) \in Nat
    BY <1>1 DEF Parent
  <2> QED
    BY <1>1, <2>1
<1> HIDE DEF n, p, ends, V, b, g
<1>3. PICK f : Recurs(f, n, p, ends, V, b, g)
  <2>1. CanRecur(n, p, ends, V, b, g)
    BY <1>1, <1>2 DEF CanRecur
  <2> QED
    BY <2>1, RecursionOverParents
<1>4. f = [t \in Tracks |-> IF IsPrimary(t) THEN {} ELSE {Parent(t)} \union f[Parent(t)]]
  <2>1. \A t \in Tracks : (IF t \in ends THEN b[t] ELSE g[t][f[p[t]]])
                            = (IF IsPrimary(t) THEN {} ELSE {Parent(t)} \union f[Parent(t)])
    BY <1>1, <1>3 DEF Recurs, ends, V, b, g, p, Parent
  <2>2. f = [t \in Tracks |-> f[t]]
    BY <1>1, <1>3 DEF Recurs
  <2> QED
    BY <1>1, <1>3, <2>1, <2>2 DEF Recurs
<1>5. AncestorsOf = [t \in Tracks |-> IF IsPrimary(t) THEN {}
                                      ELSE {Parent(t)} \union AncestorsOf[Parent(t)]]
  BY <1>4, Zenon DEF AncestorsOf
<1>6. ASSUME NEW t \in Tracks
      PROVE  AncestorsOf[t] = IF IsPrimary(t) THEN {}
                              ELSE {Parent(t)} \union AncestorsOf[Parent(t)]
  BY <1>5, Zenon
<1>7. \A t \in Tracks : AncestorsOf[t] \subseteq Tracks
  <2> DEFINE S == {t \in Tracks : AncestorsOf[t] \subseteq Tracks}
  <2>1. \A t \in 1..n : (p[t] # 0 => p[t] \in S) => t \in S
    BY <1>1, <1>6 DEF IsPrimary, Parent, p
  <2> HIDE DEF S
  <2>2. 1..n \subseteq S
    BY <1>1, <2>1, InductionOverParents
  <2> QED
    BY <1>1, <2>2 DEF S
<1> QED
  BY <1>6, <1>7

\* The tracks that lead to a track come before it, and those that lead to them
\* are among them; as many as the track is deep.
LEMMA AncestorFacts ==
    ASSUME IsEvent(event), NEW t \in Tracks
    PROVE  /\ \A u \in AncestorsOf[t] : u \in Tracks /\ AncestorsOf[u] \subseteq AncestorsOf[t]
           /\ t \notin AncestorsOf[t]
           /\ IsFiniteSet(AncestorsOf[t]) /\ Cardinality(AncestorsOf[t]) = DepthOf[t]
<1> DEFINE n == Len(event.parent)
           p == event.parent
           closed == {u \in Tracks : \A v \in AncestorsOf[u] : v \in Nat /\ v < u
                                        /\ AncestorsOf[v] \subseteq AncestorsOf[u]}
           counted == {u \in Tracks : /\ IsFiniteSet(AncestorsOf[u])
                                      /\ Cardinality(AncestorsOf[u]) = DepthOf[u]}
<1>1. /\ n \in Nat /\ Tracks = 1..n
      /\ \A u \in 1..n : p[u] \in 0..(u - 1) /\ u \in Nat
      /\ \A u \in Tracks : ~IsPrimary(u) => Parent(u) \in Tracks /\ Parent(u) < u
      /\ \A u \in Tracks : Parent(u) = p[u] /\ (IsPrimary(u) <=> p[u] = 0)
  BY EventFacts DEF IsPrimary, Parent
<1>2. \A u \in Tracks : AncestorsOf[u] \subseteq Tracks
  BY AncestorsOfEquation
<1>3. \A u \in Tracks : AncestorsOf[u] = IF IsPrimary(u) THEN {}
                                         ELSE {Parent(u)} \union AncestorsOf[Parent(u)]
  BY AncestorsOfEquation
<1>4. \A u \in Tracks : DepthOf[u] = IF IsPrimary(u) THEN 0 ELSE DepthOf[Parent(u)] + 1
  BY DepthOfEquation
<1> HIDE DEF n, p
<1>5. Tracks \subseteq closed
  <2>1. ASSUME NEW u \in 1..n, p[u] # 0 => p[u] \in closed
        PROVE  u \in closed
    <3>1. CASE IsPrimary(u)
      BY <1>1, <1>3, <3>1
    <3>2. CASE ~IsPrimary(u)
      <4>1. Parent(u) \in closed /\ Parent(u) \in Nat /\ Parent(u) < u
        BY <1>1, <2>1, <3>2
      <4>2. AncestorsOf[u] = {Parent(u)} \union AncestorsOf[Parent(u)]
        BY <1>1, <1>3, <3>2
      <4>3. ASSUME NEW v \in AncestorsOf[u]
            PROVE  v \in Nat /\ v < u /\ AncestorsOf[v] \subseteq AncestorsOf[u]
        <5>1. CASE v = Parent(u)
          BY <4>1, <4>2, <5>1
        <5>2. CASE v \in AncestorsOf[Parent(u)]
          <6>1. v \in Nat /\ v < Parent(u) /\ AncestorsOf[v] \subseteq AncestorsOf[Parent(u)]
            BY <4>1, <5>2
          <6> QED
            BY <1>1, <4>1, <4>2, <6>1
        <5> QED
          BY <4>2, <4>3, <5>1, <5>2
      <4> QED
        BY <1>1, <4>3
    <3> QED
      BY <3>1, <3>2
  <2> HIDE DEF closed
  <2>2. \A u \in 1..n : (p[u] # 0 => p[u] \in closed) => u \in closed
    BY <2>1
  <2> QED
    BY <1>1, <2>2, InductionOverParents
<1>6. Tracks \subseteq counted
  <2>1. ASSUME NEW u \in 1..n, p[u] # 0 => p[u] \in counted
        PROVE  u \in counted
    <3>1. CASE IsPrimary(u)
      BY <1>1, <1>3, <1>4, <3>1, FS_EmptySet
    <3>2. CASE ~IsPrimary(u)
      <4>1. Parent(u) \in counted /\ Parent(u) \in Tracks
        BY <1>1, <2>1, <3>2
      <4>2. AncestorsOf[u] = AncestorsOf[Parent(u)] \union {Parent(u)}
        BY <1>1, <1>3, <3>2
      <4>3. Parent(u) \notin AncestorsOf[Parent(u)]
        <5>1. Parent(u) \in closed /\ ~(Parent(u) < Parent(u))
          BY <1>1, <1>5, <4>1
        <5> QED
          BY <5>1
      <4>4. IsFiniteSet(AncestorsOf[u])
              /\ Cardinality(AncestorsOf[u]) = Cardinality(AncestorsOf[Parent(u)]) + 1
        BY <4>1, <4>2, <4>3, FS_AddElement
      <4> QED
        BY <1>1, <1>4, <3>2, <4>1, <4>4
    <3> QED
      BY <3>1, <3>2
  <2> HIDE DEF counted
  <2>2. \A u \in 1..n : (p[u] # 0 => p[u] \in counted) => u \in counted
    BY <2>1
  <2> QED
    BY <1>1, <2>2, InductionOverParents
<1>7. t \in closed /\ t \in counted /\ ~(t < t)
  BY <1>1, <1>5, <1>6
<1> QED
  BY <1>2, <1>7

\* On the way from a track to its primary all parents are on the way, and there
\* is one primary.
LEMMA WayToPrimary ==
    ASSUME IsEvent(event), NEW t \in Tracks
    PROVE  LET way == AncestorsOf[t] \union {t} IN
           /\ \A u \in way : u \in Tracks /\ (~IsPrimary(u) => Parent(u) \in AncestorsOf[t])
           /\ \A u, v \in way : IsPrimary(u) /\ IsPrimary(v) => u = v
<1> DEFINE n == Len(event.parent)
           p == event.parent
           way(u) == AncestorsOf[u] \union {u}
           single == {w \in Tracks : \A u, v \in way(w) : IsPrimary(u) /\ IsPrimary(v) => u = v}
<1>1. /\ n \in Nat /\ Tracks = 1..n
      /\ \A u \in 1..n : p[u] \in 0..(u - 1)
      /\ \A u \in Tracks : ~IsPrimary(u) => Parent(u) \in Tracks
      /\ \A u \in Tracks : Parent(u) = p[u] /\ (IsPrimary(u) <=> p[u] = 0)
  BY EventFacts DEF IsPrimary, Parent
<1>2. \A u \in Tracks : AncestorsOf[u] = IF IsPrimary(u) THEN {}
                                         ELSE {Parent(u)} \union AncestorsOf[Parent(u)]
  BY AncestorsOfEquation
<1>3. \A u \in way(t) : u \in Tracks /\ (~IsPrimary(u) => Parent(u) \in AncestorsOf[t])
  <2>1. \A u \in AncestorsOf[t] : u \in Tracks /\ AncestorsOf[u] \subseteq AncestorsOf[t]
    BY AncestorFacts
  <2>2. \A u \in Tracks : ~IsPrimary(u) => Parent(u) \in AncestorsOf[u]
    BY <1>2
  <2> QED
    BY <2>1, <2>2
<1> HIDE DEF n, p
<1>4. ASSUME NEW w \in 1..n, p[w] # 0 => p[w] \in single
      PROVE  w \in single
  <2>1. CASE IsPrimary(w)
    <3>1. way(w) = {w}
      BY <1>1, <1>2, <2>1
    <3> QED
      BY <1>1, <3>1
  <2>2. CASE ~IsPrimary(w)
    <3>1. Parent(w) \in single
      BY <1>1, <1>4, <2>2
    <3>2. way(w) = way(Parent(w)) \union {w}
      BY <1>1, <1>2, <2>2
    <3> QED
      BY <1>1, <2>2, <3>1, <3>2
  <2> QED
    BY <2>1, <2>2
<1>5. t \in single
  <2> HIDE DEF single
  <2>1. \A w \in 1..n : (p[w] # 0 => p[w] \in single) => w \in single
    BY <1>4
  <2> QED
    BY <1>1, <2>1, InductionOverParents
<1> QED
  BY <1>3, <1>5

-----------------------------------------------------------------------------
(***************************************************************************)
(* What the code does with any options, from which the properties follow:  *)
(* the filters the logic knows are one less than there are, and what a row *)
(* does not refer to has a value all the same.                             *)
(***************************************************************************)
Selected(t) ==
    /\ IsPrimary(t) \/ "depth" \in Matched(t) \/ Matched(t) \intersect cfg.set # {}
    /\ cfg.logicAND => TrajectoryFiltersSet \subseteq Matched(t)

ToStore ==
    {t \in Tracks : Selected(t) \/ (cfg.connect /\ \E u \in Tracks :
                                      Selected(u) /\ t \in AncestorsOf[u])}

StoredAsSelected ==
    IsWritten =>
        /\ StoredTracks = ToStore
        /\ \A i, j \in DOMAIN rows : rows[i].track = rows[j].track => i = j

RowsFilled ==
    IsWritten => \A i \in DOMAIN rows :
        LET r == rows[i] IN
        /\ IF r.parent # 0 /\ r.parent \in StoredTracks
           THEN /\ rows[r.parentIndex + 1].track = r.parent
                /\ r.parentStepIndex = event.start[r.track]
           ELSE r.parentIndex = 1 /\ r.parentStepIndex = 0
        /\ IF 1 \notin AncestorsOf[r.track] THEN r.primaryStepIndex = -1
           ELSE {1, FounderOf[r.track]} \subseteq StoredTracks =>
                  r.primaryStepIndex = event.start[FounderOf[r.track]]

\* What depends on the event and the options alone stays as it is.
LEMMA InputsUnchanged ==
    ASSUME event' = event, cfg' = cfg
    PROVE  /\ Tracks' = Tracks /\ AncestorsOf' = AncestorsOf /\ DepthOf' = DepthOf
           /\ FounderOf' = FounderOf /\ ToStore' = ToStore /\ NStoredPoints' = NStoredPoints
           /\ \A t \in Tracks : (Selected(t)' <=> Selected(t)) /\ Matched(t)' = Matched(t)
<1>1. Tracks' = Tracks
  BY DEF Tracks
<1>2. AncestorsOf' = AncestorsOf /\ DepthOf' = DepthOf
  BY DEF AncestorsOf, DepthOf, Tracks, IsPrimary, Parent
<1>3. FounderOf' = FounderOf
  BY <1>1, <1>2 DEF FounderOf
<1>4. \A t \in Tracks : Matched(t)' = Matched(t)
  BY <1>1, <1>2 DEF Matched, IsPrimary, Parent
<1>5. \A t \in Tracks : Selected(t)' <=> Selected(t)
  BY <1>4 DEF Selected, TrajectoryFiltersSet, IsPrimary, Parent
<1>6. ToStore' = ToStore
  BY <1>1, <1>2, <1>5 DEF ToStore
<1>7. NStoredPoints' = NStoredPoints
  BY DEF NStoredPoints
<1> QED
  BY <1>1, <1>2, <1>3, <1>4, <1>5, <1>6, <1>7

\* The addresses are those of all tracks.
LEMMA OrderFacts ==
    ASSUME IsEvent(event)
    PROVE  /\ event.order \in [Tracks -> Tracks] /\ event.order \in Seq(Tracks)
           /\ Len(event.order) = Len(event.parent)
           /\ \A i, j \in Tracks : event.order[i] = event.order[j] => i = j
           /\ \A t \in Tracks : \E i \in Tracks : event.order[i] = t
<1>1. /\ event.order \in [Tracks -> Tracks] /\ IsInjective(event.order)
      /\ Tracks = 1..Len(event.parent) /\ Len(event.parent) \in Nat
  BY EventFacts DEF IsEvent
<1>2. \A i, j \in Tracks : event.order[i] = event.order[j] => i = j
  BY <1>1 DEF IsInjective
<1>3. event.order \in Injection(Tracks, Tracks)
  BY <1>1 DEF Injection
<1>4. IsFiniteSet(Tracks)
  BY <1>1, FS_Interval
<1>5. event.order \in Surjection(Tracks, Tracks)
  BY <1>3, <1>4, FS_Injection
<1>6. \A t \in Tracks : \E i \in Tracks : event.order[i] = t
  BY <1>5 DEF Surjection
<1>7. event.order \in Seq(Tracks) /\ Len(event.order) = Len(event.parent)
  <2> DEFINE n == Len(event.parent)
  <2>1. event.order \in [1..n -> Tracks] /\ n \in Nat
    BY <1>1
  <2> HIDE DEF n
  <2> QED
    BY <2>1 DEF n
<1> QED
  BY <1>1, <1>2, <1>6, <1>7

\* Stored are the trajectories marked, each once.
LEMMA StoredFacts ==
    ASSUME IsEvent(event), interesting \in [Tracks -> BOOLEAN]
    PROVE  /\ Len(Stored) \in Nat /\ DOMAIN Stored = 1..Len(Stored)
           /\ \A i \in DOMAIN Stored : Stored[i] \in Tracks /\ interesting[Stored[i]]
           /\ \A t \in Tracks : interesting[t] => \E i \in DOMAIN Stored : Stored[i] = t
           /\ \A i, j \in DOMAIN Stored : Stored[i] = Stored[j] => i = j
<1> DEFINE S == {i \in Tracks : interesting[event.order[i]]}
           c == Cardinality(S)
<1>1. /\ event.order \in [Tracks -> Tracks] /\ event.order \in Seq(Tracks)
      /\ \A i, j \in Tracks : event.order[i] = event.order[j] => i = j
      /\ \A t \in Tracks : \E i \in Tracks : event.order[i] = t
  BY OrderFacts
<1>2. S \subseteq DOMAIN event.order
  BY <1>1
<1> HIDE DEF S
<1>3. IsFiniteSet(S) /\ c \in Nat /\ S \subseteq Int /\ Stored \in Seq(Tracks) /\ Len(Stored) = c
  BY <1>1, <1>2, AtPlacesType DEF Stored, S
<1> HIDE DEF c
<1>4. Len(Stored) \in Nat /\ DOMAIN Stored = 1..c
  BY <1>3
<1>5. ASSUME NEW j \in 1..c
      PROVE  /\ Stored[j] = event.order[InOrder(S)[j]] /\ Rank(S, InOrder(S)[j]) = j
             /\ InOrder(S)[j] \in Tracks /\ interesting[event.order[InOrder(S)[j]]]
  <2>1. InOrder(S)[j] \in S /\ Rank(S, InOrder(S)[j]) = j
    BY <1>3, InOrderType DEF c
  <2>2. \A i \in S : i \in Tracks /\ interesting[event.order[i]]
    BY DEF S
  <2>3. Stored[j] = event.order[InOrder(S)[j]]
    BY DEF Stored, AtPlaces, S, c
  <2> QED
    BY <2>1, <2>2, <2>3
<1>6. \A i \in DOMAIN Stored : Stored[i] \in Tracks /\ interesting[Stored[i]]
  <2> SUFFICES ASSUME NEW i \in 1..c
               PROVE  Stored[i] \in Tracks /\ interesting[Stored[i]]
    BY <1>4
  <2>1. event.order[InOrder(S)[i]] \in Tracks
    BY <1>1, <1>5
  <2> QED
    BY <1>5, <2>1, Zenon
<1>7. ASSUME NEW t \in Tracks, interesting[t]
      PROVE  \E i \in DOMAIN Stored : Stored[i] = t
  <2>1. PICK i \in Tracks : event.order[i] = t
    BY <1>1
  <2>2. i \in S
    BY <1>7, <2>1 DEF S
  <2>3. Rank(S, i) \in 1..c /\ InOrder(S)[Rank(S, i)] = i
    BY <1>3, <2>2, RankType, InOrderAtRank DEF c
  <2>4. Stored[Rank(S, i)] = t
    BY <1>5, <2>1, <2>3
  <2> QED
    BY <1>4, <2>3, <2>4
<1>8. ASSUME NEW i \in 1..c, NEW j \in 1..c, Stored[i] = Stored[j]
      PROVE  i = j
  <2>1. InOrder(S)[i] = InOrder(S)[j]
    <3>1. event.order[InOrder(S)[i]] = event.order[InOrder(S)[j]]
      BY <1>5, <1>8, Zenon
    <3> QED
      BY <1>1, <1>5, <3>1, Zenon
  <2> QED
    BY <1>5, <2>1
<1> QED
  BY <1>3, <1>4, <1>6, <1>7, <1>8

-----------------------------------------------------------------------------
(***************************************************************************)
(* The invariant, stage by stage.                                          *)
(***************************************************************************)
InputInv == cfg \in Configs /\ event \in Events

\* The choice: matched, then filtered, then connected, where the trajectories
\* gone over have all that lead to them marked, and no others are marked.
Written == {"written", "history", "done", "outOfBounds"}
Decided == {"fill", "parents", "rows"} \union Written
ChoiceInv ==
    /\ pc \in {"identify", "logic", "connect"} \union Decided
    /\ interesting \in [Tracks -> BOOLEAN]
    /\ pc \in {"identify", "logic"} => next = 1
    /\ pc = "logic" => \A t \in Tracks : /\ filters[t] = Matched(t)
                                         /\ interesting[t] <=> Matched(t) # {}
    /\ pc = "connect" =>
         /\ cfg.connect /\ next \in Tracks
         /\ \A t \in Tracks : (Selected(t) => interesting[t]) /\ (interesting[t] => t \in ToStore)
         /\ \A j \in 1..(next - 1) : Selected(event.order[j]) =>
               \A u \in AncestorsOf[event.order[j]] : interesting[u]
    /\ pc \in Decided => \A t \in Tracks : interesting[t] <=> t \in ToStore

\* The indices: those of the trajectories marked, in the table to be.
IndexInv ==
    /\ pc \notin {"rows"} \union Written => parentStepIndex = [t \in Tracks |-> 0]
    /\ pc = "parents" => trajIndex = [t \in Tracks |-> AssignIndex(t)]
    /\ pc = "rows" => \A t \in Tracks : interesting[t] =>
          IF ~IsPrimary(t) /\ interesting[Parent(t)]
          THEN parentIndex[t] = AssignIndex(Parent(t)) /\ parentStepIndex[t] = event.start[t]
          ELSE parentIndex[t] = -1 /\ parentStepIndex[t] = 0

\* The table.
TableInv ==
    pc \in Written =>
      /\ Len(rows) \in Nat /\ DOMAIN rows = 1..Len(rows)
      /\ \A i \in DOMAIN rows : /\ rows[i].track \in Tracks
                                /\ rows[i].parent = event.parent[rows[i].track]
                                /\ rows[i].parentIndex \in Nat /\ rows[i].parentStepIndex \in Nat

\* The walk up the table: as many points as it is above the track asked for,
\* the last of them at the row reached.
WalkInv ==
    /\ pc \notin {"history", "done", "outOfBounds"} => history = <<>>
    /\ history \in Seq([row : Nat, step : Nat])
    /\ pc \in {"history", "done"} =>
         /\ query \in StoredTracks /\ ti \in 0..(Len(rows) - 1)
         /\ ReachesPrimary =>
              /\ rows[ti + 1].track \in AncestorsOf[query] \union {query}
              /\ Len(history) = DepthOf[query] - DepthOf[rows[ti + 1].track]
              /\ IF history = <<>> THEN rows[ti + 1].track = query
                 ELSE history[Len(history)].row = ti
              /\ \A k \in DOMAIN history :
                   LET child == IF k = 1 THEN query ELSE rows[history[k - 1].row + 1].track IN
                   /\ rows[history[k].row + 1].track = event.parent[child]
                   /\ NStoredPoints = NPoints => history[k].step = event.start[child]
    /\ pc = "done" => ti = 0

-----------------------------------------------------------------------------
LEMMA InputFacts == ASSUME InputInv PROVE cfg \in ConfigType /\ IsEvent(event)
  BY ConfigAssumption, EventAssumption DEF InputInv

\* What is left by the logic is what is selected.
LEMMA LogicLeavesSelected ==
    ASSUME cfg \in ConfigType, NEW t \in Tracks
    PROVE  Selected(t) <=> /\ Matched(t) # {}
                           /\ cfg.logicAND => TrajectoryFiltersSet \subseteq Matched(t)
<1>1. IsPrimary(t) => "primary" \in Matched(t)
  BY DEF Matched
<1>2. \A f \in Matched(t) : f = "primary" \/ f = "depth" \/ f \in cfg.set
  BY DEF Matched
<1>3. cfg.set \subseteq UserFilters
  BY DEF ConfigType
<1>4. "primary" \in Matched(t) => IsPrimary(t)
  <2>1. "primary" \notin cfg.set
    BY <1>3 DEF UserFilters
  <2> QED
    BY <2>1 DEF Matched
<1> QED
  BY <1>1, <1>2, <1>4 DEF Selected

LEMMA ChoiceIdentify ==
    ASSUME InputInv, ChoiceInv, Identify
    PROVE  ChoiceInv'
<1>1. /\ pc = "identify" /\ pc' = "logic" /\ event' = event /\ cfg' = cfg /\ next' = next
      /\ filters' = [t \in Tracks |-> Matched(t)]
      /\ interesting' = [t \in Tracks |-> Matched(t) # {}]
  BY DEF Identify
<1>2. Tracks' = Tracks /\ \A t \in Tracks : Matched(t)' = Matched(t)
  BY <1>1, InputsUnchanged
<1>3. interesting' \in [Tracks -> BOOLEAN]
  BY <1>1
<1>4. \A t \in Tracks : filters'[t] = Matched(t) /\ (interesting'[t] <=> Matched(t) # {})
  BY <1>1
<1>5. next' = 1
  BY <1>1 DEF ChoiceInv
<1> QED
  BY <1>1, <1>2, <1>3, <1>4, <1>5 DEF ChoiceInv, Decided, Written

LEMMA ChoiceApplyLogic ==
    ASSUME InputInv, ChoiceInv, ApplyLogic
    PROVE  ChoiceInv'
<1>1. /\ pc = "logic" /\ event' = event /\ cfg' = cfg /\ next' = next
      /\ pc' = IF cfg.connect THEN "connect" ELSE "fill"
      /\ interesting' = [t \in Tracks |->
                           interesting[t] /\ (cfg.logicAND => MatchesAll(t))]
  BY DEF ApplyLogic
<1>2. cfg \in ConfigType /\ IsEvent(event) /\ cfg.connect \in BOOLEAN
  BY InputFacts DEF ConfigType
<1>3. /\ Tracks' = Tracks /\ ToStore' = ToStore /\ AncestorsOf' = AncestorsOf
      /\ \A t \in Tracks : Selected(t)' <=> Selected(t)
  BY <1>1, InputsUnchanged
<1>4. interesting' \in [Tracks -> BOOLEAN]
  BY <1>1
<1>5. ASSUME NEW t \in Tracks
      PROVE  interesting'[t] <=> Selected(t)
  <2>1. filters[t] = Matched(t) /\ (interesting[t] <=> Matched(t) # {})
    BY <1>1 DEF ChoiceInv
  <2>2. interesting'[t] <=> interesting[t] /\ (cfg.logicAND => MatchesAll(t))
    BY <1>1, Zenon
  <2>3. Selected(t) <=> /\ Matched(t) # {}
                        /\ cfg.logicAND => TrajectoryFiltersSet \subseteq Matched(t)
    BY <1>2, LogicLeavesSelected
  <2>4. MatchesAll(t) <=> TrajectoryFiltersSet \subseteq Matched(t)
    BY <2>1 DEF MatchesAll
  <2> QED
    BY <2>1, <2>2, <2>3, <2>4, Zenon
<1>6. next' = 1 /\ next' \in Tracks
  BY <1>1, <1>2, EventFacts DEF ChoiceInv
<1>7. CASE cfg.connect
  <2>1. pc' = "connect"
    BY <1>1, <1>7
  <2>2. \A t \in Tracks : Selected(t) => t \in ToStore
    BY DEF ToStore
  <2>3. \A j \in 1..(next' - 1) : FALSE
    BY <1>6
  <2> QED
    BY <1>1, <1>3, <1>4, <1>5, <1>6, <1>7, <2>1, <2>2, <2>3 DEF ChoiceInv, Decided, Written
<1>8. CASE ~cfg.connect
  <2>1. pc' = "fill"
    BY <1>1, <1>8
  <2>2. \A t \in Tracks : Selected(t) <=> t \in ToStore
    BY <1>8 DEF ToStore
  <2> QED
    BY <1>1, <1>3, <1>4, <1>5, <2>1, <2>2 DEF ChoiceInv, Decided, Written
<1> QED
  BY <1>7, <1>8

LEMMA ChoiceConnectNext ==
    ASSUME InputInv, ChoiceInv, ConnectNext
    PROVE  ChoiceInv'
<1> DEFINE t == event.order[next]
           above == IF interesting[t] THEN ConnectTrajectory(t) ELSE {}
<1>1. /\ pc = "connect" /\ event' = event /\ cfg' = cfg /\ next' = next + 1
      /\ pc' = IF next = Len(event.order) THEN "fill" ELSE "connect"
      /\ interesting' = [u \in Tracks |-> interesting[u] \/ u \in above]
  BY DEF ConnectNext
<1>2. cfg \in ConfigType /\ IsEvent(event)
  BY InputFacts
<1>3. /\ Tracks' = Tracks /\ ToStore' = ToStore /\ AncestorsOf' = AncestorsOf
      /\ \A u \in Tracks : Selected(u)' <=> Selected(u)
  BY <1>1, InputsUnchanged
<1>4. /\ cfg.connect /\ next \in Tracks
      /\ \A u \in Tracks : (Selected(u) => interesting[u]) /\ (interesting[u] => u \in ToStore)
      /\ \A j \in 1..(next - 1) : Selected(event.order[j]) =>
            \A u \in AncestorsOf[event.order[j]] : interesting[u]
  BY <1>1 DEF ChoiceInv
<1>5. /\ event.order \in [Tracks -> Tracks] /\ Len(event.order) = Len(event.parent)
      /\ Tracks = 1..Len(event.parent) /\ Len(event.parent) \in Nat
      /\ \A u \in Tracks : \E i \in Tracks : event.order[i] = u
  BY <1>2, OrderFacts, EventFacts
<1>6. t \in Tracks
  BY <1>4, <1>5
<1> HIDE DEF t
<1>7. above = IF interesting[t] THEN AncestorsOf[t] ELSE {}
  BY DEF ConnectTrajectory
<1> HIDE DEF above
<1>8. interesting' \in [Tracks -> BOOLEAN]
  <2>1. interesting \in [Tracks -> BOOLEAN]
    BY DEF ChoiceInv
  <2> QED
    BY <1>1, <2>1, Zenon
<1>9. \A u \in Tracks : interesting'[u] <=> interesting[u] \/ u \in above
  BY <1>1, Zenon
<1>10. above \subseteq Tracks /\ \A u \in above : u \in ToStore
  <2>1. SUFFICES ASSUME interesting[t], NEW u \in AncestorsOf[t]
                 PROVE  u \in Tracks /\ u \in ToStore
    BY <1>7
  <2>2. u \in Tracks /\ AncestorsOf[t] \subseteq Tracks
    BY <1>2, <1>6, AncestorFacts
  <2>3. t \in ToStore
    BY <1>4, <1>6, <2>1, Zenon
  <2>4. CASE Selected(t)
    BY <1>4, <1>6, <2>1, <2>2, <2>4 DEF ToStore
  <2>5. ASSUME NEW w \in Tracks, Selected(w), t \in AncestorsOf[w]
        PROVE  u \in ToStore
    <3>1. AncestorsOf[t] \subseteq AncestorsOf[w]
      BY <1>2, <2>5, AncestorFacts
    <3> QED
      BY <1>4, <2>1, <2>2, <2>5, <3>1 DEF ToStore
  <2> QED
    BY <2>2, <2>3, <2>4, <2>5 DEF ToStore
<1>11. \A u \in Tracks : (Selected(u) => interesting'[u]) /\ (interesting'[u] => u \in ToStore)
  BY <1>4, <1>9, <1>10, Zenon
<1>12. ASSUME NEW j \in 1..next, Selected(event.order[j]), NEW u \in AncestorsOf[event.order[j]]
       PROVE  interesting'[u]
  <2>1. event.order[j] \in Tracks
    <3>1. j \in Tracks
      BY <1>4, <1>5
    <3> QED
      BY <1>5, <3>1
  <2>2. u \in Tracks
    BY <1>2, <2>1, AncestorFacts
  <2>3. CASE j = next
    <3>1. interesting[t] /\ u \in AncestorsOf[t]
      BY <1>4, <1>6, <1>12, <2>3 DEF t
    <3> QED
      BY <1>7, <1>9, <2>2, <3>1
  <2>4. CASE j # next
    <3>1. j \in 1..(next - 1)
      BY <1>4, <1>5, <2>4
    <3>2. interesting[u]
      BY <1>4, <1>12, <3>1, Zenon
    <3> QED
      BY <1>9, <2>2, <3>2, Zenon
  <2> QED
    BY <2>3, <2>4
<1>13. CASE next = Len(event.order)
  <2>1. pc' = "fill"
    BY <1>1, <1>13
  <2>2. ASSUME NEW u \in Tracks, u \in ToStore
        PROVE  interesting'[u]
    <3>1. CASE Selected(u)
      BY <1>11, <3>1
    <3>2. ASSUME NEW w \in Tracks, Selected(w), u \in AncestorsOf[w]
          PROVE  interesting'[u]
      <4>1. PICK j \in Tracks : event.order[j] = w
        BY <1>5
      <4>2. j \in 1..next
        BY <1>5, <1>13
      <4> QED
        BY <1>12, <3>2, <4>1, <4>2
    <3> QED
      BY <2>2, <3>1, <3>2 DEF ToStore
  <2>3. \A u \in Tracks : interesting'[u] <=> u \in ToStore
    BY <1>11, <2>2, Zenon
  <2> QED
    BY <1>3, <1>8, <2>1, <2>3 DEF ChoiceInv, Decided, Written
<1>14. CASE next # Len(event.order)
  <2>1. pc' = "connect" /\ next' \in Tracks
    BY <1>1, <1>4, <1>5, <1>14
  <2>2. ASSUME NEW j \in 1..(next' - 1)
        PROVE  Selected(event.order[j])' => \A u \in AncestorsOf[event.order[j]] : interesting'[u]
    <3>1. j \in 1..next /\ event.order[j] \in Tracks
      <4>1. j \in 1..next /\ j \in Tracks
        BY <1>1, <1>4, <1>5
      <4> QED
        BY <1>5, <4>1
    <3> QED
      BY <1>1, <1>3, <1>12, <3>1
  <2> QED
    BY <1>1, <1>3, <1>4, <1>8, <1>11, <2>1, <2>2 DEF ChoiceInv, Decided, Written
<1> QED
  BY <1>13, <1>14

-----------------------------------------------------------------------------
\* The index of a trajectory marked is its place in the table, from 0.
LEMMA AssignIndexFacts ==
    ASSUME IsEvent(event), interesting \in [Tracks -> BOOLEAN], NEW t \in Tracks
    PROVE  /\ ~interesting[t] => AssignIndex(t) = -1
           /\ interesting[t] => /\ AssignIndex(t) \in Nat /\ AssignIndex(t) + 1 \in DOMAIN Stored
                                /\ Stored[AssignIndex(t) + 1] = t
<1>1. CASE ~interesting[t]
  BY <1>1 DEF AssignIndex
<1>2. CASE interesting[t]
  <2> DEFINE i == CHOOSE i \in DOMAIN Stored : Stored[i] = t
  <2>1. i \in DOMAIN Stored /\ Stored[i] = t
    BY <1>2, StoredFacts, Zenon
  <2>2. AssignIndex(t) = i - 1
    BY <1>2 DEF AssignIndex
  <2>3. DOMAIN Stored = 1..Len(Stored) /\ Len(Stored) \in Nat
    BY StoredFacts
  <2> HIDE DEF i
  <2>4. i - 1 \in Nat /\ (i - 1) + 1 = i
    BY <2>1, <2>3
  <2> QED
    BY <1>2, <2>1, <2>2, <2>4
<1> QED
  BY <1>1, <1>2

\* The index found by going up to the first primary, as it is defined.
LEMMA FindEquation ==
    ASSUME IsEvent(event)
    PROVE  \A t \in Tracks : FindPrimaryStepIndex[t] =
              IF IsPrimary(t) THEN -1
              ELSE IF Parent(t) = 1 THEN parentStepIndex[t]
              ELSE FindPrimaryStepIndex[Parent(t)]
<1> DEFINE n == Len(event.parent)
           p == event.parent
           ends == {t \in Tracks : IsPrimary(t) \/ Parent(t) = 1}
           b == [t \in Tracks |-> IF IsPrimary(t) THEN -1 ELSE parentStepIndex[t]]
           V == {b[t] : t \in Tracks}
           g == [t \in Tracks |-> [v \in V |-> v]]
<1>1. /\ n \in Nat /\ Tracks = 1..n
      /\ \A t \in 1..n : p[t] \in 0..(t - 1)
      /\ \A t \in 1..n : t \notin ends => p[t] # 0
      /\ \A t \in Tracks : ~IsPrimary(t) => p[t] \in Tracks
  BY EventFacts DEF IsPrimary, Parent
<1>2. /\ \A t \in 1..n : b[t] \in V
      /\ \A t \in 1..n, v \in V : g[t][v] \in V
  BY <1>1
<1> HIDE DEF n, p, ends, V, b, g
<1>3. PICK f : Recurs(f, n, p, ends, V, b, g)
  <2>1. CanRecur(n, p, ends, V, b, g)
    BY <1>1, <1>2 DEF CanRecur
  <2> QED
    BY <2>1, RecursionOverParents
<1>4. f = [t \in Tracks |-> IF IsPrimary(t) THEN -1
                            ELSE IF Parent(t) = 1 THEN parentStepIndex[t]
                            ELSE f[Parent(t)]]
  <2>1. ASSUME NEW t \in Tracks
        PROVE  f[t] = IF IsPrimary(t) THEN -1
                      ELSE IF Parent(t) = 1 THEN parentStepIndex[t]
                      ELSE f[Parent(t)]
    <3>1. f[t] = IF t \in ends THEN b[t] ELSE g[t][f[p[t]]]
      BY <1>1, <1>3 DEF Recurs
    <3>2. t \in ends <=> IsPrimary(t) \/ Parent(t) = 1
      BY DEF ends
    <3>3. b[t] = IF IsPrimary(t) THEN -1 ELSE parentStepIndex[t]
      BY DEF b
    <3>4. ~IsPrimary(t) => f[p[t]] \in V /\ g[t][f[p[t]]] = f[Parent(t)]
      BY <1>1, <1>3 DEF Recurs, g, p, Parent
    <3> QED
      BY <3>1, <3>2, <3>3, <3>4
  <2>2. f = [t \in Tracks |-> f[t]]
    BY <1>1, <1>3 DEF Recurs
  <2> QED
    BY <2>1, <2>2
<1>5. FindPrimaryStepIndex = [t \in Tracks |-> IF IsPrimary(t) THEN -1
                                               ELSE IF Parent(t) = 1 THEN parentStepIndex[t]
                                               ELSE FindPrimaryStepIndex[Parent(t)]]
  BY <1>4, Zenon DEF FindPrimaryStepIndex
<1> QED
  BY <1>5, Zenon

\* The step found is that of the track of the first generation that the track
\* descends from, if this is a child of the first primary.
LEMMA FoundAtFounder ==
    ASSUME IsEvent(event), NEW t \in Tracks
    PROVE  /\ 1 \notin AncestorsOf[t] => FindPrimaryStepIndex[t] = -1
           /\ 1 \in AncestorsOf[t] =>
                /\ FounderOf[t] \in Tracks
                /\ ~IsPrimary(FounderOf[t]) /\ Parent(FounderOf[t]) = 1
                /\ FindPrimaryStepIndex[t] = parentStepIndex[FounderOf[t]]
<1> DEFINE n == Len(event.parent)
           p == event.parent
           way(u) == AncestorsOf[u] \union {u}
           Founds(u, w) == /\ w \in way(u) /\ Parent(w) = 1 /\ DepthOf[w] = 1
                           /\ FindPrimaryStepIndex[u] = parentStepIndex[w]
                           /\ \A v \in way(u) : DepthOf[v] = 1 => v = w
           found == {u \in Tracks : IF 1 \in AncestorsOf[u] THEN \E w \in Tracks : Founds(u, w)
                                    ELSE FindPrimaryStepIndex[u] = -1}
<1>1. /\ n \in Nat /\ Tracks = 1..n
      /\ \A u \in 1..n : p[u] \in 0..(u - 1)
      /\ \A u \in Tracks : ~IsPrimary(u) => Parent(u) \in Tracks
      /\ \A u \in Tracks : Parent(u) = p[u] /\ (IsPrimary(u) <=> p[u] = 0)
      /\ IsPrimary(1) /\ 1 \in Tracks
  BY EventFacts DEF IsPrimary, Parent
<1>2. \A u \in Tracks : AncestorsOf[u] = IF IsPrimary(u) THEN {}
                                         ELSE {Parent(u)} \union AncestorsOf[Parent(u)]
  BY AncestorsOfEquation
<1>3. \A u \in Tracks : DepthOf[u] \in Nat
                          /\ DepthOf[u] = IF IsPrimary(u) THEN 0 ELSE DepthOf[Parent(u)] + 1
  BY DepthOfEquation
<1>4. \A u \in Tracks : FindPrimaryStepIndex[u] =
              IF IsPrimary(u) THEN -1
              ELSE IF Parent(u) = 1 THEN parentStepIndex[u]
              ELSE FindPrimaryStepIndex[Parent(u)]
  BY FindEquation
<1> HIDE DEF n, p
<1>5. ASSUME NEW u \in 1..n, p[u] # 0 => p[u] \in found
      PROVE  u \in found
  <2>1. CASE IsPrimary(u)
    BY <1>1, <1>2, <1>4, <2>1
  <2>2. CASE ~IsPrimary(u) /\ Parent(u) = 1
    <3>1. AncestorsOf[u] = {1}
      BY <1>1, <1>2, <2>2
    <3>2. DepthOf[1] = 0 /\ DepthOf[u] = 1
      BY <1>1, <1>3, <2>2
    <3>3. Founds(u, u)
      BY <1>1, <1>4, <2>2, <3>1, <3>2
    <3> HIDE DEF Founds
    <3> QED
      BY <1>1, <3>1, <3>3
  <2>3. CASE ~IsPrimary(u) /\ Parent(u) # 1
    <3> DEFINE q == Parent(u)
    <3>1. q \in found /\ q \in Tracks
      BY <1>1, <1>5, <2>3
    <3>2. AncestorsOf[u] = {q} \union AncestorsOf[q] /\ q # 1
      BY <1>1, <1>2, <2>3
    <3>3. FindPrimaryStepIndex[u] = FindPrimaryStepIndex[q]
      BY <1>1, <1>4, <2>3
    <3>4. DepthOf[u] = DepthOf[q] + 1
      BY <1>1, <1>3, <2>3
    <3> HIDE DEF q
    <3>5. CASE 1 \notin AncestorsOf[q]
      BY <1>1, <3>1, <3>2, <3>3, <3>5
    <3>6. CASE 1 \in AncestorsOf[q]
      <4>1. PICK w \in Tracks : Founds(q, w)
        BY <3>1, <3>6
      <4>2. ~IsPrimary(q)
        BY <1>2, <3>1, <3>6
      <4>3. DepthOf[u] # 1
        <5>1. Parent(q) \in Tracks
          BY <1>1, <3>1, <4>2
        <5>2. DepthOf[q] = DepthOf[Parent(q)] + 1 /\ DepthOf[Parent(q)] \in Nat
          BY <1>3, <3>1, <4>2, <5>1
        <5> QED
          BY <3>4, <5>2
      <4>4. Founds(u, w)
        BY <3>2, <3>3, <4>1, <4>3
      <4> HIDE DEF Founds
      <4> QED
        BY <1>1, <3>2, <3>6, <4>4
    <3> QED
      BY <3>5, <3>6
  <2> QED
    BY <2>1, <2>2, <2>3
<1>6. t \in found
  <2> HIDE DEF found
  <2>1. \A u \in 1..n : (p[u] # 0 => p[u] \in found) => u \in found
    BY <1>5
  <2> QED
    BY <1>1, <2>1, InductionOverParents
<1>7. ASSUME 1 \in AncestorsOf[t]
      PROVE  /\ FounderOf[t] \in Tracks
             /\ ~IsPrimary(FounderOf[t]) /\ Parent(FounderOf[t]) = 1
             /\ FindPrimaryStepIndex[t] = parentStepIndex[FounderOf[t]]
  <2>1. PICK w \in Tracks : Founds(t, w)
    BY <1>6, <1>7
  <2>2. FounderOf[t] = w
    BY <2>1, Zenon DEF FounderOf
  <2>3. ~IsPrimary(w)
    BY <2>1 DEF IsPrimary
  <2> QED
    BY <2>1, <2>2, <2>3
<1> QED
  BY <1>6, <1>7

-----------------------------------------------------------------------------
LEMMA IndexAssignIndices ==
    ASSUME ChoiceInv, IndexInv, AssignIndices
    PROVE  IndexInv'
<1>1. /\ pc = "fill" /\ pc' = "parents" /\ event' = event /\ cfg' = cfg
      /\ interesting' = interesting /\ parentStepIndex' = parentStepIndex
      /\ trajIndex' = [t \in Tracks |-> AssignIndex(t)]
  BY DEF AssignIndices, choice
<1>2. Tracks' = Tracks /\ \A t \in Tracks : AssignIndex(t)' = AssignIndex(t)
  BY <1>1 DEF AssignIndex, Stored, Tracks
<1>3. parentStepIndex = [t \in Tracks |-> 0]
  BY <1>1 DEF IndexInv, Written
<1> QED
  BY <1>1, <1>2, <1>3 DEF IndexInv, Written

LEMMA IndexAssignParents ==
    ASSUME InputInv, ChoiceInv, IndexInv, AssignParents
    PROVE  IndexInv'
<1>1. /\ pc = "parents" /\ pc' = "rows" /\ event' = event /\ cfg' = cfg
      /\ interesting' = interesting
      /\ parentIndex' = [t \in Tracks |-> IF Refers(t) THEN trajIndex[Parent(t)] ELSE -1]
      /\ parentStepIndex' =
           [t \in Tracks |->
              IF Refers(t) /\ trajIndex[Parent(t)] # -1 THEN event.start[t]
              ELSE IF trajIndex[t] = -1 /\ \E u \in Tracks : Refers(u) /\ Parent(u) = t THEN -1
              ELSE parentStepIndex[t]]
  BY DEF AssignParents, choice
<1>2. IsEvent(event) /\ interesting \in [Tracks -> BOOLEAN]
  BY InputFacts DEF ChoiceInv
<1>3. parentStepIndex = [t \in Tracks |-> 0] /\ trajIndex = [t \in Tracks |-> AssignIndex(t)]
  BY <1>1 DEF IndexInv, Written
<1>4. ASSUME NEW t \in Tracks, interesting[t]
      PROVE  IF ~IsPrimary(t) /\ interesting[Parent(t)]
             THEN parentIndex'[t] = AssignIndex(Parent(t)) /\ parentStepIndex'[t] = event.start[t]
             ELSE parentIndex'[t] = -1 /\ parentStepIndex'[t] = 0
  <2>1. trajIndex[t] # -1
    <3>1. AssignIndex(t) \in Nat
      BY <1>2, <1>4, AssignIndexFacts
    <3> QED
      BY <1>3, <3>1
  <2>2. Refers(t) <=> ~IsPrimary(t)
    BY <1>4 DEF Refers
  <2>3. CASE IsPrimary(t)
    BY <1>1, <1>3, <2>1, <2>2, <2>3
  <2>4. CASE ~IsPrimary(t)
    <3>1. Parent(t) \in Tracks
      BY <1>2, <2>4, EventFacts
    <3>2. trajIndex[Parent(t)] = AssignIndex(Parent(t))
      BY <1>3, <3>1
    <3>3. CASE interesting[Parent(t)]
      <4>1. AssignIndex(Parent(t)) \in Nat /\ AssignIndex(Parent(t)) # -1
        BY <1>2, <3>1, <3>3, AssignIndexFacts
      <4> QED
        BY <1>1, <2>2, <2>4, <3>2, <3>3, <4>1
    <3>4. CASE ~interesting[Parent(t)]
      <4>1. AssignIndex(Parent(t)) = -1
        BY <1>2, <3>1, <3>4, AssignIndexFacts
      <4> QED
        BY <1>1, <1>3, <2>1, <2>2, <2>4, <3>2, <3>4, <4>1
    <3> QED
      BY <3>3, <3>4
  <2> QED
    BY <2>3, <2>4
<1>5. /\ Tracks' = Tracks
      /\ \A t \in Tracks : /\ AssignIndex(t)' = AssignIndex(t) /\ Parent(t)' = Parent(t)
                           /\ IsPrimary(t)' <=> IsPrimary(t)
  BY <1>1 DEF AssignIndex, Stored, Tracks, IsPrimary, Parent
<1>6. \A t \in Tracks : ~IsPrimary(t) => Parent(t) \in Tracks
  BY <1>2, EventFacts
<1> QED
  BY <1>1, <1>4, <1>5, <1>6 DEF IndexInv, Written

\* The table written is that of the trajectories marked, as they refer to one
\* another.
LEMMA TableFillRows ==
    ASSUME InputInv, ChoiceInv, IndexInv, FillRows
    PROVE  TableInv' /\ StoredAsSelected' /\ RowsFilled'
<1> DEFINE row(t) == [track |-> t, parent |-> Parent(t),
                      parentIndex |-> Abs(parentIndex[t]),
                      parentStepIndex |-> Abs(parentStepIndex[t]),
                      primaryStepIndex |-> FindPrimaryStepIndex[t]]
<1>1. /\ pc = "rows" /\ pc' = "written" /\ event' = event /\ cfg' = cfg
      /\ rows' = [i \in DOMAIN Stored |-> row(Stored[i])]
  BY DEF FillRows
<1>2. IsEvent(event) /\ interesting \in [Tracks -> BOOLEAN]
  BY InputFacts DEF ChoiceInv
<1>3. \A t \in Tracks : interesting[t] <=> t \in ToStore
  BY <1>1 DEF ChoiceInv, Decided
<1>4. /\ Len(Stored) \in Nat /\ DOMAIN Stored = 1..Len(Stored)
      /\ \A i \in DOMAIN Stored : Stored[i] \in Tracks /\ interesting[Stored[i]]
      /\ \A t \in Tracks : interesting[t] => \E i \in DOMAIN Stored : Stored[i] = t
      /\ \A i, j \in DOMAIN Stored : Stored[i] = Stored[j] => i = j
  BY <1>2, StoredFacts
<1>5. /\ Tracks' = Tracks /\ AncestorsOf' = AncestorsOf /\ FounderOf' = FounderOf
      /\ ToStore' = ToStore
  BY <1>1, InputsUnchanged
<1>6. /\ DOMAIN rows' = 1..Len(Stored)
      /\ \A i \in DOMAIN Stored :
            /\ rows'[i].track = Stored[i] /\ rows'[i].parent = Parent(Stored[i])
            /\ rows'[i].parentIndex = Abs(parentIndex[Stored[i]])
            /\ rows'[i].parentStepIndex = Abs(parentStepIndex[Stored[i]])
            /\ rows'[i].primaryStepIndex = FindPrimaryStepIndex[Stored[i]]
  BY <1>1, <1>4
<1> HIDE DEF row
<1>7. Len(rows') = Len(Stored)
  BY <1>4, <1>6
<1>8. StoredTracks' = ToStore
  <2>1. ASSUME NEW t \in ToStore
        PROVE  t \in StoredTracks'
    <3>1. t \in Tracks
      BY DEF ToStore
    <3>2. PICK i \in DOMAIN Stored : Stored[i] = t
      BY <1>3, <1>4, <3>1
    <3> QED
      BY <1>4, <1>6, <3>2 DEF StoredTracks
  <2>2. ASSUME NEW t \in StoredTracks'
        PROVE  t \in ToStore
    <3>1. PICK i \in DOMAIN rows' : rows'[i].track = t
      BY DEF StoredTracks
    <3>2. i \in DOMAIN Stored /\ t = Stored[i]
      BY <1>4, <1>6, <3>1
    <3> QED
      BY <1>3, <1>4, <3>2
  <2> QED
    BY <2>1, <2>2
<1>9. \A i, j \in DOMAIN rows' : rows'[i].track = rows'[j].track => i = j
  BY <1>4, <1>6
<1>10. ASSUME NEW i \in DOMAIN Stored
       PROVE  LET t == Stored[i]
                  r == rows'[i]
              IN  /\ r.parentIndex \in Nat /\ r.parentStepIndex \in Nat
                  /\ IF Parent(t) # 0 /\ Parent(t) \in ToStore
                     THEN rows'[r.parentIndex + 1].track = Parent(t)
                            /\ r.parentStepIndex = event.start[t]
                     ELSE r.parentIndex = 1 /\ r.parentStepIndex = 0
                  /\ IF 1 \notin AncestorsOf[t] THEN r.primaryStepIndex = -1
                     ELSE {1, FounderOf[t]} \subseteq ToStore =>
                            r.primaryStepIndex = event.start[FounderOf[t]]
  <2> DEFINE t == Stored[i]
             r == rows'[i]
  <2>1. t \in Tracks /\ interesting[t]
    BY <1>4
  <2>2. /\ r.parentIndex = Abs(parentIndex[t]) /\ r.parentStepIndex = Abs(parentStepIndex[t])
        /\ r.primaryStepIndex = FindPrimaryStepIndex[t]
    BY <1>6
  <2> HIDE DEF t, r
  <2>3. \A u \in Tracks : interesting[u] =>
          IF ~IsPrimary(u) /\ interesting[Parent(u)]
          THEN parentIndex[u] = AssignIndex(Parent(u)) /\ parentStepIndex[u] = event.start[u]
          ELSE parentIndex[u] = -1 /\ parentStepIndex[u] = 0
    BY <1>1 DEF IndexInv
  <2>4. \A u \in Tracks : event.start[u] \in Nat
    BY <1>2, EventAssumption DEF IsEvent, Tracks
  <2>5. Abs(-1) = 1 /\ Abs(0) = 0
    <3>1. \A k \in Int : k < 0 => Abs(k) = 0 - k
      BY DEF Abs
    <3>2. -1 \in Int /\ -1 < 0 /\ 0 - (-1) = 1
      OBVIOUS
    <3>3. Abs(0) = 0
      BY DEF Abs
    <3> QED
      BY <3>1, <3>2, <3>3
  <2>6. \A k \in Nat : Abs(k) = k
    BY DEF Abs
  <2>7. IsPrimary(t) <=> Parent(t) = 0
    BY DEF IsPrimary
  <2>8. /\ r.parentIndex \in Nat /\ r.parentStepIndex \in Nat
        /\ IF Parent(t) # 0 /\ Parent(t) \in ToStore
           THEN rows'[r.parentIndex + 1].track = Parent(t) /\ r.parentStepIndex = event.start[t]
           ELSE r.parentIndex = 1 /\ r.parentStepIndex = 0
    <3>1. CASE ~IsPrimary(t) /\ interesting[Parent(t)]
      <4>1. Parent(t) \in Tracks
        BY <1>2, <2>1, <3>1, EventFacts
      <4>2. Parent(t) \in ToStore
        BY <1>3, <3>1, <4>1
      <4>3. /\ AssignIndex(Parent(t)) \in Nat /\ AssignIndex(Parent(t)) + 1 \in DOMAIN Stored
            /\ Stored[AssignIndex(Parent(t)) + 1] = Parent(t)
        BY <1>2, <3>1, <4>1, AssignIndexFacts
      <4>4. parentIndex[t] = AssignIndex(Parent(t)) /\ parentStepIndex[t] = event.start[t]
        BY <2>1, <2>3, <3>1
      <4>5. r.parentIndex = AssignIndex(Parent(t)) /\ r.parentStepIndex = event.start[t]
        BY <2>1, <2>2, <2>4, <2>6, <4>3, <4>4
      <4>6. rows'[r.parentIndex + 1].track = Parent(t)
        BY <1>6, <4>3, <4>5
      <4> QED
        BY <2>1, <2>4, <2>7, <3>1, <4>2, <4>3, <4>5, <4>6
    <3>2. CASE ~(~IsPrimary(t) /\ interesting[Parent(t)])
      <4>1. r.parentIndex = 1 /\ r.parentStepIndex = 0
        BY <2>1, <2>2, <2>3, <2>5, <3>2
      <4>2. ~IsPrimary(t) => Parent(t) \in Tracks
        BY <1>2, <2>1, EventFacts
      <4>3. ~(Parent(t) # 0 /\ Parent(t) \in ToStore)
        BY <1>3, <2>7, <3>2, <4>2
      <4> QED
        BY <4>1, <4>3
    <3> QED
      BY <3>1, <3>2
  <2>9. IF 1 \notin AncestorsOf[t] THEN r.primaryStepIndex = -1
        ELSE {1, FounderOf[t]} \subseteq ToStore => r.primaryStepIndex = event.start[FounderOf[t]]
    <3>1. CASE 1 \notin AncestorsOf[t]
      BY <1>2, <2>1, <2>2, <3>1, FoundAtFounder
    <3>2. ASSUME 1 \in AncestorsOf[t], {1, FounderOf[t]} \subseteq ToStore
          PROVE  r.primaryStepIndex = event.start[FounderOf[t]]
      <4>1. /\ FounderOf[t] \in Tracks /\ ~IsPrimary(FounderOf[t]) /\ Parent(FounderOf[t]) = 1
            /\ FindPrimaryStepIndex[t] = parentStepIndex[FounderOf[t]]
        BY <1>2, <2>1, <3>2, FoundAtFounder
      <4>2. interesting[FounderOf[t]] /\ interesting[1] /\ 1 \in Tracks
        BY <1>2, <1>3, <3>2, <4>1, EventFacts
      <4>3. parentStepIndex[FounderOf[t]] = event.start[FounderOf[t]]
        BY <2>3, <4>1, <4>2
      <4> QED
        BY <2>2, <4>1, <4>3
    <3> QED
      BY <3>1, <3>2
  <2> QED
    BY <2>8, <2>9 DEF t, r
<1>11. TableInv'
  <2>1. \A i \in DOMAIN rows' : /\ rows'[i].track \in Tracks
                                /\ rows'[i].parent = event.parent[rows'[i].track]
                                /\ rows'[i].parentIndex \in Nat /\ rows'[i].parentStepIndex \in Nat
    BY <1>4, <1>6, <1>10 DEF Parent
  <2> QED
    BY <1>1, <1>4, <1>5, <1>6, <1>7, <2>1 DEF TableInv
<1>12. StoredAsSelected'
  BY <1>5, <1>8, <1>9 DEF StoredAsSelected
<1>13. RowsFilled'
  <2>1. ASSUME NEW i \in DOMAIN rows'
        PROVE  LET r == rows'[i] IN
               /\ IF r.parent # 0 /\ r.parent \in StoredTracks'
                  THEN /\ rows'[r.parentIndex + 1].track = r.parent
                       /\ r.parentStepIndex = event.start[r.track]
                  ELSE r.parentIndex = 1 /\ r.parentStepIndex = 0
               /\ IF 1 \notin AncestorsOf[r.track] THEN r.primaryStepIndex = -1
                  ELSE {1, FounderOf[r.track]} \subseteq StoredTracks' =>
                         r.primaryStepIndex = event.start[FounderOf[r.track]]
    <3>1. i \in DOMAIN Stored /\ rows'[i].track = Stored[i] /\ rows'[i].parent = Parent(Stored[i])
      BY <1>4, <1>6
    <3> QED
      BY <1>8, <1>10, <3>1
  <2> QED
    BY <1>1, <1>5, <2>1 DEF RowsFilled
<1> QED
  BY <1>11, <1>12, <1>13

-----------------------------------------------------------------------------
\* The table stays as it is once it is written.
LEMMA TableUnchanged ==
    ASSUME event' = event, cfg' = cfg, rows' = rows, pc' \in Written => pc \in Written
    PROVE  /\ TableInv => TableInv'
           /\ StoredAsSelected => StoredAsSelected'
           /\ RowsFilled => RowsFilled'
<1>1. /\ Tracks' = Tracks /\ AncestorsOf' = AncestorsOf /\ FounderOf' = FounderOf
      /\ ToStore' = ToStore
  BY InputsUnchanged
<1>2. StoredTracks' = StoredTracks
  BY DEF StoredTracks
<1>3. IsWritten' => IsWritten
  BY DEF IsWritten, Written
<1>4. TableInv => TableInv'
  BY <1>1 DEF TableInv
<1>5. StoredAsSelected => StoredAsSelected'
  BY <1>1, <1>2, <1>3 DEF StoredAsSelected
<1>6. RowsFilled => RowsFilled'
  BY <1>1, <1>2, <1>3 DEF RowsFilled
<1> QED
  BY <1>4, <1>5, <1>6

\* A set within the tracks of the rows has no more elements than there are rows.
LEMMA RowsBound ==
    ASSUME NEW S, IsFiniteSet(S), Len(rows) \in Nat, DOMAIN rows = 1..Len(rows),
           S \subseteq StoredTracks
    PROVE  Cardinality(S) \in Nat /\ Cardinality(S) <= Len(rows)
<1> DEFINE place == [t \in S |-> CHOOSE i \in 1..Len(rows) : rows[i].track = t]
<1>1. ASSUME NEW t \in S
      PROVE  place[t] \in 1..Len(rows) /\ rows[place[t]].track = t
  <2>1. \E i \in 1..Len(rows) : rows[i].track = t
    BY DEF StoredTracks
  <2> QED
    BY <2>1, Zenon
<1>2. place \in [S -> 1..Len(rows)]
  BY <1>1
<1>3. \A t, u \in S : place[t] = place[u] => t = u
  <2> HIDE DEF place
  <2>1. SUFFICES ASSUME NEW t \in S, NEW u \in S, place[t] = place[u]
                 PROVE  t = u
    OBVIOUS
  <2> QED
    BY <1>1, <2>1, Zenon
<1> HIDE DEF place
<1>4. place \in Injection(S, 1..Len(rows))
  BY <1>2, <1>3 DEF Injection, IsInjective
<1>5. IsFiniteSet(1..Len(rows)) /\ Cardinality(1..Len(rows)) = Len(rows)
  <2>1. 1 \in Int /\ Len(rows) \in Int
    OBVIOUS
  <2> DEFINE n == Len(rows)
  <2> HIDE DEF n
  <2>2. n \in Nat => IsFiniteSet(1..n) /\ Cardinality(1..n) = n
    BY FS_Interval
  <2> QED
    BY <2>2 DEF n
<1>6. Cardinality(S) <= Cardinality(1..Len(rows))
  BY <1>4, <1>5, FS_Injection
<1> QED
  BY <1>5, <1>6, FS_CardinalityType

LEMMA WalkAskHistory ==
    ASSUME InputInv, TableInv, WalkInv, AskHistory
    PROVE  WalkInv'
<1>1. PICK i \in DOMAIN rows : query' = rows[i].track /\ ti' = i - 1
  BY DEF AskHistory
<1>2. /\ pc = "written" /\ pc' = "history" /\ event' = event /\ cfg' = cfg
      /\ rows' = rows /\ history' = history
  BY DEF AskHistory
<1>3. history' = <<>>
  BY <1>2 DEF WalkInv
<1>4. Len(rows) \in Nat /\ DOMAIN rows = 1..Len(rows) /\ rows[i].track \in Tracks
  BY <1>2 DEF TableInv, Written
<1>5. ti' \in 0..(Len(rows) - 1) /\ ti' + 1 = i
  BY <1>1, <1>4
<1>6. query' \in StoredTracks'
  BY <1>1, <1>2 DEF StoredTracks
<1>7. rows'[ti' + 1].track = query'
  BY <1>1, <1>2, <1>5
<1>8. DepthOf' = DepthOf /\ DepthOf[query'] \in Int
  <2>1. IsEvent(event) /\ DepthOf' = DepthOf
    BY <1>2, InputFacts, InputsUnchanged
  <2>2. DepthOf[query'] \in Nat
    BY <1>1, <1>4, <2>1, DepthOfEquation
  <2> QED
    BY <2>1, <2>2
<1>9. Len(history') = 0 /\ DOMAIN history' = {}
  BY <1>3
<1>10. Len(history') = DepthOf'[query'] - DepthOf'[rows'[ti' + 1].track]
  BY <1>7, <1>8, <1>9
<1> QED
  BY <1>2, <1>3, <1>5, <1>6, <1>7, <1>9, <1>10 DEF WalkInv

\* A step of the walk goes to the row of the parent, and its point is recorded.
LEMMA WalkStep ==
    ASSUME InputInv, TableInv, StoredAsSelected, RowsFilled, WalkInv, HistoryStep,
           pc' = "history"
    PROVE  WalkInv'
<1> DEFINE at == rows[ti + 1].track
           pi == rows[ti + 1].parentIndex
           psi == rows[ti + 1].parentStepIndex
           step == IF BeyondStored(psi) THEN 0 ELSE psi
           child(h, k) == IF k = 1 THEN query ELSE rows[h[k - 1].row + 1].track
<1>1. /\ pc = "history" /\ ti # 0 /\ event' = event /\ cfg' = cfg /\ rows' = rows
      /\ query' = query /\ pc' = pc
  BY DEF HistoryStep, AtRowZero
<1>2. /\ pi < Len(rows) \/ ~(pi >= Len(rows))
      /\ ti' = pi
      /\ history' = IF Len(history) > Len(rows) THEN history
                    ELSE Append(history, [row |-> pi, step |-> step])
  BY DEF HistoryStep, Row
<1>3. /\ IsEvent(event)
      /\ AncestorsOf' = AncestorsOf /\ DepthOf' = DepthOf /\ NStoredPoints' = NStoredPoints
  BY <1>1, InputFacts, InputsUnchanged
<1>4. StoredTracks' = StoredTracks
  BY <1>1 DEF StoredTracks
<1>5. query \in StoredTracks /\ ti \in 0..(Len(rows) - 1)
  BY <1>1 DEF WalkInv
<1>6. /\ Len(rows) \in Nat /\ DOMAIN rows = 1..Len(rows)
      /\ \A i \in DOMAIN rows : /\ rows[i].track \in Tracks
                                /\ rows[i].parent = event.parent[rows[i].track]
                                /\ rows[i].parentIndex \in Nat /\ rows[i].parentStepIndex \in Nat
  BY <1>1 DEF TableInv, Written
<1>7. \A i, j \in DOMAIN rows : rows[i].track = rows[j].track => i = j
  BY <1>1 DEF StoredAsSelected, IsWritten
<1>8. ti + 1 \in DOMAIN rows /\ 1 \in DOMAIN rows /\ ti + 1 # 1
  BY <1>1, <1>5, <1>6
<1>9. at \in Tracks /\ query \in Tracks /\ pi \in Nat /\ step \in Nat
  BY <1>5, <1>6, <1>8 DEF StoredTracks
<1> HIDE DEF at, pi, psi, step
<1>10. ti' \in 0..(Len(rows') - 1)
  BY <1>1, <1>2, <1>6, <1>9
<1>11. ASSUME ReachesPrimary
       PROVE  /\ at \in AncestorsOf[query] \union {query}
              /\ Len(history) = DepthOf[query] - DepthOf[at]
              /\ IF history = <<>> THEN at = query ELSE history[Len(history)].row = ti
              /\ \A k \in DOMAIN history :
                   /\ rows[history[k].row + 1].track = event.parent[child(history, k)]
                   /\ NStoredPoints = NPoints =>
                         history[k].step = event.start[child(history, k)]
  BY <1>1, <1>11 DEF WalkInv, at
<1>12. ASSUME ReachesPrimary
       PROVE  /\ Parent(at) \in AncestorsOf[query] /\ DepthOf[at] = DepthOf[Parent(at)] + 1
              /\ DepthOf[at] \in Nat /\ DepthOf[Parent(at)] \in Nat
              /\ DepthOf[query] \in Nat /\ DepthOf[query] <= Len(rows)
              /\ rows[pi + 1].track = Parent(at)
              /\ NStoredPoints = NPoints => step = event.start[at]
  <2>1. /\ at \in AncestorsOf[query] \union {query}
        /\ rows[1].track \in AncestorsOf[query] \union {query} /\ rows[1].parent = 0
        /\ AncestorsOf[query] \subseteq StoredTracks
    BY <1>11, <1>12 DEF ReachesPrimary
  <2>2. IsPrimary(rows[1].track)
    BY <1>6, <1>8, <2>1 DEF IsPrimary, Parent
  <2>3. ~IsPrimary(at)
    <3>1. rows[1].track # at
      BY <1>7, <1>8 DEF at
    <3> QED
      BY <1>3, <1>9, <2>1, <2>2, <3>1, WayToPrimary
  <2>4. Parent(at) \in AncestorsOf[query] /\ Parent(at) \in Tracks /\ Parent(at) # 0
    BY <1>3, <1>9, <2>1, <2>3, WayToPrimary, EventFacts DEF IsPrimary
  <2>5. DepthOf[at] = DepthOf[Parent(at)] + 1
    BY <1>3, <1>9, <2>3, DepthOfEquation
  <2>6. DepthOf[at] \in Nat /\ DepthOf[Parent(at)] \in Nat /\ DepthOf[query] \in Nat
    BY <1>3, <1>9, <2>4, DepthOfEquation
  <2>7. DepthOf[query] <= Len(rows)
    <3>1. IsFiniteSet(AncestorsOf[query]) /\ Cardinality(AncestorsOf[query]) = DepthOf[query]
      BY <1>3, <1>9, AncestorFacts
    <3> QED
      BY <1>6, <2>1, <3>1, RowsBound
  <2>8. rows[pi + 1].track = Parent(at) /\ psi = event.start[at]
    <3>1. rows[ti + 1].parent = Parent(at)
      BY <1>6, <1>8 DEF at, Parent
    <3>2. rows[ti + 1].parent # 0 /\ rows[ti + 1].parent \in StoredTracks
      BY <2>1, <2>4, <3>1
    <3> QED
      BY <1>1, <1>8, <3>1, <3>2 DEF RowsFilled, IsWritten, at, pi, psi
  <2>9. NStoredPoints = NPoints => step = event.start[at]
    <3>1. event.start[at] \in 1..(NPoints - 1) /\ NPoints \in Nat
      BY <1>3, <1>9, EventAssumption DEF IsEvent, Tracks
    <3> QED
      BY <2>8, <3>1 DEF step, BeyondStored
  <2> QED
    BY <2>4, <2>5, <2>6, <2>7, <2>8, <2>9

<1>13. history \in Seq([row : Nat, step : Nat]) /\ history' \in Seq([row : Nat, step : Nat])
  <2>1. history \in Seq([row : Nat, step : Nat])
    BY DEF WalkInv
  <2> DEFINE e == [row |-> pi, step |-> step]
             Points == [row : Nat, step : Nat]
  <2>2. e \in Points
    BY <1>9
  <2>3. history' = history \/ history' = Append(history, e)
    BY <1>2
  <2>4. history \in Seq(Points)
    BY <2>1
  <2> HIDE DEF e, Points
  <2>5. history' \in Seq(Points)
    BY <2>2, <2>3, <2>4
  <2> QED
    BY <2>1, <2>5 DEF Points
<1>14. ASSUME ReachesPrimary
       PROVE  /\ rows[ti' + 1].track \in AncestorsOf[query] \union {query}
              /\ Len(history') = DepthOf[query] - DepthOf[rows[ti' + 1].track]
              /\ history' # <<>> /\ history'[Len(history')].row = ti'
              /\ \A k \in DOMAIN history' :
                   /\ rows[history'[k].row + 1].track = event.parent[child(history', k)]
                   /\ NStoredPoints = NPoints =>
                         history'[k].step = event.start[child(history', k)]
  <2> DEFINE n == Len(history)
             e == [row |-> pi, step |-> step]
  <2>1. n \in Nat /\ DOMAIN history = 1..n /\ n = DepthOf[query] - DepthOf[at]
    <3>1. n \in Nat /\ DOMAIN history = 1..n
      BY <1>13
    <3>2. Len(history) = DepthOf[query] - DepthOf[at]
      BY <1>11, <1>14, Zenon
    <3> QED
      BY <3>1, <3>2
  <2>2. history' = Append(history, e)
    <3>1. ~(n > Len(rows))
      BY <1>6, <1>12, <1>14, <2>1
    <3> QED
      BY <1>2, <3>1
  <2>3. e \in [row : Nat, step : Nat] /\ e.row = pi /\ e.step = step
    BY <1>9
  <2> HIDE DEF e
  <2>4. /\ Len(history') = n + 1 /\ DOMAIN history' = 1..(n + 1) /\ history'[n + 1] = e
        /\ \A k \in 1..n : history'[k] = history[k]
    BY <1>13, <2>2, <2>3
  <2> HIDE DEF n
  <2>5. rows[ti' + 1].track = Parent(at)
    BY <1>2, <1>12, <1>14
  <2>6. Len(history') = DepthOf[query] - DepthOf[rows[ti' + 1].track]
    BY <1>12, <1>14, <2>1, <2>4, <2>5
  <2>7. child(history', n + 1) = at
    <3>1. CASE n = 0
      <4>1. history = <<>>
        BY <1>13, <2>1, <3>1 DEF n
      <4> QED
        BY <1>11, <1>14, <3>1, <4>1
    <3>2. CASE n # 0
      <4>1. history # <<>> /\ history[n].row = ti
        <5>1. Len(<<>>) = 0
          OBVIOUS
        <5>2. history # <<>>
          BY <3>2, <5>1 DEF n
        <5>3. IF history = <<>> THEN at = query ELSE history[Len(history)].row = ti
          BY <1>11, <1>14, Zenon
        <5> QED
          BY <5>2, <5>3 DEF n
      <4>2. n \in 1..n /\ (n + 1) - 1 = n /\ n + 1 # 1
        BY <2>1, <3>2
      <4> QED
        BY <2>4, <4>1, <4>2 DEF at
    <3> QED
      BY <3>1, <3>2
  <2>8. ASSUME NEW k \in 1..n
        PROVE  child(history', k) = child(history, k)
    <3>1. k # 1 => (k - 1) \in 1..n
      BY <2>1
    <3> QED
      BY <2>4, <3>1
  <2> HIDE DEF child
  <2>9. ASSUME NEW k \in 1..(n + 1)
        PROVE  /\ rows[history'[k].row + 1].track = event.parent[child(history', k)]
               /\ NStoredPoints = NPoints => history'[k].step = event.start[child(history', k)]
    <3>1. CASE k = n + 1
      <4>1. history'[k] = e /\ child(history', k) = at
        BY <2>4, <2>7, <3>1
      <4>2. rows[pi + 1].track = event.parent[at]
              /\ (NStoredPoints = NPoints => step = event.start[at])
        BY <1>12, <1>14 DEF Parent
      <4> QED
        BY <2>3, <4>1, <4>2
    <3>2. CASE k # n + 1
      <4>1. k \in 1..n
        BY <2>1, <3>2
      <4>2. history'[k] = history[k] /\ child(history', k) = child(history, k)
        BY <2>4, <2>8, <4>1
      <4> QED
        BY <1>11, <1>14, <2>1, <4>1, <4>2
    <3> QED
      BY <3>1, <3>2
  <2>10. history' # <<>> /\ history'[Len(history')].row = ti'
    <3>1. Len(history') # 0 /\ Len(history') = n + 1
      BY <2>1, <2>4
    <3> QED
      BY <1>2, <2>3, <2>4, <3>1
  <2>11. rows[ti' + 1].track \in AncestorsOf[query] \union {query}
    BY <1>12, <1>14, <2>5
  <2> QED
    BY <2>4, <2>6, <2>9, <2>10, <2>11 DEF child
<1>15. ReachesPrimary' => ReachesPrimary
  BY <1>1, <1>3, <1>4 DEF ReachesPrimary
<1> QED
  BY <1>1, <1>3, <1>4, <1>5, <1>10, <1>13, <1>14, <1>15 DEF WalkInv

LEMMA WalkEnds ==
    ASSUME InputInv, TableInv, WalkInv, HistoryEnds
    PROVE  WalkInv'
<1>1. /\ pc = "history" /\ pc' = "done" /\ ti = 0
      /\ event' = event /\ cfg' = cfg /\ rows' = rows
      /\ query' = query /\ ti' = ti /\ history' = history
  BY DEF HistoryEnds, AtRowZero, walk
<1>2. AncestorsOf' = AncestorsOf /\ DepthOf' = DepthOf /\ NStoredPoints' = NStoredPoints
  BY <1>1, InputsUnchanged
<1>3. StoredTracks' = StoredTracks
  BY <1>1 DEF StoredTracks
<1>4. ReachesPrimary' => ReachesPrimary
  BY <1>1, <1>2, <1>3 DEF ReachesPrimary
<1> QED
  BY <1>1, <1>2, <1>3, <1>4 DEF WalkInv

-----------------------------------------------------------------------------
(***************************************************************************)
(* The invariant and the theorems.                                         *)
(***************************************************************************)
TrajectoryInv ==
    /\ InputInv /\ ChoiceInv /\ IndexInv /\ TableInv /\ WalkInv
    /\ StoredAsSelected /\ RowsFilled

\* What an action keeps that leaves the choice and the indices as they are.
LEMMA ChoiceUnchanged ==
    ASSUME ChoiceInv, IndexInv, event' = event, cfg' = cfg, interesting' = interesting,
           pc \in Decided, pc' \in Written
    PROVE  ChoiceInv' /\ IndexInv'
<1>1. Tracks' = Tracks /\ ToStore' = ToStore
  BY InputsUnchanged
<1>2. pc' \in Decided /\ pc' \notin {"identify", "logic", "connect", "fill", "parents", "rows"}
  BY DEF Decided, Written
<1>3. ChoiceInv'
  BY <1>1, <1>2 DEF ChoiceInv
<1>4. IndexInv'
  BY <1>2 DEF IndexInv, Decided, Written
<1> QED
  BY <1>3, <1>4

\* And that decides nothing more.
LEMMA StillDecided ==
    ASSUME ChoiceInv, event' = event, cfg' = cfg, interesting' = interesting,
           pc \in Decided, pc' \in Decided
    PROVE  ChoiceInv'
<1>1. Tracks' = Tracks /\ ToStore' = ToStore
  BY InputsUnchanged
<1>2. pc' \notin {"identify", "logic", "connect"}
  BY DEF Decided, Written
<1> QED
  BY <1>1, <1>2 DEF ChoiceInv

LEMMA InitInvariant == Init => TrajectoryInv
<1> SUFFICES ASSUME Init
             PROVE  TrajectoryInv
  OBVIOUS
<1>1. pc = "identify" /\ history = <<>> /\ next = 1
  BY DEF Init
<1>2. interesting \in [Tracks -> BOOLEAN] /\ parentStepIndex = [t \in Tracks |-> 0]
  BY DEF Init
<1>3. InputInv
  BY DEF Init, InputInv
<1>4. ChoiceInv
  BY <1>1, <1>2 DEF ChoiceInv, Decided, Written
<1>5. IndexInv
  BY <1>1, <1>2 DEF IndexInv, Written
<1>6. TableInv /\ StoredAsSelected /\ RowsFilled
  BY <1>1 DEF TableInv, StoredAsSelected, RowsFilled, Written, IsWritten
<1>7. WalkInv
  BY <1>1 DEF WalkInv
<1> QED
  BY <1>3, <1>4, <1>5, <1>6, <1>7 DEF TrajectoryInv

\* What the actions before the table is written have in common.
LEMMA BeforeTable ==
    ASSUME pc' \notin Written
    PROVE  TableInv' /\ StoredAsSelected' /\ RowsFilled'
  BY DEF TableInv, StoredAsSelected, RowsFilled, Written, IsWritten

LEMMA BeforeWalk ==
    ASSUME WalkInv, history' = history,
           pc \notin {"history", "done", "outOfBounds"},
           pc' \notin {"history", "done", "outOfBounds"}
    PROVE  WalkInv'
  BY DEF WalkInv

LEMMA StepInvariant == TrajectoryInv /\ [Next]_vars => TrajectoryInv'
<1> SUFFICES ASSUME TrajectoryInv, [Next]_vars
             PROVE  TrajectoryInv'
  OBVIOUS
<1>1. /\ InputInv /\ ChoiceInv /\ IndexInv /\ TableInv /\ WalkInv
      /\ StoredAsSelected /\ RowsFilled
  BY DEF TrajectoryInv
<1> USE DEF Written
<1>2. CASE Identify
  <2>1. /\ pc = "identify" /\ pc' = "logic" /\ event' = event /\ cfg' = cfg
        /\ parentStepIndex' = parentStepIndex /\ history' = history
    BY <1>2 DEF Identify, indices, walk
  <2>2. Tracks' = Tracks
    BY <2>1, InputsUnchanged
  <2>3. ChoiceInv'
    BY <1>1, <1>2, ChoiceIdentify
  <2>4. IndexInv'
    BY <1>1, <2>1, <2>2 DEF IndexInv
  <2> QED
    BY <1>1, <2>1, <2>3, <2>4, BeforeTable, BeforeWalk DEF TrajectoryInv, InputInv
<1>3. CASE ApplyLogic
  <2>1. /\ pc = "logic" /\ pc' \in {"connect", "fill"} /\ event' = event /\ cfg' = cfg
        /\ parentStepIndex' = parentStepIndex /\ history' = history
    BY <1>3 DEF ApplyLogic, indices, walk
  <2>2. Tracks' = Tracks
    BY <2>1, InputsUnchanged
  <2>3. ChoiceInv'
    BY <1>1, <1>3, ChoiceApplyLogic
  <2>4. IndexInv'
    BY <1>1, <2>1, <2>2 DEF IndexInv
  <2> QED
    BY <1>1, <2>1, <2>3, <2>4, BeforeTable, BeforeWalk DEF TrajectoryInv, InputInv
<1>4. CASE ConnectNext
  <2>1. /\ pc = "connect" /\ pc' \in {"connect", "fill"} /\ event' = event /\ cfg' = cfg
        /\ parentStepIndex' = parentStepIndex /\ history' = history
    BY <1>4 DEF ConnectNext, indices, walk
  <2>2. Tracks' = Tracks
    BY <2>1, InputsUnchanged
  <2>3. ChoiceInv'
    BY <1>1, <1>4, ChoiceConnectNext
  <2>4. IndexInv'
    BY <1>1, <2>1, <2>2 DEF IndexInv
  <2> QED
    BY <1>1, <2>1, <2>3, <2>4, BeforeTable, BeforeWalk DEF TrajectoryInv, InputInv
<1>5. CASE AssignIndices
  <2>1. /\ pc = "fill" /\ pc' = "parents" /\ event' = event /\ cfg' = cfg
        /\ interesting' = interesting /\ history' = history
    BY <1>5 DEF AssignIndices, choice, walk
  <2>2. ChoiceInv'
    BY <1>1, <2>1, StillDecided DEF Decided
  <2>3. IndexInv'
    BY <1>1, <1>5, IndexAssignIndices
  <2> QED
    BY <1>1, <2>1, <2>2, <2>3, BeforeTable, BeforeWalk DEF TrajectoryInv, InputInv
<1>6. CASE AssignParents
  <2>1. /\ pc = "parents" /\ pc' = "rows" /\ event' = event /\ cfg' = cfg
        /\ interesting' = interesting /\ history' = history
    BY <1>6 DEF AssignParents, choice, walk
  <2>2. ChoiceInv'
    BY <1>1, <2>1, StillDecided DEF Decided
  <2>3. IndexInv'
    BY <1>1, <1>6, IndexAssignParents
  <2> QED
    BY <1>1, <2>1, <2>2, <2>3, BeforeTable, BeforeWalk DEF TrajectoryInv, InputInv
<1>7. CASE FillRows
  <2>1. /\ pc = "rows" /\ pc' = "written" /\ event' = event /\ cfg' = cfg
        /\ interesting' = interesting /\ history' = history
    BY <1>7 DEF FillRows, choice, walk
  <2>2. ChoiceInv' /\ IndexInv'
    BY <1>1, <2>1, ChoiceUnchanged DEF Decided
  <2>3. TableInv' /\ StoredAsSelected' /\ RowsFilled'
    BY <1>1, <1>7, TableFillRows
  <2> QED
    BY <1>1, <2>1, <2>2, <2>3, BeforeWalk DEF TrajectoryInv, InputInv
<1>8. CASE AskHistory
  <2>1. /\ pc = "written" /\ pc' = "history" /\ event' = event /\ cfg' = cfg
        /\ interesting' = interesting /\ rows' = rows
    BY <1>8 DEF AskHistory, choice
  <2>2. ChoiceInv' /\ IndexInv'
    BY <1>1, <2>1, ChoiceUnchanged DEF Decided
  <2>3. TableInv' /\ StoredAsSelected' /\ RowsFilled'
    BY <1>1, <2>1, TableUnchanged
  <2>4. WalkInv'
    BY <1>1, <1>8, WalkAskHistory
  <2> QED
    BY <1>1, <2>1, <2>2, <2>3, <2>4 DEF TrajectoryInv, InputInv
<1>9. CASE HistoryStep
  <2>1. /\ pc = "history" /\ pc' \in {"history", "outOfBounds"} /\ event' = event /\ cfg' = cfg
        /\ interesting' = interesting /\ rows' = rows
    BY <1>9 DEF HistoryStep, choice
  <2>2. ChoiceInv' /\ IndexInv'
    BY <1>1, <2>1, ChoiceUnchanged DEF Decided
  <2>3. TableInv' /\ StoredAsSelected' /\ RowsFilled'
    BY <1>1, <2>1, TableUnchanged
  <2>4. CASE pc' = "history"
    <3>1. WalkInv'
      BY <1>1, <1>9, <2>4, WalkStep
    <3> QED
      BY <1>1, <2>1, <2>2, <2>3, <3>1 DEF TrajectoryInv, InputInv
  <2>5. CASE pc' = "outOfBounds"
    <3>1. history' = history
      BY <1>9, <2>1, <2>5 DEF HistoryStep
    <3>2. WalkInv'
      BY <1>1, <2>5, <3>1 DEF WalkInv
    <3> QED
      BY <1>1, <2>1, <2>2, <2>3, <3>2 DEF TrajectoryInv, InputInv
  <2> QED
    BY <2>1, <2>4, <2>5
<1>10. CASE HistoryEnds
  <2>1. /\ pc = "history" /\ pc' = "done" /\ event' = event /\ cfg' = cfg
        /\ interesting' = interesting /\ rows' = rows
    BY <1>10 DEF HistoryEnds, choice
  <2>2. ChoiceInv' /\ IndexInv'
    BY <1>1, <2>1, ChoiceUnchanged DEF Decided
  <2>3. TableInv' /\ StoredAsSelected' /\ RowsFilled'
    BY <1>1, <2>1, TableUnchanged
  <2>4. WalkInv'
    BY <1>1, <1>10, WalkEnds
  <2> QED
    BY <1>1, <2>1, <2>2, <2>3, <2>4 DEF TrajectoryInv, InputInv
<1>11. CASE UNCHANGED vars
  <2>1. /\ cfg' = cfg /\ event' = event /\ pc' = pc /\ interesting' = interesting
        /\ filters' = filters /\ next' = next /\ trajIndex' = trajIndex
        /\ parentIndex' = parentIndex /\ parentStepIndex' = parentStepIndex
        /\ rows' = rows /\ query' = query /\ ti' = ti /\ history' = history
    BY <1>11 DEF vars, choice, indices, walk
  <2>2. /\ Tracks' = Tracks /\ AncestorsOf' = AncestorsOf /\ DepthOf' = DepthOf
        /\ ToStore' = ToStore /\ NStoredPoints' = NStoredPoints
        /\ \A t \in Tracks : (Selected(t)' <=> Selected(t)) /\ Matched(t)' = Matched(t)
    BY <2>1, InputsUnchanged
  <2>3. TableInv' /\ StoredAsSelected' /\ RowsFilled'
    BY <1>1, <2>1, TableUnchanged
  <2>4. StoredTracks' = StoredTracks
    BY <2>1 DEF StoredTracks
  <2>5. ReachesPrimary' => ReachesPrimary
    BY <2>1, <2>2, <2>4 DEF ReachesPrimary
  <2>6. WalkInv'
    BY <1>1, <2>1, <2>2, <2>4, <2>5 DEF WalkInv
  <2>7. ChoiceInv'
    <3>1. pc = "connect" => \A j \in 1..(next - 1) : event.order[j] \in Tracks
      <4>1. SUFFICES ASSUME pc = "connect", NEW j \in 1..(next - 1)
                     PROVE  event.order[j] \in Tracks
        OBVIOUS
      <4>2. IsEvent(event) /\ next \in Tracks
        BY <1>1, <4>1, InputFacts DEF ChoiceInv
      <4>3. j \in Tracks
        BY <4>2, EventFacts
      <4> QED
        BY <4>2, <4>3, OrderFacts
    <3> QED
      BY <1>1, <2>1, <2>2, <3>1 DEF ChoiceInv
  <2>8. IndexInv'
    <3>1. \A t \in Tracks : /\ AssignIndex(t)' = AssignIndex(t) /\ Parent(t)' = Parent(t)
                            /\ IsPrimary(t)' <=> IsPrimary(t)
      BY <2>1 DEF AssignIndex, Stored, Tracks, IsPrimary, Parent
    <3>2. \A t \in Tracks : ~IsPrimary(t) => Parent(t) \in Tracks
      BY <1>1, InputFacts, EventFacts
    <3> QED
      BY <1>1, <2>1, <2>2, <3>1, <3>2 DEF IndexInv
  <2> QED
    BY <1>1, <2>1, <2>3, <2>6, <2>7, <2>8 DEF TrajectoryInv, InputInv
<1>12. CASE Terminated
  BY <1>11, <1>12 DEF Terminated
<1> QED
  BY <1>2, <1>3, <1>4, <1>5, <1>6, <1>7, <1>8, <1>9, <1>10, <1>11, <1>12 DEF Next

\* The invariant: the choice, the indices, the table and the walk at each stage.
THEOREM TrajectoryInvariant == Spec => []TrajectoryInv
  BY InitInvariant, StepInvariant, PTL DEF Spec

\* What the options ask for is what is selected if the logic knows all filters set.
LEMMA SelectedAreChosen ==
    ASSUME AndKnowsAllSet
    PROVE  ToStore = AskedFor
<1>1. cfg.logicAND => TrajectoryFiltersSet = cfg.set
  BY DEF AndKnowsAllSet, TrajectoryFiltersSet
<1>2. \A t \in Tracks : Selected(t) <=> Chosen(t)
  BY <1>1 DEF Selected, Chosen
<1> QED
  BY <1>2 DEF ToStore, AskedFor

\* Stored are the trajectories that the options ask for and, when they are to be
\* connected, all that lead to them, each once, whatever the order in which
\* IdentifyTrajectoriesForStorage goes over them.
THEOREM StoredAsAskedTheorem == Spec => []StoredAsAsked
<1>1. TrajectoryInv => StoredAsAsked
  BY SelectedAreChosen DEF TrajectoryInv, StoredAsSelected, StoredAsAsked
<1> QED
  BY <1>1, TrajectoryInvariant, PTL

\* The rows that BDSOutputROOTEventTrajectory::Fill writes refer to the rows of
\* the parents, and to the first primary's step, where these are stored.
THEOREM RowsReferToParentsTheorem == Spec => []RowsReferToParents
<1>1. ASSUME TrajectoryInv, IsWritten, NEW i \in DOMAIN rows
      PROVE  LET r == rows[i] IN
             /\ r.parent \in StoredTracks =>
                  /\ rows[r.parentIndex + 1].track = r.parent
                  /\ r.parentStepIndex = event.start[r.track]
             /\ 1 \in AncestorsOf[r.track] /\ {1, FounderOf[r.track]} \subseteq StoredTracks =>
                  r.primaryStepIndex = event.start[FounderOf[r.track]]
  <2> DEFINE r == rows[i]
  <2>1. RowsFilled /\ TableInv /\ pc \in Written
    BY <1>1 DEF TrajectoryInv, IsWritten, Written
  <2>2. \A j \in DOMAIN rows : rows[j].track # 0
    BY <2>1 DEF TableInv, Tracks
  <2>3. r.parent \in StoredTracks => r.parent # 0
    BY <2>2 DEF StoredTracks
  <2> QED
    BY <1>1, <2>1, <2>3 DEF RowsFilled
<1>2. TrajectoryInv => RowsReferToParents
  BY <1>1 DEF RowsReferToParents
<1> QED
  BY <1>2, TrajectoryInvariant, PTL

\* Where row 0 is the primary it should reach and all between are stored, the
\* walk of processHistory that has ended is the ancestry of the track.
THEOREM HistoryIsAncestryTheorem == Spec => []HistoryIsAncestry
<1>1. ASSUME TrajectoryInv, pc = "done", ReachesPrimary
      PROVE  Len(history) = DepthOf[query]
  <2>1. /\ rows[ti + 1].track \in AncestorsOf[query] \union {query} /\ ti = 0
        /\ Len(history) = DepthOf[query] - DepthOf[rows[ti + 1].track]
        /\ query \in StoredTracks /\ ti \in 0..(Len(rows) - 1)
    BY <1>1 DEF TrajectoryInv, WalkInv
  <2>2. /\ Len(rows) \in Nat /\ DOMAIN rows = 1..Len(rows)
        /\ \A i \in DOMAIN rows : /\ rows[i].track \in Tracks
                                  /\ rows[i].parent = event.parent[rows[i].track]
    BY <1>1 DEF TrajectoryInv, TableInv, Written
  <2>3. 1 \in DOMAIN rows /\ ti + 1 = 1
    BY <2>1, <2>2
  <2>4. query \in Tracks /\ rows[1].track \in Tracks /\ IsPrimary(rows[1].track)
    BY <1>1, <2>1, <2>2, <2>3 DEF StoredTracks, ReachesPrimary, IsPrimary, Parent
  <2>5. IsEvent(event)
    BY <1>1, InputFacts DEF TrajectoryInv
  <2>6. DepthOf[rows[1].track] = 0 /\ DepthOf[query] \in Nat
    BY <2>4, <2>5, DepthOfEquation
  <2> QED
    BY <2>1, <2>3, <2>6
<1>2. TrajectoryInv => HistoryIsAncestry
  BY <1>1 DEF TrajectoryInv, WalkInv, HistoryIsAncestry
<1> QED
  BY <1>2, TrajectoryInvariant, PTL
=============================================================================
