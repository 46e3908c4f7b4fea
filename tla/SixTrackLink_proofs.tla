------------------------ MODULE SixTrackLink_proofs -------------------------
(***************************************************************************)
(* Theorems of SixTrackLink, for any input file, any names, any number of  *)
(* jaws, runs and particles: the registry, the maps from names to IDs and  *)
(* from IDs to the beam line, and the link's copies of them, agree; and no *)
(* two of the other tracker's particles have one ID.                       *)
(***************************************************************************)
EXTENDS SixTrackLink, FiniteSetTheorems, WellFoundedInduction, TLAPS

Positions(s) == 0..Len(s) - 1

\* The registry: an ID is of one component; an element of the input file has its
\* position for its ID.
RegistryInv ==
    /\ cfg \in Seq(Names) /\ beamline \in Seq(Names) /\ Len(cfg) <= Len(beamline)
    /\ numberOfEntries \in Nat /\ Len(cfg) <= numberOfEntries
    /\ byID \in [DOMAIN byID -> Positions(beamline)]
    /\ DOMAIN byID \subseteq 0..numberOfEntries - 1
    /\ \A i, j \in DOMAIN byID : i # j => byID[i] # byID[j]
    /\ \A i \in Positions(cfg) :
          i \in DOMAIN byID /\ byID[i] = i /\ beamline[i + 1] = cfg[i + 1]

\* The map from IDs to the beam line has the jaws and agrees with the registry;
\* of the link's copy all other entries are 0.
CopyInv ==
    /\ link = [names |-> nameToElementIndex, indices |-> link.indices]
    /\ \A id \in DOMAIN linkIDToBeamlineIndex :
          /\ id \in DOMAIN byID /\ id >= Len(cfg)
          /\ linkIDToBeamlineIndex[id] = byID[id]
          /\ id \in DOMAIN link.indices
    /\ \A id \in DOMAIN link.indices :
          link.indices[id] = IF id \in DOMAIN linkIDToBeamlineIndex
                             THEN linkIDToBeamlineIndex[id] ELSE 0

\* A name leads to its last jaw, and if it has none to an element of that name.
NameInv ==
    \A n \in Names :
      IF Jaws(n) # {}
      THEN /\ n \in DOMAIN nameToElementIndex /\ n \in DOMAIN byName
           /\ nameToElementIndex[n] \in DOMAIN linkIDToBeamlineIndex
           /\ byName[n] = byID[nameToElementIndex[n]]
           /\ byName[n] \in Jaws(n) /\ \A i \in Jaws(n) : i <= byName[n]
      ELSE /\ n \in DOMAIN nameToElementIndex <=> n \in ToSet(cfg)
           /\ n \in DOMAIN nameToElementIndex =>
                 /\ nameToElementIndex[n] \in Positions(cfg)
                 /\ cfg[nameToElementIndex[n] + 1] = n

IInv == RegistryInv /\ CopyInv /\ NameInv

-----------------------------------------------------------------------------
\* A set of natural numbers has a minimum.
LEMMA LessThan == \A x, y \in Nat : <<x, y>> \in OpToRel(<, Nat) <=> x < y
  BY DEF OpToRel

LEMMA Minimum == ASSUME NEW S, S \subseteq Nat, S # {} PROVE \E x \in S : \A y \in S : x <= y
<1>1. PICK x \in S : \A y \in S : ~ (<<y, x>> \in OpToRel(<, Nat))
  BY WFMin, NatLessThanWellFounded
<1>2. ASSUME NEW y \in S PROVE x <= y
  <2>1. x \in Nat /\ y \in Nat /\ ~(<<y, x>> \in OpToRel(<, Nat))
    BY <1>1
  <2>2. ~(y < x)
    BY <2>1, LessThan, Zenon
  <2>3. x \in Nat /\ y \in Nat
    BY <2>1, Zenon
  <2> QED
    BY <2>2, <2>3
<1> QED
  BY <1>2

\* An element's name has a last place in the input file.
LEMMA LastPlace ==
    ASSUME NEW f \in Seq(Names), NEW n \in ToSet(f)
    PROVE  \E i \in Positions(f) : f[i + 1] = n /\ \A j \in i+2..Len(f) : f[j] # n
<1> DEFINE FromEnd == {Len(f) - i : i \in {k \in 1..Len(f) : f[k] = n}}
<1>1. FromEnd \subseteq Nat /\ FromEnd # {}
  BY DEF ToSet
<1>2. PICK x \in FromEnd : \A y \in FromEnd : x <= y
  BY <1>1, Minimum
<1>3. PICK k \in 1..Len(f) : f[k] = n /\ x = Len(f) - k
  OBVIOUS
<1>4. \A j \in k+1..Len(f) : f[j] # n
  <2> SUFFICES ASSUME NEW j \in k+1..Len(f), f[j] = n PROVE FALSE
    OBVIOUS
  <2>1. Len(f) - j \in FromEnd
    BY <1>3
  <2>2. Len(f) - k <= Len(f) - j
    BY <1>2, <1>3, <2>1
  <2> QED
    BY <2>2
<1>5. k - 1 \in Positions(f) /\ (k - 1) + 1 = k /\ (k - 1) + 2 = k + 1
  BY DEF Positions
<1> QED
  BY <1>3, <1>4, <1>5

LEMMA InitHolds == Init => IInv
<1> SUFFICES ASSUME Init PROVE IInv
  OBVIOUS
<1>1. PICK f \in Configs : Construct(f)
  BY DEF Init
<1>2. /\ f \in Seq(Names) /\ cfg = f /\ beamline = f /\ numberOfEntries = Len(f)
      /\ byID = [i \in Positions(f) |-> i] /\ linkIDToBeamlineIndex = <<>>
      /\ nameToElementIndex = byName
  BY <1>1, LinkAssumption DEF Construct, Positions
<1>3. DOMAIN nameToElementIndex = ToSet(f)
  BY <1>1 DEF Construct
<1>4. ASSUME NEW n \in ToSet(f)
      PROVE  nameToElementIndex[n] \in Positions(f) /\ f[nameToElementIndex[n] + 1] = n
  <2>1. nameToElementIndex[n] =
          CHOOSE i \in Positions(f) : f[i + 1] = n /\ \A j \in i+2..Len(f) : f[j] # n
    BY <1>1, <1>4 DEF Construct, Positions
  <2> QED
    BY <1>2, <2>1, LastPlace
<1>5. RegistryInv
  BY <1>2 DEF RegistryInv, Positions
<1>6. CopyInv
  BY <1>2 DEF Init, CopyInv
<1>7. NameInv
  <2>1. \A n \in Names : Jaws(n) = {}
    BY <1>2 DEF Jaws
  <2> QED
    BY <1>2, <1>3, <1>4, <2>1 DEF NameInv
<1> QED
  BY <1>5, <1>6, <1>7 DEF IInv

\* What the invariant speaks of.
geometryLink == <<geometry, link>>

LEMMA GeometryKept == ASSUME IInv, UNCHANGED geometryLink PROVE IInv'
  BY DEF IInv, geometryLink, geometry, RegistryInv, CopyInv, NameInv, Jaws, Positions

LEMMA AskLengthKeeps == ASSUME IInv, NEW n \in Names, AskLength(n) PROVE IInv'
<1>1. UNCHANGED geometry /\ link' = [link EXCEPT !.indices = WithEntry(GetLinkIndex(n))]
  BY DEF AskLength
<1>2. RegistryInv' /\ NameInv'
  BY <1>1 DEF IInv, geometry, RegistryInv, NameInv, Jaws, Positions
<1>3. link' = [names |-> nameToElementIndex, indices |-> WithEntry(GetLinkIndex(n))]
  BY <1>1 DEF IInv, CopyInv
<1>4. CopyInv'
  BY <1>1, <1>3 DEF IInv, CopyInv, geometry, WithEntry, Entered
<1> QED
  BY <1>2, <1>4 DEF IInv

\* A new jaw: its ID is one not in use and its component is the last.
LEMMA AddJawKeeps == ASSUME IInv, NEW n \in Names, AddLinkCollimatorJaw(n) PROVE IInv'
<1> DEFINE id == numberOfEntries
           at == Len(beamline)
<1>1. /\ cfg' = cfg /\ beamline' = Append(beamline, n) /\ numberOfEntries' = id + 2
      /\ byID' = [i \in DOMAIN byID \union {id} |-> IF i = id THEN at ELSE byID[i]]
      /\ byName' = [m \in DOMAIN byName \union {n} |-> IF m = n THEN at ELSE byName[m]]
      /\ nameToElementIndex' = [m \in DOMAIN nameToElementIndex \union {n} |->
                                  IF m = n THEN id ELSE nameToElementIndex[m]]
      /\ linkIDToBeamlineIndex' =
           [i \in DOMAIN linkIDToBeamlineIndex \union {id} |->
              IF i = id THEN Len(Append(beamline, n)) - 1 ELSE linkIDToBeamlineIndex[i]]
      /\ link' = [names |-> nameToElementIndex', indices |-> linkIDToBeamlineIndex']
  BY DEF AddLinkCollimatorJaw, Entered, NewID, LastIndex, SamplersOfJaw
<1>2. /\ beamline \in Seq(Names) /\ at \in Nat /\ Len(beamline') = at + 1
      /\ beamline' \in Seq(Names) /\ beamline'[at + 1] = n
      /\ \A i \in 1..at : beamline'[i] = beamline[i]
      /\ Len(Append(beamline, n)) - 1 = at
      /\ cfg \in Seq(Names) /\ Len(cfg) \in Nat /\ Len(cfg) <= at
  BY <1>1 DEF IInv, RegistryInv
<1>3. id \in Nat /\ id \notin DOMAIN byID /\ Len(cfg) <= id
  BY DEF IInv, RegistryInv
<1> HIDE DEF id, at
<1>4. RegistryInv'
  <2>1. /\ byID \in [DOMAIN byID -> 0..at - 1] /\ DOMAIN byID \subseteq 0..id - 1
        /\ \A i, j \in DOMAIN byID : i # j => byID[i] # byID[j]
        /\ \A i \in Positions(cfg) :
              i \in DOMAIN byID /\ byID[i] = i /\ beamline[i + 1] = cfg[i + 1]
    BY DEF IInv, RegistryInv, Positions, id, at
  <2>2. /\ byID' \in [DOMAIN byID' -> 0..at] /\ DOMAIN byID' \subseteq 0..id + 1
    BY <1>1, <1>2, <1>3, <2>1
  <2>3. \A i, j \in DOMAIN byID' : i # j => byID'[i] # byID'[j]
    BY <1>1, <1>2, <1>3, <2>1
  <2>4. \A i \in Positions(cfg) :
              i \in DOMAIN byID' /\ byID'[i] = i /\ beamline'[i + 1] = cfg[i + 1]
    BY <1>1, <1>2, <1>3, <2>1 DEF Positions
  <2>5. Positions(beamline') = 0..at /\ numberOfEntries' - 1 = id + 1
    BY <1>1, <1>2, <1>3 DEF Positions
  <2>6. /\ numberOfEntries' \in Nat /\ Len(cfg) <= numberOfEntries'
        /\ Len(cfg) <= Len(beamline')
    BY <1>1, <1>2, <1>3
  <2>7. \A i \in Positions(cfg)' :
              i \in DOMAIN byID' /\ byID'[i] = i /\ beamline'[i + 1] = cfg'[i + 1]
    BY <1>1, <2>4 DEF Positions
  <2>8. cfg' \in Seq(Names) /\ beamline' \in Seq(Names) /\ cfg' = cfg
    BY <1>1, <1>2
  <2>9. /\ byID' \in [DOMAIN byID' -> Positions(beamline')]
        /\ DOMAIN byID' \subseteq 0..numberOfEntries' - 1
    BY <2>2, <2>5, Zenon
  <2> QED
    BY <2>3, <2>6, <2>7, <2>8, <2>9, Zenon DEF RegistryInv, Positions
<1>5. CopyInv'
  BY <1>1, <1>2, <1>3 DEF IInv, CopyInv
<1>6. NameInv'
  <2> SUFFICES ASSUME NEW m \in Names
               PROVE  IF Jaws(m)' # {}
                      THEN /\ m \in DOMAIN nameToElementIndex' /\ m \in DOMAIN byName'
                           /\ nameToElementIndex'[m] \in DOMAIN linkIDToBeamlineIndex'
                           /\ byName'[m] = byID'[nameToElementIndex'[m]]
                           /\ byName'[m] \in Jaws(m)' /\ \A i \in Jaws(m)' : i <= byName'[m]
                      ELSE /\ m \in DOMAIN nameToElementIndex' <=> m \in ToSet(cfg')
                           /\ m \in DOMAIN nameToElementIndex' =>
                                 /\ nameToElementIndex'[m] \in Positions(cfg')
                                 /\ cfg'[nameToElementIndex'[m] + 1] = m
    BY DEF NameInv
  <2>1. Jaws(m)' = Jaws(m) \union (IF m = n THEN {at} ELSE {})
    BY <1>1, <1>2 DEF Jaws, at
  <2>2. CASE m = n
    <3>1. \A i \in Jaws(n) : i <= at
      BY <1>2 DEF Jaws, at
    <3>2. byName'[n] = at /\ nameToElementIndex'[n] = id /\ byID'[id] = at
          /\ id \in DOMAIN linkIDToBeamlineIndex'
          /\ n \in DOMAIN nameToElementIndex' /\ n \in DOMAIN byName'
      BY <1>1
    <3> QED
      BY <1>2, <2>1, <2>2, <3>1, <3>2
  <2>3. CASE m # n
    <3>1. Jaws(m)' = Jaws(m) /\ cfg' = cfg
      BY <1>1, <2>1, <2>3
    <3>2. /\ (m \in DOMAIN nameToElementIndex' <=> m \in DOMAIN nameToElementIndex)
          /\ (m \in DOMAIN byName' <=> m \in DOMAIN byName)
          /\ m \in DOMAIN nameToElementIndex => nameToElementIndex'[m] = nameToElementIndex[m]
          /\ m \in DOMAIN byName => byName'[m] = byName[m]
      BY <1>1, <2>3
    <3>3. \A i \in DOMAIN linkIDToBeamlineIndex :
             i \in DOMAIN linkIDToBeamlineIndex' /\ byID'[i] = byID[i]
      BY <1>1, <1>3 DEF IInv, CopyInv
    <3> QED
      BY <3>1, <3>2, <3>3 DEF IInv, NameInv
  <2> QED
    BY <2>2, <2>3
<1> QED
  BY <1>4, <1>5, <1>6 DEF IInv

\* The inductive invariant holds in every state (Init, and one lemma an action
\* that enters something).
THEOREM Invariant == Spec => []IInv
<1>1. IInv /\ [Next]_vars => IInv'
  <2> SUFFICES ASSUME IInv, [Next]_vars PROVE IInv'
    OBVIOUS
  <2>1. ASSUME NEW n \in Names, SelectLinkElement(n) PROVE UNCHANGED geometryLink
    BY <2>1 DEF SelectLinkElement, geometryLink
  <2>2. CASE Clear \/ AddParticle \/ BeginOfRunAction \/ Event \/ TakeHits \/ UNCHANGED vars
    <3>1. UNCHANGED geometryLink
      BY <2>2 DEF Clear, AddParticle, BeginOfRunAction, Event, TakeHits, vars, geometryLink
    <3> QED
      BY <3>1, GeometryKept
  <2> QED
    BY <2>1, <2>2, GeometryKept, AskLengthKeeps, AddJawKeeps DEF Next
<1> QED
  BY InitHolds, <1>1, PTL DEF Spec

\* The name of a jaw leads to the last jaw of that name, in the registry and in
\* the beam line, and that of an element to such an element (AddLinkCollimatorJaw,
\* GetLinkIndex, GetChordLengthOfLinkElement), for any number of jaws.
THEOREM NamesLeadToTheirJawTheorem == Spec => []NamesLeadToTheirJaw
<1>1. IInv => NamesLeadToTheirJaw
  <2> SUFFICES ASSUME IInv PROVE NamesLeadToTheirJaw
    OBVIOUS
  <2>1. \A i, j \in DOMAIN byID : i # j => byID[i] # byID[j]
    BY DEF IInv, RegistryInv
  <2>2. DOMAIN byID \subseteq 0..numberOfEntries - 1
    BY DEF IInv, RegistryInv
  <2>3. ASSUME NEW n \in ToSet(beamline)
        PROVE  LET id == GetLinkIndex(n) IN
               IF Jaws(n) # {}
               THEN \A i \in Jaws(n) : /\ byID[id] >= i /\ byID[id] \in Jaws(n)
                                       /\ byName[n] = byID[id]
                                       /\ ComponentAsked(n) = byID[id]
               ELSE beamline[byID[id] + 1] = n
    <3> DEFINE id == GetLinkIndex(n)
    <3>1. link.names = nameToElementIndex
      BY DEF IInv, CopyInv
    <3>2. ComponentAsked(n) = IF id \in DOMAIN linkIDToBeamlineIndex
                              THEN linkIDToBeamlineIndex[id] ELSE 0
      BY DEF IInv, CopyInv, ComponentAsked, WithEntry, Entered
    <3>3. n \in Names
      BY DEF IInv, RegistryInv, ToSet
    <3>4. CASE Jaws(n) # {}
      <4>1. id = nameToElementIndex[n]
        BY <3>1, <3>3, <3>4 DEF IInv, NameInv, GetLinkIndex
      <4>2. ComponentAsked(n) = byID[id]
        BY <3>2, <3>3, <3>4, <4>1 DEF IInv, NameInv, CopyInv
      <4>3. byName[n] = byID[id] /\ byID[id] \in Jaws(n) /\ \A i \in Jaws(n) : i <= byID[id]
        BY <3>3, <3>4, <4>1 DEF IInv, NameInv
      <4>4. Jaws(n) \subseteq Int
        BY DEF IInv, RegistryInv, Jaws
      <4> HIDE DEF id
      <4>5. \A i \in Jaws(n) : byID[id] >= i
        BY <4>3, <4>4
      <4> QED
        BY <3>4, <4>2, <4>3, <4>5, Zenon DEF id
    <3>5. CASE Jaws(n) = {}
      <4>1. n \in ToSet(cfg)
        <5>1. PICK k \in 1..Len(beamline) : beamline[k] = n
          BY DEF IInv, RegistryInv, ToSet
        <5>2. Len(cfg) \in Nat /\ Len(beamline) \in Nat
          BY DEF IInv, RegistryInv
        <5>3. k - 1 \notin Len(cfg)..Len(beamline) - 1
          <6>1. \A i \in Len(cfg)..Len(beamline) - 1 : beamline[i + 1] # n
            BY <3>5 DEF Jaws
          <6>2. (k - 1) + 1 = k
            BY <5>2
          <6> QED
            BY <5>1, <6>1, <6>2
        <5>4. k - 1 \in Positions(cfg) /\ k \in DOMAIN cfg
          BY <5>1, <5>2, <5>3 DEF Positions, IInv, RegistryInv
        <5>5. cfg[k] = n
          BY <5>1, <5>4 DEF IInv, RegistryInv
        <5> QED
          BY <5>4, <5>5 DEF ToSet
      <4>2. id \in Positions(cfg) /\ cfg[id + 1] = n
        BY <3>1, <3>3, <3>5, <4>1 DEF IInv, NameInv, GetLinkIndex
      <4> HIDE DEF id
      <4>3. beamline[byID[id] + 1] = n
        BY <4>2 DEF IInv, RegistryInv
      <4> QED
        BY <3>5, <4>3, Zenon DEF id
    <3> QED
      BY <3>4, <3>5
  <2> QED
    BY <2>1, <2>2, <2>3 DEF NamesLeadToTheirJaw
<1> QED
  BY Invariant, <1>1, PTL

-----------------------------------------------------------------------------
(* Particles and their IDs. *)

Particle == [id : Nat, parent : Nat]
InRun == pc \in {"filling", "selected", "event"}

\* The other tracker's particles, none with the ID of another or beyond the largest.
PopulationInv ==
    /\ population \subseteq Particle
    /\ \A p, q \in population : p.id = q.id => p = q
    /\ maximumExternalParticleID \in Nat
    /\ \A p \in population : p.id <= maximumExternalParticleID

\* The bunch is of its particles, each once.
BunchInv ==
    InRun => /\ particles \in Seq(population)
             /\ \A i, j \in DOMAIN particles : particles[i] = particles[j] => i = j
             /\ currentIndex \in 0..Len(particles)
             /\ pc # "event" => currentIndex = 0

\* A hit is of a particle of the bunch that has had its event, or has an ID that
\* was not in use when the run began.
Old(k) == \E i \in 1..currentIndex : allHits[k] = particles[i]
New(k) ==
    /\ allHits[k].id \notin Ids(population)
    /\ allHits[k].id <= maximumExternalParticleID
    /\ allHits[k].parent \in Ids(ToSet(particles))

HitsInv ==
    pc = "event" =>
      /\ allHits \in Seq(Particle)
      /\ \A j, k \in DOMAIN allHits : allHits[j].id = allHits[k].id => j = k
      /\ \A k \in DOMAIN allHits : Old(k) \/ New(k)

\* What is counted.
CountInv ==
    pc = "event" => returned = [primaries |-> Cardinality(OldHits),
                                secondaries |-> Cardinality(NewHits)]

IdInv == PopulationInv /\ BunchInv /\ HitsInv /\ CountInv

-----------------------------------------------------------------------------
\* Places of the secondaries, and of the primary, among the hits of an event.
SecondaryPlaces(h) == {k \in DOMAIN h : h[k] = "secondary"}
PrimaryPlaces(h) == {k \in DOMAIN h : h[k] = "primary"}

LEMMA PlacesAddUp ==
    ASSUME NEW h \in Outcomes
    PROVE  /\ Cardinality(PrimaryPlaces(h)) \in Nat /\ SecondariesIn(h, Len(h)) \in Nat
           /\ Cardinality(PrimaryPlaces(h)) = Len(h) - SecondariesIn(h, Len(h))
           /\ SecondariesIn(h, Len(h)) = Cardinality(SecondaryPlaces(h))
<1>1. h \in Seq({"primary", "secondary"}) /\ DOMAIN h = 1..Len(h) /\ Len(h) \in Nat
  BY LinkAssumption
<1>2. IsFiniteSet(1..Len(h)) /\ Cardinality(1..Len(h)) = Len(h)
  BY <1>1, FS_Interval
<1>3. /\ PrimaryPlaces(h) \subseteq 1..Len(h) /\ SecondaryPlaces(h) \subseteq 1..Len(h)
      /\ PrimaryPlaces(h) \union SecondaryPlaces(h) = 1..Len(h)
      /\ PrimaryPlaces(h) \intersect SecondaryPlaces(h) = {}
  BY <1>1 DEF PrimaryPlaces, SecondaryPlaces
<1>4. /\ IsFiniteSet(PrimaryPlaces(h)) /\ IsFiniteSet(SecondaryPlaces(h))
      /\ Cardinality(PrimaryPlaces(h)) \in Nat /\ Cardinality(SecondaryPlaces(h)) \in Nat
  BY <1>2, <1>3, FS_Subset, FS_CardinalityType
<1>5. Len(h) = Cardinality(PrimaryPlaces(h)) + Cardinality(SecondaryPlaces(h)) - 0
  <2>1. Cardinality(PrimaryPlaces(h) \union SecondaryPlaces(h)) =
          Cardinality(PrimaryPlaces(h)) + Cardinality(SecondaryPlaces(h))
            - Cardinality(PrimaryPlaces(h) \intersect SecondaryPlaces(h))
    BY <1>4, FS_Union
  <2>2. Cardinality(PrimaryPlaces(h) \intersect SecondaryPlaces(h)) = 0
    BY <1>3, FS_EmptySet, Zenon
  <2> QED
    BY <1>2, <1>3, <2>1, <2>2
<1>6. SecondariesIn(h, Len(h)) = Cardinality(SecondaryPlaces(h))
  BY <1>1 DEF SecondariesIn, SecondaryPlaces
<1> QED
  BY <1>1, <1>4, <1>5, <1>6

\* The secondaries of an event are numbered in turn.
LEMMA SecondariesNumbered ==
    ASSUME NEW h \in Outcomes, NEW i \in DOMAIN h, h[i] = "secondary"
    PROVE  /\ SecondariesIn(h, i) \in 1..SecondariesIn(h, Len(h))
           /\ \A j \in DOMAIN h : j < i => SecondariesIn(h, j) < SecondariesIn(h, i)
<1> DEFINE Upto(j) == {k \in 1..j : h[k] = "secondary"}
<1>1. DOMAIN h = 1..Len(h) /\ Len(h) \in Nat /\ i \in 1..Len(h)
  BY LinkAssumption
<1>2. ASSUME NEW j \in 0..Len(h)
      PROVE  IsFiniteSet(Upto(j)) /\ Cardinality(Upto(j)) \in Nat
  <2>1. IsFiniteSet(1..j)
    BY <1>1, FS_Interval
  <2> QED
    BY <2>1, FS_Subset, FS_CardinalityType
<1>3. ASSUME NEW j \in 0..Len(h), j < i PROVE Cardinality(Upto(j)) < Cardinality(Upto(i))
  <2>1. /\ IsFiniteSet(Upto(j) \union {i})
        /\ Cardinality(Upto(j) \union {i}) = Cardinality(Upto(j)) + 1
    <3>1. i \notin Upto(j)
      BY <1>1, <1>3
    <3> HIDE DEF Upto
    <3> QED
      BY <1>2, <3>1, FS_AddElement
  <2>2. Upto(j) \union {i} \subseteq Upto(i)
    BY <1>1, <1>3
  <2>3. Cardinality(Upto(j) \union {i}) <= Cardinality(Upto(i))
    <3> HIDE DEF Upto
    <3> QED
      BY <1>1, <1>2, <2>2, FS_Subset
  <2> HIDE DEF Upto
  <2> QED
    BY <1>1, <1>2, <2>1, <2>3
<1>4. Cardinality(Upto(i)) <= Cardinality(Upto(Len(h)))
  <2>1. Upto(i) \subseteq Upto(Len(h))
    BY <1>1
  <2> HIDE DEF Upto
  <2> QED
    BY <1>1, <1>2, <2>1, FS_Subset
<1>5. \A j \in 0..Len(h) : SecondariesIn(h, j) = Cardinality(Upto(j))
  BY DEF SecondariesIn
<1> HIDE DEF Upto
<1>6. Cardinality(Upto(0)) \in Nat /\ Cardinality(Upto(0)) < Cardinality(Upto(i))
  <2>1. 0 \in 0..Len(h) /\ 0 < i
    BY <1>1
  <2> QED
    BY <1>2, <1>3, <2>1
<1> QED
  BY <1>1, <1>2, <1>3, <1>4, <1>5, <1>6

\* The hits of an event have IDs that differ, and those of secondaries are new.
LEMMA NewHitsDiffer ==
    ASSUME PopulationInv, NEW p \in population, NEW h \in Outcomes
    PROVE  /\ \A i \in DOMAIN h :
                /\ NewHit(p, h, i) \in Particle
                /\ h[i] = "primary" => NewHit(p, h, i) = p
                /\ h[i] = "secondary" =>
                     /\ NewHit(p, h, i).id > maximumExternalParticleID
                     /\ NewHit(p, h, i).id
                          <= maximumExternalParticleID + SecondariesIn(h, Len(h))
                     /\ NewHit(p, h, i).parent = p.id
           /\ \A i, j \in DOMAIN h : NewHit(p, h, i).id = NewHit(p, h, j).id => i = j
<1> DEFINE m == maximumExternalParticleID
<1>1. /\ h \in Seq({"primary", "secondary"}) /\ DOMAIN h = 1..Len(h) /\ Len(h) \in Nat
      /\ \A i, j \in DOMAIN h : h[i] = "primary" /\ h[j] = "primary" => i = j
  BY LinkAssumption
<1>2. p \in Particle /\ m \in Nat /\ p.id \in Nat /\ p.id <= m
  BY DEF PopulationInv, Particle
<1>3. \A i \in DOMAIN h : h[i] \in {"primary", "secondary"}
  BY <1>1
<1>4. SecondariesIn(h, Len(h)) \in Nat
  BY PlacesAddUp
<1>5. ASSUME NEW i \in DOMAIN h
      PROVE  /\ h[i] = "primary" => NewHit(p, h, i) = p
             /\ h[i] = "secondary" =>
                  NewHit(p, h, i) = [id |-> m + SecondariesIn(h, i), parent |-> p.id]
  BY DEF NewHit
<1>6. ASSUME NEW i \in DOMAIN h, h[i] = "secondary"
      PROVE  /\ NewHit(p, h, i).id = m + SecondariesIn(h, i) /\ NewHit(p, h, i).parent = p.id
             /\ NewHit(p, h, i) \in Particle
             /\ SecondariesIn(h, i) \in 1..SecondariesIn(h, Len(h))
  BY <1>2, <1>4, <1>5, <1>6, SecondariesNumbered DEF Particle
<1>7. ASSUME NEW i \in DOMAIN h, NEW j \in DOMAIN h, j < i
      PROVE  NewHit(p, h, i).id # NewHit(p, h, j).id
  <2>1. CASE h[i] = "secondary" /\ h[j] = "secondary"
    <3>1. SecondariesIn(h, j) < SecondariesIn(h, i)
      BY <1>7, <2>1, SecondariesNumbered
    <3> QED
      BY <1>2, <1>4, <1>6, <2>1, <3>1
  <2>2. CASE h[i] = "secondary" /\ h[j] = "primary"
    BY <1>2, <1>4, <1>5, <1>6, <2>2
  <2>3. CASE h[i] = "primary" /\ h[j] = "secondary"
    BY <1>2, <1>4, <1>5, <1>6, <2>3
  <2> QED
    BY <1>1, <1>3, <1>7, <2>1, <2>2, <2>3
<1>8. \A i, j \in DOMAIN h : NewHit(p, h, i).id = NewHit(p, h, j).id => i = j
  BY <1>1, <1>7
<1>9. ASSUME NEW i \in DOMAIN h
      PROVE  /\ NewHit(p, h, i) \in Particle
             /\ h[i] = "secondary" => /\ NewHit(p, h, i).id > m
                                      /\ NewHit(p, h, i).id <= m + SecondariesIn(h, Len(h))
  BY <1>2, <1>3, <1>4, <1>5, <1>6
<1> QED
  BY <1>5, <1>6, <1>8, <1>9

\* As many places, further on.
LEMMA Shifted ==
    ASSUME NEW n \in Nat, NEW S, S \subseteq Nat, IsFiniteSet(S)
    PROVE  IsFiniteSet({n + i : i \in S}) /\ Cardinality({n + i : i \in S}) = Cardinality(S)
<1> DEFINE T == {n + i : i \in S}
           f == [i \in S |-> n + i]
<1>1. f \in Bijection(S, T)
  <2>1. f \in [S -> T]
    OBVIOUS
  <2>2. \A i, j \in S : f[i] = f[j] => i = j
    OBVIOUS
  <2>3. \A t \in T : \E i \in S : f[i] = t
    OBVIOUS
  <2> HIDE DEF f, T
  <2> QED
    BY <2>1, <2>2, <2>3 DEF Bijection, Injection, Surjection, IsInjective
<1> HIDE DEF f, T
<1> QED
  BY <1>1, FS_Bijection DEF ExistsBijection, T

\* The hits of a particle's event, put after those of the run so far.
LEMMA HitsKeep ==
    ASSUME IdInv, pc = "event", currentIndex < Len(particles),
           NEW h \in Outcomes, AppendHits(particles[currentIndex + 1], h),
           currentIndex' = currentIndex + 1, pc' = "event", UNCHANGED <<population, particles>>
    PROVE  IdInv'
<1> DEFINE p == particles[currentIndex + 1]
           n == Len(allHits)
           m == maximumExternalParticleID
           secondaries == SecondariesIn(h, Len(h))
           hits == [i \in 1..Len(h) |-> NewHit(p, h, i)]
<1>1. /\ h \in Seq({"primary", "secondary"}) /\ DOMAIN h = 1..Len(h) /\ Len(h) \in Nat
      /\ \A i \in DOMAIN h : h[i] = "primary" \/ h[i] = "secondary"
  BY LinkAssumption
<1>2. /\ particles \in Seq(population) /\ currentIndex \in Nat /\ Len(particles) \in Nat
      /\ \A i, j \in DOMAIN particles : particles[i] = particles[j] => i = j
      /\ DOMAIN particles = 1..Len(particles)
  BY DEF IdInv, BunchInv, InRun
<1>3. currentIndex + 1 \in 1..Len(particles) /\ p \in population
  BY <1>2
<1>4. ToSet(particles) \subseteq population
  BY <1>2 DEF ToSet
<1>5. /\ m \in Nat /\ population \subseteq Particle
      /\ \A q \in population : q.id \in Nat /\ q.id <= m
      /\ \A q, r \in population : q.id = r.id => q = r
  BY DEF IdInv, PopulationInv, Particle
<1>6. secondaries \in Nat
  BY PlacesAddUp
<1>7. /\ \A i \in DOMAIN h :
           /\ NewHit(p, h, i) \in Particle
           /\ h[i] = "primary" => NewHit(p, h, i) = p
           /\ h[i] = "secondary" => /\ NewHit(p, h, i).id > m
                                    /\ NewHit(p, h, i).id <= m + secondaries
                                    /\ NewHit(p, h, i).parent = p.id
      /\ \A i, j \in DOMAIN h : NewHit(p, h, i).id = NewHit(p, h, j).id => i = j
  BY <1>3, NewHitsDiffer DEF IdInv
<1>8. /\ allHits \in Seq(Particle) /\ n \in Nat /\ DOMAIN allHits = 1..n
      /\ \A k \in 1..n : allHits[k] \in Particle
      /\ \A j, k \in 1..n : allHits[j].id = allHits[k].id => j = k
      /\ \A k \in 1..n : Old(k) \/ New(k)
  BY DEF IdInv, HitsInv
<1>9. /\ allHits' = allHits \o hits /\ maximumExternalParticleID' = m + secondaries
      /\ returned' = [primaries |-> returned.primaries + Len(h) - secondaries,
                      secondaries |-> returned.secondaries + secondaries]
  BY DEF AppendHits
<1>10. /\ hits \in Seq(Particle) /\ Len(hits) = Len(h)
       /\ \A i \in 1..Len(h) : hits[i] = NewHit(p, h, i)
  BY <1>1, <1>7
<1> HIDE DEF hits, p, n, m, secondaries
<1>11. /\ allHits' \in Seq(Particle) /\ DOMAIN allHits' = 1..n + Len(h)
       /\ \A k \in 1..n : allHits'[k] = allHits[k]
       /\ \A i \in 1..Len(h) : allHits'[n + i] = NewHit(p, h, i)
  <2>1. /\ allHits \o hits \in Seq(Particle)
        /\ DOMAIN (allHits \o hits) = 1..Len(allHits) + Len(hits)
        /\ \A k \in 1..Len(allHits) : (allHits \o hits)[k] = allHits[k]
        /\ \A i \in 1..Len(hits) : (allHits \o hits)[Len(allHits) + i] = hits[i]
    <3>1. allHits \in Seq(Particle) /\ hits \in Seq(Particle)
      BY <1>8, <1>10
    <3> QED
      BY <3>1
  <2>2. Len(allHits) + Len(hits) = n + Len(h)
    BY <1>10 DEF n
  <2>3. \A i \in 1..Len(h) : (allHits \o hits)[n + i] = NewHit(p, h, i)
    BY <1>10, <2>1 DEF n
  <2> QED
    BY <1>9, <2>1, <2>2, <2>3, Zenon DEF n
<1>12. \A k \in 1..n + Len(h) : k \in 1..n \/ \E i \in 1..Len(h) : k = n + i
  <2> SUFFICES ASSUME NEW k \in 1..n + Len(h), k \notin 1..n PROVE \E i \in 1..Len(h) : k = n + i
    OBVIOUS
  <2>1. k - n \in 1..Len(h) /\ k = n + (k - n)
    BY <1>1, <1>8
  <2> QED
    BY <2>1
<1>13. PopulationInv'
  <2>1. m + secondaries \in Nat /\ \A q \in population : q.id <= m + secondaries
    BY <1>5, <1>6
  <2> QED
    BY <1>5, <1>9, <2>1 DEF PopulationInv
<1>14. BunchInv'
  BY <1>2, <1>3 DEF BunchInv
<1>15. \A k \in 1..n : /\ Old(k) => allHits[k] \in ToSet(particles) /\ allHits[k] # p
                       /\ New(k) => allHits[k].id # p.id /\ allHits[k].id <= m
                       /\ allHits[k].id # p.id /\ allHits[k].id <= m
  <2> SUFFICES ASSUME NEW k \in 1..n
               PROVE  /\ Old(k) => /\ allHits[k] \in ToSet(particles) /\ allHits[k] # p
                                   /\ allHits[k].id # p.id /\ allHits[k].id <= m
                      /\ New(k) => allHits[k].id # p.id /\ allHits[k].id <= m
    BY <1>8
  <2>1. ASSUME NEW i \in 1..currentIndex, allHits[k] = particles[i]
        PROVE  /\ allHits[k] \in ToSet(particles) /\ allHits[k] # p
               /\ allHits[k].id # p.id /\ allHits[k].id <= m
    <3>1. i \in DOMAIN particles /\ i # currentIndex + 1 /\ currentIndex + 1 \in DOMAIN particles
      BY <1>2, <1>3
    <3>2. allHits[k] \in ToSet(particles) /\ allHits[k] # p
      BY <1>2, <2>1, <3>1 DEF p, ToSet
    <3> QED
      BY <1>3, <1>4, <1>5, <3>2
  <2>2. New(k) => allHits[k].id # p.id /\ allHits[k].id <= m
    BY <1>3 DEF New, Ids, m
  <2> QED
    BY <2>1, <2>2 DEF Old
<1>16. \A j, k \in 1..n + Len(h) : allHits'[j].id = allHits'[k].id => j = k
  <2>1. ASSUME NEW j \in 1..n, NEW i \in 1..Len(h) PROVE allHits'[j].id # allHits'[n + i].id
    <3>1. allHits'[j].id \in Nat /\ allHits'[j].id # p.id /\ allHits'[j].id <= m
      BY <1>8, <1>11, <1>15 DEF Particle
    <3>2. allHits'[n + i].id \in Nat /\ (allHits'[n + i].id = p.id \/ allHits'[n + i].id > m)
      BY <1>1, <1>7, <1>11 DEF Particle
    <3> QED
      BY <1>5, <3>1, <3>2
  <2>2. \A j, k \in 1..n : allHits'[j].id = allHits'[k].id => j = k
    BY <1>8, <1>11
  <2>3. \A i, j \in 1..Len(h) : allHits'[n + i].id = allHits'[n + j].id => n + i = n + j
    BY <1>1, <1>7, <1>11
  <2> QED
    BY <1>12, <2>1, <2>2, <2>3
<1>17. \A k \in 1..n : Old(k)' \/ New(k)'
  <2> SUFFICES ASSUME NEW k \in 1..n PROVE Old(k)' \/ New(k)'
    OBVIOUS
  <2>1. allHits'[k] = allHits[k] /\ allHits[k].id \in Nat
    BY <1>8, <1>11 DEF Particle
  <2>2. Old(k) => Old(k)'
    BY <1>2, <2>1 DEF Old
  <2>3. New(k) => New(k)'
    BY <1>5, <1>6, <1>9, <2>1 DEF New, m
  <2> QED
    BY <1>8, <2>2, <2>3
<1>18. ASSUME NEW k, NEW i \in 1..Len(h), k = n + i PROVE Old(k)' \/ New(k)'
  <2>1. CASE h[i] = "primary"
    <3>1. allHits'[k] = p
      BY <1>1, <1>7, <1>11, <1>18, <2>1
    <3>2. allHits'[k] = particles'[currentIndex + 1]
      BY <3>1 DEF p
    <3>3. currentIndex + 1 \in 1..currentIndex'
      BY <1>2
    <3> QED
      BY <3>2, <3>3 DEF Old
  <2>2. CASE h[i] = "secondary"
    <3>1. /\ allHits'[k].id \in Nat /\ allHits'[k].id > m
          /\ allHits'[k].id <= maximumExternalParticleID' /\ allHits'[k].parent = p.id
      <4>1. allHits'[k] = NewHit(p, h, i)
        BY <1>11, <1>18
      <4>2. i \in DOMAIN h
        BY <1>1
      <4>3. NewHit(p, h, i).id \in Nat
        BY <1>7, <4>2 DEF Particle
      <4> QED
        BY <1>7, <1>9, <2>2, <4>1, <4>2, <4>3, Zenon
    <3>2. allHits'[k].id \notin Ids(population')
      BY <1>5, <3>1 DEF Ids
    <3>3. p \in ToSet(particles')
      BY <1>2, <1>3 DEF p, ToSet
    <3> QED
      BY <3>1, <3>2, <3>3 DEF New, Ids
  <2> QED
    BY <1>1, <2>1, <2>2
<1>19. HitsInv'
  <2>1. \A k \in DOMAIN allHits' : Old(k)' \/ New(k)'
    <3> SUFFICES ASSUME NEW k \in 1..n + Len(h) PROVE Old(k)' \/ New(k)'
      BY <1>11
    <3> QED
      BY <1>12, <1>17, <1>18
  <2> QED
    BY <1>11, <1>16, <2>1 DEF HitsInv
<1>20. /\ OldHits' = OldHits \union {n + i : i \in PrimaryPlaces(h)}
       /\ NewHits' = NewHits \union {n + i : i \in SecondaryPlaces(h)}
  <2>1. \A i \in 1..Len(h) : allHits'[n + i] \in ToSet(particles) <=> h[i] = "primary"
    <3> SUFFICES ASSUME NEW i \in 1..Len(h)
                 PROVE  allHits'[n + i] \in ToSet(particles) <=> h[i] = "primary"
      OBVIOUS
    <3>1. CASE h[i] = "primary"
      <4>1. p \in ToSet(particles)
        BY <1>2, <1>3 DEF p, ToSet
      <4> QED
        BY <1>1, <1>7, <1>11, <3>1, <4>1
    <3>2. CASE h[i] = "secondary"
      BY <1>1, <1>4, <1>5, <1>7, <1>11, <3>2
    <3> QED
      BY <1>1, <3>1, <3>2
  <2>2. OldHits' = {k \in 1..n + Len(h) : allHits'[k] \in ToSet(particles)}
    BY <1>11 DEF OldHits
  <2>3. OldHits = {k \in 1..n : allHits[k] \in ToSet(particles)}
    BY <1>8 DEF OldHits
  <2>4. /\ PrimaryPlaces(h) = {i \in 1..Len(h) : h[i] = "primary"}
        /\ SecondaryPlaces(h) = {i \in 1..Len(h) : h[i] = "secondary"}
    BY <1>1 DEF PrimaryPlaces, SecondaryPlaces
  <2>5. OldHits' = OldHits \union {n + i : i \in PrimaryPlaces(h)}
    <3> SUFFICES ASSUME NEW k
                 PROVE  k \in OldHits' <=> k \in OldHits \/ \E i \in PrimaryPlaces(h) : k = n + i
      OBVIOUS
    <3>1. CASE k \in 1..n
      BY <1>1, <1>8, <1>11, <2>2, <2>3, <2>4, <3>1
    <3>2. ASSUME NEW i \in 1..Len(h), k = n + i
          PROVE  k \in OldHits' <=> k \in OldHits \/ \E j \in PrimaryPlaces(h) : k = n + j
      <4>1. k \in 1..n + Len(h) /\ k \notin 1..n
        BY <1>1, <1>8, <3>2
      <4>2. k \in OldHits' <=> i \in PrimaryPlaces(h)
        BY <2>1, <2>2, <2>4, <3>2, <4>1
      <4>3. \A j \in PrimaryPlaces(h) : k = n + j <=> j = i
        <5>1. \A j \in PrimaryPlaces(h) : j \in Int
          BY <1>1, <2>4
        <5> QED
          BY <1>8, <3>2, <5>1
      <4>4. k \notin OldHits
        BY <2>3, <4>1, Zenon
      <4> QED
        BY <3>2, <4>2, <4>3, <4>4, Zenon
    <3>3. CASE k \notin 1..n + Len(h)
      BY <1>1, <1>8, <2>2, <2>3, <2>4, <3>3
    <3> QED
      BY <1>12, <3>1, <3>2, <3>3
  <2>6. NewHits' = {k \in 1..n + Len(h) : allHits'[k] \notin ToSet(particles)}
    BY <1>11 DEF OldHits, NewHits
  <2>7. NewHits = {k \in 1..n : allHits[k] \notin ToSet(particles)}
    BY <1>8 DEF OldHits, NewHits
  <2>8. NewHits' = NewHits \union {n + i : i \in SecondaryPlaces(h)}
    <3> SUFFICES ASSUME NEW k
                 PROVE  k \in NewHits' <=> k \in NewHits \/ \E i \in SecondaryPlaces(h) : k = n + i
      OBVIOUS
    <3>1. CASE k \in 1..n
      BY <1>1, <1>8, <1>11, <2>4, <2>6, <2>7, <3>1
    <3>2. ASSUME NEW i \in 1..Len(h), k = n + i
          PROVE  k \in NewHits' <=> k \in NewHits \/ \E j \in SecondaryPlaces(h) : k = n + j
      <4>1. k \in 1..n + Len(h) /\ k \notin 1..n
        BY <1>1, <1>8, <3>2
      <4>2. k \in NewHits' <=> h[i] # "primary"
        BY <2>1, <2>6, <3>2, <4>1
      <4>3. h[i] # "primary" <=> i \in SecondaryPlaces(h)
        BY <1>1, <2>4
      <4>4. \A j \in SecondaryPlaces(h) : k = n + j <=> j = i
        <5>1. \A j \in SecondaryPlaces(h) : j \in Int
          BY <1>1, <2>4
        <5> QED
          BY <1>8, <3>2, <5>1
      <4>5. k \notin NewHits
        BY <2>7, <4>1, Zenon
      <4> QED
        BY <3>2, <4>2, <4>3, <4>4, <4>5, Zenon
    <3>3. CASE k \notin 1..n + Len(h)
      BY <1>1, <1>8, <2>4, <2>6, <2>7, <3>3
    <3> QED
      BY <1>12, <3>1, <3>2, <3>3
  <2> QED
    BY <2>5, <2>8
<1>21. ASSUME NEW S, S \subseteq 1..n, NEW T, T \subseteq 1..Len(h)
       PROVE  /\ Cardinality(S \union {n + i : i \in T}) = Cardinality(S) + Cardinality(T)
              /\ Cardinality(S) \in Nat
  <2>1. IsFiniteSet(S) /\ IsFiniteSet(T) /\ Cardinality(S) \in Nat /\ Cardinality(T) \in Nat
    <3>1. IsFiniteSet(1..n) /\ IsFiniteSet(1..Len(h))
      BY <1>1, <1>8, FS_Interval
    <3> QED
      BY <1>21, <3>1, FS_Subset, FS_CardinalityType
  <2>2. T \subseteq Nat
    BY <1>1, <1>21
  <2>3. IsFiniteSet({n + i : i \in T}) /\ Cardinality({n + i : i \in T}) = Cardinality(T)
    BY <1>8, <2>1, <2>2, Shifted
  <2>4. S \intersect {n + i : i \in T} = {}
    BY <1>1, <1>8, <1>21
  <2>5. Cardinality(S \union {n + i : i \in T}) =
          Cardinality(S) + Cardinality({n + i : i \in T})
            - Cardinality(S \intersect {n + i : i \in T})
    BY <2>1, <2>3, FS_Union
  <2> QED
    <3>1. Cardinality(S \intersect {n + i : i \in T}) = 0
      BY <2>4, FS_EmptySet
    <3> QED
      BY <2>1, <2>3, <2>5, <3>1
<1>22. CountInv'
  <2>1. OldHits \subseteq 1..n /\ NewHits \subseteq 1..n
    BY <1>8 DEF OldHits, NewHits
  <2>2. PrimaryPlaces(h) \subseteq 1..Len(h) /\ SecondaryPlaces(h) \subseteq 1..Len(h)
    BY <1>1 DEF PrimaryPlaces, SecondaryPlaces
  <2>3. /\ Cardinality(OldHits') = Cardinality(OldHits) + Cardinality(PrimaryPlaces(h))
        /\ Cardinality(OldHits) \in Nat
    BY <1>20, <1>21, <2>1, <2>2
  <2>4. /\ Cardinality(NewHits') = Cardinality(NewHits) + Cardinality(SecondaryPlaces(h))
        /\ Cardinality(NewHits) \in Nat
    BY <1>20, <1>21, <2>1, <2>2
  <2>5. /\ returned.primaries = Cardinality(OldHits)
        /\ returned.secondaries = Cardinality(NewHits)
    BY DEF IdInv, CountInv
  <2>6. /\ Cardinality(PrimaryPlaces(h)) = Len(h) - secondaries
        /\ Cardinality(SecondaryPlaces(h)) = secondaries
    BY PlacesAddUp DEF secondaries
  <2>7. /\ returned.primaries + Len(h) - secondaries = Cardinality(OldHits')
        /\ returned.secondaries + secondaries = Cardinality(NewHits')
    BY <1>1, <1>6, <2>3, <2>4, <2>5, <2>6
  <2> QED
    BY <1>9, <2>7, Zenon DEF CountInv
<1> QED
  BY <1>13, <1>14, <1>19, <1>22 DEF IdInv

LEMMA EventKeeps == ASSUME IdInv, Event PROVE IdInv'
<1>1. /\ pc = "event" /\ currentIndex < Len(particles) /\ currentIndex' = currentIndex + 1
      /\ UNCHANGED <<population, particles>>
  BY DEF Event
<1>2. CASE pc' = "exit" /\ UNCHANGED run
  BY <1>1, <1>2 DEF run, IdInv, PopulationInv, BunchInv, HitsInv, CountInv, InRun
<1>3. CASE UNCHANGED pc /\ \E h \in Outcomes : AppendHits(particles[currentIndex + 1], h)
  BY <1>1, <1>3, HitsKeep
<1> QED
  BY <1>2, <1>3 DEF Event

\* The hits handed back: those of the bunch had their IDs, the others' are new.
LEMMA TakeHitsKeeps == ASSUME IdInv, TakeHits PROVE IdInv'
<1>1. /\ pc = "event" /\ pc' = "idle" /\ UNCHANGED maximumExternalParticleID
      /\ population' = (population \ ToSet(particles)) \union ToSet(allHits)
  BY DEF TakeHits, run
<1>2. /\ particles \in Seq(population) /\ allHits \in Seq(Particle)
      /\ currentIndex \in 0..Len(particles)
  BY <1>1 DEF IdInv, BunchInv, HitsInv, InRun
<1>3. ASSUME NEW k \in DOMAIN allHits
      PROVE  /\ allHits[k] \in Particle
             /\ allHits[k] \in population \/ allHits[k].id \notin Ids(population)
             /\ allHits[k].id <= maximumExternalParticleID
  <2>1. Old(k) \/ New(k)
    BY <1>1 DEF IdInv, HitsInv
  <2>2. Old(k) => allHits[k] \in population
    BY <1>2 DEF Old
  <2> QED
    BY <1>2, <2>1, <2>2 DEF New, IdInv, PopulationInv
<1>4. \A q \in population' :
         \/ q \in population
         \/ q.id \notin Ids(population) /\ \E k \in DOMAIN allHits : q = allHits[k]
  BY <1>1, <1>3 DEF ToSet
<1>5. \A q, r \in population' : q.id = r.id => q = r
  <2> SUFFICES ASSUME NEW q \in population', NEW r \in population', q.id = r.id PROVE q = r
    OBVIOUS
  <2>1. CASE q \in population \/ r \in population
    BY <1>4, <2>1 DEF IdInv, PopulationInv, Ids
  <2>2. CASE q \notin population /\ r \notin population
    BY <1>1, <1>4, <2>2 DEF IdInv, HitsInv
  <2> QED
    BY <2>1, <2>2
<1>6. population' \subseteq Particle /\ \A q \in population' : q.id <= maximumExternalParticleID
  BY <1>1, <1>3, <1>4 DEF IdInv, PopulationInv
<1> QED
  BY <1>1, <1>5, <1>6 DEF IdInv, PopulationInv, BunchInv, HitsInv, CountInv, InRun

LEMMA AddParticleKeeps == ASSUME IdInv, AddParticle PROVE IdInv'
<1>1. /\ pc = "filling" /\ pc' = pc
      /\ UNCHANGED <<population, currentIndex, maximumExternalParticleID>>
  BY DEF AddParticle, run
<1>2. PICK p \in population \ ToSet(particles) : particles' = Append(particles, p)
  BY DEF AddParticle
<1>3. /\ particles \in Seq(population) /\ currentIndex = 0
      /\ \A i, j \in DOMAIN particles : particles[i] = particles[j] => i = j
      /\ \A i \in DOMAIN particles : particles[i] # p
  BY <1>1, <1>2 DEF IdInv, BunchInv, InRun, ToSet
<1>4. /\ particles' \in Seq(population)
      /\ \A i, j \in DOMAIN particles' : particles'[i] = particles'[j] => i = j
  BY <1>2, <1>3
<1>5. currentIndex' \in 0..Len(particles')
  BY <1>1, <1>3, <1>4
<1> QED
  BY <1>1, <1>3, <1>4, <1>5 DEF IdInv, PopulationInv, BunchInv, HitsInv, CountInv

\* The hits are counted from none at the beginning of a run.
LEMMA BeginOfRunActionKeeps == ASSUME IdInv, BeginOfRunAction PROVE IdInv'
<1>1. /\ pc = "selected" /\ pc' = "event" /\ allHits' = <<>>
      /\ returned' = [primaries |-> 0, secondaries |-> 0]
      /\ UNCHANGED <<population, particles, currentIndex, maximumExternalParticleID>>
  BY DEF BeginOfRunAction, bunch
<1>2. OldHits' = {} /\ NewHits' = {}
  BY <1>1 DEF OldHits, NewHits
<1>3. Cardinality(OldHits') = 0 /\ Cardinality(NewHits') = 0
  BY <1>2, FS_EmptySet
<1>4. CountInv'
  BY <1>1, <1>3 DEF CountInv
<1>5. HitsInv'
  BY <1>1 DEF HitsInv
<1> QED
  BY <1>1, <1>4, <1>5 DEF IdInv, PopulationInv, BunchInv, InRun

LEMMA ClearKeeps == ASSUME IdInv, Clear PROVE IdInv'
<1>1. /\ pc' = "filling" /\ particles' = <<>> /\ currentIndex' = 0
      /\ UNCHANGED <<population, maximumExternalParticleID>>
  BY DEF Clear
<1>2. <<>> \in Seq(population) /\ Len(<<>>) = 0
  OBVIOUS
<1> QED
  BY <1>1, <1>2 DEF IdInv, PopulationInv, BunchInv, HitsInv, CountInv, InRun

LEMMA OutsideRunKeeps ==
    ASSUME IdInv, NEW n \in Names, AddLinkCollimatorJaw(n) \/ AskLength(n) PROVE IdInv'
<1>1. /\ pc' = "idle" \/ pc' = "exit"
      /\ UNCHANGED <<population, maximumExternalParticleID>>
  BY DEF AddLinkCollimatorJaw, AskLength, run
<1> QED
  BY <1>1 DEF IdInv, PopulationInv, BunchInv, HitsInv, CountInv, InRun

LEMMA SelectKeeps == ASSUME IdInv, NEW n \in Names, SelectLinkElement(n) PROVE IdInv'
  BY DEF SelectLinkElement, bunch, run, IdInv, PopulationInv, BunchInv, HitsInv, CountInv, InRun

LEMMA StutterKeeps == ASSUME IdInv, UNCHANGED vars PROVE IdInv'
  BY DEF vars, bunch, run, IdInv, PopulationInv, BunchInv, HitsInv, CountInv, InRun,
         Old, New, OldHits, NewHits

LEMMA IdsInitially == Init => IdInv
<1> SUFFICES ASSUME Init PROVE IdInv
  OBVIOUS
<1>1. PICK b \in Beams : /\ population = [id : b, parent : {0}]
                         /\ maximumExternalParticleID = CHOOSE m \in b : \A i \in b : i <= m
  BY DEF Init
<1>2. /\ b \subseteq Nat /\ maximumExternalParticleID \in b
      /\ \A i \in b : i <= maximumExternalParticleID
  BY <1>1, LinkAssumption
<1>3. PopulationInv
  <2>1. ASSUME NEW q \in population PROVE q \in Particle /\ q.id \in b
    <3>1. q \in [id : b, parent : {0}] /\ b \subseteq Nat
      BY <1>1, <1>2
    <3>2. q = [id |-> q.id, parent |-> q.parent] /\ q.id \in b /\ q.parent \in {0}
      BY <3>1, Zenon
    <3>3. q.id \in Nat /\ q.parent \in Nat
      <4>1. q.id \in Nat /\ q.parent = 0
        BY <3>1, <3>2, Zenon
      <4> QED
        BY <4>1
    <3>4. [id |-> q.id, parent |-> q.parent] \in Particle
      BY <3>3 DEF Particle
    <3> QED
      BY <3>2, <3>4, Zenon
  <2>2. \A q, r \in population : q.id = r.id => q = r
    BY <1>1
  <2> QED
    BY <1>2, <2>1, <2>2 DEF PopulationInv
<1>4. pc = "idle"
  BY DEF Init
<1> QED
  BY <1>3, <1>4 DEF IdInv, BunchInv, HitsInv, CountInv, InRun

\* The invariant of the IDs holds in every state (Init, and one lemma an action).
THEOREM IdInvariant == Spec => []IdInv
<1>1. IdInv /\ [Next]_vars => IdInv'
  <2> SUFFICES ASSUME IdInv, [Next]_vars PROVE IdInv'
    OBVIOUS
  <2> QED
    BY OutsideRunKeeps, SelectKeeps, ClearKeeps, AddParticleKeeps, BeginOfRunActionKeeps,
       EventKeeps, TakeHitsKeeps, StutterKeeps DEF Next
<1> QED
  BY IdsInitially, <1>1, PTL DEF Spec

\* No two particles of the other tracker have one ID, and what the hits of a run
\* are counted as is what they are (BDSLinkRunAction::AppendHits), for any number
\* of runs and particles.
THEOREM IdsStayUniqueTheorem == Spec => []IdsStayUnique
<1>1. IdInv => IdsStayUnique
  <2> SUFFICES ASSUME IdInv PROVE IdsStayUnique
    OBVIOUS
  <2>1. ASSUME pc = "event", NEW k \in NewHits PROVE New(k)
    <3>1. k \in DOMAIN allHits /\ allHits[k] \notin ToSet(particles)
      BY DEF NewHits, OldHits
    <3>2. ~Old(k)
      <4>1. particles \in Seq(population) /\ currentIndex \in 0..Len(particles)
        BY <2>1 DEF IdInv, BunchInv, InRun
      <4>2. 1..currentIndex \subseteq DOMAIN particles
        BY <4>1
      <4> QED
        BY <3>1, <4>2 DEF Old, ToSet
    <3> QED
      BY <2>1, <3>1, <3>2 DEF IdInv, HitsInv
  <2> QED
    BY <2>1 DEF IdInv, PopulationInv, HitsInv, CountInv, New, IdsStayUnique
<1> QED
  BY IdInvariant, <1>1, PTL
=============================================================================
