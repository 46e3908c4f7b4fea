---------------------------- MODULE SixTrackLink ----------------------------
(***************************************************************************)
(* BDSIM as a library under another tracker (BDSIMLink): collimator jaws   *)
(* are added one at a time, each with its own link ID; the other tracker   *)
(* selects a jaw by name, hands over the particles that hit it as a bunch, *)
(* runs one event for each and takes back what left the jaw, with the      *)
(* external particle IDs by which it knows its particles.                  *)
(*                                                                         *)
(* A component is its (0 based) position in the link's beam line.          *)
(***************************************************************************)
EXTENDS Integers, Sequences, FiniteSets, SequencesExt

CONSTANTS
    Names,        \* names of collimators
    Configs,      \* elements of the input file: sequences of names
    Beams,        \* the other tracker's first particles: sets of IDs
    Outcomes,     \* what may leave the jaw: sequences of "primary", "secondary"
    MaxJaws,      \* bound: jaws added
    MaxVisits,    \* bound: runs
    MaxBunch,     \* bound: particles of a bunch
    Null          \* no hits collection

ASSUME LinkAssumption ==
    /\ Configs \subseteq Seq(Names)
    /\ \A b \in Beams : b \subseteq Nat \ {0} /\ \E m \in b : \A i \in b : i <= m
    /\ Outcomes \subseteq Seq({"primary", "secondary"})
    /\ \A h \in Outcomes : \A i, j \in DOMAIN h :     \* the primary leaves once
          h[i] = "primary" /\ h[j] = "primary" => i = j
    /\ MaxJaws \in Nat /\ MaxVisits \in Nat /\ MaxBunch \in Nat \ {0}

VARIABLES
    cfg,                    \* names of the elements in the input file
    beamline,               \* linkBeamline: names of the components
    numberOfEntries,        \* entries of the sampler registry
    byID, byName,           \* BDSLinkRegistry: the component of an ID, of a name
    nameToElementIndex,     \* of the construction
    linkIDToBeamlineIndex,  \* of the construction
    link,                   \* BDSIMLink's own copies of those two maps
    currentElementIndex,    \* the link ID selected
    population,             \* the other tracker's particles
    particles,              \* the bunch
    currentIndex,           \* the next particle of the bunch
    allHits,                \* what left the jaw in this run, or Null
    returned,               \* nPrimariesToReturn, nSecondariesToReturn
    maximumExternalParticleID,
    visits,
    pc

geometry == <<cfg, beamline, numberOfEntries, byID, byName,
              nameToElementIndex, linkIDToBeamlineIndex>>
run == <<allHits, returned, maximumExternalParticleID>>
bunch == <<particles, currentIndex>>
vars == <<geometry, link, currentElementIndex, population, bunch, run, visits, pc>>

-----------------------------------------------------------------------------
(* Geometry *)

\* An element of the input file has an output sampler only; a jaw gets one
\* more sampler, "_in", in the sampler world.
SamplersOfJaw == 2

\* PlaceOutputSampler: the sampler's number in the registry is the link ID.
NewID == numberOfEntries

\* Fault: the size, which is past the end.
PastLastIndex(bl) == Len(bl)
\* linkBeamline->size() - 1 after AddComponent.
LastIndex(bl) == Len(bl) - 1

\* Construct: an element is entered under its beam line index and then, when
\* it is placed, under its link ID; both are its position.
Construct(f) ==
    /\ cfg = f
    /\ beamline = f
    /\ numberOfEntries = Len(f)
    /\ byID = [i \in 0..Len(f) - 1 |-> i]
    /\ byName = [n \in ToSet(f) |-> CHOOSE i \in 0..Len(f) - 1 :
                    f[i + 1] = n /\ \A j \in i+2..Len(f) : f[j] # n]
    /\ nameToElementIndex = byName
    /\ linkIDToBeamlineIndex = <<>>

Init ==
    /\ \E f \in Configs : Construct(f)
    /\ link = [names |-> nameToElementIndex, indices |-> <<>>]
    /\ currentElementIndex = 0
    /\ \E b \in Beams :
         /\ population = [id : b, parent : {0}]
         \* SetCurrentMaximumExternalParticleID
         /\ maximumExternalParticleID = CHOOSE m \in b : \A i \in b : i <= m
    /\ particles = <<>> /\ currentIndex = 0
    /\ allHits = Null /\ returned = [primaries |-> 0, secondaries |-> 0]
    /\ visits = 0
    /\ pc = "idle"

\* A map with a value entered under a key.
Entered(f, x, v) == [y \in DOMAIN f \union {x} |-> IF y = x THEN v ELSE f[y]]

AddLinkCollimatorJaw(n) ==
    LET bl == Append(beamline, n) IN
    /\ pc = "idle"
    /\ Len(beamline) - Len(cfg) < MaxJaws
    /\ beamline' = bl
    /\ byID' = Entered(byID, NewID, Len(beamline))
    /\ byName' = Entered(byName, n, Len(beamline))
    /\ nameToElementIndex' = Entered(nameToElementIndex, n, NewID)
    /\ linkIDToBeamlineIndex' = Entered(linkIDToBeamlineIndex, NewID, LastIndex(bl))
    /\ numberOfEntries' = numberOfEntries + SamplersOfJaw
    /\ link' = [names |-> nameToElementIndex', indices |-> linkIDToBeamlineIndex']
    /\ UNCHANGED <<cfg, currentElementIndex, population, bunch, run, visits, pc>>

GetLinkIndex(n) == IF n \in DOMAIN link.names THEN link.names[n] ELSE -1

\* GetChordLengthOfLinkElement, GetArcLengthOfLinkElement: operator[] of the
\* map makes an entry 0 for an ID it has not got.
WithEntry(id) ==
    IF id \in DOMAIN link.indices THEN link.indices ELSE Entered(link.indices, id, 0)
ComponentAsked(n) == WithEntry(GetLinkIndex(n))[GetLinkIndex(n)]

\* There is no first component in an empty beam line: at() throws.
AskLength(n) ==
    /\ pc = "idle"
    /\ link' = [link EXCEPT !.indices = WithEntry(GetLinkIndex(n))]
    /\ pc' = IF ComponentAsked(n) < Len(beamline) THEN pc ELSE "exit"
    /\ UNCHANGED <<geometry, currentElementIndex, population, bunch, run, visits>>

-----------------------------------------------------------------------------
(* Runs *)

\* The other tracker clears what the last run left: ClearSamplerHits,
\* ClearParticles.
Clear ==
    /\ pc = "idle" /\ visits < MaxVisits
    /\ allHits' = Null
    /\ particles' = <<>> /\ currentIndex' = 0
    /\ pc' = "filling"
    /\ UNCHANGED <<geometry, link, currentElementIndex, population, returned,
                   maximumExternalParticleID, visits>>

\* The particles that hit the jaw, each once.
AddParticle ==
    /\ pc = "filling" /\ Len(particles) < MaxBunch
    /\ \E p \in population \ ToSet(particles) : particles' = Append(particles, p)
    /\ UNCHANGED <<geometry, link, currentElementIndex, population, currentIndex,
                   run, visits, pc>>

SelectLinkElement(n) ==
    /\ pc = "filling" /\ particles # <<>>
    /\ currentElementIndex' = GetLinkIndex(n)
    /\ pc' = "selected"
    /\ UNCHANGED <<geometry, link, population, bunch, run, visits>>

\* BeamOn(Size()), up to the first event.
BeginOfRunAction ==
    /\ pc = "selected"
    /\ returned' = [primaries |-> 0, secondaries |-> 0]
    /\ allHits' = <<>>
    /\ pc' = "event"
    /\ UNCHANGED <<geometry, link, currentElementIndex, population, bunch,
                   maximumExternalParticleID, visits>>

SecondariesIn(h, i) == Cardinality({k \in 1..i : h[k] = "secondary"})
\* Fault: the ID is taken before the maximum is counted up.
HitWithOldMaximum(p, h, i) ==
    IF h[i] = "primary" THEN p
    ELSE [id |-> maximumExternalParticleID + SecondariesIn(h, i) - 1, parent |-> p.id]
\* What AppendHits makes of the hits h of the event of particle p: a primary
\* keeps its IDs, a secondary gets the next ID and p for its parent.
NewHit(p, h, i) ==
    IF h[i] = "primary" THEN p
    ELSE [id |-> maximumExternalParticleID + SecondariesIn(h, i), parent |-> p.id]

AppendHits(p, h) ==
    /\ allHits' = allHits \o [i \in 1..Len(h) |-> NewHit(p, h, i)]
    /\ maximumExternalParticleID' = maximumExternalParticleID + SecondariesIn(h, Len(h))
    /\ returned' = [primaries |-> returned.primaries + Len(h) - SecondariesIn(h, Len(h)),
                    secondaries |-> returned.secondaries + SecondariesIn(h, Len(h))]

\* GetNextParticleLocal, then the transform of the jaw selected: the registry
\* throws at an ID it does not know and BeamOn ends the program.
Event ==
    LET p == particles[currentIndex + 1] IN
    /\ pc = "event" /\ currentIndex < Len(particles)
    /\ currentIndex' = currentIndex + 1
    /\ \/ /\ currentElementIndex \notin DOMAIN byID
          /\ pc' = "exit"
          /\ UNCHANGED run
       \/ /\ currentElementIndex \in DOMAIN byID
          /\ \E h \in Outcomes : AppendHits(p, h)
          /\ UNCHANGED pc
    /\ UNCHANGED <<geometry, link, currentElementIndex, population, particles, visits>>

\* The other tracker replaces the particles it gave by those it gets.
TakeHits ==
    /\ pc = "event" /\ currentIndex = Len(particles)
    /\ population' = (population \ ToSet(particles)) \union ToSet(allHits)
    /\ visits' = visits + 1
    /\ pc' = "idle"
    /\ UNCHANGED <<geometry, link, currentElementIndex, bunch, run>>

Next ==
    \/ \E n \in Names : \/ AddLinkCollimatorJaw(n)
                        \/ AskLength(n)
                        \/ SelectLinkElement(n)
    \/ Clear
    \/ AddParticle
    \/ BeginOfRunAction
    \/ Event
    \/ TakeHits

Spec == Init /\ [][Next]_vars

-----------------------------------------------------------------------------
(* Properties *)

Jaws(n) == {i \in Len(cfg)..Len(beamline) - 1 : beamline[i + 1] = n}

\* However many jaws are added, under whatever names, and whatever lengths
\* were asked for in between: the name of a jaw leads to the link ID of the
\* last jaw of that name, which the registry and the map to the beam line
\* agree on (the particles start in front of the jaw whose length is told).
\* The name of an element of the input file with no jaw of its name leads to
\* the link ID of such an element.
\* BDSLinkDetectorConstruction::AddLinkCollimatorJaw, BDSIMLink::GetLinkIndex
NamesLeadToTheirJaw ==
    /\ \A n \in ToSet(beamline) :
         LET id == GetLinkIndex(n) IN
         IF Jaws(n) # {}
         THEN \A i \in Jaws(n) : /\ byID[id] >= i /\ byID[id] \in Jaws(n)
                                 /\ byName[n] = byID[id]
                                 /\ ComponentAsked(n) = byID[id]
         ELSE beamline[byID[id] + 1] = n
    /\ \A i, j \in DOMAIN byID : i # j => byID[i] # byID[j]
    /\ DOMAIN byID \subseteq 0..numberOfEntries - 1

Ids(s) == {p.id : p \in s}
\* The hits that are particles of the bunch come back, and the others.
OldHits == {k \in DOMAIN allHits : allHits[k] \in ToSet(particles)}
NewHits == DOMAIN allHits \ OldHits

\* The other tracker never meets two particles of one ID, over any number of
\* runs: those of a run's hits differ, a secondary's is no ID handed out
\* before, its parent is a particle of the bunch, and the counts of primaries
\* and secondaries say how many of each the hits hold.
\* BDSLinkRunAction::AppendHits
IdsStayUnique ==
    /\ \A p, q \in population : p.id = q.id => p = q
    /\ \A p \in population : p.id <= maximumExternalParticleID
    /\ pc = "event" =>
         /\ \A j, k \in DOMAIN allHits : allHits[j].id = allHits[k].id => j = k
         /\ \A k \in NewHits : /\ allHits[k].id \notin Ids(population)
                               /\ allHits[k].id <= maximumExternalParticleID
                               /\ allHits[k].parent \in Ids(ToSet(particles))
         /\ returned = [primaries |-> Cardinality(OldHits),
                        secondaries |-> Cardinality(NewHits)]

-----------------------------------------------------------------------------
(* What the header says, and the program does not do *)

\* "Access the length of a component. If bad name or ID given, -1 will be returned."
\* (BDSIMLink.hh:121): a length asked for by name is that of a component of the
\* name, and for a name that none has it is that of none.
LengthIsOfTheNamed ==
    [][\A n \in Names : AskLength(n) =>
         IF n \in ToSet(beamline)
         THEN beamline[ComponentAsked(n) + 1] = n
         ELSE ComponentAsked(n) \notin 0..Len(beamline) - 1]_vars
=============================================================================
