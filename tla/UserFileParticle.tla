-------------------------- MODULE UserFileParticle --------------------------
(***************************************************************************)
(* The particle of a userfile line: how BDSBunchUserFile decodes the       *)
(* energy and pdgid columns, and how the particle definition it keeps from *)
(* one event to the next takes part in that.  Which line an event gets is  *)
(* the business of UserFileBunch; here a line is any line.                 *)
(*                                                                         *)
(* Energies are integers in a unit of the instance's choice.  The columns  *)
(* of position, angle, time and weight have no state and are left out.     *)
(*                                                                         *)
(* No name here is one of UserFileBunch (hence ParticleInit, ParticleNext, *)
(* stage), so that one module of proofs can extend both.                   *)
(***************************************************************************)
EXTENDS Integers

CONSTANTS
    Species,        \* the particles the particle table knows
    Unknown,        \* a pdgid that it does not know
    Mass,           \* Species -> rest mass
    Hypot(_, _),    \* momentum and mass to total energy
    Formats,        \* the column formats: see FormatType
    Values,         \* the numbers found in an energy column
    BeamParticles   \* the particle, with its total energy, of the beam command

EnergyColumns == {"none", "E", "Ek", "P"}
FormatType == [column : EnergyColumns, pdgid : BOOLEAN]
Line == [species : Species \cup {Unknown}, value : Values]
Definition == [species : Species, energy : Nat]

NoDefinition == [species |-> Unknown, energy |-> 0]
NoEvent == [outcome |-> "none"]

ASSUME SpeciesAssumption ==
    /\ Unknown \notin Species
    /\ Mass \in [Species -> Nat]
    /\ Values \subseteq Int
    /\ Formats \subseteq FormatType
    /\ BeamParticles \subseteq Definition
    /\ \A b \in BeamParticles : b.energy > Mass[b.species]
    /\ \A s \in Species, p \in Values :
         p > 0 => Hypot(p, Mass[s]) \in Nat /\ Hypot(p, Mass[s]) > Mass[s]

VARIABLES
    format,         \* distrFileFormat, once parsed
    beam,           \* the beam's particle; its energy is E0
    definition,     \* BDSBunch::particleDefinition
    stage,          \* "idle" between runs, "run", or "crashed"
    event,          \* history: the last event, its line and the definition before it
    sinceLoss       \* history: an event was lost to its own rest mass, none delivered since

particleVars == <<format, beam, definition, stage, event, sinceLoss>>

-----------------------------------------------------------------------------
UsesEnergy == format.column # "none"

\* The three quantities as read from the line: those without a column are 0.
Column(name, l) == IF format.column = name THEN l.value ELSE 0

Rejected == 0

\* Fault: a kinetic energy is taken as the total energy.
TotalEnergyNoMass(m, E, Ek, P) ==
    IF E # 0 THEN (IF E > m THEN E ELSE Rejected)
    ELSE IF Ek # 0 THEN (IF Ek > m THEN Ek ELSE Rejected)
    ELSE IF P > 0 THEN Hypot(P, m) ELSE Rejected

\* Fault: a total energy is not compared with the mass.
TotalEnergyUnchecked(m, E, Ek, P) ==
    IF E # 0 THEN E
    ELSE IF Ek # 0 THEN (IF Ek > 0 THEN m + Ek ELSE Rejected)
    ELSE IF P > 0 THEN Hypot(P, m) ELSE Rejected

\* BDSParticleDefinition::SetEnergies on a particle of mass m: the total energy
\* of the first quantity that is not 0, or Rejected for an exception.
TotalEnergy(m, E, Ek, P) ==
    IF E # 0 THEN (IF E > m THEN E ELSE Rejected)
    ELSE IF Ek # 0 THEN (IF Ek > 0 THEN m + Ek ELSE Rejected)
    ELSE IF P > 0 THEN Hypot(P, m) ELSE Rejected

EnergyOf(s, E, l) == TotalEnergy(Mass[s], E, Column("Ek", l), Column("P", l))

\* The coordinate checks set the energy of the definition at hand, which is
\* still that of an earlier line.
ChecksCoordinates == UsesEnergy /\ definition # NoDefinition
Checked(l) == EnergyOf(definition.species, Column("E", l), l)

\* Fault: the energy before the checks is used.
EnergyVariableKept(l) == IF UsesEnergy THEN definition.energy ELSE beam.energy
\* The value of the variable E when they are done.
EnergyVariable(l) ==
    IF ChecksCoordinates THEN Checked(l)
    ELSE IF UsesEnergy THEN Column("E", l) ELSE beam.energy

PassesCheck(l) == ChecksCoordinates => Checked(l) # Rejected
Updated(l) ==
    IF ChecksCoordinates THEN [species |-> definition.species, energy |-> Checked(l)] ELSE definition

\* updateParticleDefinition || changingParticleType
Rebuilds == format.pdgid \/ (UsesEnergy /\ definition = NoDefinition)
SpeciesOf(l) == IF format.pdgid THEN l.species ELSE Unknown
Rebuilt(l) ==
    [species |-> SpeciesOf(l), energy |-> EnergyOf(SpeciesOf(l), EnergyVariable(l), l)]

\* Fault: the deleted definition stays in use.
AfterRejectionDangling(l) == Updated(l)
\* What follows on a rejection of the new definition: it is null.
AfterRejection(l) == NoDefinition

-----------------------------------------------------------------------------
ParticleInit ==
    /\ format \in Formats
    /\ beam \in BeamParticles
    /\ definition = beam
    /\ stage = "idle"
    /\ event = NoEvent
    /\ sinceLoss = FALSE

\* BDSRunAction::BeginOfRunAction reads through the bunch's particle definition.
BeginRun ==
    /\ stage = "idle"
    /\ stage' = IF definition = NoDefinition THEN "crashed" ELSE "run"
    /\ UNCHANGED <<format, beam, definition, event, sinceLoss>>

EndRun ==
    /\ stage = "run"
    /\ stage' = "idle"
    /\ UNCHANGED <<format, beam, definition, event, sinceLoss>>

Record(l, outcome) ==
    /\ event' = [outcome |-> outcome, line |-> l, before |-> definition, got |-> definition']
    /\ sinceLoss' = (outcome = "lost" \/ (sinceLoss /\ outcome # "delivered"))

\* The event is aborted before anything is decoded.
ShortLine ==
    /\ stage = "run"
    /\ event' = NoEvent
    /\ UNCHANGED <<format, beam, definition, stage, sinceLoss>>

\* The definition at hand cannot take the energy: it stays as it was.
RejectedByCheck(l) ==
    /\ ~PassesCheck(l)
    /\ UNCHANGED definition
    /\ Record(l, "rejected")

\* The definition at hand takes the energy and the pdgid is not known.
UnknownParticle(l) ==
    /\ PassesCheck(l) /\ Rebuilds /\ SpeciesOf(l) \notin Species
    /\ definition' = Updated(l)
    /\ Record(l, "unknown")

\* The definition at hand is deleted and the new one throws.
RejectedByNew(l) ==
    /\ PassesCheck(l) /\ Rebuilds /\ SpeciesOf(l) \in Species
    /\ Rebuilt(l).energy = Rejected
    /\ definition' = AfterRejection(l)
    /\ Record(l, "lost")

DeliverNew(l) ==
    /\ PassesCheck(l) /\ Rebuilds /\ SpeciesOf(l) \in Species
    /\ Rebuilt(l).energy # Rejected
    /\ definition' = Rebuilt(l)
    /\ Record(l, "delivered")

DeliverSame(l) ==
    /\ PassesCheck(l) /\ ~Rebuilds
    /\ definition' = Updated(l)
    /\ Record(l, "delivered")

\* GetNextParticleLocal from the columns on, for one event of a run.
Event ==
    /\ stage = "run"
    /\ \E l \in Line :
         \/ RejectedByCheck(l) \/ UnknownParticle(l) \/ RejectedByNew(l)
         \/ DeliverNew(l) \/ DeliverSame(l)
    /\ UNCHANGED <<format, beam, stage>>

Crashed == stage = "crashed" /\ UNCHANGED particleVars

ParticleNext == BeginRun \/ EndRun \/ ShortLine \/ Event \/ Crashed

ParticleSpec == ParticleInit /\ [][ParticleNext]_particleVars

-----------------------------------------------------------------------------
(***************************************************************************)
(* Properties.                                                             *)
(***************************************************************************)
\* The definition and the last event are well formed; an energy is never 0.
ParticleTypeOK ==
    /\ format \in Formats /\ beam \in BeamParticles
    /\ definition = NoDefinition
       \/ (definition \in Definition /\ definition.energy > Mass[definition.species])
    /\ stage \in {"idle", "run", "crashed"} /\ sinceLoss \in BOOLEAN
    /\ event.outcome \in {"none", "delivered", "rejected", "unknown", "lost"}

\* What the columns of a line say, read with no regard to any other line.
OwnSpecies(l) == IF format.pdgid THEN l.species ELSE beam.species
OwnEnergy(l) ==
    IF UsesEnergy THEN EnergyOf(OwnSpecies(l), Column("E", l), l)
    ELSE EnergyOf(OwnSpecies(l), beam.energy, l)
IsGood(l) == OwnSpecies(l) \in Species /\ OwnEnergy(l) # Rejected

\* The event has the particle and the energy its line gives, or is aborted
\* because the line gives none.
AsTheLineSays ==
    IF IsGood(event.line)
    THEN /\ event.outcome = "delivered"
         /\ event.got = [species |-> OwnSpecies(event.line),
                         energy  |-> OwnEnergy(event.line)]
    ELSE event.outcome # "delivered"

\* A userfile line alone decides the event it gives after a line of the same mass, after a line whose particle was
\* refused by its own rest mass, and with no energy or no pdgid column; a total
\* energy also after a lighter particle.
LineDecidesAtSameMass ==
    event # NoEvent =>
      \/ AsTheLineSays
      \/ /\ UsesEnergy /\ format.pdgid
         /\ event.before # NoDefinition
         /\ event.line.species \in Species =>
              LET previous == Mass[event.before.species]
                  own == Mass[event.line.species]
              IN IF format.column = "E" THEN previous > own ELSE previous # own

\* The column of kinetic energy gives that of the particle: "Ek | Kinetic energy"
\* (model_control.rst:1357).
KineticEnergyAsGiven ==
    event # NoEvent /\ event.outcome = "delivered" /\ format.column = "Ek" =>
      event.got.energy - Mass[event.got.species] = event.line.value

\* The checks of the coordinates were made with the mass of the event's own particle, or not at all.
MassKept ==
    event # NoEvent /\ event.outcome = "delivered" =>
      \/ event.before = NoDefinition
      \/ Mass[event.before.species] = Mass[event.got.species]

\* The event has the kinetic energy of its line wherever the definition kept from
\* the event before has its mass, or was deleted: the energy is then not read
\* twice, once as Ek and once more as the total energy it was made into.
KineticEnergyWhereMassKept == MassKept => KineticEnergyAsGiven

\* There is no particle definition from the loss of an event to its own rest
\* mass until the next event delivered, and at no other time: only then does
\* the start of another run read through a null pointer.
NoDefinitionExactlySinceLoss ==
    /\ definition = NoDefinition <=> sinceLoss
    /\ stage = "crashed" => sinceLoss
=============================================================================
