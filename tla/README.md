# A verification project for BDSIM

BDSIM builds a Geant4 model of an accelerator and tracks particles through it.
Most of it is numerical: geometry from lengths and angles, fields, integrators,
physics. What TLA+ can say something about is the discrete part that decides
*which* elements a beam line has, *which* primary particle an event gets, *how many*
events a run has, *what* is carried over from one event, turn, file or run to the
next, and *where* the results of an event are put. An error there is silent: the
simulation runs to its end with the wrong particle, or an output file lacks an event.

This directory models that part. The first two sections are the inventory and
the modules; then what the runs check, what is proved, the disagreements found
between the code and its documentation, and the plan.

## 1. Inventory

One thread runs a BDSIM program. There is no concurrency in the program except
a signal handler (`BDS::HandleAborts`); what makes it hard is *order*: callbacks
made by Geant4 (`BeginOfRunAction`, `GeneratePrimaries`, `EndOfEventAction`,
`EndOfRunAction`), events aborted by exceptions half way, state that outlives the
event or run it was made for, and settings (skip, ignore, loop, match,
recreate, files of n events) that are each simple and interact.

| Component | State | Operations | Hard behaviour | What makes it correct |
|---|---|---|---|---|
| **User file bunch** (`BDSBunchUserFile`, `BDSBunchFileBased`) | stream position and flags, number of valid lines, looping, events skipped, the particle definition of the last line | initialise, recreate, begin run, next particle, end of file | ignored, skipped, comment, bad and last lines; looping; recreation; a particle kept from line to line | event i gets the line it should; no event starved; a line alone decides its event |
| **Particle definition** (`BDSParticleDefinition`) | energies, momentum of a particle | construct, set energies | throws half way | energy above the rest mass |
| **Primary generator action** (`BDSPrimaryGeneratorAction`) | bunch or file generator, seed state | construct, generate primaries | aborts events and runs; recreation | one entry per event; a short run only at the end of a file |
| **Event file generators** (`BDSPrimaryGeneratorFile`, `...HEPMC`, `...Sampler`) | reader, index, end reached, events passed | construct, skip, recreate, generate vertex | filters; looping in or between events; match length | round robin service, all events counted, end of file ends the run |
| **Output** (`BDSOutput`, `BDSOutputROOT`, `BDSOutputStructures`) | file number, open file, header, histogram sets | new file, fill, close and open, close, fill run | file change in a run; several runs; aborted events; a kill | each event in one file; metadata in the right file; nothing overwritten |
| **Run and event actions, run manager** (`BDSRunAction`, `BDSEventAction`, `BDSRunManager`, `BDSIM`) | event and run numbers | begin/end of event and run, beam on, abort | aborted events skip callbacks; signals | order of output calls |
| **Turn control** (`BDSSDTerminator`, `BDSTerminatorUserLimits`, `BDSIntegratorTeleporter`, `BDSPTCOneTurnMap`, `BDSTrajectoryPrimary`) | turns taken, last event, scattered-this-turn flag, turns scattered, map's coordinates | step in terminator, stepper, set primary, append step, end of event | stepper called several times a step; static flag across events | the map is applied once per turn to unscattered primaries; so many turns and no more |
| **Trajectory selection and table** (`BDSEventAction::IdentifyTrajectoriesForStorage`, `BDSOutputROOTEventTrajectory`) | trajectories, per trajectory which filters chose it, the rows written and their indices | collect, filter, AND logic, connect to parents, fill, walk up | order of AND and connect; a map ordered by addresses; missing parents | what is stored is what the options say, parents included; rows refer to the right rows |
| **SixTrack link** (`BDSIMLink`, `BDSLink...`) | registry of elements, external particle IDs, hits | add collimator, select, add particle, run, collect | several maps kept in step | an element's name, ID and index agree; no two particles of one ID |
| **Parser and beam line expansion** (`parser.cc`, `fastlist.h`) | beam line list and name index | define, expand lines, cut to a range, attach samplers | index order against list order; nodes added while the list is gone through | expansion is the recursive substitution; a name and number mean one element |
| **Beam line and component construction, registries, samplers** | lists and maps filled once | add | names made unique | one component per name |
| **Other bunch distributions** | the random engine | next particle | none discrete | distributions |
| **Fields, integrators, physics, stacking, sensitive detectors** | Geant4 objects | per step and per track | none across tracks | numerical |
| **Analysis** (`rebdsim` and tools) | trees and histograms | load, loop, merge | sums over files | relies on the headers of the output |
| **Visualisation, user interface** | none of interest | | | |

How they interact:

```
BDSIM::BeamOn -> run manager -> BDSRunAction::BeginOfRunAction   (bunch: permit looping; output: NewFile)
                 per event:    BDSPrimaryGeneratorAction::GeneratePrimaries
                                   -> bunch GetNextParticleLocal | file generator GeneratePrimaryVertex
                                   an exception: the event is aborted and not processed
                               tracking (turn control)
                               BDSEventAction::EndOfEventAction  (trajectory selection;
                                   output: FillEvent, perhaps CloseAndOpenNewFile)
                 at the end:   BDSRunAction::EndOfRunAction      (output: FillRun, CloseFile)
a signal:        BDS::HandleAborts -> AbortEvent, AbortRun
```

## 2. The modules

| Module | Models | Composed with |
|---|---|---|
| `EventSource` | abstract: what a file of primaries promises | implemented by the two below |
| `UserFileBunch` | reading of a user file, with the primary generator action and the run loop | refines `EventSource` |
| `UserFileParticle` | the particle made of a line, and the definition kept between lines | refines nothing; any line may come next |
| `EventFileGenerator` | HepMC3 and sampler files, with the primary generator action and the run loop | refines `EventSource` |
| `OutputFiles` | naming, opening, changing and closing of output files, with run and event actions | |
| `TurnControl` | turns counted, particles stopped, the one-turn map, over tracks and events | |
| `TrajectoryStorage` | choice of trajectories, the table written, the walk up it | |
| `LineExpansion` | lines of lines turned into the beam line, samplers attached | |
| `SixTrackLink` | jaws, bunches and particle IDs under another tracker | |
| `OrderedSets` | the members of a set of numbers in order, and the elements of a sequence at given places | used by `UserFileBunch`, `OutputFiles`, `TrajectoryStorage`, `LineExpansion` |
| `*_proofs` | theorems and proofs; `UserFile_proofs` for `UserFileBunch` and `UserFileParticle`, one module each for `EventFileGenerator`, `OutputFiles`, `TurnControl`, `TrajectoryStorage`, `LineExpansion`, `SixTrackLink` | extend the modules they are about |
| `CommonLemmas` | least elements, division and modulo, turns taken in order, ranks and places | extended by the proofs that cite them |
| `MC*` | constants for TLC | |

Conventions. `cfg` (in `UserFileParticle`, `format` and `beam`) holds the options
a user gives; it is chosen in `Init` and never changes. `pc` is where the
program is. Variables marked *history* in a module record what happened and are
read by no guard. Definitions preceded by a comment `Fault:` are not used by the
specification: each is the next definition with a plausible mistake, kept so that
it can be shown that a property notices it (`mutants` in `PROJECT.json`).

### EventSource

`entries`, a `next` index and the list `served`. `Seek(k)` before anything is
served (skipping, recreation), `Serve` round robin. It says in three actions what
both readers are for: nothing left out, nothing twice in a pass.

### UserFileBunch

A file is a sequence of kinds of line: *data* (gives a particle), *bad* (its event
throws and is aborted), *blank* (empty or comment, `SkippableLine`). The stream is
`isOpen`, `pos` (lines consumed) and `eof`, standing for `eof() || fail()`, the
only test made. `EofAfter` and `GetLine` are `std::getline`: the read of an
unterminated last line sets the flag at once, the read after a terminated one
sets it and leaves an empty line.

| Action | Code |
|---|---|
| `Initialise`, `InitialiseFails` | `Initialise` with `CountNLinesValidDataInFile`, `OpenBunchFile`, `SkipNLinesIgnoreIntoFile`, `SkipNLinesSkip` |
| `ConstructNormally`, `ConstructRecreating`, `ConstructFails` | constructor of `BDSPrimaryGeneratorAction`, `RecreateAdvanceToEvent` |
| `BatchBeamOn`, `InteractiveBeamOn`, `Quit` | `BDSIM::BeamOn`, `BDSBunchFileBased::BeginOfRunAction` |
| `BeginEvent`, `GetLine`, `DecodeLine` | `GetNextParticleLocal`: each `getline` is a step |
| `EndOfFileAction` | `EndOfFileAction`: rewind and skip again when looping, or close and abort the event |

The return to the top and the read up to the first usable line happen in one
action (`OpenedAtStart`): between them nothing else can run.

### UserFileParticle

`BDSBunch::particleDefinition` outlives the event. A line of a file with an energy
column is first checked, and converted, with the definition of the *previous* line
(`ChecksCoordinates`), and only then is the new one built (`Rebuilds`), after the old
is deleted. `Rejected` is an exception of `SetEnergies`. The five disjuncts of
`Event` are the five ways `GetNextParticleLocal` ends. Energies are integers;
`Hypot` is the energy of a momentum and a mass, of which only that it exceeds the
mass is assumed. `BeginRun` reads the definition's name, as `BeginOfRunAction`
does, and crashes if there is none. The specification is `ParticleSpec`, and the place in
the program `stage`: the two user file modules share no name, so that one module of
proofs can extend both.

### EventFileGenerator

An entry passes or does not pass the filters. `index` is the current index, and for
a HepMC file the entries read since it was opened. The two kinds differ in how
they skip (`SkipEvents`: reading on, or putting the index), and in how they loop:
a sampler file goes round within the event (`LoopSampler`), a HepMC file takes an
event to be opened again (`LoopHEPMC`). `ReachEnd`, `EndRun` and `EmptyEvent` are
the three things an event can be when the file is at its end.
`CrashState` is a read through the reader that `CloseFile` has deleted.

### OutputFiles

`disk` maps names to contents, so that a file opened with a name in use replaces
what was there (ROOT's RECREATE). Of the trees of a file it keeps the events, the
last entry of the header, whether there are options, and the Run entry with its
histograms. `histSets` are the sets of histograms that every
`InitialiseGeometryDependent` adds to. `EndOfEvent` is `EndOfEventAction` from
`FillEvent` on, with the change of file. `AbortEvent` is an event the generator
aborted: `BDSRunManager::ProcessOneEvent` returns before processing it, so it
uses its number and reaches no callback. `ProcessEventWithSignal` is an event
during which `HandleAborts` is called, and `Kill` may come between any two events.

### TurnControl

One track at a time is followed round the ring: `ring` (anywhere but in the
teleporter), `teleporter`, and `stack` when it has ended and Geant4 takes the next
one, secondaries before the next primary. Coordinates are reduced to whose they are:
`StartOf(event, lap)` is where the primary of that event starts that lap, and the map
takes one to the next (`GetThisTurn`), as does the tracking (`UpdateCoordinates`).

| Action | Code |
|---|---|
| `GenerateEvent`, `AbortEvent` | `GeneratePrimaries` with `SetInitialPrimaryCoordinates`, and `BDSSDTerminator::Initialize` if the event is processed |
| `BeginTrack`, `EndEvent` | Geant4's stack; `BDSSDTerminator::EndOfEvent` |
| `Interact`, `LoseParticle` | `BDSTrajectoryPrimary::AppendStep` |
| `StopInTerminator`, `PassTerminator` | `BDSTerminatorUserLimits::GetUserMinEkine`, asked before `BDSSDTerminator::ProcessHits` counts |
| `StepperCall`, `LeaveTeleporter` | `BDSIntegratorTeleporter::Stepper`, `BDSPTCOneTurnMap`; Geant4 calls the stepper as often as it likes |

`laps`, `turnsThen` and `carried` of `track` are history.

### TrajectoryStorage

An `event` is a forest of tracks, what each matches, and the order of their
addresses, which is the order of every map in this code. `Identify`, `ApplyLogic` and
`ConnectNext` are the three parts of `IdentifyTrajectoriesForStorage`; `ConnectNext` is
one turn of the loop, since the loop changes the map it goes through. `AssignIndices`,
`AssignParents` and `FillRows` are the three passes of
`BDSOutputROOTEventTrajectory::Fill`. `AskHistory`, `HistoryStep` and `HistoryEnds` are
`processHistory`, one turn of its loop a step. A walk through more rows than there are
has its points no longer recorded, so that a loop of the code is a loop of the
state graph.

### LineExpansion

A file is a sequence of statements, each the call of the parser that it makes. A
`FastList` is a list of nodes, known by their addresses, and a map from names to nodes
in the order in which they were inserted. `InsertAll` and `EraseRange` are the loops over
`insert` and `erase` taken together, `Find` and `Positions` the search of the map. A node
new to a list is given a number that no node of it has, and perhaps one that a node erased
had. The `depth` of a node, how many lines it is nested in, is history.

| Action | Code |
|---|---|
| `DeclareComponent`, `DeclareLine`, `DeclareNewInstance` | `Parser::write_table` and its callers |
| `Use`, `ExpandSequence`, `ExpandNode`, `EndPass`, `KeepRange` | `Parser::expand_line`; one node, or the end of a pass, a step |
| `SampleInstances`, `SampleInstance`, `SampleAll` | `Parser::set_sampler` |

`Substituted` and `Levels` define what a line means without lists, index and passes: `Flat`
and `Height` are functions of a table of definitions, by the number of levels looked down.

### SixTrackLink

A component is its position in the beam line. `byID` and `byName` are the link
registry, `nameToElementIndex` and `linkIDToBeamlineIndex` the maps of the detector
construction, and `link` the copies of these that `BDSIMLink` keeps: all have to
agree after `AddLinkCollimatorJaw`. `AskLength` is a getter that changes state. In a
run (`Clear`, `AddParticle`, `SelectLinkElement`, `BeginOfRunAction`, `Event`, `TakeHits`) the
other tracker, of which only what the interface asks of it is assumed, hands over
particles and takes back what left the jaw; `AppendHits` numbers the secondaries.

## 3. What is checked

### Runs that pass

**`userfile`** (`UserFileBunch`, 771 662 states): every file of at most 3 lines in
which every line is data, bad or blank, with and without a final newline; 0 or 1
lines ignored; 0 or 1 skipped; 1 or 2 loops; looping and matching on and off; 1 to
3 events; batch, and interactive with up to 2 runs; recreation from events 1 to 3,
through either option.

- `EventsFollowFile`: event i of the program, whatever runs it is in, gets usable
  line `base + i` of the file repeated end to end, and only a bad line loses it.
- `NeverStarved`: the checks made before the run suffice; no event finds the file
  exhausted when looping is off.
- `RewindsOnlyAtEnd`: no return to the start with a usable line unread.
- `MatchedRunCoversFile`: a matched run reads each line once per loop, and the lines
  skipped are counted.
- `UncommentedRecreation`: where recreation works, it reads what the original did.
- `ProgramEnds`: the program ends, unless an event is asked of a looped file with no
  usable line.
- `ImplementsEventSource`: the refinement.

**`userfile_particle`** (`UserFileParticle`, 7 994 states): four species of
three masses (two of one mass, one massless), every format, energies below, between
and above the masses, zero and negative.

- `LineDecidesAtSameMass`: which lines alone decide their event: all but those
  after a line of another mass (with a total energy, of a heavier one).
- `KineticEnergyWhereMassKept`: the event has the `Ek` of its line wherever the mass is
  the one before, or there was no definition; the rest is `MCUserFileKinetic.cfg` below.
- `NoDefinitionExactlySinceLoss`: exactly when there is no definition, hence when
  the next run would crash.

**`event_file`** (`EventFileGenerator`, 183 415 states): files of 0 to 3 entries in
every pattern of passing and not; both kinds; 1 or 4 loops; skips of 0 to 5 and
offsets of 0, 1, 3 and 4, within a pass, at its end, and past it.

- `TypeOK`: besides the types, every event is counted: simulated, skipped, empty, or
  one of those the end of the file takes.
- `ImplementsEventSource`: the refinement.
- `MatchedRunReadsAll`: a matched run of a sampler file, or of a HepMC file read once,
  reads each entry once a loop; of a looped HepMC file see `MCEventFileLoops.cfg` below.
- `ShortRunOnlyAtEnd`: a run is short only at the end of its file, and the end takes
  two events at most.
- `CrashOnlyPastOnePass`: the null reader is reached only by asking to go further
  than one pass of a HepMC file.

**`output_files`** (`OutputFiles`, 184 752 states): 0 to 3 events per file, programs
of 1 to 5 events, interactive programs of two runs of 1 or 3, no files, a plain and a
numbered file, or two plain and a numbered one already there; at any event an abort,
a signal or a kill.

- `EveryEventInItsFile`: every event that was processed is written in one file, unless
  that file was replaced by one of its own name (`OverwritesItself`).
- `FilesHoldNPerFile`: in a run with no event aborted every file but the last has
  `nperfile` events, and the last has fewer.
- `KillLosesLessThanAFile`: a kill loses less than `nperfile` events of such a run.
- `HeadersAddUp`: what `HeaderAnalysis` relies on when it adds up files, and that the
  options are in each file once.
- `HistogramSetPerFile`: the sets of histograms there are, and which are written.
- `OldFilesKept`: with no name given no saved file changes, in either mode; with one see
  `MCOutputOverwrite.cfg` below.

**`turn_control`** (`TurnControl`, 96 415 states): three events of one to three turns;
a bunch that begins at the start of the ring, further on, or in its last metre, and
files of events of one or two primaries; with and without the map; up to two calls of
the stepper a crossing and two secondaries waiting.

- `TypeOK`: with the bounds of the turn counter.
- `StoppedAfterItsTurns`: after how many laps a particle is stopped, whatever the
  counter was when it began.
- `MapFollowsPrimary`: the map holds the coordinates where the primary goes on, and
  is applied on exactly which laps.
- `RepeatedCallsAgree`: calling the stepper again changes nothing.
- `TrackEnds`: a primary is stopped or lost, and once the turns are taken so is every
  particle.

**`trajectory_storage`** (`TrajectoryStorage`, 805 168 states): every forest of one to
three tracks, in every order of their addresses; filter sets of each kind, AND logic,
connecting; all points stored, or one, or one and the last.

- `StoredAsAsked`: the trajectories stored are those the options choose, closed under
  parents if they are to be connected, each once; but for AND logic with the filter
  whose option is not recorded, for which see `MCTrajectoryAndLogic.cfg` below.
- `RowsReferToParents`: the indices of a row refer to the row of the parent, the step on
  it and the step on the primary, where the parent is stored and, for the last, in an
  event of one primary, with the founder stored; the rest is in two configurations below.
- `HistoryIsAncestry`: a walk that ends, at a row 0 that is the ancestor, went through the ancestors and nothing else.
- `HistoryReturns`: the walk ends where row 0 is the ancestor, as `processHistory`
  takes it to be.

**`line_expansion`** (`LineExpansion`, 58 353 states): files that declare an element, a
marker and three lines of up to three entries in one another, forwards and reversed,
used whole or in part, with samplers; and files with lines in themselves, names
undeclared or declared twice, lines declared like others, and a tunnel.

- `TypeOK`: with every list in step with its index.
- `ExpandsToDefinition`: a line becomes what its definition says, level by level, and
  exactly which lines are refused as recursive.
- `InstancesByDepth`: which element the n-th of a name is: not the n-th along the line.
- `RangeKept`: a range leaves the line from the first occurrence of its start to the first
  of its end after it, where the index has the two names in the order of the line; the
  other lines are `MCLineRange.cfg` below.
- `SamplersBesideTheirNames`: where a sampler goes.

**`sixtrack_link`** (`SixTrackLink`, 383 747 states): input files of no, one and two
elements, two jaws of any names, two runs of up to two particles, lengths asked for
in between.

- `NamesLeadToTheirJaw`: the five maps agree on the name of every jaw, and the name of
  an element leads to such an element.
- `IdsStayUnique`: the other tracker never meets two particles of one ID, and the
  numbers returned are those of the hits.

Every property has a mutant: a definition of the model with a plausible mistake
under which the property is violated in the same run.

### Runs that show a disagreement

| Run | Property | What it shows |
|---|---|---|
| `recreate_executable` | `RecreationReproduces` | recreating with the executable options advances a user file twice (`parser/beam.cc:116` and `BDSPrimaryGeneratorAction.cc:78`): event N reads line 2N |
| `event_file_skip` | `SkipsAsManyAsAsked` | `nAvailable % nEventsToSkip` has its operands the wrong way round |
| `turn_first_lap` | `MappedOnUnscatteredLaps` | `hasScatteredThisTurn` is static and still set by the end of the primary of the event before: the first lap is not mapped |
| `trajectory_history` | `HistoryTerminates` | `processHistory` ends at row 0 only: from a trajectory that does not descend from the one there it goes round row 1 for ever |

### Claims that do not hold, beside properties that do

Some passing properties are restricted to the cases in which a sentence of the manual, of
a header or of a comment agrees with the code. The sentence itself is a definition too,
and violated. These configurations are not among the runs of `PROJECT.json`; each
is checked with `tlc -config <configuration> <module>`, with the constants of the passing
run of its component or a part of them, and ends with the counterexample.

| Configuration, module | Claim | What it shows |
|---|---|---|
| `MCUserFileKinetic.cfg`, `MCUserFileParticle` | `KineticEnergyAsGiven` | an `Ek` is made into a total energy with the mass of the particle of the line before (`BDSBunchUserFile.cc:588`): the kinetic energy of the event is off by the difference of the masses (`model_control.rst:1357`) |
| `MCEventFileLoops.cfg`, `MCEventFileGenerator` | `FileRepeatedNTimes` | each return to the start of a HepMC file takes one of the events, so that a matched run reads the last entries less often (`BDSPrimaryGeneratorFileHEPMC.cc:206`, `model_control.rst:1183, 1241`) |
| `MCOutputOverwrite.cfg`, `MCOutputFiles` | `NamedFileOverwritten` | a name that is given is overwritten in batch mode only (`BDSOutput.cc:422`, `output.rst:25-26`) |
| `MCTrajectoryAndLogic.cfg`, `MCTrajectoryStorage` | `OnlyThoseThatMeetAll` | whether `elossSRange` is set is asked under a misspelt name (`BDSGlobalConstants.cc:148`), so AND logic does not ask for it (`output.rst:250-251`) |
| `MCTrajectoryParentIndex.cfg`, `MCTrajectoryStorage` | `ParentIndexIsOfParent` | a row whose parent is not stored has parent index 1, the row of another (`BDSOutputROOTEventTrajectory.cc:105, 140`, `output.rst:1372`) |
| `MCTrajectoryPrimaryStep.cfg`, `MCTrajectoryStorage` | `PrimaryStepOfEveryPrimary` | `findPrimaryStepIndex` looks for track 1: what descends from a second primary has none (`BDSOutputROOTEventTrajectory.cc:61`, `output.rst:1379`) |
| `MCLineRange.cfg`, `MCLineExpansion` | `RangeByRule` | "first" is first in the index, where lines in lines come late: a range can begin at a later occurrence of its start (`parser.cc:440`, against the rule at 436) |
| `MCSixTrackLinkLength.cfg`, `MCSixTrackLink` | `LengthIsOfTheNamed` | the length of an unknown name, and of an element of the input file, is that of the first component, not -1 and not its own (`BDSIMLink.cc:471`, `BDSIMLink.hh:121`) |

Other behaviour that a user may not expect is what a passing property characterises: a
file that grows past `nperfile` when an aborted event falls on a multiple of it (the
restriction in `FilesHoldNPerFile`); a run of exactly `nperfile` events, which opens two
files of one name and with `--outfile` loses the first (`EveryEventInItsFile`); the second
run's entry, with the histograms of the first (`HistogramSetPerFile`); instances of a name
counted by depth (`InstancesByDepth`).

### The bounds

- *Length of a file* (`MaxLines`, `MaxEntries`: 3). The readers keep a position and
  compare it with the start and the end: first, middle and last are the places there
  are, and a file of three has one blank, one skipped and one data line in every
  order. The theorems lift the bound for both kinds of file.
- *Loops* (2, 4 for event files): the first pass, one more, and for HepMC files as many
  losses at a reopening as take a whole entry from a short file.
- *Runs* (`MaxRuns`: 2): what a run leaves behind meets its successor.
- *Events per file* (3) and *events* (5): two complete files and a part, or a whole
  number of files, or a run of exactly one file.
- *Idle passes* (`MaxIdlePasses`: 2): a looped file with no usable line is read round
  for ever. `CountPass` stops the counters there, not the code, so the loop is in
  the state graph as a loop and `ProgramEnds` sees it.
- *Turns* (3), *calls* (`MaxCalls`: 2), *secondaries waiting* (`MaxSecondaries`: 2): a first
  turn, one after an offset, and one more; a call and its repetition; for every number
  of each the theorems.
- *Tracks* (3) of three points: a primary with a descendant of the second generation,
  siblings, and two or three primaries. The table is wrong, where it can be, from two on.
- *Passes* (`MaxIterations`: 4 for 50 in the code), *length* (`MaxLength`: 12): the deepest
  line here that ends needs fewer passes; the others, whose length may double in a
  pass, reach the limit or run out of memory first (`reason`).
- *Jaws*, *runs*, *bunch* (`MaxJaws`, `MaxVisits`, `MaxBunch`: 2): the second jaw may have
  the name of the first, the second run the particles of the first. The theorems
  lift them.

### Fairness

`UserFileBunch` has `WF_vars(Step)`, `TurnControl` and `TrajectoryStorage` `WF_vars(Next)`. The
program, and the analysis, are one thread with no wait in the part modelled, so that
it goes on while it can is what an operating system gives; that it takes any one
step of several is not assumed. In `TurnControl` an endless track would go on with
the same steps: that a primary ends is due to the turns it has. The interactive user
is not made to quit by fairness, but `MaxRuns` bounds the runs, after which only `Quit`
is left. A file that cannot be read from any more, such as a pipe, is not modelled.

The other modules have safety properties only. Where the system stops only at its end
there is a step `Terminated` and deadlock is checked; in `LineExpansion` the program exits
on an error, and in `SixTrackLink` it exits or the other tracker has had its
runs, so there it is not.

## 4. What is proved

The proofs hold for every value of the constants that satisfies the assumptions, each
of which TLC evaluates in the runs: `ConfigAssumption` (options have their types, and
agree; the files already on a disk are finitely many), `BoundAssumption` (the bounds are
numbers), `EventAssumption` (trajectories have two points or more; a
track is numbered after its parent and begins at a point of it but the first; the
addresses have some order),
`SpeciesAssumption` (masses are natural numbers, the beam's particle has more
energy than its mass, and so has the energy of a positive momentum) and
`LinkAssumption` (the first particles have IDs with a largest; a primary leaves a jaw
once at most) and `FilesAssumption` (files are finite and hold statements the grammar lets
through; no name stands for the absence of one).

**`UserFile_proofs`**, on `UserFileBunch`: `TypeCorrect`, `NeverStarvedTheorem`,
`EventsFollowFileTheorem`, `RewindsOnlyAtEndTheorem`, for files of every length, all
options and any number of runs. None of the properties is inductive. The
invariant `IInv` adds

- `StreamInv`: the flag means the end of the file; the stream stands at or after
  `Start`, the place of the first usable line; a line held is the last one read;
- `NothingYet`: before the first run nothing has happened;
- `Accounted`: usable lines passed by the stream, over all passes, are those rolled
  over in recreating, those given to events, and the one held;
- `Enough`: with looping off there are as many usable lines left as events to come.

`Accounted` gives `EventsFollowFile` its step: the line decoded has the rank the
event's number asks for. `Enough` is what the checks of `Initialise` and of
`RecreateAdvanceToEvent` establish and each event uses up, and with it
`NeverStarved` follows: a stream at its end with nothing held has no lines left,
while an event is still to come. The lemmas under it count the valid lines of
a stretch of file (`NValidAdds`, `NValidNext`), and show that the place of the first
usable line is unique (`StartIsUnique`), so that every reopening returns to it.

`BooksTheorem` adds a second invariant, `BookInv`: a file of valid lines rolls over as
many as recreation asks for (`RolledInv`), a matched run has as many events as the file
has lines for it times the loops (`CountInv`), each pass skips the same number (`SkippedInv`),
and a line is held only while it is read (`LineInv`). From it and `IInv` follow `UncommentedRecreationTheorem`,
since a file of valid lines only has its n-th usable line in a known place, and
`MatchedRunCoversFileTheorem`, since of `n` times `L` events taken in turn from `n` lines
each line has just `L`. `ImplementsEventSourceTheorem` maps each
step to one of `EventSource`: a line decoded is `Serve`, what moves the stream before
the first event `Seek`, and the rest stutters. What it needs is that the line of rank n is the n-th of the sequence of usable
lines (`UsableInOrder`), which that sequence, defined by ranks, has for any finite set.

On `UserFileParticle`: `ParticleTypeCorrect`, `NullDefinitionAfterLoss`,
`LineDecidesTheorem`, `KineticEnergyTheorem`, for all species, masses and energies. The
invariant has three parts: the definition is null or sound (more energy than mass),
the beam's particle is kept while the format has no `pdgid` column, and the null
definition is exactly that of a loss. `LineDecidesTheorem` goes through
`SameMassEnergy`: the round trip of an energy through the old definition is the
identity where the masses agree.

**`EventFileGenerator_proofs`**: `TypeCorrect`, `ShortRunOnlyAtEndTheorem`,
`CrashOnlyPastOnePassTheorem`, for files of every length, every pattern of passing, skip
and offset. The invariant: `Counts`, the numbers of events of each outcome add up to the
events; `FileInv`, a looped file is at its end only with nothing passed; `BatchInv`,
events so far and to come are those asked for, and the end of the file takes one event
`atEnd` and one `endRun`. `EventAdded` says what an appended event does to the six
counts. That the reader is read after its deletion only past one pass needs that
the remainder of the skip is less than half of the file (`SmallRemainder`).

`ImplementsEventSourceTheorem` is the refinement, from where the reader stands between
the events (`PlaceTheorem`). `TurnsTheorem` is the invariant of a run that matches its file:
event i reads the entry whose turn it is among the entries and, for a HepMC file, the
reopening (`InTurn`). Counting the turns gives `MatchedRunReadsAllTheorem`: where no turn is
a reopening, of `n` times `L` turns each entry has `L`.

**`OutputFiles_proofs`**: `TypeCorrect` and `OldFilesKeptTheorem`, for any options, files and
number of runs. `Disk` says what a disk is, finitely many files of proper contents,
and `OpenInv` that this program's files are saved but for the open one. That there is a
free name to take (`NewName`) is that a finite set of files cannot have all numbers
(`FreeCopy`), and that of those free there is a least one (`MinIsIn`).

`FilesInvariant` is about what is in the files, by their numbers: no two
files have a number in common, and the open one has the highest (`NumberInv`); the file of every number is
there, unless the program has but one name for them all (`NameInv`);
an event logged came before the next (`LogInv`); the file of number n holds
the events logged for n, in order, and so does its set of histograms (`EventsInv`); the open
file holds the remainder, by `nperfile`, of the events the run has got to, and those closed
before it `nperfile` (`CountInv`, with no event aborted); the last file of a run has its Run
entry and the first the options (`HeaderInv`).
`EveryEventInItsFileTheorem`, `FilesHoldNPerFileTheorem`, `HeadersAddUpTheorem`,
`HistogramSetPerFileTheorem` and `KillLosesLessThanAFileTheorem` follow from `IInv` and it,
for any number of events per file, of events, of runs and of files already there.

**`TurnControl_proofs`**: `TypeCorrect`, `StoppedAfterItsTurnsTheorem`,
`MapFollowsPrimaryTheorem`, `RepeatedCallsAgreeTheorem`, for any number of turns,
primaries, secondaries and calls. `CountInv` bounds the counter by the primaries
tracked; `LapInv` relates it to the laps of the particle, in the ring and in the
teleporter; `KeptInv` says what the map's four pieces of state are before, in and
after a crossing; `CallInv` that another call would do what the last did.

**`TrajectoryStorage_proofs`**: `StoredAsAskedTheorem`, `RowsReferToParentsTheorem`,
`HistoryIsAncestryTheorem`, for events of any number of tracks, in any order of addresses,
and all options. The first two are restrictions of what is shown of the code without any
(`StoredAsSelected`, `RowsFilled`), which has the values for a row that is not stored and
the filters as the code asks for them. Ancestors, depth and the indices of a table are recursive functions over parents. That
they are defined (`RecursionOverParents`) is proved as an induction without its scheme: were
a fact false of some track, there would be a least such track, and its parent comes
before it (`InductionOverParents`). `ChoiceInv` says what the loop that connects has done when
it has reached a place of the map: the chosen tracks before it have all their ancestors
marked, and nothing is marked that is not asked for. `IndexInv` says the same of the
three passes that fill the table, and `FindEquation` what the search for a primary
returns, stored ancestors or not. `WalkInv` has a walk at an ancestor of the
track asked for, with as many points recorded as it has gone up.

**`LineExpansion_proofs`**: `LineTypeCorrect`, `SamplersCorrect`, `RangeCorrect`,
`InstancesCorrect` and `ExpansionCorrect`, for all files, any lines in lines and any limit on the
passes: all properties of the component. `TypeInv` has every list, whatever has been
put in and taken out, in step with its index (`ListsInv`, from what `InsertAll` and
`EraseRange` do to any list in step), and says of which statement or declared line the one being
expanded is (`ControlInv`). `RangeCorrect` needs of the
others only `HeaderInv` below. `SampleInv`, for samplers, adds that
only a line cut at a marker begins with one.

That an expansion is right rests on four invariants that hold between any two nodes of a
pass:

- `HeaderInv`: the first node is the line itself, and no node carries a sampler yet;
- `PassInv`: in pass *i* what is before the node reached has a depth of *i + 1* at most, a
  line put in there, which waits for the next pass, one of just that, and what is still to be
  looked at one less; elements and markers are declared and have no list;
- `OrderInv`: in the index of a name the deeper come later, and those of one depth are in the
  order of the line. An insertion, although in the middle of the list, puts its nodes at the
  deepest level yet and after all others of that level, and that is why it holds;
- `MeaningInv`: if every node is replaced by what it stands for (`NodeMeans`: for a line as much
  of `Flat` as the levels left allow, turned if it is reversed) the list is `Substituted` of the
  line. Taking a line apart changes nothing in that, since `Flat` of a line is what its entries stand
  for (`LineMeans`), back to front if it is reversed (`FlattenReverse`, `FlattenReplace`).

At the end of the last pass there are no lines left, so that each node stands for itself,
and `MeaningInv` is `ExpandsToDefinition`; with `OrderInv` it is `InstancesByDepth`. That a line is called
recursive exactly when it is needs `LevelsInv`: the passes made are never more than the levels
of the line, and as long as there are levels to come there is a line in the list that has
them below it. A line declared like another has no list and stays a line for ever, a
level for every pass. `DoneInv` keeps the lines that are ready.

`Flat` and `Height` are functions recursive in a number of levels. What they are for one
more level (`RecursionByLevels`) is proved as the recursion over parents is: were it false
of some number there would be a least such one. The lemmas on `FlattenSeq` and `Reverse`, recursive in the
community modules, are obtained the same way for sequences of every length.

**`SixTrackLink_proofs`**: `NamesLeadToTheirJawTheorem` for any number of jaws and names
(`RegistryInv`, `CopyInv`, `NameInv`) and `IdsStayUniqueTheorem` for any number of runs,
bunches and hits (`PopulationInv`, `BunchInv`, `HitsInv`, `CountInv`). For the latter the
secondaries among the hits of an event are numbered one to as many as there are
(`SecondariesNumbered`), and the counts of old and new hits add up when those of another
event are appended (`Shifted`, `PlacesAddUp`).

`CommonLemmas` has what several of these cite: a set of numbers has a least one,
division and modulo by a positive number, how often a turn comes round, and ranks:
the members of a finite set in order are the set, each once.

Model-checked only are `ProgramEnds`, `TrackEnds` and `HistoryReturns`: liveness, under fairness,
needs `ENABLED`. Every other property of the runs that pass is a theorem.
What section 3 shows to be violated rests on the counterexample TLC finds.

## 5. What is not modelled

- Columns of position, angle, time and weight, and units: functions of the line.
- The gzip reader of user files is the same code over another stream.
- Particles *within* an entry of an event file: an entry passes if any of them does.
- The seed state written and read for recreation; Geant4's random engine.
- The contents of the entries of the output trees; compression; the `none` format.
- A second signal, at which the program exits at once (as `Kill`).
- An exception in a constructor, which ends the program, is one step to `failed`.
- Of the parser: expressions, options, and all objects that are not elements or lines.
- Of the link: crystals, filters of particles, and its output.
- The numbers the one-turn map computes: the model has whose they are, not which.
- The components in the lower part of the table in section 1, for the reasons given
  with each in `PROJECT.json`: numerical code, single passes over data, or configuration.
  They are most of BDSIM. The construction of geometry makes solids out of real numbers
  in one pass with no state to speak of;
  physics lists configure Geant4; integrators step through continuous motion. The modules
  here are about the parts with discrete state that outlives a call, and cover a small share
  of the lines for that reason.

Hazards that no property covers are in `PROJECT.json` with the reason:

- primaries of an event file return before the map is given their coordinates
  (`BDSPrimaryGeneratorAction.cc:127-131`), so that it goes on with those of an earlier
  primary; `MapFollowsPrimary` is about bunches;
- the map's `pz` is computed from variables that have no value yet (`PzOfMap` lets it be
  anything).

Known to be visible to users and not stated as a property:

- the header of every file of a run but the last has 0 events requested; the number of
  original events in it is filled only for sampler files;
- `BDSRunAction.cc:169` warns that no event was simulated whenever the skipped events
  number those of the file, which for a user file they do when half of its valid
  lines are skipped;
- `processHistory` puts momenta and times of the child's row beside positions of the
  parent's;
- `sample, all` before `use` samples nothing, and of two samplers that come to one element
  the later stays, with a warning.

## 6. Plan

What is left, in this order:

1. `RepeatedCallsAgree` and `MapFollowsPrimary` for the path of events from a file, if
   the map should be given its coordinates there.
2. An extension of `OutputFiles` by the Model tree, whose collimator and cavity names
   are prepared again for every run and file.
3. The crystals of the link, and the tables that give them their names.
4. More of the program: the registries and the stacking action keep discrete state of
   their own, but little that outlives a call.
