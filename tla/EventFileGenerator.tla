------------------------ MODULE EventFileGenerator -------------------------
(***************************************************************************)
(* Primaries from a file of events: BDSPrimaryGeneratorFile with its two   *)
(* readers, of HepMC3 files (sequential, closed at its end) and of the     *)
(* sampler of a BDSIM file (by index), driven by the primary generator     *)
(* action and the run loop.  An entry passes or does not pass the filters; *)
(* one that does not gives an aborted event.                               *)
(***************************************************************************)
EXTENDS Integers, Sequences, FiniteSets, OrderedSets

CONSTANTS
    Configs,    \* the inputs: file, beam and option settings of one program run
    BeamOns,    \* the numbers of events a user may ask for interactively
    MaxRuns     \* bound on the interactive runs of one program run

ConfigType ==
    [kind                 : {"hepmc", "sampler"},
     passes               : Seq(BOOLEAN),   \* per entry: some particle passes
     distrFileLoop        : BOOLEAN,
     distrFileLoopNTimes  : Nat \ {0},
     distrFileMatchLength : BOOLEAN,
     nGenerate            : Nat,
     nEventsSkip          : Nat,            \* eventGeneratorNEventsSkip
     recreate             : BOOLEAN,
     startFromEvent       : Nat,
     batch                : BOOLEAN]

ASSUME ConfigAssumption == Configs \subseteq ConfigType
ASSUME BoundAssumption == BeamOns \subseteq Nat \ {0} /\ MaxRuns \in Nat

VARIABLES
    cfg,            \* the settings, fixed at start up
    pc,             \* where the program is
    index,          \* BDSPrimaryGeneratorFile::currentFileEventIndex
    hasReader,      \* the reader is not null
    eof,            \* endOfFileReached
    nPassed,        \* nEventsReadThatPassedFilters
    nSkipped,       \* the bunch's nEventsInFileSkipped
    nGenerate,      \* BDSGlobalConstants::NGenerate()
    nToDo,          \* events the run manager has still to process
    nRuns,          \* runs started
    events          \* history: the entry and the outcome of each event

file == <<index, hasReader, eof>>
vars == <<cfg, pc, file, nPassed, nSkipped, nGenerate, nToDo, nRuns, events>>

-----------------------------------------------------------------------------
nEventsInFile == Len(cfg.passes)
nAvailable == nEventsInFile * cfg.distrFileLoopNTimes
loopFile == cfg.distrFileLoop \/ ~cfg.batch \/ cfg.distrFileLoopNTimes > 1

\* Fault: one entry that does not pass forbids looping.
OKToLoopUnlessSkipped == nPassed > 0 /\ nSkipped = 0
\* Looping is permitted once an entry has passed the filters.
OKToLoopFile == nPassed > 0

\* Fault: the number is not reduced to a pass.
NToSkipAllPasses(n) == n
\* The number of entries SkipEvents passes over when asked for n.
NToSkipSinglePass(n) == IF n > 0 THEN nAvailable % n ELSE 0

\* Reading k entries of a HepMC file at the start of the program, from entry
\* i on: at the end the reader is deleted, for nothing has passed yet that
\* would permit looping, and one read more goes through a null pointer.
FileState(i, open, end) == [index |-> i, hasReader |-> open, eof |-> end]
CrashState == FileState(0, FALSE, FALSE)
ReadOn(f, k) ==
    CASE k = 0                                          -> f
      [] k > 0 /\ ~f.hasReader                          -> CrashState
      [] k > 0 /\ f.hasReader /\ f.index + k <= nEventsInFile ->
           FileState(f.index + k, TRUE, FALSE)
      [] k > 0 /\ f.hasReader /\ f.index + k = nEventsInFile + 1 ->
           FileState(0, FALSE, TRUE)
      [] k > 0 /\ f.hasReader /\ f.index + k > nEventsInFile + 1 -> CrashState

\* SkipEvents of each kind: a sampler file is put at the index itself.
SkipEvents(f, n) ==
    IF cfg.kind = "hepmc" THEN ReadOn(f, NToSkipSinglePass(n))
    ELSE IF n > 0 THEN [f EXCEPT !.index = NToSkipSinglePass(n)]
    ELSE f

\* The constructor skips, and then recreation does.
Opened == FileState(0, TRUE, FALSE)
Constructed ==
    LET skipped == SkipEvents(Opened, cfg.nEventsSkip) IN
    IF cfg.recreate THEN SkipEvents(skipped, cfg.startFromEvent) ELSE skipped

Refused ==
    \/ cfg.nEventsSkip > nAvailable
    \/ cfg.recreate /\ cfg.startFromEvent > nAvailable

-----------------------------------------------------------------------------
Init ==
    /\ cfg \in Configs
    /\ pc = "construct"
    /\ index = 0 /\ hasReader = FALSE /\ eof = FALSE
    /\ nPassed = 0 /\ nSkipped = 0
    /\ nGenerate = cfg.nGenerate
    /\ nToDo = 0 /\ nRuns = 0
    /\ events = <<>>

\* Fault: the loops are left out.
MatchedOneLoop(i) == nEventsInFile - i
\* The number of events that matches the file length, read from entry i.
MatchedNGenerate(i) == (nEventsInFile - i) * cfg.distrFileLoopNTimes

\* ConstructGenerator: open, skip, recreate, then match the file length, with
\* no regard to a number of events that was given.
Construct ==
    /\ pc = "construct" /\ ~Refused /\ Constructed # CrashState
    /\ index' = Constructed.index
    /\ hasReader' = Constructed.hasReader
    /\ eof' = Constructed.eof
    /\ nGenerate' = IF cfg.distrFileMatchLength
                    THEN MatchedNGenerate(index')
                    ELSE cfg.nGenerate
    /\ pc' = "idle"
    /\ UNCHANGED <<cfg, nPassed, nSkipped, nToDo, nRuns, events>>

ConstructFails ==
    /\ pc = "construct" /\ Refused
    /\ pc' = "failed"
    /\ UNCHANGED <<cfg, file, nPassed, nSkipped, nGenerate, nToDo, nRuns, events>>

ConstructCrashes ==
    /\ pc = "construct" /\ ~Refused /\ Constructed = CrashState
    /\ pc' = "crashed"
    /\ UNCHANGED <<cfg, file, nPassed, nSkipped, nGenerate, nToDo, nRuns, events>>

-----------------------------------------------------------------------------
BeamOn(n) ==
    /\ pc = "idle"
    /\ nRuns' = nRuns + 1
    /\ nToDo' = n
    /\ pc' = IF n > 0 THEN "event" ELSE "done"
    /\ UNCHANGED <<cfg, file, nPassed, nSkipped, nGenerate, events>>

BatchBeamOn == cfg.batch /\ BeamOn(IF nGenerate > 0 THEN nGenerate ELSE 0)

InteractiveBeamOn ==
    /\ ~cfg.batch /\ nRuns < MaxRuns
    /\ \E n \in BeamOns : BeamOn(n)

Quit ==
    /\ pc = "idle" /\ ~cfg.batch
    /\ pc' = "done"
    /\ UNCHANGED <<cfg, file, nPassed, nSkipped, nGenerate, nToDo, nRuns, events>>

-----------------------------------------------------------------------------
AfterRun == IF cfg.batch THEN "done" ELSE "idle"

\* An event that used entry e of the file, or none if e is 0.
FinishEvent(e, outcome) ==
    /\ events' = Append(events, [entry |-> e, run |-> nRuns, outcome |-> outcome])
    /\ nToDo' = nToDo - 1
    /\ pc' = IF nToDo > 1 THEN "event" ELSE AfterRun
    /\ UNCHANGED <<cfg, nGenerate, nRuns>>

\* Fault: an entry that does not pass is not stepped over.
ReadSingleEventAgain(i) ==
    IF cfg.passes[i + 1]
    THEN /\ index' = i + 1 /\ nPassed' = nPassed + 1 /\ UNCHANGED nSkipped
         /\ FinishEvent(i + 1, "simulated")
    ELSE /\ nSkipped' = nSkipped + 1 /\ UNCHANGED <<index, nPassed>>
         /\ FinishEvent(i + 1, "filtered")
\* Entry i (from 0) is read; an event with nothing left of it is aborted.
ReadSingleEvent(i) ==
    /\ index' = i + 1
    /\ IF cfg.passes[i + 1]
       THEN /\ nPassed' = nPassed + 1
            /\ UNCHANGED nSkipped
            /\ FinishEvent(i + 1, "simulated")
       ELSE /\ nSkipped' = nSkipped + 1
            /\ UNCHANGED nPassed
            /\ FinishEvent(i + 1, "filtered")

AtEvent == pc = "event" /\ ~eof
AtEnd == index >= nEventsInFile
Loops == loopFile /\ OKToLoopFile

ReadEntry ==
    /\ AtEvent /\ ~AtEnd
    /\ ReadSingleEvent(index)
    /\ UNCHANGED <<hasReader, eof>>

\* A sampler file goes back to its first entry within the event.
LoopSampler ==
    /\ AtEvent /\ AtEnd /\ Loops /\ cfg.kind = "sampler"
    /\ ReadSingleEvent(0)
    /\ UNCHANGED <<hasReader, eof>>

\* Fault: the event that is lost to reopening is not counted.
LoopHEPMCUncounted ==
    /\ AtEvent /\ AtEnd /\ Loops /\ cfg.kind = "hepmc"
    /\ index' = 0
    /\ FinishEvent(0, "reopened")
    /\ UNCHANGED <<hasReader, eof, nPassed, nSkipped>>

\* A HepMC file is opened again and the event that found its end is aborted,
\* and counted as skipped.
LoopHEPMC ==
    /\ AtEvent /\ AtEnd /\ Loops /\ cfg.kind = "hepmc"
    /\ index' = 0
    /\ nSkipped' = nSkipped + 1
    /\ FinishEvent(0, "reopened")
    /\ UNCHANGED <<hasReader, eof, nPassed>>

\* The end with no looping: this event is aborted, the run goes on.
ReachEnd ==
    /\ AtEvent /\ AtEnd /\ ~Loops
    /\ eof' = TRUE
    /\ IF cfg.kind = "hepmc"
       THEN index' = 0 /\ hasReader' = FALSE
       ELSE UNCHANGED <<index, hasReader>>
    /\ FinishEvent(0, "atEnd")
    /\ UNCHANGED <<nPassed, nSkipped>>

\* The event after that ends the run, when matching or still short of NGenerate.
EndsRun == cfg.distrFileMatchLength \/ nPassed < nGenerate
EndRun ==
    /\ pc = "event" /\ eof /\ EndsRun
    /\ events' = Append(events, [entry |-> 0, run |-> nRuns, outcome |-> "endRun"])
    /\ nToDo' = 0
    /\ pc' = AfterRun
    /\ UNCHANGED <<cfg, file, nPassed, nSkipped, nGenerate, nRuns>>

\* An event with no primary that is not aborted.
EmptyEvent ==
    /\ pc = "event" /\ eof /\ ~EndsRun
    /\ FinishEvent(0, "empty")
    /\ UNCHANGED <<file, nPassed, nSkipped>>

Terminated == pc \in {"done", "failed", "crashed"} /\ UNCHANGED vars

Next ==
    \/ Construct \/ ConstructFails \/ ConstructCrashes
    \/ BatchBeamOn \/ InteractiveBeamOn \/ Quit
    \/ ReadEntry \/ LoopSampler \/ LoopHEPMC \/ ReachEnd \/ EndRun \/ EmptyEvent
    \/ Terminated

Spec == Init /\ [][Next]_vars

-----------------------------------------------------------------------------
(***************************************************************************)
(* Properties.                                                             *)
(***************************************************************************)
Outcomes == {"simulated", "filtered", "reopened", "atEnd", "endRun", "empty"}
With(outcome) == {i \in DOMAIN events : events[i].outcome = outcome}

\* Every variable keeps its type and a HepMC file is never read past its end;
\* every event is counted as passed or as skipped, save those that found the
\* file at its end; the skipped are the filtered and the returns of a HepMC file.
TypeOK ==
    /\ cfg \in Configs
    /\ pc \in {"construct", "idle", "event", "done", "failed", "crashed"}
    /\ index \in Nat /\ (cfg.kind = "hepmc" => index <= nEventsInFile)
    /\ hasReader \in BOOLEAN /\ eof \in BOOLEAN
    /\ nPassed \in Nat /\ nSkipped \in Nat
    /\ nGenerate \in Int /\ nToDo \in Nat /\ nRuns \in Nat
    /\ events \in Seq([entry : 0..nEventsInFile, run : Nat, outcome : Outcomes])
    /\ nPassed = Cardinality(With("simulated"))
    /\ nSkipped = Cardinality(With("filtered")) + Cardinality(With("reopened"))
    /\ Len(events) = nPassed + nSkipped + Cardinality(With("atEnd"))
                     + Cardinality(With("endRun")) + Cardinality(With("empty"))

\* The entries are served in order, round robin: none is left out and none is
\* used twice in a pass, whatever the filters, the kind and the runs.
Entries == [i \in 1..nEventsInFile |-> i]
NextEntry == IF nEventsInFile = 0 THEN 1 ELSE (index % nEventsInFile) + 1
EntryOfEvent == [i \in DOMAIN events |-> events[i].entry]
EntriesServed == AtPlaces(EntryOfEvent, {i \in DOMAIN events : events[i].entry # 0})

Source == INSTANCE EventSource WITH
    Entry <- Nat, entries <- Entries, next <- NextEntry, served <- EntriesServed

ImplementsEventSource == Source!Spec

TimesRead(k) == Cardinality({i \in DOMAIN events : events[i].entry = k})

IsMatchedRun ==
    /\ pc = "done" /\ cfg.batch /\ cfg.distrFileMatchLength
    /\ cfg.nEventsSkip = 0 /\ ~cfg.recreate
    /\ nPassed > 0

\* What the manual says of distrFileLoopNTimes, "Number of times to go through the
\* distribution file in its entirety" (model_control.rst:1183), of which the run is to
\* "match the file length and repeat the file" (model_control.rst:1241): so often is
\* each entry read.
FileRepeatedNTimes ==
    IsMatchedRun => \A k \in 1..nEventsInFile : TimesRead(k) = cfg.distrFileLoopNTimes

\* The file is repeated so many times where no event is lost to opening it again: a
\* batch run that matches the length of a sampler file, or of a HepMC file to be
\* read once, reads each entry as often as there are loops, whatever the filters,
\* the loops within the events and the number of events that was given.
NeverReopened == cfg.kind = "sampler" \/ cfg.distrFileLoopNTimes = 1
MatchedRunReadsAll == NeverReopened => FileRepeatedNTimes

\* A batch run has fewer events than it was to have only if the file is at its
\* end with no looping, or none of the entries it read passed the filters; and
\* that costs at most two events, the one that finds the end and the one that
\* ends the run.
ShortRunOnlyAtEnd ==
    cfg.batch =>
        /\ pc = "done" /\ Len(events) < nGenerate =>
             /\ eof
             /\ loopFile => With("simulated") = {}
             /\ events[Len(events)].outcome = "endRun"
        /\ Cardinality(With("atEnd")) <= 1 /\ Cardinality(With("endRun")) <= 1
        /\ With("empty") = {}

\* Skipping reads through the null reader only when asked to go further than
\* one pass of a HepMC file.
CrashOnlyPastOnePass ==
    pc = "crashed" =>
        /\ cfg.kind = "hepmc" /\ cfg.distrFileLoopNTimes > 1
        /\ cfg.nEventsSkip + (IF cfg.recreate THEN cfg.startFromEvent ELSE 0) > nEventsInFile

\* The manual's eventGeneratorNEventsSkip: so many events of the file are skipped.
SkipsAsManyAsAsked ==
    pc = "idle" /\ nRuns = 0 /\ ~cfg.recreate /\ cfg.nEventsSkip < nEventsInFile
      => index = cfg.nEventsSkip
=============================================================================
