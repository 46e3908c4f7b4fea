---------------------------- MODULE OutputFiles ----------------------------
(***************************************************************************)
(* The files a BDSIM program writes: BDSOutput and BDSOutputROOT, driven   *)
(* by the run action (a file per run) and by the event action (a new file  *)
(* every nperfile events), with events that are aborted by the generator   *)
(* and so never written, signals that end a run early, and a kill.         *)
(***************************************************************************)
EXTENDS Integers, Sequences, FiniteSets, FiniteSetsExt, OrderedSets

CONSTANTS
    Configs,    \* the inputs: options of one program and the files it finds
    BeamOns,    \* the numbers of events a user may ask for interactively
    MaxRuns     \* bound on the interactive runs of one program

NoNumber == -1
NameType == [number : Nat \union {NoNumber}, copy : Nat]

ConfigType ==
    [nPerFile   : Nat,              \* 0: all of a run in one file
     nGenerate  : Nat \ {0},
     outfileSet : BOOLEAN,          \* --outfile was given
     batch      : BOOLEAN,
     existing   : SUBSET NameType]  \* files of that base name already there

ASSUME ConfigAssumption ==
    Configs \subseteq ConfigType /\ \A c \in Configs : IsFiniteSet(c.existing)
ASSUME BoundAssumption == BeamOns \subseteq Nat \ {0} /\ MaxRuns \in Nat

VARIABLES
    cfg,            \* the options, fixed at start up
    pc,             \* where the program is
    fileNumber,     \* BDSOutput::outputFileNumber
    openFile,       \* the name of the file that is open, or Closed
    disk,           \* the files, by name
    header,         \* headerOutput->nEventsRequested
    histSets,       \* per set of histograms in memory: the events filled in it
    eventNo,        \* the ID of the current event, from 0 in every run
    nRequested,     \* history: per run, the number of events asked for
    signalled,      \* HandleAborts has been called
    log             \* history: each event written and the number of its file

files == <<fileNumber, openFile, disk, header, histSets>>
vars == <<cfg, pc, files, eventNo, nRequested, signalled, log>>

-----------------------------------------------------------------------------
Closed == [number |-> NoNumber, copy |-> -1]
run == Len(nRequested)

\* The trees of a file, to the detail the properties need: its number and run,
\* the Event tree, the last entry of the Header tree, whether there are Options
\* (with Beam, Model and ParticleData), the histograms of the Run tree's entry
\* if it has one, and whether all that was written and the file closed.
Content(number, inRun, isFirst, requested) ==
    [number |-> number, run |-> inRun, events |-> <<>>, requested |-> requested,
     hasOptions |-> isFirst, hasRun |-> FALSE, histos |-> <<>>, saved |-> FALSE]
OldContent ==
    [Content(NoNumber, 0, TRUE, 1) EXCEPT !.hasRun = TRUE, !.saved = TRUE]

\* Fault: the comparison is one too high.
NumberedOffByOne == cfg.nPerFile > 0 /\ cfg.nGenerate > cfg.nPerFile + 1
Numbered == cfg.nPerFile > 0 /\ cfg.nGenerate > cfg.nPerFile

\* Fault: only the mode is looked at.
MayOverwriteInBatch == cfg.batch
MayOverwrite == cfg.outfileSet /\ cfg.batch

\* The name of the n-th file, given the names there are.
GetNextFileName(n, existing) ==
    LET Name(k) == [number |-> IF Numbered THEN n ELSE NoNumber, copy |-> k]
    IN  IF MayOverwrite THEN Name(0)
        ELSE Name(Min({k \in 0..Cardinality(existing) : Name(k) \notin existing}))

\* Fault: the header is written as the last run left it.
HeaderKept == header
\* FillHeader flushes the header before it is written at the top of a file.
HeaderOfNewFile == 0

\* The run action writes Options into the file it opens.
WritesOptions(isFirst) == isFirst

\* NewFile, on disk d.
NewFile(d, inRun, isFirst) ==
    LET name == GetNextFileName(fileNumber + 1, DOMAIN d) IN
    /\ fileNumber' = fileNumber + 1
    /\ openFile' = name
    /\ header' = HeaderOfNewFile
    /\ disk' = [n \in DOMAIN d \union {name} |->
                   IF n = name THEN Content(fileNumber + 1, inRun, WritesOptions(isFirst),
                                            HeaderOfNewFile)
                   ELSE d[n]]

\* Fault: a file is closed without its trees.
CloseFileUnwritten(d) == d
CloseFile(d) == [d EXCEPT ![openFile].saved = TRUE]

\* Fault: the histograms are made the first time only.
CreateHistogramsOnce(sets) == IF sets = <<>> THEN <<<<>>>> ELSE sets
\* Every InitialiseGeometryDependent makes a further set of histograms, for
\* the event and for the run, and the indices then refer to that set.
CreateHistograms(sets) == Append(sets, <<>>)

-----------------------------------------------------------------------------
Init ==
    /\ cfg \in Configs
    /\ pc = "idle"
    /\ fileNumber = -1
    /\ openFile = Closed
    /\ disk = [n \in cfg.existing |-> OldContent]
    /\ header = 0
    /\ histSets = <<>>
    /\ eventNo = 0
    /\ nRequested = <<>>
    /\ signalled = FALSE
    /\ log = <<>>

\* BeginOfRunAction, for a run of n events.
BeamOn(n) ==
    /\ pc = "idle"
    /\ nRequested' = Append(nRequested, n)
    /\ eventNo' = 0
    /\ histSets' = CreateHistograms(histSets)
    /\ NewFile(disk, run + 1, TRUE)
    /\ pc' = "event"
    /\ UNCHANGED <<cfg, signalled, log>>

BatchBeamOn == cfg.batch /\ run = 0 /\ BeamOn(cfg.nGenerate)

InteractiveBeamOn ==
    /\ ~cfg.batch /\ run < MaxRuns
    /\ \E n \in BeamOns : BeamOn(n)

Quit ==
    /\ pc = "idle" /\ (cfg.batch => run = 1)
    /\ pc' = "done"
    /\ UNCHANGED <<cfg, files, eventNo, nRequested, signalled, log>>

-----------------------------------------------------------------------------
\* The run manager goes on to the next event, if the run is to go on.
AfterEvent(goesOn) ==
    /\ eventNo' = eventNo + 1
    /\ pc' = IF goesOn /\ eventNo + 1 < nRequested[run] THEN "event" ELSE "endOfRun"
    /\ UNCHANGED <<cfg, nRequested>>

\* Fault: the event number is not made to count from one.
RotatesOffByOne == cfg.nPerFile > 0 /\ eventNo % cfg.nPerFile = 0
Rotates == cfg.nPerFile > 0 /\ (eventNo + 1) % cfg.nPerFile = 0

\* EndOfEventAction: FillEvent, then perhaps CloseAndOpenNewFile.
EndOfEvent(goesOn) ==
    LET e       == [run |-> run, id |-> eventNo]
        written == [disk EXCEPT ![openFile].events = Append(@, e)]
        filled  == [histSets EXCEPT ![Len(histSets)] = Append(@, e)]
    IN  /\ log' = Append(log, [event |-> e, file |-> fileNumber])
        /\ IF Rotates
           THEN /\ NewFile(CloseFile(written), run, FALSE)
                /\ histSets' = CreateHistograms(filled)
           ELSE /\ disk' = written
                /\ histSets' = filled
                /\ UNCHANGED <<fileNumber, openFile, header>>
        /\ AfterEvent(goesOn)

ProcessEvent ==
    /\ pc = "event"
    /\ EndOfEvent(TRUE)
    /\ UNCHANGED signalled

\* A signal during an event: the event is cut short but ends as any other, and
\* the run ends after it.  At a second signal the program exits.
ProcessEventWithSignal ==
    /\ pc = "event" /\ ~signalled
    /\ signalled' = TRUE
    /\ EndOfEvent(FALSE)

\* An event aborted by the generator is not processed, nor written; at the end
\* of its file the generator ends the run with it.
AbortEvent ==
    /\ pc = "event"
    /\ \E goesOn \in BOOLEAN : AfterEvent(goesOn)
    /\ UNCHANGED <<files, signalled, log>>

\* EndOfRunAction: FillRun and CloseFile.
EndRun ==
    /\ pc = "endOfRun"
    /\ header' = nRequested[run]
    /\ disk' = [CloseFile(disk) EXCEPT ![openFile].hasRun = TRUE,
                                       ![openFile].histos = histSets,
                                       ![openFile].requested = nRequested[run]]
    /\ openFile' = Closed
    /\ pc' = "idle"
    /\ UNCHANGED <<cfg, fileNumber, histSets, eventNo, nRequested, signalled, log>>

\* The program is killed.
Kill ==
    /\ pc \in {"event", "endOfRun"}
    /\ pc' = "killed"
    /\ UNCHANGED <<cfg, files, eventNo, nRequested, signalled, log>>

Terminated == pc \in {"done", "killed"} /\ UNCHANGED vars

Next ==
    \/ BatchBeamOn \/ InteractiveBeamOn \/ Quit
    \/ ProcessEvent \/ ProcessEventWithSignal \/ AbortEvent
    \/ EndRun \/ Kill \/ Terminated

Spec == Init /\ [][Next]_vars

-----------------------------------------------------------------------------
(***************************************************************************)
(* Properties.                                                             *)
(***************************************************************************)
EventType == [run : Nat, id : Nat]
Ours == {n \in DOMAIN disk : disk[n].run > 0}

\* Every variable keeps its type, a file of this program is open exactly while
\* a run is, and it alone is not yet saved.
TypeOK ==
    /\ cfg \in Configs
    /\ pc \in {"idle", "event", "endOfRun", "done", "killed"}
    /\ fileNumber \in Nat \union {-1}
    /\ openFile \in NameType \union {Closed}
    /\ DOMAIN disk \subseteq NameType
    /\ \A n \in DOMAIN disk :
         /\ disk[n].events \in Seq(EventType)
         /\ disk[n].histos \in Seq(Seq(EventType))
    /\ header \in Nat /\ eventNo \in Nat
    /\ nRequested \in Seq(Nat \ {0})
    /\ histSets \in Seq(Seq(EventType))
    /\ pc \in {"event", "endOfRun"} => openFile \in DOMAIN disk
    /\ \A n \in Ours : ~disk[n].saved <=> n = openFile
    /\ pc \in {"idle", "done"} => openFile = Closed

\* The options with which a program overwrites files of its own.
OverwritesItself ==
    cfg.batch /\ cfg.outfileSet /\ cfg.nPerFile > 0 /\ cfg.nGenerate = cfg.nPerFile

FilesOf(r) == {n \in DOMAIN disk : disk[n].run = r}
LastOf(r) == CHOOSE n \in FilesOf(r) : \A m \in FilesOf(r) : disk[m].number <= disk[n].number
FirstOf(r) == CHOOSE n \in FilesOf(r) : \A m \in FilesOf(r) : disk[n].number <= disk[m].number
FinishedRuns == IF pc \in {"idle", "done"} THEN 1..run ELSE 1..(run - 1)
Written(number) == AtPlaces(log, {i \in DOMAIN log : log[i].file = number})
EventsOf(entries) == [i \in DOMAIN entries |-> entries[i].event]
NoEventAborted(r) ==
    \A i \in DOMAIN log : log[i].event.run = r /\ log[i].event.id > 0 =>
        i > 1 /\ log[i - 1].event = [log[i].event EXCEPT !.id = @ - 1]

\* Every event that was processed is in one file, the one that was open, and
\* there in order, whatever files there were and however runs were ended; save
\* where a program overwrites its own files.
EveryEventInItsFile ==
    ~OverwritesItself =>
        \A i \in DOMAIN log :
          \E n \in Ours : /\ disk[n].number = log[i].file
                          /\ disk[n].events = EventsOf(Written(log[i].file))

\* With no event aborted, every file of a run but its last has nPerFile events
\* and the last has fewer.
FilesHoldNPerFile ==
    \A r \in 1..run : NoEventAborted(r) /\ cfg.nPerFile > 0 =>
        \A n \in FilesOf(r) :
          IF n = LastOf(r) THEN Len(disk[n].events) < cfg.nPerFile
          ELSE Len(disk[n].events) = cfg.nPerFile

\* What HeaderAnalysis relies upon when it adds up, over the files of a run, the
\* numbers of events requested in the last header entry of each: one file has
\* the number of the run and the others none; and the first file, no other, has
\* its options, the last, no other, its Run entry, save where a program
\* overwrites its own files.
HeadersAddUp ==
    \A r \in FinishedRuns :
        /\ \E n \in FilesOf(r) : /\ disk[n].requested = nRequested[r]
                                /\ \A m \in FilesOf(r) \ {n} : disk[m].requested = 0
        /\ ~OverwritesItself =>
             \A n \in FilesOf(r) : /\ disk[n].hasOptions <=> n = FirstOf(r)
                                   /\ disk[n].hasRun <=> n = LastOf(r)

\* The j-th set of histograms has the events of the j-th file of the program,
\* and the Run entry of each run has the sets of all files up to its own.
HistogramSetPerFile ==
    /\ \A j \in DOMAIN histSets : histSets[j] = EventsOf(Written(j - 1))
    /\ Len(histSets) = fileNumber + 1
    /\ \A n \in Ours : disk[n].hasRun =>
         disk[n].histos = [j \in 1..(disk[n].number + 1) |-> EventsOf(Written(j - 1))]

\* With no name given, a file that is there, of an earlier program or run or
\* closed in this one, is never changed: the next file has another suffix.
OldFilesKept ==
    [][~cfg.outfileSet =>
         \A n \in DOMAIN disk : disk[n].saved =>
            n \in DOMAIN disk' /\ disk'[n] = disk[n]]_vars

\* What the manual says of a name that is given: "BDSIM will overwrite an output file
\* if --outfile is supplied with the same name again. The behaviour is the same in both
\* visualiser mode and batch mode." (output.rst:25-26): so the first file that a program
\* opens has the name given and no suffix.
NamedFileOverwritten ==
    cfg.outfileSet /\ fileNumber = 0 /\ openFile # Closed => openFile.copy = 0

\* A program that is killed loses less than nPerFile events of a run in which
\* no event was aborted.
KillLosesLessThanAFile ==
    LET lost == {i \in DOMAIN log : ~\E n \in Ours : disk[n].number = log[i].file
                                                     /\ disk[n].saved}
    IN  cfg.nPerFile > 0 /\ NoEventAborted(run) /\ ~OverwritesItself /\ pc = "killed" =>
            \A i \in lost : i > Len(log) - (cfg.nPerFile - 1)
=============================================================================
