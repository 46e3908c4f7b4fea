--------------------------- MODULE UserFileBunch ---------------------------
(***************************************************************************)
(* The "userfile" bunch distribution (BDSBunchUserFile on top of           *)
(* BDSBunchFileBased), driven by the primary generator action and the run  *)
(* loop: one line of an ASCII file per event, with lines to ignore, lines  *)
(* to skip, comments, looping, matching of the run to the file length, and *)
(* recreation from an event offset.                                        *)
(*                                                                         *)
(* A file is a sequence of line kinds: "data" gives a particle, "bad" is a *)
(* line whose event is aborted (too few columns, unknown particle, energy  *)
(* below the rest mass), "blank" is an empty or comment line.  The stream  *)
(* is a position (lines consumed) and one flag standing for eof() ||       *)
(* fail(), the only test the code makes of it.                             *)
(***************************************************************************)
EXTENDS Integers, Sequences, FiniteSets, OrderedSets

CONSTANTS
    Configs,    \* the inputs: file, beam and option settings of one program run
    BeamOns,    \* the numbers of events a user may ask for interactively
    MaxRuns,    \* bound on the interactive runs of one program run
    MaxIdlePasses   \* bound on the passes counted over a file with no usable line

LineKinds == {"data", "bad", "blank"}

ConfigType ==
    [lines                : Seq(LineKinds),
     newline              : BOOLEAN,    \* the last line ends in a newline
     nlinesIgnore         : Nat,
     nlinesSkip           : Nat,
     distrFileLoop        : BOOLEAN,
     distrFileLoopNTimes  : Nat,
     distrFileMatchLength : BOOLEAN,
     nGenerateSet         : BOOLEAN,
     nGenerate            : Nat,
     batch                : BOOLEAN,
     recreate             : {"no", "option", "executable"},
     startFromEvent       : Nat]

ASSUME ConfigAssumption == Configs \subseteq ConfigType
ASSUME BoundAssumption ==
    BeamOns \subseteq Nat \ {0} /\ MaxRuns \in Nat /\ MaxIdlePasses \in Nat

VARIABLES
    cfg,            \* the settings, fixed at start up
    pc,             \* where the program is
    nLinesValid,    \* BDSBunchUserFile::nLinesValidData
    nGenerate,      \* BDSGlobalConstants::NGenerate()
    loop,           \* BDSBunchFileBased::distrFileLoop
    isOpen, pos, eof,   \* the input stream
    line,           \* the line held by GetNextParticleLocal, 0 for the empty string
    nSkipped,       \* BDSBunchFileBased::nEventsInFileSkipped
    nToDo,          \* events the run manager has still to process
    nRuns,          \* runs started
    base,           \* history: usable lines rolled past when recreating
    passes,         \* history: returns to the start of the file
    events          \* history: what each event got

stream == <<isOpen, pos, eof>>
vars == <<cfg, pc, nLinesValid, nGenerate, loop, stream, line, nSkipped,
          nToDo, nRuns, base, passes, events>>

-----------------------------------------------------------------------------
NLines == Len(cfg.lines)
ValidLines == {l \in 1..NLines : cfg.lines[l] # "blank"}
Skippable(l) == l \notin ValidLines

\* Recreating from the executable option adds the offset to nlinesIgnore as well.
NLinesIgnore ==
    cfg.nlinesIgnore + (IF cfg.recreate = "executable" THEN cfg.startFromEvent ELSE 0)

\* The valid lines after position a, up to and including position b.
ValidIn(a, b) == ValidLines \cap (a + 1)..b
NValid(a, b) == Cardinality(ValidIn(a, b))

\* Ignoring reads past the end, or reads the unterminated last line.
IgnoreFails ==
    NLinesIgnore > 0 /\ ( \/ NLinesIgnore > NLines
                          \/ NLinesIgnore = NLines /\ ~cfg.newline )

\* Fault: one line too early.
EofAfterOffByOne(p) == p > 0 /\ p + 1 = NLines
\* Reading line p leaves the stream at its end if nothing follows it.
EofAfter(p) == p > 0 /\ p = NLines /\ ~cfg.newline

\* p is where the stream stands once the lines to ignore and to skip are read.
IsStart(p) ==
    /\ p \in NLinesIgnore..NLines
    /\ NValid(NLinesIgnore, p) = cfg.nlinesSkip
    /\ p > NLinesIgnore => ~Skippable(p)

\* Fault: the lines to skip are not skipped.
OpenedAtTop ==
    isOpen' = TRUE /\ pos' = NLinesIgnore /\ eof' = EofAfter(NLinesIgnore)
\* Fault: one line more is read.
OpenedPastStart ==
    /\ isOpen' = TRUE
    /\ \E p \in 0..NLines : IsStart(p) /\ pos' = p + 1 /\ eof' = EofAfter(p + 1)
\* Opening the file and reading up to the first usable line.
OpenedAtStart ==
    /\ isOpen' = TRUE
    /\ \E p \in 0..NLines : IsStart(p) /\ pos' = p /\ eof' = EofAfter(p)

NEventsPerLoop == nLinesValid - cfg.nlinesSkip
NAvailable == NEventsPerLoop * cfg.distrFileLoopNTimes

Init ==
    /\ cfg \in Configs
    /\ pc = "initialise"
    /\ nLinesValid = 0
    /\ nGenerate = cfg.nGenerate
    /\ loop = (cfg.distrFileLoop \/ cfg.distrFileLoopNTimes > 1)
    /\ isOpen = FALSE /\ pos = 0 /\ eof = FALSE
    /\ line = 0
    /\ nSkipped = 0
    /\ nToDo = 0
    /\ nRuns = 0
    /\ base = 0
    /\ passes = 0
    /\ events = <<>>

\* Fault: the lines to skip are counted as events.
RefusedCountingSkipped(valid) ==
    \/ valid < cfg.nlinesSkip
    \/ ~cfg.distrFileMatchLength /\ ~loop /\ cfg.nGenerate > valid
\* Fault: the number of lines to skip is not checked.
RefusedWithoutSkipCheck(valid) ==
    ~cfg.distrFileMatchLength /\ ~loop /\ cfg.nGenerate > valid - cfg.nlinesSkip
\* The settings Initialise refuses once the valid lines are counted.
RefusedByInitialise(valid) ==
    LET perLoop == valid - cfg.nlinesSkip IN
    \/ valid < cfg.nlinesSkip
    \/ /\ cfg.distrFileMatchLength /\ cfg.nGenerateSet
       /\ cfg.nGenerate > perLoop * cfg.distrFileLoopNTimes
    \/ /\ ~cfg.distrFileMatchLength /\ ~loop
       /\ cfg.nGenerate > perLoop

\* Fault: the loops are left out.
MatchedOneLoop(perLoop) ==
    IF cfg.distrFileMatchLength /\ ~cfg.nGenerateSet THEN perLoop ELSE cfg.nGenerate
\* Matching the file length sets the number of events unless it was given.
MatchedNGenerate(perLoop) ==
    IF cfg.distrFileMatchLength /\ ~cfg.nGenerateSet
    THEN perLoop * cfg.distrFileLoopNTimes
         - (IF cfg.recreate # "no" THEN cfg.startFromEvent ELSE 0)
    ELSE cfg.nGenerate

(***************************************************************************)
(* BDSBunchUserFile::Initialise: count the valid lines, settle the number  *)
(* of events, then open the file and read up to the first usable line.     *)
(***************************************************************************)
Initialise ==
    /\ pc = "initialise"
    /\ ~IgnoreFails
    /\ nLinesValid' = NValid(NLinesIgnore, NLines)
    /\ ~RefusedByInitialise(nLinesValid')
    /\ nGenerate' = MatchedNGenerate(nLinesValid' - cfg.nlinesSkip)
    /\ OpenedAtStart
    /\ nSkipped' = cfg.nlinesSkip
    /\ pc' = "construct"
    /\ UNCHANGED <<cfg, loop, line, nToDo, nRuns, base, passes, events>>

\* An exception during Initialise ends the program.
InitialiseFails ==
    /\ pc = "initialise"
    /\ IgnoreFails \/ RefusedByInitialise(NValid(NLinesIgnore, NLines))
    /\ pc' = "failed"
    /\ UNCHANGED <<cfg, nLinesValid, nGenerate, loop, stream, line, nSkipped,
                   nToDo, nRuns, base, passes, events>>

\* Recreating beyond the file, or more events than remain in it, with no looping.
RefusedByRecreate ==
    /\ ~loop
    /\ \/ cfg.startFromEvent > NEventsPerLoop
       \/ nGenerate > NAvailable - cfg.startFromEvent

\* Fault: the offset is compared with the events of all passes.
NToRollOfRun ==
    IF cfg.startFromEvent > NAvailable
    THEN cfg.startFromEvent % NEventsPerLoop
    ELSE cfg.startFromEvent
\* How many lines to roll forward: the offset, or what is left of it after
\* whole passes.  The modulus needs a usable line.
NToRoll ==
    IF cfg.startFromEvent > NEventsPerLoop
    THEN cfg.startFromEvent % NEventsPerLoop
    ELSE cfg.startFromEvent

\* Where reading n lines leaves the stream.
AfterReading(n) == IF pos + n > NLines THEN NLines ELSE pos + n

(***************************************************************************)
(* The constructor of BDSPrimaryGeneratorAction, which when recreating     *)
(* calls RecreateAdvanceToEvent.  That function reads NToRoll physical     *)
(* lines: its continue for a skippable line still counts in the loop.      *)
(***************************************************************************)
ConstructNormally ==
    /\ pc = "construct"
    /\ cfg.recreate = "no"
    /\ pc' = "idle"
    /\ UNCHANGED <<cfg, nLinesValid, nGenerate, loop, stream, line, nSkipped,
                   nToDo, nRuns, base, passes, events>>

ConstructRecreating ==
    /\ pc = "construct"
    /\ cfg.recreate # "no"
    /\ ~RefusedByRecreate
    /\ cfg.startFromEvent > NEventsPerLoop => NEventsPerLoop > 0
    /\ pos' = AfterReading(NToRoll)
    /\ eof' = (eof \/ pos + NToRoll > NLines \/ (NToRoll > 0 /\ EofAfter(pos')))
    /\ base' = NValid(pos, pos')
    /\ pc' = "idle"
    /\ UNCHANGED <<cfg, nLinesValid, nGenerate, loop, isOpen, line, nSkipped,
                   nToDo, nRuns, passes, events>>

\* The exceptions, and the division by zero when looping a file with no usable line.
ConstructFails ==
    /\ pc = "construct"
    /\ cfg.recreate # "no"
    /\ RefusedByRecreate \/ (NEventsPerLoop = 0 /\ cfg.startFromEvent > 0)
    /\ pc' = "failed"
    /\ UNCHANGED <<cfg, nLinesValid, nGenerate, loop, stream, line, nSkipped,
                   nToDo, nRuns, base, passes, events>>

-----------------------------------------------------------------------------
(***************************************************************************)
(* Runs.  In batch mode the program makes one run of NGenerate events; the *)
(* user of an interactive session makes as many as they like, and          *)
(* BeginOfRunAction then permits looping whatever the input says.          *)
(***************************************************************************)
BeamOn(n) ==
    /\ pc = "idle"
    /\ nRuns' = nRuns + 1
    /\ loop' = (~cfg.batch \/ loop)
    /\ nToDo' = n
    /\ pc' = IF n > 0 THEN "event" ELSE "done"
    /\ UNCHANGED <<cfg, nLinesValid, nGenerate, stream, line, nSkipped, base,
                   passes, events>>

BatchBeamOn == cfg.batch /\ BeamOn(IF nGenerate > 0 THEN nGenerate ELSE 0)

InteractiveBeamOn ==
    /\ ~cfg.batch
    /\ nRuns < MaxRuns
    /\ \E n \in BeamOns : BeamOn(n)

Quit ==
    /\ pc = "idle"
    /\ ~cfg.batch
    /\ pc' = "done"
    /\ UNCHANGED <<cfg, nLinesValid, nGenerate, loop, stream, line, nSkipped,
                   nToDo, nRuns, base, passes, events>>

-----------------------------------------------------------------------------
(***************************************************************************)
(* One event: GeneratePrimaries asks for the next particle and             *)
(* GetNextParticleLocal reads until it holds a line that is not skippable. *)
(***************************************************************************)
BeginEvent ==
    /\ pc = "event"
    /\ line' = 0
    /\ pc' = "scan"
    /\ UNCHANGED <<cfg, nLinesValid, nGenerate, loop, stream, nSkipped, nToDo,
                   nRuns, base, passes, events>>

\* std::getline: past the last line it leaves an empty line and sets the flags.
GetLine ==
    /\ pc = "scan" /\ Skippable(line) /\ ~eof
    /\ IF isOpen /\ pos < NLines
       THEN line' = pos + 1 /\ pos' = pos + 1 /\ eof' = EofAfter(pos + 1)
       ELSE line' = 0 /\ pos' = pos /\ eof' = TRUE
    /\ UNCHANGED <<cfg, pc, nLinesValid, nGenerate, loop, isOpen, nSkipped,
                   nToDo, nRuns, base, passes, events>>

\* The event is over, and with the last one the run.
FinishEvent(got) ==
    /\ events' = Append(events, got)
    /\ nToDo' = nToDo - 1
    /\ line' = 0
    /\ pc' = IF nToDo > 1 THEN "event" ELSE IF cfg.batch THEN "done" ELSE "idle"

\* A file with no usable line is read round and round for ever: the bound
\* stops the counters, not the code.
CountPass ==
    IF NEventsPerLoop > 0 \/ passes < MaxIdlePasses
    THEN nSkipped' = nSkipped + cfg.nlinesSkip /\ passes' = passes + 1
    ELSE UNCHANGED <<nSkipped, passes>>

\* Close the file and, when looping, read up to the first usable line again;
\* otherwise the exception aborts the event and the file stays closed.
EndOfFileAction ==
    /\ pc = "scan" /\ Skippable(line) /\ eof
    /\ IF loop
       THEN /\ OpenedAtStart
            /\ CountPass
            /\ UNCHANGED <<pc, line, nToDo, events>>
       ELSE /\ isOpen' = FALSE /\ eof' = FALSE /\ pos' = pos
            /\ FinishEvent([line |-> 0, pass |-> passes, ok |-> FALSE])
            /\ UNCHANGED <<nSkipped, passes>>
    /\ UNCHANGED <<cfg, nLinesValid, nGenerate, loop, nRuns, base>>

\* Fault: a bad line is passed over and its event gets the next.
DecodeLineRetrying ==
    /\ pc = "scan" /\ ~Skippable(line)
    /\ IF cfg.lines[line] = "data"
       THEN FinishEvent([line |-> line, pass |-> passes, ok |-> TRUE])
       ELSE line' = 0 /\ UNCHANGED <<events, nToDo, pc>>
    /\ UNCHANGED <<cfg, nLinesValid, nGenerate, loop, stream, nSkipped, nRuns,
                   base, passes>>

\* The line is decoded; a bad one throws and aborts this event only.
DecodeLine ==
    /\ pc = "scan" /\ ~Skippable(line)
    /\ FinishEvent([line |-> line, pass |-> passes, ok |-> cfg.lines[line] = "data"])
    /\ UNCHANGED <<cfg, nLinesValid, nGenerate, loop, stream, nSkipped, nRuns,
                   base, passes>>

Terminated == pc \in {"done", "failed"} /\ UNCHANGED vars

Step ==
    \/ Initialise \/ InitialiseFails
    \/ ConstructNormally \/ ConstructRecreating \/ ConstructFails
    \/ BatchBeamOn \/ InteractiveBeamOn \/ Quit
    \/ BeginEvent \/ GetLine \/ EndOfFileAction \/ DecodeLine

Next == Step \/ Terminated

\* One thread runs all of this: it goes on as long as it can.
Spec == Init /\ [][Next]_vars /\ WF_vars(Step)

-----------------------------------------------------------------------------
(***************************************************************************)
(* Properties.                                                             *)
(***************************************************************************)
EventType == [line : Nat, pass : Nat, ok : BOOLEAN]

\* Every variable keeps its type and the stream stays within the file.
TypeOK ==
    /\ cfg \in Configs
    /\ pc \in {"initialise", "construct", "idle", "event", "scan", "done", "failed"}
    /\ nLinesValid \in Nat
    /\ nGenerate \in Int
    /\ loop \in BOOLEAN /\ isOpen \in BOOLEAN /\ eof \in BOOLEAN
    /\ pos \in 0..NLines
    /\ line \in 0..NLines
    /\ nSkipped \in Nat /\ nToDo \in Nat /\ nRuns \in Nat
    /\ base \in Nat /\ passes \in Nat
    /\ events \in Seq(EventType)

Start == CHOOSE p \in 0..NLines : IsStart(p)
LineRank(l) == NValid(Start, l)

\* Order, nothing skipped, nothing read twice: counting from the first usable
\* line, event i gets line number base + i of the file repeated end to end,
\* blank lines apart, and only a bad line loses its event.
EventsFollowFile ==
    \A i \in DOMAIN events :
      LET e == events[i] IN
      e.line # 0 =>
        /\ e.line \in ValidIn(Start, NLines)
        /\ base + i = e.pass * NEventsPerLoop + LineRank(e.line)
        /\ e.ok <=> cfg.lines[e.line] = "data"

\* The checks made before the run are enough: with looping off no event ever
\* finds the file exhausted, recreation and its offsets included.
NeverStarved == \A i \in DOMAIN events : events[i].line # 0

\* A file is returned to its start only when no usable line is left unread.
RewindsOnlyAtEnd == [][passes' # passes => ValidIn(pos, NLines) = {}]_vars

\* A matched run reads each usable line once per loop, and the lines read and
\* the lines counted as skipped add up to the lines of the file.
MatchedRunCoversFile ==
    pc = "done" /\ cfg.batch /\ cfg.recreate = "no"
    /\ cfg.distrFileMatchLength /\ ~cfg.nGenerateSet /\ nGenerate > 0
    => /\ \A l \in ValidIn(Start, NLines) :
             Cardinality({i \in DOMAIN events : events[i].line = l})
               = cfg.distrFileLoopNTimes
       /\ Len(events) + nSkipped = nLinesValid * cfg.distrFileLoopNTimes

\* The program comes to its end, whatever the file, unless an event is asked
\* of a looped file in which no line is usable.
ProgramEnds ==
    <>(pc \in {"done", "failed"} \/ (pc = "scan" /\ NEventsPerLoop = 0))

-----------------------------------------------------------------------------
\* The usable lines when the first k lines are ignored, and their file order.
UsableAfter(k) == {l \in ValidIn(k, NLines) : NValid(k, l) > cfg.nlinesSkip}
UsableLinesAfter(k) == InOrder(UsableAfter(k))

\* The line the original of a recreated run, in which only nlinesIgnore lines
\* were ignored, read for its event n, counted from 0.
OriginalLine(n) ==
    LET original == UsableLinesAfter(cfg.nlinesIgnore) IN
    original[(n % Len(original)) + 1]

EventsAsInOriginal ==
    \A i \in DOMAIN events :
      events[i].line = OriginalLine(cfg.startFromEvent + i - 1)

\* Strong recreation as the manual promises it, however it is asked for: each
\* event of a recreated run reads the line its original read.
RecreationReproduces == cfg.recreate # "no" => EventsAsInOriginal

\* What does hold of it: asked for by the option in the input, over a file with
\* no line to pass over, each event reads its original's line, looping included.
UncommentedRecreation ==
    cfg.recreate = "option" /\ ValidLines = 1..NLines => EventsAsInOriginal

-----------------------------------------------------------------------------
(***************************************************************************)
(* The refinement of EventSource: its entries are the usable lines.        *)
(***************************************************************************)
Usable == UsableAfter(NLinesIgnore)
UsableLines == UsableLinesAfter(NLinesIgnore)

\* The line being decoded is still to be served.
NConsumed == Cardinality({l \in Usable : l <= pos /\ l # line})
NextLine ==
    IF UsableLines = <<>> THEN 1 ELSE (NConsumed % Len(UsableLines)) + 1
LinesServed == [i \in DOMAIN events |-> events[i].line]

Source == INSTANCE EventSource WITH
    Entry <- Nat, entries <- UsableLines, next <- NextLine, served <- LinesServed

\* A userfile is an event source.
ImplementsEventSource == Source!Spec
=============================================================================
