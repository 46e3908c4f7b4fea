------------------------- MODULE OutputFiles_proofs -------------------------
(***************************************************************************)
(* Theorems of OutputFiles, for any files found, any number of events, of  *)
(* events per file and of runs: the one open file is the one not yet       *)
(* saved, and no file that is there is changed.                            *)
(***************************************************************************)
EXTENDS OutputFiles, CommonLemmas

ContentType ==
    [number : Nat \union {NoNumber}, run : Nat, events : Seq(EventType), requested : Nat,
     hasOptions : BOOLEAN, hasRun : BOOLEAN, histos : Seq(Seq(EventType)), saved : BOOLEAN]

InRun == pc \in {"event", "endOfRun"}

\* The variables have their types.
Types ==
    /\ cfg \in Configs
    /\ pc \in {"idle", "event", "endOfRun", "done", "killed"}
    /\ fileNumber \in Nat \union {-1}
    /\ openFile \in NameType \union {Closed}
    /\ header \in Nat /\ eventNo \in Nat
    /\ nRequested \in Seq(Nat \ {0})
    /\ histSets \in Seq(Seq(EventType))
    /\ InRun => run > 0 /\ Len(histSets) > 0

\* The files on a disk, finitely many of them.
Disk(d) ==
    /\ IsFiniteSet(DOMAIN d) /\ DOMAIN d \subseteq NameType
    /\ d \in [DOMAIN d -> ContentType]

\* A file of this program is open exactly while a run is, and it alone is not
\* yet saved.
OpenInv ==
    /\ InRun => openFile \in Ours
    /\ \A n \in Ours : ~disk[n].saved <=> n = openFile
    /\ pc \in {"idle", "done"} => openFile = Closed

IInv == Types /\ Disk(disk) /\ OpenInv

-----------------------------------------------------------------------------
\* A set of natural numbers has its minimum.
LEMMA MinIsIn == ASSUME NEW S, S \subseteq Nat, S # {} PROVE Min(S) \in S
  BY LeastElement DEF Min

\* Among one more numbers than there are names, one makes a name not in use.
LEMMA FreeCopy ==
    ASSUME NEW existing, IsFiniteSet(existing), NEW number
    PROVE  \E k \in 0..Cardinality(existing) : [number |-> number, copy |-> k] \notin existing
<1> DEFINE c == Cardinality(existing)
           Name == [k \in 0..c |-> [number |-> number, copy |-> k]]
<1>1. c \in Nat
  BY FS_CardinalityType
<1> SUFFICES ASSUME \A k \in 0..c : [number |-> number, copy |-> k] \in existing PROVE FALSE
  OBVIOUS
<1>2. IsFiniteSet(0..c) /\ Cardinality(0..c) = c + 1
  BY <1>1, FS_Interval
<1>3. Name \in [0..c -> existing]
  OBVIOUS
<1>4. \A j, k \in 0..c : j # k => Name[j] # Name[k]
  OBVIOUS
<1>5. Cardinality(existing) < Cardinality(0..c)
  BY <1>1, <1>2
<1> HIDE DEF Name
<1>6. \E j, k \in 0..c : j # k /\ Name[j] = Name[k]
  BY <1>2, <1>3, <1>5, FS_PigeonHole
<1> QED
  BY <1>4, <1>6

\* The name of a new file is not one in use, unless in batch mode with the name
\* given (GetNextFileName).
LEMMA NewName ==
    ASSUME cfg \in Configs, NEW n \in Nat, NEW existing, IsFiniteSet(existing)
    PROVE  /\ GetNextFileName(n, existing) \in NameType
           /\ ~MayOverwrite => GetNextFileName(n, existing) \notin existing
<1> DEFINE number == IF Numbered THEN n ELSE NoNumber
           Free == {k \in 0..Cardinality(existing) :
                      [number |-> number, copy |-> k] \notin existing}
<1>1. number \in Nat \union {NoNumber}
  OBVIOUS
<1>2. Free \subseteq Nat /\ Free # {}
  BY FreeCopy, FS_CardinalityType
<1>3. Min(Free) \in Free
  BY <1>2, MinIsIn
<1>4. GetNextFileName(n, existing) =
        IF MayOverwrite THEN [number |-> number, copy |-> 0]
        ELSE [number |-> number, copy |-> Min(Free)]
  BY DEF GetNextFileName
<1> HIDE DEF number
<1> QED
  BY <1>1, <1>2, <1>3, <1>4 DEF NameType

-----------------------------------------------------------------------------
\* The options of a program, of which only these facts are used.
LEMMA OptionFacts ==
    ASSUME cfg \in Configs
    PROVE  /\ cfg.nPerFile \in Nat /\ cfg.nGenerate \in Nat \ {0}
           /\ cfg.batch \in BOOLEAN /\ cfg.outfileSet \in BOOLEAN
           /\ cfg.existing \subseteq NameType /\ IsFiniteSet(cfg.existing)
  BY ConfigAssumption DEF ConfigType

LEMMA ClosedIsNoName == Closed \notin NameType
  BY DEF Closed, NameType

\* What NewFile leaves: the new file, of this program and not saved, and the
\* others as they were, save a file of the same name.
LEMMA NewFileMade ==
    ASSUME cfg \in Configs, NEW d, Disk(d), fileNumber \in Nat \union {-1},
           NEW inRun \in Nat \ {0}, NEW isFirst \in BOOLEAN, NewFile(d, inRun, isFirst)
    PROVE  /\ fileNumber' \in Nat /\ header' \in Nat /\ fileNumber' = fileNumber + 1
           /\ openFile' \in NameType /\ DOMAIN disk' = DOMAIN d \union {openFile'}
           /\ Disk(disk')
           /\ disk'[openFile'] = Content(fileNumber + 1, inRun, isFirst, 0)
           /\ disk'[openFile'].run = inRun /\ ~disk'[openFile'].saved
           /\ \A n \in DOMAIN d \ {openFile'} : disk'[n] = d[n]
           /\ ~MayOverwrite => openFile' \notin DOMAIN d
           /\ MayOverwrite => openFile' = [number |-> IF Numbered THEN fileNumber + 1
                                                     ELSE NoNumber, copy |-> 0]
<1> DEFINE name == GetNextFileName(fileNumber + 1, DOMAIN d)
           content == Content(fileNumber + 1, inRun, WritesOptions(isFirst), HeaderOfNewFile)
<1>1. fileNumber + 1 \in Nat
  OBVIOUS
<1>2. name \in NameType /\ (~MayOverwrite => name \notin DOMAIN d)
  BY <1>1, NewName DEF Disk
<1>8. MayOverwrite => name = [number |-> IF Numbered THEN fileNumber + 1 ELSE NoNumber, copy |-> 0]
  BY DEF GetNextFileName
<1>9. content = Content(fileNumber + 1, inRun, isFirst, 0)
  BY DEF WritesOptions, HeaderOfNewFile
<1>3. content \in ContentType /\ content.run = inRun /\ content.saved = FALSE
  BY <1>1 DEF Content, ContentType, WritesOptions, HeaderOfNewFile
<1>4. /\ fileNumber' = fileNumber + 1 /\ openFile' = name /\ header' = 0
      /\ disk' = [n \in DOMAIN d \union {name} |-> IF n = name THEN content ELSE d[n]]
  BY DEF NewFile, HeaderOfNewFile
<1> HIDE DEF name, content
<1>5. DOMAIN disk' = DOMAIN d \union {name} /\ disk'[name] = content
      /\ \A n \in DOMAIN d \ {name} : disk'[n] = d[n]
  BY <1>4
<1>6. IsFiniteSet(DOMAIN disk')
  BY <1>5, FS_AddElement DEF Disk
<1>7. disk' \in [DOMAIN disk' -> ContentType]
  BY <1>3, <1>4 DEF Disk
<1> QED
  BY <1>1, <1>2, <1>3, <1>4, <1>5, <1>6, <1>7, <1>8, <1>9 DEF Disk

\* What a file has in common with what it was when only an event is added to it,
\* and perhaps all its trees are written.
GrownBy(c, d, e) ==
    /\ c.number = d.number /\ c.run = d.run /\ c.requested = d.requested
    /\ c.hasOptions = d.hasOptions /\ c.hasRun = d.hasRun /\ c.histos = d.histos
    /\ c.events = Append(d.events, e)

\* Writing to the file that is open, and closing it, leave the other files.
LEMMA OpenFileWritten ==
    ASSUME IInv, InRun, NEW e \in EventType
    PROVE  LET written == [disk EXCEPT ![openFile].events = Append(@, e)]
           IN  /\ Disk(written) /\ Disk(CloseFile(written))
               /\ DOMAIN written = DOMAIN disk /\ DOMAIN CloseFile(written) = DOMAIN disk
               /\ \A n \in DOMAIN disk \ {openFile} :
                     written[n] = disk[n] /\ CloseFile(written)[n] = disk[n]
               /\ GrownBy(written[openFile], disk[openFile], e)
               /\ GrownBy(CloseFile(written)[openFile], disk[openFile], e)
               /\ written[openFile].saved = disk[openFile].saved
               /\ CloseFile(written)[openFile].saved
<1> DEFINE written == [disk EXCEPT ![openFile].events = Append(@, e)]
<1>1. openFile \in DOMAIN disk /\ disk[openFile] \in ContentType
  BY DEF IInv, OpenInv, Ours, Disk
<1>2. [disk[openFile] EXCEPT !.events = Append(@, e)] \in ContentType
  <2>1. disk[openFile].events \in Seq(EventType)
    BY <1>1 DEF ContentType
  <2>2. Append(disk[openFile].events, e) \in Seq(EventType)
    BY <2>1
  <2> QED
    BY <1>1, <2>2 DEF ContentType
<1>3. Disk(written) /\ DOMAIN written = DOMAIN disk
  BY <1>1, <1>2 DEF IInv, Disk
<1>4. written[openFile] = [disk[openFile] EXCEPT !.events = Append(@, e)]
  BY <1>1
<1>5. /\ GrownBy(written[openFile], disk[openFile], e)
      /\ written[openFile].saved = disk[openFile].saved
  BY <1>1, <1>4 DEF ContentType, GrownBy
<1>6. \A n \in DOMAIN disk \ {openFile} : written[n] = disk[n]
  OBVIOUS
<1> HIDE DEF written
<1>7. written[openFile] \in ContentType
  BY <1>1, <1>3 DEF Disk
<1>8. [written[openFile] EXCEPT !.saved = TRUE] \in ContentType
  BY <1>7 DEF ContentType
<1>9. CloseFile(written) = [written EXCEPT ![openFile] = [written[openFile] EXCEPT !.saved = TRUE]]
  BY DEF CloseFile
<1>10. Disk(CloseFile(written)) /\ DOMAIN CloseFile(written) = DOMAIN disk
  BY <1>1, <1>3, <1>8, <1>9 DEF Disk
<1>11. /\ GrownBy(CloseFile(written)[openFile], disk[openFile], e)
       /\ CloseFile(written)[openFile].saved
       /\ \A n \in DOMAIN disk \ {openFile} : CloseFile(written)[n] = written[n]
  BY <1>1, <1>3, <1>5, <1>7, <1>9 DEF ContentType, GrownBy
<1> QED
  BY <1>3, <1>5, <1>6, <1>10, <1>11 DEF written

\* What the histograms of a set are filled with.
LEMMA HistogramsFilled ==
    ASSUME Types, InRun, NEW e \in EventType
    PROVE  LET filled == [histSets EXCEPT ![Len(histSets)] = Append(@, e)]
           IN  /\ filled \in Seq(Seq(EventType)) /\ Len(filled) > 0
               /\ CreateHistograms(filled) \in Seq(Seq(EventType))
               /\ Len(CreateHistograms(filled)) > 0
<1> DEFINE filled == [histSets EXCEPT ![Len(histSets)] = Append(@, e)]
<1>1. histSets \in Seq(Seq(EventType)) /\ Len(histSets) \in 1..Len(histSets)
  BY DEF Types
<1>2. histSets[Len(histSets)] \in Seq(EventType)
  BY <1>1
<1>3. Append(histSets[Len(histSets)], e) \in Seq(EventType)
  BY <1>2
<1>4. filled \in Seq(Seq(EventType)) /\ Len(filled) = Len(histSets)
  BY <1>1, <1>3
<1> HIDE DEF filled
<1>5. <<>> \in Seq(EventType)
  OBVIOUS
<1>6. /\ CreateHistograms(filled) \in Seq(Seq(EventType))
      /\ Len(CreateHistograms(filled)) = Len(filled) + 1
  BY <1>4, <1>5 DEF CreateHistograms
<1> QED
  BY <1>1, <1>4, <1>6 DEF filled

-----------------------------------------------------------------------------
LEMMA BeamOnKeeps == ASSUME IInv, NEW k \in Nat \ {0}, BeamOn(k) PROVE IInv'
<1>1. /\ pc = "idle" /\ pc' = "event" /\ cfg' = cfg /\ eventNo' = 0
      /\ nRequested' = Append(nRequested, k) /\ NewFile(disk, run + 1, TRUE)
      /\ histSets' = Append(histSets, <<>>)
  BY DEF BeamOn, CreateHistograms
<1>2. /\ nRequested' \in Seq(Nat \ {0}) /\ run' = run + 1 /\ run \in Nat
  BY <1>1 DEF IInv, Types, run
<1>3. histSets' \in Seq(Seq(EventType)) /\ Len(histSets') > 0
  <2>1. <<>> \in Seq(EventType)
    OBVIOUS
  <2> QED
    BY <1>1, <2>1 DEF IInv, Types
<1>4. /\ fileNumber' \in Nat /\ header' \in Nat
      /\ openFile' \in NameType /\ DOMAIN disk' = DOMAIN disk \union {openFile'}
      /\ Disk(disk')
      /\ disk'[openFile'].run = run + 1 /\ ~disk'[openFile'].saved
      /\ \A n \in DOMAIN disk \ {openFile'} : disk'[n] = disk[n]
  <2>1. run + 1 \in Nat \ {0}
    BY <1>2
  <2> QED
    BY <1>1, <2>1, NewFileMade DEF IInv, Types
<1>5. Types'
  BY <1>1, <1>2, <1>3, <1>4 DEF IInv, Types
<1>6. OpenInv'
  <2>1. \A n \in Ours : disk[n].saved
    BY <1>1, ClosedIsNoName DEF IInv, OpenInv, Ours, Disk
  <2>2. openFile' \in Ours'
    BY <1>2, <1>4 DEF Ours
  <2>3. \A n \in Ours' : ~disk'[n].saved <=> n = openFile'
    BY <1>4, <2>1 DEF Ours
  <2> QED
    BY <1>1, <2>2, <2>3 DEF OpenInv
<1> QED
  BY <1>4, <1>5, <1>6 DEF IInv

LEMMA BatchBeamOnKeeps == ASSUME IInv, BatchBeamOn PROVE IInv'
  BY OptionFacts, BeamOnKeeps DEF BatchBeamOn, IInv, Types

LEMMA InteractiveBeamOnKeeps == ASSUME IInv, InteractiveBeamOn PROVE IInv'
  BY BoundAssumption, BeamOnKeeps DEF InteractiveBeamOn

\* The run goes on, or comes to its end.
LEMMA AfterEventGoesOn ==
    ASSUME Types, InRun, NEW goesOn \in BOOLEAN, AfterEvent(goesOn)
    PROVE  /\ InRun' /\ pc' \in {"event", "endOfRun"} /\ cfg' = cfg
           /\ eventNo' \in Nat /\ nRequested' = nRequested /\ run' = run
  BY DEF AfterEvent, Types, InRun, run

LEMMA EndOfEventKeeps ==
    ASSUME IInv, pc = "event", NEW goesOn \in BOOLEAN, EndOfEvent(goesOn) PROVE IInv'
<1> DEFINE e == [run |-> run, id |-> eventNo]
           written == [disk EXCEPT ![openFile].events = Append(@, e)]
           filled == [histSets EXCEPT ![Len(histSets)] = Append(@, e)]
<1>1. InRun /\ e \in EventType /\ run \in Nat \ {0}
  BY DEF IInv, Types, InRun, EventType, run
<1>2. /\ InRun' /\ pc' \in {"event", "endOfRun"} /\ cfg' = cfg
      /\ eventNo' \in Nat /\ nRequested' = nRequested /\ run' = run
  BY <1>1, AfterEventGoesOn DEF EndOfEvent, IInv
<1>3. openFile \in DOMAIN disk /\ disk[openFile].run > 0 /\ ~disk[openFile].saved
  BY <1>1 DEF IInv, OpenInv, Ours
<1>4. \A n \in Ours : n # openFile => disk[n].saved
  BY DEF IInv, OpenInv
<1>5. CASE Rotates
  <2>1. NewFile(CloseFile(written), run, FALSE) /\ histSets' = CreateHistograms(filled)
    BY <1>5 DEF EndOfEvent
  <2>2. /\ Disk(CloseFile(written)) /\ DOMAIN CloseFile(written) = DOMAIN disk
        /\ \A n \in DOMAIN disk \ {openFile} : CloseFile(written)[n] = disk[n]
        /\ CloseFile(written)[openFile].saved
    BY <1>1, OpenFileWritten
  <2>3. /\ fileNumber' \in Nat /\ header' \in Nat
        /\ openFile' \in NameType /\ DOMAIN disk' = DOMAIN disk \union {openFile'}
        /\ Disk(disk')
        /\ disk'[openFile'].run = run /\ ~disk'[openFile'].saved
        /\ \A n \in DOMAIN disk \ {openFile'} : disk'[n] = CloseFile(written)[n]
    <3> HIDE DEF written
    <3> QED
      BY <1>1, <2>1, <2>2, NewFileMade DEF IInv, Types
  <2>4. histSets' \in Seq(Seq(EventType)) /\ Len(histSets') > 0
    BY <1>1, <2>1, HistogramsFilled DEF IInv
  <2> HIDE DEF written, filled, e
  <2>5. Types'
    BY <1>1, <1>2, <2>3, <2>4 DEF IInv, Types
  <2>6. OpenInv'
    <3>1. openFile' \in Ours'
      BY <1>1, <2>3 DEF Ours
    <3>2. \A n \in Ours' : ~disk'[n].saved <=> n = openFile'
      BY <1>4, <2>2, <2>3 DEF Ours
    <3> QED
      BY <1>2, <3>1, <3>2 DEF OpenInv
  <2> QED
    BY <2>3, <2>5, <2>6 DEF IInv
<1>6. CASE ~Rotates
  <2>1. /\ disk' = written /\ histSets' = filled
        /\ UNCHANGED <<fileNumber, openFile, header>>
    BY <1>6 DEF EndOfEvent
  <2>2. /\ Disk(written) /\ DOMAIN written = DOMAIN disk
        /\ \A n \in DOMAIN disk \ {openFile} : written[n] = disk[n]
        /\ GrownBy(written[openFile], disk[openFile], e)
        /\ written[openFile].saved = disk[openFile].saved
    BY <1>1, OpenFileWritten
  <2>3. histSets' \in Seq(Seq(EventType)) /\ Len(histSets') > 0
    BY <1>1, <2>1, HistogramsFilled DEF IInv
  <2> HIDE DEF written, filled, e
  <2>4. Types'
    BY <1>1, <1>2, <2>1, <2>3 DEF IInv, Types
  <2>5. OpenInv'
    BY <1>2, <1>3, <1>4, <2>1, <2>2 DEF OpenInv, Ours, GrownBy
  <2> QED
    BY <2>1, <2>2, <2>4, <2>5 DEF IInv
<1> QED
  BY <1>5, <1>6

LEMMA ProcessEventKeeps == ASSUME IInv, ProcessEvent PROVE IInv'
  BY EndOfEventKeeps DEF ProcessEvent

LEMMA ProcessEventWithSignalKeeps == ASSUME IInv, ProcessEventWithSignal PROVE IInv'
  BY EndOfEventKeeps DEF ProcessEventWithSignal

LEMMA AbortEventKeeps == ASSUME IInv, AbortEvent PROVE IInv'
<1>1. PICK goesOn \in BOOLEAN : AfterEvent(goesOn)
  BY DEF AbortEvent
<1>2. InRun /\ UNCHANGED files
  BY DEF AbortEvent, InRun
<1>3. /\ InRun' /\ pc' \in {"event", "endOfRun"} /\ cfg' = cfg
      /\ eventNo' \in Nat /\ nRequested' = nRequested /\ run' = run
  BY <1>1, <1>2, AfterEventGoesOn DEF IInv
<1> QED
  BY <1>2, <1>3 DEF IInv, Types, OpenInv, Disk, Ours, files

\* At the end of a run the open file gets its Run entry and is closed.
LEMMA RunFilled ==
    ASSUME IInv, InRun, EndRun
    PROVE  /\ DOMAIN disk' = DOMAIN disk /\ Disk(disk')
           /\ \A n \in DOMAIN disk \ {openFile} : disk'[n] = disk[n]
           /\ disk'[openFile].run = disk[openFile].run /\ disk'[openFile].saved
<1> DEFINE content == [disk[openFile] EXCEPT !.saved = TRUE, !.hasRun = TRUE, !.histos = histSets,
                                             !.requested = nRequested[run]]
<1>1. openFile \in DOMAIN disk /\ disk[openFile] \in ContentType
  BY DEF IInv, OpenInv, Ours, Disk
<1>2. nRequested[run] \in Nat /\ histSets \in Seq(Seq(EventType))
  BY DEF IInv, Types, run
<1>3. content \in ContentType /\ content.run = disk[openFile].run /\ content.saved = TRUE
  BY <1>1, <1>2 DEF ContentType
<1>4. disk' = [disk EXCEPT ![openFile] = content]
  BY <1>1 DEF EndRun, CloseFile, IInv, Disk
<1> HIDE DEF content
<1> QED
  BY <1>1, <1>3, <1>4 DEF IInv, Disk

LEMMA EndRunKeeps == ASSUME IInv, EndRun PROVE IInv'
<1>1. /\ InRun /\ pc' = "idle" /\ openFile' = Closed /\ header' = nRequested[run]
      /\ UNCHANGED <<cfg, fileNumber, histSets, eventNo, nRequested>>
  BY DEF EndRun, InRun
<1>2. header' \in Nat
  BY <1>1 DEF IInv, Types, run
<1>3. Types'
  BY <1>1, <1>2 DEF IInv, Types, InRun
<1>4. /\ DOMAIN disk' = DOMAIN disk /\ Disk(disk')
      /\ \A n \in DOMAIN disk \ {openFile} : disk'[n] = disk[n]
      /\ disk'[openFile].run = disk[openFile].run /\ disk'[openFile].saved
  BY <1>1, RunFilled
<1>5. OpenInv'
  <2>1. \A n \in Ours' : disk'[n].saved
    BY <1>4 DEF IInv, OpenInv, Ours
  <2>2. Closed \notin Ours'
    BY <1>4, ClosedIsNoName DEF Ours, Disk
  <2> QED
    BY <1>1, <2>1, <2>2 DEF OpenInv, InRun
<1> QED
  BY <1>3, <1>4, <1>5 DEF IInv

LEMMA StopKeeps == ASSUME IInv, Quit \/ Kill PROVE IInv'
<1>1. /\ UNCHANGED <<cfg, files, eventNo, nRequested>>
      /\ pc' = "killed" \/ (pc = "idle" /\ pc' = "done")
  BY DEF Quit, Kill
<1> QED
  BY <1>1 DEF IInv, Types, OpenInv, Disk, Ours, InRun, run, files

LEMMA StutterKeeps == ASSUME IInv, UNCHANGED vars PROVE IInv'
  BY DEF vars, files, IInv, Types, OpenInv, Disk, Ours, InRun, run

LEMMA InitHolds == Init => IInv
<1> SUFFICES ASSUME Init PROVE IInv
  OBVIOUS
<1>1. OldContent \in ContentType /\ OldContent.run = 0
  <2>1. Content(NoNumber, 0, TRUE, 1) \in ContentType /\ Content(NoNumber, 0, TRUE, 1).run = 0
    BY DEF Content, ContentType, NoNumber
  <2> QED
    BY <2>1 DEF OldContent, ContentType
<1>2. Disk(disk) /\ Ours = {}
  <2>1. cfg \in Configs /\ disk = [n \in cfg.existing |-> OldContent]
    BY DEF Init
  <2> QED
    BY <1>1, <2>1, OptionFacts DEF Disk, Ours
<1>3. Types
  BY DEF Init, Types, InRun
<1>4. OpenInv
  BY <1>2 DEF Init, OpenInv, InRun
<1> QED
  BY <1>2, <1>3, <1>4 DEF IInv

\* The inductive invariant holds in every state (Init, and one lemma an action).
THEOREM Invariant == Spec => []IInv
<1>1. IInv /\ [Next]_vars => IInv'
  <2> SUFFICES ASSUME IInv, [Next]_vars PROVE IInv'
    OBVIOUS
  <2> QED
    BY BatchBeamOnKeeps, InteractiveBeamOnKeeps, ProcessEventKeeps, ProcessEventWithSignalKeeps,
       AbortEventKeeps, EndRunKeeps, StopKeeps, StutterKeeps DEF Next, Terminated
<1> QED
  BY InitHolds, <1>1, PTL DEF Spec

\* Every variable has its type, and the file of this program that is not yet
\* saved is the one that is open (NewFile, CloseFile), in every program.
THEOREM TypeCorrect == Spec => []TypeOK
<1>1. IInv => TypeOK
  <2> SUFFICES ASSUME IInv PROVE TypeOK
    OBVIOUS
  <2>1. \A n \in DOMAIN disk : /\ disk[n].events \in Seq(EventType)
                               /\ disk[n].histos \in Seq(Seq(EventType))
    BY DEF IInv, Disk, ContentType
  <2> QED
    BY <2>1 DEF IInv, Types, OpenInv, Disk, TypeOK, Ours, InRun
<1> QED
  BY Invariant, <1>1, PTL

\* A step leaves every file there is but the one that is open.
LEMMA OthersKept ==
    ASSUME IInv, [Next]_vars, ~MayOverwrite, NEW n \in DOMAIN disk, disk[n].saved
    PROVE  n \in DOMAIN disk' /\ disk'[n] = disk[n]
<1>1. InRun => n # openFile
  BY DEF IInv, OpenInv
<1>2. ASSUME NEW k, BeamOn(k) PROVE n \in DOMAIN disk' /\ disk'[n] = disk[n]
  <2>1. NewFile(disk, run + 1, TRUE)
    BY <1>2 DEF BeamOn
  <2>2. run + 1 \in Nat \ {0}
    BY DEF IInv, Types, run
  <2> QED
    BY <2>1, <2>2, NewFileMade DEF IInv, Types
<1>3. ASSUME NEW goesOn, pc = "event", EndOfEvent(goesOn)
      PROVE  n \in DOMAIN disk' /\ disk'[n] = disk[n]
  <2> DEFINE e == [run |-> run, id |-> eventNo]
             written == [disk EXCEPT ![openFile].events = Append(@, e)]
  <2>1. InRun /\ e \in EventType /\ run \in Nat \ {0}
    BY <1>3 DEF IInv, Types, InRun, EventType, run
  <2>2. /\ Disk(CloseFile(written)) /\ DOMAIN CloseFile(written) = DOMAIN disk
        /\ DOMAIN written = DOMAIN disk
        /\ \A m \in DOMAIN disk \ {openFile} :
              written[m] = disk[m] /\ CloseFile(written)[m] = disk[m]
    BY <2>1, OpenFileWritten
  <2>3. NewFile(CloseFile(written), run, FALSE) \/ disk' = written
    BY <1>3 DEF EndOfEvent
  <2> HIDE DEF e, written
  <2>4. n # openFile
    BY <1>1, <2>1
  <2>5. CASE NewFile(CloseFile(written), run, FALSE)
    <3>1. /\ DOMAIN disk' = DOMAIN disk \union {openFile'} /\ openFile' \notin DOMAIN disk
          /\ \A m \in DOMAIN disk \ {openFile'} : disk'[m] = CloseFile(written)[m]
      BY <2>1, <2>2, <2>5, NewFileMade DEF IInv, Types
    <3> QED
      BY <2>2, <2>4, <3>1
  <2>6. CASE disk' = written
    BY <2>2, <2>4, <2>6
  <2> QED
    BY <2>3, <2>5, <2>6
<1>4. CASE EndRun
  BY <1>1, <1>4, RunFilled DEF EndRun, InRun
<1>5. CASE UNCHANGED disk
  BY <1>5
<1> QED
  BY <1>2, <1>3, <1>4, <1>5 DEF Next, BatchBeamOn, InteractiveBeamOn, ProcessEvent,
     ProcessEventWithSignal, AbortEvent, Quit, Kill, Terminated, vars, files

\* With no name given no file that is there, of an earlier program or run or closed in
\* this one, is ever changed: for any names in use and any number of files
\* (BDSOutput::GetNextFileName, NewFile).
THEOREM OldFilesKeptTheorem == Spec => OldFilesKept
<1>1. IInv /\ [Next]_vars =>
        [~cfg.outfileSet =>
           \A n \in DOMAIN disk : disk[n].saved => n \in DOMAIN disk' /\ disk'[n] = disk[n]]_vars
  BY OthersKept DEF MayOverwrite
<1> QED
  BY Invariant, <1>1, PTL DEF Spec, OldFilesKept

-----------------------------------------------------------------------------
(***************************************************************************)
(* What is in the files.  The files of the program are numbered, each once *)
(* and up to fileNumber; the sequence of events of each, and that of each  *)
(* set of histograms, is the events of the log at its number; and where in *)
(* its run a file stands says what trees it has and how many events.       *)
(***************************************************************************)
LogType == [event : EventType, file : Nat]

Lasts ==
    {n \in Ours : \A m \in Ours : disk[m].run = disk[n].run => disk[m].number <= disk[n].number}
Firsts ==
    {n \in Ours : \A m \in Ours : disk[m].run = disk[n].run => disk[n].number <= disk[m].number}
EventsIn(number) == EventsOf(Written(number))
Held == [j \in Int |-> EventsIn(j)]
Unaborted == {r \in Nat : NoEventAborted(r)}

\* In batch mode there is one run, of the number of events that was given.
RunInv ==
    /\ cfg.batch => run <= 1 /\ \A r \in 1..run : nRequested[r] = cfg.nGenerate
    /\ pc = "event" => eventNo < nRequested[run]
    /\ \A n \in Ours : disk[n].run <= run

\* Every file has a number of its own, and the open one the highest.
NumberInv ==
    /\ Len(histSets) = fileNumber + 1
    /\ \A n \in Ours : disk[n].number \in 0..fileNumber
    /\ \A m, n \in Ours : disk[m].number = disk[n].number => m = n
    /\ openFile \in Ours => /\ disk[openFile].number = fileNumber /\ disk[openFile].run = run
                            /\ ~disk[openFile].hasRun

\* The file of every number is there, and has the number in its name if it might
\* overwrite a file; save where the program has but one name for all its files.
NameInv ==
    /\ MayOverwrite /\ Numbered => \A n \in Ours : n.number = disk[n].number
    /\ ~OverwritesItself => \A j \in 0..fileNumber : \E n \in Ours : disk[n].number = j
    /\ OverwritesItself => \A n \in Ours : n = [number |-> NoNumber, copy |-> 0]

\* The log is of events that came before, in files that have been opened.
LogInv ==
    /\ log \in Seq(LogType)
    /\ \A i \in DOMAIN log :
         /\ log[i].file <= fileNumber /\ log[i].event.run <= run
         /\ log[i].event.run = run => log[i].event.id < eventNo

EventsInv ==
    /\ \A n \in Ours : disk[n].events = Held[disk[n].number]
    /\ \A j \in 1..Len(histSets) : histSets[j] = Held[j - 1]
    /\ \A n \in Ours : disk[n].hasRun =>
         disk[n].histos = [j \in 1..(disk[n].number + 1) |-> Held[j - 1]]

\* The number of events that the run has got to, going by the log.
Reached == IF Len(log) > 0 /\ log[Len(log)].event.run = run THEN log[Len(log)].event.id + 1 ELSE 0

\* A file is closed when the events got to are a multiple of nPerFile, and the
\* open file holds the remainder, which are the last of the log.
CountInv ==
    /\ \A n \in Ours : cfg.nPerFile > 0 /\ disk[n].run \in Unaborted =>
         IF n \in Lasts THEN Len(disk[n].events) < cfg.nPerFile
         ELSE Len(disk[n].events) = cfg.nPerFile
    /\ openFile \in Ours /\ cfg.nPerFile > 0 /\ run \in Unaborted =>
         Len(disk[openFile].events) = Reached % cfg.nPerFile
    /\ openFile \in Ours => \A i \in DOMAIN log : log[i].file = fileNumber =>
         i > Len(log) - Len(disk[openFile].events)

\* The last file of a run has its Run entry once it is closed, and with it the
\* number requested; the first has the options.
HeaderInv ==
    /\ \A n \in Ours : disk[n].hasRun <=> n \in Lasts /\ n # openFile
    /\ \A n \in Ours : disk[n].requested = IF disk[n].hasRun THEN nRequested[disk[n].run] ELSE 0
    /\ \A r \in 1..run : \E n \in Ours : disk[n].run = r /\ n \in Lasts
    /\ ~OverwritesItself => \A n \in Ours : disk[n].hasOptions <=> n \in Firsts

FilesInv == RunInv /\ NumberInv /\ NameInv /\ LogInv /\ EventsInv /\ CountInv /\ HeaderInv

-----------------------------------------------------------------------------
\* What the steps do to the files of the program: a run begins, with a file of
\* its own;
Begins(k) ==
    /\ openFile \notin Ours /\ openFile' \notin Ours
    /\ Ours' = Ours \union {openFile'} /\ \A n \in Ours : disk'[n] = disk[n]
    /\ disk'[openFile'] = Content(fileNumber + 1, run + 1, TRUE, 0)
    /\ MayOverwrite => openFile' = [number |-> IF Numbered THEN fileNumber + 1 ELSE NoNumber,
                                    copy |-> 0]
    /\ fileNumber' = fileNumber + 1 /\ run' = run + 1 /\ run \in Nat
    /\ nRequested' = Append(nRequested, k) /\ eventNo' = 0 /\ pc' = "event"
    /\ histSets' = Append(histSets, <<>>) /\ log' = log /\ cfg' = cfg

\* an event e is written;
Logs(e) ==
    /\ e = [run |-> run, id |-> eventNo]
    /\ e \in EventType /\ run \in Nat \ {0} /\ eventNo \in Nat /\ fileNumber \in Nat
    /\ log' = Append(log, [event |-> e, file |-> fileNumber])
    /\ eventNo' = eventNo + 1 /\ cfg' = cfg /\ nRequested' = nRequested /\ run' = run
    /\ pc' = "event" => eventNo + 1 < nRequested[run]
    /\ openFile \in Ours

\* it does not fill the file;
Writes(e) ==
    /\ Logs(e) /\ ~Rotates
    /\ Ours' = Ours /\ \A n \in Ours \ {openFile} : disk'[n] = disk[n]
    /\ GrownBy(disk'[openFile], disk[openFile], e)
    /\ fileNumber' = fileNumber /\ openFile' = openFile
    /\ histSets' = [histSets EXCEPT ![Len(histSets)] = Append(@, e)]

\* or it does, and there is a new file of the same run, not one the program
\* already has, save where it has but one name for its files;
Fills(e) ==
    /\ Logs(e) /\ Rotates
    /\ \/ openFile' \notin Ours /\ Ours' = Ours \union {openFile'} /\ ~OverwritesItself
       \/ Ours = {openFile} /\ Ours' = {openFile} /\ openFile' = openFile /\ OverwritesItself
    /\ \A n \in Ours \ {openFile, openFile'} : disk'[n] = disk[n]
    /\ openFile' # openFile => GrownBy(disk'[openFile], disk[openFile], e)
    /\ disk'[openFile'] = Content(fileNumber + 1, run, FALSE, 0)
    /\ MayOverwrite => openFile' = [number |-> IF Numbered THEN fileNumber + 1 ELSE NoNumber,
                                    copy |-> 0]
    /\ fileNumber' = fileNumber + 1
    /\ histSets' = Append([histSets EXCEPT ![Len(histSets)] = Append(@, e)], <<>>)

\* the run ends;
Ends ==
    /\ Ours' = Ours /\ openFile \in Ours /\ openFile' \notin Ours
    /\ \A n \in Ours \ {openFile} : disk'[n] = disk[n]
    /\ disk'[openFile] = [disk[openFile] EXCEPT !.saved = TRUE, !.hasRun = TRUE,
                            !.histos = histSets, !.requested = nRequested[run]]
    /\ pc' = "idle" /\ run' = run
    /\ UNCHANGED <<cfg, fileNumber, histSets, eventNo, nRequested, log>>

\* or nothing is written.
Leaves ==
    /\ UNCHANGED <<cfg, fileNumber, openFile, disk, histSets, nRequested, log>>
    /\ Ours' = Ours /\ run' = run
    /\ eventNo' \in {eventNo, eventNo + 1}
    /\ pc' = "event" => eventNo' < nRequested[run]

\* The beginning of a run; in batch mode the only run.
LEMMA BeamOnMakes ==
    ASSUME IInv, RunInv, NEW k \in Nat \ {0}, BeamOn(k), cfg.batch => run = 0
    PROVE  Begins(k)
<1>1. /\ pc = "idle" /\ pc' = "event" /\ cfg' = cfg /\ eventNo' = 0 /\ log' = log
      /\ nRequested' = Append(nRequested, k) /\ NewFile(disk, run + 1, TRUE)
      /\ histSets' = Append(histSets, <<>>)
  BY DEF BeamOn, CreateHistograms
<1>2. run' = run + 1 /\ run \in Nat /\ run + 1 \in Nat \ {0}
  BY <1>1 DEF IInv, Types, run
<1>3. /\ fileNumber' = fileNumber + 1 /\ DOMAIN disk' = DOMAIN disk \union {openFile'}
      /\ disk'[openFile'] = Content(fileNumber + 1, run + 1, TRUE, 0)
      /\ disk'[openFile'].run = run + 1
      /\ \A n \in DOMAIN disk \ {openFile'} : disk'[n] = disk[n]
      /\ ~MayOverwrite => openFile' \notin DOMAIN disk
      /\ MayOverwrite => openFile' = [number |-> IF Numbered THEN fileNumber + 1
                                                ELSE NoNumber, copy |-> 0]
  BY <1>1, <1>2, NewFileMade DEF IInv, Types
<1>4. openFile \notin Ours
  BY <1>1, ClosedIsNoName DEF IInv, OpenInv, Ours, Disk
<1>5. openFile' \notin Ours
  <2>1. CASE ~MayOverwrite
    BY <1>3, <2>1 DEF Ours
  <2>2. CASE MayOverwrite
    <3>1. \A n \in Ours : disk[n].run <= 0
      BY <2>2 DEF MayOverwrite, RunInv
    <3>2. \A n \in Ours : disk[n].run > 0
      BY DEF Ours
    <3>3. \A n \in Ours : disk[n].run \in Nat
      BY DEF Ours, IInv, Disk, ContentType
    <3> QED
      BY <3>1, <3>2, <3>3
  <2> QED
    BY <2>1, <2>2
<1>6. Ours' = Ours \union {openFile'} /\ \A n \in Ours : disk'[n] = disk[n]
  <2>1. disk'[openFile'].run > 0 /\ openFile' \in DOMAIN disk'
    <3>1. run + 1 > 0
      BY <1>2
    <3>2. disk'[openFile'].run = run + 1 /\ openFile' \in DOMAIN disk'
      BY <1>3, Zenon
    <3> QED
      BY <3>1, <3>2
  <2>2. Ours' = {n \in DOMAIN disk' : disk'[n].run > 0}
    BY DEF Ours
  <2>3. \A n \in DOMAIN disk : n # openFile' => disk'[n] = disk[n]
    BY <1>3
  <2>4. \A n : n # openFile' => (n \in DOMAIN disk' <=> n \in DOMAIN disk)
    BY <1>3
  <2> QED
    BY <1>5, <2>1, <2>2, <2>3, <2>4 DEF Ours
<1> QED
  BY <1>1, <1>2, <1>3, <1>4, <1>5, <1>6 DEF Begins

\* What every event that ends does, to the log and to the event number.
LEMMA EventLogged ==
    ASSUME IInv, NumberInv, pc = "event", NEW goesOn \in BOOLEAN, EndOfEvent(goesOn)
    PROVE  Logs([run |-> run, id |-> eventNo])
<1>1. run \in Nat \ {0} /\ eventNo \in Nat /\ openFile \in Ours
  BY DEF IInv, Types, OpenInv, InRun, run
<1>2. [run |-> run, id |-> eventNo] \in EventType
  BY <1>1 DEF EventType
<1>3. /\ log' = Append(log, [event |-> [run |-> run, id |-> eventNo], file |-> fileNumber])
      /\ AfterEvent(goesOn)
  BY DEF EndOfEvent
<1>4. eventNo' = eventNo + 1 /\ cfg' = cfg /\ nRequested' = nRequested /\ run' = run
  BY <1>3 DEF AfterEvent, run
<1>5. pc' = "event" => eventNo + 1 < nRequested[run]
  BY <1>3 DEF AfterEvent
<1>6. fileNumber \in Nat
  BY DEF IInv, Types, InRun, NumberInv
<1> QED
  BY <1>1, <1>2, <1>3, <1>4, <1>5, <1>6 DEF Logs

\* An event that ends and does not fill its file.
LEMMA WriteMakes ==
    ASSUME IInv, NumberInv, pc = "event", NEW goesOn \in BOOLEAN, EndOfEvent(goesOn), ~Rotates
    PROVE  Writes([run |-> run, id |-> eventNo])
<1> DEFINE e == [run |-> run, id |-> eventNo]
           written == [disk EXCEPT ![openFile].events = Append(@, e)]
<1>1. /\ disk' = written
      /\ histSets' = [histSets EXCEPT ![Len(histSets)] = Append(@, e)]
      /\ UNCHANGED <<fileNumber, openFile, header>>
  BY DEF EndOfEvent
<1>2. e \in EventType /\ openFile \in Ours /\ InRun
  BY EventLogged DEF InRun, Logs
<1>3. /\ DOMAIN written = DOMAIN disk
      /\ \A n \in DOMAIN disk \ {openFile} : written[n] = disk[n]
      /\ GrownBy(written[openFile], disk[openFile], e)
  BY <1>2, OpenFileWritten
<1> HIDE DEF e, written
<1>4. disk'[openFile].run = disk[openFile].run
  BY <1>1, <1>3 DEF GrownBy
<1>5. Ours' = Ours
  <2>1. Ours' = {n \in DOMAIN disk : disk'[n].run > 0}
    BY <1>1, <1>3 DEF Ours
  <2>2. \A n \in DOMAIN disk : disk'[n].run = disk[n].run
    BY <1>1, <1>3, <1>4
  <2> QED
    BY <2>1, <2>2 DEF Ours
<1> QED
  BY <1>1, <1>3, <1>5, EventLogged DEF e, Ours, Writes

\* An event that ends and fills its file.
LEMMA RotateMakes ==
    ASSUME IInv, RunInv, NumberInv, NameInv, pc = "event", NEW goesOn \in BOOLEAN,
           EndOfEvent(goesOn), Rotates
    PROVE  Fills([run |-> run, id |-> eventNo])
<1> DEFINE e == [run |-> run, id |-> eventNo]
           written == [disk EXCEPT ![openFile].events = Append(@, e)]
           filled == [histSets EXCEPT ![Len(histSets)] = Append(@, e)]
<1>1. NewFile(CloseFile(written), run, FALSE) /\ histSets' = Append(filled, <<>>)
  BY DEF EndOfEvent, CreateHistograms
<1>2. /\ e \in EventType /\ openFile \in Ours /\ InRun /\ run \in Nat \ {0}
      /\ eventNo \in Nat /\ fileNumber \in Nat /\ cfg' = cfg
  BY EventLogged DEF InRun, Logs
<1>3. /\ Disk(CloseFile(written)) /\ DOMAIN CloseFile(written) = DOMAIN disk
      /\ \A n \in DOMAIN disk \ {openFile} : CloseFile(written)[n] = disk[n]
      /\ GrownBy(CloseFile(written)[openFile], disk[openFile], e)
  BY <1>2, OpenFileWritten
<1> HIDE DEF e, written, filled
<1>4. /\ fileNumber' = fileNumber + 1 /\ DOMAIN disk' = DOMAIN disk \union {openFile'}
      /\ disk'[openFile'] = Content(fileNumber + 1, run, FALSE, 0)
      /\ disk'[openFile'].run = run
      /\ \A n \in DOMAIN disk \ {openFile'} : disk'[n] = CloseFile(written)[n]
      /\ ~MayOverwrite => openFile' \notin DOMAIN disk
      /\ MayOverwrite => openFile' = [number |-> IF Numbered THEN fileNumber + 1
                                                ELSE NoNumber, copy |-> 0]
  BY <1>1, <1>2, <1>3, NewFileMade DEF IInv, Types
<1>5. Ours' = Ours \union {openFile'}
  <2>1. disk'[openFile'].run > 0 /\ openFile' \in DOMAIN disk'
    <3>1. run > 0
      BY <1>2
    <3>2. disk'[openFile'].run = run /\ openFile' \in DOMAIN disk'
      BY <1>4, Zenon
    <3> QED
      BY <3>1, <3>2
  <2>2. \A n \in DOMAIN disk : n # openFile' => disk'[n].run = disk[n].run
    BY <1>3, <1>4 DEF GrownBy
  <2>3. \A n : n # openFile' => (n \in DOMAIN disk' <=> n \in DOMAIN disk)
    BY <1>4
  <2>4. Ours' = {n \in DOMAIN disk' : disk'[n].run > 0}
    BY DEF Ours
  <2> QED
    BY <2>1, <2>2, <2>3, <2>4 DEF Ours
<1>6. \A n \in Ours \ {openFile, openFile'} : disk'[n] = disk[n]
  BY <1>3, <1>4 DEF Ours
<1>7. openFile' # openFile => GrownBy(disk'[openFile], disk[openFile], e)
  BY <1>2, <1>3, <1>4 DEF Ours
<1>8. CASE ~OverwritesItself
  <2>1. ASSUME ~MayOverwrite PROVE openFile' \notin Ours
    BY <1>4, <2>1 DEF Ours
  <2>2. ASSUME MayOverwrite, Numbered PROVE openFile' \notin Ours
    <3>1. \A n \in Ours : n.number = disk[n].number /\ disk[n].number \in 0..fileNumber
      BY <2>2 DEF NameInv, NumberInv
    <3>2. openFile'.number = fileNumber + 1
      BY <1>4, <2>2
    <3> QED
      BY <1>2, <3>1, <3>2
  <2>3. ASSUME MayOverwrite, ~Numbered PROVE FALSE
    <3>1. /\ cfg.batch /\ cfg.nPerFile \in Nat \ {0} /\ cfg.nGenerate \in Nat
          /\ cfg.nGenerate # cfg.nPerFile /\ ~(cfg.nGenerate > cfg.nPerFile)
          /\ (eventNo + 1) % cfg.nPerFile = 0
      BY <1>8, <2>3, OptionFacts
         DEF MayOverwrite, Numbered, OverwritesItself, Rotates, IInv, Types
    <3>2. nRequested[run] = cfg.nGenerate
      BY <1>2, <3>1 DEF RunInv
    <3>3. eventNo + 1 < cfg.nPerFile
      BY <1>2, <3>1, <3>2 DEF RunInv
    <3>4. (eventNo + 1) % cfg.nPerFile = eventNo + 1
      BY <1>2, <3>1, <3>3, ModSmall
    <3> QED
      BY <1>2, <3>1, <3>4
  <2>4. openFile' \notin Ours
    BY <2>1, <2>2, <2>3
  <2> QED
    BY <1>1, <1>4, <1>5, <1>6, <1>7, <1>8, <2>4, EventLogged DEF e, filled, Fills
<1>9. CASE OverwritesItself
  <2>1. MayOverwrite /\ ~Numbered
    BY <1>9, OptionFacts DEF OverwritesItself, MayOverwrite, Numbered, IInv, Types
  <2>2. openFile' = [number |-> NoNumber, copy |-> 0]
    BY <1>4, <2>1
  <2>3. \A n \in Ours : n = [number |-> NoNumber, copy |-> 0]
    BY <1>9 DEF NameInv
  <2>4. Ours = {openFile} /\ openFile' = openFile
    BY <1>2, <2>2, <2>3
  <2> QED
    BY <1>1, <1>4, <1>5, <1>6, <1>7, <1>9, <2>4, EventLogged DEF e, filled, Fills
<1> QED
  BY <1>8, <1>9

\* The end of a run.
LEMMA EndRunMakes ==
    ASSUME IInv, EndRun
    PROVE  Ends
<1>1. openFile \in Ours /\ openFile \in DOMAIN disk /\ openFile' = Closed
  BY DEF EndRun, InRun, IInv, OpenInv, Ours
<1>2. /\ DOMAIN disk' = DOMAIN disk /\ \A n \in DOMAIN disk \ {openFile} : disk'[n] = disk[n]
      /\ disk'[openFile].run = disk[openFile].run
  BY RunFilled DEF EndRun, InRun
<1>3. Ours' = Ours
  <2>1. \A n \in DOMAIN disk : disk'[n].run = disk[n].run
    BY <1>2
  <2>2. Ours' = {n \in DOMAIN disk : disk'[n].run > 0}
    BY <1>2 DEF Ours
  <2> QED
    BY <2>1, <2>2 DEF Ours
<1>4. disk'[openFile] = [disk[openFile] EXCEPT !.saved = TRUE, !.hasRun = TRUE,
                           !.histos = histSets, !.requested = nRequested[run]]
  BY <1>1 DEF EndRun, CloseFile
<1>5. openFile' \notin Ours
  BY <1>1, ClosedIsNoName DEF Ours, IInv, Disk
<1> QED
  BY <1>1, <1>2, <1>3, <1>4, <1>5 DEF EndRun, Ours, Ends, run

\* A step of the program is one of these, and in batch mode a run begins once.
LEMMA StepMakes ==
    ASSUME IInv, FilesInv, [Next]_vars
    PROVE  \/ \E k \in Nat \ {0} : Begins(k) /\ (cfg.batch => run = 0 /\ k = cfg.nGenerate)
           \/ \E e : Writes(e) \/ Fills(e)
           \/ Ends \/ Leaves
<1>1. CASE BatchBeamOn
  <2>1. cfg.nGenerate \in Nat \ {0} /\ BeamOn(cfg.nGenerate) /\ run = 0
    BY <1>1, OptionFacts DEF BatchBeamOn, IInv, Types
  <2> QED
    BY <2>1, BeamOnMakes DEF FilesInv
<1>2. CASE InteractiveBeamOn
  <2>1. PICK k \in Nat \ {0} : BeamOn(k) /\ ~cfg.batch
    BY <1>2, BoundAssumption DEF InteractiveBeamOn
  <2> QED
    BY <2>1, BeamOnMakes DEF FilesInv
<1>3. ASSUME pc = "event", NEW goesOn \in BOOLEAN, EndOfEvent(goesOn)
      PROVE  \E e : Writes(e) \/ Fills(e)
  BY <1>3, WriteMakes, RotateMakes DEF FilesInv
<1>4. CASE ProcessEvent \/ ProcessEventWithSignal
  BY <1>3, <1>4 DEF ProcessEvent, ProcessEventWithSignal
<1>5. CASE EndRun
  BY <1>5, EndRunMakes
<1>6. CASE AbortEvent
  <2>1. PICK goesOn \in BOOLEAN : AfterEvent(goesOn)
    BY <1>6 DEF AbortEvent
  <2>2. /\ UNCHANGED <<cfg, fileNumber, openFile, disk, histSets, nRequested, log>>
        /\ eventNo' = eventNo + 1
        /\ pc' = "event" => eventNo' < nRequested[run]
    BY <1>6, <2>1 DEF AbortEvent, AfterEvent, files
  <2> QED
    BY <2>2 DEF Leaves, Ours, run
<1>7. CASE Quit \/ Kill \/ UNCHANGED vars
  <2>1. /\ UNCHANGED <<cfg, fileNumber, openFile, disk, histSets, nRequested, log>>
        /\ eventNo' = eventNo
        /\ pc' = "event" => pc = "event"
    BY <1>7 DEF Quit, Kill, vars, files
  <2>2. pc' = "event" => eventNo < nRequested[run]
    BY <2>1 DEF FilesInv, RunInv
  <2> QED
    BY <2>1, <2>2 DEF Leaves, Ours, run
<1> QED
  BY <1>1, <1>2, <1>4, <1>5, <1>6, <1>7 DEF Next, Terminated

-----------------------------------------------------------------------------
\* The contents of the files of the program have their types.
LEMMA OursTypes ==
    ASSUME IInv, NEW n \in Ours
    PROVE  /\ disk[n] \in ContentType /\ disk[n].number \in Int /\ disk[n].run \in Nat \ {0}
           /\ disk[n].events \in Seq(EventType) /\ disk[n].requested \in Nat
           /\ disk[n].hasRun \in BOOLEAN /\ disk[n].hasOptions \in BOOLEAN
           /\ run \in Nat /\ fileNumber \in Int /\ eventNo \in Nat
  BY DEF IInv, Types, Disk, Ours, ContentType, NoNumber, run

\* The events written in a file number are those of the log entries with it.
LEMMA EventsInType ==
    ASSUME log \in Seq(LogType), NEW j
    PROVE  LET S == {i \in DOMAIN log : log[i].file = j} IN
           /\ S \subseteq DOMAIN log /\ Written(j) \in Seq(LogType)
           /\ EventsIn(j) \in Seq(EventType) /\ Len(EventsIn(j)) = Len(Written(j))
           /\ \A i \in 1..Len(Written(j)) : EventsIn(j)[i] = Written(j)[i].event
<1> DEFINE S == {i \in DOMAIN log : log[i].file = j}
<1>1. S \subseteq DOMAIN log
  OBVIOUS
<1>2. Written(j) = AtPlaces(log, S)
  BY DEF Written
<1> HIDE DEF S
<1>3. Written(j) \in Seq(LogType)
  BY <1>1, <1>2, AtPlacesType
<1>4. EventsIn(j) = [i \in 1..Len(Written(j)) |-> Written(j)[i].event]
  BY <1>3 DEF EventsIn, EventsOf
<1>5. \A i \in 1..Len(Written(j)) : Written(j)[i].event \in EventType
  <2>1. \A i \in 1..Len(Written(j)) : Written(j)[i] \in LogType
    BY <1>3
  <2> QED
    BY <2>1 DEF LogType
<1>6. Len(Written(j)) \in Nat
  BY <1>3
<1> QED
  BY <1>1, <1>3, <1>4, <1>5, <1>6 DEF S

\* None are in a number that is not reached.
LEMMA NoneWritten ==
    ASSUME LogInv, fileNumber \in Int, NEW j \in Int, fileNumber < j
    PROVE  Held[j] = <<>>
<1> DEFINE S == {i \in DOMAIN log : log[i].file = j}
<1>1. S = {}
  <2>1. \A i \in DOMAIN log : log[i].file \in Nat /\ log[i].file <= fileNumber
    <3>1. \A i \in DOMAIN log : log[i] \in LogType
      BY DEF LogInv
    <3> QED
      BY <3>1 DEF LogInv, LogType
  <2> QED
    BY <2>1
<1>2. Written(j) = AtPlaces(log, {})
  BY <1>1 DEF Written
<1>3. log \in Seq(LogType)
  BY DEF LogInv
<1>4. Written(j) \in Seq(LogType) /\ Len(Written(j)) = 0
  BY <1>2, <1>3, AtPlacesType, FS_EmptySet
<1>5. EventsIn(j) \in Seq(EventType) /\ Len(EventsIn(j)) = 0
  BY <1>3, <1>4, EventsInType
<1> QED
  BY <1>5 DEF Held

\* An event that is logged comes last in the open file's number, and the others
\* are as they were.
LEMMA EventsInGrows ==
    ASSUME log \in Seq(LogType), NEW e, Logs(e), NEW j
    PROVE  EventsIn(j)' = IF j = fileNumber THEN Append(EventsIn(j), e) ELSE EventsIn(j)
<1> DEFINE entry == [event |-> e, file |-> fileNumber]
           S == {i \in DOMAIN log : log[i].file = j}
           S1 == {i \in DOMAIN log' : log'[i].file = j}
           m == Len(log) + 1
<1>1. log' = Append(log, entry) /\ entry \in LogType /\ e \in EventType
  BY DEF Logs, LogType
<1>2. /\ DOMAIN log' = DOMAIN log \union {m} /\ log'[m] = entry /\ m \notin DOMAIN log
      /\ \A i \in DOMAIN log : log'[i] = log[i]
  BY <1>1
<1>3. entry.file = fileNumber /\ entry.event = e
  OBVIOUS
<1>4. Written(j) = AtPlaces(log, S) /\ Written(j)' = AtPlaces(log', S1)
  BY DEF Written
<1>5. S \subseteq DOMAIN log
  OBVIOUS
<1>6. S1 = IF j = fileNumber THEN S \union {m} ELSE S
  <2>1. \A i \in DOMAIN log : i \in S1 <=> i \in S
    BY <1>2
  <2>2. m \in S1 <=> j = fileNumber
    BY <1>2, <1>3
  <2>3. \A i \in S1 : i \in DOMAIN log \/ i = m
    BY <1>2
  <2>4. \A i \in S : i \in DOMAIN log
    OBVIOUS
  <2> HIDE DEF S, S1, m
  <2>5. CASE j = fileNumber
    <3>1. \A i : i \in S1 <=> i \in S \union {m}
      BY <2>1, <2>2, <2>3, <2>4, <2>5
    <3> QED
      BY <2>5, <3>1
  <2>6. CASE j # fileNumber
    <3>1. \A i : i \in S1 <=> i \in S
      BY <2>1, <2>2, <2>3, <2>4, <2>6
    <3> QED
      BY <2>6, <3>1
  <2> QED
    BY <2>5, <2>6
<1> HIDE DEF S, S1, entry
<1>7. /\ AtPlaces(Append(log, entry), S) = AtPlaces(log, S)
      /\ AtPlaces(Append(log, entry), S \union {m}) = Append(AtPlaces(log, S), entry)
  BY <1>1, <1>5, AtPlacesGrows
<1>8. Written(j)' = IF j = fileNumber THEN Append(Written(j), entry) ELSE Written(j)
  BY <1>1, <1>4, <1>6, <1>7
<1>9. /\ Written(j) \in Seq(LogType) /\ EventsIn(j) \in Seq(EventType)
      /\ Len(EventsIn(j)) = Len(Written(j))
      /\ \A i \in 1..Len(Written(j)) : EventsIn(j)[i] = Written(j)[i].event
  BY EventsInType
<1>10. EventsIn(j)' = [i \in DOMAIN Written(j)' |-> Written(j)'[i].event]
  BY DEF EventsIn, EventsOf
<1>11. CASE j # fileNumber
  BY <1>8, <1>10, <1>11 DEF EventsIn, EventsOf
<1>12. CASE j = fileNumber
  <2> DEFINE w == Written(j)
             v == EventsIn(j)
  <2>1. EventsIn(j)' = [i \in DOMAIN Append(w, entry) |-> Append(w, entry)[i].event]
    BY <1>8, <1>10, <1>12
  <2>2. w \in Seq(LogType) /\ v \in Seq(EventType) /\ Len(v) = Len(w)
        /\ \A i \in 1..Len(w) : v[i] = w[i].event
    BY <1>9
  <2> HIDE DEF w, v
  <2>3. Len(w) \in Nat /\ DOMAIN Append(w, entry) = 1..(Len(w) + 1)
    BY <1>1, <2>2
  <2>4. \A i \in 1..(Len(w) + 1) : Append(w, entry)[i].event = Append(v, e)[i]
    BY <1>1, <1>3, <2>2, <2>3
  <2>5. Append(v, e) = [i \in 1..(Len(w) + 1) |-> Append(v, e)[i]]
    <3>1. Append(v, e) \in Seq(EventType) /\ Len(Append(v, e)) = Len(w) + 1
      BY <1>1, <2>2, <2>3
    <3> DEFINE u == Append(v, e)
    <3>2. u \in Seq(EventType) /\ Len(u) = Len(w) + 1
      BY <3>1
    <3> HIDE DEF u
    <3>3. u = [i \in 1..(Len(w) + 1) |-> u[i]]
      BY <3>2
    <3> QED
      BY <3>3 DEF u
  <2>6. EventsIn(j)' = Append(v, e)
    BY <2>1, <2>3, <2>4, <2>5
  <2> QED
    BY <1>12, <2>6 DEF v
<1> QED
  BY <1>11, <1>12

LEMMA HeldGrows ==
    ASSUME log \in Seq(LogType), NEW e, Logs(e), NEW j \in Int
    PROVE  Held'[j] = IF j = fileNumber THEN Append(Held[j], e) ELSE Held[j]
<1>1. Held'[j] = EventsIn(j)' /\ Held[j] = EventsIn(j)
  BY DEF Held
<1> QED
  BY <1>1, EventsInGrows

LEMMA HeldKept == ASSUME log' = log PROVE Held' = Held
  BY DEF Held, EventsIn, EventsOf, Written

LEMMA HeldType ==
    ASSUME log \in Seq(LogType), NEW j \in Int PROVE Held[j] \in Seq(EventType)
  BY EventsInType DEF Held

-----------------------------------------------------------------------------
LEMMA RunInvKept == ASSUME IInv, FilesInv, [Next]_vars PROVE RunInv'
<1> USE DEF RunInv
<1>1. ASSUME NEW k \in Nat \ {0}, Begins(k), cfg.batch => run = 0 /\ k = cfg.nGenerate
      PROVE  RunInv'
  <2>1. /\ nRequested' = Append(nRequested, k) /\ run' = run + 1 /\ run \in Nat
        /\ nRequested \in Seq(Nat \ {0}) /\ run = Len(nRequested) /\ cfg' = cfg /\ eventNo' = 0
    BY <1>1 DEF Begins, IInv, Types, run
  <2>2. nRequested'[run + 1] = k
    BY <2>1
  <2>3. cfg.batch => run' = 1 /\ nRequested'[1] = cfg.nGenerate
    BY <1>1, <2>1, <2>2
  <2>4. eventNo' < nRequested'[run']
    BY <1>1, <2>1, <2>2
  <2>5. ASSUME NEW n \in Ours' PROVE disk'[n].run <= run'
    <3>1. CASE n \in Ours
      BY <1>1, <2>1, <3>1, OursTypes DEF Begins, FilesInv
    <3>2. CASE n = openFile'
      <4>1. disk'[n].run = run + 1
        BY <1>1, <3>2 DEF Begins, Content
      <4> QED
        BY <2>1, <4>1
    <3> QED
      BY <1>1, <3>1, <3>2 DEF Begins
  <2> QED
    BY <2>1, <2>3, <2>4, <2>5
<1>2. ASSUME NEW e, Writes(e) \/ Fills(e) PROVE RunInv'
  <2>1. /\ cfg' = cfg /\ nRequested' = nRequested /\ run' = run /\ eventNo' = eventNo + 1
        /\ pc' = "event" => eventNo + 1 < nRequested[run]
    BY <1>2 DEF Writes, Fills, Logs
  <2>2. ASSUME NEW n \in Ours' PROVE disk'[n].run <= run
    <3>1. run \in Nat
      BY <1>2 DEF Writes, Fills, Logs
    <3>2. CASE n # openFile /\ n # openFile'
      BY <1>2, <3>2 DEF Writes, Fills, FilesInv
    <3>3. CASE n = openFile' /\ Fills(e)
      <4>1. disk'[n].run = run
        BY <3>3 DEF Fills, Content
      <4> QED
        BY <3>1, <4>1
    <3>4. CASE n = openFile /\ GrownBy(disk'[openFile], disk[openFile], e)
      BY <1>2, <3>4 DEF Writes, Fills, Logs, GrownBy, FilesInv
    <3> QED
      BY <1>2, <3>2, <3>3, <3>4 DEF Writes, Fills
  <2> QED
    BY <2>1, <2>2 DEF FilesInv
<1>3. CASE Ends
  <2>1. \A n \in Ours : disk'[n].run = disk[n].run
    <3>1. disk[openFile] \in ContentType
      BY <1>3, OursTypes DEF Ends
    <3>2. disk'[openFile].run = disk[openFile].run
      BY <1>3, <3>1 DEF Ends, ContentType
    <3> QED
      BY <1>3, <3>2 DEF Ends
  <2> QED
    BY <1>3, <2>1 DEF Ends, FilesInv
<1>4. CASE Leaves
  BY <1>4 DEF Leaves, FilesInv
<1> QED
  BY <1>1, <1>2, <1>3, <1>4, StepMakes

LEMMA LogInvKept == ASSUME IInv, FilesInv, [Next]_vars PROVE LogInv'
<1> USE DEF LogInv
<1>0. /\ log \in Seq(LogType) /\ \A i \in DOMAIN log : log[i] \in LogType
      /\ fileNumber \in Int /\ eventNo \in Nat
  BY DEF FilesInv, LogInv, IInv, Types
<1>1. ASSUME NEW k, Begins(k) PROVE LogInv'
  <2>1. log' = log /\ run' = run + 1 /\ run \in Nat /\ fileNumber' = fileNumber + 1
    BY <1>1 DEF Begins
  <2>2. \A i \in DOMAIN log : log[i].event.run \in Nat /\ log[i].file \in Nat
    BY <1>0 DEF LogType, EventType
  <2> QED
    BY <1>0, <2>1, <2>2 DEF FilesInv
<1>2. ASSUME NEW e, Writes(e) \/ Fills(e) PROVE LogInv'
  <2> DEFINE entry == [event |-> e, file |-> fileNumber]
  <2>1. /\ log' = Append(log, entry) /\ entry \in LogType /\ fileNumber \in Nat
        /\ fileNumber' \in {fileNumber, fileNumber + 1} /\ eventNo' = eventNo + 1 /\ run' = run
        /\ e = [run |-> run, id |-> eventNo] /\ run \in Nat
    BY <1>2 DEF Writes, Fills, Logs, LogType
  <2>2. entry.file = fileNumber /\ entry.event.run = run /\ entry.event.id = eventNo
    BY <2>1
  <2> HIDE DEF entry
  <2>3. log' \in Seq(LogType) /\ DOMAIN log' = DOMAIN log \union {Len(log) + 1}
        /\ log'[Len(log) + 1] = entry /\ \A i \in DOMAIN log : log'[i] = log[i]
    BY <1>0, <2>1
  <2>4. ASSUME NEW i \in DOMAIN log
        PROVE  /\ log'[i].file <= fileNumber' /\ log'[i].event.run <= run'
               /\ log'[i].event.run = run' => log'[i].event.id < eventNo'
    <3>1. log[i].file \in Nat /\ log[i].event.id \in Nat
      BY <1>0 DEF LogType, EventType
    <3> QED
      BY <1>0, <2>1, <2>3, <3>1 DEF FilesInv
  <2> QED
    BY <1>0, <2>1, <2>2, <2>3, <2>4
<1>3. CASE Ends
  BY <1>3 DEF Ends, FilesInv
<1>4. CASE Leaves
  <2>1. \A i \in DOMAIN log : log[i].event.id \in Nat
    BY <1>0 DEF LogType, EventType
  <2> QED
    BY <1>0, <1>4, <2>1 DEF Leaves, FilesInv
<1> QED
  BY <1>1, <1>2, <1>3, <1>4, StepMakes

-----------------------------------------------------------------------------
\* A step opens no file and leaves the number, run and options of each;
Stays ==
    /\ cfg' = cfg /\ fileNumber' = fileNumber /\ Ours' = Ours
    /\ \A n \in Ours : /\ disk'[n].number = disk[n].number /\ disk'[n].run = disk[n].run
                       /\ disk'[n].hasOptions = disk[n].hasOptions
    /\ Len(histSets') = Len(histSets)
    /\ \/ /\ openFile' = openFile /\ run' = run
          /\ openFile \in Ours => disk'[openFile].hasRun = disk[openFile].hasRun
       \/ openFile' \notin Ours

\* or opens one, of the next number and the first of its run if a run begins, and
\* leaves the others.
Opens ==
    /\ cfg' = cfg /\ fileNumber' = fileNumber + 1
    /\ disk'[openFile'].number = fileNumber + 1 /\ disk'[openFile'].run = run'
    /\ disk'[openFile'].hasRun = FALSE /\ disk'[openFile'].requested = 0
    /\ disk'[openFile'].events = <<>>
    /\ \/ openFile' \notin Ours /\ Ours' = Ours \union {openFile'}
       \/ Ours = {openFile'} /\ Ours' = {openFile'} /\ openFile \in Ours /\ OverwritesItself
    /\ \A n \in Ours \ {openFile'} :
         /\ disk'[n].number = disk[n].number /\ disk'[n].run = disk[n].run
         /\ disk'[n].hasOptions = disk[n].hasOptions /\ disk'[n].hasRun = disk[n].hasRun
         /\ disk'[n].requested = disk[n].requested
    /\ MayOverwrite => openFile' = [number |-> IF Numbered THEN fileNumber + 1 ELSE NoNumber,
                                    copy |-> 0]
    /\ Len(histSets') = Len(histSets) + 1
    /\ \/ run' = run /\ openFile \in Ours /\ disk'[openFile'].hasOptions = FALSE
       \/ run' = run + 1 /\ disk'[openFile'].hasOptions = TRUE /\ openFile \notin Ours

LEMMA BeginsOpens == ASSUME IInv, NEW k, Begins(k) PROVE Opens
<1>1. /\ disk'[openFile'].number = fileNumber + 1 /\ disk'[openFile'].run = run'
      /\ disk'[openFile'].hasRun = FALSE /\ disk'[openFile'].requested = 0
      /\ disk'[openFile'].events = <<>> /\ disk'[openFile'].hasOptions = TRUE
  BY DEF Begins, Content
<1>2. Len(histSets') = Len(histSets) + 1
  BY DEF Begins, IInv, Types
<1> QED
  BY <1>1, <1>2 DEF Begins, Opens

LEMMA FillsOpens == ASSUME IInv, NEW e, Fills(e) PROVE Opens
<1>1. /\ disk'[openFile'].number = fileNumber + 1 /\ disk'[openFile'].run = run
      /\ disk'[openFile'].hasRun = FALSE /\ disk'[openFile'].requested = 0
      /\ disk'[openFile'].events = <<>> /\ disk'[openFile'].hasOptions = FALSE
  BY DEF Fills, Content
<1>2. Len(histSets') = Len(histSets) + 1
  BY DEF Fills, IInv, Types
<1>3. \A n \in Ours \ {openFile'} :
         /\ disk'[n].number = disk[n].number /\ disk'[n].run = disk[n].run
         /\ disk'[n].hasOptions = disk[n].hasOptions /\ disk'[n].hasRun = disk[n].hasRun
         /\ disk'[n].requested = disk[n].requested
  BY DEF Fills, GrownBy
<1> QED
  BY <1>1, <1>2, <1>3 DEF Fills, Logs, Opens

LEMMA WritesStays == ASSUME IInv, NEW e, Writes(e) PROVE Stays
<1>1. Len(histSets') = Len(histSets)
  BY DEF Writes, IInv, Types
<1>2. \A n \in Ours : /\ disk'[n].number = disk[n].number /\ disk'[n].run = disk[n].run
                      /\ disk'[n].hasOptions = disk[n].hasOptions
                      /\ disk'[n].hasRun = disk[n].hasRun
  BY DEF Writes, GrownBy
<1> QED
  BY <1>1, <1>2 DEF Writes, Logs, Stays

LEMMA EndsStays == ASSUME IInv, Ends PROVE Stays
<1>1. disk[openFile] \in ContentType
  BY OursTypes DEF Ends
<1>2. /\ disk'[openFile].number = disk[openFile].number /\ disk'[openFile].run = disk[openFile].run
      /\ disk'[openFile].hasOptions = disk[openFile].hasOptions
  BY <1>1 DEF Ends, ContentType
<1> QED
  BY <1>2 DEF Ends, Stays

LEMMA StepOpensOrStays == ASSUME IInv, FilesInv, [Next]_vars PROVE Opens \/ Stays
<1>1. Leaves => Stays
  BY DEF Leaves, Stays
<1> QED
  BY <1>1, StepMakes, BeginsOpens, FillsOpens, WritesStays, EndsStays

LEMMA NumberInvKept == ASSUME IInv, FilesInv, [Next]_vars PROVE NumberInv'
<1>0. /\ NumberInv /\ fileNumber \in Int /\ Len(histSets) \in Nat
      /\ \A n \in Ours : disk[n].number \in Int
  BY OursTypes DEF FilesInv, IInv, Types
<1>1. CASE Opens
  <2>1. \A n \in Ours' : n = openFile' \/ (n # openFile' /\ n \in Ours)
    BY <1>1 DEF Opens
  <2>2. \A n \in Ours \ {openFile'} : disk'[n].number = disk[n].number
                                      /\ disk[n].number \in 0..fileNumber
    BY <1>0, <1>1 DEF Opens, NumberInv
  <2>3. disk'[openFile'].number = fileNumber + 1 /\ fileNumber' = fileNumber + 1
        /\ Len(histSets') = Len(histSets) + 1 /\ fileNumber + 1 \in Nat
    BY <1>0, <1>1 DEF Opens, NumberInv
  <2>4. \A n \in Ours' : disk'[n].number \in 0..fileNumber'
    BY <1>0, <2>1, <2>2, <2>3
  <2>5. ASSUME NEW m \in Ours', NEW n \in Ours', disk'[m].number = disk'[n].number PROVE m = n
    <3>1. CASE m # openFile' /\ n # openFile'
      BY <1>0, <2>1, <2>2, <2>5, <3>1 DEF NumberInv
    <3>2. CASE m = openFile' \/ n = openFile'
      BY <1>0, <2>1, <2>2, <2>3, <2>5, <3>2
    <3> QED
      BY <3>1, <3>2
  <2> QED
    BY <1>0, <1>1, <2>3, <2>4, <2>5 DEF NumberInv, Opens
<1>2. CASE Stays
  BY <1>0, <1>2 DEF NumberInv, Stays
<1> QED
  BY <1>1, <1>2, StepOpensOrStays

LEMMA NameInvKept == ASSUME IInv, FilesInv, [Next]_vars PROVE NameInv'
<1>0. /\ NameInv /\ NumberInv /\ fileNumber \in Int /\ fileNumber + 1 \in Nat
      /\ \A n \in Ours : disk[n].number \in Int
  BY OursTypes DEF FilesInv, IInv, Types
<1>1. CASE Opens
  <2>1. /\ MayOverwrite' = MayOverwrite /\ Numbered' = Numbered
        /\ OverwritesItself' = OverwritesItself
    BY <1>1 DEF Opens, MayOverwrite, Numbered, OverwritesItself
  <2>2. \A n \in Ours' : n = openFile' \/ (n # openFile' /\ n \in Ours)
    BY <1>1 DEF Opens
  <2>3. /\ disk'[openFile'].number = fileNumber + 1 /\ fileNumber' = fileNumber + 1
        /\ \A n \in Ours \ {openFile'} : disk'[n].number = disk[n].number
        /\ openFile' \in Ours'
    BY <1>1 DEF Opens
  <2>4. ASSUME MayOverwrite, Numbered, NEW n \in Ours' PROVE n.number = disk'[n].number
    <3>1. CASE n = openFile'
      <4>1. openFile'.number = fileNumber + 1
        BY <1>1, <2>4 DEF Opens
      <4> QED
        BY <2>3, <3>1, <4>1
    <3>2. CASE n # openFile'
      BY <1>0, <2>2, <2>3, <2>4, <3>2 DEF NameInv
    <3> QED
      BY <3>1, <3>2
  <2>5. ASSUME ~OverwritesItself, NEW j \in 0..fileNumber' PROVE \E n \in Ours' : disk'[n].number = j
    <3>1. CASE j = fileNumber + 1
      BY <2>3, <3>1
    <3>2. CASE j \in 0..fileNumber
      <4>1. PICK n \in Ours : disk[n].number = j
        BY <1>0, <2>5, <3>2 DEF NameInv
      <4>2. openFile' \notin Ours /\ Ours' = Ours \union {openFile'}
        BY <1>1, <2>5 DEF Opens
      <4> QED
        BY <2>3, <4>1, <4>2
    <3> QED
      BY <1>0, <2>3, <2>5, <3>1, <3>2
  <2>6. ASSUME OverwritesItself, NEW n \in Ours' PROVE n = [number |-> NoNumber, copy |-> 0]
    <3>1. MayOverwrite /\ ~Numbered
      BY <2>6, OptionFacts DEF OverwritesItself, MayOverwrite, Numbered, IInv, Types
    <3>2. openFile' = [number |-> NoNumber, copy |-> 0]
      BY <1>1, <3>1 DEF Opens
    <3> QED
      BY <1>0, <2>2, <2>6, <3>2 DEF NameInv
  <2> QED
    BY <2>1, <2>4, <2>5, <2>6 DEF NameInv
<1>2. CASE Stays
  <2>1. /\ MayOverwrite' = MayOverwrite /\ Numbered' = Numbered
        /\ OverwritesItself' = OverwritesItself
    BY <1>2 DEF Stays, MayOverwrite, Numbered, OverwritesItself
  <2> QED
    BY <1>0, <1>2, <2>1 DEF NameInv, Stays
<1> QED
  BY <1>1, <1>2, StepOpensOrStays

-----------------------------------------------------------------------------
\* The sets of histograms, after an event and after a new file.
LEMMA HistSetsGrow ==
    ASSUME IInv, FilesInv, NEW e, Logs(e),
           histSets' = [histSets EXCEPT ![Len(histSets)] = Append(@, e)]
           \/ histSets' = Append([histSets EXCEPT ![Len(histSets)] = Append(@, e)], <<>>)
    PROVE  \A j \in 1..Len(histSets') : histSets'[j] = Held'[j - 1]
<1> DEFINE filled == [histSets EXCEPT ![Len(histSets)] = Append(@, e)]
<1>1. /\ histSets \in Seq(Seq(EventType)) /\ Len(histSets) = fileNumber + 1 /\ fileNumber \in Nat
      /\ log \in Seq(LogType) /\ LogInv /\ e \in EventType
      /\ \A j \in 1..Len(histSets) : histSets[j] = Held[j - 1]
  BY DEF IInv, Types, FilesInv, NumberInv, LogInv, EventsInv, Logs
<1>2. filled \in Seq(Seq(EventType)) /\ Len(filled) = fileNumber + 1
  <2>1. Len(histSets) \in 1..Len(histSets)
    BY <1>1
  <2>2. histSets[Len(histSets)] \in Seq(EventType)
    BY <1>1, <2>1
  <2>3. Append(histSets[Len(histSets)], e) \in Seq(EventType)
    BY <1>1, <2>2
  <2> QED
    BY <1>1, <2>3
<1>3. ASSUME NEW j \in 1..(fileNumber + 1) PROVE filled[j] = Held'[j - 1]
  <2>1. Held'[j - 1] = IF j - 1 = fileNumber THEN Append(Held[j - 1], e) ELSE Held[j - 1]
    BY <1>1, HeldGrows
  <2>2. filled[j] = IF j = Len(histSets) THEN Append(histSets[j], e) ELSE histSets[j]
    BY <1>1
  <2> HIDE DEF filled
  <2> QED
    BY <1>1, <2>1, <2>2
<1>4. Held'[fileNumber + 1] = <<>>
  <2>1. Held[fileNumber + 1] = <<>>
    BY <1>1, NoneWritten
  <2>2. Held'[fileNumber + 1] = Held[fileNumber + 1]
    BY <1>1, HeldGrows
  <2> QED
    BY <2>1, <2>2
<1>5. CASE histSets' = filled
  BY <1>1, <1>2, <1>3, <1>5
<1>6. CASE histSets' = Append(filled, <<>>)
  <2> HIDE DEF filled
  <2>1. Len(histSets') = fileNumber + 2 /\ histSets'[fileNumber + 2] = <<>>
        /\ \A j \in 1..(fileNumber + 1) : histSets'[j] = filled[j]
    BY <1>1, <1>2, <1>6
  <2>2. ASSUME NEW j \in 1..(fileNumber + 2) PROVE histSets'[j] = Held'[j - 1]
    <3>1. CASE j \in 1..(fileNumber + 1)
      BY <1>3, <2>1, <3>1
    <3>2. CASE j = fileNumber + 2
      <4>1. j - 1 = fileNumber + 1
        BY <1>1, <3>2
      <4> QED
        BY <1>4, <2>1, <3>2, <4>1
    <3> QED
      BY <1>1, <3>1, <3>2
  <2> QED
    BY <2>1, <2>2
<1> QED
  BY <1>5, <1>6

\* The Run entry of a file that is closed is of numbers that are written no more.
LEMMA HistosKept ==
    ASSUME IInv, FilesInv, NEW e, Logs(e), NEW n \in Ours, disk[n].hasRun
    PROVE  disk[n].histos = [j \in 1..(disk[n].number + 1) |-> Held'[j - 1]]
<1>1. /\ openFile \in Ours /\ disk[openFile].number = fileNumber /\ ~disk[openFile].hasRun
      /\ fileNumber \in Nat /\ log \in Seq(LogType)
  BY DEF FilesInv, NumberInv, LogInv, Logs
<1>2. disk[n].number \in 0..fileNumber /\ disk[n].number # fileNumber
  BY <1>1 DEF FilesInv, NumberInv
<1>3. disk[n].histos = [j \in 1..(disk[n].number + 1) |-> Held[j - 1]]
  BY DEF FilesInv, EventsInv
<1>4. ASSUME NEW j \in 1..(disk[n].number + 1) PROVE Held'[j - 1] = Held[j - 1]
  <2>1. j - 1 # fileNumber /\ j - 1 \in Int
    BY <1>1, <1>2
  <2> QED
    BY <1>1, <2>1, HeldGrows
<1> QED
  BY <1>3, <1>4

\* The events of each file of the program, after an event.
LEMMA FileEventsGrow ==
    ASSUME IInv, FilesInv, NEW e, Logs(e), NEW n \in Ours
    PROVE  Held'[disk[n].number] = IF n = openFile THEN Append(disk[n].events, e)
                                   ELSE disk[n].events
<1>1. /\ openFile \in Ours /\ disk[openFile].number = fileNumber /\ log \in Seq(LogType)
      /\ disk[n].number \in Int /\ disk[n].events = Held[disk[n].number]
  BY OursTypes DEF FilesInv, NumberInv, LogInv, Logs, EventsInv
<1>2. disk[n].number = fileNumber <=> n = openFile
  BY <1>1 DEF FilesInv, NumberInv
<1> QED
  BY <1>1, <1>2, HeldGrows

LEMMA EventsInvKept == ASSUME IInv, FilesInv, [Next]_vars PROVE EventsInv'
<1>0. /\ EventsInv /\ LogInv /\ NumberInv /\ fileNumber \in Int /\ log \in Seq(LogType)
      /\ \A n \in Ours : disk[n].number \in 0..fileNumber
      /\ histSets \in Seq(Seq(EventType)) /\ Len(histSets) = fileNumber + 1
      /\ fileNumber + 1 \in Nat
  BY OursTypes DEF FilesInv, IInv, Types, LogInv, NumberInv
<1>1. Held[fileNumber + 1] = <<>>
  BY <1>0, NoneWritten
<1>2. ASSUME NEW k, Begins(k) PROVE EventsInv'
  <2>1. /\ log' = log /\ histSets' = Append(histSets, <<>>) /\ Ours' = Ours \union {openFile'}
        /\ \A n \in Ours : disk'[n] = disk[n]
    BY <1>2 DEF Begins
  <2>2. Held' = Held
    BY <2>1, HeldKept
  <2>3. /\ disk'[openFile'].number = fileNumber + 1 /\ disk'[openFile'].hasRun = FALSE
        /\ disk'[openFile'].events = <<>>
    BY <1>2, BeginsOpens DEF Opens
  <2>4. \A n \in Ours' : disk'[n].events = Held[disk'[n].number]
    BY <1>0, <1>1, <2>1, <2>3 DEF EventsInv
  <2>5. ASSUME NEW j \in 1..Len(histSets') PROVE histSets'[j] = Held[j - 1]
    <3>1. CASE j \in 1..Len(histSets)
      BY <1>0, <2>1, <3>1 DEF EventsInv
    <3>2. CASE j = Len(histSets) + 1
      <4>1. j - 1 = fileNumber + 1 /\ histSets'[j] = <<>>
        BY <1>0, <2>1, <3>2
      <4> QED
        BY <1>1, <4>1
    <3>3. Len(histSets') = Len(histSets) + 1 /\ Len(histSets) \in Nat
      BY <1>0, <2>1
    <3> QED
      BY <3>1, <3>2, <3>3
  <2>6. \A n \in Ours' : disk'[n].hasRun =>
          disk'[n].histos = [j \in 1..(disk'[n].number + 1) |-> Held[j - 1]]
    BY <1>0, <2>1, <2>3 DEF EventsInv
  <2> QED
    BY <2>2, <2>4, <2>5, <2>6 DEF EventsInv
<1>3. ASSUME NEW e, Writes(e) PROVE EventsInv'
  <2>1. /\ Logs(e) /\ Ours' = Ours /\ \A n \in Ours \ {openFile} : disk'[n] = disk[n]
        /\ GrownBy(disk'[openFile], disk[openFile], e)
        /\ histSets' = [histSets EXCEPT ![Len(histSets)] = Append(@, e)]
    BY <1>3 DEF Writes
  <2>2. \A n \in Ours : disk'[n].number = disk[n].number /\ disk'[n].hasRun = disk[n].hasRun
                        /\ disk'[n].histos = disk[n].histos
    BY <2>1 DEF GrownBy
  <2>3. \A n \in Ours : disk'[n].events = Held'[disk'[n].number]
    <3>1. \A n \in Ours : disk'[n].events = IF n = openFile THEN Append(disk[n].events, e)
                                            ELSE disk[n].events
      BY <2>1 DEF GrownBy
    <3>2. \A n \in Ours : disk'[n].events = Held'[disk[n].number]
      BY <2>1, <3>1, FileEventsGrow
    <3> QED
      BY <2>2, <3>2
  <2>4. \A j \in 1..Len(histSets') : histSets'[j] = Held'[j - 1]
    BY <2>1, HistSetsGrow
  <2>5. \A n \in Ours : disk'[n].hasRun =>
          disk'[n].histos = [j \in 1..(disk'[n].number + 1) |-> Held'[j - 1]]
    BY <2>1, <2>2, HistosKept
  <2> QED
    BY <2>1, <2>3, <2>4, <2>5 DEF EventsInv
<1>4. ASSUME NEW e, Fills(e) PROVE EventsInv'
  <2>1. /\ Logs(e) /\ \A n \in Ours' : n # openFile' => n \in Ours
        /\ \A n \in Ours \ {openFile, openFile'} : disk'[n] = disk[n]
        /\ openFile' # openFile => GrownBy(disk'[openFile], disk[openFile], e)
        /\ histSets' = Append([histSets EXCEPT ![Len(histSets)] = Append(@, e)], <<>>)
    BY <1>4 DEF Fills
  <2>2. \A n \in Ours \ {openFile'} :
            /\ disk'[n].number = disk[n].number /\ disk'[n].hasRun = disk[n].hasRun
            /\ disk'[n].histos = disk[n].histos
    BY <2>1 DEF GrownBy
  <2>3. /\ disk'[openFile'].number = fileNumber + 1 /\ disk'[openFile'].hasRun = FALSE
        /\ disk'[openFile'].events = <<>>
    BY <1>4, FillsOpens DEF Opens
  <2>4. Held'[fileNumber + 1] = <<>>
    <3>1. Held'[fileNumber + 1] = Held[fileNumber + 1]
      BY <1>0, <2>1, HeldGrows
    <3> QED
      BY <1>1, <3>1
  <2>5. \A n \in Ours \ {openFile'} : disk'[n].events = Held'[disk'[n].number]
    <3>1. \A n \in Ours \ {openFile'} :
             disk'[n].events = IF n = openFile THEN Append(disk[n].events, e) ELSE disk[n].events
      BY <2>1 DEF GrownBy
    <3>2. \A n \in Ours \ {openFile'} : disk'[n].events = Held'[disk[n].number]
      BY <2>1, <3>1, FileEventsGrow
    <3> QED
      BY <2>2, <3>2
  <2>6. \A n \in Ours' : disk'[n].events = Held'[disk'[n].number]
    BY <2>1, <2>3, <2>4, <2>5
  <2>7. \A j \in 1..Len(histSets') : histSets'[j] = Held'[j - 1]
    BY <2>1, HistSetsGrow
  <2>8. \A n \in Ours \ {openFile'} : disk'[n].hasRun =>
          disk'[n].histos = [j \in 1..(disk'[n].number + 1) |-> Held'[j - 1]]
    BY <2>1, <2>2, HistosKept
  <2>9. \A n \in Ours' : disk'[n].hasRun =>
          disk'[n].histos = [j \in 1..(disk'[n].number + 1) |-> Held'[j - 1]]
    BY <2>1, <2>3, <2>8
  <2> QED
    BY <2>6, <2>7, <2>9 DEF EventsInv
<1>5. CASE Ends
  <2>1. /\ Ours' = Ours /\ openFile \in Ours /\ log' = log /\ histSets' = histSets
        /\ \A n \in Ours \ {openFile} : disk'[n] = disk[n]
    BY <1>5 DEF Ends
  <2>2. Held' = Held
    BY <2>1, HeldKept
  <2>3. disk[openFile] \in ContentType /\ disk[openFile].number = fileNumber
    BY <1>0, <2>1, OursTypes DEF NumberInv
  <2>4. /\ disk'[openFile].number = fileNumber /\ disk'[openFile].events = disk[openFile].events
        /\ disk'[openFile].histos = histSets
    BY <1>5, <2>3 DEF Ends, ContentType
  <2>5. histSets = [j \in 1..(fileNumber + 1) |-> Held[j - 1]]
    <3>1. histSets = [j \in 1..Len(histSets) |-> histSets[j]]
      BY <1>0
    <3> QED
      BY <1>0, <3>1 DEF EventsInv
  <2>6. \A n \in Ours : disk'[n].events = Held[disk'[n].number]
    <3>1. disk[openFile].events = Held[fileNumber]
      BY <1>0, <2>1, <2>3 DEF EventsInv
    <3>2. \A n \in Ours \ {openFile} : disk'[n].events = Held[disk'[n].number]
      BY <1>0, <2>1 DEF EventsInv
    <3> QED
      BY <2>4, <3>1, <3>2
  <2>7. \A n \in Ours : disk'[n].hasRun =>
          disk'[n].histos = [j \in 1..(disk'[n].number + 1) |-> Held[j - 1]]
    BY <1>0, <2>1, <2>4, <2>5 DEF EventsInv
  <2> QED
    <3>1. \A j \in 1..Len(histSets') : histSets'[j] = Held[j - 1]
      BY <1>0, <2>1 DEF EventsInv
    <3>2. /\ \A n \in Ours' : disk'[n].events = Held[disk'[n].number]
          /\ \A n \in Ours' : disk'[n].hasRun =>
               disk'[n].histos = [j \in 1..(disk'[n].number + 1) |-> Held[j - 1]]
      BY <2>1, <2>6, <2>7
    <3> HIDE DEF Held, Ours
    <3> QED
      BY <2>2, <3>1, <3>2 DEF EventsInv
<1>6. CASE Leaves
  <2>1. Held' = Held
    BY <1>6, HeldKept DEF Leaves
  <2> QED
    BY <1>0, <1>6, <2>1 DEF EventsInv, Leaves
<1> QED
  BY <1>2, <1>3, <1>4, <1>5, <1>6, StepMakes

-----------------------------------------------------------------------------
\* Which files are the last and the first of their runs, when one is opened.
LEMMA LastAndFirst ==
    ASSUME IInv, FilesInv, Opens
    PROVE  /\ openFile' \in Lasts'
           /\ \A n \in Ours \ {openFile'} :
                n \in Lasts' <=> (n \in Lasts /\ disk[n].run # run')
           /\ \A n \in Ours \ {openFile'} : ~OverwritesItself => (n \in Firsts' <=> n \in Firsts)
           /\ ~OverwritesItself => (openFile' \in Firsts' <=> openFile \notin Ours)
<1> DEFINE new == openFile'
<1>0. /\ fileNumber \in Int /\ run \in Nat /\ NumberInv
      /\ \A n \in Ours : disk[n].number \in 0..fileNumber /\ disk[n].run \in Nat
                         /\ disk[n].run <= run
  BY OursTypes DEF FilesInv, NumberInv, RunInv, IInv, Types, run
<1>1. /\ disk'[new].number = fileNumber + 1 /\ disk'[new].run = run' /\ new \in Ours'
      /\ \A n \in Ours' : n # new => n \in Ours
      /\ \A n \in Ours \ {new} : disk'[n].number = disk[n].number /\ disk'[n].run = disk[n].run
  BY DEF Opens
<1>2. /\ Ours' = Ours \union {new} \/ (Ours = {new} /\ Ours' = {new})
      /\ ~OverwritesItself => new \notin Ours
  BY DEF Opens
<1>3. (run' = run /\ openFile \in Ours /\ disk[openFile].run = run) \/ (run' = run + 1 /\ openFile \notin Ours)
  BY DEF Opens, FilesInv, NumberInv
<1> HIDE DEF new
<1>4. \A n \in Ours' : n \in Lasts' <=>
        \A m \in Ours' : disk'[m].run = disk'[n].run => disk'[m].number <= disk'[n].number
  BY DEF Lasts
<1>5. \A n \in Ours' : n \in Firsts' <=>
        \A m \in Ours' : disk'[m].run = disk'[n].run => disk'[n].number <= disk'[m].number
  BY DEF Firsts
<1>6. new \in Lasts'
  BY <1>0, <1>1, <1>4
<1>7. ASSUME NEW n \in Ours \ {new} PROVE n \in Lasts' <=> (n \in Lasts /\ disk[n].run # run')
  <2>1. Ours' = Ours \union {new}
    BY <1>2
  <2>2. CASE new \notin Ours
    <3>1. ASSUME n \in Lasts' PROVE n \in Lasts /\ disk[n].run # run'
      BY <1>0, <1>1, <1>4, <2>1, <2>2, <3>1 DEF Lasts
    <3>2. ASSUME n \in Lasts, disk[n].run # run' PROVE n \in Lasts'
      BY <1>0, <1>1, <1>4, <2>1, <2>2, <3>2 DEF Lasts
    <3> QED
      BY <3>1, <3>2
  <2>3. CASE new \in Ours
    <3>1. Ours = {new}
      BY <2>3, <1>1 DEF Opens, new
    <3> QED
      BY <3>1
  <2> QED
    BY <2>2, <2>3
<1>8. ASSUME NEW n \in Ours \ {new}, ~OverwritesItself PROVE n \in Firsts' <=> n \in Firsts
  <2>1. Ours' = Ours \union {new} /\ new \notin Ours
    BY <1>2, <1>8
  <2>2. n \in Firsts' => n \in Firsts
    BY <1>1, <1>5, <2>1 DEF Firsts
  <2>3. n \in Firsts => n \in Firsts'
    BY <1>0, <1>1, <1>5, <2>1 DEF Firsts
  <2> QED
    BY <2>2, <2>3
<1>9. ASSUME ~OverwritesItself PROVE new \in Firsts' <=> openFile \notin Ours
  <2>1. Ours' = Ours \union {new} /\ new \notin Ours
    BY <1>2, <1>9
  <2>2. CASE openFile \in Ours
    <3>1. disk'[openFile].run = run' /\ disk'[openFile].number = disk[openFile].number
          /\ openFile \in Ours' /\ disk[openFile].number \in 0..fileNumber
      BY <1>0, <1>1, <1>3, <2>1, <2>2
    <3> QED
      BY <1>0, <1>1, <1>5, <1>9, <2>2, <3>1
  <2>3. CASE openFile \notin Ours
    <3>1. \A m \in Ours : disk'[m].run # run'
      BY <1>0, <1>1, <1>3, <2>1, <2>3
    <3>2. \A m \in Ours' : disk'[m].run = run' => m = new
      BY <1>1, <3>1
    <3> QED
      BY <1>0, <1>1, <1>5, <1>9, <2>3, <3>2
  <2> QED
    BY <2>2, <2>3
<1> QED
  BY <1>6, <1>7, <1>8, <1>9 DEF new

\* When none is opened they are the same.
LEMMA LastAndFirstStay == ASSUME Stays PROVE Lasts' = Lasts /\ Firsts' = Firsts
<1>1. Ours' = Ours
  BY DEF Stays
<1>2. \A n \in Ours : disk'[n].number = disk[n].number /\ disk'[n].run = disk[n].run
  BY DEF Stays
<1>3. Lasts' = {n \in Ours : \A m \in Ours : disk'[m].run = disk'[n].run =>
                               disk'[m].number <= disk'[n].number}
  BY <1>1 DEF Lasts
<1>4. Firsts' = {n \in Ours : \A m \in Ours : disk'[m].run = disk'[n].run =>
                                disk'[n].number <= disk'[m].number}
  BY <1>1 DEF Firsts
<1>5. Lasts' = Lasts
  BY <1>2, <1>3 DEF Lasts
<1>6. Firsts' = Firsts
  BY <1>2, <1>4 DEF Firsts
<1> QED
  BY <1>5, <1>6

\* The open file is the last of the current run.
LEMMA OpenIsLast ==
    ASSUME IInv, FilesInv, openFile \in Ours
    PROVE  openFile \in Lasts /\ \A n \in Lasts : disk[n].run = run => n = openFile
<1>1. /\ disk[openFile].number = fileNumber /\ disk[openFile].run = run /\ fileNumber \in Int
      /\ \A n \in Ours : disk[n].number \in 0..fileNumber
      /\ \A m, n \in Ours : disk[m].number = disk[n].number => m = n
  BY OursTypes DEF FilesInv, NumberInv
<1>2. openFile \in Lasts
  BY <1>1 DEF Lasts
<1>3. ASSUME NEW n \in Lasts, disk[n].run = run PROVE n = openFile
  <2>1. n \in Ours /\ fileNumber <= disk[n].number
    BY <1>1, <1>3 DEF Lasts
  <2> QED
    BY <1>1, <2>1
<1> QED
  BY <1>2, <1>3

LEMMA HeaderInvKept == ASSUME IInv, FilesInv, [Next]_vars PROVE HeaderInv'
<1>0. /\ HeaderInv /\ run \in Nat /\ nRequested \in Seq(Nat \ {0}) /\ run = Len(nRequested)
      /\ \A n \in Ours : disk[n].run \in Nat \ {0} /\ disk[n].run <= run
      /\ openFile \in Ours => disk[openFile].run = run
  BY OursTypes DEF FilesInv, RunInv, NumberInv, IInv, Types, run
<1>1. ASSUME Opens, openFile \in Ours => run' = run, openFile \notin Ours => run' = run + 1,
             \A r \in 1..run : nRequested'[r] = nRequested[r]
      PROVE  HeaderInv'
  <2>1. /\ openFile' \in Lasts'
        /\ \A n \in Ours \ {openFile'} :
             n \in Lasts' <=> (n \in Lasts /\ disk[n].run # run')
        /\ \A n \in Ours \ {openFile'} : ~OverwritesItself => (n \in Firsts' <=> n \in Firsts)
        /\ ~OverwritesItself => (openFile' \in Firsts' <=> openFile \notin Ours)
    BY <1>1, LastAndFirst
  <2>2. /\ openFile' \in Ours' /\ \A n \in Ours' : n # openFile' => n \in Ours
        /\ disk'[openFile'].hasRun = FALSE /\ disk'[openFile'].requested = 0
        /\ disk'[openFile'].run = run' /\ (disk'[openFile'].hasOptions <=> openFile \notin Ours)
        /\ \A n \in Ours \ {openFile'} :
             /\ disk'[n].hasRun = disk[n].hasRun /\ disk'[n].requested = disk[n].requested
             /\ disk'[n].hasOptions = disk[n].hasOptions /\ disk'[n].run = disk[n].run
        /\ OverwritesItself' = OverwritesItself
    BY <1>1, <1>0 DEF Opens, OverwritesItself
  <2>3. ASSUME NEW n \in Ours' PROVE disk'[n].hasRun <=> n \in Lasts' /\ n # openFile'
    <3>1. CASE n = openFile'
      BY <2>2, <3>1
    <3>2. CASE n # openFile'
      <4>1. n \in Ours /\ (disk'[n].hasRun <=> n \in Lasts /\ n # openFile)
        BY <1>0, <2>2, <3>2 DEF HeaderInv
      <4>2. n = openFile => disk[n].run = run'
        BY <1>0, <1>1, <4>1
      <4>3. n \in Lasts /\ disk[n].run = run' => n = openFile
        BY <1>0, <1>1, <4>1, OpenIsLast
      <4> QED
        BY <2>1, <3>2, <4>1, <4>2, <4>3
    <3> QED
      BY <3>1, <3>2
  <2>4. ASSUME NEW n \in Ours'
        PROVE  disk'[n].requested = IF disk'[n].hasRun THEN nRequested'[disk'[n].run] ELSE 0
    <3>1. CASE n = openFile'
      BY <2>2, <3>1
    <3>2. CASE n # openFile'
      <4>1. n \in Ours /\ disk[n].run \in 1..run
        BY <1>0, <2>2, <3>2
      <4> QED
        BY <1>0, <1>1, <2>2, <3>2, <4>1 DEF HeaderInv
    <3> QED
      BY <3>1, <3>2
  <2>5. ASSUME NEW r \in 1..run' PROVE \E n \in Ours' : disk'[n].run = r /\ n \in Lasts'
    <3>1. CASE r = run'
      BY <2>1, <2>2, <3>1
    <3>2. CASE r # run'
      <4>1. r \in 1..run
        BY <1>0, <1>1, <3>2
      <4>2. PICK n \in Ours : disk[n].run = r /\ n \in Lasts
        BY <1>0, <4>1 DEF HeaderInv
      <4>3. n # openFile'
        <5>1. CASE openFile' \notin Ours
          BY <5>1
        <5>2. CASE openFile' \in Ours
          <6>1. Ours = {openFile'} /\ (openFile \in Ours \/ run' = run + 1)
            BY <1>1, <5>2 DEF Opens
          <6>2. CASE openFile \in Ours
            BY <1>0, <1>1, <3>2, <4>2, <6>1, <6>2
          <6>3. CASE openFile \notin Ours
            BY <1>1, <5>2, <6>3 DEF Opens
          <6> QED
            BY <6>2, <6>3
        <5> QED
          BY <5>1, <5>2
      <4>4. n \in Ours' /\ n \in Lasts' /\ disk'[n].run = r
        <5>1. Ours' = Ours \union {openFile'}
          BY <1>1, <4>3 DEF Opens
        <5> QED
          BY <2>1, <2>2, <3>2, <4>2, <4>3, <5>1
      <4> QED
        BY <4>4
    <3> QED
      BY <3>1, <3>2
  <2>6. ASSUME ~OverwritesItself, NEW n \in Ours' PROVE disk'[n].hasOptions <=> n \in Firsts'
    BY <1>0, <2>1, <2>2, <2>6 DEF HeaderInv
  <2> QED
    BY <2>2, <2>3, <2>4, <2>5, <2>6 DEF HeaderInv
<1>2. ASSUME NEW k, Begins(k) PROVE HeaderInv'
  <2>1. /\ openFile \notin Ours /\ run' = run + 1 /\ nRequested' = Append(nRequested, k)
    BY <1>2 DEF Begins
  <2>2. \A r \in 1..run : nRequested'[r] = nRequested[r]
    BY <1>0, <2>1
  <2> QED
    BY <1>1, <1>2, <2>1, <2>2, BeginsOpens
<1>3. ASSUME NEW e, Fills(e) PROVE HeaderInv'
  BY <1>1, <1>3, FillsOpens DEF Fills, Logs
<1>4. ASSUME NEW e, Writes(e) PROVE HeaderInv'
  <2>1. Stays /\ Lasts' = Lasts /\ Firsts' = Firsts
    BY <1>4, WritesStays, LastAndFirstStay
  <2>2. \A n \in Ours : disk'[n].hasRun = disk[n].hasRun /\ disk'[n].requested = disk[n].requested
    BY <1>4 DEF Writes, GrownBy
  <2>3. /\ nRequested' = nRequested /\ run' = run /\ openFile' = openFile
        /\ OverwritesItself' = OverwritesItself
    BY <1>4 DEF Writes, Logs, OverwritesItself
  <2> QED
    BY <1>0, <2>1, <2>2, <2>3 DEF HeaderInv, Stays
<1>5. CASE Ends
  <2>1. Stays /\ Lasts' = Lasts /\ Firsts' = Firsts
    BY <1>5, EndsStays, LastAndFirstStay
  <2>2. /\ openFile \in Ours /\ openFile' \notin Ours /\ Ours' = Ours
        /\ \A n \in Ours \ {openFile} : disk'[n] = disk[n]
        /\ nRequested' = nRequested /\ run' = run /\ OverwritesItself' = OverwritesItself
    BY <1>5 DEF Ends, OverwritesItself
  <2>3. disk[openFile] \in ContentType /\ openFile \in Lasts
    BY <2>2, OursTypes, OpenIsLast
  <2>4. disk'[openFile].hasRun = TRUE /\ disk'[openFile].requested = nRequested[run]
    BY <1>5, <2>3 DEF Ends, ContentType
  <2>5. \A n \in Ours : disk'[n].hasRun <=> n \in Lasts /\ n # openFile'
    BY <1>0, <2>2, <2>3, <2>4 DEF HeaderInv
  <2>6. \A n \in Ours : disk'[n].requested =
                          IF disk'[n].hasRun THEN nRequested[disk'[n].run] ELSE 0
    <3>1. disk'[openFile].run = run
      BY <1>0, <2>1, <2>2 DEF Stays
    <3> QED
      BY <1>0, <2>2, <2>4, <3>1 DEF HeaderInv
  <2>7. \A r \in 1..run : \E n \in Ours : disk'[n].run = r /\ n \in Lasts
    BY <1>0, <2>1 DEF HeaderInv, Stays
  <2>8. ~OverwritesItself => \A n \in Ours : disk'[n].hasOptions <=> n \in Firsts
    BY <1>0, <2>1 DEF HeaderInv, Stays
  <2> QED
    BY <2>1, <2>2, <2>5, <2>6, <2>7, <2>8 DEF HeaderInv
<1>6. CASE Leaves
  <2>1. Stays /\ Lasts' = Lasts /\ Firsts' = Firsts
    BY <1>6, LastAndFirstStay DEF Leaves, Stays
  <2>2. /\ Ours' = Ours /\ disk' = disk /\ openFile' = openFile /\ nRequested' = nRequested
        /\ run' = run /\ OverwritesItself' = OverwritesItself
    BY <1>6 DEF Leaves, OverwritesItself
  <2> QED
    BY <1>0, <2>1, <2>2 DEF HeaderInv
<1> QED
  BY <1>2, <1>3, <1>4, <1>5, <1>6, StepMakes

-----------------------------------------------------------------------------
\* A run without an aborted event, as the log stands after a step.
LEMMA NoneAbortedBefore ==
    ASSUME NEW r \in Unaborted', NEW i \in DOMAIN log', log'[i].event.run = r, log'[i].event.id > 0
    PROVE  i > 1 /\ log'[i - 1].event = [log'[i].event EXCEPT !.id = @ - 1]
  BY DEF Unaborted, NoEventAborted

\* Once a run has had an event aborted before another it stays so.
LEMMA UnabortedShrinks ==
    ASSUME log \in Seq(LogType), NEW x \in LogType, log' = Append(log, x)
    PROVE  Unaborted' \subseteq Unaborted
<1> SUFFICES ASSUME NEW r \in Unaborted' PROVE r \in Unaborted
  OBVIOUS
<1>1. r \in Nat
  BY DEF Unaborted
<1>2. ASSUME NEW i \in DOMAIN log, log[i].event.run = r, log[i].event.id > 0
      PROVE  i > 1 /\ log[i - 1].event = [log[i].event EXCEPT !.id = @ - 1]
  <2>1. i \in DOMAIN log' /\ log'[i] = log[i]
    OBVIOUS
  <2>2. i > 1 /\ log'[i - 1].event = [log'[i].event EXCEPT !.id = @ - 1]
    BY <1>2, <2>1, NoneAbortedBefore
  <2>3. log'[i - 1] = log[i - 1]
    BY <2>2
  <2> QED
    BY <2>1, <2>2, <2>3
<1> QED
  BY <1>1, <1>2 DEF Unaborted, NoEventAborted

\* With none aborted, the number of events got to is that of the current event.
LEMMA ReachedIsEventNo ==
    ASSUME IInv, FilesInv, NEW e, Logs(e)
    PROVE  /\ Reached' = eventNo + 1 /\ Unaborted' \subseteq Unaborted
           /\ run \in Unaborted' => Reached = eventNo
<1> DEFINE entry == [event |-> e, file |-> fileNumber]
           m == Len(log)
<1>1. /\ log \in Seq(LogType) /\ m \in Nat /\ eventNo \in Nat /\ run \in Nat \ {0} /\ run' = run
      /\ entry \in LogType /\ log' = Append(log, entry) /\ e = [run |-> run, id |-> eventNo]
      /\ LogInv
  BY DEF Logs, FilesInv, LogInv, LogType
<1>2. entry.event.run = run /\ entry.event.id = eventNo /\ entry.event = e
  BY <1>1
<1> HIDE DEF entry
<1>3. Len(log') = m + 1 /\ log'[m + 1] = entry /\ \A i \in 1..m : log'[i] = log[i]
  BY <1>1
<1>4. Reached' = eventNo + 1
  BY <1>1, <1>2, <1>3 DEF Reached
<1>5. Unaborted' \subseteq Unaborted
  BY <1>1, UnabortedShrinks
<1>6. ASSUME run \in Unaborted' PROVE Reached = eventNo
  <2>1. CASE eventNo = 0
    <3>1. ASSUME m > 0, log[m].event.run = run PROVE FALSE
      <4>1. log[m] \in LogType
        BY <1>1, <3>1
      <4>2. log[m].event.id \in Nat
        BY <4>1 DEF LogType, EventType
      <4>3. log[m].event.id < eventNo
        BY <1>1, <3>1 DEF LogInv
      <4> QED
        BY <2>1, <4>2, <4>3
    <3> QED
      BY <2>1, <3>1 DEF Reached
  <2>2. CASE eventNo > 0
    <3>1. m + 1 \in DOMAIN log' /\ log'[m + 1].event.run = run /\ log'[m + 1].event.id > 0
      BY <1>1, <1>2, <1>3, <2>2
    <3>2. m + 1 > 1 /\ log'[m + 1 - 1].event = [log'[m + 1].event EXCEPT !.id = @ - 1]
      BY <1>6, <3>1, NoneAbortedBefore
    <3>3. m > 0 /\ m + 1 - 1 = m /\ m \in 1..m
      BY <1>1, <3>2
    <3>4. log[m].event = [e EXCEPT !.id = @ - 1]
      <4>1. log'[m].event = [log'[m + 1].event EXCEPT !.id = @ - 1]
        BY <3>2, <3>3
      <4>2. log'[m + 1].event = e /\ log'[m] = log[m]
        BY <1>2, <1>3, <3>3
      <4> QED
        BY <4>1, <4>2
    <3>5. log[m].event.run = run /\ log[m].event.id = eventNo - 1
      BY <1>1, <3>4
    <3> QED
      BY <1>1, <3>3, <3>5 DEF Reached
  <2> QED
    BY <1>1, <2>1, <2>2
<1> QED
  BY <1>4, <1>5, <1>6

\* The events of the open file, once one more is written: those it had were the
\* remainder, so that the file is full exactly when the run action rotates.
LEMMA OpenFileCount ==
    ASSUME IInv, FilesInv, NEW e, Logs(e), cfg.nPerFile > 0, run \in Unaborted'
    PROVE  /\ Len(Append(disk[openFile].events, e)) =
                IF Rotates THEN cfg.nPerFile ELSE Reached' % cfg.nPerFile
           /\ Reached' % cfg.nPerFile < cfg.nPerFile
           /\ Rotates => Reached' % cfg.nPerFile = 0
<1> DEFINE n == cfg.nPerFile
<1>1. n \in Nat \ {0} /\ eventNo \in Nat /\ openFile \in Ours
  BY OptionFacts DEF IInv, Types, Logs
<1>2. Reached' = eventNo + 1 /\ Reached = eventNo /\ run \in Unaborted
  BY ReachedIsEventNo
<1>3. disk[openFile].events \in Seq(EventType) /\ Len(disk[openFile].events) = eventNo % n
  BY <1>1, <1>2, OursTypes DEF FilesInv, CountInv
<1>4. Rotates <=> (eventNo + 1) % n = 0
  BY DEF Rotates
<1> HIDE DEF n
<1>5. eventNo % n \in 0..(n - 1)
  BY <1>1, DivMod
<1>6. (eventNo + 1) % n = IF (eventNo % n) + 1 = n THEN 0 ELSE (eventNo % n) + 1
  BY <1>1, ModNext
<1>7. Len(Append(disk[openFile].events, e)) = (eventNo % n) + 1
  BY <1>3
<1>8. /\ (eventNo % n) + 1 = IF Rotates THEN n ELSE (eventNo + 1) % n
      /\ (eventNo + 1) % n < n
  BY <1>1, <1>4, <1>5, <1>6
<1> QED
  BY <1>2, <1>4, <1>7, <1>8 DEF n

LEMMA CountInvKept == ASSUME IInv, FilesInv, [Next]_vars PROVE CountInv'
<1>0. /\ CountInv /\ run \in Nat /\ fileNumber \in Int /\ cfg.nPerFile \in Nat /\ log \in Seq(LogType)
      /\ \A n \in Ours : disk[n].run \in Nat /\ disk[n].run <= run
                         /\ disk[n].events \in Seq(EventType)
      /\ openFile \in Ours => disk[openFile].run = run
      /\ \A i \in DOMAIN log : /\ log[i] \in LogType /\ log[i].file \in Nat
                               /\ log[i].file <= fileNumber /\ log[i].event.run <= run
                               /\ log[i].event.run \in Nat
  <2>1. log \in Seq(LogType) /\ \A i \in DOMAIN log : log[i] \in LogType
    BY DEF FilesInv, LogInv
  <2>2. \A i \in DOMAIN log : log[i].file \in Nat /\ log[i].event.run \in Nat
    BY <2>1 DEF LogType, EventType
  <2>3. \A i \in DOMAIN log : log[i].file <= fileNumber /\ log[i].event.run <= run
    BY DEF FilesInv, LogInv
  <2>4. CountInv /\ run \in Nat /\ fileNumber \in Int /\ cfg.nPerFile \in Nat
    BY OptionFacts DEF FilesInv, IInv, Types, run
  <2>5. \A n \in Ours : disk[n].run \in Nat /\ disk[n].run <= run
                         /\ disk[n].events \in Seq(EventType)
    BY OursTypes DEF FilesInv, RunInv
  <2>6. openFile \in Ours => disk[openFile].run = run
    BY DEF FilesInv, NumberInv
  <2> QED
    BY <2>1, <2>2, <2>3, <2>4, <2>5, <2>6
<1>1. ASSUME NEW k, Begins(k) PROVE CountInv'
  <2>1. Opens /\ openFile \notin Ours /\ run' = run + 1 /\ log' = log /\ cfg' = cfg
        /\ Ours' = Ours \union {openFile'} /\ \A n \in Ours : disk'[n] = disk[n]
        /\ openFile' \notin Ours
    BY <1>1, BeginsOpens DEF Begins
  <2>2. disk'[openFile'].events = <<>> /\ disk'[openFile'].run = run' /\ fileNumber' = fileNumber + 1
    BY <2>1 DEF Opens
  <2>3. Unaborted' = Unaborted
    BY <2>1 DEF Unaborted, NoEventAborted
  <2>4. openFile' \in Lasts' /\ \A n \in Ours : n \in Lasts' <=> n \in Lasts
    BY <1>0, <2>1, LastAndFirst
  <2>5. Reached' = 0
    <3>1. ASSUME Len(log) > 0 PROVE log[Len(log)].event.run # run'
      BY <1>0, <2>1, <3>1
    <3> QED
      BY <2>1, <3>1 DEF Reached
  <2>6. cfg.nPerFile > 0 => 0 % cfg.nPerFile = 0
    BY <1>0, ModSmall
  <2>7. \A i \in DOMAIN log : log[i].file # fileNumber'
    BY <1>0, <2>2
  <2>8. \A n \in Ours' : cfg.nPerFile > 0 /\ disk'[n].run \in Unaborted =>
          IF n \in Lasts' THEN Len(disk'[n].events) < cfg.nPerFile
          ELSE Len(disk'[n].events) = cfg.nPerFile
    BY <1>0, <2>1, <2>2, <2>4 DEF CountInv
  <2> QED
    BY <2>1, <2>2, <2>3, <2>5, <2>6, <2>7, <2>8 DEF CountInv
<1>2. ASSUME NEW e, Writes(e) PROVE CountInv'
  <2>1. /\ Logs(e) /\ ~Rotates /\ Ours' = Ours /\ \A n \in Ours \ {openFile} : disk'[n] = disk[n]
        /\ openFile' = openFile /\ fileNumber' = fileNumber /\ cfg' = cfg /\ run' = run
        /\ openFile \in Ours
    BY <1>2 DEF Writes, Logs
  <2>2. /\ disk'[openFile].run = run /\ disk'[openFile].events = Append(disk[openFile].events, e)
        /\ Len(disk'[openFile].events) = Len(disk[openFile].events) + 1
        /\ Len(disk[openFile].events) \in Nat
    BY <1>0, <1>2, <2>1 DEF Writes, GrownBy
  <2>3. Lasts' = Lasts /\ openFile \in Lasts
    BY <1>2, <2>1, WritesStays, LastAndFirstStay, OpenIsLast
  <2>4. Unaborted' \subseteq Unaborted
    BY <2>1, ReachedIsEventNo
  <2>5. cfg.nPerFile > 0 /\ run \in Unaborted' =>
          /\ Len(disk'[openFile].events) = Reached' % cfg.nPerFile
          /\ Len(disk'[openFile].events) < cfg.nPerFile
    BY <2>1, <2>2, OpenFileCount
  <2>6. \A n \in Ours : cfg.nPerFile > 0 /\ disk'[n].run \in Unaborted' =>
          IF n \in Lasts THEN Len(disk'[n].events) < cfg.nPerFile
          ELSE Len(disk'[n].events) = cfg.nPerFile
    BY <1>0, <2>1, <2>2, <2>3, <2>4, <2>5 DEF CountInv
  <2>7. \A i \in DOMAIN log' : log'[i].file = fileNumber => i > Len(log') - Len(disk'[openFile].events)
    <3>1. /\ Len(log') = Len(log) + 1 /\ DOMAIN log' = 1..(Len(log) + 1) /\ Len(log) \in Nat
          /\ \A i \in 1..Len(log) : log'[i] = log[i]
      BY <1>0, <2>1 DEF Logs, LogType
    <3>2. \A i \in DOMAIN log : log[i].file = fileNumber => i > Len(log) - Len(disk[openFile].events)
      BY <1>0, <2>1 DEF CountInv
    <3>3. DOMAIN log = 1..Len(log)
      BY <1>0
    <3> DEFINE p == Len(log)
               q == Len(disk[openFile].events)
    <3>4. p \in Nat /\ q \in Nat /\ Len(log') = p + 1 /\ Len(disk'[openFile].events) = q + 1
      BY <2>2, <3>1
    <3>5. \A i \in 1..p : log'[i].file = fileNumber => i > p - q
      BY <3>1, <3>2, <3>3
    <3> HIDE DEF p, q
    <3>6. \A i \in 1..p : log'[i].file = fileNumber => i > (p + 1) - (q + 1)
      BY <3>4, <3>5
    <3>7. p + 1 > (p + 1) - (q + 1)
      BY <3>4
    <3>8. \A i \in 1..(p + 1) : i \in 1..p \/ i = p + 1
      BY <3>4
    <3>9. DOMAIN log' = 1..(p + 1)
      BY <3>1 DEF p
    <3> QED
      BY <3>4, <3>6, <3>7, <3>8, <3>9
  <2> QED
    BY <2>1, <2>3, <2>5, <2>6, <2>7 DEF CountInv
<1>3. ASSUME NEW e, Fills(e) PROVE CountInv'
  <2>1. /\ Logs(e) /\ Rotates /\ \A n \in Ours \ {openFile, openFile'} : disk'[n] = disk[n]
        /\ openFile' # openFile => GrownBy(disk'[openFile], disk[openFile], e)
        /\ cfg' = cfg /\ run' = run /\ Opens /\ openFile \in Ours
    BY <1>3, FillsOpens DEF Fills, Logs
  <2>2. /\ disk'[openFile'].events = <<>> /\ disk'[openFile'].run = run /\ fileNumber' = fileNumber + 1
        /\ openFile' \in Ours' /\ \A n \in Ours' : n # openFile' => n \in Ours
    BY <2>1 DEF Opens
  <2>3. openFile' \in Lasts' /\ \A n \in Ours \ {openFile'} :
                                   n \in Lasts' <=> (n \in Lasts /\ disk[n].run # run)
    BY <2>1, LastAndFirst
  <2>4. Unaborted' \subseteq Unaborted
    BY <2>1, ReachedIsEventNo
  <2>5. cfg.nPerFile > 0 /\ run \in Unaborted' =>
          /\ Len(Append(disk[openFile].events, e)) = cfg.nPerFile
          /\ Reached' % cfg.nPerFile = 0
    BY <2>1, OpenFileCount
  <2>6. ASSUME NEW n \in Ours', cfg.nPerFile > 0, disk'[n].run \in Unaborted'
        PROVE  IF n \in Lasts' THEN Len(disk'[n].events) < cfg.nPerFile
               ELSE Len(disk'[n].events) = cfg.nPerFile
    <3>1. CASE n = openFile'
      BY <2>2, <2>3, <2>6, <3>1
    <3>2. CASE n # openFile' /\ n = openFile
      BY <1>0, <2>1, <2>3, <2>5, <2>6, <3>2 DEF GrownBy
    <3>3. CASE n # openFile' /\ n # openFile
      <4>1. n \in Ours /\ disk'[n] = disk[n]
        BY <2>1, <2>2, <3>3
      <4>2. n \in Lasts => disk[n].run # run
        BY <2>1, <3>3, OpenIsLast
      <4> QED
        BY <1>0, <2>3, <2>4, <2>6, <3>3, <4>1, <4>2 DEF CountInv
    <3> QED
      BY <3>1, <3>2, <3>3
  <2>7. \A i \in DOMAIN log' : log'[i].file # fileNumber'
    <3>1. /\ DOMAIN log' = 1..(Len(log) + 1) /\ Len(log) \in Nat
          /\ \A i \in 1..Len(log) : log'[i] = log[i]
          /\ log'[Len(log) + 1].file = fileNumber
      BY <1>0, <2>1 DEF Logs, LogType
    <3> QED
      BY <1>0, <2>2, <3>1
  <2> QED
    BY <2>1, <2>2, <2>5, <2>6, <2>7 DEF CountInv
<1>4. CASE Ends
  <2>1. /\ Ours' = Ours /\ openFile' \notin Ours /\ log' = log /\ cfg' = cfg
        /\ Lasts' = Lasts
    BY <1>4, EndsStays, LastAndFirstStay DEF Ends
  <2>2. \A n \in Ours : disk'[n].run = disk[n].run /\ disk'[n].events = disk[n].events
    <3>1. disk[openFile] \in ContentType
      BY <1>4, OursTypes DEF Ends
    <3>2. disk'[openFile].run = disk[openFile].run /\ disk'[openFile].events = disk[openFile].events
      BY <1>4, <3>1 DEF Ends, ContentType
    <3> QED
      BY <1>4, <3>2 DEF Ends
  <2>3. Unaborted' = Unaborted
    BY <2>1 DEF Unaborted, NoEventAborted
  <2> QED
    BY <1>0, <2>1, <2>2, <2>3 DEF CountInv
<1>5. CASE Leaves
  <2>1. /\ Ours' = Ours /\ openFile' = openFile /\ log' = log /\ cfg' = cfg /\ disk' = disk
        /\ run' = run /\ fileNumber' = fileNumber /\ Lasts' = Lasts
    BY <1>5 DEF Leaves, Lasts
  <2>2. Unaborted' = Unaborted /\ Reached' = Reached
    BY <2>1 DEF Unaborted, NoEventAborted, Reached
  <2> QED
    BY <1>0, <2>1, <2>2 DEF CountInv
<1> QED
  BY <1>1, <1>2, <1>3, <1>4, <1>5, StepMakes

-----------------------------------------------------------------------------
LEMMA FilesInvInit == Init => FilesInv
<1> SUFFICES ASSUME Init PROVE FilesInv
  OBVIOUS
<1>1. Ours = {} /\ openFile \notin Ours
  <2>1. disk = [n \in cfg.existing |-> OldContent] /\ OldContent.run = 0
    BY DEF Init, OldContent, Content
  <2> QED
    BY <2>1 DEF Ours
<1>2. /\ nRequested = <<>> /\ run = 0 /\ log = <<>> /\ Len(log) = 0 /\ Len(histSets) = 0
      /\ fileNumber = -1 /\ pc = "idle" /\ log \in Seq(LogType)
  BY DEF Init, run
<1>3. RunInv /\ NumberInv /\ NameInv
  BY <1>1, <1>2 DEF RunInv, NumberInv, NameInv
<1>4. LogInv /\ EventsInv
  BY <1>1, <1>2 DEF LogInv, EventsInv
<1>5. CountInv /\ HeaderInv
  BY <1>1, <1>2 DEF CountInv, HeaderInv
<1> QED
  BY <1>3, <1>4, <1>5 DEF FilesInv

\* What the files have in them holds in every state.
THEOREM FilesInvariant == Spec => []FilesInv
<1>1. IInv /\ FilesInv /\ [Next]_vars => FilesInv'
  BY RunInvKept, NumberInvKept, NameInvKept, LogInvKept, EventsInvKept, CountInvKept, HeaderInvKept
     DEF FilesInv
<1> QED
  BY FilesInvInit, Invariant, <1>1, PTL DEF Spec

\* Every event that was processed is in one file, the one that was open, and
\* there in order (FillEvent), for any numbers of events, files and runs, any
\* files found and any events aborted, save where a program overwrites its own.
THEOREM EveryEventInItsFileTheorem == Spec => []EveryEventInItsFile
<1>1. IInv /\ FilesInv => EveryEventInItsFile
  <2> SUFFICES ASSUME IInv, FilesInv, ~OverwritesItself, NEW i \in DOMAIN log
               PROVE  \E n \in Ours : /\ disk[n].number = log[i].file
                                      /\ disk[n].events = EventsOf(Written(log[i].file))
    BY DEF EveryEventInItsFile
  <2>1. log[i].file \in Nat /\ log[i].file <= fileNumber /\ fileNumber \in Int
    <3>1. log[i] \in LogType
      BY DEF FilesInv, LogInv
    <3> QED
      BY <3>1 DEF FilesInv, LogInv, LogType, IInv, Types
  <2>2. PICK n \in Ours : disk[n].number = log[i].file
    BY <2>1 DEF FilesInv, NameInv
  <2>3. disk[n].events = Held[log[i].file]
    BY <2>2 DEF FilesInv, EventsInv
  <2> QED
    BY <2>1, <2>2, <2>3 DEF Held, EventsIn
<1> QED
  BY Invariant, FilesInvariant, <1>1, PTL

\* The files of a run are of the program, and its last file is unique.
LEMMA LastOfRun ==
    ASSUME IInv, FilesInv, NEW r \in 1..run
    PROVE  /\ LastOf(r) \in FilesOf(r)
           /\ \A n \in FilesOf(r) : n \in Ours /\ disk[n].run = r /\ (n = LastOf(r) <=> n \in Lasts)
<1>1. run \in Nat /\ \A n \in Ours : disk[n].number \in Int
  BY OursTypes DEF IInv, Types, run
<1>2. \A n : n \in FilesOf(r) <=> n \in Ours /\ disk[n].run = r
  BY <1>1 DEF FilesOf, Ours
<1>3. PICK l \in Ours : disk[l].run = r /\ l \in Lasts
  BY DEF FilesInv, HeaderInv
<1>4. \A m \in FilesOf(r) : disk[m].number <= disk[l].number
  BY <1>2, <1>3 DEF Lasts
<1>5. /\ LastOf(r) \in FilesOf(r)
      /\ \A m \in FilesOf(r) : disk[m].number <= disk[LastOf(r)].number
  BY <1>2, <1>3, <1>4 DEF LastOf
<1>6. ASSUME NEW n \in FilesOf(r), \A m \in FilesOf(r) : disk[m].number <= disk[n].number
      PROVE  n = LastOf(r)
  <2>1. disk[n].number = disk[LastOf(r)].number
    BY <1>1, <1>2, <1>5, <1>6
  <2> QED
    BY <1>2, <1>5, <2>1 DEF FilesInv, NumberInv
<1>7. ASSUME NEW n \in FilesOf(r)
      PROVE  n \in Lasts <=> \A m \in FilesOf(r) : disk[m].number <= disk[n].number
  BY <1>2 DEF Lasts
<1> QED
  BY <1>2, <1>5, <1>6, <1>7

\* So is its first.
LEMMA FirstOfRun ==
    ASSUME IInv, FilesInv, NEW r \in 1..run
    PROVE  \A n \in FilesOf(r) : n = FirstOf(r) <=> n \in Firsts
<1>1. run \in Nat /\ \A n \in Ours : disk[n].number \in Nat
  BY OursTypes DEF IInv, Types, run, FilesInv, NumberInv
<1>2. \A n : n \in FilesOf(r) <=> n \in Ours /\ disk[n].run = r
  BY <1>1 DEF FilesOf, Ours
<1>3. LastOf(r) \in FilesOf(r)
  BY LastOfRun
<1>4. \E f \in FilesOf(r) : \A m \in FilesOf(r) : disk[f].number <= disk[m].number
  <2> DEFINE S == {disk[n].number : n \in FilesOf(r)}
  <2>1. S \subseteq Nat /\ S # {}
    BY <1>1, <1>2, <1>3
  <2>2. PICK x \in S : \A y \in S : x <= y
    BY <2>1, LeastElement
  <2> QED
    BY <2>2
<1>5. /\ FirstOf(r) \in FilesOf(r)
      /\ \A m \in FilesOf(r) : disk[FirstOf(r)].number <= disk[m].number
  BY <1>4 DEF FirstOf
<1>6. ASSUME NEW n \in FilesOf(r), \A m \in FilesOf(r) : disk[n].number <= disk[m].number
      PROVE  n = FirstOf(r)
  <2>1. disk[n].number = disk[FirstOf(r)].number
    BY <1>1, <1>2, <1>5, <1>6
  <2> QED
    BY <1>2, <1>5, <2>1 DEF FilesInv, NumberInv
<1>7. ASSUME NEW n \in FilesOf(r)
      PROVE  n \in Firsts <=> \A m \in FilesOf(r) : disk[n].number <= disk[m].number
  BY <1>2 DEF Firsts
<1> QED
  BY <1>5, <1>6, <1>7

\* With no event aborted, every file of a run but its last has nPerFile events
\* and the last has fewer (EndOfEventAction), however many runs and files.
THEOREM FilesHoldNPerFileTheorem == Spec => []FilesHoldNPerFile
<1>1. IInv /\ FilesInv => FilesHoldNPerFile
  <2> SUFFICES ASSUME IInv, FilesInv, NEW r \in 1..run, NoEventAborted(r), cfg.nPerFile > 0,
                      NEW n \in FilesOf(r)
               PROVE  IF n = LastOf(r) THEN Len(disk[n].events) < cfg.nPerFile
                      ELSE Len(disk[n].events) = cfg.nPerFile
    BY DEF FilesHoldNPerFile
  <2>1. n \in Ours /\ disk[n].run = r /\ (n = LastOf(r) <=> n \in Lasts)
    BY LastOfRun
  <2>2. r \in Unaborted
    BY DEF Unaborted, IInv, Types, run
  <2> QED
    BY <2>1, <2>2 DEF FilesInv, CountInv
<1> QED
  BY Invariant, FilesInvariant, <1>1, PTL

\* Of the files of a run that has ended, one has the number of events requested
\* and the others none, the first has the options and the last the Run entry
\* (FillHeader, WriteFileEventLevel), so that HeaderAnalysis counts it once.
THEOREM HeadersAddUpTheorem == Spec => []HeadersAddUp
<1>1. IInv /\ FilesInv => HeadersAddUp
  <2> SUFFICES ASSUME IInv, FilesInv, NEW r \in FinishedRuns
               PROVE  /\ \E n \in FilesOf(r) :
                           /\ disk[n].requested = nRequested[r]
                           /\ \A m \in FilesOf(r) \ {n} : disk[m].requested = 0
                      /\ ~OverwritesItself =>
                           \A n \in FilesOf(r) : /\ disk[n].hasOptions <=> n = FirstOf(r)
                                                 /\ disk[n].hasRun <=> n = LastOf(r)
    BY DEF HeadersAddUp
  <2>1. r \in 1..run /\ (pc \notin {"idle", "done"} => r # run)
    BY DEF FinishedRuns, IInv, Types, run
  <2>2. \A n \in FilesOf(r) : n \in Ours /\ disk[n].run = r /\ (n = LastOf(r) <=> n \in Lasts)
    BY <2>1, LastOfRun
  <2>3. ASSUME NEW n \in FilesOf(r) PROVE n # openFile
    <3>1. pc \in {"idle", "done"} => openFile \notin Ours
      BY ClosedIsNoName DEF IInv, OpenInv, Ours, Disk
    <3>2. openFile \in Ours => disk[openFile].run = run
      BY DEF FilesInv, NumberInv
    <3> QED
      BY <2>1, <2>2, <3>1, <3>2
  <2>4. \A n \in FilesOf(r) : disk[n].hasRun <=> n = LastOf(r)
    BY <2>2, <2>3 DEF FilesInv, HeaderInv
  <2>5. \A n \in FilesOf(r) : disk[n].requested = IF n = LastOf(r) THEN nRequested[r] ELSE 0
    BY <2>2, <2>4 DEF FilesInv, HeaderInv
  <2>6. LastOf(r) \in FilesOf(r)
    BY <2>1, LastOfRun
  <2>7. ~OverwritesItself => \A n \in FilesOf(r) : disk[n].hasOptions <=> n = FirstOf(r)
    BY <2>1, <2>2, FirstOfRun DEF FilesInv, HeaderInv
  <2> QED
    BY <2>4, <2>5, <2>6, <2>7
<1> QED
  BY Invariant, FilesInvariant, <1>1, PTL

\* The j-th set of histograms has the events of the j-th file, and the Run entry
\* of each run the sets of all files up to its own (CreateHistograms, FillRun).
THEOREM HistogramSetPerFileTheorem == Spec => []HistogramSetPerFile
<1>1. IInv /\ FilesInv => HistogramSetPerFile
  <2> SUFFICES ASSUME IInv, FilesInv PROVE HistogramSetPerFile
    OBVIOUS
  <2>1. /\ DOMAIN histSets = 1..Len(histSets) /\ Len(histSets) = fileNumber + 1
        /\ \A j \in 1..Len(histSets) : histSets[j] = Held[j - 1]
        /\ \A n \in Ours : disk[n].hasRun =>
             disk[n].histos = [j \in 1..(disk[n].number + 1) |-> Held[j - 1]]
    BY DEF IInv, Types, FilesInv, NumberInv, EventsInv
  <2>2. \A j \in Int : Held[j - 1] = EventsOf(Written(j - 1))
    BY DEF Held, EventsIn
  <2>3. \A n \in Ours : [j \in 1..(disk[n].number + 1) |-> Held[j - 1]] =
                        [j \in 1..(disk[n].number + 1) |-> EventsOf(Written(j - 1))]
    BY <2>2
  <2> QED
    BY <2>1, <2>2, <2>3 DEF HistogramSetPerFile
<1> QED
  BY Invariant, FilesInvariant, <1>1, PTL

\* A program that is killed loses less than nPerFile events of a run in which no
\* event was aborted: those of the one file that is not closed.
THEOREM KillLosesLessThanAFileTheorem == Spec => []KillLosesLessThanAFile
<1>1. IInv /\ FilesInv => KillLosesLessThanAFile
  <2> SUFFICES ASSUME IInv, FilesInv, cfg.nPerFile > 0, NoEventAborted(run), ~OverwritesItself,
                      NEW i \in DOMAIN log,
                      ~\E n \in Ours : disk[n].number = log[i].file /\ disk[n].saved
               PROVE  i > Len(log) - (cfg.nPerFile - 1)
    BY DEF KillLosesLessThanAFile
  <2>1. log[i].file \in Nat /\ log[i].file <= fileNumber /\ fileNumber \in Int
    <3>1. log[i] \in LogType
      BY DEF FilesInv, LogInv
    <3> QED
      BY <3>1 DEF FilesInv, LogInv, LogType, IInv, Types
  <2>2. PICK n \in Ours : disk[n].number = log[i].file
    BY <2>1 DEF FilesInv, NameInv
  <2>3. n = openFile
    BY <2>2 DEF IInv, OpenInv
  <2>4. log[i].file = fileNumber /\ disk[openFile].run = run
    BY <2>2, <2>3 DEF FilesInv, NumberInv
  <2>5. i > Len(log) - Len(disk[openFile].events)
    BY <2>2, <2>3, <2>4 DEF FilesInv, CountInv
  <2>6. run \in Unaborted
    BY DEF Unaborted, IInv, Types, run
  <2>7. Len(disk[openFile].events) < cfg.nPerFile /\ disk[openFile].events \in Seq(EventType)
    BY <2>2, <2>3, <2>4, <2>6, OpenIsLast, OursTypes DEF FilesInv, CountInv
  <2>8. cfg.nPerFile \in Nat /\ Len(log) \in Nat /\ i \in Nat /\ Len(disk[openFile].events) \in Nat
    BY <2>7, OptionFacts DEF IInv, Types, FilesInv, LogInv
  <2> QED
    BY <2>5, <2>7, <2>8
<1> QED
  BY Invariant, FilesInvariant, <1>1, PTL
=============================================================================
