--------------------------- MODULE UserFile_proofs ---------------------------
(***************************************************************************)
(* Proofs about the two halves of the userfile distribution: UserFileBunch *)
(* (which line an event gets), for every file, every setting of the beam   *)
(* and options and any number of runs, and then UserFileParticle (what the *)
(* event makes of its line), for every particle table, every value of the  *)
(* energy columns and every format.                                        *)
(***************************************************************************)
EXTENDS UserFileBunch, UserFileParticle, CommonLemmas

\* A usable line is held between reading and decoding it.
Held == pc = "scan" /\ ~Skippable(line)
NHeld == IF Held THEN 1 ELSE 0
Opened == pc \notin {"initialise", "failed"}

\* The stream: its flags mean its end, and it stands at or after the first
\* usable line's place; when it is closed all has been read.
StreamInv ==
    /\ eof => pos = NLines
    /\ Opened => /\ IsStart(Start) /\ Start <= pos
                 /\ isOpen \/ pos = NLines
                 /\ nLinesValid = NValid(NLinesIgnore, NLines)
    /\ pc = "construct" => pos = Start
    /\ Held => line = pos /\ Start < pos

NothingYet ==
    pc \in {"initialise", "construct", "failed"} => events = <<>> /\ passes = 0 /\ base = 0

\* Each usable line the stream has passed was rolled over, or given to an
\* event, or is held.
Accounted ==
    Opened => base + Len(events) + NHeld = passes * NEventsPerLoop + NValid(Start, pos)

\* With looping off, there are as many usable lines left as events to come.
Enough ==
    /\ ~loop => cfg.distrFileLoopNTimes <= 1
    /\ pc \in {"event", "scan"} => nToDo > 0 /\ (cfg.batch \/ loop)
    /\ ~loop /\ pc = "construct" /\ cfg.recreate = "no" => nGenerate <= NEventsPerLoop
    /\ ~loop /\ pc = "idle" /\ cfg.batch => nGenerate <= NValid(pos, NLines)
    /\ ~loop /\ pc \in {"event", "scan"} => nToDo <= NValid(pos, NLines) + NHeld

IInv ==
    /\ TypeOK /\ StreamInv /\ NothingYet /\ Accounted /\ Enough
    /\ NeverStarved /\ EventsFollowFile

-----------------------------------------------------------------------------
(***************************************************************************)
(* Counting the valid lines of a stretch of the file.                      *)
(***************************************************************************)
\* A stretch has finitely many valid lines, at most its length.
LEMMA NValidType ==
    ASSUME NEW a \in Nat, NEW b \in Nat
    PROVE  /\ IsFiniteSet(ValidIn(a, b))
           /\ NValid(a, b) \in Nat
           /\ a <= b => NValid(a, b) <= b - a
           /\ a >= b => ValidIn(a, b) = {} /\ NValid(a, b) = 0
<1>1. IsFiniteSet((a + 1)..b) /\ Cardinality((a + 1)..b) = IF a + 1 > b THEN 0 ELSE b - (a + 1) + 1
  BY FS_Interval
<1>2. ValidIn(a, b) \in SUBSET ((a + 1)..b)
  BY DEF ValidIn
<1>3. IsFiniteSet(ValidIn(a, b)) /\ NValid(a, b) <= Cardinality((a + 1)..b)
  BY <1>1, <1>2, FS_Subset DEF NValid
<1>4. NValid(a, b) \in Nat
  BY <1>3, FS_CardinalityType DEF NValid
<1>5. a >= b => ValidIn(a, b) = {}
  BY <1>2
<1>6. a >= b => NValid(a, b) = 0
  BY <1>5, FS_EmptySet DEF NValid
<1> QED
  BY <1>1, <1>3, <1>4, <1>5, <1>6

\* The count of two adjoining stretches is the sum of their counts.
LEMMA NValidAdds ==
    ASSUME NEW a \in Nat, NEW b \in Nat, NEW c \in Nat, a <= b, b <= c
    PROVE  NValid(a, c) = NValid(a, b) + NValid(b, c)
<1>1. ValidIn(a, c) = ValidIn(a, b) \cup ValidIn(b, c)
  BY DEF ValidIn
<1>2. ValidIn(a, b) \cap ValidIn(b, c) = {}
  BY DEF ValidIn
<1>3. IsFiniteSet(ValidIn(a, b)) /\ IsFiniteSet(ValidIn(b, c))
  BY NValidType
<1>4. Cardinality(ValidIn(a, b) \cap ValidIn(b, c)) = 0
  BY <1>2, FS_EmptySet
<1>5. NValid(a, b) \in Nat /\ NValid(b, c) \in Nat
  BY NValidType
<1>6. Cardinality(ValidIn(a, b) \cup ValidIn(b, c))
        = Cardinality(ValidIn(a, b)) + Cardinality(ValidIn(b, c))
            - Cardinality(ValidIn(a, b) \cap ValidIn(b, c))
  BY <1>3, FS_Union
<1> QED
  BY <1>1, <1>4, <1>5, <1>6 DEF NValid

\* One line more.
LEMMA NValidNext ==
    ASSUME NEW b \in Nat
    PROVE  NValid(b, b + 1) = IF Skippable(b + 1) THEN 0 ELSE 1
<1>1. ValidIn(b, b + 1) = ValidLines \cap {b + 1}
  BY DEF ValidIn
<1>2. CASE Skippable(b + 1)
  <2>1. ValidIn(b, b + 1) = {}
    BY <1>1, <1>2 DEF Skippable
  <2> QED
    BY <1>2, <2>1, FS_EmptySet DEF NValid
<1>3. CASE ~Skippable(b + 1)
  <2>1. ValidIn(b, b + 1) = {b + 1}
    BY <1>1, <1>3 DEF Skippable
  <2> QED
    BY <1>3, <2>1, FS_Singleton DEF NValid
<1> QED
  BY <1>2, <1>3

\* A stretch with no valid line counted has none.
LEMMA NValidZero ==
    ASSUME NEW a \in Nat, NEW b \in Nat, NValid(a, b) = 0
    PROVE  ValidIn(a, b) = {}
BY NValidType, FS_EmptySet DEF NValid

-----------------------------------------------------------------------------
\* The parts of the settings the proofs use.
LEMMA Settings ==
    ASSUME cfg \in Configs
    PROVE  /\ NLines \in Nat /\ NLinesIgnore \in Nat
           /\ cfg.nlinesSkip \in Nat /\ cfg.startFromEvent \in Nat
           /\ cfg.distrFileLoopNTimes \in Nat /\ cfg.nGenerate \in Nat
           /\ cfg.batch \in BOOLEAN /\ cfg.distrFileLoop \in BOOLEAN
           /\ cfg.recreate \in {"no", "option", "executable"}
BY ConfigAssumption DEF ConfigType, NLines, NLinesIgnore

\* The place of the first usable line is where opening leaves the stream.
LEMMA StartIsUnique ==
    ASSUME cfg \in Configs, NEW p \in 0..NLines, IsStart(p)
    PROVE  Start = p
<1> USE Settings
<1>1. ASSUME NEW q \in 0..NLines, IsStart(q), NEW r \in 0..NLines, IsStart(r), q < r
      PROVE  FALSE
  <2>1. NLinesIgnore <= q /\ ~Skippable(r) /\ NValid(NLinesIgnore, q) = NValid(NLinesIgnore, r)
    BY <1>1 DEF IsStart
  <2>0. /\ NLinesIgnore \in Nat /\ q \in Nat /\ r \in Nat /\ r - 1 \in Nat /\ (r - 1) + 1 = r
        /\ q <= r - 1 /\ r - 1 <= r /\ NLinesIgnore <= r - 1
    BY <1>1, <2>1
  <2>2. NValid(NLinesIgnore, r) = NValid(NLinesIgnore, r - 1) + NValid(r - 1, r)
    BY <2>0, NValidAdds
  <2>3. NValid(NLinesIgnore, r - 1) = NValid(NLinesIgnore, q) + NValid(q, r - 1)
    BY <2>0, <2>1, NValidAdds
  <2>4. NValid(r - 1, r) = 1
    BY <2>0, <2>1, NValidNext
  <2>5. NValid(q, r - 1) \in Nat /\ NValid(NLinesIgnore, q) \in Nat
    BY <2>0, NValidType
  <2> QED
    BY <2>1, <2>2, <2>3, <2>4, <2>5
<1>2. Start \in 0..NLines /\ IsStart(Start)
  BY DEF Start
<1>3. ~(Start < p) /\ ~(p < Start)
  BY <1>1, <1>2
<1> QED
  BY <1>2, <1>3

\* The valid lines, less those to skip, are the ones from there on.
LEMMA LoopLength ==
    ASSUME cfg \in Configs, NEW p \in 0..NLines, IsStart(p)
    PROVE  /\ NValid(NLinesIgnore, NLines) - cfg.nlinesSkip = NValid(p, NLines)
           /\ NValid(p, NLines) \in Nat
<1>1. NLines \in Nat /\ NLinesIgnore \in Nat /\ p \in Nat /\ NLinesIgnore <= p /\ p <= NLines
  BY Settings DEF IsStart
<1>2. NValid(NLinesIgnore, p) = cfg.nlinesSkip
  BY DEF IsStart
<1>3. NValid(NLinesIgnore, NLines) = NValid(NLinesIgnore, p) + NValid(p, NLines)
  BY <1>1, NValidAdds
<1>4. NValid(NLinesIgnore, p) \in Nat /\ NValid(p, NLines) \in Nat
  BY <1>1, NValidType
<1> QED
  BY <1>2, <1>3, <1>4

\* So, whenever the program has opened the file.
LEMMA PerLoop ==
    ASSUME TypeOK, StreamInv, Opened
    PROVE  /\ Start \in Nat /\ pos \in Nat /\ NLines \in Nat /\ Start <= pos /\ pos <= NLines
           /\ NEventsPerLoop = NValid(Start, NLines)
           /\ NEventsPerLoop = NValid(Start, pos) + NValid(pos, NLines)
           /\ NEventsPerLoop \in Nat /\ NValid(Start, pos) \in Nat /\ NValid(pos, NLines) \in Nat
<1>1. cfg \in Configs /\ pos \in 0..NLines /\ IsStart(Start) /\ Start <= pos
      /\ nLinesValid = NValid(NLinesIgnore, NLines)
  BY DEF TypeOK, StreamInv
<1>2. NLines \in Nat /\ NLinesIgnore \in Nat
  BY <1>1, Settings
<1>3. Start \in NLinesIgnore..NLines
  BY <1>1 DEF IsStart
<1>4. Start \in Nat /\ pos \in Nat /\ pos <= NLines /\ Start \in 0..NLines
  BY <1>1, <1>2, <1>3
<1>5. NEventsPerLoop = NValid(Start, NLines) /\ NValid(Start, NLines) \in Nat
  BY <1>1, <1>4, LoopLength DEF NEventsPerLoop
<1>6. NValid(Start, NLines) = NValid(Start, pos) + NValid(pos, NLines)
  BY <1>1, <1>2, <1>4, NValidAdds
<1>7. NValid(Start, pos) \in Nat /\ NValid(pos, NLines) \in Nat
  BY <1>2, <1>4, NValidType
<1> QED
  BY <1>1, <1>2, <1>4, <1>5, <1>6, <1>7

LEMMA AtMostTransitive ==
    ASSUME NEW a \in Int, NEW b \in Int, NEW c \in Int, a <= b, b <= c
    PROVE  a <= c
OBVIOUS

LEMMA NoPasses ==
    ASSUME NEW n \in Nat
    PROVE  0 * n = 0
OBVIOUS

\* At most one loop is no more than one.
LEMMA TimesAtMostOne ==
    ASSUME NEW n \in Nat, NEW t \in Nat, t <= 1
    PROVE  n * t <= n /\ n * t \in Nat
<1>1. t = 0 \/ t = 1
  OBVIOUS
<1>2. n * 0 = 0 /\ n * 1 = n
  OBVIOUS
<1> QED
  BY <1>1, <1>2

\* The next state in the terms of this one, as the settings do not change.
LEMMA Frame ==
    ASSUME cfg' = cfg
    PROVE  /\ NLines' = NLines /\ NLinesIgnore' = NLinesIgnore /\ Start' = Start
           /\ IsStart(Start)' <=> IsStart(Start)
           /\ NValid(NLinesIgnore, NLines)' = NValid(NLinesIgnore, NLines)
           /\ NValid(Start, pos)' = NValid(Start, pos')
           /\ NValid(pos, NLines)' = NValid(pos', NLines)
           /\ Skippable(line)' <=> Skippable(line')
           /\ NEventsPerLoop' = nLinesValid' - cfg.nlinesSkip
<1>1. NLines' = NLines /\ NLinesIgnore' = NLinesIgnore /\ ValidLines' = ValidLines
  BY DEF NLines, NLinesIgnore, ValidLines
<1>2. Start' = Start
  BY DEF Start, IsStart, NValid, ValidIn, Skippable, NLinesIgnore, NLines, ValidLines
<1> QED
  BY <1>1, <1>2 DEF IsStart, NValid, ValidIn, Skippable, NEventsPerLoop

\* A step that changes none of its parts keeps the history as it should be.
LEMMA HistoryKept ==
    ASSUME EventsFollowFile, NeverStarved, UNCHANGED <<cfg, nLinesValid, base, events>>
    PROVE  EventsFollowFile' /\ NeverStarved'
BY Frame DEF EventsFollowFile, NeverStarved, NEventsPerLoop, LineRank, ValidIn, NValid, ValidLines,
   NLines

-----------------------------------------------------------------------------
(***************************************************************************)
(* The invariant: its beginning, and each step.                            *)
(***************************************************************************)
LEMMA InitIInv ==
    ASSUME Init
    PROVE  IInv
<1>1. cfg \in Configs /\ NLines \in Nat /\ cfg.nGenerate \in Nat
  BY Settings DEF Init
<1>2. events = <<>> /\ DOMAIN events = {}
  BY DEF Init
<1>3. TypeOK
  <2>1. loop \in BOOLEAN /\ isOpen \in BOOLEAN /\ eof \in BOOLEAN
    BY Zenon DEF Init
  <2>2. pos = 0 /\ line = 0 /\ pc = "initialise" /\ nLinesValid = 0 /\ nGenerate = cfg.nGenerate
        /\ nSkipped = 0 /\ nToDo = 0 /\ nRuns = 0
        /\ base = 0 /\ passes = 0 /\ events = <<>>
    BY Zenon DEF Init
  <2> QED
    BY <1>1, <2>1, <2>2 DEF TypeOK
<1>4. StreamInv /\ NothingYet /\ Accounted
  BY DEF Init, StreamInv, NothingYet, Accounted, Opened, Held
<1>5. Enough
  <2>1. ~loop => ~(cfg.distrFileLoopNTimes > 1)
    BY Zenon DEF Init
  <2> QED
    BY <1>1, <2>1, Settings DEF Init, Enough
<1>6. NeverStarved /\ EventsFollowFile
  BY <1>2 DEF NeverStarved, EventsFollowFile
<1> QED
  BY <1>3, <1>4, <1>5, <1>6 DEF IInv

LEMMA InitialiseIInv ==
    ASSUME IInv, Initialise
    PROVE  IInv'
<1> USE DEF Initialise
<1>1. TypeOK /\ NothingYet /\ Enough /\ NeverStarved /\ EventsFollowFile /\ cfg \in Configs
  BY DEF IInv, TypeOK
<1>2. PICK p \in 0..NLines : IsStart(p) /\ pos' = p /\ eof' = EofAfter(p) /\ isOpen' = TRUE
  BY DEF OpenedAtStart
<1>3. Start = p
  BY <1>1, <1>2, StartIsUnique
<1> DEFINE P == NValid(Start, NLines)
<1>4. /\ NLines \in Nat /\ NLinesIgnore \in Nat /\ p \in Nat
      /\ nLinesValid' = NValid(NLinesIgnore, NLines) /\ nLinesValid' \in Nat
      /\ nLinesValid' - cfg.nlinesSkip = P /\ P \in Nat
  <2>1. NLines \in Nat /\ NLinesIgnore \in Nat /\ p \in Nat
    BY <1>1, Settings
  <2>2. nLinesValid' - cfg.nlinesSkip = P /\ P \in Nat
    BY <1>1, <1>2, <1>3, LoopLength
  <2> QED
    BY <2>1, <2>2, NValidType
<1>5. events' = <<>> /\ passes' = 0 /\ base' = 0 /\ pc' = "construct" /\ cfg' = cfg
      /\ loop' = loop /\ line' = line
  BY <1>1 DEF NothingYet
<1>6. nGenerate' = MatchedNGenerate(P) /\ ~RefusedByInitialise(nLinesValid')
  BY <1>4
<1>7. P * cfg.distrFileLoopNTimes \in Nat
  BY <1>1, <1>4, Settings
<1>8. TypeOK'
  <2>1. nGenerate' \in Int
    BY <1>1, <1>6, <1>7, Settings DEF MatchedNGenerate
  <2>2. pos' \in 0..NLines' /\ eof' \in BOOLEAN /\ line' \in 0..NLines' /\ nSkipped' \in Nat
    BY <1>1, <1>2, <1>5, Frame, Settings DEF EofAfter, TypeOK
  <2> QED
    BY <1>1, <1>2, <1>4, <1>5, <2>1, <2>2 DEF TypeOK
<1>9. StreamInv'
  <2>1. eof' => pos' = NLines'
    BY <1>2, <1>5, Frame DEF EofAfter
  <2>2. IsStart(Start)' /\ Start' = pos'
    BY <1>2, <1>3, <1>5, Frame
  <2>3. nLinesValid' = NValid(NLinesIgnore, NLines)'
    BY <1>4, <1>5, Frame
  <2> QED
    BY <1>2, <1>4, <1>5, <2>1, <2>2, <2>3 DEF StreamInv, Opened, Held
<1>10. NothingYet'
  BY <1>5 DEF NothingYet
<1>11. Accounted'
  <2>1. NValid(p, p) = 0
    BY <1>4, NValidType
  <2>2. NValid(Start, pos)' = 0
    BY <1>2, <1>3, <1>5, <2>1, Frame
  <2>3. NEventsPerLoop' \in Nat
    BY <1>4, <1>5, Frame
  <2>4. ~Held' /\ Len(events') = 0
    BY <1>5 DEF Held
  <2>5. NHeld' = 0
    BY <2>4 DEF NHeld
  <2>6. passes' * NEventsPerLoop' = 0
    BY <1>5, <2>3, NoPasses
  <2> QED
    BY <1>5, <2>2, <2>4, <2>5, <2>6 DEF Accounted
<1>12. Enough'
  <2>1. ~loop' => cfg.distrFileLoopNTimes <= 1
    BY <1>1, <1>5 DEF Enough
  <2>2. ~loop' /\ cfg.recreate = "no" => nGenerate' <= P
    <3> SUFFICES ASSUME ~loop, cfg.recreate = "no"
                 PROVE  nGenerate' <= P
      BY <1>5
    <3>1. P * cfg.distrFileLoopNTimes <= P
      BY <1>1, <1>4, <1>5, <2>1, Settings, TimesAtMostOne
    <3> QED
      BY <1>1, <1>4, <1>6, <1>7, <3>1, Settings DEF MatchedNGenerate, RefusedByInitialise
  <2>3. NEventsPerLoop' = P
    BY <1>4, <1>5, Frame
  <2> QED
    BY <1>5, <2>1, <2>2, <2>3 DEF Enough
<1>13. NeverStarved' /\ EventsFollowFile'
  BY <1>5 DEF NeverStarved, EventsFollowFile
<1> QED
  BY <1>8, <1>9, <1>10, <1>11, <1>12, <1>13 DEF IInv

\* A step that ends the program before any event.
LEMMA FailureIInv ==
    ASSUME IInv, InitialiseFails \/ ConstructFails
    PROVE  IInv'
<1>1. /\ pc \in {"initialise", "construct"} /\ pc' = "failed"
      /\ UNCHANGED <<cfg, nLinesValid, nGenerate, loop, isOpen, pos, eof, line, nSkipped,
                     nToDo, nRuns, base, passes, events>>
  BY DEF InitialiseFails, ConstructFails, stream
<1>2. NLines' = NLines
  BY <1>1, Frame
<1>3. TypeOK'
  BY <1>1, <1>2 DEF IInv, TypeOK
<1>4. StreamInv' /\ NothingYet' /\ Accounted' /\ Enough'
  BY <1>1, <1>2 DEF IInv, StreamInv, NothingYet, Accounted, Enough, Opened, Held
<1>5. EventsFollowFile' /\ NeverStarved'
  BY <1>1, HistoryKept DEF IInv
<1> QED
  BY <1>3, <1>4, <1>5 DEF IInv

LEMMA ConstructNormallyIInv ==
    ASSUME IInv, ConstructNormally
    PROVE  IInv'
<1>1. /\ pc = "construct" /\ pc' = "idle" /\ cfg.recreate = "no"
      /\ UNCHANGED <<cfg, nLinesValid, nGenerate, loop, isOpen, pos, eof, line, nSkipped,
                     nToDo, nRuns, base, passes, events>>
  BY DEF ConstructNormally, stream
<1>2. ~Held /\ ~Held' /\ Opened /\ Opened'
  BY <1>1 DEF Held, Opened
<1>3. TypeOK'
  BY <1>1, Frame DEF IInv, TypeOK
<1>4. StreamInv' /\ NothingYet'
  BY <1>1, <1>2, Frame DEF IInv, StreamInv, NothingYet
<1>5. Accounted'
  BY <1>1, <1>2, Frame DEF IInv, Accounted, NHeld, NEventsPerLoop
<1>6. Enough'
  <2>1. /\ NEventsPerLoop = NValid(Start, pos) + NValid(pos, NLines)
        /\ NEventsPerLoop \in Nat /\ NValid(Start, pos) \in Nat /\ NValid(pos, NLines) \in Nat
        /\ Start \in Nat /\ pos \in Nat
    BY <1>2, PerLoop DEF IInv
  <2>2. NValid(Start, pos) = 0
    BY <1>1, <2>1, NValidType DEF IInv, StreamInv
  <2>3. NValid(pos, NLines)' = NValid(pos, NLines)
    BY <1>1, Frame
  <2>4. ~loop => nGenerate <= NValid(pos, NLines)
    BY <1>1, <2>1, <2>2 DEF IInv, Enough
  <2> QED
    BY <1>1, <2>3, <2>4 DEF IInv, Enough
<1>7. EventsFollowFile' /\ NeverStarved'
  BY <1>1, HistoryKept DEF IInv
<1> QED
  BY <1>3, <1>4, <1>5, <1>6, <1>7 DEF IInv

LEMMA ConstructRecreatingIInv ==
    ASSUME IInv, ConstructRecreating
    PROVE  IInv'
<1> DEFINE n == NToRoll
<1>1. /\ pc = "construct" /\ pc' = "idle" /\ cfg.recreate # "no" /\ ~RefusedByRecreate
      /\ cfg.startFromEvent > NEventsPerLoop => NEventsPerLoop > 0
      /\ pos' = AfterReading(n) /\ base' = NValid(pos, pos')
      /\ eof' = (eof \/ pos + n > NLines \/ (n > 0 /\ EofAfter(pos')))
      /\ UNCHANGED <<cfg, nLinesValid, nGenerate, loop, isOpen, line, nSkipped,
                     nToDo, nRuns, passes, events>>
  BY DEF ConstructRecreating
<1>2. ~Held /\ ~Held' /\ Opened /\ Opened'
  BY <1>1 DEF Held, Opened
<1>3. /\ NEventsPerLoop = NValid(Start, pos) + NValid(pos, NLines)
      /\ NEventsPerLoop \in Nat /\ NValid(Start, pos) \in Nat /\ NValid(pos, NLines) \in Nat
      /\ Start \in Nat /\ pos \in Nat /\ NLines \in Nat /\ pos <= NLines
  BY <1>2, PerLoop DEF IInv
<1>4. cfg \in Configs /\ cfg.startFromEvent \in Nat /\ cfg.distrFileLoopNTimes \in Nat
  BY Settings DEF IInv, TypeOK
<1>5. n \in Nat
  BY <1>1, <1>3, <1>4 DEF NToRoll
<1>6. pos' \in Nat /\ pos <= pos' /\ pos' <= NLines /\ pos' - pos <= n
      /\ (pos + n > NLines => pos' = NLines)
  BY <1>1, <1>3, <1>5 DEF AfterReading
<1>7. base' \in Nat /\ base' <= pos' - pos
  BY <1>1, <1>3, <1>6, NValidType
<1>8. pos = Start /\ NValid(Start, pos) = 0 /\ NValid(Start, pos') = base'
  BY <1>1, <1>3, NValidType DEF IInv, StreamInv
<1>9. NValid(pos, NLines) = base' + NValid(pos', NLines) /\ NValid(pos', NLines) \in Nat
  <2>1. NValid(pos, NLines) = NValid(pos, pos') + NValid(pos', NLines)
    BY <1>3, <1>6, NValidAdds
  <2>2. NValid(pos', NLines) \in Nat
    BY <1>3, <1>6, NValidType
  <2> QED
    BY <1>1, <2>1, <2>2
<1>10. eof' \in BOOLEAN /\ (eof' => pos' = NLines)
  <2>1. eof => pos = NLines
    BY DEF IInv, StreamInv
  <2>2. eof' \in BOOLEAN
    BY Zenon, <1>1
  <2>3. eof' => eof \/ pos + n > NLines \/ EofAfter(pos')
    BY Zenon, <1>1
  <2> QED
    BY <1>3, <1>6, <2>1, <2>2, <2>3 DEF EofAfter
<1>11. TypeOK'
  BY <1>1, <1>6, <1>7, <1>10, Frame DEF IInv, TypeOK
<1>12. StreamInv' /\ NothingYet'
  BY <1>1, <1>2, <1>3, <1>6, <1>8, <1>10, Frame DEF IInv, StreamInv, NothingYet
<1>13. Accounted'
  <2>1. NEventsPerLoop' = NEventsPerLoop /\ passes' = 0 /\ Len(events') = 0 /\ NHeld' = 0
    BY <1>1, <1>2, Frame DEF IInv, NothingYet, NEventsPerLoop, NHeld
  <2>2. passes' * NEventsPerLoop' = 0
    BY <1>3, <2>1, NoPasses
  <2>3. NValid(Start, pos)' = base'
    BY <1>1, <1>8, Frame
  <2> QED
    BY <1>7, <2>1, <2>2, <2>3 DEF Accounted
<1>14. Enough'
  <2>1. ASSUME ~loop
        PROVE  nGenerate <= NValid(pos', NLines)
    <3>1. cfg.startFromEvent <= NEventsPerLoop /\ nGenerate <= NAvailable - cfg.startFromEvent
      BY <1>1, <1>3, <1>4, <2>1 DEF RefusedByRecreate, NAvailable, IInv, TypeOK
    <3>2. n = cfg.startFromEvent
      BY <1>3, <1>4, <3>1 DEF NToRoll
    <3>3. NAvailable <= NEventsPerLoop /\ NAvailable \in Nat
      BY <1>3, <1>4, <2>1, TimesAtMostOne DEF NAvailable, IInv, Enough
    <3>4. nGenerate \in Int
      BY DEF IInv, TypeOK
    <3>5. base' <= n
      <4>1. base' \in Int /\ pos' - pos \in Int /\ n \in Int
        BY <1>3, <1>5, <1>6, <1>7
      <4>2. base' <= pos' - pos /\ pos' - pos <= n
        BY <1>6, <1>7
      <4> HIDE DEF n
      <4> QED
        BY <4>1, <4>2, AtMostTransitive
    <3>6. NValid(pos', NLines) = NEventsPerLoop - base'
      BY <1>3, <1>7, <1>8, <1>9
    <3>7. nGenerate <= NAvailable - n
      BY <3>1, <3>2
    <3>8. nGenerate <= NEventsPerLoop - n
      BY <1>3, <1>5, <3>3, <3>4, <3>7
    <3> QED
      BY <1>3, <1>5, <1>7, <3>4, <3>5, <3>6, <3>8
  <2>2. NValid(pos, NLines)' = NValid(pos', NLines)
    BY <1>1, Frame
  <2> QED
    BY <1>1, <2>1, <2>2 DEF IInv, Enough
<1>15. EventsFollowFile' /\ NeverStarved'
  <2>1. events' = <<>>
    BY <1>1 DEF IInv, NothingYet
  <2> QED
    BY <2>1 DEF EventsFollowFile, NeverStarved
<1> QED
  BY <1>11, <1>12, <1>13, <1>14, <1>15 DEF IInv

-----------------------------------------------------------------------------
\* A run of n events starts, with enough lines for them if it cannot loop.
LEMMA BeamOnIInv ==
    ASSUME IInv, NEW n \in Nat, BeamOn(n),
           ~loop /\ cfg.batch => n <= NValid(pos, NLines)
    PROVE  IInv'
<1>1. /\ pc = "idle" /\ pc' = IF n > 0 THEN "event" ELSE "done"
      /\ nRuns' = nRuns + 1 /\ nToDo' = n
      /\ UNCHANGED <<cfg, nLinesValid, nGenerate, isOpen, pos, eof, line, nSkipped,
                     base, passes, events>>
  BY DEF BeamOn, stream
<1>2. loop' \in BOOLEAN /\ (loop' <=> ~cfg.batch \/ loop)
  BY Zenon DEF BeamOn
<1>3. ~Held /\ ~Held' /\ Opened /\ Opened'
  BY <1>1 DEF Held, Opened
<1>4. TypeOK'
  BY <1>1, <1>2, Frame DEF IInv, TypeOK
<1>5. StreamInv' /\ NothingYet'
  BY <1>1, <1>3, Frame DEF IInv, StreamInv, NothingYet
<1>6. Accounted'
  BY <1>1, <1>3, Frame DEF IInv, Accounted, NHeld, NEventsPerLoop
<1>7. Enough'
  <2>1. NValid(pos, NLines)' = NValid(pos, NLines) /\ NValid(pos, NLines) \in Nat
    BY <1>1, <1>3, Frame, PerLoop DEF IInv
  <2> QED
    BY <1>1, <1>2, <1>3, <2>1 DEF IInv, Enough, NHeld
<1>8. EventsFollowFile' /\ NeverStarved'
  BY <1>1, HistoryKept DEF IInv
<1> QED
  BY <1>4, <1>5, <1>6, <1>7, <1>8 DEF IInv

LEMMA BatchBeamOnIInv ==
    ASSUME IInv, BatchBeamOn
    PROVE  IInv'
<1> DEFINE n == IF nGenerate > 0 THEN nGenerate ELSE 0
<1>1. n \in Nat /\ BeamOn(n) /\ cfg.batch /\ pc = "idle"
  BY DEF BatchBeamOn, BeamOn, IInv, TypeOK
<1>2. NValid(pos, NLines) \in Nat
  BY <1>1, PerLoop DEF IInv, Opened
<1>3. ~loop => n <= NValid(pos, NLines)
  BY <1>1, <1>2 DEF IInv, Enough
<1> QED
  BY <1>1, <1>3, BeamOnIInv

LEMMA InteractiveBeamOnIInv ==
    ASSUME IInv, InteractiveBeamOn
    PROVE  IInv'
BY BoundAssumption, BeamOnIInv DEF InteractiveBeamOn

LEMMA QuitIInv ==
    ASSUME IInv, Quit
    PROVE  IInv'
<1>1. /\ pc = "idle" /\ pc' = "done"
      /\ UNCHANGED <<cfg, nLinesValid, nGenerate, loop, isOpen, pos, eof, line, nSkipped,
                     nToDo, nRuns, base, passes, events>>
  BY DEF Quit, stream
<1>2. ~Held /\ ~Held' /\ Opened /\ Opened'
  BY <1>1 DEF Held, Opened
<1>3. TypeOK' /\ StreamInv' /\ NothingYet'
  BY <1>1, <1>2, Frame DEF IInv, TypeOK, StreamInv, NothingYet
<1>4. Accounted' /\ Enough'
  BY <1>1, <1>2, Frame DEF IInv, Accounted, NHeld, NEventsPerLoop, Enough
<1>5. EventsFollowFile' /\ NeverStarved'
  BY <1>1, HistoryKept DEF IInv
<1> QED
  BY <1>3, <1>4, <1>5 DEF IInv

LEMMA BeginEventIInv ==
    ASSUME IInv, BeginEvent
    PROVE  IInv'
<1>1. /\ pc = "event" /\ pc' = "scan" /\ line' = 0
      /\ UNCHANGED <<cfg, nLinesValid, nGenerate, loop, isOpen, pos, eof, nSkipped,
                     nToDo, nRuns, base, passes, events>>
  BY DEF BeginEvent, stream
<1>2. NLines \in Nat /\ Skippable(line')
  BY <1>1, Settings DEF Skippable, ValidLines, IInv, TypeOK
<1>3. ~Held /\ ~Held' /\ Opened /\ Opened'
  BY <1>1, <1>2, Frame DEF Held, Opened
<1>4. TypeOK' /\ StreamInv' /\ NothingYet'
  BY <1>1, <1>2, <1>3, Frame DEF IInv, TypeOK, StreamInv, NothingYet
<1>5. Accounted' /\ Enough'
  BY <1>1, <1>3, Frame DEF IInv, Accounted, NHeld, NEventsPerLoop, Enough
<1>6. EventsFollowFile' /\ NeverStarved'
  BY <1>1, HistoryKept DEF IInv
<1> QED
  BY <1>4, <1>5, <1>6 DEF IInv

LEMMA GetLineIInv ==
    ASSUME IInv, GetLine
    PROVE  IInv'
<1>1. /\ pc = "scan" /\ pc' = "scan" /\ Skippable(line)
      /\ UNCHANGED <<cfg, nLinesValid, nGenerate, loop, isOpen, nSkipped,
                     nToDo, nRuns, base, passes, events>>
  BY DEF GetLine
<1>2. ~Held /\ NHeld = 0 /\ Opened /\ Opened'
  BY <1>1 DEF Held, NHeld, Opened
<1>3. /\ NEventsPerLoop = NValid(Start, pos) + NValid(pos, NLines)
      /\ NEventsPerLoop \in Nat /\ NValid(Start, pos) \in Nat /\ NValid(pos, NLines) \in Nat
      /\ Start \in Nat /\ pos \in Nat /\ NLines \in Nat /\ Start <= pos /\ pos <= NLines
  BY <1>2, PerLoop DEF IInv
<1>4. /\ pos' \in Nat /\ pos <= pos' /\ pos' <= NLines /\ line' \in 0..NLines /\ eof' \in BOOLEAN
      /\ eof' => pos' = NLines
      /\ NHeld' = NValid(pos, pos') /\ (Held' => line' = pos' /\ Start < pos')
  <2>1. CASE isOpen /\ pos < NLines
    <3>1. line' = pos + 1 /\ pos' = pos + 1 /\ (eof' <=> EofAfter(pos + 1)) /\ eof' \in BOOLEAN
      BY <2>1 DEF GetLine, EofAfter
    <3>2. Held' <=> ~Skippable(pos + 1)
      BY <1>1, <3>1, Frame DEF Held
    <3>3. NValid(pos, pos + 1) = IF Skippable(pos + 1) THEN 0 ELSE 1
      BY <1>3, NValidNext
    <3>4. NHeld' = NValid(pos, pos')
      BY <3>1, <3>2, <3>3 DEF NHeld
    <3> QED
      BY <1>3, <2>1, <3>1, <3>4 DEF EofAfter
  <2>2. CASE ~(isOpen /\ pos < NLines)
    <3>1. line' = 0 /\ pos' = pos /\ eof' = TRUE
      BY <2>2 DEF GetLine
    <3>2. pos = NLines
      BY <1>2, <1>3, <2>2 DEF IInv, StreamInv
    <3>3. Skippable(0)
      BY <1>3 DEF Skippable, ValidLines
    <3>4. ~Held' /\ NHeld' = 0
      BY <1>1, <3>1, <3>3, Frame DEF Held, NHeld
    <3>5. NValid(pos, pos) = 0
      BY <1>3, NValidType
    <3> QED
      BY <1>3, <3>1, <3>2, <3>4, <3>5
  <2> QED
    BY <2>1, <2>2
<1>5. NValid(pos, pos') \in Nat /\ NValid(pos', NLines) \in Nat
  BY <1>3, <1>4, NValidType
<1>6. NValid(pos, NLines) = NHeld' + NValid(pos', NLines)
  <2>1. NValid(pos, NLines) = NValid(pos, pos') + NValid(pos', NLines)
    BY <1>3, <1>4, NValidAdds
  <2> QED
    BY <1>4, <2>1
<1>7. NValid(Start, pos') = NValid(Start, pos) + NHeld'
  <2>1. NValid(Start, pos') = NValid(Start, pos) + NValid(pos, pos')
    BY <1>3, <1>4, NValidAdds
  <2> QED
    BY <1>4, <2>1
<1>8. NValid(pos, NLines)' = NValid(pos', NLines) /\ NValid(Start, pos)' = NValid(Start, pos')
      /\ NEventsPerLoop' = NEventsPerLoop /\ NLines' = NLines
  BY <1>1, Frame DEF NEventsPerLoop
<1>9. TypeOK'
  BY <1>1, <1>4, <1>8 DEF IInv, TypeOK
<1>10. StreamInv'
  <2>1. Start' = Start /\ Start <= pos' /\ IsStart(Start)'
    BY <1>1, <1>2, <1>3, <1>4, Frame DEF IInv, StreamInv
  <2>2. isOpen' \/ pos' = NLines'
    BY <1>1, <1>2, <1>3, <1>4, <1>8 DEF IInv, StreamInv
  <2>3. nLinesValid' = NValid(NLinesIgnore, NLines)'
    BY <1>1, <1>2, Frame DEF IInv, StreamInv
  <2> QED
    BY <1>1, <1>4, <1>8, <2>1, <2>2, <2>3 DEF StreamInv
<1>11. NothingYet'
  BY <1>1 DEF NothingYet
<1>12. Accounted'
  <2>1. base + Len(events) = passes * NEventsPerLoop + NValid(Start, pos)
    BY <1>2, <1>3 DEF IInv, Accounted, TypeOK
  <2>2. base \in Nat /\ Len(events) \in Nat /\ passes * NEventsPerLoop \in Nat /\ NHeld' \in Nat
    BY <1>3, <1>4, <1>5 DEF IInv, TypeOK
  <2>3. base + Len(events) + NHeld' = passes * NEventsPerLoop + NValid(Start, pos')
    BY <1>3, <1>7, <2>1, <2>2
  <2> QED
    BY <1>1, <1>8, <2>3 DEF Accounted
<1>13. Enough'
  <2>1. ~loop => nToDo <= NValid(pos', NLines) + NHeld'
    BY <1>1, <1>2, <1>3, <1>4, <1>5, <1>6 DEF IInv, Enough
  <2> QED
    BY <1>1, <1>8, <2>1 DEF IInv, Enough
<1>14. EventsFollowFile' /\ NeverStarved'
  BY <1>1, HistoryKept DEF IInv
<1> QED
  BY <1>9, <1>10, <1>11, <1>12, <1>13, <1>14 DEF IInv

\* The end of the file is only ever met when the file can be read again.
LEMMA EndOfFileActionLoops ==
    ASSUME IInv, EndOfFileAction
    PROVE  loop /\ Opened /\ ~Held /\ pos = NLines /\ NValid(pos, NLines) = 0
<1>1. pc = "scan" /\ Skippable(line) /\ eof
  BY DEF EndOfFileAction
<1>2. ~Held /\ NHeld = 0 /\ Opened
  BY <1>1 DEF Held, NHeld, Opened
<1>3. pos = NLines /\ NLines \in Nat
  BY <1>1, <1>2, PerLoop DEF IInv, StreamInv
<1>4. NValid(pos, NLines) = 0
  BY <1>3, NValidType
<1>5. nToDo > 0 /\ nToDo \in Nat /\ (~loop => nToDo <= NValid(pos, NLines) + NHeld)
  BY <1>1 DEF IInv, TypeOK, Enough
<1> QED
  BY <1>2, <1>3, <1>4, <1>5

LEMMA EndOfFileActionIInv ==
    ASSUME IInv, EndOfFileAction
    PROVE  IInv'
<1>1. loop /\ Opened /\ ~Held /\ pos = NLines /\ NValid(pos, NLines) = 0
  BY EndOfFileActionLoops
<1>2. /\ pc = "scan" /\ Skippable(line) /\ OpenedAtStart /\ CountPass
      /\ UNCHANGED <<cfg, pc, line, nToDo, events, nLinesValid, nGenerate, loop, nRuns, base>>
  BY <1>1 DEF EndOfFileAction
<1>3. PICK p \in 0..NLines : IsStart(p) /\ pos' = p /\ eof' = EofAfter(p) /\ isOpen' = TRUE
  BY <1>2 DEF OpenedAtStart
<1>4. Start = p
  BY <1>3, StartIsUnique DEF IInv, TypeOK
<1>5. /\ NEventsPerLoop = NValid(Start, pos) + NValid(pos, NLines)
      /\ NEventsPerLoop \in Nat /\ NValid(Start, pos) \in Nat
      /\ Start \in Nat /\ NLines \in Nat
  BY <1>1, PerLoop DEF IInv
<1>6. ~Held' /\ NHeld' = 0 /\ Opened'
  BY <1>1, <1>2, Frame DEF Held, NHeld, Opened
<1>7. passes \in Nat /\ nSkipped \in Nat /\ cfg.nlinesSkip \in Nat
  BY Settings DEF IInv, TypeOK
<1>8. passes' \in Nat /\ nSkipped' \in Nat
      /\ (passes' = passes + 1 \/ (passes' = passes /\ NEventsPerLoop = 0))
  BY <1>2, <1>5, <1>7 DEF CountPass
<1>9. NEventsPerLoop' = NEventsPerLoop /\ NLines' = NLines /\ Start' = Start
  BY <1>2, Frame DEF NEventsPerLoop
<1>10. TypeOK'
  <2>1. eof' \in BOOLEAN
    BY Zenon, <1>3 DEF EofAfter
  <2> QED
    BY <1>2, <1>3, <1>8, <1>9, <2>1 DEF IInv, TypeOK
<1>11. StreamInv'
  <2>1. IsStart(Start)' /\ Start' <= pos'
    BY <1>2, <1>3, <1>4, <1>5, <1>9, Frame
  <2>2. nLinesValid' = NValid(NLinesIgnore, NLines)'
    BY <1>1, <1>2, Frame DEF IInv, StreamInv
  <2>3. eof' => pos' = NLines'
    BY <1>3, <1>9 DEF EofAfter
  <2> QED
    BY <1>2, <1>3, <1>6, <2>1, <2>2, <2>3 DEF StreamInv
<1>12. NothingYet'
  BY <1>2 DEF NothingYet
<1>13. Accounted'
  <2>1. base + Len(events) = passes * NEventsPerLoop + NEventsPerLoop
    BY <1>1, <1>5, <1>7 DEF IInv, Accounted, NHeld, TypeOK
  <2>2. passes' * NEventsPerLoop = passes * NEventsPerLoop + NEventsPerLoop
    <3>1. CASE passes' = passes + 1
      BY <1>5, <1>7, <3>1
    <3>2. CASE passes' = passes /\ NEventsPerLoop = 0
      <4>1. passes * 0 = 0
        BY <1>7
      <4> QED
        BY <1>7, <3>2, <4>1
    <3> QED
      BY <1>8, <3>1, <3>2
  <2>3. NValid(Start, pos') = 0
    BY <1>3, <1>4, <1>5, NValidType
  <2>4. NValid(Start, pos)' = 0
    BY <1>2, <2>3, Frame
  <2>5. base \in Nat /\ Len(events) \in Nat /\ passes' * NEventsPerLoop \in Nat
    BY <1>5, <1>8 DEF IInv, TypeOK
  <2>6. base + Len(events) = passes' * NEventsPerLoop
    BY <2>1, <2>2
  <2> QED
    BY <1>2, <1>6, <1>9, <2>4, <2>5, <2>6 DEF Accounted
<1>14. Enough'
  BY <1>1, <1>2 DEF IInv, Enough
<1>15. EventsFollowFile' /\ NeverStarved'
  BY <1>2, HistoryKept DEF IInv
<1> QED
  BY <1>10, <1>11, <1>12, <1>13, <1>14, <1>15 DEF IInv

LEMMA DecodeLineIInv ==
    ASSUME IInv, DecodeLine
    PROVE  IInv'
<1> DEFINE got == [line |-> line, pass |-> passes, ok |-> cfg.lines[line] = "data"]
<1>1. /\ pc = "scan" /\ ~Skippable(line) /\ events' = Append(events, got)
      /\ nToDo' = nToDo - 1 /\ line' = 0
      /\ pc' = IF nToDo > 1 THEN "event" ELSE IF cfg.batch THEN "done" ELSE "idle"
      /\ UNCHANGED <<cfg, nLinesValid, nGenerate, loop, isOpen, pos, eof, nSkipped, nRuns,
                     base, passes>>
  BY DEF DecodeLine, FinishEvent, stream
<1>2. Held /\ NHeld = 1 /\ ~Held' /\ NHeld' = 0 /\ Opened /\ Opened'
  BY <1>1 DEF Held, NHeld, Opened
<1>3. /\ NEventsPerLoop \in Nat /\ NValid(Start, pos) \in Nat /\ NValid(pos, NLines) \in Nat
      /\ Start \in Nat /\ pos \in Nat /\ NLines \in Nat /\ pos <= NLines
  BY <1>2, PerLoop DEF IInv
<1>4. line = pos /\ Start < pos /\ line # 0
  BY <1>2, <1>3 DEF IInv, StreamInv
<1>5. /\ NValid(pos, NLines)' = NValid(pos, NLines) /\ NValid(Start, pos)' = NValid(Start, pos)
      /\ NEventsPerLoop' = NEventsPerLoop /\ NLines' = NLines /\ Start' = Start
      /\ ValidLines' = ValidLines
  BY <1>1, Frame DEF NEventsPerLoop, ValidLines, NLines
<1>6. events \in Seq(EventType) /\ nToDo \in Nat /\ nToDo > 0 /\ base \in Nat /\ passes \in Nat
  BY <1>1 DEF IInv, TypeOK, Enough
<1>7. got \in EventType
  BY <1>3, <1>4, <1>6 DEF EventType
<1>8. /\ events' \in Seq(EventType) /\ Len(events) \in Nat /\ Len(events') = Len(events) + 1
      /\ DOMAIN events = 1..Len(events) /\ DOMAIN events' = 1..(Len(events) + 1)
      /\ events'[Len(events) + 1] = got
      /\ \A i \in 1..Len(events) : events'[i] = events[i]
  BY <1>1, <1>6, <1>7
<1>9. base + Len(events) + 1 = passes * NEventsPerLoop + NValid(Start, pos)
  BY <1>2, <1>3, <1>6 DEF IInv, Accounted
<1>10. TypeOK'
  BY <1>1, <1>3, <1>5, <1>6, <1>8 DEF IInv, TypeOK
<1>11. StreamInv'
  BY <1>1, <1>2, <1>3, Frame DEF IInv, StreamInv
<1>12. NothingYet'
  BY <1>1 DEF NothingYet
<1>13. Accounted'
  <2>1. base' + Len(events') + NHeld' = base + Len(events) + 1
    BY <1>1, <1>2, <1>6, <1>8
  <2> QED
    BY <1>1, <1>5, <1>9, <2>1 DEF Accounted
<1>14. Enough'
  <2>1. ~loop => nToDo <= NValid(pos, NLines) + 1
    BY <1>1, <1>2 DEF IInv, Enough
  <2>2. ~loop => nToDo' <= NValid(pos, NLines)
    BY <1>1, <1>3, <1>6, <2>1
  <2>3. pc' \in {"event", "scan"} => nToDo' > 0
    BY <1>1, <1>6
  <2>4. pc' # "construct" /\ (pc' = "idle" => ~cfg.batch)
    BY <1>1
  <2> QED
    BY <1>1, <1>2, <1>3, <1>5, <1>6, <2>2, <2>3, <2>4 DEF IInv, Enough
<1>15. NeverStarved'
  BY <1>4, <1>8 DEF IInv, NeverStarved
<1>16. EventsFollowFile'
  <2> SUFFICES ASSUME NEW i \in DOMAIN events', events'[i].line # 0
               PROVE  /\ events'[i].line \in ValidIn(Start, NLines)
                      /\ base + i = events'[i].pass * NEventsPerLoop + LineRank(events'[i].line)
                      /\ events'[i].ok <=> cfg.lines[events'[i].line] = "data"
    <3>1. \A l : LineRank(l)' = NValid(Start, l)'
      BY DEF LineRank
    <3>2. \A l : LineRank(l)' = LineRank(l)
      BY <1>5, <1>1 DEF LineRank, NValid, ValidIn
    <3>3. ValidIn(Start, NLines)' = ValidIn(Start, NLines)
      BY <1>5 DEF ValidIn
    <3> QED
      BY <1>1, <1>5, <3>2, <3>3 DEF EventsFollowFile
  <2>1. CASE i \in DOMAIN events
    BY <1>8, <2>1 DEF IInv, EventsFollowFile
  <2>2. CASE i = Len(events) + 1
    <3>1. events'[i] = got /\ got.line = pos /\ got.pass = passes
          /\ (got.ok <=> cfg.lines[pos] = "data")
      BY <1>4, <1>8, <2>2
    <3>2. pos \in ValidIn(Start, NLines)
      BY <1>1, <1>3, <1>4 DEF ValidIn, Skippable
    <3>3. base + i = passes * NEventsPerLoop + LineRank(pos)
      BY <1>6, <1>8, <1>9, <2>2 DEF LineRank
    <3> QED
      BY <3>1, <3>2, <3>3
  <2> QED
    BY <1>8, <2>1, <2>2
<1> QED
  BY <1>10, <1>11, <1>12, <1>13, <1>14, <1>15, <1>16 DEF IInv

LEMMA StutterIInv ==
    ASSUME IInv, UNCHANGED vars
    PROVE  IInv'
<1>1. UNCHANGED <<cfg, pc, nLinesValid, nGenerate, loop, isOpen, pos, eof, line, nSkipped,
                  nToDo, nRuns, base, passes, events>>
  BY DEF vars, stream
<1>2. (Held' <=> Held) /\ NHeld' = NHeld /\ (Opened' <=> Opened)
  BY <1>1, Frame DEF Held, NHeld, Opened
<1>3. TypeOK' /\ StreamInv' /\ NothingYet'
  BY <1>1, <1>2, Frame DEF IInv, TypeOK, StreamInv, NothingYet
<1>4. Accounted' /\ Enough'
  BY <1>1, <1>2, Frame DEF IInv, Accounted, NEventsPerLoop, Enough
<1>5. EventsFollowFile' /\ NeverStarved'
  BY <1>1, HistoryKept DEF IInv
<1> QED
  BY <1>3, <1>4, <1>5 DEF IInv

\* Every step keeps the invariant.
LEMMA NextIInv ==
    ASSUME IInv, [Next]_vars
    PROVE  IInv'
<1>1. Initialise => IInv'
  BY InitialiseIInv
<1>2. InitialiseFails \/ ConstructFails => IInv'
  BY FailureIInv
<1>3. ConstructNormally => IInv'
  BY ConstructNormallyIInv
<1>4. ConstructRecreating => IInv'
  BY ConstructRecreatingIInv
<1>5. BatchBeamOn => IInv'
  BY BatchBeamOnIInv
<1>6. InteractiveBeamOn => IInv'
  BY InteractiveBeamOnIInv
<1>7. Quit => IInv'
  BY QuitIInv
<1>8. BeginEvent => IInv'
  BY BeginEventIInv
<1>9. GetLine => IInv'
  BY GetLineIInv
<1>10. EndOfFileAction => IInv'
  BY EndOfFileActionIInv
<1>11. DecodeLine => IInv'
  BY DecodeLineIInv
<1>12. Terminated \/ UNCHANGED vars => IInv'
  BY StutterIInv DEF Terminated
<1> QED
  BY <1>1, <1>2, <1>3, <1>4, <1>5, <1>6, <1>7, <1>8, <1>9, <1>10, <1>11, <1>12 DEF Next, Step

-----------------------------------------------------------------------------
(***************************************************************************)
(* The theorems.                                                           *)
(***************************************************************************)
\* Whatever the file and the settings, the reader keeps account of every line.
THEOREM Invariant == Spec => []IInv
<1>1. Init => IInv
  BY InitIInv
<1>2. IInv /\ [Next]_vars => IInv'
  BY NextIInv
<1> QED
  BY <1>1, <1>2, PTL DEF Spec

\* Every variable keeps its type, and the stream never leaves the file.
THEOREM TypeCorrect == Spec => []TypeOK
<1>1. IInv => TypeOK
  BY DEF IInv
<1> QED
  BY <1>1, Invariant, PTL

\* The checks of Initialise and of RecreateAdvanceToEvent are enough: with
\* looping off no event finds the file exhausted.
THEOREM NeverStarvedTheorem == Spec => []NeverStarved
<1>1. IInv => NeverStarved
  BY DEF IInv
<1> QED
  BY <1>1, Invariant, PTL

\* Event i gets usable line base + i of the file repeated end to end, whatever
\* the ignored, skipped, comment and bad lines, the loops and the runs.
THEOREM EventsFollowFileTheorem == Spec => []EventsFollowFile
<1>1. IInv => EventsFollowFile
  BY DEF IInv
<1> QED
  BY <1>1, Invariant, PTL

\* EndOfFileAction rewinds the file only when no usable line is left unread.
THEOREM RewindsOnlyAtEndTheorem == Spec => RewindsOnlyAtEnd
<1>1. ASSUME IInv, [Next]_vars, passes' # passes
      PROVE  ValidIn(pos, NLines) = {}
  <2>1. EndOfFileAction
    BY <1>1 DEF Next, Step, Terminated, vars, Initialise, InitialiseFails, ConstructNormally,
       ConstructRecreating, ConstructFails, BatchBeamOn, InteractiveBeamOn, BeamOn, Quit,
       BeginEvent, GetLine, DecodeLine
  <2>2. pos = NLines /\ NLines \in Nat
    BY <1>1, <2>1, EndOfFileActionLoops, Settings DEF IInv, TypeOK
  <2> QED
    BY <2>2, NValidType
<1>2. IInv /\ [Next]_vars => [passes' # passes => ValidIn(pos, NLines) = {}]_vars
  BY <1>1
<1> QED
  BY <1>2, Invariant, PTL DEF Spec, RewindsOnlyAtEnd
-----------------------------------------------------------------------------
(***************************************************************************)
(* What the refinement and the account of whole runs need besides: no line *)
(* is held over from an event, how far recreating rolled, and how the      *)
(* counters of lines and of events stand.                                  *)
(***************************************************************************)
Matched == cfg.recreate = "no" /\ cfg.distrFileMatchLength /\ ~cfg.nGenerateSet
Constructed == pc \notin {"initialise", "construct", "failed"}

LineInv == pc # "scan" => line = 0

\* Over a file without blank lines, rolling passes as many lines as it should.
RolledInv ==
    /\ cfg.recreate = "no" => base = 0
    /\ Constructed /\ cfg.recreate # "no" /\ ValidLines = 1..NLines => base = NToRoll

\* One batch run makes as many events as were settled on.
CountInv ==
    /\ Opened /\ Matched => nGenerate = NEventsPerLoop * cfg.distrFileLoopNTimes
    /\ cfg.batch /\ pc = "idle" => events = <<>>
    /\ cfg.batch /\ pc \in {"event", "scan"} => Len(events) + nToDo = nGenerate
    /\ cfg.batch /\ pc = "done" /\ nGenerate > 0 => Len(events) = nGenerate

\* Each opening of the file skips the lines to skip, and no event leaves the
\* stream where opening put it.
SkippedInv ==
    /\ Opened /\ NEventsPerLoop > 0 => nSkipped = (passes + 1) * cfg.nlinesSkip
    /\ Opened /\ pc # "scan" /\ events # <<>> => NValid(Start, pos) > 0

BookInv == LineInv /\ RolledInv /\ CountInv /\ SkippedInv

LEMMA NextTimes ==
    ASSUME NEW n \in Nat, NEW k \in Nat
    PROVE  (n + 1) * k = n * k + k /\ n * k \in Nat
OBVIOUS

\* With no blank line a stretch has as many usable lines as lines.
LEMMA AllValid ==
    ASSUME NEW a \in Nat, NEW b \in Nat, a <= b, b <= NLines, ValidLines = 1..NLines,
           NLines \in Nat
    PROVE  NValid(a, b) = b - a
<1>1. ValidIn(a, b) = (a + 1)..b
  BY DEF ValidIn
<1>2. Cardinality((a + 1)..b) = IF a + 1 > b THEN 0 ELSE b - (a + 1) + 1
  BY FS_Interval
<1> QED
  BY <1>1, <1>2 DEF NValid

\* A sequence as long as zero is empty.
LEMMA EmptyEvents ==
    ASSUME TypeOK
    PROVE  Len(events) \in Nat /\ (events = <<>> <=> Len(events) = 0)
BY DEF TypeOK

LEMMA InitBookInv ==
    ASSUME Init
    PROVE  BookInv
<1>1. /\ pc = "initialise" /\ line = 0 /\ base = 0
  BY DEF Init
<1> QED
  BY <1>1 DEF BookInv, LineInv, RolledInv, CountInv, SkippedInv, Opened, Constructed

LEMMA InitialiseBookInv ==
    ASSUME IInv, BookInv, Initialise
    PROVE  BookInv'
<1>1. /\ pc = "initialise" /\ pc' = "construct" /\ nSkipped' = cfg.nlinesSkip
      /\ nGenerate' = MatchedNGenerate(nLinesValid' - cfg.nlinesSkip)
      /\ UNCHANGED <<cfg, line, base, passes, events>>
  BY DEF Initialise
<1>2. NEventsPerLoop' = nLinesValid' - cfg.nlinesSkip /\ passes = 0 /\ events = <<>>
  BY <1>1, Frame DEF IInv, NothingYet
<1>3. LineInv' /\ RolledInv'
  BY <1>1 DEF BookInv, LineInv, RolledInv, Constructed
<1>4. CountInv'
  <2> DEFINE P == NEventsPerLoop'
  <2>1. P \in Int /\ cfg.distrFileLoopNTimes \in Nat
    <3>1. cfg \in Configs
      BY DEF IInv, TypeOK
    <3>2. NLinesIgnore \in Nat /\ NLines \in Nat
      BY <3>1, Settings
    <3>3. nLinesValid' \in Nat
      BY <3>2, NValidType DEF Initialise
    <3> QED
      BY <1>2, <3>1, <3>3, Settings
  <2>2. P * cfg.distrFileLoopNTimes \in Int
    BY <2>1
  <2>3. Matched => nGenerate' = P * cfg.distrFileLoopNTimes
    BY <1>1, <1>2, <2>2 DEF Matched, MatchedNGenerate
  <2>4. Matched' => Matched
    BY <1>1 DEF Matched
  <2> QED
    BY <1>1, <2>3, <2>4 DEF CountInv
<1>5. SkippedInv'
  <2>1. (0 + 1) * cfg.nlinesSkip = cfg.nlinesSkip
    BY Settings DEF IInv, TypeOK
  <2>2. nSkipped' = (passes' + 1) * cfg'.nlinesSkip
    BY <1>1, <1>2, <2>1
  <2> QED
    BY <1>1, <1>2, <2>2 DEF SkippedInv
<1> QED
  BY <1>3, <1>4, <1>5 DEF BookInv

LEMMA FailureBookInv ==
    ASSUME BookInv, InitialiseFails \/ ConstructFails
    PROVE  BookInv'
<1>1. /\ pc \in {"initialise", "construct"} /\ pc' = "failed"
      /\ UNCHANGED <<cfg, line, base>>
  BY DEF InitialiseFails, ConstructFails
<1> QED
  BY <1>1 DEF BookInv, LineInv, RolledInv, CountInv, SkippedInv, Opened, Constructed

LEMMA ConstructNormallyBookInv ==
    ASSUME IInv, BookInv, ConstructNormally
    PROVE  BookInv'
<1>1. /\ pc = "construct" /\ pc' = "idle" /\ cfg.recreate = "no"
      /\ UNCHANGED <<cfg, nLinesValid, nGenerate, pos, line, nSkipped, base, passes, events>>
  BY DEF ConstructNormally, stream
<1>2. events = <<>> /\ Opened
  BY <1>1 DEF IInv, NothingYet, Opened
<1> QED
  BY <1>1, <1>2 DEF BookInv, LineInv, RolledInv, CountInv, SkippedInv, Opened, Constructed,
     Matched, NEventsPerLoop

LEMMA ConstructRecreatingBookInv ==
    ASSUME IInv, BookInv, ConstructRecreating
    PROVE  BookInv'
<1>1. /\ pc = "construct" /\ pc' = "idle" /\ cfg.recreate # "no"
      /\ cfg.startFromEvent > NEventsPerLoop => NEventsPerLoop > 0
      /\ pos' = AfterReading(NToRoll) /\ base' = NValid(pos, pos')
      /\ UNCHANGED <<cfg, nLinesValid, nGenerate, line, nSkipped, passes, events>>
  BY DEF ConstructRecreating
<1>2. events = <<>> /\ Opened /\ pos = Start
  BY <1>1 DEF IInv, NothingYet, Opened, StreamInv
<1>3. /\ pos \in Nat /\ NLines \in Nat /\ pos <= NLines
      /\ NEventsPerLoop = NValid(pos, NLines) /\ NEventsPerLoop \in Nat
  BY <1>2, PerLoop DEF IInv
<1>4. cfg.startFromEvent \in Nat
  BY Settings DEF IInv, TypeOK
<1>5. ASSUME ValidLines = 1..NLines
      PROVE  base' = NToRoll
  <2>1. NToRoll \in Nat /\ NToRoll <= NEventsPerLoop
    BY <1>1, <1>3, <1>4 DEF NToRoll
  <2>2. NEventsPerLoop = NLines - pos
    BY <1>3, <1>5, AllValid
  <2>3. pos' = pos + NToRoll /\ pos' \in Nat /\ pos <= pos' /\ pos' <= NLines
    BY <1>1, <1>3, <2>1, <2>2 DEF AfterReading
  <2>4. NValid(pos, pos') = pos' - pos
    BY <1>3, <1>5, <2>3, AllValid
  <2> QED
    BY <1>1, <1>3, <2>1, <2>3, <2>4
<1>6. NToRoll' = NToRoll /\ ValidLines' = ValidLines /\ NLines' = NLines
  BY <1>1 DEF NToRoll, NEventsPerLoop, ValidLines, NLines
<1>7. LineInv' /\ RolledInv'
  BY <1>1, <1>5, <1>6 DEF BookInv, LineInv, RolledInv
<1>8. CountInv' /\ SkippedInv'
  BY <1>1, <1>2 DEF BookInv, CountInv, SkippedInv, Opened, Matched, NEventsPerLoop
<1> QED
  BY <1>7, <1>8 DEF BookInv

LEMMA BeamOnBookInv ==
    ASSUME IInv, BookInv, BatchBeamOn \/ InteractiveBeamOn
    PROVE  BookInv'
<1>1. PICK n \in Int :
        /\ pc = "idle" /\ nToDo' = n /\ pc' = IF n > 0 THEN "event" ELSE "done"
        /\ cfg.batch => n = IF nGenerate > 0 THEN nGenerate ELSE 0
        /\ UNCHANGED <<cfg, nLinesValid, nGenerate, pos, line, nSkipped, base, passes, events>>
  <2>1. CASE BatchBeamOn
    <3>1. nGenerate \in Int
      BY DEF IInv, TypeOK
    <3> QED
      BY <2>1, <3>1 DEF BatchBeamOn, BeamOn, stream
  <2>2. CASE InteractiveBeamOn
    BY <2>2, BoundAssumption DEF InteractiveBeamOn, BeamOn, stream
  <2> QED
    BY <2>1, <2>2
<1>2. Opened /\ Constructed /\ nGenerate \in Int /\ cfg.batch \in BOOLEAN
  BY <1>1, Settings DEF Opened, Constructed, IInv, TypeOK
<1>3. LineInv' /\ RolledInv' /\ SkippedInv'
  BY <1>1, <1>2 DEF BookInv, LineInv, RolledInv, SkippedInv, Opened, Constructed,
     NToRoll, NEventsPerLoop, ValidLines, NLines, NValid, ValidIn, Start, IsStart, Skippable,
     NLinesIgnore
<1>4. CountInv'
  <2>1. cfg.batch => Len(events) = 0
    BY <1>1 DEF BookInv, CountInv
  <2>2. NEventsPerLoop' = NEventsPerLoop /\ (Matched' <=> Matched)
    BY <1>1 DEF NEventsPerLoop, Matched
  <2> QED
    BY <1>1, <1>2, <2>1, <2>2 DEF BookInv, CountInv, Opened
<1> QED
  BY <1>3, <1>4 DEF BookInv

\* Of a step that leaves the stream, the events and the counters as they are.
LEMMA SameBooks ==
    ASSUME BookInv, pc \in {"idle", "event", "scan"}, pc' \in {"idle", "event", "scan", "done"},
           pc' # "scan" => line' = 0 /\ pc # "scan",
           pc' = "done" => ~cfg.batch,
           cfg.batch => (pc = "idle" <=> pc' = "idle"),
           UNCHANGED <<cfg, nLinesValid, nGenerate, nToDo, base, events>>,
           pc' # "scan" => pos' = pos,
           UNCHANGED <<nSkipped, passes>>
    PROVE  BookInv'
<1>1. Opened /\ Opened' /\ Constructed /\ Constructed'
  BY DEF Opened, Constructed
<1>2. LineInv'
  BY DEF LineInv
<1>3. RolledInv'
  BY <1>1 DEF BookInv, RolledInv, NToRoll, NEventsPerLoop, ValidLines, NLines
<1>4. CountInv'
  BY <1>1 DEF BookInv, CountInv, NEventsPerLoop, Matched
<1>5. SkippedInv'
  <2>1. pc' # "scan" /\ events # <<>> => NValid(Start, pos)' = NValid(Start, pos)
    BY DEF NValid, ValidIn, ValidLines, NLines, Start, IsStart, Skippable, NLinesIgnore
  <2> QED
    BY <1>1, <2>1 DEF BookInv, SkippedInv, NEventsPerLoop
<1> QED
  BY <1>2, <1>3, <1>4, <1>5 DEF BookInv

LEMMA BetweenBookInv ==
    ASSUME BookInv, Quit \/ BeginEvent \/ GetLine
    PROVE  BookInv'
<1>1. CASE Quit
  BY <1>1, SameBooks DEF Quit, stream, BookInv, LineInv
<1>2. CASE BeginEvent
  BY <1>2, SameBooks DEF BeginEvent, stream
<1>3. CASE GetLine
  BY <1>3, SameBooks DEF GetLine
<1> QED
  BY <1>1, <1>2, <1>3

LEMMA EndOfFileActionBookInv ==
    ASSUME IInv, BookInv, EndOfFileAction
    PROVE  BookInv'
<1>1. loop /\ Opened
  BY EndOfFileActionLoops
<1>2. /\ pc = "scan" /\ CountPass
      /\ UNCHANGED <<cfg, pc, line, nToDo, events, nLinesValid, nGenerate, base>>
  BY <1>1 DEF EndOfFileAction
<1>3. LineInv' /\ RolledInv' /\ CountInv'
  BY <1>2 DEF BookInv, LineInv, RolledInv, CountInv, Opened, Constructed, Matched,
     NToRoll, NEventsPerLoop, ValidLines, NLines
<1>4. SkippedInv'
  <2>1. passes \in Nat /\ cfg.nlinesSkip \in Nat
    BY Settings DEF IInv, TypeOK
  <2>2. NEventsPerLoop' = NEventsPerLoop
    BY <1>2 DEF NEventsPerLoop
  <2>3. ASSUME NEventsPerLoop > 0
        PROVE  nSkipped' = (passes' + 1) * cfg.nlinesSkip
    <3>1. nSkipped' = nSkipped + cfg.nlinesSkip /\ passes' = passes + 1
      BY <1>2, <2>3 DEF CountPass
    <3>2. nSkipped = (passes + 1) * cfg.nlinesSkip
      BY <1>1, <2>3 DEF BookInv, SkippedInv
    <3>3. passes + 1 \in Nat
      BY <2>1
    <3>4. ((passes + 1) + 1) * cfg.nlinesSkip = (passes + 1) * cfg.nlinesSkip + cfg.nlinesSkip
      BY <2>1, <3>3, NextTimes
    <3> QED
      BY <3>1, <3>2, <3>4
  <2> QED
    BY <1>2, <2>2, <2>3 DEF SkippedInv, Opened
<1> QED
  BY <1>3, <1>4 DEF BookInv

LEMMA DecodeLineBookInv ==
    ASSUME IInv, BookInv, DecodeLine
    PROVE  BookInv'
<1>1. /\ pc = "scan" /\ ~Skippable(line)
      /\ nToDo' = nToDo - 1 /\ line' = 0
      /\ pc' = IF nToDo > 1 THEN "event" ELSE IF cfg.batch THEN "done" ELSE "idle"
      /\ UNCHANGED <<cfg, nLinesValid, nGenerate, pos, nSkipped, base, passes>>
      /\ \E got : events' = Append(events, got)
  BY DEF DecodeLine, FinishEvent, stream
<1>2. Held /\ Opened /\ Opened' /\ Constructed /\ Constructed'
  BY <1>1 DEF Held, Opened, Constructed
<1>3. Start \in Nat /\ pos \in Nat /\ NLines \in Nat /\ pos <= NLines
  BY <1>2, PerLoop DEF IInv
<1>4. line = pos /\ Start < pos
  BY <1>2 DEF IInv, StreamInv
<1>5. events \in Seq(EventType) /\ nToDo \in Nat /\ nToDo > 0 /\ cfg.batch \in BOOLEAN
  BY <1>1, Settings DEF IInv, TypeOK, Enough
<1>6. Len(events') = Len(events) + 1 /\ Len(events) \in Nat
  BY <1>1, <1>5
<1>7. LineInv' /\ RolledInv'
  BY <1>1, <1>2 DEF BookInv, LineInv, RolledInv, NToRoll, NEventsPerLoop, ValidLines, NLines
<1>8. CountInv'
  <2>1. cfg.batch => Len(events') + nToDo' = nGenerate
    BY <1>1, <1>5, <1>6 DEF BookInv, CountInv
  <2>2. pc' = "idle" => ~cfg.batch
    BY <1>1
  <2>3. pc' = "done" => nToDo' = 0
    BY <1>1, <1>5
  <2>4. NEventsPerLoop' = NEventsPerLoop /\ (Matched' <=> Matched)
    BY <1>1 DEF NEventsPerLoop, Matched
  <2> QED
    BY <1>1, <1>2, <1>6, <2>1, <2>2, <2>3, <2>4 DEF BookInv, CountInv
<1>9. SkippedInv'
  <2>1. pos \in ValidIn(Start, pos)
    BY <1>1, <1>3, <1>4 DEF ValidIn, Skippable
  <2>2. NValid(Start, pos) # 0 /\ NValid(Start, pos) \in Nat
    BY <1>3, <2>1, NValidZero, NValidType
  <2>3. NValid(Start, pos)' = NValid(Start, pos) /\ NEventsPerLoop' = NEventsPerLoop
    BY <1>1, Frame DEF NEventsPerLoop
  <2> QED
    BY <1>1, <1>2, <2>2, <2>3 DEF BookInv, SkippedInv
<1> QED
  BY <1>7, <1>8, <1>9 DEF BookInv

LEMMA StutterBookInv ==
    ASSUME BookInv, UNCHANGED vars
    PROVE  BookInv'
<1>1. UNCHANGED <<cfg, pc, nLinesValid, nGenerate, pos, line, nSkipped, nToDo, base, passes,
                  events>>
  BY DEF vars, stream
<1> QED
  BY <1>1 DEF BookInv, LineInv, RolledInv, CountInv, SkippedInv, Opened, Constructed, Matched,
     NToRoll, NEventsPerLoop, ValidLines, NLines, NValid, ValidIn, Start, IsStart, Skippable,
     NLinesIgnore

LEMMA NextBookInv ==
    ASSUME IInv, BookInv, [Next]_vars
    PROVE  BookInv'
<1>1. Initialise => BookInv'
  BY InitialiseBookInv
<1>2. InitialiseFails \/ ConstructFails => BookInv'
  BY FailureBookInv
<1>3. ConstructNormally => BookInv'
  BY ConstructNormallyBookInv
<1>4. ConstructRecreating => BookInv'
  BY ConstructRecreatingBookInv
<1>5. BatchBeamOn \/ InteractiveBeamOn => BookInv'
  BY BeamOnBookInv
<1>6. Quit \/ BeginEvent \/ GetLine => BookInv'
  BY BetweenBookInv
<1>7. EndOfFileAction => BookInv'
  BY EndOfFileActionBookInv
<1>8. DecodeLine => BookInv'
  BY DecodeLineBookInv
<1>9. Terminated \/ UNCHANGED vars => BookInv'
  BY StutterBookInv DEF Terminated
<1> QED
  BY <1>1, <1>2, <1>3, <1>4, <1>5, <1>6, <1>7, <1>8, <1>9 DEF Next, Step

\* The same, of the books.
THEOREM BooksTheorem == Spec => []BookInv
<1>1. Init => BookInv
  BY InitBookInv
<1>2. IInv /\ BookInv /\ [Next]_vars => BookInv'
  BY NextBookInv
<1> QED
  BY <1>1, <1>2, Invariant, PTL DEF Spec

-----------------------------------------------------------------------------
(***************************************************************************)
(* The usable lines in file order.                                         *)
(***************************************************************************)
\* Whatever is opened, they are finitely many lines of the file.
LEMMA UsableType ==
    ASSUME cfg \in Configs
    PROVE  /\ IsFiniteSet(Usable) /\ Usable \subseteq Nat /\ Cardinality(Usable) \in Nat
           /\ UsableLines \in Seq(Nat) /\ Len(UsableLines) = Cardinality(Usable)
           /\ UsableLines = <<>> <=> Cardinality(Usable) = 0
<1>1. NLines \in Nat /\ NLinesIgnore \in Nat
  BY Settings
<1>2. IsFiniteSet(ValidIn(NLinesIgnore, NLines)) /\ ValidIn(NLinesIgnore, NLines) \subseteq Nat
  <2>1. ValidIn(NLinesIgnore, NLines) \subseteq Nat
    BY <1>1 DEF ValidIn, ValidLines
  <2> QED
    BY <1>1, <2>1, NValidType
<1>3. Usable \subseteq ValidIn(NLinesIgnore, NLines)
  BY DEF Usable, UsableAfter
<1>4. IsFiniteSet(Usable) /\ Usable \subseteq Nat /\ Usable \subseteq Int /\ Cardinality(Usable) \in Nat
  BY <1>2, <1>3, FS_Subset, FS_CardinalityType
<1>5. UsableLines = InOrder(Usable)
  BY DEF UsableLines, UsableLinesAfter, Usable
<1>6. \A j \in 1..Cardinality(Usable) : UsableLines[j] \in Nat
  BY <1>4, <1>5, InOrderType
<1>7. UsableLines \in [1..Cardinality(Usable) -> Nat]
  BY <1>5, <1>6 DEF InOrder
<1>8. UsableLines \in Seq(Nat) /\ Len(UsableLines) = Cardinality(Usable)
  BY <1>4, <1>7
<1> QED
  BY <1>4, <1>8

\* Once the file is open they are the valid lines after its first usable
\* place, and a line's count from there is its place in their order.
LEMMA UsableInOrder ==
    ASSUME TypeOK, StreamInv, Opened
    PROVE  /\ Usable = ValidIn(Start, NLines)
           /\ Len(UsableLines) = NEventsPerLoop
           /\ \A l \in Usable : /\ LineRank(l) \in 1..NEventsPerLoop
                                /\ UsableLines[LineRank(l)] = l
<1>1. /\ Start \in Nat /\ NLines \in Nat /\ Start <= NLines
      /\ NEventsPerLoop = NValid(Start, NLines)
  BY PerLoop DEF TypeOK
<1>2. /\ cfg \in Configs /\ NLinesIgnore \in Nat /\ NLinesIgnore <= Start
      /\ NValid(NLinesIgnore, Start) = cfg.nlinesSkip
  BY Settings DEF TypeOK, StreamInv, IsStart
<1>3. ASSUME NEW l \in ValidIn(NLinesIgnore, NLines), NValid(NLinesIgnore, l) > cfg.nlinesSkip
      PROVE  Start < l
  <2>1. l \in Nat /\ NLinesIgnore <= l
    BY <1>1, <1>2 DEF ValidIn
  <2>2. ASSUME l <= Start
        PROVE  FALSE
    <3>1. NValid(NLinesIgnore, Start) = NValid(NLinesIgnore, l) + NValid(l, Start)
      BY <1>1, <1>2, <2>1, <2>2, NValidAdds
    <3>2. NValid(NLinesIgnore, l) \in Nat /\ NValid(l, Start) \in Nat
      BY <1>1, <1>2, <2>1, NValidType
    <3> QED
      BY <1>2, <1>3, <3>1, <3>2
  <2> QED
    BY <1>1, <2>1, <2>2
<1>4. ASSUME NEW l \in ValidIn(Start, NLines)
      PROVE  /\ l \in Nat /\ l <= NLines /\ NLinesIgnore < l
             /\ NValid(Start, l) \in Nat /\ NValid(NLinesIgnore, l) > cfg.nlinesSkip
  <2>1. l \in Nat /\ Start < l /\ l <= NLines
    BY <1>1 DEF ValidIn
  <2>2. NValid(NLinesIgnore, l) = NValid(NLinesIgnore, Start) + NValid(Start, l)
    BY <1>1, <1>2, <2>1, NValidAdds
  <2>3. l \in ValidIn(Start, l)
    BY <1>1, <2>1 DEF ValidIn
  <2>4. NValid(Start, l) \in Nat /\ NValid(Start, l) # 0
    BY <1>1, <2>1, <2>3, NValidType, NValidZero
  <2>5. cfg.nlinesSkip \in Nat
    BY <1>2, Settings
  <2> QED
    BY <1>1, <1>2, <2>1, <2>2, <2>4, <2>5
<1>5. Usable = ValidIn(Start, NLines)
  <2>1. \A l : l \in Usable <=> l \in ValidIn(NLinesIgnore, NLines) /\ NValid(NLinesIgnore, l) > cfg.nlinesSkip
    BY DEF Usable, UsableAfter
  <2>2. \A l \in Usable : l \in ValidIn(Start, NLines)
    BY <1>1, <1>2, <1>3, <2>1 DEF ValidIn
  <2>3. \A l \in ValidIn(Start, NLines) : l \in ValidIn(NLinesIgnore, NLines)
    BY <1>1, <1>2, <1>4 DEF ValidIn
  <2> QED
    BY <1>4, <2>1, <2>2, <2>3
<1>6. Cardinality(Usable) = NEventsPerLoop
  BY <1>1, <1>5 DEF NValid
<1>7. ASSUME NEW l \in Usable
      PROVE  Rank(Usable, l) = LineRank(l)
  <2>1. l \in Nat /\ l <= NLines
    BY <1>4, <1>5
  <2>2. {h \in Usable : h <= l} = ValidIn(Start, l)
    BY <1>1, <1>5, <2>1 DEF ValidIn
  <2> QED
    BY <2>2 DEF Rank, LineRank, NValid
<1>8. UsableLines = InOrder(Usable)
  BY DEF UsableLines, UsableLinesAfter, Usable
<1>9. IsFiniteSet(Usable) /\ Usable \subseteq Int /\ Len(UsableLines) = Cardinality(Usable)
  BY <1>2, UsableType
<1>10. \A l \in Usable : LineRank(l) \in 1..NEventsPerLoop /\ UsableLines[LineRank(l)] = l
  <2> TAKE l \in Usable
  <2>1. Rank(Usable, l) \in 1..Cardinality(Usable) /\ InOrder(Usable)[Rank(Usable, l)] = l
    BY <1>9, RankType, InOrderAtRank
  <2> QED
    BY <1>6, <1>7, <1>8, <2>1
<1> QED
  BY <1>5, <1>6, <1>9, <1>10

-----------------------------------------------------------------------------
(***************************************************************************)
(* The refinement of EventSource: what each step does to its variables.    *)
(***************************************************************************)
\* The usable lines are fixed.
LEMMA UsableFixed ==
    ASSUME cfg' = cfg
    PROVE  Usable' = Usable /\ UsableLines' = UsableLines
BY DEF Usable, UsableLines, UsableLinesAfter, UsableAfter, ValidIn, NValid, ValidLines, NLines,
   NLinesIgnore

\* The line to serve next is one of them.
LEMMA NextLineType ==
    ASSUME cfg \in Configs
    PROVE  /\ UsableLines = <<>> => NextLine = 1
           /\ UsableLines # <<>> => NextLine \in 1..Len(UsableLines)
<1>1. UsableLines \in Seq(Nat) /\ (UsableLines # <<>> => Len(UsableLines) \in Nat \ {0})
  BY UsableType
<1>2. {l \in Usable : l <= pos /\ l # line} \subseteq Usable /\ IsFiniteSet(Usable)
  BY UsableType
<1>3. NConsumed \in Nat
  BY <1>2, FS_Subset, FS_CardinalityType DEF NConsumed
<1> DEFINE n == Len(UsableLines)
           c == NConsumed
<1>4. UsableLines # <<>> => c % n \in 0..(n - 1) /\ n \in Nat \ {0}
  <2>1. n \in Nat \ {0} /\ c \in Nat => c % n \in 0..(n - 1)
    BY DivMod
  <2> QED
    BY <1>1, <1>3, <2>1
<1>5. UsableLines # <<>> => NextLine = (c % n) + 1
  BY DEF NextLine
<1> HIDE DEF n, c
<1>6. UsableLines # <<>> => NextLine \in 1..n
  BY <1>4, <1>5
<1> QED
  BY <1>6 DEF NextLine, n

\* Served is a sequence as long as the events.
LEMMA ServedType ==
    ASSUME TypeOK
    PROVE  /\ LinesServed \in Seq(Nat) /\ Len(LinesServed) = Len(events)
           /\ events = <<>> => LinesServed = <<>>
<1>1. events \in Seq(EventType)
  BY DEF TypeOK
<1>2. DOMAIN events = 1..Len(events) /\ Len(events) \in Nat
  BY <1>1
<1>3. \A i \in 1..Len(events) : events[i].line \in Nat
  <2>1. \A i \in 1..Len(events) : events[i] \in EventType
    BY <1>1
  <2> QED
    BY <2>1 DEF EventType
<1>4. LinesServed \in [1..Len(events) -> Nat]
  BY <1>2, <1>3 DEF LinesServed
<1> QED
  BY <1>2, <1>4

LEMMA InitImplements ==
    ASSUME Init
    PROVE  Source!Init
<1>1. cfg \in Configs /\ pos = 0 /\ line = 0 /\ events = <<>>
  BY DEF Init
<1>2. UsableLines \in Seq(Nat) /\ Usable \subseteq Nat
  BY <1>1, UsableType
<1>3. \A l \in Usable : l >= 1
  BY DEF Usable, UsableAfter, ValidIn, ValidLines
<1>4. {l \in Usable : l <= pos /\ l # line} = {}
  <2>1. \A l \in Usable : ~(l <= pos)
    BY <1>1, <1>2, <1>3
  <2> QED
    BY <2>1
<1>5. NConsumed = 0
  BY <1>4, FS_EmptySet DEF NConsumed
<1>6. NextLine = 1
  <2>1. CASE UsableLines = <<>>
    BY <2>1 DEF NextLine
  <2>2. CASE UsableLines # <<>>
    <3>1. Len(UsableLines) \in Nat \ {0}
      BY <1>1, <2>2, UsableType
    <3>2. 0 % Len(UsableLines) = 0
      BY <3>1, ModSmall
    <3> QED
      BY <1>5, <2>2, <3>2 DEF NextLine
  <2> QED
    BY <2>1, <2>2
<1>7. LinesServed = <<>>
  BY <1>1 DEF LinesServed
<1> QED
  BY <1>2, <1>6, <1>7 DEF Source!Init

\* Before the first event any move of the stream is a seek.
LEMMA SeekImplements ==
    ASSUME TypeOK, cfg' = cfg, events = <<>>, events' = events
    PROVE  [Source!Next]_(Source!esVars)
<1>1. cfg \in Configs /\ cfg' \in Configs
  BY DEF TypeOK
<1>2. UsableLines' = UsableLines
  BY UsableFixed
<1>3. LinesServed = <<>> /\ LinesServed' = LinesServed
  BY ServedType DEF LinesServed
<1>4. CASE UsableLines = <<>>
  <2>1. NextLine = 1 /\ NextLine' = 1
    BY <1>2, <1>4 DEF NextLine
  <2> QED
    BY <1>2, <1>3, <2>1 DEF Source!esVars
<1>5. CASE UsableLines # <<>>
  <2>1. (cfg \in Configs)' => (UsableLines # <<>> => NextLine \in 1..Len(UsableLines))'
    BY NextLineType, PTL
  <2>2. NextLine' \in 1..Len(UsableLines)
    BY <1>1, <1>2, <1>5, <2>1
  <2>3. Source!Seek(NextLine')
    BY <1>2, <1>3 DEF Source!Seek
  <2>4. Source!Next
    BY <2>2, <2>3 DEF Source!Next
  <2> QED
    BY <2>4
<1> QED
  BY <1>4, <1>5

\* A step after which the same lines are consumed and served is none.
LEMMA SameConsumed ==
    ASSUME cfg' = cfg, NConsumed' = NConsumed, events' = events
    PROVE  [Source!Next]_(Source!esVars)
<1>1. UsableLines' = UsableLines
  BY UsableFixed
<1>2. NextLine' = NextLine /\ LinesServed' = LinesServed
  BY <1>1 DEF NextLine, LinesServed
<1> QED
  BY <1>1, <1>2 DEF Source!esVars

LEMMA SameStream ==
    ASSUME UNCHANGED <<cfg, pos, line, events>>
    PROVE  [Source!Next]_(Source!esVars)
<1>1. Usable' = Usable
  BY UsableFixed
<1>2. NConsumed' = NConsumed
  BY <1>1 DEF NConsumed
<1> QED
  BY <1>2, SameConsumed

\* A line read is not consumed before it is decoded.
LEMMA GetLineImplements ==
    ASSUME IInv, GetLine
    PROVE  [Source!Next]_(Source!esVars)
<1>1. pc = "scan" /\ Skippable(line) /\ cfg' = cfg /\ events' = events
  BY DEF GetLine
<1>2. cfg \in Configs /\ pos \in Nat
  BY DEF IInv, TypeOK, NLines
<1>3. Usable' = Usable /\ Usable \subseteq Nat /\ line \notin Usable /\ 0 \notin Usable
  BY <1>1, <1>2, UsableFixed, UsableType DEF Usable, UsableAfter, ValidIn, Skippable, ValidLines
<1>4. (line' = pos + 1 /\ pos' = pos + 1) \/ (line' = 0 /\ pos' = pos)
  BY DEF GetLine
<1>5. \A l \in Usable : (l <= pos' /\ l # line') <=> (l <= pos /\ l # line)
  BY <1>2, <1>3, <1>4
<1>6. {l \in Usable : l <= pos' /\ l # line'} = {l \in Usable : l <= pos /\ l # line}
  BY <1>5
<1>7. NConsumed' = NConsumed
  BY <1>3, <1>6 DEF NConsumed
<1> QED
  BY <1>1, <1>7, SameConsumed

\* At the end of the file all is consumed, at its start nothing: the line to
\* serve next is the first one in both.
LEMMA EndOfFileActionImplements ==
    ASSUME IInv, EndOfFileAction
    PROVE  [Source!Next]_(Source!esVars)
<1>1. loop /\ Opened /\ pos = NLines
  BY EndOfFileActionLoops
<1>2. Skippable(line) /\ OpenedAtStart /\ UNCHANGED <<cfg, line, events>>
  BY <1>1 DEF EndOfFileAction
<1>3. /\ cfg \in Configs /\ Start \in Nat /\ NLines \in Nat /\ Start <= NLines
      /\ Usable = ValidIn(Start, NLines) /\ IsFiniteSet(Usable)
      /\ UsableLines \in Seq(Nat) /\ Len(UsableLines) = Cardinality(Usable)
  BY <1>1, PerLoop, UsableInOrder, UsableType DEF IInv, TypeOK
<1>4. pos' = Start
  BY <1>2, <1>3, StartIsUnique DEF OpenedAtStart
<1>5. Usable' = Usable /\ UsableLines' = UsableLines
  BY <1>2, UsableFixed
<1>6. NConsumed = Cardinality(Usable)
  <2>1. {l \in Usable : l <= pos /\ l # line} = Usable
    BY <1>1, <1>2, <1>3 DEF ValidIn, Skippable
  <2> QED
    BY <2>1 DEF NConsumed
<1>7. NConsumed' = 0
  <2>1. {l \in Usable : l <= pos' /\ l # line'} = {}
    BY <1>3, <1>4 DEF ValidIn
  <2> QED
    BY <1>5, <2>1, FS_EmptySet DEF NConsumed
<1>8. NextLine' = NextLine
  <2>1. CASE UsableLines = <<>>
    BY <1>5, <2>1 DEF NextLine
  <2>2. CASE UsableLines # <<>>
    <3> DEFINE n == Len(UsableLines)
    <3>1. n \in Nat \ {0}
      BY <1>3, <2>2
    <3>2. n % n = 0 /\ 0 % n = 0
      BY <3>1
    <3>3. NextLine = (n % n) + 1 /\ NextLine' = (0 % n) + 1
      BY <1>3, <1>5, <1>6, <1>7, <2>2 DEF NextLine
    <3> QED
      BY <3>2, <3>3
  <2> QED
    BY <2>1, <2>2
<1>9. LinesServed' = LinesServed
  BY <1>2 DEF LinesServed
<1> QED
  BY <1>5, <1>8, <1>9 DEF Source!esVars

\* Decoding a line serves it, and the next one comes after it.
LEMMA DecodeLineImplements ==
    ASSUME IInv, DecodeLine
    PROVE  Source!Serve
<1>1. /\ pc = "scan" /\ ~Skippable(line) /\ line' = 0 /\ UNCHANGED <<cfg, pos>>
      /\ \E got : got.line = line /\ events' = Append(events, got)
  BY DEF DecodeLine, FinishEvent, stream
<1>2. Held /\ Opened /\ line = pos /\ Start < pos
  BY <1>1 DEF Held, Opened, IInv, StreamInv
<1>3. /\ cfg \in Configs /\ Start \in Nat /\ NLines \in Nat /\ pos \in Nat /\ pos <= NLines
      /\ Usable = ValidIn(Start, NLines) /\ IsFiniteSet(Usable) /\ Usable \subseteq Nat
      /\ UsableLines \in Seq(Nat) /\ Len(UsableLines) = NEventsPerLoop
      /\ \A l \in Usable : LineRank(l) \in 1..NEventsPerLoop /\ UsableLines[LineRank(l)] = l
  BY <1>2, PerLoop, UsableInOrder, UsableType DEF IInv, TypeOK
<1>4. pos \in Usable /\ 0 \notin Usable
  BY <1>1, <1>2, <1>3 DEF ValidIn, Skippable
<1> DEFINE n == NEventsPerLoop
           r == LineRank(pos)
           C == {l \in Usable : l <= pos}
<1>5. n \in Nat \ {0} /\ r \in 1..n /\ UsableLines[r] = pos /\ UsableLines # <<>>
      /\ Len(UsableLines) = n
  BY <1>3, <1>4
<1>6. C = ValidIn(Start, pos) /\ IsFiniteSet(C) /\ Cardinality(C) = r /\ pos \in C
  <2>1. C = ValidIn(Start, pos)
    BY <1>3 DEF ValidIn
  <2>2. C \subseteq Usable /\ pos \in C
    BY <1>3, <1>4
  <2>3. IsFiniteSet(C)
    BY <1>3, <2>2, FS_Subset
  <2>4. r = Cardinality(ValidIn(Start, pos))
    BY DEF LineRank, NValid
  <2> QED
    BY <2>1, <2>2, <2>3, <2>4
<1>7. NConsumed = r - 1
  <2>1. {l \in Usable : l <= pos /\ l # line} = C \ {pos}
    BY <1>2
  <2>2. Cardinality(C \ {pos}) = Cardinality(C) - 1
    BY <1>6, FS_RemoveElement
  <2> QED
    BY <1>6, <2>1, <2>2 DEF NConsumed
<1>8. UsableLines' = UsableLines /\ Usable' = Usable
  BY <1>1, UsableFixed
<1>9. NConsumed' = r
  <2>1. {l \in Usable : l <= pos' /\ l # line'} = C
    BY <1>1, <1>4
  <2> QED
    BY <1>6, <1>8, <2>1 DEF NConsumed
<1>10. NextLine = ((r - 1) % n) + 1 /\ NextLine' = (r % n) + 1
  BY <1>5, <1>7, <1>8, <1>9 DEF NextLine
<1> HIDE DEF n, r, C
<1>11. NextLine = r
  <2>1. (r - 1) % n = r - 1
    BY <1>5, ModSmall
  <2> QED
    BY <1>5, <1>10, <2>1
<1>12. NextLine' = (NextLine % Len(UsableLines)) + 1
  BY <1>5, <1>10, <1>11
<1>13. LinesServed' = Append(LinesServed, UsableLines[NextLine])
  <2>1. PICK got : got.line = line /\ events' = Append(events, got)
    BY <1>1
  <2>2. events \in Seq(EventType) /\ LinesServed \in Seq(Nat) /\ Len(LinesServed) = Len(events)
    BY ServedType DEF IInv, TypeOK
  <2> DEFINE k == Len(events)
             a == LinesServed'
             b == Append(LinesServed, pos)
  <2>3. k \in Nat /\ DOMAIN events = 1..k /\ DOMAIN events' = 1..(k + 1)
        /\ events'[k + 1] = got /\ \A i \in 1..k : events'[i] = events[i]
    BY <2>1, <2>2
  <2>4. a = [i \in 1..(k + 1) |-> events'[i].line]
    BY <2>3 DEF LinesServed
  <2>5. b \in Seq(Nat) /\ DOMAIN b = 1..(k + 1) /\ b[k + 1] = pos
        /\ \A i \in 1..k : b[i] = events[i].line
    <3>1. \A i \in 1..k : LinesServed[i] = events[i].line
      BY <2>3 DEF LinesServed
    <3> QED
      BY <1>3, <2>2, <2>3, <3>1
  <2>6. \A i \in 1..(k + 1) : a[i] = b[i]
    <3> TAKE i \in 1..(k + 1)
    <3>1. a[i] = events'[i].line
      BY <2>4
    <3>2. i \in 1..k \/ i = k + 1
      BY <2>3
    <3> HIDE DEF a, b, k
    <3> QED
      BY <1>2, <2>1, <2>3, <2>5, <3>1, <3>2
  <2>7. b = [i \in 1..(k + 1) |-> b[i]]
    <3> HIDE DEF b, k
    <3> QED
      BY <2>5
  <2>8. a = [i \in 1..(k + 1) |-> a[i]]
    BY <2>4
  <2> HIDE DEF a, b, k
  <2>9. a = b
    BY <2>6, <2>7, <2>8
  <2> QED
    BY <1>5, <1>11, <2>9 DEF a, b
<1> QED
  BY <1>5, <1>8, <1>12, <1>13 DEF Source!Serve

LEMMA NextImplements ==
    ASSUME IInv, BookInv, [Next]_vars
    PROVE  [Source!Next]_(Source!esVars)
<1>1. ASSUME Initialise \/ InitialiseFails \/ ConstructNormally \/ ConstructRecreating \/ ConstructFails
      PROVE  TypeOK /\ cfg' = cfg /\ events = <<>> /\ events' = events
  BY <1>1 DEF Initialise, InitialiseFails, ConstructNormally, ConstructRecreating, ConstructFails,
     IInv, NothingYet
<1>2. CASE Initialise \/ InitialiseFails \/ ConstructNormally \/ ConstructRecreating \/ ConstructFails
  BY <1>1, <1>2, SeekImplements
<1>3. CASE BatchBeamOn \/ InteractiveBeamOn \/ Quit \/ Terminated \/ UNCHANGED vars
  BY <1>3, SameStream DEF BatchBeamOn, InteractiveBeamOn, BeamOn, Quit, Terminated, vars, stream
<1>4. CASE BeginEvent
  BY <1>4, SameStream DEF BeginEvent, stream, BookInv, LineInv
<1>5. CASE GetLine
  BY <1>5, GetLineImplements
<1>6. CASE EndOfFileAction
  BY <1>6, EndOfFileActionImplements
<1>7. CASE DecodeLine
  BY <1>7, DecodeLineImplements DEF Source!Next
<1> QED
  BY <1>2, <1>3, <1>4, <1>5, <1>6, <1>7 DEF Next, Step

\* A userfile is an event source: each event is served the next usable line,
\* round robin, whatever is ignored, skipped, rewound or rolled past.
THEOREM ImplementsEventSourceTheorem == Spec => ImplementsEventSource
<1>1. Init => Source!Init
  BY InitImplements
<1>2. IInv /\ BookInv /\ [Next]_vars => [Source!Next]_(Source!esVars)
  BY NextImplements
<1> QED
  BY <1>1, <1>2, Invariant, BooksTheorem, PTL DEF Spec, ImplementsEventSource, Source!Spec

-----------------------------------------------------------------------------
(***************************************************************************)
(* Recreation and matched runs.                                            *)
(***************************************************************************)
\* Which usable line an event got, by its number.
LEMMA LineOfEvent ==
    ASSUME IInv, NEW i \in DOMAIN events
    PROVE  LET e == events[i] IN
           /\ e.line \in Usable /\ e.pass \in Nat /\ i \in Nat /\ base \in Nat
           /\ NEventsPerLoop \in Nat \ {0} /\ LineRank(e.line) \in 1..NEventsPerLoop
           /\ UsableLines[LineRank(e.line)] = e.line
           /\ Len(UsableLines) = NEventsPerLoop
           /\ base + i = NEventsPerLoop * e.pass + LineRank(e.line)
           /\ Opened /\ Constructed
<1> DEFINE e == events[i]
<1>1. events \in Seq(EventType) /\ events # <<>> /\ base \in Nat
  BY DEF IInv, TypeOK
<1>2. Opened /\ Constructed
  BY <1>1 DEF IInv, NothingYet, Opened, Constructed
<1>3. e \in EventType /\ i \in Nat
  BY <1>1
<1>4. e.pass \in Nat
  BY <1>3 DEF EventType
<1>5. e.line \in ValidIn(Start, NLines) /\ base + i = e.pass * NEventsPerLoop + LineRank(e.line)
  BY DEF IInv, NeverStarved, EventsFollowFile
<1>6. /\ Usable = ValidIn(Start, NLines) /\ Len(UsableLines) = NEventsPerLoop
      /\ LineRank(e.line) \in 1..NEventsPerLoop
      /\ UsableLines[LineRank(e.line)] = e.line
  BY <1>2, <1>5, UsableInOrder DEF IInv
<1>7. NEventsPerLoop \in Nat
  BY <1>2, PerLoop DEF IInv
<1>8. e.pass * NEventsPerLoop = NEventsPerLoop * e.pass
  BY <1>4, <1>7
<1> QED
  BY <1>1, <1>2, <1>3, <1>4, <1>5, <1>6, <1>7, <1>8

LEMMA UncommentedRecreationHolds ==
    ASSUME IInv, BookInv
    PROVE  UncommentedRecreation
<1> SUFFICES ASSUME cfg.recreate = "option", ValidLines = 1..NLines, NEW i \in DOMAIN events
             PROVE  events[i].line = OriginalLine(cfg.startFromEvent + i - 1)
  BY DEF UncommentedRecreation, EventsAsInOriginal
<1> DEFINE n == NEventsPerLoop
           p == events[i].pass
           r == LineRank(events[i].line)
           s == cfg.startFromEvent
<1>1. /\ n \in Nat \ {0} /\ p \in Nat /\ i \in Nat /\ r \in 1..n /\ Len(UsableLines) = n
      /\ UsableLines[r] = events[i].line /\ base + i = n * p + r
  BY LineOfEvent
<1>2. base = IF s > n THEN s % n ELSE s
  BY LineOfEvent DEF BookInv, RolledInv, NToRoll
<1>3. s \in Nat /\ cfg.nlinesIgnore \in Nat
  BY ConfigAssumption DEF ConfigType, IInv, TypeOK
<1>4. UsableLinesAfter(cfg.nlinesIgnore) = UsableLines
  BY <1>3 DEF UsableLines, NLinesIgnore
<1> HIDE DEF n, p, r, s
<1>5. PICK q \in Nat : s = n * q + base
  <2>1. CASE s > n
    <3>1. s = n * (s \div n) + (s % n) /\ (s \div n) \in Nat
      BY <1>1, <1>3, DivMod
    <3> QED
      BY <1>2, <2>1, <3>1
  <2>2. CASE ~(s > n)
    <3>1. s = n * 0 + base /\ 0 \in Nat
      BY <1>1, <1>2, <1>3, <2>2
    <3> QED
      BY <3>1
  <2> QED
    BY <2>1, <2>2
<1>6. s + i - 1 = n * (q + p) + (r - 1)
  <2>1. n * (q + p) = n * q + n * p /\ n * q \in Nat /\ n * p \in Nat
    BY <1>1
  <2>2. base \in Int
    BY DEF IInv, TypeOK
  <2> QED
    BY <1>1, <1>3, <1>5, <2>1, <2>2
<1>7. (s + i - 1) % n = r - 1
  <2>1. q + p \in Nat /\ r - 1 \in Nat /\ r - 1 < n
    BY <1>1
  <2> QED
    BY <1>1, <1>6, <2>1, ModUnique
<1>8. ((s + i - 1) % n) + 1 = r
  BY <1>1, <1>7
<1>9. OriginalLine(s + i - 1) = UsableLines[r]
  BY <1>1, <1>4, <1>8 DEF OriginalLine
<1> QED
  BY <1>1, <1>9 DEF s

\* A matched run has made its number of events, and stands in its last pass.
LEMMA MatchedRun ==
    ASSUME IInv, BookInv, pc = "done", cfg.batch, Matched, nGenerate > 0
    PROVE  LET n == NEventsPerLoop
               k == cfg.distrFileLoopNTimes IN
           /\ n \in Nat \ {0} /\ k \in Nat \ {0} /\ n * k \in Nat
           /\ base = 0 /\ Len(events) = n * k /\ passes + 1 = k
<1> DEFINE n == NEventsPerLoop
           k == cfg.distrFileLoopNTimes
           c == NValid(Start, pos)
<1>1. Opened /\ NHeld = 0 /\ base = 0
  BY DEF Opened, NHeld, Held, Matched, BookInv, RolledInv
<1>2. n \in Nat /\ c \in Nat /\ c <= n /\ k \in Nat
  BY <1>1, PerLoop, Settings DEF IInv, TypeOK
<1>3. Len(events) = nGenerate /\ nGenerate = n * k /\ passes \in Nat /\ nGenerate \in Int
  BY <1>1 DEF BookInv, CountInv, IInv, TypeOK
<1>4. events # <<>> /\ c > 0
  BY <1>1, <1>3, EmptyEvents DEF IInv, BookInv, SkippedInv
<1>5. Len(events) = passes * n + c
  <2>1. base + Len(events) + NHeld = passes * n + c
    BY <1>1 DEF IInv, Accounted
  <2>2. Len(events) \in Nat /\ passes * n \in Nat
    BY <1>2, <1>3, EmptyEvents DEF IInv
  <2> QED
    BY <1>1, <1>2, <2>1, <2>2
<1> HIDE DEF n, k, c
<1>6. n \in Nat \ {0} /\ k \in Nat \ {0}
  <2>1. k # 0
    <3>1. n * 0 = 0
      BY <1>2
    <3> QED
      BY <1>3, <3>1
  <2> QED
    BY <1>2, <1>4, <2>1
<1>7. n * k = n * (k - 1) + n /\ passes * n = n * passes /\ n * (k - 1) \in Nat /\ n * passes \in Nat
  <2>1. \A x, y \in Nat : x * (y + 1) = x * y + x /\ y * x = x * y /\ x * y \in Nat
    OBVIOUS
  <2>2. k - 1 \in Nat /\ (k - 1) + 1 = k
    BY <1>6
  <2> QED
    BY <1>2, <1>3, <2>1, <2>2
<1>8. n * passes + (c - 1) = n * (k - 1) + (n - 1)
  BY <1>2, <1>3, <1>5, <1>7
<1>9. passes = k - 1
  <2>1. c - 1 \in Nat /\ c - 1 < n /\ n - 1 \in Nat /\ n - 1 < n /\ k - 1 \in Nat
    BY <1>2, <1>4, <1>6
  <2> QED
    BY <1>3, <1>6, <1>8, <2>1, DivUnique
<1>10. n * k \in Nat
  BY <1>2
<1> QED
  BY <1>1, <1>2, <1>3, <1>6, <1>9, <1>10 DEF n, k

LEMMA MatchedRunCoversFileHolds ==
    ASSUME IInv, BookInv
    PROVE  MatchedRunCoversFile
<1> SUFFICES ASSUME pc = "done", cfg.batch, Matched, nGenerate > 0
             PROVE  /\ \A l \in ValidIn(Start, NLines) :
                         Cardinality({i \in DOMAIN events : events[i].line = l})
                           = cfg.distrFileLoopNTimes
                    /\ Len(events) + nSkipped = nLinesValid * cfg.distrFileLoopNTimes
  BY DEF MatchedRunCoversFile, Matched
<1> DEFINE n == NEventsPerLoop
           k == cfg.distrFileLoopNTimes
<1>1. /\ n \in Nat \ {0} /\ k \in Nat \ {0} /\ n * k \in Nat
      /\ base = 0 /\ Len(events) = n * k /\ passes + 1 = k
  BY MatchedRun
<1>2. /\ Opened /\ cfg.nlinesSkip \in Nat /\ nLinesValid \in Nat
      /\ n = nLinesValid - cfg.nlinesSkip
  BY Settings DEF Opened, NEventsPerLoop, IInv, TypeOK
<1>3. /\ Usable = ValidIn(Start, NLines)
      /\ \A l \in Usable : LineRank(l) \in 1..n /\ UsableLines[LineRank(l)] = l
  BY <1>2, UsableInOrder DEF IInv
<1>4. DOMAIN events = 1..(n * k)
  BY <1>1 DEF IInv, TypeOK
<1>5. ASSUME NEW i \in DOMAIN events
      PROVE  /\ events[i].line \in Usable /\ events[i].pass \in Nat
             /\ i = n * events[i].pass + LineRank(events[i].line)
  BY <1>1, <1>4, <1>5, LineOfEvent
<1>6. ASSUME NEW l \in Usable
      PROVE  Cardinality({i \in DOMAIN events : events[i].line = l}) = k
  <2> DEFINE r == LineRank(l)
             S == {n * q + r : q \in 0..(k - 1)}
             E == {i \in DOMAIN events : events[i].line = l}
  <2>1. r \in 1..n
    BY <1>3
  <2>2. ASSUME NEW q \in Nat
        PROVE  n * q + r \in 1..(n * k) <=> q \in 0..(k - 1)
    <3>1. n * q \in Nat
      BY <1>1
    <3>2. CASE q \in 0..(k - 1)
      <4>1. PICK d \in Nat : q + 1 + d = k
        <5>1. k - 1 - q \in Nat /\ q + 1 + (k - 1 - q) = k
          BY <1>1, <3>2
        <5> QED
          BY <5>1
      <4>2. n * (q + 1 + d) = n * q + n + n * d /\ n * d \in Nat
        BY <1>1, <4>1
      <4>3. n * k = n * q + n + n * d
        BY <4>1, <4>2
      <4> HIDE DEF n, k, r
      <4> QED
        BY <1>1, <2>1, <3>1, <3>2, <4>2, <4>3
    <3>3. CASE q \notin 0..(k - 1)
      <4>1. PICK d \in Nat : q = k + d
        <5>1. q - k \in Nat /\ q = k + (q - k)
          BY <1>1, <3>3
        <5> QED
          BY <5>1
      <4>2. n * (k + d) = n * k + n * d /\ n * d \in Nat
        BY <1>1, <4>1
      <4>3. n * q = n * k + n * d
        BY <4>1, <4>2
      <4> HIDE DEF n, k, r
      <4> QED
        BY <1>1, <2>1, <3>3, <4>2, <4>3
    <3> QED
      BY <3>2, <3>3
  <2>3. ASSUME NEW i \in E
        PROVE  i \in S
    <3>1. i \in DOMAIN events /\ events[i].line = l
      OBVIOUS
    <3>2. events[i].pass \in Nat /\ i = n * events[i].pass + r
      BY <1>5, <3>1
    <3>3. n * events[i].pass + r \in 1..(n * k)
      BY <1>4, <3>1, <3>2
    <3>4. events[i].pass \in 0..(k - 1)
      BY <2>2, <3>2, <3>3
    <3> QED
      BY <3>2, <3>4
  <2>4. ASSUME NEW i \in S
        PROVE  i \in E
    <3>1. PICK q \in 0..(k - 1) : i = n * q + r
      OBVIOUS
    <3>2. q \in Nat /\ i \in DOMAIN events
      BY <1>1, <1>4, <2>2, <3>1
    <3> DEFINE p == events[i].pass
               t == LineRank(events[i].line)
    <3>3. p \in Nat /\ i = n * p + t /\ events[i].line \in Usable
      BY <1>5, <3>2
    <3>4. t \in 1..n /\ UsableLines[t] = events[i].line
      BY <1>3, <3>3
    <3> HIDE DEF n, k, r, p, t
    <3>5. n * q + (r - 1) = n * p + (t - 1)
      <4>1. n * q \in Nat /\ n * p \in Nat
        BY <1>1, <3>2, <3>3
      <4> QED
        BY <1>1, <2>1, <3>1, <3>3, <3>4, <4>1
    <3>6. r - 1 = t - 1
      <4>1. r - 1 \in Nat /\ r - 1 < n /\ t - 1 \in Nat /\ t - 1 < n
        BY <1>1, <2>1, <3>4
      <4>2. n \in Nat \ {0} /\ q \in Nat /\ p \in Nat
        BY <1>1, <3>2, <3>3
      <4> HIDE DEF S, E
      <4> QED
        BY <3>5, <4>1, <4>2, DivUnique
    <3>7. r = t
      BY <2>1, <3>4, <3>6
    <3>8. UsableLines[r] = l
      BY <1>3 DEF r
    <3> QED
      BY <3>2, <3>4, <3>7, <3>8
  <2>5. E = S
    BY <2>3, <2>4
  <2>6. Cardinality(S) = k
    BY <1>1, <2>1, OneInEvery
  <2> QED
    BY <2>5, <2>6
<1>7. Len(events) + nSkipped = nLinesValid * k
  <2>1. nSkipped = k * cfg.nlinesSkip
    BY <1>1, <1>2 DEF BookInv, SkippedInv
  <2>2. nLinesValid = n + cfg.nlinesSkip
    BY <1>1, <1>2
  <2>3. (n + cfg.nlinesSkip) * k = n * k + k * cfg.nlinesSkip
    BY <1>1, <1>2
  <2> QED
    BY <1>1, <2>1, <2>2, <2>3
<1> QED
  BY <1>3, <1>6, <1>7

\* A recreated run over a file with no line to pass over gives each event the
\* line the original run's event got, looping included.
THEOREM UncommentedRecreationTheorem == Spec => []UncommentedRecreation
<1>1. IInv /\ BookInv => UncommentedRecreation
  BY UncommentedRecreationHolds
<1> QED
  BY <1>1, Invariant, BooksTheorem, PTL

\* A run matched to the file length reads each usable line once per loop, and
\* accounts for every valid line as an event or as skipped.
THEOREM MatchedRunCoversFileTheorem == Spec => []MatchedRunCoversFile
<1>1. IInv /\ BookInv => MatchedRunCoversFile
  BY MatchedRunCoversFileHolds
<1> QED
  BY <1>1, Invariant, BooksTheorem, PTL

-----------------------------------------------------------------------------
(***************************************************************************)
(* UserFileParticle.                                                       *)
(***************************************************************************)
\* What is kept from one event to the next besides ParticleTypeOK: with no pdgid column
\* the particle is that of the beam, and with no energy column so is its energy.
BeamKept ==
    /\ ~format.pdgid => definition # NoDefinition /\ definition.species = beam.species
    /\ ~format.pdgid /\ ~UsesEnergy => definition = beam

ParticleIInv == ParticleTypeOK /\ BeamKept /\ NoDefinitionExactlySinceLoss

-----------------------------------------------------------------------------
\* SetEnergies gives a total energy above the rest mass or refuses.
LEMMA TotalEnergyBound ==
    ASSUME NEW s \in Species, NEW E \in Int, NEW Ek \in Int,
           NEW P \in Int, P > 0 => P \in Values
    PROVE  LET e == TotalEnergy(Mass[s], E, Ek, P) IN
           e = Rejected \/ (e \in Nat /\ e > Mass[s] /\ e # Rejected)
<1>1. Mass[s] \in Nat
  BY SpeciesAssumption
<1>2. P > 0 => Hypot(P, Mass[s]) \in Nat /\ Hypot(P, Mass[s]) > Mass[s]
  BY SpeciesAssumption
<1> QED
  BY <1>1, <1>2 DEF TotalEnergy, Rejected

\* What is read from a column is a number.
LEMMA ColumnIsInt ==
    ASSUME NEW l \in Line, NEW name
    PROVE  Column(name, l) \in Int
<1>1. l.value \in Int
  BY SpeciesAssumption DEF Line
<1> QED
  BY <1>1 DEF Column

\* The same of what the columns of a line give a particle of the table.
LEMMA EnergyOfBound ==
    ASSUME NEW s \in Species, NEW E \in Int, NEW l \in Line, format \in Formats
    PROVE  \/ EnergyOf(s, E, l) = Rejected
           \/ /\ EnergyOf(s, E, l) \in Nat
              /\ EnergyOf(s, E, l) > Mass[s]
              /\ EnergyOf(s, E, l) # Rejected
<1>1. l.value \in Values /\ l.value \in Int
  BY SpeciesAssumption DEF Line
<1>2. Column("Ek", l) \in Int /\ Column("P", l) \in Int
  BY <1>1 DEF Column
<1>3. Column("P", l) > 0 => Column("P", l) \in Values
  BY <1>1 DEF Column
<1> QED
  BY <1>2, <1>3, TotalEnergyBound DEF EnergyOf

\* The energy the checks give the definition at hand, and the one of a new
\* definition, when they are not refused.
LEMMA DefinitionsAreSound ==
    ASSUME ParticleTypeOK, NEW l \in Line
    PROVE  /\ PassesCheck(l) /\ definition # NoDefinition =>
                Updated(l) \in Definition /\ Updated(l).energy > Mass[Updated(l).species]
           /\ PassesCheck(l) /\ Rebuilds /\ SpeciesOf(l) \in Species /\ Rebuilt(l).energy # Rejected =>
                Rebuilt(l) \in Definition /\ Rebuilt(l).energy > Mass[Rebuilt(l).species]
<1> USE DEF ParticleTypeOK, Definition
<1>1. Column("E", l) \in Int
  BY ColumnIsInt
<1>2. beam.energy \in Int
  BY SpeciesAssumption
<1>3. ASSUME PassesCheck(l), definition # NoDefinition
      PROVE  Updated(l) \in Definition /\ Updated(l).energy > Mass[Updated(l).species]
  <2>1. CASE ~ChecksCoordinates
    BY <1>3, <2>1 DEF Updated
  <2>2. CASE ChecksCoordinates
    <3>1. Checked(l) \in Nat /\ Checked(l) > Mass[definition.species]
      BY <1>1, <1>3, <2>2, EnergyOfBound DEF Checked, PassesCheck
    <3> QED
      BY <1>3, <2>2, <3>1 DEF Updated
  <2> QED
    BY <2>1, <2>2
<1>4. ASSUME PassesCheck(l), Rebuilds, SpeciesOf(l) \in Species, Rebuilt(l).energy # Rejected
      PROVE  Rebuilt(l) \in Definition /\ Rebuilt(l).energy > Mass[Rebuilt(l).species]
  <2>1. EnergyVariable(l) \in Int
    <3>1. CASE ChecksCoordinates
      <4>1. definition.species \in Species
        BY <3>1 DEF ChecksCoordinates
      <4>2. Checked(l) \in Nat
        BY <1>1, <3>1, <4>1, <1>4, EnergyOfBound DEF Checked, PassesCheck
      <4> QED
        BY <3>1, <4>2 DEF EnergyVariable
    <3>2. CASE ~ChecksCoordinates
      BY <1>1, <1>2, <3>2 DEF EnergyVariable
    <3> QED
      BY <3>1, <3>2
  <2> DEFINE e == EnergyOf(SpeciesOf(l), EnergyVariable(l), l)
  <2>2. Rebuilt(l) = [species |-> SpeciesOf(l), energy |-> e]
    BY DEF Rebuilt
  <2>3. e # Rejected
    BY <1>4, <2>2
  <2>4. e \in Nat /\ e > Mass[SpeciesOf(l)]
    BY <1>4, <2>1, <2>3, EnergyOfBound
  <2> QED
    BY <1>4, <2>2, <2>4
<1> QED
  BY <1>3, <1>4

\* A definition of a particle of the table is not the null one.
LEMMA DefinitionIsNotNull ==
    ASSUME NEW d \in Definition
    PROVE  d # NoDefinition
BY SpeciesAssumption DEF Definition, NoDefinition

-----------------------------------------------------------------------------
LEMMA ParticleInitIInv ==
    ASSUME ParticleInit
    PROVE  ParticleIInv
<1>1. definition \in Definition /\ definition.energy > Mass[definition.species]
  BY SpeciesAssumption DEF ParticleInit
<1>2. definition # NoDefinition
  BY <1>1, DefinitionIsNotNull
<1> QED
  BY <1>1, <1>2 DEF ParticleInit, ParticleIInv, ParticleTypeOK, BeamKept,
                       NoDefinitionExactlySinceLoss, NoEvent

\* One event keeps the invariant, whichever way it ends.
LEMMA EventIInv ==
    ASSUME ParticleIInv, Event
    PROVE  ParticleIInv'
<1> USE DEF ParticleIInv, NoDefinitionExactlySinceLoss
<1>0. PICK l \in Line :
        \/ RejectedByCheck(l) \/ UnknownParticle(l) \/ RejectedByNew(l)
        \/ DeliverNew(l) \/ DeliverSame(l)
  BY DEF Event
<1>1. format' = format /\ beam' = beam /\ stage' = stage /\ stage = "run"
  BY DEF Event
<1>2. NoDefinition \notin Definition
  BY DefinitionIsNotNull
<1>3. definition # NoDefinition => definition \in Definition
  BY DEF ParticleTypeOK
<1>4. Updated(l).species = definition.species
  BY <1>3 DEF Updated, Definition, ChecksCoordinates
<1>5. SpeciesOf(l) \in Species => format.pdgid
  BY SpeciesAssumption DEF SpeciesOf
<1>6. CASE RejectedByCheck(l)
  <2>1. definition' = definition /\ sinceLoss' = sinceLoss /\ event'.outcome = "rejected"
    BY <1>6 DEF RejectedByCheck, Record, ParticleTypeOK
  <2> QED
    BY <1>1, <2>1 DEF ParticleTypeOK, BeamKept, UsesEnergy
<1>7. CASE UnknownParticle(l)
  <2>1. definition' = Updated(l) /\ sinceLoss' = sinceLoss /\ event'.outcome = "unknown"
        /\ PassesCheck(l) /\ Rebuilds
    BY <1>7 DEF UnknownParticle, Record, ParticleTypeOK
  <2>2. CASE definition = NoDefinition
    <3>1. definition' = NoDefinition
      BY <2>1, <2>2 DEF Updated, ChecksCoordinates
    <3> QED
      BY <1>1, <2>1, <2>2, <3>1 DEF ParticleTypeOK, BeamKept, UsesEnergy
  <2>3. CASE definition # NoDefinition
    <3>1. definition' \in Definition /\ definition'.energy > Mass[definition'.species]
      BY <2>1, <2>3, DefinitionsAreSound
    <3>2. ~format.pdgid /\ ~UsesEnergy => definition' = definition
      BY <2>1 DEF Updated, ChecksCoordinates
    <3> QED
      BY <1>1, <1>2, <1>4, <2>1, <2>3, <3>1, <3>2 DEF ParticleTypeOK, BeamKept, UsesEnergy
  <2> QED
    BY <2>2, <2>3
<1>8. CASE RejectedByNew(l)
  <2>1. definition' = NoDefinition /\ sinceLoss' = TRUE /\ event'.outcome = "lost"
        /\ format.pdgid
    BY <1>5, <1>8 DEF RejectedByNew, AfterRejection, Record
  <2> QED
    BY <1>1, <2>1 DEF ParticleTypeOK, BeamKept
<1>9. CASE DeliverNew(l)
  <2>1. definition' = Rebuilt(l) /\ sinceLoss' = FALSE /\ event'.outcome = "delivered"
        /\ format.pdgid
    BY <1>5, <1>9 DEF DeliverNew, Record
  <2>2. definition' \in Definition /\ definition'.energy > Mass[definition'.species]
    BY <1>9, <2>1, DefinitionsAreSound DEF DeliverNew
  <2> QED
    BY <1>1, <1>2, <2>1, <2>2 DEF ParticleTypeOK, BeamKept
<1>10. CASE DeliverSame(l)
  <2>1. definition' = Updated(l) /\ sinceLoss' = FALSE /\ event'.outcome = "delivered"
        /\ PassesCheck(l) /\ ~Rebuilds
    BY <1>10 DEF DeliverSame, Record
  <2>2. definition # NoDefinition
    BY <2>1 DEF Rebuilds, BeamKept
  <2>3. definition' \in Definition /\ definition'.energy > Mass[definition'.species]
    BY <2>1, <2>2, DefinitionsAreSound
  <2>4. ~UsesEnergy => definition' = definition
    BY <2>1 DEF Updated, ChecksCoordinates
  <2> QED
    BY <1>1, <1>2, <1>4, <2>1, <2>2, <2>3, <2>4 DEF ParticleTypeOK, BeamKept, UsesEnergy
<1> QED
  BY <1>0, <1>6, <1>7, <1>8, <1>9, <1>10

LEMMA ParticleNextIInv ==
    ASSUME ParticleIInv, [ParticleNext]_particleVars
    PROVE  ParticleIInv'
<1>1. CASE BeginRun
  BY <1>1 DEF BeginRun, ParticleIInv, ParticleTypeOK, BeamKept,
                NoDefinitionExactlySinceLoss, UsesEnergy
<1>2. CASE EndRun
  BY <1>2 DEF EndRun, ParticleIInv, ParticleTypeOK, BeamKept,
                NoDefinitionExactlySinceLoss, UsesEnergy
<1>3. CASE ShortLine
  BY <1>3 DEF ShortLine, ParticleIInv, ParticleTypeOK, BeamKept,
                NoDefinitionExactlySinceLoss, UsesEnergy, NoEvent
<1>4. CASE Event
  BY <1>4, EventIInv
<1>5. CASE Crashed \/ UNCHANGED particleVars
  BY <1>5 DEF Crashed, particleVars, ParticleIInv, ParticleTypeOK, BeamKept,
                NoDefinitionExactlySinceLoss, UsesEnergy
<1> QED
  BY <1>1, <1>2, <1>3, <1>4, <1>5 DEF ParticleNext

\* The strengthened invariant holds of every behaviour.
THEOREM ParticleInvariant == ParticleSpec => []ParticleIInv
<1>1. ParticleInit => ParticleIInv
  BY ParticleInitIInv
<1>2. ParticleIInv /\ [ParticleNext]_particleVars => ParticleIInv'
  BY ParticleNextIInv
<1> QED
  BY <1>1, <1>2, PTL DEF ParticleSpec

\* Whatever the lines, the particle definition in use is a particle of the
\* table with more than its rest mass, or it is the null one.
THEOREM ParticleTypeCorrect == ParticleSpec => []ParticleTypeOK
<1>1. ParticleIInv => ParticleTypeOK
  BY DEF ParticleIInv
<1> QED
  BY <1>1, ParticleInvariant, PTL

\* There is no particle definition from the loss of an event to its own rest
\* mass until the next delivered event, and at no other time.
THEOREM NullDefinitionAfterLoss == ParticleSpec => []NoDefinitionExactlySinceLoss
<1>1. ParticleIInv => NoDefinitionExactlySinceLoss
  BY DEF ParticleIInv
<1> QED
  BY <1>1, ParticleInvariant, PTL

-----------------------------------------------------------------------------
(***************************************************************************)
(* What an event says of its line.                                         *)
(***************************************************************************)

\* A step that is no event leaves the last event and what it is judged by, or
\* forgets the event.
LEMMA OtherSteps ==
    ASSUME [ParticleNext]_particleVars, ~Event
    PROVE  /\ format' = format /\ beam' = beam
           /\ event' = event \/ event' = NoEvent
BY DEF ParticleNext, particleVars, BeginRun, EndRun, ShortLine, Crashed

\* With an energy and a pdgid column: the total energy the checks leave in the
\* variable E is taken over by the new definition unless it is too low for it.
LEMMA RebuiltEnergy ==
    ASSUME ParticleIInv, NEW l \in Line, UsesEnergy, format.pdgid, definition # NoDefinition,
           l.species \in Species, PassesCheck(l)
    PROVE  Rebuilt(l).energy = IF Checked(l) > Mass[l.species] THEN Checked(l) ELSE Rejected
<1>1. definition \in Definition
  BY DEF ParticleIInv, ParticleTypeOK
<1>2. Column("E", l) \in Int
  BY ColumnIsInt
<1>3. Checked(l) \in Nat /\ Checked(l) # 0
  BY <1>1, <1>2, EnergyOfBound DEF PassesCheck, ChecksCoordinates, Checked, Definition,
        Rejected, ParticleIInv, ParticleTypeOK
<1>4. EnergyVariable(l) = Checked(l) /\ SpeciesOf(l) = l.species
  BY DEF EnergyVariable, ChecksCoordinates, SpeciesOf
<1> QED
  BY <1>3, <1>4 DEF Rebuilt, EnergyOf, TotalEnergy

\* With an energy column and nothing to check, or with no energy column, the
\* new definition has the energy its own line gives.
LEMMA RebuiltOwnEnergy ==
    ASSUME ParticleIInv, NEW l \in Line, ~ChecksCoordinates
    PROVE  Rebuilt(l).energy = EnergyOf(SpeciesOf(l),
                                        IF UsesEnergy THEN Column("E", l) ELSE beam.energy, l)
BY DEF Rebuilt, EnergyVariable

\* The exemption of LineDecidesAtSameMass, for the next event on line l.
Mixed(l) ==
    /\ UsesEnergy /\ format.pdgid
    /\ definition # NoDefinition
    /\ l.species \in Species =>
         LET previous == Mass[definition.species]
             own == Mass[l.species]
         IN IF format.column = "E" THEN previous > own ELSE previous # own

\* After a particle of suitable mass, the checks on the definition at hand and
\* the new definition come to the energy the line itself gives.
LEMMA SameMassEnergy ==
    ASSUME ParticleIInv, NEW l \in Line, UsesEnergy, format.pdgid, definition # NoDefinition,
           l.species \in Species, ~Mixed(l)
    PROVE  /\ OwnEnergy(l) = Rejected => ~PassesCheck(l) \/ Rebuilt(l).energy = Rejected
           /\ OwnEnergy(l) # Rejected => PassesCheck(l) /\ Rebuilt(l).energy = OwnEnergy(l)
<1> DEFINE m == Mass[l.species]
           M == Mass[definition.species]
<1>1. definition.species \in Species /\ m \in Nat /\ M \in Nat
  BY SpeciesAssumption DEF ParticleIInv, ParticleTypeOK, Definition
<1>2. l.value \in Values /\ l.value \in Int
  BY SpeciesAssumption DEF Line
<1>3. format.column \in {"E", "Ek", "P"}
  BY SpeciesAssumption DEF UsesEnergy, ParticleIInv, ParticleTypeOK, FormatType, EnergyColumns
<1>4. OwnEnergy(l) = TotalEnergy(m, Column("E", l), Column("Ek", l), Column("P", l))
  BY DEF OwnEnergy, OwnSpecies, EnergyOf
<1>5. Checked(l) = TotalEnergy(M, Column("E", l), Column("Ek", l), Column("P", l))
  BY DEF Checked, EnergyOf
<1>6. PassesCheck(l) <=> Checked(l) # Rejected
  BY DEF PassesCheck, ChecksCoordinates
<1>7. CASE format.column = "E"
  <2>1. M <= m
    BY <1>1, <1>7 DEF Mixed
  <2>2. OwnEnergy(l) = IF l.value # 0 /\ l.value > m THEN l.value ELSE Rejected
    BY <1>4, <1>7 DEF Column, TotalEnergy
  <2>3. Checked(l) = IF l.value # 0 /\ l.value > M THEN l.value ELSE Rejected
    BY <1>5, <1>7 DEF Column, TotalEnergy
  <2> QED
    BY <1>1, <1>2, <1>6, <2>1, <2>2, <2>3, RebuiltEnergy DEF Rejected
<1>8. CASE format.column # "E"
  <2>1. M = m
    BY <1>8 DEF Mixed
  <2>2. Checked(l) = OwnEnergy(l)
    BY <1>4, <1>5, <2>1
  <2>3. OwnEnergy(l) = Rejected \/ OwnEnergy(l) > m
    BY <1>1, <1>2, EnergyOfBound, SpeciesAssumption
       DEF OwnEnergy, OwnSpecies, Column, ParticleIInv, ParticleTypeOK
  <2> QED
    BY <1>6, <2>2, <2>3, RebuiltEnergy
<1> QED
  BY <1>7, <1>8

\* What an event records, and why it was delivered or was not.
LEMMA EventOutcome ==
    ASSUME NEW l \in Line,
           \/ RejectedByCheck(l) \/ UnknownParticle(l) \/ RejectedByNew(l)
           \/ DeliverNew(l) \/ DeliverSame(l)
    PROVE  /\ event'.line = l /\ event'.before = definition /\ event'.got = definition'
           /\ event'.outcome = "delivered" => DeliverNew(l) \/ DeliverSame(l)
           /\ event'.outcome # "delivered" =>
                \/ ~PassesCheck(l)
                \/ Rebuilds /\ SpeciesOf(l) \notin Species
                \/ Rebuilds /\ SpeciesOf(l) \in Species /\ Rebuilt(l).energy = Rejected
BY DEF RejectedByCheck, UnknownParticle, RejectedByNew, DeliverNew, DeliverSame, Record

\* The next event is as its own line says, unless its line is mixed.
LEMMA EventAsTheLineSays ==
    ASSUME ParticleIInv, Event
    PROVE  LineDecidesAtSameMass'
<1>0. PICK l \in Line :
        \/ RejectedByCheck(l) \/ UnknownParticle(l) \/ RejectedByNew(l)
        \/ DeliverNew(l) \/ DeliverSame(l)
  BY DEF Event
<1>1. format' = format /\ beam' = beam
  BY DEF Event
<1>2. /\ event'.line = l /\ event'.before = definition /\ event'.got = definition'
      /\ event'.outcome = "delivered" => DeliverNew(l) \/ DeliverSame(l)
      /\ event'.outcome # "delivered" =>
           \/ ~PassesCheck(l)
           \/ Rebuilds /\ SpeciesOf(l) \notin Species
           \/ Rebuilds /\ SpeciesOf(l) \in Species /\ Rebuilt(l).energy = Rejected
  BY <1>0, EventOutcome
<1>3. /\ IsGood(event.line)' <=> IsGood(l)
      /\ OwnSpecies(event.line)' = OwnSpecies(l)
      /\ OwnEnergy(event.line)' = OwnEnergy(l)
  BY <1>1, <1>2 DEF IsGood, OwnSpecies, OwnEnergy, UsesEnergy, EnergyOf, Column
<1> DEFINE Goal == IF IsGood(l)
                   THEN /\ event'.outcome = "delivered"
                        /\ definition' = [species |-> OwnSpecies(l), energy |-> OwnEnergy(l)]
                   ELSE event'.outcome # "delivered"
<1>4. Goal => AsTheLineSays'
  BY <1>2, <1>3 DEF AsTheLineSays
<1>5. CASE format.pdgid /\ l.species \notin Species
  <2>1. ~IsGood(l)
    BY <1>5 DEF IsGood, OwnSpecies
  <2>2. ~DeliverNew(l) /\ ~DeliverSame(l)
    BY <1>5 DEF DeliverNew, DeliverSame, Rebuilds, SpeciesOf
  <2> QED
    BY <1>2, <1>4, <2>1, <2>2 DEF LineDecidesAtSameMass
<1>6. CASE format.pdgid /\ l.species \in Species /\ ~Mixed(l)
  <2>1. SpeciesOf(l) = l.species /\ OwnSpecies(l) = l.species /\ Rebuilds
    BY <1>6 DEF SpeciesOf, OwnSpecies, Rebuilds
  <2>2. /\ OwnEnergy(l) = Rejected => ~PassesCheck(l) \/ Rebuilt(l).energy = Rejected
        /\ OwnEnergy(l) # Rejected => PassesCheck(l) /\ Rebuilt(l).energy = OwnEnergy(l)
    <3>1. CASE ChecksCoordinates
      BY <1>6, <3>1, SameMassEnergy DEF ChecksCoordinates
    <3>2. CASE ~ChecksCoordinates
      BY <2>1, <3>2, RebuiltOwnEnergy DEF PassesCheck, OwnEnergy
    <3> QED
      BY <3>1, <3>2
  <2>3. ~DeliverSame(l)
    BY <2>1 DEF DeliverSame
  <2>4. DeliverNew(l) => definition' = Rebuilt(l) /\ PassesCheck(l) /\ Rebuilt(l).energy # Rejected
    BY DEF DeliverNew
  <2>5. Rebuilt(l) = [species |-> l.species, energy |-> Rebuilt(l).energy]
    BY <2>1 DEF Rebuilt
  <2>6. IsGood(l) <=> OwnEnergy(l) # Rejected
    BY <1>6, <2>1 DEF IsGood
  <2>7. Goal
    BY <1>2, <1>6, <2>1, <2>2, <2>3, <2>4, <2>5, <2>6
  <2> QED
    BY <1>4, <2>7 DEF LineDecidesAtSameMass
<1>7. CASE format.pdgid /\ l.species \in Species /\ Mixed(l)
  BY <1>1, <1>2, <1>7 DEF Mixed, LineDecidesAtSameMass, UsesEnergy
<1>8. CASE ~format.pdgid
  <2>1. definition # NoDefinition /\ definition \in Definition
        /\ definition.species = beam.species /\ beam.species \in Species
    BY <1>8 DEF ParticleIInv, BeamKept, ParticleTypeOK, Definition
  <2>2. ~Rebuilds /\ OwnSpecies(l) = definition.species
    BY <1>8, <2>1 DEF Rebuilds, OwnSpecies
  <2>3. /\ PassesCheck(l) <=> OwnEnergy(l) # Rejected
        /\ OwnEnergy(l) # Rejected =>
             Updated(l) = [species |-> definition.species, energy |-> OwnEnergy(l)]
    <3>1. CASE UsesEnergy
      BY <2>1, <2>2, <3>1 DEF OwnEnergy, Checked, PassesCheck, ChecksCoordinates, Updated
    <3>2. CASE ~UsesEnergy
      <4>1. definition = beam
        BY <1>8, <3>2 DEF ParticleIInv, BeamKept
      <4>2. beam.energy \in Nat /\ beam.energy > Mass[beam.species] /\ Mass[beam.species] \in Nat
        BY <2>1, <4>1, SpeciesAssumption DEF ParticleIInv, ParticleTypeOK, Definition
      <4>3. OwnEnergy(l) = beam.energy
        BY <2>2, <3>2, <4>1, <4>2 DEF OwnEnergy, EnergyOf, TotalEnergy
      <4>4. definition = [species |-> definition.species, energy |-> definition.energy]
        BY <2>1 DEF Definition
      <4> QED
        BY <3>2, <4>1, <4>2, <4>3, <4>4 DEF PassesCheck, ChecksCoordinates, Updated, Rejected
    <3> QED
      BY <3>1, <3>2
  <2>4. IsGood(l) <=> OwnEnergy(l) # Rejected
    BY <2>1, <2>2 DEF IsGood
  <2>5. ~DeliverNew(l)
    BY <2>2 DEF DeliverNew
  <2>6. DeliverSame(l) => definition' = Updated(l) /\ PassesCheck(l)
    BY DEF DeliverSame
  <2>7. Goal
    BY <1>2, <2>2, <2>3, <2>4, <2>5, <2>6
  <2> QED
    BY <1>4, <2>7 DEF LineDecidesAtSameMass
<1> QED
  BY <1>5, <1>6, <1>7, <1>8

\* A userfile line alone decides what event it gives, except after a particle
\* of another mass: for every particle table, format and energy.
THEOREM LineDecidesTheorem == ParticleSpec => []LineDecidesAtSameMass
<1>1. ParticleInit => LineDecidesAtSameMass
  BY DEF ParticleInit, LineDecidesAtSameMass
<1>2. ParticleIInv /\ LineDecidesAtSameMass /\ [ParticleNext]_particleVars => LineDecidesAtSameMass'
  <2> SUFFICES ASSUME ParticleIInv, LineDecidesAtSameMass, [ParticleNext]_particleVars
               PROVE  LineDecidesAtSameMass'
    OBVIOUS
  <2>1. CASE Event
    BY <2>1, EventAsTheLineSays
  <2>2. CASE ~Event
    <3>1. format' = format /\ beam' = beam /\ (event' = event \/ event' = NoEvent)
      BY <2>2, OtherSteps
    <3>2. CASE event' = NoEvent
      BY <3>2 DEF LineDecidesAtSameMass, NoEvent
    <3>3. CASE event' = event
      BY <3>1, <3>3 DEF LineDecidesAtSameMass, AsTheLineSays, IsGood, OwnSpecies,
            OwnEnergy, EnergyOf, Column, UsesEnergy, NoEvent
    <3> QED
      BY <3>1, <3>2, <3>3
  <2> QED
    BY <2>1, <2>2
<1> QED
  BY <1>1, <1>2, ParticleInvariant, PTL DEF ParticleSpec

-----------------------------------------------------------------------------
\* The kinetic energy of the next event is its line's, if the mass is kept.
LEMMA EventKineticEnergy ==
    ASSUME ParticleIInv, Event
    PROVE  KineticEnergyWhereMassKept'
<1>0. PICK l \in Line :
        \/ RejectedByCheck(l) \/ UnknownParticle(l) \/ RejectedByNew(l)
        \/ DeliverNew(l) \/ DeliverSame(l)
  BY DEF Event
<1> SUFFICES ASSUME event'.outcome = "delivered", format.column = "Ek", MassKept'
             PROVE  event'.got.energy - Mass[event'.got.species] = event'.line.value
  BY DEF KineticEnergyWhereMassKept, KineticEnergyAsGiven, Event
<1>1. /\ format' = format
      /\ event'.line = l /\ event'.before = definition /\ event'.got = definition'
      /\ DeliverNew(l) \/ DeliverSame(l)
  BY <1>0, EventOutcome DEF Event
<1>2. l.value \in Int /\ UsesEnergy /\ Column("E", l) = 0 /\ Column("Ek", l) = l.value
      /\ Column("P", l) = 0
  BY SpeciesAssumption DEF Line, UsesEnergy, Column
<1> DEFINE m == Mass[definition'.species]
           M == Mass[definition.species]
<1>3. definition # NoDefinition => definition.species \in Species /\ M \in Nat
  BY SpeciesAssumption DEF ParticleIInv, ParticleTypeOK, Definition
<1>4. definition # NoDefinition /\ PassesCheck(l) =>
        Checked(l) = M + l.value /\ l.value > 0 /\ Updated(l).energy = M + l.value
  BY <1>2, <1>3 DEF PassesCheck, ChecksCoordinates, Checked, EnergyOf, TotalEnergy,
        Rejected, Updated
<1>5. CASE DeliverNew(l)
  <2>1. definition' = Rebuilt(l) /\ PassesCheck(l) /\ SpeciesOf(l) \in Species
        /\ Rebuilt(l).energy # Rejected
    BY <1>5 DEF DeliverNew
  <2>2. definition'.species = SpeciesOf(l) /\ m \in Nat
    BY <2>1, SpeciesAssumption DEF Rebuilt
  <2>3. CASE definition = NoDefinition
    <3>1. definition'.energy = TotalEnergy(m, 0, l.value, 0)
      BY <1>2, <2>1, <2>2, <2>3 DEF Rebuilt, EnergyVariable, ChecksCoordinates, EnergyOf
    <3>2. definition'.energy = m + l.value
      BY <1>2, <2>1, <3>1 DEF TotalEnergy, Rejected
    <3> QED
      BY <1>1, <1>2, <2>2, <2>3, <3>2
  <2>4. CASE definition # NoDefinition
    <3>1. format.pdgid /\ SpeciesOf(l) = l.species
      BY <2>1, SpeciesAssumption DEF SpeciesOf
    <3>2. definition'.energy = M + l.value
      BY <1>2, <1>3, <1>4, <2>1, <2>4, <3>1, RebuiltEnergy
    <3> QED
      BY <1>1, <1>2, <1>3, <2>2, <2>4, <3>2 DEF MassKept, NoEvent
  <2> QED
    BY <2>3, <2>4
<1>6. CASE DeliverSame(l)
  <2>1. definition' = Updated(l) /\ PassesCheck(l) /\ definition # NoDefinition
    BY <1>2, <1>6 DEF DeliverSame, Rebuilds
  <2>2. definition'.species = definition.species /\ definition'.energy = M + l.value
    BY <1>2, <1>4, <2>1 DEF Updated, ChecksCoordinates
  <2> QED
    BY <1>1, <1>2, <1>3, <2>1, <2>2
<1> QED
  BY <1>1, <1>5, <1>6

\* For all species, masses and energies an event has the kinetic energy of its line,
\* unless the particle before has another mass.
THEOREM KineticEnergyTheorem == ParticleSpec => []KineticEnergyWhereMassKept
<1>1. ParticleInit => KineticEnergyWhereMassKept
  BY DEF ParticleInit, KineticEnergyWhereMassKept, KineticEnergyAsGiven, NoEvent
<1>2. ParticleIInv /\ KineticEnergyWhereMassKept /\ [ParticleNext]_particleVars => KineticEnergyWhereMassKept'
  <2> SUFFICES ASSUME ParticleIInv, KineticEnergyWhereMassKept, [ParticleNext]_particleVars
               PROVE  KineticEnergyWhereMassKept'
    OBVIOUS
  <2>1. CASE Event
    BY <2>1, EventKineticEnergy
  <2>2. CASE ~Event
    BY <2>2, OtherSteps DEF KineticEnergyWhereMassKept, KineticEnergyAsGiven, MassKept, NoEvent
  <2> QED
    BY <2>1, <2>2
<1> QED
  BY <1>1, <1>2, ParticleInvariant, PTL DEF ParticleSpec
=============================================================================
