--------------------- MODULE EventFileGenerator_proofs ----------------------
(***************************************************************************)
(* Theorems of EventFileGenerator, for files of any length and pattern of  *)
(* passing entries, any number of loops, skips and offsets, and any number *)
(* of events.  The invariant counts the events by their outcome, relates   *)
(* them to those still to come, and says what the end of the file means.   *)
(***************************************************************************)
EXTENDS EventFileGenerator, CommonLemmas

\* The events of a sequence that ended in a given way.
OfOutcome(s, outcome) == {i \in DOMAIN s : s[i].outcome = outcome}
EventType == [entry : 0..nEventsInFile, run : Nat, outcome : Outcomes]

\* The options of a program, of which only these facts are used.
LEMMA OptionFacts ==
    ASSUME cfg \in Configs
    PROVE  /\ nEventsInFile \in Nat /\ cfg.distrFileLoopNTimes \in Nat \ {0}
           /\ nAvailable \in Nat
           /\ cfg.nEventsSkip \in Nat /\ cfg.startFromEvent \in Nat /\ cfg.nGenerate \in Nat
           /\ cfg.batch \in BOOLEAN /\ cfg.recreate \in BOOLEAN
           /\ cfg.distrFileLoop \in BOOLEAN /\ cfg.distrFileMatchLength \in BOOLEAN
           /\ cfg.kind \in {"hepmc", "sampler"}
           /\ \A i \in 1..nEventsInFile : cfg.passes[i] \in BOOLEAN
<1>1. cfg \in ConfigType
  BY ConfigAssumption
<1>2. cfg.passes \in Seq(BOOLEAN) /\ cfg.distrFileLoopNTimes \in Nat \ {0}
  BY <1>1 DEF ConfigType
<1>3. nEventsInFile \in Nat /\ \A i \in 1..nEventsInFile : cfg.passes[i] \in BOOLEAN
  BY <1>2 DEF nEventsInFile
<1>4. nAvailable \in Nat
  BY <1>2, <1>3 DEF nAvailable
<1> QED
  BY <1>1, <1>2, <1>3, <1>4 DEF ConfigType

\* The events of an outcome are finitely many.
LEMMA OutcomeFinite ==
    ASSUME NEW S, NEW s \in Seq(S), NEW o
    PROVE  IsFiniteSet(OfOutcome(s, o)) /\ Cardinality(OfOutcome(s, o)) \in Nat
<1>1. IsFiniteSet(1..Len(s))
  BY FS_Interval
<1>2. OfOutcome(s, o) \subseteq 1..Len(s)
  BY DEF OfOutcome
<1> QED
  BY <1>1, <1>2, FS_Subset, FS_CardinalityType

\* Of one event more, the outcome is counted one more, and no other is.
LEMMA OutcomeCounted ==
    ASSUME NEW S, NEW s \in Seq(S), NEW e \in S, NEW o
    PROVE  Cardinality(OfOutcome(Append(s, e), o)) =
             Cardinality(OfOutcome(s, o)) + IF e.outcome = o THEN 1 ELSE 0
<1>1. IsFiniteSet(OfOutcome(s, o)) /\ Cardinality(OfOutcome(s, o)) \in Nat
  BY OutcomeFinite
<1>2. CASE e.outcome = o
  <2>1. OfOutcome(Append(s, e), o) = OfOutcome(s, o) \union {Len(s) + 1}
    BY <1>2 DEF OfOutcome
  <2>2. Len(s) + 1 \notin OfOutcome(s, o)
    BY DEF OfOutcome
  <2>3. Cardinality(OfOutcome(s, o) \union {Len(s) + 1}) = Cardinality(OfOutcome(s, o)) + 1
    BY <1>1, <2>2, FS_AddElement
  <2> QED
    BY <1>2, <2>1, <2>3
<1>3. CASE e.outcome # o
  <2>1. OfOutcome(Append(s, e), o) = OfOutcome(s, o)
    BY <1>3 DEF OfOutcome
  <2> QED
    BY <1>1, <1>3, <2>1
<1> QED
  BY <1>1, <1>2, <1>3

\* Of n, what is left by a k no larger is less than half, and less than k.
LEMMA SmallRemainder ==
    ASSUME NEW n \in Nat, NEW k \in Nat, 0 < k, k <= n
    PROVE  2 * (n % k) < n
  OBVIOUS

-----------------------------------------------------------------------------
\* The conjuncts of TypeOK, with names for the numbers it speaks of.
Count(outcome) == Cardinality(With(outcome))
NEvents == Len(events)
LastOutcome == events[NEvents].outcome

Types ==
    /\ cfg \in Configs
    /\ pc \in {"construct", "idle", "event", "done", "failed", "crashed"}
    /\ index \in Nat /\ (cfg.kind = "hepmc" => index <= nEventsInFile)
    /\ hasReader \in BOOLEAN /\ eof \in BOOLEAN
    /\ nPassed \in Nat /\ nSkipped \in Nat
    /\ nGenerate \in Int /\ nToDo \in Nat /\ nRuns \in Nat
    /\ events \in Seq(EventType)

\* Counted events: six numbers that add up to the number of events.
Counts ==
    /\ nPassed = Count("simulated")
    /\ nSkipped = Count("filtered") + Count("reopened")
    /\ NEvents = nPassed + nSkipped + Count("atEnd") + Count("endRun") + Count("empty")

\* Nothing has been read when the program starts; events are asked for while
\* there are some to come; and a looped file comes to its end only with nothing
\* passed.
FileInv ==
    /\ pc = "construct" => nPassed = 0 /\ ~eof
    /\ pc = "event" => nToDo > 0
    /\ nPassed > 0 => nEventsInFile > 0
    /\ eof /\ loopFile => nPassed = 0

\* A batch program has one run; until it ends the events so far and those to
\* come are the number asked for.
BatchInv ==
    cfg.batch =>
        /\ pc \in {"construct", "idle"} => NEvents = 0
        /\ pc = "event" => NEvents + nToDo = nGenerate
        /\ pc # "done" => Count("endRun") = 0
        /\ ~eof => Count("atEnd") = 0
        /\ Count("atEnd") <= 1 /\ Count("endRun") <= 1 /\ Count("empty") = 0
        /\ pc = "done" /\ NEvents < nGenerate => eof /\ LastOutcome = "endRun"

IInv == Types /\ Counts /\ FileInv /\ BatchInv /\ CrashOnlyPastOnePass

CountsNatural ==
    /\ Count("simulated") \in Nat /\ Count("filtered") \in Nat /\ Count("reopened") \in Nat
    /\ Count("atEnd") \in Nat /\ Count("endRun") \in Nat /\ Count("empty") \in Nat

\* An event of outcome o has been added.
OneMore(o) ==
    /\ Count(o)' = Count(o) + 1
    /\ \A p \in Outcomes \ {o} : Count(p)' = Count(p)

\* TypeOK is these two parts.
LEMMA TypeOKInParts == TypeOK <=> Types /\ Counts
  BY DEF TypeOK, Types, Counts, Count, EventType, NEvents

\* The events of each outcome are finitely many.
LEMMA CountsAreNumbers ==
    ASSUME Types
    PROVE  CountsNatural
<1>1. \A o : With(o) = OfOutcome(events, o)
  BY DEF With, OfOutcome
<1> QED
  BY <1>1, OutcomeFinite DEF Types, Count, CountsNatural

\* An event more of outcome o is one more of that count and no other.
LEMMA EventAdded ==
    ASSUME Types, cfg' = cfg, NEW e \in 0..nEventsInFile, NEW o \in Outcomes,
           events' = Append(events, [entry |-> e, run |-> nRuns, outcome |-> o])
    PROVE  /\ events' \in Seq(EventType)' /\ NEvents \in Nat /\ NEvents' = NEvents + 1
           /\ LastOutcome' = o
           /\ OneMore(o)
<1> DEFINE ev == [entry |-> e, run |-> nRuns, outcome |-> o]
<1>1. ev \in EventType /\ EventType' = EventType
  BY DEF Types, EventType, nEventsInFile
<1>2. events \in Seq(EventType)
  BY DEF Types
<1>3. \A p : Count(p)' = Cardinality(OfOutcome(Append(events, ev), p))
  BY DEF Count, With, OfOutcome
<1>4. \A p : Count(p) = Cardinality(OfOutcome(events, p))
  BY DEF Count, With, OfOutcome
<1>5. \A p : Cardinality(OfOutcome(Append(events, ev), p)) =
               Cardinality(OfOutcome(events, p)) + IF ev.outcome = p THEN 1 ELSE 0
  BY <1>1, <1>2, OutcomeCounted
<1> QED
  <2>1. Count(o)' = Count(o) + 1 /\ \A p \in Outcomes \ {o} : Count(p)' = Count(p) + 0
    BY <1>3, <1>4, <1>5
  <2>2. events' \in Seq(EventType)' /\ NEvents' = NEvents + 1 /\ LastOutcome' = ev.outcome
        /\ NEvents \in Nat
    BY <1>1, <1>2 DEF NEvents, LastOutcome
  <2>3. \A p \in Outcomes : Count(p) \in Nat
    BY <1>2, <1>4, OutcomeFinite
  <2> QED
    BY <2>1, <2>2, <2>3 DEF OneMore

\* An event that is counted as what it is keeps the counts.
LEMMA CountsKept ==
    ASSUME Counts, CountsNatural, NEW o \in Outcomes, OneMore(o),
           NEvents \in Nat, NEvents' = NEvents + 1,
           nPassed' = IF o = "simulated" THEN nPassed + 1 ELSE nPassed,
           nSkipped' = IF o \in {"filtered", "reopened"} THEN nSkipped + 1 ELSE nSkipped
    PROVE  Counts'
<1>1. CASE o = "simulated"
  <2>1. /\ Count("simulated")' = Count("simulated") + 1
        /\ Count("filtered")' = Count("filtered")
        /\ Count("reopened")' = Count("reopened")
        /\ Count("atEnd")' = Count("atEnd")
        /\ Count("endRun")' = Count("endRun")
        /\ Count("empty")' = Count("empty")
    BY <1>1, Zenon DEF OneMore, Outcomes
  <2>2. nPassed' = nPassed + 1 /\ nSkipped' = nSkipped
    BY <1>1
  <2> QED
    BY <2>1, <2>2 DEF Counts, CountsNatural
<1>2. CASE o = "filtered"
  <2>1. /\ Count("simulated")' = Count("simulated")
        /\ Count("filtered")' = Count("filtered") + 1
        /\ Count("reopened")' = Count("reopened")
        /\ Count("atEnd")' = Count("atEnd")
        /\ Count("endRun")' = Count("endRun")
        /\ Count("empty")' = Count("empty")
    BY <1>2, Zenon DEF OneMore, Outcomes
  <2>2. nPassed' = nPassed /\ nSkipped' = nSkipped + 1
    BY <1>2
  <2> QED
    BY <2>1, <2>2 DEF Counts, CountsNatural
<1>3. CASE o = "reopened"
  <2>1. /\ Count("simulated")' = Count("simulated")
        /\ Count("filtered")' = Count("filtered")
        /\ Count("reopened")' = Count("reopened") + 1
        /\ Count("atEnd")' = Count("atEnd")
        /\ Count("endRun")' = Count("endRun")
        /\ Count("empty")' = Count("empty")
    BY <1>3, Zenon DEF OneMore, Outcomes
  <2>2. nPassed' = nPassed /\ nSkipped' = nSkipped + 1
    BY <1>3
  <2> QED
    BY <2>1, <2>2 DEF Counts, CountsNatural
<1>4. CASE o = "atEnd"
  <2>1. /\ Count("simulated")' = Count("simulated")
        /\ Count("filtered")' = Count("filtered")
        /\ Count("reopened")' = Count("reopened")
        /\ Count("atEnd")' = Count("atEnd") + 1
        /\ Count("endRun")' = Count("endRun")
        /\ Count("empty")' = Count("empty")
    BY <1>4, Zenon DEF OneMore, Outcomes
  <2>2. nPassed' = nPassed /\ nSkipped' = nSkipped
    BY <1>4
  <2> QED
    BY <2>1, <2>2 DEF Counts, CountsNatural
<1>5. CASE o = "endRun"
  <2>1. /\ Count("simulated")' = Count("simulated")
        /\ Count("filtered")' = Count("filtered")
        /\ Count("reopened")' = Count("reopened")
        /\ Count("atEnd")' = Count("atEnd")
        /\ Count("endRun")' = Count("endRun") + 1
        /\ Count("empty")' = Count("empty")
    BY <1>5, Zenon DEF OneMore, Outcomes
  <2>2. nPassed' = nPassed /\ nSkipped' = nSkipped
    BY <1>5
  <2> QED
    BY <2>1, <2>2 DEF Counts, CountsNatural
<1>6. CASE o = "empty"
  <2>1. /\ Count("simulated")' = Count("simulated")
        /\ Count("filtered")' = Count("filtered")
        /\ Count("reopened")' = Count("reopened")
        /\ Count("atEnd")' = Count("atEnd")
        /\ Count("endRun")' = Count("endRun")
        /\ Count("empty")' = Count("empty") + 1
    BY <1>6, Zenon DEF OneMore, Outcomes
  <2>2. nPassed' = nPassed /\ nSkipped' = nSkipped
    BY <1>6
  <2> QED
    BY <2>1, <2>2 DEF Counts, CountsNatural
<1> QED
  BY <1>1, <1>2, <1>3, <1>4, <1>5, <1>6 DEF Outcomes

\* The counts stay as they are with the events.
LEMMA EventsKept ==
    ASSUME UNCHANGED <<events, nPassed, nSkipped>>
    PROVE  /\ \A p : Count(p)' = Count(p)
           /\ NEvents' = NEvents /\ LastOutcome' = LastOutcome
           /\ Counts => Counts'
  BY DEF Count, With, NEvents, LastOutcome, Counts

\* What reading the entry i, within the file, keeps.
LEMMA ReadSingleEventKeeps ==
    ASSUME IInv, AtEvent, NEW i \in 0..(nEventsInFile - 1), ReadSingleEvent(i),
           UNCHANGED <<hasReader, eof>>
    PROVE  IInv'
<1> USE DEF Outcomes
<1>1. /\ nEventsInFile \in Nat /\ i + 1 \in 0..nEventsInFile
      /\ cfg' = cfg /\ nEventsInFile' = nEventsInFile
  BY DEF ReadSingleEvent, FinishEvent, nEventsInFile
<1>2. PICK o \in {"simulated", "filtered"} :
         /\ events' = Append(events, [entry |-> i + 1, run |-> nRuns, outcome |-> o])
         /\ nPassed' = IF o = "simulated" THEN nPassed + 1 ELSE nPassed
         /\ nSkipped' = IF o \in {"filtered", "reopened"} THEN nSkipped + 1 ELSE nSkipped
         /\ FinishEvent(i + 1, o)
  <2>1. CASE cfg.passes[i + 1]
    BY <2>1 DEF ReadSingleEvent, FinishEvent
  <2>2. CASE ~cfg.passes[i + 1]
    BY <2>2 DEF ReadSingleEvent, FinishEvent
  <2> QED
    BY <2>1, <2>2
<1>3. /\ events' \in Seq(EventType)' /\ NEvents \in Nat /\ NEvents' = NEvents + 1
      /\ OneMore(o)
  BY <1>1, <1>2, EventAdded DEF IInv
<1>4. CountsNatural
  BY CountsAreNumbers DEF IInv
<1>5. Types'
  BY <1>1, <1>2, <1>3 DEF IInv, Types, FinishEvent, AtEvent, FileInv, AfterRun,
     ReadSingleEvent
<1>6. Counts'
  <2>1. Counts /\ o \in Outcomes
    BY DEF IInv
  <2> QED
    BY <1>2, <1>3, <1>4, <2>1, CountsKept
<1>7. FileInv'
  BY <1>1, <1>2 DEF IInv, Types, FileInv, AtEvent, FinishEvent, AfterRun
<1>8. BatchInv'
  BY <1>1, <1>2, <1>3, <1>4 DEF IInv, Types, BatchInv, AtEvent, FinishEvent, AfterRun,
     OneMore
<1>9. CrashOnlyPastOnePass'
  BY <1>2 DEF FinishEvent, AfterRun, CrashOnlyPastOnePass
<1> QED
  BY <1>5, <1>6, <1>7, <1>8, <1>9 DEF IInv

LEMMA ReadEntryKeeps == ASSUME IInv, ReadEntry PROVE IInv'
<1>1. index \in 0..(nEventsInFile - 1)
  BY OptionFacts DEF IInv, Types, ReadEntry, AtEnd
<1> QED
  BY <1>1, ReadSingleEventKeeps DEF ReadEntry

LEMMA LoopSamplerKeeps == ASSUME IInv, LoopSampler PROVE IInv'
<1>1. 0 \in 0..(nEventsInFile - 1)
  BY OptionFacts DEF IInv, Types, LoopSampler, Loops, OKToLoopFile, FileInv
<1> QED
  BY <1>1, ReadSingleEventKeeps DEF LoopSampler

LEMMA LoopHEPMCKeeps == ASSUME IInv, LoopHEPMC PROVE IInv'
<1>1. nEventsInFile \in Nat /\ cfg' = cfg /\ nEventsInFile' = nEventsInFile
  BY DEF nEventsInFile, LoopHEPMC, FinishEvent
<1>2. /\ events' \in Seq(EventType)' /\ NEvents \in Nat /\ NEvents' = NEvents + 1
      /\ LastOutcome' = "reopened"
      /\ OneMore("reopened")
  <2>1. events' = Append(events, [entry |-> 0, run |-> nRuns, outcome |-> "reopened"])
    BY Zenon DEF LoopHEPMC, FinishEvent
  <2>2. 0 \in 0..nEventsInFile /\ "reopened" \in Outcomes
    BY <1>1 DEF Outcomes
  <2> QED
    BY <1>1, <2>1, <2>2, EventAdded DEF IInv
<1>3. CountsNatural
  BY CountsAreNumbers DEF IInv
<1>4. Types'
  BY <1>1, <1>2 DEF Types, FileInv, AfterRun, IInv, LoopHEPMC, FinishEvent, AtEvent
<1>5. Counts'
  <2>1. nPassed' = nPassed /\ nSkipped' = nSkipped + 1
    BY DEF LoopHEPMC
  <2>2. "reopened" \in Outcomes
    BY DEF Outcomes
  <2> QED
    BY <1>2, <1>3, <2>1, <2>2, CountsKept DEF IInv
<1>6. FileInv'
  BY <1>1 DEF Types, FileInv, AfterRun, loopFile, IInv, LoopHEPMC, FinishEvent
<1>7. BatchInv'
  <2>1. Count("endRun")' = Count("endRun") /\ Count("atEnd")' = Count("atEnd")
        /\ Count("empty")' = Count("empty")
    BY <1>2, Zenon DEF OneMore, Outcomes
  <2>2. /\ nToDo \in Nat /\ nToDo > 0 /\ nGenerate \in Int /\ nPassed \in Nat
        /\ BatchInv /\ Counts
    BY DEF IInv, Types, FileInv, LoopHEPMC, AtEvent
  <2>3. /\ NEvents \in Nat /\ NEvents' = NEvents + 1 /\ LastOutcome' = "reopened"
        /\ pc = "event" /\ nToDo' = nToDo - 1 /\ nGenerate' = nGenerate
        /\ pc' = IF nToDo > 1 THEN "event" ELSE AfterRun
        /\ ~eof /\ eof' = FALSE
    BY <1>2, <2>2 DEF LoopHEPMC, FinishEvent, AtEvent
  <2> QED
    BY <1>1, <1>3, <2>1, <2>2, <2>3 DEF BatchInv, AfterRun
<1>8. CrashOnlyPastOnePass'
  BY DEF CrashOnlyPastOnePass, AfterRun, LoopHEPMC, FinishEvent
<1> QED
  BY <1>4, <1>5, <1>6, <1>7, <1>8 DEF IInv

LEMMA ReachEndKeeps == ASSUME IInv, ReachEnd PROVE IInv'
<1>1. nEventsInFile \in Nat /\ cfg' = cfg /\ nEventsInFile' = nEventsInFile
  BY DEF nEventsInFile, ReachEnd, FinishEvent
<1>2. /\ events' \in Seq(EventType)' /\ NEvents \in Nat /\ NEvents' = NEvents + 1
      /\ LastOutcome' = "atEnd"
      /\ OneMore("atEnd")
  <2>1. events' = Append(events, [entry |-> 0, run |-> nRuns, outcome |-> "atEnd"])
    BY Zenon DEF ReachEnd, FinishEvent
  <2>2. 0 \in 0..nEventsInFile /\ "atEnd" \in Outcomes
    BY <1>1 DEF Outcomes
  <2> QED
    BY <1>1, <2>1, <2>2, EventAdded DEF IInv
<1>3. CountsNatural
  BY CountsAreNumbers DEF IInv
<1>4. Types'
  <2>1. /\ index' \in Nat /\ (cfg.kind = "hepmc" => index' <= nEventsInFile)
        /\ hasReader' \in BOOLEAN /\ eof' \in BOOLEAN
    <3>1. CASE cfg.kind = "hepmc"
      <4>1. index' = 0
        BY <3>1 DEF ReachEnd
      <4>2. index' \in Nat /\ index' <= nEventsInFile
        BY <1>1, <4>1
      <4>3. hasReader' = FALSE /\ eof' = TRUE
        BY <3>1 DEF ReachEnd
      <4> QED
        BY <4>2, <4>3, Zenon
    <3>2. CASE cfg.kind # "hepmc"
      BY <1>1, <3>2 DEF IInv, Types, ReachEnd
    <3> QED
      BY <3>1, <3>2
  <2>2. pc' \in {"event", "idle", "done"} /\ nToDo' \in Nat
    BY DEF IInv, Types, FileInv, ReachEnd, FinishEvent, AfterRun, AtEvent
  <2> QED
    BY <1>1, <1>2, <2>1, <2>2 DEF IInv, Types, ReachEnd, FinishEvent
<1>5. Counts'
  <2>1. nPassed' = nPassed /\ nSkipped' = nSkipped
    BY DEF ReachEnd
  <2>2. "atEnd" \in Outcomes
    BY DEF Outcomes
  <2> QED
    BY <1>2, <1>3, <2>1, <2>2, CountsKept DEF IInv
<1>6. FileInv'
  BY <1>1 DEF Types, FileInv, AfterRun, loopFile, IInv, ReachEnd, FinishEvent, Loops,
     OKToLoopFile
<1>7. BatchInv'
  <2>1. Count("endRun")' = Count("endRun") /\ Count("atEnd")' = Count("atEnd") + 1
        /\ Count("empty")' = Count("empty")
    BY <1>2, Zenon DEF OneMore, Outcomes
  <2>2. /\ nToDo \in Nat /\ nToDo > 0 /\ nGenerate \in Int /\ nPassed \in Nat
        /\ BatchInv /\ Counts
    BY DEF IInv, Types, FileInv, ReachEnd, AtEvent
  <2>3. /\ NEvents \in Nat /\ NEvents' = NEvents + 1 /\ LastOutcome' = "atEnd"
        /\ pc = "event" /\ nToDo' = nToDo - 1 /\ nGenerate' = nGenerate
        /\ pc' = IF nToDo > 1 THEN "event" ELSE AfterRun
        /\ ~eof /\ eof' = TRUE
    BY <1>2, <2>2 DEF ReachEnd, FinishEvent, AtEvent
  <2> QED
    BY <1>1, <1>3, <2>1, <2>2, <2>3 DEF BatchInv, AfterRun
<1>8. CrashOnlyPastOnePass'
  BY DEF CrashOnlyPastOnePass, AfterRun, ReachEnd, FinishEvent
<1> QED
  BY <1>4, <1>5, <1>6, <1>7, <1>8 DEF IInv

LEMMA EndRunKeeps == ASSUME IInv, EndRun PROVE IInv'
<1> USE DEF IInv, EndRun, FinishEvent, Outcomes, EndsRun, file
<1>1. nEventsInFile \in Nat /\ cfg' = cfg /\ nEventsInFile' = nEventsInFile
  BY DEF nEventsInFile
<1>2. /\ events' \in Seq(EventType)' /\ NEvents \in Nat /\ NEvents' = NEvents + 1
      /\ LastOutcome' = "endRun"
      /\ OneMore("endRun")
  <2>1. events' = Append(events, [entry |-> 0, run |-> nRuns, outcome |-> "endRun"])
    BY Zenon
  <2>2. 0 \in 0..nEventsInFile /\ "endRun" \in Outcomes
    BY <1>1
  <2> QED
    BY <1>1, <2>1, <2>2, EventAdded
<1>3. CountsNatural
  BY CountsAreNumbers
<1>4. Types'
  BY <1>1, <1>2 DEF Types, AfterRun
<1>5. Counts'
  <2>1. nPassed' = nPassed /\ nSkipped' = nSkipped
    OBVIOUS
  <2>2. "endRun" \in Outcomes
    OBVIOUS
  <2> QED
    BY <1>2, <1>3, <2>1, <2>2, CountsKept
<1>6. FileInv'
  BY <1>1 DEF FileInv, AfterRun, loopFile
<1>7. BatchInv'
  <2>1. Count("endRun")' = Count("endRun") + 1 /\ Count("atEnd")' = Count("atEnd")
        /\ Count("empty")' = Count("empty")
    BY <1>2, Zenon DEF OneMore
  <2>2. nToDo \in Nat /\ nToDo > 0 /\ nGenerate \in Int /\ nPassed \in Nat
    BY DEF Types, FileInv
  <2>3. NEvents \in Nat /\ NEvents' = NEvents + 1 /\ LastOutcome' = "endRun"
    BY <1>2
  <2> QED
    BY <1>1, <1>3, <2>1, <2>2, <2>3 DEF BatchInv, AfterRun
<1>8. CrashOnlyPastOnePass'
  BY DEF CrashOnlyPastOnePass, AfterRun
<1> QED
  BY <1>4, <1>5, <1>6, <1>7, <1>8

LEMMA EmptyEventKeeps == ASSUME IInv, EmptyEvent PROVE IInv'
<1>1. nEventsInFile \in Nat /\ cfg' = cfg /\ nEventsInFile' = nEventsInFile
  BY DEF nEventsInFile, EmptyEvent, FinishEvent
<1>2. /\ events' \in Seq(EventType)' /\ NEvents \in Nat /\ NEvents' = NEvents + 1
      /\ LastOutcome' = "empty"
      /\ OneMore("empty")
  <2>1. events' = Append(events, [entry |-> 0, run |-> nRuns, outcome |-> "empty"])
    BY Zenon DEF EmptyEvent, FinishEvent
  <2>2. 0 \in 0..nEventsInFile /\ "empty" \in Outcomes
    BY <1>1 DEF Outcomes
  <2> QED
    BY <1>1, <2>1, <2>2, EventAdded DEF IInv
<1>3. CountsNatural
  BY CountsAreNumbers DEF IInv
<1>4. Types'
  BY <1>1, <1>2 DEF Types, FileInv, AfterRun, IInv, EmptyEvent, FinishEvent, file
<1>5. Counts'
  <2>1. nPassed' = nPassed /\ nSkipped' = nSkipped
    BY DEF EmptyEvent
  <2>2. "empty" \in Outcomes
    BY DEF Outcomes
  <2> QED
    BY <1>2, <1>3, <2>1, <2>2, CountsKept DEF IInv
<1>6. FileInv'
  BY <1>1 DEF Types, FileInv, AfterRun, loopFile, IInv, EmptyEvent, FinishEvent
<1>7. BatchInv'
  <2>1. Count("endRun")' = Count("endRun") /\ Count("atEnd")' = Count("atEnd")
        /\ Count("empty")' = Count("empty") + 1
    BY <1>2, Zenon DEF OneMore, Outcomes
  <2>2. /\ nToDo \in Nat /\ nToDo > 0 /\ nGenerate \in Int /\ nPassed \in Nat
        /\ BatchInv /\ Counts
    BY DEF IInv, Types, FileInv, EmptyEvent
  <2>3. /\ NEvents \in Nat /\ NEvents' = NEvents + 1 /\ LastOutcome' = "empty"
        /\ pc = "event" /\ nToDo' = nToDo - 1 /\ nGenerate' = nGenerate
        /\ pc' = IF nToDo > 1 THEN "event" ELSE AfterRun
        /\ eof /\ eof' = TRUE /\ (cfg.batch => nPassed >= nGenerate)
    BY <1>2, <2>2 DEF EmptyEvent, FinishEvent, EndsRun, file
  <2> QED
    BY <1>1, <1>3, <2>1, <2>2, <2>3 DEF Counts, CountsNatural, BatchInv
<1>8. CrashOnlyPastOnePass'
  BY DEF CrashOnlyPastOnePass, AfterRun, EmptyEvent, FinishEvent
<1> QED
  BY <1>4, <1>5, <1>6, <1>7, <1>8 DEF IInv

-----------------------------------------------------------------------------
\* SkipEvents puts the index of a HepMC file within the file, and of either at a
\* natural number.
LEMMA SkipHasType ==
    ASSUME cfg \in Configs, NEW n \in Nat
    PROVE  NToSkipSinglePass(n) \in Nat
<1>1. CASE n = 0
  BY <1>1 DEF NToSkipSinglePass
<1>2. CASE n > 0
  BY <1>2, OptionFacts DEF NToSkipSinglePass
<1> QED
  BY <1>1, <1>2

FileType == [index : Nat, hasReader : BOOLEAN, eof : BOOLEAN]
\* A HepMC file is within itself and is null once its end has been reached;
\* a sampler file's reader is never deleted.
Sound(f) ==
    /\ f \in FileType
    /\ cfg.kind = "hepmc" => f.index <= nEventsInFile
    /\ cfg.kind = "sampler" => f.hasReader

LEMMA ReadOnSound ==
    ASSUME cfg \in Configs, NEW f, Sound(f), cfg.kind = "hepmc", NEW k \in Nat
    PROVE  Sound(ReadOn(f, k))
<1> USE OptionFacts DEF Sound, FileType, FileState, CrashState
<1>1. CASE k = 0
  BY <1>1 DEF ReadOn
<1>2. CASE k > 0 /\ (~f.hasReader \/ f.index + k > nEventsInFile + 1)
  BY <1>2 DEF ReadOn
<1>3. CASE k > 0 /\ f.hasReader /\ f.index + k <= nEventsInFile
  BY <1>3 DEF ReadOn
<1>4. CASE k > 0 /\ f.hasReader /\ f.index + k = nEventsInFile + 1
  BY <1>4 DEF ReadOn
<1> QED
  BY <1>1, <1>2, <1>3, <1>4

LEMMA SkipEventsSound ==
    ASSUME cfg \in Configs, NEW f, Sound(f), NEW n \in Nat
    PROVE  Sound(SkipEvents(f, n))
<1>1. CASE cfg.kind = "hepmc"
  BY <1>1, SkipHasType, ReadOnSound DEF SkipEvents
<1>2. CASE cfg.kind = "sampler"
  BY <1>2, SkipHasType DEF SkipEvents, Sound, FileType
<1> QED
  BY <1>1, <1>2, OptionFacts

LEMMA ConstructedSound == ASSUME cfg \in Configs PROVE Sound(Constructed)
<1>1. Sound(Opened)
  BY OptionFacts DEF Opened, Sound, FileType, FileState
<1> QED
  BY <1>1, OptionFacts, SkipEventsSound DEF Constructed

\* As long as the entries skipped, by the option and in recreating, are within
\* the file, no entry is read past its end.
LEMMA WithinTheFile ==
    ASSUME cfg \in Configs, cfg.kind = "hepmc",
           NToSkipSinglePass(cfg.nEventsSkip)
             + (IF cfg.recreate THEN NToSkipSinglePass(cfg.startFromEvent) ELSE 0) <= nEventsInFile
    PROVE  Constructed.hasReader
<1> DEFINE a == NToSkipSinglePass(cfg.nEventsSkip)
           b == NToSkipSinglePass(cfg.startFromEvent)
<1>1. a \in Nat /\ b \in Nat /\ nEventsInFile \in Nat /\ cfg.recreate \in BOOLEAN
  BY OptionFacts, SkipHasType
<1> HIDE DEF a, b
<1>2. \A k, l \in Nat : k + l <= nEventsInFile =>
         ReadOn(FileState(k, TRUE, FALSE), l) = FileState(k + l, TRUE, FALSE)
  <2> SUFFICES ASSUME NEW k \in Nat, NEW l \in Nat, k + l <= nEventsInFile
               PROVE  ReadOn(FileState(k, TRUE, FALSE), l) = FileState(k + l, TRUE, FALSE)
    OBVIOUS
  <2> DEFINE f == FileState(k, TRUE, FALSE)
  <2>1. f.index = k /\ f.hasReader
    BY DEF FileState
  <2>2. CASE l = 0
    <3>1. k + l = k
      BY <2>2
    <3>2. ReadOn(f, l) = f
      BY <2>2 DEF ReadOn
    <3> QED
      BY <3>1, <3>2
  <2>3. CASE l > 0
    <3> HIDE DEF f
    <3>1. /\ l # 0 /\ k + l <= nEventsInFile /\ k + l # nEventsInFile + 1
          /\ ~(k + l > nEventsInFile + 1)
      BY <1>1, <2>3
    <3>2. ReadOn(f, l) = FileState(k + l, TRUE, FALSE)
      BY <2>1, <2>3, <3>1, Zenon DEF ReadOn
    <3> QED
      BY <3>2 DEF f
  <2>4. l = 0 \/ l > 0
    OBVIOUS
  <2> QED
    BY <2>2, <2>3, <2>4, Zenon
<1>3. a <= nEventsInFile /\ (cfg.recreate => a + b <= nEventsInFile)
  BY <1>1 DEF a, b
<1>4. SkipEvents(Opened, cfg.nEventsSkip) = FileState(a, TRUE, FALSE)
  <2>1. SkipEvents(Opened, cfg.nEventsSkip) = ReadOn(FileState(0, TRUE, FALSE), a)
    BY DEF SkipEvents, Opened, a
  <2>2. 0 \in Nat /\ 0 + a = a /\ 0 + a <= nEventsInFile
    BY <1>1, <1>3
  <2> QED
    BY <1>1, <1>2, <2>1, <2>2
<1>5. cfg.recreate => SkipEvents(FileState(a, TRUE, FALSE), cfg.startFromEvent)
                        = FileState(a + b, TRUE, FALSE)
  BY <1>1, <1>2, <1>3 DEF SkipEvents, b
<1> QED
  BY <1>4, <1>5 DEF Constructed, FileState

\* Reading through the null reader takes a looped HepMC file and more entries to
\* skip than it has: what is left of a number by the length of one pass is less
\* than half the pass.
LEMMA CrashMeansPastOnePass ==
    ASSUME cfg \in Configs, ~Refused, Constructed = CrashState
    PROVE  /\ cfg.kind = "hepmc" /\ cfg.distrFileLoopNTimes > 1
           /\ cfg.nEventsSkip + (IF cfg.recreate THEN cfg.startFromEvent ELSE 0) > nEventsInFile
<1> DEFINE a == NToSkipSinglePass(cfg.nEventsSkip)
           b == NToSkipSinglePass(cfg.startFromEvent)
<1>1. ~Constructed.hasReader
  BY DEF CrashState, FileState
<1>2. cfg.kind = "hepmc"
  BY <1>1, ConstructedSound, OptionFacts DEF Sound
<1>3. /\ a \in Nat /\ b \in Nat /\ nEventsInFile \in Nat /\ nAvailable \in Nat
      /\ cfg.nEventsSkip \in Nat /\ cfg.startFromEvent \in Nat
      /\ cfg.distrFileLoopNTimes \in Nat \ {0} /\ cfg.recreate \in BOOLEAN
  BY OptionFacts, SkipHasType
<1>4. a + (IF cfg.recreate THEN b ELSE 0) > nEventsInFile
  BY <1>1, <1>2, <1>3, WithinTheFile
<1>5. a <= cfg.nEventsSkip /\ b <= cfg.startFromEvent
  BY <1>3 DEF NToSkipSinglePass
<1>6. cfg.distrFileLoopNTimes # 1
  <2> SUFFICES ASSUME cfg.distrFileLoopNTimes = 1 PROVE FALSE
    OBVIOUS
  <2>1. nAvailable = nEventsInFile
    BY <1>3 DEF nAvailable
  <2>2. cfg.nEventsSkip <= nEventsInFile /\ (cfg.recreate => cfg.startFromEvent <= nEventsInFile)
    BY <1>3, <2>1 DEF Refused
  <2>3. 2 * a <= nEventsInFile
    BY <1>3, <2>1, <2>2 DEF NToSkipSinglePass
  <2>4. cfg.recreate => 2 * b <= nEventsInFile
    BY <1>3, <2>1, <2>2 DEF NToSkipSinglePass
  <2> HIDE DEF a, b
  <2> QED
    BY <1>3, <1>4, <2>3, <2>4
<1> HIDE DEF a, b
<1> QED
  BY <1>2, <1>3, <1>4, <1>5, <1>6

LEMMA ConstructKeeps == ASSUME IInv, Construct PROVE IInv'
<1>1. Constructed.index \in Nat /\ (cfg.kind = "hepmc" => Constructed.index <= nEventsInFile)
      /\ Constructed.hasReader \in BOOLEAN /\ Constructed.eof \in BOOLEAN
  BY ConstructedSound DEF IInv, Types, Sound, FileType
<1>2. cfg' = cfg /\ nEventsInFile' = nEventsInFile /\ EventType' = EventType
  BY DEF Construct, nEventsInFile, EventType
<1>3. nGenerate' \in Int
  <2>1. index' \in Nat
    BY <1>1 DEF Construct
  <2>2. MatchedNGenerate(index') \in Int
    BY <2>1, OptionFacts DEF MatchedNGenerate, IInv, Types
  <2> QED
    BY <2>2, OptionFacts DEF Construct, IInv, Types
<1>4. Types'
  BY <1>1, <1>2, <1>3 DEF IInv, Types, Construct
<1>5. Counts' /\ NEvents' = NEvents /\ LastOutcome' = LastOutcome
  BY EventsKept DEF Construct, IInv
<1>6. FileInv'
  <2>1. nEventsInFile' = nEventsInFile /\ nPassed' = nPassed /\ pc' = "idle"
    BY <1>2 DEF Construct
  <2>2. nPassed = 0
    BY DEF IInv, FileInv, Construct
  <2> QED
    BY <2>1, <2>2 DEF FileInv
<1>7. BatchInv'
  BY <1>2, <1>5, EventsKept DEF IInv, FileInv, BatchInv, Construct
<1> QED
  BY <1>4, <1>5, <1>6, <1>7 DEF IInv, CrashOnlyPastOnePass, Construct

LEMMA ConstructEndsKeeps == ASSUME IInv, ConstructFails \/ ConstructCrashes PROVE IInv'
<1>1. /\ UNCHANGED <<cfg, file, nPassed, nSkipped, nGenerate, nToDo, nRuns, events>>
      /\ pc = "construct" /\ pc' \in {"failed", "crashed"}
      /\ pc' = "crashed" => ~Refused /\ Constructed = CrashState
  BY DEF ConstructFails, ConstructCrashes
<1>2. Types'
  BY <1>1 DEF IInv, Types, EventType, nEventsInFile, file
<1>3. Counts'
  BY <1>1, EventsKept DEF IInv
<1>4. FileInv'
  BY <1>1 DEF IInv, FileInv
<1>5. BatchInv'
  BY <1>1, EventsKept DEF IInv, BatchInv, file
<1>6. CrashOnlyPastOnePass'
  <2>1. pc' = "crashed" => cfg \in Configs /\ ~Refused /\ Constructed = CrashState
    BY <1>1 DEF IInv, Types
  <2> QED
    BY <1>1, <2>1, CrashMeansPastOnePass DEF CrashOnlyPastOnePass, nEventsInFile
<1> QED
  BY <1>2, <1>3, <1>4, <1>5, <1>6 DEF IInv

\* A run begins with the events it has to process.
LEMMA BeamOnKeeps ==
    ASSUME IInv, NEW n \in Nat, BeamOn(n), cfg.batch => n = IF nGenerate > 0 THEN nGenerate ELSE 0
    PROVE  IInv'
<1>1. /\ UNCHANGED <<cfg, file, nPassed, nSkipped, nGenerate, events>>
      /\ pc = "idle" /\ nRuns' = nRuns + 1 /\ nToDo' = n
      /\ pc' = IF n > 0 THEN "event" ELSE "done"
  BY DEF BeamOn
<1>2. Types'
  BY <1>1 DEF IInv, Types, EventType, nEventsInFile, file
<1>3. Counts'
  BY <1>1, EventsKept DEF IInv
<1>4. FileInv'
  BY <1>1 DEF IInv, FileInv, nEventsInFile, loopFile, file
<1>5. BatchInv'
  <2>1. eof' = eof
    BY <1>1 DEF file
  <2>2. BatchInv /\ nGenerate \in Int
    BY DEF IInv, Types
  <2> QED
    BY <1>1, <2>1, <2>2, EventsKept DEF BatchInv
<1> QED
  BY <1>1, <1>2, <1>3, <1>4, <1>5 DEF IInv, CrashOnlyPastOnePass

LEMMA BatchBeamOnKeeps == ASSUME IInv, BatchBeamOn PROVE IInv'
<1>1. (IF nGenerate > 0 THEN nGenerate ELSE 0) \in Nat
  BY DEF IInv, Types
<1> QED
  BY <1>1, BeamOnKeeps DEF BatchBeamOn

LEMMA InteractiveBeamOnKeeps == ASSUME IInv, InteractiveBeamOn PROVE IInv'
<1>1. PICK n \in BeamOns : BeamOn(n)
  BY DEF InteractiveBeamOn
<1>2. n \in Nat /\ ~cfg.batch
  BY BoundAssumption DEF InteractiveBeamOn
<1> QED
  BY <1>1, <1>2, BeamOnKeeps

LEMMA QuitKeeps == ASSUME IInv, Quit PROVE IInv'
<1>1. /\ UNCHANGED <<cfg, file, nPassed, nSkipped, nGenerate, nToDo, nRuns, events>>
      /\ ~cfg.batch /\ pc' = "done"
  BY DEF Quit
<1>2. Types'
  BY <1>1 DEF IInv, Types, EventType, nEventsInFile, file
<1>3. Counts'
  BY <1>1, EventsKept DEF IInv
<1>4. FileInv'
  BY <1>1 DEF IInv, FileInv, nEventsInFile, loopFile, file
<1> QED
  BY <1>1, <1>2, <1>3, <1>4 DEF IInv, CrashOnlyPastOnePass, BatchInv

LEMMA StutterKeeps == ASSUME IInv, UNCHANGED vars PROVE IInv'
<1> USE DEF vars, file
<1>1. Types'
  BY DEF IInv, Types, EventType, nEventsInFile
<1>2. Counts' /\ BatchInv'
  BY EventsKept DEF IInv, BatchInv
<1>3. FileInv'
  BY DEF IInv, FileInv, nEventsInFile, loopFile
<1>4. CrashOnlyPastOnePass'
  BY DEF IInv, CrashOnlyPastOnePass, nEventsInFile
<1> QED
  BY <1>1, <1>2, <1>3, <1>4 DEF IInv

LEMMA InitHolds == Init => IInv
<1> SUFFICES ASSUME Init PROVE IInv
  OBVIOUS
<1>1. \A o : With(o) = {}
  BY DEF Init, With
<1>2. \A o : Count(o) = 0
  BY <1>1, FS_EmptySet DEF Count
<1>3. NEvents = 0 /\ events \in Seq(EventType)
  BY DEF Init, NEvents
<1>4. Types
  <2>1. cfg \in Configs /\ index = 0 /\ nGenerate = cfg.nGenerate
    BY DEF Init
  <2>2. nGenerate \in Int /\ index <= nEventsInFile
    BY <2>1, OptionFacts
  <2>3. nEventsInFile \in Nat /\ index \in Nat
    BY <2>1, OptionFacts
  <2>4. hasReader \in BOOLEAN /\ eof \in BOOLEAN
    BY DEF Init
  <2> QED
    BY <1>3, <2>1, <2>2, <2>3, <2>4 DEF Init, Types
<1>5. Counts
  BY <1>2, <1>3 DEF Init, Counts
<1>6. FileInv /\ BatchInv /\ CrashOnlyPastOnePass
  BY <1>2, <1>3 DEF Init, FileInv, BatchInv, CrashOnlyPastOnePass
<1> QED
  BY <1>4, <1>5, <1>6 DEF IInv

\* The inductive invariant holds in every state (Init, and one lemma an action).
THEOREM Invariant == Spec => []IInv
<1>1. IInv /\ [Next]_vars => IInv'
  <2> SUFFICES ASSUME IInv, [Next]_vars PROVE IInv'
    OBVIOUS
  <2> QED
    BY ConstructKeeps, ConstructEndsKeeps, BatchBeamOnKeeps, InteractiveBeamOnKeeps,
       QuitKeeps, ReadEntryKeeps, LoopSamplerKeeps, LoopHEPMCKeeps, ReachEndKeeps,
       EndRunKeeps, EmptyEventKeeps, StutterKeeps DEF Next, Terminated
<1> QED
  BY InitHolds, <1>1, PTL DEF Spec

\* Every variable has its type, and every event is counted as what it was: as
\* passed or skipped (nEventsReadThatPassedFilters, the bunch's
\* nEventsInFileSkipped), or as one of those at the end of the file.
THEOREM TypeCorrect == Spec => []TypeOK
<1>1. IInv => TypeOK
  BY TypeOKInParts DEF IInv
<1> QED
  BY Invariant, <1>1, PTL

\* A batch run is short only at the end of a file that is not looped, or of
\* which nothing passes, and two events at most are lost to it
\* (GeneratePrimaryVertex of BDSPrimaryGeneratorFile).
THEOREM ShortRunOnlyAtEndTheorem == Spec => []ShortRunOnlyAtEnd
<1>1. IInv => ShortRunOnlyAtEnd
  <2> SUFFICES ASSUME IInv, cfg.batch
               PROVE  /\ pc = "done" /\ Len(events) < nGenerate =>
                           /\ eof
                           /\ loopFile => With("simulated") = {}
                           /\ events[Len(events)].outcome = "endRun"
                      /\ Count("atEnd") <= 1 /\ Count("endRun") <= 1
                      /\ With("empty") = {}
    BY DEF ShortRunOnlyAtEnd, Count
  <2>1. Count("atEnd") <= 1 /\ Count("endRun") <= 1 /\ Count("empty") = 0
    BY DEF IInv, BatchInv
  <2>2. \A o : IsFiniteSet(With(o)) /\ (Count(o) = 0 => With(o) = {})
    <3>1. \A o : With(o) = OfOutcome(events, o)
      BY DEF With, OfOutcome
    <3>2. \A o : IsFiniteSet(OfOutcome(events, o))
      BY OutcomeFinite DEF IInv, Types
    <3> QED
      BY <3>1, <3>2, FS_EmptySet DEF Count
  <2>3. eof /\ loopFile => Count("simulated") = 0
    BY DEF IInv, FileInv, Counts
  <2>4. pc = "done" /\ NEvents < nGenerate => eof /\ LastOutcome = "endRun"
    BY DEF IInv, BatchInv
  <2> QED
    BY <2>1, <2>2, <2>3, <2>4 DEF NEvents, LastOutcome
<1> QED
  BY Invariant, <1>1, PTL

\* The reader that has been deleted is used only if the entries to skip are more
\* than one pass of a looped HepMC file (SkipEvents, RecreateAdvanceToEvent).
THEOREM CrashOnlyPastOnePassTheorem == Spec => []CrashOnlyPastOnePass
<1>1. IInv => CrashOnlyPastOnePass
  BY DEF IInv
<1> QED
  BY Invariant, <1>1, PTL

-----------------------------------------------------------------------------
(***************************************************************************)
(* The refinement of EventSource.  Besides the invariant: before the file  *)
(* is opened there are no events, and once an entry has passed the index   *)
(* is within the file, so that only an index at its end goes back.         *)
(***************************************************************************)
PlaceInv ==
    /\ pc = "construct" => events = <<>>
    /\ nPassed > 0 => index <= nEventsInFile

LEMMA NextPlaceInv ==
    ASSUME IInv, PlaceInv, [Next]_vars
    PROVE  PlaceInv'
<1>1. /\ cfg \in Configs /\ index \in Nat /\ nPassed \in Nat /\ nEventsInFile \in Nat
      /\ pc = "construct" => nPassed = 0
      /\ nPassed > 0 => nEventsInFile > 0
  BY OptionFacts DEF IInv, Types, FileInv
<1>2. ASSUME cfg' = cfg
      PROVE  nEventsInFile' = nEventsInFile
  BY <1>2 DEF nEventsInFile
<1>3. CASE Construct
  BY <1>1, <1>3 DEF Construct, PlaceInv
<1>4. CASE ConstructFails \/ ConstructCrashes
  BY <1>1, <1>4 DEF ConstructFails, ConstructCrashes, PlaceInv
<1>5. CASE BatchBeamOn \/ InteractiveBeamOn \/ Quit
  BY <1>2, <1>5 DEF BatchBeamOn, InteractiveBeamOn, BeamOn, Quit, PlaceInv, file
<1>6. CASE ReadEntry
  BY <1>1, <1>2, <1>6 DEF ReadEntry, AtEvent, AtEnd, ReadSingleEvent, FinishEvent, AfterRun, PlaceInv
<1>7. CASE LoopSampler
  <2>1. index' = 1 /\ nPassed > 0 /\ cfg' = cfg /\ pc' # "construct"
    BY <1>7 DEF LoopSampler, Loops, OKToLoopFile, ReadSingleEvent, FinishEvent, AfterRun
  <2> QED
    BY <1>1, <1>2, <2>1 DEF PlaceInv
<1>8. CASE LoopHEPMC \/ ReachEnd
  <2>1. (index' = 0 \/ index' = index) /\ cfg' = cfg /\ pc' # "construct" /\ nPassed' = nPassed
    BY <1>8 DEF LoopHEPMC, ReachEnd, FinishEvent, AfterRun
  <2> QED
    BY <1>1, <1>2, <2>1 DEF PlaceInv
<1>9. CASE EndRun \/ EmptyEvent
  BY <1>1, <1>2, <1>9 DEF EndRun, EmptyEvent, FinishEvent, AfterRun, PlaceInv, file
<1>10. CASE Terminated \/ UNCHANGED vars
  BY <1>2, <1>10 DEF Terminated, vars, file, PlaceInv
<1> QED
  BY <1>3, <1>4, <1>5, <1>6, <1>7, <1>8, <1>9, <1>10 DEF Next

THEOREM PlaceTheorem == Spec => []PlaceInv
<1>1. Init => PlaceInv
  BY DEF Init, PlaceInv
<1>2. IInv /\ PlaceInv /\ [Next]_vars => PlaceInv'
  BY NextPlaceInv
<1> QED
  BY <1>1, <1>2, Invariant, PTL DEF Spec

\* The entries, and the one to serve next.
LEMMA EntriesType ==
    ASSUME cfg \in Configs, index \in Nat
    PROVE  /\ Entries \in Seq(Nat) /\ Len(Entries) = nEventsInFile /\ nEventsInFile \in Nat
           /\ Entries = <<>> <=> nEventsInFile = 0
           /\ \A j \in 1..nEventsInFile : Entries[j] = j
           /\ nEventsInFile # 0 => NextEntry \in 1..Len(Entries)
<1> DEFINE n == nEventsInFile
<1>1. n \in Nat
  BY OptionFacts
<1>2. Entries = [j \in 1..n |-> j]
  BY DEF Entries
<1>3. NextEntry = IF n = 0 THEN 1 ELSE (index % n) + 1
  BY DEF NextEntry
<1> HIDE DEF n
<1>4. Entries \in Seq(Nat) /\ Len(Entries) = n
  BY <1>1, <1>2
<1>5. n # 0 => NextEntry \in 1..n
  BY <1>1, <1>3, DivMod
<1>6. \A j \in 1..n : Entries[j] = j
  BY <1>2
<1>7. Entries = <<>> <=> n = 0
  BY <1>1, <1>4
<1> QED
  BY <1>1, <1>4, <1>5, <1>6, <1>7 DEF n

\* An event appends its entry to those served, if it used one.
LEMMA ServedGrows ==
    ASSUME IInv, NEW e \in 0..nEventsInFile,
           \E ev : ev.entry = e /\ events' = Append(events, ev)
    PROVE  EntriesServed' = IF e = 0 THEN EntriesServed ELSE Append(EntriesServed, e)
<1> DEFINE k == Len(events)
           s == EntryOfEvent
           S == {i \in DOMAIN events : events[i].entry # 0}
<1>1. nEventsInFile \in Nat /\ events \in Seq(EventType)
  BY OptionFacts DEF IInv, Types
<1>2. PICK ev : ev.entry = e /\ events' = Append(events, ev)
  OBVIOUS
<1>3. /\ k \in Nat /\ DOMAIN events = 1..k /\ DOMAIN events' = 1..(k + 1)
      /\ \A i \in 1..k : events'[i] = events[i] /\ events[i] \in EventType
      /\ events'[k + 1] = ev
  BY <1>1, <1>2
<1>4. s = [i \in 1..k |-> events[i].entry] /\ s' = [i \in 1..(k + 1) |-> events'[i].entry]
  BY <1>3 DEF EntryOfEvent
<1>5. \A i \in 1..k : events[i].entry \in Nat
  BY <1>1, <1>3 DEF EventType
<1>6. s \in Seq(Nat) /\ Len(s) = k /\ DOMAIN s = 1..k
  BY <1>3, <1>4, <1>5
<1>7. e \in Nat
  BY <1>1
<1> HIDE DEF s, k
<1>8. s' = Append(s, e)
  <2> DEFINE a == Append(s, e)
             b == s'
  <2>1. a \in Seq(Nat) /\ DOMAIN a = 1..(k + 1) /\ a[k + 1] = e /\ \A i \in 1..k : a[i] = s[i]
    BY <1>6, <1>7
  <2>2. b = [i \in 1..(k + 1) |-> b[i]] /\ \A i \in 1..(k + 1) : b[i] = events'[i].entry
    BY <1>4
  <2>3. a = [i \in 1..(k + 1) |-> a[i]]
    <3> HIDE DEF a
    <3> QED
      BY <2>1
  <2>4. \A i \in 1..(k + 1) : a[i] = b[i]
    <3> TAKE i \in 1..(k + 1)
    <3>1. i \in 1..k \/ i = k + 1
      BY <1>3
    <3> HIDE DEF a, b
    <3> QED
      BY <1>2, <1>3, <1>4, <2>1, <2>2, <3>1
  <2> HIDE DEF a, b
  <2>5. a = b
    BY <2>2, <2>3, <2>4
  <2> QED
    BY <2>5 DEF a, b
<1>9. S' = IF e = 0 THEN S ELSE S \union {k + 1}
  <2>1. \A i \in 1..(k + 1) : i \in 1..k \/ i = k + 1
    BY <1>3
  <2>2. \A i \in 1..k : i \in 1..(k + 1)
    BY <1>3
  <2>3. k + 1 \in 1..(k + 1) /\ k + 1 \notin 1..k
    BY <1>3
  <2>4. S = {i \in 1..k : events[i].entry # 0} /\ S' = {i \in 1..(k + 1) : events'[i].entry # 0}
    BY <1>3
  <2> HIDE DEF S
  <2> QED
    BY <1>2, <1>3, <2>1, <2>2, <2>3, <2>4
<1>10. S \subseteq DOMAIN s
  BY <1>3, <1>6
<1>11. EntriesServed = AtPlaces(s, S) /\ EntriesServed' = AtPlaces(s', S')
  BY DEF EntriesServed, s
<1> HIDE DEF S
<1>12. AtPlaces(Append(s, e), S) = AtPlaces(s, S)
       /\ AtPlaces(Append(s, e), S \union {k + 1}) = Append(AtPlaces(s, S), e)
  <2>1. s \in Seq(Nat) /\ S \subseteq DOMAIN s /\ Len(s) = k
    BY <1>6, <1>10
  <2> DEFINE m == Len(s) + 1
  <2>2. s \in Seq(Nat) /\ S \subseteq DOMAIN s
    BY <1>6, <1>10
  <2>3. /\ AtPlaces(Append(s, e), S) = AtPlaces(s, S)
        /\ AtPlaces(Append(s, e), S \union {m}) = Append(AtPlaces(s, S), e)
    BY <1>7, <2>2, AtPlacesGrows
  <2> QED
    BY <2>1, <2>2, <2>3
<1> QED
  BY <1>8, <1>9, <1>11, <1>12

\* An event that uses the next entry serves it.
LEMMA ServeStep ==
    ASSUME IInv, cfg' = cfg, nEventsInFile > 0, NEW e \in 1..nEventsInFile, NextEntry = e,
           index' = e, \E ev : ev.entry = e /\ events' = Append(events, ev)
    PROVE  Source!Serve
<1>1. cfg \in Configs /\ nEventsInFile \in Nat /\ index \in Nat
  BY OptionFacts DEF IInv, Types
<1>2. Entries # <<>> /\ Entries[e] = e /\ Len(Entries) = nEventsInFile
  BY <1>1, EntriesType
<1>3. Entries' = Entries /\ nEventsInFile' = nEventsInFile
  BY DEF Entries, nEventsInFile
<1>4. EntriesServed' = Append(EntriesServed, Entries[NextEntry])
  <2>1. e \in 0..nEventsInFile /\ e # 0
    BY <1>1
  <2>2. EntriesServed' = IF e = 0 THEN EntriesServed ELSE Append(EntriesServed, e)
    BY <2>1, ServedGrows
  <2> QED
    BY <1>2, <2>1, <2>2
<1>5. NextEntry' = (NextEntry % Len(Entries)) + 1
  BY <1>1, <1>2, <1>3 DEF NextEntry
<1> QED
  BY <1>2, <1>3, <1>4, <1>5 DEF Source!Serve

\* An event that uses none, and leaves the next entry as it was, serves none.
LEMMA NoServeStep ==
    ASSUME IInv, cfg' = cfg, NextEntry' = NextEntry,
           \E ev : ev.entry = 0 /\ events' = Append(events, ev)
    PROVE  [Source!Next]_(Source!esVars)
<1>1. 0 \in 0..nEventsInFile
  BY OptionFacts DEF IInv, Types
<1>2. EntriesServed' = EntriesServed
  BY <1>1, ServedGrows
<1>3. Entries' = Entries
  BY DEF Entries, nEventsInFile
<1> QED
  BY <1>2, <1>3 DEF Source!esVars

LEMMA InitImplements ==
    ASSUME Init
    PROVE  Source!Init
<1>1. cfg \in Configs /\ index = 0 /\ events = <<>>
  BY DEF Init
<1>2. Entries \in Seq(Nat) /\ nEventsInFile \in Nat
  BY <1>1, EntriesType
<1>3. NextEntry = 1
  <2>1. nEventsInFile # 0 => 0 % nEventsInFile = 0
    BY <1>2, ModSmall
  <2> QED
    BY <1>1, <2>1 DEF NextEntry
<1>4. EntriesServed = <<>>
  <2>1. {i \in DOMAIN events : events[i].entry # 0} = {}
    BY <1>1
  <2> QED
    BY <2>1, AtPlacesNone DEF EntriesServed
<1> QED
  BY <1>2, <1>3, <1>4 DEF Source!Init

\* Opening the file, with what it skips, is a seek.
LEMMA ConstructImplements ==
    ASSUME IInv, PlaceInv, Construct
    PROVE  [Source!Next]_(Source!esVars)
<1>1. /\ cfg \in Configs /\ cfg' = cfg /\ index \in Nat /\ index' \in Nat
      /\ events = <<>> /\ events' = events
  BY ConstructedSound DEF Construct, IInv, Types, PlaceInv, Sound, FileType
<1>2. Entries' = Entries /\ nEventsInFile' = nEventsInFile /\ EntriesServed' = EntriesServed
  BY <1>1 DEF Entries, nEventsInFile, EntriesServed, EntryOfEvent
<1>3. EntriesServed = <<>>
  <2>1. {i \in DOMAIN events : events[i].entry # 0} = {}
    BY <1>1
  <2> QED
    BY <2>1, AtPlacesNone DEF EntriesServed
<1>4. CASE nEventsInFile = 0
  BY <1>2, <1>4 DEF NextEntry, Source!esVars
<1>5. CASE nEventsInFile # 0
  <2>1. NextEntry' \in 1..Len(Entries)
    <3>1. nEventsInFile \in Nat /\ Len(Entries) = nEventsInFile
      BY <1>1, EntriesType
    <3> DEFINE n == nEventsInFile
               a == index'
    <3>2. n \in Nat \ {0} /\ a \in Nat
      BY <1>1, <1>5, <3>1
    <3>3. NextEntry' = (a % n) + 1
      BY <1>2, <1>5 DEF NextEntry
    <3> HIDE DEF n, a
    <3>4. a % n \in 0..(n - 1)
      BY <3>2, DivMod
    <3>5. NextEntry' \in 1..n
      BY <3>2, <3>3, <3>4
    <3> QED
      BY <3>1, <3>5 DEF n
  <2>2. Source!Seek(NextEntry')
    BY <1>2, <1>3 DEF Source!Seek
  <2> QED
    BY <2>1, <2>2 DEF Source!Next
<1> QED
  BY <1>4, <1>5

LEMMA ReadEntryImplements ==
    ASSUME IInv, ReadEntry
    PROVE  Source!Serve
<1>1. /\ cfg \in Configs /\ cfg' = cfg /\ index \in Nat /\ nEventsInFile \in Nat
      /\ index < nEventsInFile /\ index' = index + 1
  BY OptionFacts DEF ReadEntry, AtEnd, ReadSingleEvent, FinishEvent, IInv, Types
<1>2. \E ev : ev.entry = index + 1 /\ events' = Append(events, ev)
  <2>1. \E o : events' = Append(events, [entry |-> index + 1, run |-> nRuns, outcome |-> o])
    BY DEF ReadEntry, ReadSingleEvent, FinishEvent
  <2> QED
    BY <2>1
<1>3. NextEntry = index + 1
  <2>1. index % nEventsInFile = index
    BY <1>1, ModSmall
  <2> QED
    BY <1>1, <2>1 DEF NextEntry
<1>4. index + 1 \in 1..nEventsInFile /\ nEventsInFile > 0
  BY <1>1
<1> QED
  BY <1>1, <1>2, <1>3, <1>4, ServeStep

\* At the end of the file the next entry is the first.
LEMMA NextAtEnd ==
    ASSUME IInv, AtEnd, index <= nEventsInFile
    PROVE  NextEntry = 1
<1>1. index = nEventsInFile /\ nEventsInFile \in Nat
  BY OptionFacts DEF IInv, Types, AtEnd
<1>2. nEventsInFile # 0 => nEventsInFile % nEventsInFile = 0
  BY <1>1
<1> QED
  BY <1>1, <1>2 DEF NextEntry

LEMMA LoopSamplerImplements ==
    ASSUME IInv, PlaceInv, LoopSampler
    PROVE  Source!Serve
<1>1. /\ cfg' = cfg /\ index' = 1 /\ nPassed > 0 /\ AtEnd
  BY DEF LoopSampler, Loops, OKToLoopFile, ReadSingleEvent, FinishEvent
<1>2. nEventsInFile > 0 /\ nEventsInFile \in Nat /\ index <= nEventsInFile
  BY <1>1, OptionFacts DEF IInv, Types, FileInv, PlaceInv
<1>3. \E ev : ev.entry = 1 /\ events' = Append(events, ev)
  <2>1. \E o : events' = Append(events, [entry |-> 0 + 1, run |-> nRuns, outcome |-> o])
    BY DEF LoopSampler, ReadSingleEvent, FinishEvent
  <2> QED
    BY <2>1
<1>4. NextEntry = 1 /\ 1 \in 1..nEventsInFile
  BY <1>1, <1>2, NextAtEnd
<1> QED
  BY <1>1, <1>2, <1>3, <1>4, ServeStep

LEMMA EndOfFileImplements ==
    ASSUME IInv, LoopHEPMC \/ ReachEnd
    PROVE  [Source!Next]_(Source!esVars)
<1>1. /\ cfg \in Configs /\ cfg' = cfg /\ nEventsInFile \in Nat /\ AtEnd
      /\ nEventsInFile' = nEventsInFile
      /\ index' = index \/ (index' = 0 /\ cfg.kind = "hepmc")
  BY OptionFacts DEF LoopHEPMC, ReachEnd, FinishEvent, IInv, Types, nEventsInFile
<1>2. \E ev : ev.entry = 0 /\ events' = Append(events, ev)
  <2>1. \E o : events' = Append(events, [entry |-> 0, run |-> nRuns, outcome |-> o])
    BY DEF LoopHEPMC, ReachEnd, FinishEvent
  <2> QED
    BY <2>1
<1>3. NextEntry' = NextEntry
  <2>1. CASE index' = index
    BY <1>1, <2>1 DEF NextEntry
  <2>2. CASE index' = 0 /\ cfg.kind = "hepmc"
    <3>1. NextEntry = 1
      BY <1>1, <2>2, NextAtEnd DEF IInv, Types
    <3>2. nEventsInFile # 0 => 0 % nEventsInFile = 0
      BY <1>1, ModSmall
    <3>3. NextEntry' = 1
      BY <1>1, <2>2, <3>2 DEF NextEntry
    <3> QED
      BY <3>1, <3>3
  <2> QED
    BY <1>1, <2>1, <2>2
<1> QED
  BY <1>1, <1>2, <1>3, NoServeStep

LEMMA NoEntryImplements ==
    ASSUME IInv, EndRun \/ EmptyEvent
    PROVE  [Source!Next]_(Source!esVars)
<1>1. cfg' = cfg /\ index' = index
  BY DEF EndRun, EmptyEvent, FinishEvent, file
<1>2. \E ev : ev.entry = 0 /\ events' = Append(events, ev)
  <2>1. \E o : events' = Append(events, [entry |-> 0, run |-> nRuns, outcome |-> o])
    BY DEF EndRun, EmptyEvent, FinishEvent
  <2> QED
    BY <2>1
<1>3. NextEntry' = NextEntry
  BY <1>1 DEF NextEntry, nEventsInFile
<1> QED
  BY <1>1, <1>2, <1>3, NoServeStep

LEMMA NextImplements ==
    ASSUME IInv, PlaceInv, [Next]_vars
    PROVE  [Source!Next]_(Source!esVars)
<1>1. ASSUME UNCHANGED <<cfg, index, events>>
      PROVE  UNCHANGED <<Entries, NextEntry, EntriesServed>>
  BY <1>1 DEF Entries, NextEntry, EntriesServed, EntryOfEvent, nEventsInFile
<1>2. CASE ConstructFails \/ ConstructCrashes \/ BatchBeamOn \/ InteractiveBeamOn \/ Quit
           \/ Terminated \/ UNCHANGED vars
  <2>1. UNCHANGED <<cfg, index, events>>
    BY <1>2 DEF ConstructFails, ConstructCrashes, BatchBeamOn, InteractiveBeamOn, BeamOn, Quit,
       Terminated, vars, file
  <2> QED
    BY <1>1, <2>1 DEF Source!esVars
<1>3. CASE Construct
  BY <1>3, ConstructImplements
<1>4. CASE ReadEntry
  BY <1>4, ReadEntryImplements DEF Source!Next
<1>5. CASE LoopSampler
  BY <1>5, LoopSamplerImplements DEF Source!Next
<1>6. CASE LoopHEPMC \/ ReachEnd
  BY <1>6, EndOfFileImplements
<1>7. CASE EndRun \/ EmptyEvent
  BY <1>7, NoEntryImplements
<1> QED
  BY <1>2, <1>3, <1>4, <1>5, <1>6, <1>7 DEF Next

\* A file of events is an event source: one seek before the first event, then
\* its entries round robin, whatever the filters, the kind of file and the runs.
THEOREM ImplementsEventSourceTheorem == Spec => ImplementsEventSource
<1>1. Init => Source!Init
  BY InitImplements
<1>2. IInv /\ PlaceInv /\ [Next]_vars => [Source!Next]_(Source!esVars)
  BY NextImplements
<1> QED
  BY <1>1, <1>2, Invariant, PlaceTheorem, PTL DEF Spec, ImplementsEventSource, Source!Spec

-----------------------------------------------------------------------------
(***************************************************************************)
(* A run matched to the length of a file read from its start: its events   *)
(* go round the entries of the file and, of a HepMC file, its reopening.   *)
(***************************************************************************)
IsMatched ==
    cfg.batch /\ cfg.distrFileMatchLength /\ cfg.nEventsSkip = 0 /\ ~cfg.recreate

\* A pass gives an entry to each event, of a HepMC file but to the one that opens it again.
EventsPerPass == nEventsInFile + (IF cfg.kind = "hepmc" THEN 1 ELSE 0)

\* What the event number i uses: an entry, or none.
EntryInTurn(i) ==
    LET place == ((i - 1) % EventsPerPass) + 1 IN
    IF place <= nEventsInFile THEN place ELSE 0

\* The reader stands in its round where the number of events says.
InTurn ==
    /\ index <= nEventsInFile
    /\ NEvents = 0 => index = 0
    /\ nEventsInFile > 0 => index % EventsPerPass = NEvents % EventsPerPass
    /\ \A i \in DOMAIN events : events[i].entry = EntryInTurn(i)

MatchedInv ==
    IsMatched /\ pc \in {"idle", "event", "done"} =>
        /\ nGenerate = nAvailable
        /\ ~loopFile => ~eof
        /\ pc = "done" /\ ~eof => NEvents = nGenerate
        /\ ~eof => InTurn

\* A round has an event an entry, and at most one more.
LEMMA PassLength ==
    ASSUME IInv
    PROVE  /\ EventsPerPass \in Nat /\ nEventsInFile \in Nat /\ nEventsInFile <= EventsPerPass
           /\ index \in Nat /\ NEvents \in Nat
           /\ EventsPerPass = IF cfg.kind = "hepmc" THEN nEventsInFile + 1 ELSE nEventsInFile
BY OptionFacts DEF EventsPerPass, IInv, Types, NEvents

\* An event that uses what is its turn, and moves the reader on by one place
\* of the round, keeps the turns.
LEMMA InTurnStep ==
    ASSUME IInv, cfg' = cfg, InTurn, nEventsInFile > 0,
           NEW a \in Nat, a % EventsPerPass = NEvents % EventsPerPass,
           index' \in 0..nEventsInFile, index' % EventsPerPass = (a + 1) % EventsPerPass,
           NEW e, e = EntryInTurn(NEvents + 1),
           \E ev : ev.entry = e /\ events' = Append(events, ev)
    PROVE  InTurn' /\ NEvents' = NEvents + 1
<1>1. /\ EventsPerPass \in Nat \ {0} /\ NEvents \in Nat /\ nEventsInFile \in Nat
      /\ events \in Seq(EventType)
  BY PassLength DEF IInv, Types
<1>2. EventsPerPass' = EventsPerPass /\ nEventsInFile' = nEventsInFile
  BY DEF EventsPerPass, nEventsInFile
<1>3. PICK ev : ev.entry = e /\ events' = Append(events, ev)
  OBVIOUS
<1>4. /\ NEvents' = NEvents + 1 /\ DOMAIN events = 1..NEvents /\ DOMAIN events' = 1..(NEvents + 1)
      /\ \A i \in 1..NEvents : events'[i] = events[i]
      /\ events'[NEvents + 1] = ev
  BY <1>1, <1>3 DEF NEvents
<1>5. (a + 1) % EventsPerPass = (NEvents + 1) % EventsPerPass
  BY <1>1, ModSuccessors
<1>6. ASSUME NEW i \in DOMAIN events'
      PROVE  events'[i].entry = EntryInTurn(i)
  <2>1. i \in 1..NEvents \/ i = NEvents + 1
    BY <1>1, <1>4
  <2> QED
    BY <1>3, <1>4, <2>1 DEF InTurn
<1>7. \A i : EntryInTurn(i)' = EntryInTurn(i)
  BY <1>2 DEF EntryInTurn
<1>8. NEvents' # 0
  BY <1>1, <1>4
<1>9. index' <= nEventsInFile'
  BY <1>1, <1>2
<1> QED
  BY <1>2, <1>4, <1>5, <1>6, <1>7, <1>8, <1>9 DEF InTurn

\* The number of the event says what comes next, as the index does.
LEMMA NextTurn ==
    ASSUME IInv, InTurn, nEventsInFile > 0
    PROVE  LET p == index % EventsPerPass IN
           EntryInTurn(NEvents + 1) = IF p + 1 <= nEventsInFile THEN p + 1 ELSE 0
<1>1. index % EventsPerPass = NEvents % EventsPerPass /\ NEvents \in Nat
  BY PassLength DEF InTurn
<1>2. (NEvents + 1) - 1 = NEvents
  BY <1>1
<1> QED
  BY <1>1, <1>2 DEF EntryInTurn

LEMMA ReadEntryInTurn ==
    ASSUME IInv, ReadEntry, InTurn
    PROVE  InTurn' /\ NEvents' = NEvents + 1
<1>1. /\ cfg' = cfg /\ index' = index + 1 /\ index < nEventsInFile
  BY PassLength DEF ReadEntry, AtEnd, ReadSingleEvent, FinishEvent
<1>2. /\ EventsPerPass \in Nat \ {0} /\ index \in Nat /\ nEventsInFile \in Nat
      /\ index < EventsPerPass /\ nEventsInFile > 0 /\ index' \in 0..nEventsInFile
  BY <1>1, PassLength
<1>3. index % EventsPerPass = index /\ index % EventsPerPass = NEvents % EventsPerPass
  BY <1>2, ModSmall DEF InTurn
<1>4. EntryInTurn(NEvents + 1) = index + 1
  BY <1>2, <1>3, NextTurn, <1>1
<1>5. \E ev : ev.entry = index + 1 /\ events' = Append(events, ev)
  <2>1. \E o : events' = Append(events, [entry |-> index + 1, run |-> nRuns, outcome |-> o])
    BY DEF ReadEntry, ReadSingleEvent, FinishEvent
  <2> QED
    BY <2>1
<1>6. index' % EventsPerPass = (index + 1) % EventsPerPass
  BY <1>1
<1> QED
  BY <1>1, <1>2, <1>3, <1>4, <1>5, <1>6, InTurnStep

LEMMA LoopSamplerInTurn ==
    ASSUME IInv, LoopSampler, InTurn
    PROVE  InTurn' /\ NEvents' = NEvents + 1
<1>1. /\ cfg' = cfg /\ index' = 1 /\ index >= nEventsInFile /\ nPassed > 0 /\ cfg.kind = "sampler"
  BY DEF LoopSampler, AtEnd, Loops, OKToLoopFile, ReadSingleEvent, FinishEvent
<1>2. /\ EventsPerPass \in Nat \ {0} /\ EventsPerPass = nEventsInFile /\ nEventsInFile > 0
      /\ index = nEventsInFile /\ nEventsInFile \in Nat /\ index' \in 0..nEventsInFile
  BY <1>1, PassLength DEF IInv, FileInv, InTurn
<1>3. index % EventsPerPass = 0 /\ 0 % EventsPerPass = 0
  <2>1. \A m \in Nat \ {0} : m % m = 0 /\ 0 % m = 0
    OBVIOUS
  <2> QED
    BY <1>2, <2>1
<1>4. 0 % EventsPerPass = NEvents % EventsPerPass /\ index' % EventsPerPass = (0 + 1) % EventsPerPass
  BY <1>1, <1>2, <1>3 DEF InTurn
<1>5. EntryInTurn(NEvents + 1) = 1
  BY <1>2, <1>3, NextTurn
<1>6. \E ev : ev.entry = 1 /\ events' = Append(events, ev)
  <2>1. \E o : events' = Append(events, [entry |-> 0 + 1, run |-> nRuns, outcome |-> o])
    BY DEF LoopSampler, ReadSingleEvent, FinishEvent
  <2> QED
    BY <2>1
<1>7. 0 \in Nat
  OBVIOUS
<1> QED
  BY <1>1, <1>2, <1>4, <1>5, <1>6, <1>7, InTurnStep

LEMMA LoopHEPMCInTurn ==
    ASSUME IInv, LoopHEPMC, InTurn
    PROVE  InTurn' /\ NEvents' = NEvents + 1
<1>1. /\ cfg' = cfg /\ index' = 0 /\ index >= nEventsInFile /\ nPassed > 0 /\ cfg.kind = "hepmc"
  BY DEF LoopHEPMC, AtEnd, Loops, OKToLoopFile, FinishEvent
<1>2. /\ EventsPerPass \in Nat \ {0} /\ EventsPerPass = index + 1 /\ nEventsInFile > 0
      /\ index = nEventsInFile /\ nEventsInFile \in Nat /\ index \in Nat /\ index' \in 0..nEventsInFile
  BY <1>1, PassLength DEF IInv, FileInv, InTurn
<1>3. index % EventsPerPass = index
  BY <1>2, ModSmall
<1>4. index % EventsPerPass = NEvents % EventsPerPass
  BY <1>2 DEF InTurn
<1>5. index' % EventsPerPass = (index + 1) % EventsPerPass
  <2>1. \A m \in Nat \ {0} : m % m = 0 /\ 0 % m = 0
    OBVIOUS
  <2> QED
    BY <1>1, <1>2, <2>1
<1>6. EntryInTurn(NEvents + 1) = 0
  BY <1>2, <1>3, NextTurn
<1>7. \E ev : ev.entry = 0 /\ events' = Append(events, ev)
  <2>1. \E o : events' = Append(events, [entry |-> 0, run |-> nRuns, outcome |-> o])
    BY DEF LoopHEPMC, FinishEvent
  <2> QED
    BY <2>1
<1> QED
  BY <1>1, <1>2, <1>4, <1>5, <1>6, <1>7, InTurnStep

\* Not looped, the file has as many entries as a matched run has events: none
\* finds its end.
LEMMA ReachEndLoops ==
    ASSUME IInv, MatchedInv, IsMatched, ReachEnd
    PROVE  loopFile
<1> SUFFICES ASSUME ~loopFile
             PROVE  FALSE
  OBVIOUS
<1>1. pc = "event" /\ ~eof /\ index >= nEventsInFile /\ cfg.batch
  BY DEF ReachEnd, AtEvent, AtEnd, IsMatched
<1>2. InTurn /\ nGenerate = nAvailable
  BY <1>1 DEF MatchedInv
<1>3. /\ EventsPerPass \in Nat /\ nEventsInFile \in Nat /\ nEventsInFile <= EventsPerPass
      /\ index \in Nat /\ NEvents \in Nat
      /\ EventsPerPass = IF cfg.kind = "hepmc" THEN nEventsInFile + 1 ELSE nEventsInFile
  BY PassLength
<1>4. cfg.distrFileLoopNTimes = 1
  BY OptionFacts DEF loopFile, IInv, Types
<1>5. nGenerate = nEventsInFile
  BY <1>2, <1>3, <1>4 DEF nAvailable
<1>6. NEvents < nEventsInFile
  <2>1. NEvents + nToDo = nGenerate /\ nToDo \in Nat /\ nToDo > 0
    BY <1>1 DEF IInv, Types, BatchInv, FileInv
  <2> QED
    BY <1>3, <1>5, <2>1
<1>7. NEvents % EventsPerPass = NEvents /\ EventsPerPass \in Nat \ {0}
  <2>1. NEvents < EventsPerPass /\ EventsPerPass \in Nat \ {0}
    BY <1>3, <1>6
  <2> QED
    BY <1>3, <2>1, ModSmall
<1>8. index = nEventsInFile /\ index % EventsPerPass = NEvents /\ (NEvents = 0 => index = 0)
  BY <1>1, <1>2, <1>3, <1>6, <1>7 DEF InTurn
<1>9. CASE EventsPerPass = nEventsInFile + 1
  <2>1. index % EventsPerPass = index
    BY <1>3, <1>7, <1>8, <1>9, ModSmall
  <2> QED
    BY <1>3, <1>6, <1>8, <2>1
<1>10. CASE EventsPerPass = nEventsInFile
  <2>1. index % EventsPerPass = 0
    <3>1. \A m \in Nat \ {0} : m % m = 0
      OBVIOUS
    <3> QED
      BY <1>7, <1>8, <1>10, <3>1
  <2> QED
    BY <1>3, <1>6, <1>8, <2>1
<1> QED
  BY <1>3, <1>9, <1>10

\* A step that ends an event with the file still open.
LEMMA MatchedEventStep ==
    ASSUME IInv, MatchedInv, ReadEntry \/ LoopSampler \/ LoopHEPMC
    PROVE  MatchedInv'
<1>1. /\ pc = "event" /\ ~eof /\ eof' = eof /\ UNCHANGED <<cfg, nGenerate>>
      /\ nToDo' = nToDo - 1 /\ pc' = IF nToDo > 1 THEN "event" ELSE AfterRun
  BY DEF ReadEntry, LoopSampler, LoopHEPMC, AtEvent, ReadSingleEvent, FinishEvent
<1>2. UNCHANGED <<nAvailable, loopFile, IsMatched>>
  BY <1>1 DEF nAvailable, nEventsInFile, loopFile, IsMatched
<1>3. ASSUME IsMatched
      PROVE  /\ nGenerate = nAvailable /\ InTurn' /\ (pc' = "done" => NEvents' = nGenerate)
  <2>1. InTurn /\ nGenerate = nAvailable
    BY <1>1, <1>3 DEF MatchedInv
  <2>2. InTurn' /\ NEvents' = NEvents + 1
    BY <2>1, ReadEntryInTurn, LoopSamplerInTurn, LoopHEPMCInTurn
  <2>3. /\ NEvents + nToDo = nGenerate /\ nToDo \in Nat /\ nToDo > 0 /\ NEvents \in Nat
    BY <1>1, <1>3, PassLength DEF IInv, Types, BatchInv, FileInv, IsMatched
  <2>4. pc' = "done" => nToDo = 1
    BY <1>1, <2>3
  <2> QED
    BY <2>1, <2>2, <2>3, <2>4
<1> QED
  BY <1>1, <1>2, <1>3 DEF MatchedInv

LEMMA MatchedConstruct ==
    ASSUME IInv, PlaceInv, Construct
    PROVE  MatchedInv'
<1> SUFFICES ASSUME IsMatched'
             PROVE  /\ nGenerate' = nAvailable' /\ ~eof' /\ pc' # "done" /\ InTurn'
  BY DEF MatchedInv
<1>1. /\ cfg' = cfg /\ cfg \in Configs /\ events = <<>> /\ events' = <<>> /\ pc' = "idle"
      /\ index' = Constructed.index /\ eof' = Constructed.eof
      /\ nGenerate' = IF cfg.distrFileMatchLength THEN MatchedNGenerate(index') ELSE cfg.nGenerate
  BY DEF Construct, PlaceInv, IInv, Types
<1>2. IsMatched /\ nAvailable' = nAvailable /\ nEventsInFile' = nEventsInFile
      /\ EventsPerPass' = EventsPerPass
  BY <1>1 DEF IsMatched, nAvailable, nEventsInFile, EventsPerPass
<1>3. Constructed = Opened
  <2>1. cfg.nEventsSkip = 0 /\ ~cfg.recreate
    BY <1>2 DEF IsMatched
  <2>2. NToSkipSinglePass(0) = 0 /\ ~(0 > 0)
    BY DEF NToSkipSinglePass
  <2>3. ReadOn(Opened, 0) = Opened
    BY DEF ReadOn
  <2>4. SkipEvents(Opened, 0) = Opened
    BY <2>2, <2>3, Zenon DEF SkipEvents
  <2> QED
    BY <2>1, <2>4, Zenon DEF Constructed
<1>4. index' = 0 /\ eof' = FALSE
  BY <1>1, <1>3 DEF Opened, FileState
<1>5. nGenerate' = nAvailable
  <2>1. nEventsInFile \in Nat /\ nEventsInFile - 0 = nEventsInFile
    BY <1>1, OptionFacts
  <2> QED
    BY <1>1, <1>2, <1>4, <2>1 DEF IsMatched, MatchedNGenerate, nAvailable
<1>6. NEvents' = 0 /\ DOMAIN events' = {}
  BY <1>1 DEF NEvents
<1>7. InTurn'
  <2>1. nEventsInFile \in Nat
    BY <1>1, OptionFacts
  <2> QED
    BY <1>1, <1>2, <1>4, <1>6, <2>1 DEF InTurn
<1> QED
  BY <1>1, <1>2, <1>4, <1>5, <1>7

LEMMA NextMatchedInv ==
    ASSUME IInv, PlaceInv, MatchedInv, [Next]_vars
    PROVE  MatchedInv'
<1>1. ASSUME cfg' = cfg
      PROVE  UNCHANGED <<nAvailable, loopFile, IsMatched, nEventsInFile, EventsPerPass>>
  BY <1>1 DEF nAvailable, nEventsInFile, loopFile, IsMatched, EventsPerPass
<1>2. ASSUME UNCHANGED <<cfg, index, events>>
      PROVE  InTurn' = InTurn /\ NEvents' = NEvents
  BY <1>2, Zenon DEF InTurn, NEvents, EntryInTurn, nEventsInFile, EventsPerPass
<1>3. CASE Construct
  BY <1>3, MatchedConstruct
<1>4. CASE ConstructFails \/ ConstructCrashes
  BY <1>4 DEF ConstructFails, ConstructCrashes, MatchedInv
<1>5. CASE BatchBeamOn \/ InteractiveBeamOn
  <2>1. /\ UNCHANGED <<cfg, index, eof, events, nGenerate>> /\ pc = "idle"
        /\ cfg.batch => pc' = IF nGenerate > 0 THEN "event" ELSE "done"
    BY <1>5 DEF BatchBeamOn, InteractiveBeamOn, BeamOn, file
  <2>2. IsMatched => cfg.batch /\ NEvents = 0 /\ nGenerate = nAvailable /\ nAvailable \in Nat
    BY <2>1, OptionFacts DEF IsMatched, IInv, Types, BatchInv, MatchedInv
  <2>3. IsMatched /\ pc' = "done" => nGenerate = 0
    BY <2>1, <2>2
  <2> QED
    BY <1>1, <1>2, <2>1, <2>2, <2>3 DEF MatchedInv
<1>6. CASE Quit
  BY <1>1, <1>6 DEF Quit, MatchedInv, IsMatched
<1>7. CASE ReadEntry \/ LoopSampler \/ LoopHEPMC
  BY <1>7, MatchedEventStep
<1>8. CASE ReachEnd
  <2>1. cfg' = cfg /\ nGenerate' = nGenerate /\ eof' = TRUE /\ pc = "event"
    BY <1>8 DEF ReachEnd, FinishEvent, AtEvent
  <2>2. IsMatched => loopFile /\ nGenerate = nAvailable
    BY <1>8, <2>1, ReachEndLoops DEF MatchedInv
  <2>3. nAvailable' = nAvailable /\ (loopFile' <=> loopFile) /\ (IsMatched' <=> IsMatched)
    BY <1>1, <2>1
  <2> QED
    BY <2>1, <2>2, <2>3, Zenon DEF MatchedInv
<1>9. CASE EndRun \/ EmptyEvent
  <2>1. cfg' = cfg /\ nGenerate' = nGenerate /\ eof /\ eof' = eof /\ pc = "event"
    BY <1>9 DEF EndRun, EmptyEvent, FinishEvent, file
  <2> QED
    BY <1>1, <2>1 DEF MatchedInv
<1>10. CASE Terminated \/ UNCHANGED vars
  <2>1. UNCHANGED <<cfg, pc, index, eof, events, nGenerate>>
    BY <1>10 DEF Terminated, vars, file
  <2> QED
    BY <1>1, <1>2, <2>1 DEF MatchedInv
<1> QED
  BY <1>3, <1>4, <1>5, <1>6, <1>7, <1>8, <1>9, <1>10 DEF Next

\* The events of a matched run take turns, to its end.
THEOREM TurnsTheorem == Spec => []MatchedInv
<1>1. Init => MatchedInv
  BY DEF Init, MatchedInv
<1>2. IInv /\ PlaceInv /\ MatchedInv /\ [Next]_vars => MatchedInv'
  BY NextMatchedInv
<1> QED
  BY <1>1, <1>2, Invariant, PlaceTheorem, PTL DEF Spec

\* So each entry is used as often as its place in the round comes up, and if no event
\* is lost to a reopening that is once for each time the file is to be repeated.
THEOREM MatchedRunReadsAllTheorem == Spec => []MatchedRunReadsAll
<1>1. ASSUME IInv, MatchedInv, IsMatchedRun, NEW k \in 1..nEventsInFile
      PROVE  TimesRead(k) = ((nAvailable - k) \div EventsPerPass) + 1
  <2>1. IsMatched /\ pc = "done" /\ nPassed > 0
    BY <1>1 DEF IsMatchedRun, IsMatched
  <2>2. nGenerate = nAvailable /\ ~eof /\ NEvents = nAvailable /\ InTurn
    BY <1>1, <2>1 DEF MatchedInv, IInv, Types, FileInv
  <2>3. /\ EventsPerPass \in Nat /\ nEventsInFile \in Nat /\ nEventsInFile <= EventsPerPass
        /\ NEvents \in Nat /\ cfg.distrFileLoopNTimes \in Nat \ {0}
    BY <1>1, PassLength, OptionFacts DEF IInv, Types
  <2>4. nEventsInFile <= nAvailable
    <3> DEFINE n == nEventsInFile
               t == cfg.distrFileLoopNTimes
    <3>1. n \in Nat /\ t - 1 \in Nat /\ t = (t - 1) + 1
      BY <2>3
    <3>2. \A x, y \in Nat : x * (y + 1) = x * y + x /\ x * y \in Nat
      OBVIOUS
    <3>3. nAvailable = n * t
      BY DEF nAvailable
    <3> HIDE DEF n, t
    <3>4. n * t = n * (t - 1) + n /\ n * (t - 1) \in Nat
      BY <3>1, <3>2
    <3>5. n <= nAvailable
      BY <3>1, <3>3, <3>4
    <3> QED
      BY <3>5 DEF n
  <2>5. EventsPerPass \in Nat \ {0} /\ k \in 1..EventsPerPass /\ k \in Nat /\ k <= nAvailable
        /\ nAvailable \in Nat
    BY <2>2, <2>3, <2>4
  <2>6. DOMAIN events = 1..nAvailable
    BY <1>1, <2>2 DEF NEvents, IInv, Types
  <2>7. ASSUME NEW i \in 1..nAvailable
        PROVE  events[i].entry = k <=> ((i - 1) % EventsPerPass) + 1 = k
    <3>1. events[i].entry = EntryInTurn(i)
      BY <2>2, <2>6 DEF InTurn
    <3> DEFINE place == ((i - 1) % EventsPerPass) + 1
    <3>2. EntryInTurn(i) = IF place <= nEventsInFile THEN place ELSE 0
      BY DEF EntryInTurn
    <3> HIDE DEF place
    <3>3. k <= nEventsInFile /\ k # 0
      BY <2>3
    <3>4. events[i].entry = k <=> place = k
      BY <3>1, <3>2, <3>3
    <3> QED
      BY <3>4 DEF place
  <2>8. {i \in DOMAIN events : events[i].entry = k}
          = {i \in 1..nAvailable : ((i - 1) % EventsPerPass) + 1 = k}
    BY <2>6, <2>7, Zenon
  <2>9. Cardinality({i \in 1..nAvailable : ((i - 1) % EventsPerPass) + 1 = k})
          = ((nAvailable - k) \div EventsPerPass) + 1
    BY <2>5, TimesInTurn
  <2> QED
    BY <2>8, <2>9 DEF TimesRead
<1>2. ASSUME IInv, MatchedInv, IsMatchedRun, NeverReopened, NEW k \in 1..nEventsInFile
      PROVE  TimesRead(k) = cfg.distrFileLoopNTimes
  <2> DEFINE n == nEventsInFile
             p == EventsPerPass
             t == cfg.distrFileLoopNTimes
  <2>1. n \in Nat /\ t \in Nat /\ t - 1 \in Nat /\ nAvailable = n * t
        /\ k \in Nat /\ 1 <= k /\ k <= n
    BY <1>2, PassLength, OptionFacts DEF IInv, Types, nAvailable
  <2>2. p \in Nat /\ n <= p /\ (p = n \/ t = 1)
    BY <1>2, <2>1, PassLength DEF NeverReopened
  <2>3. TimesRead(k) = ((nAvailable - k) \div EventsPerPass) + 1
    BY <1>1, <1>2
  <2> HIDE DEF n, p, t
  <2>4. p \in Nat \ {0} /\ n - k \in Nat /\ n - k < p
    BY <2>1, <2>2
  <2>5. \A x, y \in Nat : x * ((y - 1) + 1) = x * (y - 1) + x
    OBVIOUS
  <2>6. n * t - k = p * (t - 1) + (n - k)
    <3>1. CASE p = n
      <4>1. n * t = n * (t - 1) + n /\ n * (t - 1) \in Int
        BY <2>1, <2>5
      <4> QED
        BY <2>1, <3>1, <4>1
    <3>2. CASE t = 1
      <4>1. n * t = n /\ p * (t - 1) = 0
        BY <2>1, <2>2, <3>2
      <4> QED
        BY <2>1, <4>1
    <3> QED
      BY <2>2, <3>1, <3>2
  <2>7. (n * t - k) \div p = t - 1
    BY <2>1, <2>4, <2>6, DivIs
  <2> QED
    BY <2>1, <2>3, <2>7 DEF p, t
<1>3. IInv /\ MatchedInv => MatchedRunReadsAll
  BY <1>2 DEF MatchedRunReadsAll, FileRepeatedNTimes
<1> QED
  BY <1>3, Invariant, TurnsTheorem, PTL
=============================================================================
