------------------------- MODULE TurnControl_proofs -------------------------
(***************************************************************************)
(* Theorems of TurnControl, for any number of turns, primaries, events and *)
(* secondaries, and any number of calls of the stepper.  The invariant     *)
(* relates the turn counter to the laps a particle has made, and what the  *)
(* one-turn map holds to where the particle is.                            *)
(***************************************************************************)
EXTENDS TurnControl, TLAPS

Tracked == pc \in {"ring", "teleporter"}
Short == IF cfg.short THEN 1 ELSE 0
MappedBunch == cfg.hasMap /\ ~cfg.fromFile

\* Primaries and the turns they may have used up: one that has been tracked to
\* its end may have counted a turn past the last.
CountInv ==
    /\ primariesLeft \in 0..cfg.nPrimaries
    /\ pc = "generate" => primariesLeft = 0 /\ secondaries = 0
    /\ turnsTaken <= cfg.nTurns + (cfg.nPrimaries - primariesLeft)
    /\ Tracked /\ track.primary =>
          /\ primariesLeft < cfg.nPrimaries
          /\ turnsTaken < cfg.nTurns + (cfg.nPrimaries - primariesLeft)

\* Laps and turns: in the teleporter a turn is counted whose lap is not over.
\* A particle that has passed the terminator did so before the last turn.
HasPassed == pc = "teleporter" \/ (pc = "ring" /\ track.laps > 0)
StoppedRight ==
    track.end = "stopped" =>
        track.laps + 1 = IF track.turnsThen >= cfg.nTurns THEN 1
                         ELSE cfg.nTurns + 1 - track.turnsThen + Short
LapInv ==
    /\ Tracked => /\ track.end = "none" /\ track.turnsThen >= 1
                  /\ track.long <=> ~cfg.short \/ track.laps > 0
    /\ Tracked /\ ~track.primary => turnsTaken = track.turnsThen
    /\ pc = "ring" /\ track.primary =>
          turnsTaken = track.turnsThen + track.laps - (IF track.laps > 0 THEN Short ELSE 0)
    /\ pc = "teleporter" /\ track.primary =>
          turnsTaken = track.turnsThen + track.laps + 1 - Short
    /\ HasPassed => track.turnsThen < cfg.nTurns /\ turnsTaken <= cfg.nTurns
    /\ ~Tracked => StoppedRight

\* Whether the primary counts as scattered in this lap.
Scattered == track.scattered \/ (track.laps = 0 /\ track.carried)

\* What the map holds, for the one primary of a bunch: before it is tracked, in
\* the ring, and in the teleporter before the first call.
HeldBefore == StartOf(eventNo, IF track.laps = 0 \/ (cfg.short /\ track.laps = 1)
                               THEN 1 ELSE track.laps + 1)
KeptBefore ==
    /\ hasScatteredThisTurn <=> Scattered
    /\ coords = HeldBefore
    /\ track.laps = 0 => turnsScattered = {}
KeptInv ==
    MappedBunch =>
        /\ pc = "stack" /\ primariesLeft > 0 =>
              /\ turnsTaken = 1 /\ lastTurnNumber = 1 /\ turnsScattered = {}
              /\ coords = StartOf(eventNo, 1) /\ secondaries = 0
        /\ Tracked => primariesLeft = 0
        /\ Tracked /\ track.primary => track.turnsThen = 1
        /\ pc = "ring" /\ track.primary =>
              /\ KeptBefore /\ lastTurnNumber = turnsTaken
              /\ \A t \in turnsScattered : t <= turnsTaken
        /\ pc = "teleporter" /\ calls = 0 /\ track.primary =>
              /\ KeptBefore
              /\ lastTurnNumber = IF cfg.short /\ track.laps = 0 THEN turnsTaken
                                  ELSE turnsTaken - 1
              /\ \A t \in turnsScattered : t < turnsTaken
        /\ pc = "teleporter" /\ calls > 0 /\ track.primary =>
              /\ lastTurnNumber = turnsTaken
              /\ \A t \in turnsScattered : t <= turnsTaken
              /\ turnsTaken \in turnsScattered <=> Scattered
              /\ coords = IF cfg.short /\ track.laps = 0 THEN StartOf(eventNo, 1) ELSE NextLap

\* After a call of the stepper, another one would do the same.
CallInv ==
    pc = "teleporter" /\ calls > 0 =>
        /\ outcome.mapped <=> cfg.hasMap /\ track.primary /\ ShouldApply
        /\ outcome.at = IF outcome.mapped THEN coords ELSE NextLap
        /\ cfg.hasMap => ~hasScatteredThisTurn
        /\ cfg.hasMap /\ track.primary => turnsTaken <= lastTurnNumber

IInv == TypeOK /\ CountInv /\ LapInv /\ KeptInv /\ CallInv

-----------------------------------------------------------------------------
\* The options of a program, of which only these facts are used.
LEMMA OptionFacts ==
    ASSUME TypeOK
    PROVE  /\ cfg.nTurns \in Nat \ {0} /\ cfg.nPrimaries \in Nat \ {0} /\ cfg.nEvents \in Nat
           /\ cfg.hasMap \in BOOLEAN /\ cfg.fromFile \in BOOLEAN
           /\ cfg.offsetS0 \in BOOLEAN /\ cfg.short \in BOOLEAN
           /\ ~cfg.fromFile => cfg.nPrimaries = 1
           /\ cfg.short => cfg.offsetS0
  BY ConfigAssumption DEF TypeOK, ConfigType

\* Numbers and truth values, without the sets they come from.
LEMMA ValueFacts ==
    ASSUME TypeOK
    PROVE  /\ eventNo \in Nat /\ turnsTaken \in Nat \ {0} /\ lastTurnNumber \in Nat
           /\ hasScatteredThisTurn \in BOOLEAN
           /\ primariesLeft \in Nat /\ secondaries \in Nat /\ calls \in Nat
           /\ track \in TrackType /\ track.laps \in Nat /\ track.turnsThen \in Nat
           /\ track.primary \in BOOLEAN /\ track.scattered \in BOOLEAN
           /\ track.offMomentum \in BOOLEAN /\ track.long \in BOOLEAN /\ track.carried \in BOOLEAN
           /\ coords \in CoordsType /\ turnsScattered \subseteq Nat
           /\ pc \in {"generate", "stack", "ring", "teleporter"}
<1>1. eventNo \in Nat /\ turnsTaken \in Nat \ {0} /\ secondaries \in Nat /\ calls \in Nat
  BY DEF TypeOK
<1>2. track \in TrackType
  BY DEF TypeOK
<1> QED
  BY <1>1, <1>2 DEF TypeOK, TrackType

\* The records the actions make have their types.
LEMMA StartHasType == \A e, l \in Nat : StartOf(e, l) \in CoordsType
  BY DEF StartOf, CoordsType

LEMMA NextLapHasType == ASSUME TypeOK PROVE NextLap \in CoordsType
  BY StartHasType DEF NextLap, TypeOK, TrackType

LEMMA NewTrackHasType == ASSUME TypeOK, NEW b \in BOOLEAN PROVE NewTrack(b) \in TrackType
<1>1. cfg.short \in BOOLEAN /\ turnsTaken \in Nat /\ hasScatteredThisTurn \in BOOLEAN
  BY OptionFacts DEF TypeOK
<1> QED
  BY <1>1 DEF NewTrack, TrackType

LEMMA NewTrackFields ==
    ASSUME TypeOK, NEW b \in BOOLEAN
    PROVE  /\ NewTrack(b).end = "none" /\ NewTrack(b).turnsThen = turnsTaken
           /\ NewTrack(b).laps = 0 /\ NewTrack(b).primary = b
           /\ NewTrack(b).long = ~cfg.short
  BY Zenon DEF NewTrack

OutcomeType == [mapped : BOOLEAN, at : CoordsType, pzConsistent : BOOLEAN]

LEMMA OutcomeHasType ==
    ASSUME NEW b \in BOOLEAN, NEW c \in CoordsType, NEW d \in BOOLEAN
    PROVE  Outcome(b, c, d) \in OutcomeType
  BY DEF Outcome, OutcomeType

LEMMA NotCalledHasType == NotCalled \in OutcomeType
  BY StartHasType, OutcomeHasType DEF NotCalled, Nobody

LEMMA GenerateEventKeeps == ASSUME IInv, GenerateEvent PROVE IInv'
<1> USE OptionFacts, BoundAssumption DEF IInv, GenerateEvent, mapState, stack,
       SetInitialPrimaryCoordinates
<1>1. TypeOK'
  <2>1. StartOf(eventNo + 1, 1) \in CoordsType
    BY StartHasType DEF TypeOK
  <2>2. lastTurnNumber' \in Nat /\ turnsScattered' \subseteq Nat /\ coords' \in CoordsType
    BY <2>1 DEF TypeOK
  <2>3. /\ eventNo' \in 0..cfg'.nEvents /\ primariesLeft' \in Nat
        /\ turnsTaken' \in 1..(cfg'.nTurns + cfg'.nPrimaries)
    BY DEF TypeOK
  <2> QED
    BY <2>2, <2>3 DEF TypeOK
<1>2. CountInv'
  BY DEF CountInv, Tracked
<1>3. LapInv'
  BY DEF LapInv, Tracked, HasPassed, StoppedRight, Short
<1>4. KeptInv'
  BY DEF TypeOK, CountInv, KeptInv, MappedBunch, Tracked
<1>5. CallInv'
  BY DEF CallInv
<1> QED
  BY <1>1, <1>2, <1>3, <1>4, <1>5

LEMMA AbortEventKeeps == ASSUME IInv, AbortEvent PROVE IInv'
<1> USE OptionFacts, BoundAssumption DEF IInv, AbortEvent, mapState, stack,
       SetInitialPrimaryCoordinates
<1>1. TypeOK'
  <2>1. StartOf(eventNo + 1, 1) \in CoordsType
    BY StartHasType DEF TypeOK
  <2>2. lastTurnNumber' \in Nat /\ turnsScattered' \subseteq Nat /\ coords' \in CoordsType
    BY <2>1 DEF TypeOK
  <2>3. /\ eventNo' \in 0..cfg'.nEvents /\ primariesLeft' \in Nat
        /\ turnsTaken' \in 1..(cfg'.nTurns + cfg'.nPrimaries)
    BY DEF TypeOK
  <2> QED
    BY <2>2, <2>3 DEF TypeOK
<1>2. CountInv'
  BY DEF CountInv, Tracked
<1>3. LapInv'
  BY DEF LapInv, Tracked, HasPassed, StoppedRight, Short
<1>4. KeptInv'
  BY DEF KeptInv, Tracked
<1>5. CallInv'
  BY DEF CallInv
<1> QED
  BY <1>1, <1>2, <1>3, <1>4, <1>5

LEMMA BeginTrackKeeps == ASSUME IInv, BeginTrack PROVE IInv'
<1> USE OptionFacts, BoundAssumption DEF IInv, BeginTrack, mapState, stack
<1>1. TypeOK'
  <2>1. track' \in TrackType
    BY NewTrackHasType
  <2>2. secondaries \in 0..MaxSecondaries
    BY DEF TypeOK
  <2>3. primariesLeft' \in Nat
    BY ValueFacts DEF NewTrack
  <2>4. secondaries' \in 0..MaxSecondaries
    BY <2>2 DEF NewTrack
  <2> QED
    BY <2>1, <2>3, <2>4 DEF TypeOK
<1>2. CountInv'
  BY DEF TypeOK, CountInv, NewTrack
<1>3. LapInv'
  <2>1. track' = NewTrack(TRUE) \/ track' = NewTrack(FALSE)
    BY Zenon
  <2>2. /\ track'.end = "none" /\ track'.turnsThen = turnsTaken /\ track'.laps = 0
        /\ track'.long = ~cfg.short
    BY <2>1, NewTrackFields, Zenon
  <2>3. pc' = "ring" /\ turnsTaken' = turnsTaken /\ cfg' = cfg
    OBVIOUS
  <2>4. track'.long <=> ~cfg.short
    BY <2>2, Zenon
  <2> QED
    BY <2>2, <2>3, <2>4, ValueFacts DEF LapInv, HasPassed, StoppedRight
<1>4. KeptInv'
  BY DEF CountInv, KeptInv, KeptBefore, HeldBefore, MappedBunch, Scattered, NewTrack
<1>5. CallInv'
  BY DEF CallInv
<1> QED
  BY <1>1, <1>2, <1>3, <1>4, <1>5

LEMMA EndEventKeeps == ASSUME IInv, EndEvent PROVE IInv'
<1> USE OptionFacts, BoundAssumption DEF IInv, EndEvent, mapState, stack, ResetTurnNumber
<1>1. TypeOK'
  BY DEF TypeOK
<1>2. CountInv'
  BY DEF CountInv
<1>3. LapInv'
  BY DEF LapInv, Tracked, HasPassed, StoppedRight, Short
<1>4. KeptInv'
  BY DEF KeptInv, Tracked
<1>5. CallInv'
  BY DEF CallInv
<1> QED
  BY <1>1, <1>2, <1>3, <1>4, <1>5

LEMMA InteractKeeps == ASSUME IInv, Interact PROVE IInv'
<1> USE OptionFacts, BoundAssumption DEF IInv, Interact, mapState, stack, AppendStep
<1>1. TypeOK'
  <2>1. track' \in TrackType
    BY DEF TypeOK, TrackType
  <2> QED
    BY <2>1 DEF TypeOK
<1>2. CountInv'
  BY DEF CountInv, Tracked
<1>3. LapInv'
  BY DEF LapInv, Tracked, HasPassed, Short
<1>4. KeptInv'
  BY DEF TypeOK, TrackType, KeptInv, KeptBefore, HeldBefore, MappedBunch, Tracked,
     Scattered
<1>5. CallInv'
  BY DEF CallInv
<1> QED
  BY <1>1, <1>2, <1>3, <1>4, <1>5

LEMMA LoseParticleKeeps == ASSUME IInv, LoseParticle PROVE IInv'
<1> USE OptionFacts, BoundAssumption DEF IInv, LoseParticle, mapState, stack, AppendStep
<1>1. TypeOK'
  <2>1. track' \in TrackType
    BY DEF TypeOK, TrackType
  <2> QED
    BY <2>1 DEF TypeOK
<1>2. CountInv'
  BY DEF CountInv, Tracked
<1>3. LapInv'
  BY DEF LapInv, Tracked, HasPassed, StoppedRight
<1>4. KeptInv'
  BY DEF KeptInv, MappedBunch, Tracked
<1>5. CallInv'
  BY DEF CallInv
<1> QED
  BY <1>1, <1>2, <1>3, <1>4, <1>5

LEMMA StopInTerminatorKeeps == ASSUME IInv, StopInTerminator PROVE IInv'
<1> USE OptionFacts, BoundAssumption DEF IInv, StopInTerminator, mapState, stack,
       AppendStep, CountTurn, CountsTurn, Stops
<1>1. TypeOK'
  <2>1. track' \in TrackType
    BY DEF TypeOK, TrackType
  <2>2. turnsTaken' \in 1..(cfg.nTurns + cfg.nPrimaries)
    BY DEF TypeOK, CountInv, Tracked
  <2>3. hasScatteredThisTurn' \in BOOLEAN
    OBVIOUS
  <2> QED
    BY <2>1, <2>2, <2>3 DEF TypeOK
<1>2. CountInv'
  BY DEF TypeOK, CountInv, Tracked
<1>3. LapInv'
  BY DEF TypeOK, TrackType, LapInv, Tracked, HasPassed, StoppedRight, Short
<1>4. KeptInv'
  BY DEF KeptInv, MappedBunch, Tracked
<1>5. CallInv'
  BY DEF CallInv
<1> QED
  BY <1>1, <1>2, <1>3, <1>4, <1>5

LEMMA PassTerminatorKeeps == ASSUME IInv, PassTerminator PROVE IInv'
<1> USE OptionFacts, BoundAssumption DEF IInv, PassTerminator, mapState, stack,
       CountTurn, CountsTurn, Stops
<1>1. TypeOK'
  <2>1. track' \in TrackType
    BY DEF TypeOK, TrackType
  <2>2. turnsTaken' \in 1..(cfg.nTurns + cfg.nPrimaries)
    BY DEF TypeOK
  <2> QED
    BY <2>1, <2>2, NotCalledHasType DEF TypeOK, OutcomeType
<1>2. CountInv'
  <2>1. track'.primary = track.primary
    OBVIOUS
  <2>2. turnsTaken < cfg.nTurns /\ turnsTaken' \in {turnsTaken, turnsTaken + 1}
    BY ValueFacts
  <2>3. primariesLeft \in 0..cfg.nPrimaries /\ (track.primary => primariesLeft < cfg.nPrimaries)
    BY DEF CountInv, Tracked
  <2>4. turnsTaken' <= cfg.nTurns
    BY <2>2, ValueFacts
  <2>5. ~track.primary => turnsTaken' = turnsTaken
    OBVIOUS
  <2> QED
    BY <2>1, <2>3, <2>4, <2>5, ValueFacts DEF CountInv
<1>3. LapInv'
  BY DEF TypeOK, TrackType, LapInv, Tracked, Short
<1>4. KeptInv'
  BY DEF TypeOK, TrackType, LapInv, KeptInv, KeptBefore, HeldBefore, MappedBunch,
     Tracked, Scattered
<1>5. CallInv'
  BY DEF CallInv
<1> QED
  BY <1>1, <1>2, <1>3, <1>4, <1>5

LEMMA StepperCallKeeps == ASSUME IInv, StepperCall PROVE IInv'
<1> USE OptionFacts, BoundAssumption DEF IInv, StepperCall, mapState, stack, DidScatter,
       ShouldApply, OffsetS0AndOnFirstTurn, GetThisTurn, UpdateCoordinates, PzOfMap
<1>1. TypeOK'
  <2>1. [coords EXCEPT !.lap = @ + 1] \in CoordsType
    BY ValueFacts DEF CoordsType
  <2>2. coords' \in CoordsType
    BY <2>1, ValueFacts, NextLapHasType
  <2> QED
    <3>1. outcome' \in OutcomeType
      <4>1. outcome' \in {Outcome(TRUE, coords', b) : b \in BOOLEAN}
                            \union {Outcome(FALSE, NextLap, TRUE)}
        BY Zenon
      <4>2. \A b \in BOOLEAN :
               Outcome(TRUE, coords', b) \in OutcomeType
        BY <2>2, OutcomeHasType, Zenon
      <4>3. Outcome(FALSE, NextLap, TRUE) \in OutcomeType
        BY NextLapHasType, OutcomeHasType, Zenon
      <4> QED
        BY <4>1, <4>2, <4>3, Zenon
    <3>3. turnsScattered' \subseteq Nat /\ lastTurnNumber' \in Nat
    BY ValueFacts
    <3>4. hasScatteredThisTurn' \in BOOLEAN
    BY ValueFacts
    <3>5. calls' \in 0..MaxCalls
    BY DEF TypeOK
    <3> QED
      BY <2>2, <3>1, <3>3, <3>4, <3>5 DEF TypeOK, OutcomeType
<1>2. CountInv'
  BY DEF CountInv, Tracked
<1>3. LapInv'
  BY DEF LapInv, Tracked, HasPassed, Short
<1>4. KeptInv'
  <2> SUFFICES ASSUME MappedBunch, track.primary
               PROVE  KeptInv'
    BY DEF KeptInv, MappedBunch, Tracked
  <2>1. /\ track' = track /\ turnsTaken' = turnsTaken /\ eventNo' = eventNo
        /\ calls' > 0 /\ pc' = "teleporter"
    BY ValueFacts
  <2>2. lastTurnNumber <= turnsTaken
    BY ValueFacts DEF KeptInv
  <2>3. lastTurnNumber' = turnsTaken
    BY <2>2, ValueFacts DEF MappedBunch
  <2>4. \A t \in turnsScattered' : t <= turnsTaken
    BY ValueFacts DEF KeptInv
  <2>5. turnsTaken \in turnsScattered' <=> Scattered
    BY ValueFacts DEF KeptInv, KeptBefore, MappedBunch, CallInv
  <2>6. coords' = IF cfg.short /\ track.laps = 0 THEN StartOf(eventNo, 1) ELSE NextLap
    <3>1. CASE calls > 0
      BY <3>1, ValueFacts DEF KeptInv, MappedBunch
    <3>2. CASE calls = 0
      <4>1. coords = HeldBefore
        BY <3>2 DEF KeptInv, KeptBefore
      <4>2. turnsTaken = track.laps + 2 - Short
        BY ValueFacts DEF KeptInv, LapInv, Tracked, Short
      <4>3. CASE cfg.short /\ track.laps = 0
        <5>1. lastTurnNumber = turnsTaken
          BY <3>2, <4>3 DEF KeptInv
        <5> QED
          BY <4>1, <4>3, <5>1, ValueFacts DEF HeldBefore, Outcome
      <4>4. CASE ~(cfg.short /\ track.laps = 0)
        <5>1. lastTurnNumber < turnsTaken
          BY <3>2, <4>4, ValueFacts DEF KeptInv
        <5>2. CASE cfg.short /\ track.laps = 1
          BY <4>2, <5>1, <5>2 DEF Short, MappedBunch
        <5>3. CASE ~(cfg.short /\ track.laps = 1)
          <6>1. coords = StartOf(eventNo, track.laps + 1)
            BY <4>1, <4>4, <5>3 DEF HeldBefore
          <6>2. [coords EXCEPT !.lap = @ + 1] = NextLap
            BY <6>1, ValueFacts DEF StartOf, NextLap
          <6> QED
            BY <4>4, <5>1, <6>2 DEF MappedBunch
        <5> QED
          BY <5>2, <5>3
      <4> QED
        BY <4>3, <4>4
    <3> QED
      BY <3>1, <3>2, ValueFacts
  <2> QED
    BY <2>1, <2>3, <2>4, <2>5, <2>6 DEF KeptInv, Tracked, Scattered, NextLap
<1>5. CallInv'
  BY DEF TypeOK, CallInv, NextLap, Outcome
<1> QED
  BY <1>1, <1>2, <1>3, <1>4, <1>5

LEMMA LeaveTeleporterKeeps == ASSUME IInv, LeaveTeleporter PROVE IInv'
<1> USE OptionFacts, BoundAssumption DEF IInv, LeaveTeleporter, mapState, stack
<1>1. TypeOK'
  <2>1. track.laps + 1 \in Nat
    BY ValueFacts
  <2>2. track' \in TrackType
    BY <2>1, ValueFacts DEF TrackType
  <2> QED
    BY <2>2 DEF TypeOK
<1>2. CountInv'
  BY DEF CountInv, Tracked
<1>3. LapInv'
  BY DEF TypeOK, TrackType, LapInv, Tracked, HasPassed, Short
<1>4. KeptInv'
  BY DEF TypeOK, TrackType, LapInv, KeptInv, KeptBefore, HeldBefore, MappedBunch,
     Tracked, Scattered, Short, NextLap, CallInv
<1>5. CallInv'
  BY DEF CallInv
<1> QED
  BY <1>1, <1>2, <1>3, <1>4, <1>5

LEMMA InitHolds == Init => IInv
<1> SUFFICES ASSUME Init PROVE IInv
  OBVIOUS
<1>1. /\ cfg \in Configs /\ cfg.nTurns \in Nat \ {0} /\ cfg.nPrimaries \in Nat \ {0}
      /\ cfg.nEvents \in Nat /\ cfg.short \in BOOLEAN
  BY ConfigAssumption DEF Init, ConfigType
<1>2. track \in TrackType /\ track.end = "lost"
  BY <1>1 DEF Init, NewTrack, TrackType
<1>3. coords \in CoordsType /\ outcome \in OutcomeType
  BY StartHasType, NotCalledHasType DEF Init, Nobody
<1>4. TypeOK
  <2>1. eventNo \in 0..cfg.nEvents /\ turnsTaken \in 1..(cfg.nTurns + cfg.nPrimaries)
    BY <1>1 DEF Init
  <2>2. secondaries \in 0..MaxSecondaries /\ calls \in 0..MaxCalls
    BY BoundAssumption DEF Init
  <2>3. /\ pc = "generate" /\ turnsTaken = 1 /\ hasScatteredThisTurn \in BOOLEAN
        /\ lastTurnNumber \in Nat /\ turnsScattered = {} /\ primariesLeft \in Nat
    BY DEF Init
  <2> QED
    BY <1>1, <1>2, <1>3, <2>1, <2>2, <2>3 DEF TypeOK, OutcomeType
<1>5. CountInv /\ LapInv /\ KeptInv /\ CallInv
  BY <1>1, <1>2 DEF Init, CountInv, LapInv, KeptInv, CallInv, Tracked, HasPassed,
     StoppedRight
<1> QED
  BY <1>4, <1>5 DEF IInv

LEMMA StutterKeeps == ASSUME IInv, UNCHANGED vars PROVE IInv'
<1>1. TypeOK'
  BY DEF IInv, vars, mapState, stack, TypeOK
<1>2. CountInv' /\ LapInv'
  BY DEF IInv, vars, stack, CountInv, LapInv, Tracked, HasPassed, StoppedRight, Short
<1>3. KeptInv' /\ CallInv'
  BY DEF IInv, vars, mapState, stack, KeptInv, CallInv, MappedBunch, Tracked,
     KeptBefore, HeldBefore, Scattered, NextLap, ShouldApply, DidScatter,
     OffsetS0AndOnFirstTurn
<1> QED
  BY <1>1, <1>2, <1>3 DEF IInv

\* The inductive invariant holds in every state (Init, and one lemma an action).
THEOREM Invariant == Spec => []IInv
<1>1. IInv /\ [Next]_vars => IInv'
  <2> SUFFICES ASSUME IInv, [Next]_vars PROVE IInv'
    OBVIOUS
  <2> QED
    BY GenerateEventKeeps, AbortEventKeeps, BeginTrackKeeps, EndEventKeeps,
       InteractKeeps, LoseParticleKeeps, StopInTerminatorKeeps, PassTerminatorKeeps,
       StepperCallKeeps, LeaveTeleporterKeeps, StutterKeeps DEF Next, Track, Terminated
<1> QED
  BY InitHolds, <1>1, PTL DEF Spec

\* Every variable has its type, and the turn counter passes the last turn by one
\* a primary at most (IncrementTurnNumber and ResetTurnNumber, BDSSDTerminator).
THEOREM TypeCorrect == Spec => []TypeOK
<1>1. IInv => TypeOK
  BY DEF IInv
<1> QED
  BY Invariant, <1>1, PTL

\* The terminator stops a primary after just the turns it has been given
\* (GetUserMinEkine of BDSTerminatorUserLimits), for any number of them.
THEOREM StoppedAfterItsTurnsTheorem == Spec => []StoppedAfterItsTurns
<1>1. IInv => StoppedAfterItsTurns
  BY DEF IInv, LapInv, StoppedAfterItsTurns, StoppedRight, Short
<1> QED
  BY Invariant, <1>1, PTL

\* What the one-turn map holds is where the primary goes on, and the laps that
\* are mapped are known exactly (BDSPTCOneTurnMap), for any number of turns.
THEOREM MapFollowsPrimaryTheorem == Spec => []MapFollowsPrimary
<1>1. IInv => MapFollowsPrimary
  <2> SUFFICES ASSUME IInv, pc = "teleporter", calls > 0, track.primary, cfg.hasMap, ~cfg.fromFile
               PROVE  /\ coords = IF cfg.short /\ track.laps = 0 THEN StartOf(eventNo, 1) ELSE NextLap
                      /\ outcome.mapped => outcome.at = coords
                      /\ outcome.mapped <=>
                            /\ ~track.scattered /\ ~track.offMomentum
                            /\ ~(cfg.offsetS0 /\ track.laps = IF cfg.short THEN 1 ELSE 0)
                            /\ ~(track.carried /\ track.laps = 0)
    BY DEF MapFollowsPrimary
  <2>1. coords = IF cfg.short /\ track.laps = 0 THEN StartOf(eventNo, 1) ELSE NextLap
    BY DEF IInv, KeptInv, MappedBunch
  <2>2. outcome.mapped => outcome.at = coords
    BY DEF IInv, CallInv
  <2>3. outcome.mapped <=> ShouldApply
    BY DEF IInv, CallInv
  <2>4. DidScatter <=> Scattered
    BY DEF IInv, CallInv, KeptInv, MappedBunch, DidScatter
  <2>5. turnsTaken = 2 <=> track.laps = IF cfg.short THEN 1 ELSE 0
    <3>1. turnsTaken = track.laps + 2 - Short
      BY ValueFacts DEF IInv, KeptInv, LapInv, MappedBunch, Tracked, Short
    <3> QED
      BY <3>1, ValueFacts DEF IInv, Short
  <2> QED
    BY <2>1, <2>2, <2>3, <2>4, <2>5 DEF ShouldApply, OffsetS0AndOnFirstTurn, Scattered
<1> QED
  BY Invariant, <1>1, PTL

\* However often Geant4 calls the stepper in one crossing, each call puts the
\* particle where the first one put it (BDSIntegratorTeleporter::Stepper).
THEOREM RepeatedCallsAgreeTheorem == Spec => RepeatedCallsAgree
<1>1. IInv /\ IInv' /\ StepperCall /\ calls > 0 =>
          outcome'.mapped = outcome.mapped /\ outcome'.at = outcome.at
  <2> SUFFICES ASSUME IInv, IInv', StepperCall, calls > 0
               PROVE  outcome'.mapped = outcome.mapped /\ outcome'.at = outcome.at
    OBVIOUS
  <2>1. /\ pc = "teleporter" /\ pc' = "teleporter" /\ calls' > 0 /\ track' = track /\ cfg' = cfg
        /\ turnsTaken' = turnsTaken /\ eventNo' = eventNo
    BY ValueFacts DEF StepperCall, IInv
  <2>2. cfg.hasMap /\ track.primary => (ShouldApply' <=> ShouldApply)
    BY <2>1 DEF StepperCall, ShouldApply, DidScatter, OffsetS0AndOnFirstTurn
  <2>3. outcome'.mapped <=> outcome.mapped
    BY <2>1, <2>2 DEF IInv, CallInv
  <2>4. outcome.mapped \in BOOLEAN /\ outcome'.mapped \in BOOLEAN
    BY DEF IInv, TypeOK
  <2>5. NextLap' = NextLap
    BY <2>1 DEF NextLap
  <2>6. outcome.mapped => coords' = coords
    BY <2>1, ValueFacts DEF StepperCall, IInv, CallInv, GetThisTurn, Outcome
  <2> QED
    BY <2>1, <2>3, <2>4, <2>5, <2>6 DEF IInv, CallInv
<1>2. IInv /\ IInv' /\ [Next]_vars =>
          [StepperCall /\ calls > 0 =>
             outcome'.mapped = outcome.mapped /\ outcome'.at = outcome.at]_vars
  BY <1>1
<1> QED
  BY Invariant, <1>2, PTL DEF Spec, RepeatedCallsAgree
=============================================================================
