---------------------------- MODULE TurnControl ----------------------------
(***************************************************************************)
(* Turns of a circular machine: the terminator at the end of the ring      *)
(* counts the turns of primaries and stops particles after the last one    *)
(* (BDSSDTerminator, BDSTerminatorUserLimits), and the teleporter behind   *)
(* it takes a particle to the start of the ring, correcting a primary with *)
(* a one-turn map (BDSIntegratorTeleporter, BDSPTCOneTurnMap).  Geant4     *)
(* tracks a primary to its end, then its secondaries, then the next        *)
(* primary, and calls the teleporter's stepper as often as it likes.       *)
(***************************************************************************)
EXTENDS Integers

CONSTANTS
    Configs,        \* the inputs: options of one program
    MaxCalls,       \* bound on the calls of the stepper in one crossing
    MaxSecondaries  \* bound on the secondaries waiting to be tracked

ConfigType ==
    [nTurns     : Nat \ {0},    \* turnsToTake
     hasMap     : BOOLEAN,      \* ptcOneTurnMapFileName is set
     fromFile   : BOOLEAN,      \* primaries of an event file, not of a bunch
     nPrimaries : Nat \ {0},    \* primaries of an event
     offsetS0   : BOOLEAN,      \* the beam starts at S0 > 0
     short      : BOOLEAN,      \* ... less than a metre before the end
     nEvents    : Nat]

ASSUME ConfigAssumption ==
    /\ Configs \subseteq ConfigType
    /\ \A c \in Configs : /\ ~c.fromFile => c.nPrimaries = 1
                          /\ c.fromFile => ~c.offsetS0
                          /\ c.short => c.offsetS0
ASSUME BoundAssumption == MaxCalls \in Nat \ {0} /\ MaxSecondaries \in Nat

VARIABLES
    cfg,                    \* the options, fixed at start up
    pc,                     \* where the program is
    eventNo,                \* events generated so far
    turnsTaken,             \* BDSGlobalConstants::turnsTaken
    hasScatteredThisTurn,   \* the static flag of BDSTrajectoryPrimary
    lastTurnNumber,         \* of BDSPTCOneTurnMap, as the next two
    turnsScattered,
    coords,                 \* whose coordinates the map holds
    primariesLeft,          \* primaries of this event still to be tracked
    secondaries,            \* secondaries waiting to be tracked
    track,                  \* the particle being tracked
    calls,                  \* calls of the stepper in this crossing
    outcome                 \* what the last call did to the particle

mapState == <<hasScatteredThisTurn, lastTurnNumber, turnsScattered, coords>>
stack == <<primariesLeft, secondaries>>
vars == <<cfg, pc, eventNo, turnsTaken, mapState, stack, track, calls, outcome>>

-----------------------------------------------------------------------------
\* Coordinates are known by the event and the lap at whose start they are right.
StartOf(event, lap) == [event |-> event, lap |-> lap]
Nobody == StartOf(0, 0)

\* What the stepper did: applied the map or not, for which place, and whether
\* the momentum along the beam is what the transverse ones leave of the total.
Outcome(isMapped, place, isConsistent) ==
    [mapped |-> isMapped, at |-> place, pzConsistent |-> isConsistent]
NotCalled == Outcome(FALSE, Nobody, TRUE)

\* A particle that starts: laps are counted as Geant4 transports it, turnsThen
\* and carried are what the counter and the flag were (history).
NewTrack(isPrimary) ==
    [primary |-> isPrimary, laps |-> 0, scattered |-> FALSE, offMomentum |-> FALSE,
     long |-> ~cfg.short, turnsThen |-> turnsTaken, carried |-> hasScatteredThisTurn,
     end |-> "none"]
NextLap == StartOf(eventNo, track.laps + 2)

\* Fault: the counter is left as it is when an event ends.
TurnsKept == turnsTaken
\* Initialize and EndOfEvent of the terminator put the counter back.
ResetTurnNumber == 1

\* Fault: only the turn that is the last one stops a particle.
StopsOnlyThen == turnsTaken = cfg.nTurns
\* Fault: the turn about to be counted is reckoned as taken.
StopsEarly == turnsTaken + 1 >= cfg.nTurns
\* GetUserMinEkine in the terminator, asked before the step into it is counted.
Stops == turnsTaken >= cfg.nTurns

\* ProcessHits in the terminator.
CountsTurn == track.primary /\ track.long

\* Fault: the turns in which the primary scattered are not looked up.
DidScatterByFlag == hasScatteredThisTurn
DidScatter == hasScatteredThisTurn \/ turnsTaken \in turnsScattered

OffsetS0AndOnFirstTurn == cfg.offsetS0 /\ turnsTaken = 2

ShouldApply == ~OffsetS0AndOnFirstTurn /\ ~DidScatter /\ ~track.offMomentum

\* Fault: coordinates are not kept for a turn without the map.
UpdateNothing == coords
\* UpdateCoordinates: the particle's own, at the start of its next lap.
UpdateCoordinates == IF lastTurnNumber < turnsTaken THEN NextLap ELSE coords

\* GetThisTurn: the map takes the coordinates it holds one lap on, once a turn.
GetThisTurn ==
    IF lastTurnNumber < turnsTaken THEN [coords EXCEPT !.lap = @ + 1] ELSE coords

\* pz is computed from the px and py passed in, two variables of the stepper
\* that have no value yet, so that it may come out as anything.
PzOfMap == BOOLEAN

-----------------------------------------------------------------------------
Init ==
    /\ cfg \in Configs
    /\ pc = "generate"
    /\ eventNo = 0
    /\ turnsTaken = 1
    /\ hasScatteredThisTurn = FALSE
    /\ lastTurnNumber = 0
    /\ turnsScattered = {}
    /\ coords = Nobody
    /\ primariesLeft = 0
    /\ secondaries = 0
    /\ track = [NewTrack(TRUE) EXCEPT !.end = "lost"]
    /\ calls = 0
    /\ outcome = NotCalled

\* SetInitialPrimaryCoordinates, for a bunch; a file of events never gets there.
SetInitialPrimaryCoordinates ==
    IF cfg.hasMap
    THEN /\ lastTurnNumber' = turnsTaken
         /\ turnsScattered' = {}
         /\ coords' = StartOf(eventNo + 1, 1)
    ELSE UNCHANGED <<lastTurnNumber, turnsScattered, coords>>

\* GeneratePrimaries, and Initialize of the terminator as the event begins.
GenerateEvent ==
    /\ pc = "generate" /\ eventNo < cfg.nEvents
    /\ IF cfg.fromFile THEN UNCHANGED <<lastTurnNumber, turnsScattered, coords>>
       ELSE SetInitialPrimaryCoordinates
    /\ eventNo' = eventNo + 1
    /\ turnsTaken' = 1
    /\ primariesLeft' = cfg.nPrimaries
    /\ pc' = "stack"
    /\ UNCHANGED <<cfg, hasScatteredThisTurn, secondaries, track, calls, outcome>>

\* An event aborted by the generator, before the map has coordinates or, for a
\* particle with no kinetic energy, after.
AbortEvent ==
    /\ pc = "generate" /\ eventNo < cfg.nEvents
    /\ eventNo' = eventNo + 1
    /\ \/ UNCHANGED <<lastTurnNumber, turnsScattered, coords>>
       \/ ~cfg.fromFile /\ SetInitialPrimaryCoordinates
    /\ UNCHANGED <<cfg, pc, turnsTaken, hasScatteredThisTurn, stack, track, calls, outcome>>

\* The next track of the event: secondaries go before the next primary.
BeginTrack ==
    /\ pc = "stack"
    /\ \/ /\ secondaries > 0
          /\ secondaries' = secondaries - 1
          /\ track' = NewTrack(FALSE)
          /\ UNCHANGED primariesLeft
       \/ /\ secondaries = 0 /\ primariesLeft > 0
          /\ primariesLeft' = primariesLeft - 1
          /\ track' = NewTrack(TRUE)
          /\ UNCHANGED secondaries
    /\ pc' = "ring"
    /\ UNCHANGED <<cfg, eventNo, turnsTaken, mapState, calls, outcome>>

\* EndOfEvent of the terminator.
EndEvent ==
    /\ pc = "stack" /\ secondaries = 0 /\ primariesLeft = 0
    /\ turnsTaken' = ResetTurnNumber
    /\ pc' = "generate"
    /\ UNCHANGED <<cfg, eventNo, mapState, stack, track, calls, outcome>>

-----------------------------------------------------------------------------
\* AppendStep for a step of a primary that is a scattering point: a process
\* that is not a general one, or a deposit of energy whatever the process.
AppendStep(isScatteringPoint) ==
    hasScatteredThisTurn' =
        (hasScatteredThisTurn \/ (track.primary /\ isScatteringPoint))

Interact ==
    /\ pc = "ring"
    /\ AppendStep(TRUE)
    /\ track' = [track EXCEPT !.scattered = TRUE]
    /\ secondaries' \in {secondaries, secondaries + 1}
    /\ secondaries' <= MaxSecondaries
    /\ UNCHANGED <<cfg, pc, eventNo, turnsTaken, lastTurnNumber, turnsScattered,
                   coords, primariesLeft, calls, outcome>>

\* The particle stops, or leaves the world, somewhere in the ring.
LoseParticle ==
    /\ pc = "ring"
    /\ \E deposits \in BOOLEAN : AppendStep(deposits)
    /\ track' = [track EXCEPT !.end = "lost"]
    /\ pc' = "stack"
    /\ UNCHANGED <<cfg, eventNo, turnsTaken, lastTurnNumber, turnsScattered, coords,
                   stack, calls, outcome>>

CountTurn == turnsTaken' = IF CountsTurn THEN turnsTaken + 1 ELSE turnsTaken

\* G4UserSpecialCuts stops the particle where it enters the terminator, and
\* deposits its energy there; the step is a hit of the terminator all the same.
StopInTerminator ==
    /\ pc = "ring" /\ Stops
    /\ CountTurn
    /\ AppendStep(TRUE)
    /\ track' = [track EXCEPT !.end = "stopped"]
    /\ pc' = "stack"
    /\ UNCHANGED <<cfg, eventNo, lastTurnNumber, turnsScattered, coords, stack, calls,
                   outcome>>

\* How far the momentum is from the reference is the transport's affair.
PassTerminator ==
    /\ pc = "ring" /\ ~Stops
    /\ CountTurn
    /\ \E isOff \in BOOLEAN : track' = [track EXCEPT !.offMomentum = isOff]
    /\ pc' = "teleporter"
    /\ calls' = 0
    /\ outcome' = NotCalled
    /\ UNCHANGED <<cfg, eventNo, mapState, stack>>

\* BDSIntegratorTeleporter::Stepper for a step of about the teleporter's length.
\* (Calls for other lengths, and backwards, only move the particle along.)
StepperCall ==
    /\ pc = "teleporter" /\ calls < MaxCalls
    /\ calls' = calls + 1
    /\ IF cfg.hasMap
       THEN /\ turnsScattered' =
                 IF DidScatter THEN turnsScattered \union {turnsTaken} ELSE turnsScattered
            /\ hasScatteredThisTurn' = FALSE
       ELSE UNCHANGED <<turnsScattered, hasScatteredThisTurn>>
    /\ IF cfg.hasMap /\ track.primary
       THEN /\ coords' = IF ShouldApply THEN GetThisTurn ELSE UpdateCoordinates
            /\ lastTurnNumber' =
                 IF lastTurnNumber < turnsTaken THEN turnsTaken ELSE lastTurnNumber
            /\ IF ShouldApply
               THEN outcome' \in {Outcome(TRUE, coords', b) : b \in PzOfMap}
               ELSE outcome' = Outcome(FALSE, NextLap, TRUE)
       ELSE /\ outcome' = Outcome(FALSE, NextLap, TRUE)
            /\ UNCHANGED <<coords, lastTurnNumber>>
    /\ UNCHANGED <<cfg, pc, eventNo, turnsTaken, stack, track>>

\* Laps are counted up to one more than the turns to take (a secondary may go
\* round for ever), and a lap is longer than a metre.
LeaveTeleporter ==
    /\ pc = "teleporter" /\ calls > 0
    /\ track' = [track EXCEPT !.laps = IF @ > cfg.nTurns THEN @ ELSE @ + 1,
                              !.scattered = FALSE, !.offMomentum = FALSE,
                              !.long = TRUE]
    /\ pc' = "ring"
    /\ calls' = 0
    /\ UNCHANGED <<cfg, eventNo, turnsTaken, mapState, stack, outcome>>

Terminated == pc = "generate" /\ eventNo = cfg.nEvents /\ UNCHANGED vars

Track ==
    \/ Interact \/ LoseParticle
    \/ StopInTerminator \/ PassTerminator \/ StepperCall \/ LeaveTeleporter
Next == GenerateEvent \/ AbortEvent \/ BeginTrack \/ EndEvent \/ Track \/ Terminated

\* Geant4 takes a next step as long as there is one to take.
Spec == Init /\ [][Next]_vars /\ WF_vars(Next)

-----------------------------------------------------------------------------
(***************************************************************************)
(* Properties.                                                             *)
(***************************************************************************)
TrackType ==
    [primary : BOOLEAN, laps : Nat, scattered : BOOLEAN, offMomentum : BOOLEAN,
     long : BOOLEAN, turnsThen : Nat, carried : BOOLEAN,
     end : {"none", "lost", "stopped"}]
CoordsType == [event : Nat, lap : Nat]

\* Every variable keeps its type; between events the counter is at the first
\* turn, and within one it passes the last turn by one a primary at most.
TypeOK ==
    /\ cfg \in Configs
    /\ pc \in {"generate", "stack", "ring", "teleporter"}
    /\ eventNo \in 0..cfg.nEvents
    /\ turnsTaken \in 1..(cfg.nTurns + cfg.nPrimaries)
    /\ pc = "generate" => turnsTaken = 1
    /\ hasScatteredThisTurn \in BOOLEAN
    /\ lastTurnNumber \in Nat /\ turnsScattered \subseteq Nat
    /\ coords \in CoordsType
    /\ primariesLeft \in Nat /\ secondaries \in 0..MaxSecondaries
    /\ track \in TrackType
    /\ calls \in 0..MaxCalls
    /\ outcome \in [mapped : BOOLEAN, at : CoordsType, pzConsistent : BOOLEAN]

\* The terminator stops a primary after exactly nTurns laps, one more if it
\* began in the last metre; but a primary that follows others of its event has
\* only the turns they left, and a secondary none or any number.
StoppedAfterItsTurns ==
    pc = "stack" /\ track.end = "stopped" =>
        track.laps + 1 = IF track.turnsThen >= cfg.nTurns THEN 1
                         ELSE cfg.nTurns + 1 - track.turnsThen + (IF cfg.short THEN 1 ELSE 0)

\* However often the stepper is called in one crossing, the particle is put in
\* the same place every time.
RepeatedCallsAgree ==
    [][StepperCall /\ calls > 0 =>
         outcome'.mapped = outcome.mapped /\ outcome'.at = outcome.at]_vars

\* After every crossing the map holds the coordinates at which the primary goes
\* on, so that it is carried on from there next turn: with primaries of a bunch,
\* save after a first stretch of less than a metre, which is not a turn.  It is
\* mapped at the end of just those laps in which it did not scatter, near the
\* reference momentum: save the first full lap with an offset in S, and a first
\* lap when the flag was still set from another event.
MapFollowsPrimary ==
    pc = "teleporter" /\ calls > 0 /\ track.primary /\ cfg.hasMap /\ ~cfg.fromFile =>
        /\ coords = IF cfg.short /\ track.laps = 0 THEN StartOf(eventNo, 1) ELSE NextLap
        /\ outcome.mapped => outcome.at = coords
        /\ outcome.mapped <=>
            /\ ~track.scattered /\ ~track.offMomentum
            /\ ~(cfg.offsetS0 /\ track.laps = IF cfg.short THEN 1 ELSE 0)
            /\ ~(track.carried /\ track.laps = 0)

\* A primary is tracked to an end, and so is any particle once the turns have
\* been taken.  (A secondary before that may circulate for ever.)
TrackEnds ==
    (pc \in {"ring", "teleporter"} /\ (track.primary \/ turnsTaken >= cfg.nTurns))
        ~> pc = "stack"

-----------------------------------------------------------------------------
(***************************************************************************)
(* What the manual says, and the program does not do.                      *)
(***************************************************************************)

\* "the one turn map is only applied to primaries, if they did not interact on
\* the previous turn, and if they are within 5% of the reference momentum ...
\* not applied on the first turn where there the beam is offset in S, but
\* applied on following turns" (manual, One Turn Map).
MappedOnUnscatteredLaps ==
    pc = "teleporter" /\ calls > 0 /\ track.primary /\ cfg.hasMap /\ ~cfg.fromFile =>
        (outcome.mapped <=>
            /\ ~track.scattered /\ ~track.offMomentum
            /\ ~(cfg.offsetS0 /\ track.laps = 0))
=============================================================================
