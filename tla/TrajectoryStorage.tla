------------------------- MODULE TrajectoryStorage -------------------------
(***************************************************************************)
(* Which trajectories of an event are stored, and how the stored ones      *)
(* refer to one another: the choice by filters                             *)
(* (BDSEventAction::IdentifyTrajectoriesForStorage), the table written to  *)
(* the output (BDSOutputROOTEventTrajectory::Fill), and the walk up the    *)
(* table that is offered to the analysis (processHistory).                 *)
(*                                                                         *)
(* Trajectories are kept in maps ordered by their addresses, which their   *)
(* allocators may hand out in any order.                                   *)
(***************************************************************************)
EXTENDS Integers, Sequences, Functions, OrderedSets

CONSTANTS
    Configs,    \* the inputs: the options that matter here
    Events,     \* the inputs: the tracks of an event
    NPoints     \* the number of points every trajectory has

\* Filters that are treated alike have one name here: "own" is particle, energy,
\* minimum Z, maximum R or a sampler.
UserFilters == {"own", "elossSRange", "secondary", "depth"}
Filters == UserFilters \union {"primary", "connect"}

ConfigType ==
    [set      : SUBSET UserFilters,     \* options given by the user
     depth    : Nat,                    \* storeTrajectoryDepth
     logicAND : BOOLEAN,
     connect  : BOOLEAN,
     nStored  : Nat,                    \* storeTrajectoryStepPoints, 0 for all
     andLast  : BOOLEAN]                \* storeTrajectoryStepPointLast

\* An event: for each track, in the order Geant4 made them, its parent (0 for a
\* primary), the parent's point it starts from, and the filters its particle and
\* its hits match; and the tracks in the order of their trajectories' addresses.
IsEvent(e) ==
    LET tracks == 1..Len(e.parent) IN
    /\ e.parent \in Seq(Nat) /\ Len(e.parent) > 0
    /\ \A t \in tracks : e.parent[t] \in 0..(t - 1) /\ e.start[t] \in 1..(NPoints - 1)
    /\ e.matches \in [tracks -> SUBSET {"own", "elossSRange"}]
    /\ e.order \in [tracks -> tracks] /\ IsInjective(e.order)

ASSUME ConfigAssumption == Configs \subseteq ConfigType
ASSUME EventAssumption == NPoints \in Nat \ {0, 1} /\ \A e \in Events : IsEvent(e)

VARIABLES
    cfg,                \* the options
    event,              \* the tracks of the event
    pc,                 \* where the program, or the analysis, is
    interesting,        \* interestingTraj
    filters,            \* trajectoryFilters
    next,               \* the position reached in a loop over the map
    trajIndex,          \* of each trajectory, as the next two
    parentIndex,
    parentStepIndex,
    rows,               \* the table in the output
    query,              \* the track whose history is asked for
    ti,                 \* the row reached in the walk up from it
    history             \* the points returned so far: row and step

choice == <<interesting, filters>>
indices == <<trajIndex, parentIndex, parentStepIndex>>
walk == <<query, ti, history>>
vars == <<cfg, event, pc, choice, next, indices, rows, walk>>

-----------------------------------------------------------------------------
Tracks == 1..Len(event.parent)
Parent(t) == event.parent[t]
IsPrimary(t) == Parent(t) = 0

DepthOf == LET d[t \in Tracks] == IF IsPrimary(t) THEN 0 ELSE d[Parent(t)] + 1 IN d

\* The tracks on the way from t up to its primary, without t.
AncestorsOf ==
    LET a[t \in Tracks] == IF IsPrimary(t) THEN {} ELSE {Parent(t)} \union a[Parent(t)]
    IN  a

\* trajectoryFiltersSet: whether elossSRange is set is asked under a name that
\* no option has (Eloss for ELoss), so that it never is.
TrajectoryFiltersSet == cfg.set \ {"elossSRange"}

\* What IdentifyTrajectoriesForStorage finds a trajectory to match.  Filters not
\* set match nothing, but for the depth, which by default is that of primaries.
Matched(t) ==
    (IF IsPrimary(t) THEN {"primary"} ELSE {"secondary"} \intersect cfg.set)
        \union (IF DepthOf[t] <= cfg.depth THEN {"depth"} ELSE {})
        \union (event.matches[t] \intersect cfg.set)

\* Fault: only the parent is marked.
ConnectTrajectoryOnce(t) == {Parent(t)} \ {0}
\* ConnectTrajectory marks every trajectory up to the primary.
ConnectTrajectory(t) == AncestorsOf[t]

-----------------------------------------------------------------------------
Init ==
    /\ cfg \in Configs
    /\ event \in Events
    /\ pc = "identify"
    /\ interesting = [t \in Tracks |-> FALSE]
    /\ filters = [t \in Tracks |-> {}]
    /\ next = 1
    /\ trajIndex = [t \in Tracks |-> 0]
    /\ parentIndex = [t \in Tracks |-> -1]
    /\ parentStepIndex = [t \in Tracks |-> 0]
    /\ rows = <<>>
    /\ query = 0
    /\ ti = 0
    /\ history = <<>>

\* The loops over trajectories, energy deposition hits and sampler hits.
Identify ==
    /\ pc = "identify"
    /\ filters' = [t \in Tracks |-> Matched(t)]
    /\ interesting' = [t \in Tracks |-> Matched(t) # {}]
    /\ pc' = "logic"
    /\ UNCHANGED <<cfg, event, next, indices, rows, walk>>

MatchesAll(t) == TrajectoryFiltersSet \subseteq filters[t]

ApplyLogic ==
    /\ pc = "logic"
    /\ interesting' = [t \in Tracks |->
                         interesting[t] /\ (cfg.logicAND => MatchesAll(t))]
    /\ pc' = IF cfg.connect THEN "connect" ELSE "fill"
    /\ UNCHANGED <<cfg, event, filters, next, indices, rows, walk>>

\* One turn of the loop over the map: trajectories further on in it may have
\* been marked by those before.
ConnectNext ==
    /\ pc = "connect"
    /\ LET t == event.order[next]
           above == IF interesting[t] THEN ConnectTrajectory(t) ELSE {}
       IN  /\ interesting' = [u \in Tracks |-> interesting[u] \/ u \in above]
           /\ filters' = [u \in Tracks |-> IF u \in above THEN filters[u] \union {"connect"}
                                           ELSE filters[u]]
    /\ next' = next + 1
    /\ pc' = IF next = Len(event.order) THEN "fill" ELSE "connect"
    /\ UNCHANGED <<cfg, event, indices, rows, walk>>

-----------------------------------------------------------------------------
\* The trajectories stored, in the order of their addresses.
Stored == AtPlaces(event.order, {i \in Tracks : interesting[event.order[i]]})
Abs(i) == IF i < 0 THEN -i ELSE i

\* Rows are numbered from 0 in the order of the map; a trajectory that is not
\* stored has none.
AssignIndex(t) ==
    IF interesting[t] THEN (CHOOSE i \in DOMAIN Stored : Stored[i] = t) - 1 ELSE -1

AssignIndices ==
    /\ pc = "fill"
    /\ trajIndex' = [t \in Tracks |-> AssignIndex(t)]
    /\ pc' = "parents"
    /\ UNCHANGED <<cfg, event, choice, next, parentIndex, parentStepIndex, rows, walk>>

\* Whether the parent of t is looked at: only for a trajectory to be stored.
Refers(t) == interesting[t] /\ ~IsPrimary(t)

\* For a parent that is not stored it is the parent's own step index that is
\* put to -1, and the child's stays what it was.
AssignParents ==
    /\ pc = "parents"
    /\ parentIndex' = [t \in Tracks |-> IF Refers(t) THEN trajIndex[Parent(t)] ELSE -1]
    /\ parentStepIndex' =
         [t \in Tracks |->
            IF Refers(t) /\ trajIndex[Parent(t)] # -1 THEN event.start[t]
            ELSE IF trajIndex[t] = -1 /\ \E u \in Tracks : Refers(u) /\ Parent(u) = t THEN -1
            ELSE parentStepIndex[t]]
    /\ pc' = "rows"
    /\ UNCHANGED <<cfg, event, choice, next, trajIndex, rows, walk>>

\* Fault: the step on the parent is taken for that on the primary.
PrimaryStepOnParent ==
    LET f[t \in Tracks] == IF IsPrimary(t) THEN -1 ELSE parentStepIndex[t] IN f
\* findPrimaryStepIndex: up to the child of track 1.
FindPrimaryStepIndex ==
    LET f[t \in Tracks] == IF IsPrimary(t) THEN -1
                           ELSE IF Parent(t) = 1 THEN parentStepIndex[t]
                           ELSE f[Parent(t)]
    IN  f

\* The vectors are of unsigned integers, and take absolute values.
FillRows ==
    /\ pc = "rows"
    /\ rows' = [i \in DOMAIN Stored |->
                  LET t == Stored[i] IN
                  [track |-> t, parent |-> Parent(t),
                   parentIndex |-> Abs(parentIndex[t]),
                   parentStepIndex |-> Abs(parentStepIndex[t]),
                   primaryStepIndex |-> FindPrimaryStepIndex[t]]]
    /\ pc' = "written"
    /\ UNCHANGED <<cfg, event, choice, next, indices, walk>>

-----------------------------------------------------------------------------
NStoredPoints ==
    IF cfg.nStored = 0 \/ cfg.nStored >= NPoints THEN NPoints
    ELSE cfg.nStored + (IF cfg.andLast THEN 1 ELSE 0)

Row(i) == rows[i + 1]

\* processHistory(track).
AskHistory ==
    /\ pc = "written"
    /\ \E i \in DOMAIN rows : query' = rows[i].track /\ ti' = i - 1
    /\ pc' = "history"
    /\ UNCHANGED <<cfg, event, choice, next, indices, rows, history>>

\* Fault: the last point stored is taken to be beyond what is stored.
BeyondStoredEarly(psi) == psi >= NStoredPoints - 1
BeyondStored(psi) == psi > NStoredPoints

\* Fault: it goes on to a row whose parent index is -1, as if that were kept.
AtNoParent == Row(ti).parentIndex = -1
AtRowZero == ti = 0

\* One turn of its loop; the walk is over at row 0.  A walk that has gone over
\* more rows than there are goes round, and its points are no longer recorded.
HistoryStep ==
    /\ pc = "history" /\ ~AtRowZero
    /\ LET pi  == Row(ti).parentIndex
           psi == Row(ti).parentStepIndex
           at  == IF BeyondStored(psi) THEN 0 ELSE psi
       IN  IF pi >= Len(rows) \/ at = NStoredPoints
           THEN pc' = "outOfBounds" /\ UNCHANGED <<ti, history>>
           ELSE /\ ti' = pi
                /\ history' = IF Len(history) > Len(rows) THEN history
                              ELSE Append(history, [row |-> pi, step |-> at])
                /\ UNCHANGED pc
    /\ UNCHANGED <<cfg, event, choice, next, indices, rows, query>>

HistoryEnds ==
    /\ pc = "history" /\ AtRowZero
    /\ pc' = "done"
    /\ UNCHANGED <<cfg, event, choice, next, indices, rows, walk>>

Terminated ==
    /\ pc \in {"done", "outOfBounds"} \/ (pc = "written" /\ rows = <<>>)
    /\ UNCHANGED vars

Next ==
    \/ Identify \/ ApplyLogic \/ ConnectNext
    \/ AssignIndices \/ AssignParents \/ FillRows
    \/ AskHistory \/ HistoryStep \/ HistoryEnds \/ Terminated

\* One thread, with nothing to wait for.
Spec == Init /\ [][Next]_vars /\ WF_vars(Next)

-----------------------------------------------------------------------------
(***************************************************************************)
(* Properties.                                                             *)
(***************************************************************************)
IsWritten == pc \in {"written", "history", "done", "outOfBounds"}
StoredTracks == {rows[i].track : i \in DOMAIN rows}

\* What the options ask for: a trajectory that matches some filter, or with the
\* logical AND all those set.
Chosen(t) ==
    /\ IsPrimary(t) \/ "depth" \in Matched(t) \/ Matched(t) \intersect cfg.set # {}
    /\ cfg.logicAND => cfg.set \subseteq Matched(t)

AskedFor ==
    {t \in Tracks : Chosen(t) \/ (cfg.connect /\ \E u \in Tracks :
                                     Chosen(u) /\ t \in AncestorsOf[u])}

\* Stored are the trajectories chosen and, when they are to be connected, all
\* that lead to them, whatever the order of their addresses: every one once. Of
\* the filters that the logical AND combines elossSRange is not to be one.
AndKnowsAllSet == cfg.logicAND => "elossSRange" \notin cfg.set
StoredAsAsked ==
    IsWritten =>
        /\ AndKnowsAllSet => StoredTracks = AskedFor
        /\ \A i, j \in DOMAIN rows : rows[i].track = rows[j].track => i = j

\* The trajectory of the first generation that t is, or descends from.
FounderOf ==
    [t \in Tracks |-> CHOOSE u \in AncestorsOf[t] \union {t} : DepthOf[u] = 1]

\* The row of a trajectory whose parent is stored refers to the parent's row, and to
\* the point of it where it began, in whatever order the rows are; and one that goes
\* back to the first primary to the point where its way left that, if the primary
\* and the trajectory of the first generation on the way are stored.
RowsReferToParents ==
    IsWritten => \A i \in DOMAIN rows :
        LET r == rows[i] IN
        /\ r.parent \in StoredTracks =>
             /\ rows[r.parentIndex + 1].track = r.parent
             /\ r.parentStepIndex = event.start[r.track]
        /\ 1 \in AncestorsOf[r.track] /\ {1, FounderOf[r.track]} \subseteq StoredTracks =>
             r.primaryStepIndex = event.start[FounderOf[r.track]]

\* A walk that has ended has gone from the track asked for up through all its
\* ancestors, if these are stored, all points are, and row 0 is the primary.
ReachesPrimary ==
    /\ AncestorsOf[query] \subseteq StoredTracks
    /\ rows[1].track \in AncestorsOf[query] \union {query} /\ rows[1].parent = 0
HistoryIsAncestry ==
    pc = "done" /\ ReachesPrimary =>
        /\ Len(history) = DepthOf[query]
        /\ \A k \in DOMAIN history :
             LET child == IF k = 1 THEN query ELSE rows[history[k - 1].row + 1].track IN
             /\ rows[history[k].row + 1].track = event.parent[child]
             /\ NStoredPoints = NPoints => history[k].step = event.start[child]

\* Nothing is read beyond the points of a trajectory unless they are cut short;
\* and the walk up ends if row 0 is where it has to get to.
HistoryReturns ==
    (pc = "history" /\ ReachesPrimary) ~>
        (pc = "done" \/ (pc = "outOfBounds" /\ NStoredPoints < NPoints))

-----------------------------------------------------------------------------
(***************************************************************************)
(* What the manual says, and the program does not do.                      *)
(***************************************************************************)

\* "processHistory: A full history up the trajectory table to the primary for
\* a given track ID" (manual, output): the walk ends.
HistoryTerminates == pc = "history" ~> pc \in {"done", "outOfBounds"}

\* With the logical AND "only trajectories that meet all of the filters specified will
\* be stored" (output.rst:250-251), and with no connecting no others.
OnlyThoseThatMeetAll ==
    IsWritten /\ cfg.logicAND /\ ~cfg.connect =>
        \A t \in StoredTracks : cfg.set \subseteq Matched(t)

\* parentIndex is "The index in the vectors of this class that correspond to parent
\* particle" (output.rst:1372): a row that a secondary refers to is that of its parent.
ParentIndexIsOfParent ==
    IsWritten => \A i \in DOMAIN rows :
        LET r == rows[i] IN
        r.parent # 0 /\ r.parentIndex < Len(rows) => rows[r.parentIndex + 1].track = r.parent

\* primaryStepIndex is "The index of the step along the primary trajectory that that this
\* current trajectory ultimately traces back to" (output.rst:1379): whichever primary it is,
\* if it and the trajectory of the first generation are stored.
PrimaryStepOfEveryPrimary ==
    IsWritten => \A i \in DOMAIN rows :
        LET r == rows[i]
            f == FounderOf[r.track]
        IN  r.parent # 0 /\ {Parent(f), f} \subseteq StoredTracks =>
              r.primaryStepIndex = event.start[f]
=============================================================================
