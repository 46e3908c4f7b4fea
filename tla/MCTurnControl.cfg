SPECIFICATION Spec
CONSTANTS
    Configs <- MCConfigs
    MaxCalls = 2
    MaxSecondaries = 2
INVARIANTS
    TypeOK
    StoppedAfterItsTurns
    MapFollowsPrimary
PROPERTIES
    RepeatedCallsAgree
    TrackEnds
