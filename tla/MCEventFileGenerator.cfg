SPECIFICATION Spec
CONSTANTS
    Configs <- MCConfigs
    BeamOns <- MCBeamOns
    MaxRuns = 2
INVARIANTS
    TypeOK
    MatchedRunReadsAll
    ShortRunOnlyAtEnd
    CrashOnlyPastOnePass
PROPERTIES
    ImplementsEventSource
