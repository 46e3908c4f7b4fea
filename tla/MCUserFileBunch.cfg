SPECIFICATION Spec
CONSTANTS
    Configs <- MCConfigs
    BeamOns <- MCBeamOns
    MaxRuns = 2
    MaxIdlePasses = 2
INVARIANTS
    TypeOK
    EventsFollowFile
    NeverStarved
    MatchedRunCoversFile
    UncommentedRecreation
PROPERTIES
    RewindsOnlyAtEnd
    ProgramEnds
    ImplementsEventSource
