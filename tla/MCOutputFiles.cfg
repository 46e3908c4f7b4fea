SPECIFICATION Spec
CONSTANTS
    Configs <- MCConfigs
    BeamOns <- MCBeamOns
    MaxRuns = 2
INVARIANTS
    TypeOK
    EveryEventInItsFile
    FilesHoldNPerFile
    HeadersAddUp
    HistogramSetPerFile
    KillLosesLessThanAFile
PROPERTIES
    OldFilesKept
