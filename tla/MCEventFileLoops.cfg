SPECIFICATION Spec
CONSTANTS
    Configs <- SkipConfigs
    BeamOns <- MCBeamOns
    MaxRuns = 2
INVARIANTS
    FileRepeatedNTimes
