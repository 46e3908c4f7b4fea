SPECIFICATION Spec
CONSTANTS
    Configs <- NamedConfigs
    BeamOns <- MCBeamOns
    MaxRuns = 2
INVARIANTS
    NamedFileOverwritten
