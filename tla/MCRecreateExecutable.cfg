SPECIFICATION Spec
CONSTANTS
    Configs <- PlainFile
    BeamOns = {1}
    MaxRuns = 1
    MaxIdlePasses = 1
INVARIANTS
    RecreationReproduces
