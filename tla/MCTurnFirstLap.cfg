SPECIFICATION Spec
CONSTANTS
    Configs <- OneLongRing
    MaxCalls = 2
    MaxSecondaries = 1
INVARIANTS
    MappedOnUnscatteredLaps
