SPECIFICATION Spec
CONSTANTS
    Configs <- AllStored
    Events <- ThreeTracks
    NPoints = 3
INVARIANTS
    PrimaryStepOfEveryPrimary
