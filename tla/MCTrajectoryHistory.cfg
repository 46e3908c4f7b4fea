SPECIFICATION Spec
CONSTANTS
    Configs <- AllStored
    Events <- TwoTracks
    NPoints = 3
PROPERTIES
    HistoryTerminates
