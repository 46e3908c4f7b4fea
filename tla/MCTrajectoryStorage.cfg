SPECIFICATION Spec
CONSTANTS
    Configs <- MCConfigs
    Events <- MCEvents
    NPoints = 3
INVARIANTS
    StoredAsAsked
    RowsReferToParents
    HistoryIsAncestry
PROPERTIES
    HistoryReturns
