SPECIFICATION Spec
CONSTANTS
    Configs <- NotConnected
    Events <- ThreeMatched
    NPoints = 3
INVARIANTS
    ParentIndexIsOfParent
