SPECIFICATION Spec
CONSTANTS
    Files <- MCFiles
    Names <- MCNames
    Tunnel = "tunnel"
    None = None
    MaxIterations = 4
    MaxLength = 12
CHECK_DEADLOCK FALSE
INVARIANTS
    TypeOK
    ExpandsToDefinition
    InstancesByDepth
    SamplersBesideTheirNames
PROPERTIES
    RangeKept
