SPECIFICATION Spec
CONSTANTS
    Files <- InTwoDepths
    Names <- MCNames
    Tunnel = "tunnel"
    None = None
    MaxIterations = 4
    MaxLength = 12
CHECK_DEADLOCK FALSE
PROPERTIES
    RangeByRule
