CONSTANTS
    a = a
    b = b
    Null = Null
    Names <- MCNames
    Configs <- MCConfigs
    Beams <- MCBeams
    Outcomes <- MCOutcomes
    MaxJaws = 2
    MaxVisits = 2
    MaxBunch = 2
SPECIFICATION Spec
PROPERTY LengthIsOfTheNamed
CHECK_DEADLOCK FALSE
