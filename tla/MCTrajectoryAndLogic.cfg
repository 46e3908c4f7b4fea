SPECIFICATION Spec
CONSTANTS
    Configs <- AndOfTwo
    Events <- TwoMatched
    NPoints = 3
INVARIANTS
    OnlyThoseThatMeetAll
