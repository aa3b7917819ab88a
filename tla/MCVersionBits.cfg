SPECIFICATION Spec
CONSTANTS
    Window = 2
    Threshold = 2
    StartTime = 1
    Timeout = 2
    MinActivation = 6
    Times = {0, 1, 2}
    MaxBlocks = 8
    MaxDetours = 2
    Ahead = 1
INVARIANTS
    TypeOK
    CacheCorrect
    PeriodsAgree
