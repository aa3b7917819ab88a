SPECIFICATION RestartSpec
CONSTANTS
    Window = 2
    Threshold = 2
    StartTime = 1
    Timeout = 2
    MinActivation = 6
    Times = {0, 1, 2}
    MaxBlocks = 9
    MaxDetours = 1
    Ahead = 1
INVARIANT
    PeriodsAgree
