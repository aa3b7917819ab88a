SPECIFICATION Spec
CONSTANTS
    MaxHeight = 8
    Forks = {2, 5}
    Interval = 4
    Spacing = 2
    MedianSpan = 3
    MaxFuture = 8
    PowLimit = 64
    MantissaLimit = 32
    Digit = 4
    AllowMinDifficulty = TRUE
    NoRetargeting = FALSE
    OverflowChecks = FALSE
    Modulus = 1024
    Granularity = 2
    Dense = 2
    MaxOdd = 3
CHECK_DEADLOCK FALSE
INVARIANTS
    TypeOK
    AncestorsRight
    LocatorFindsFork
    LocksStay
    TargetsOfInterval
