SPECIFICATION Spec
CONSTANTS
    short = short
    middle = middle
    long = long
    RecordType = "Block"
    Hash <- MCHash
    Size <- MCSize
    MaxFileLength = 7
    MaxFile = 2
    MaxCrashes = 2
CHECK_DEADLOCK FALSE
INVARIANTS
    TypeOK
    ListedCanBeRead
    PruningCostsOne
PROPERTY
    RebuildFindsAll
