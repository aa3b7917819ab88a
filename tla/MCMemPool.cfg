SPECIFICATION Spec
CONSTANTS
    a = a
    x = x
    d = d
    j = j
    y = y
    m = m
    none = none
    Tx <- MCTx
    NoTx = none
    Out <- Outpoints
    Ins <- MCIns
    Outs <- MCOuts
    Base = {"o", "p", "r"}
    Coinbase = {"r"}
    Maturity = 2
    LockTime <- MCLocks
    Bad = {}
    MaxHeight = 4
    MaxTxs = 3
INVARIANTS
    TypeOK
    InputsInSpents
    SpentsMatch
    NoOrphans
    TakesBack
PROPERTY
    LeavesForCause
