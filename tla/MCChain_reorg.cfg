SPECIFICATION Spec
CONSTANTS
    g = g
    p = p
    a1 = a1
    a2 = a2
    b1 = b1
    b2 = b2
    b3 = b3
    e1 = e1
    e2 = e2
    none = none
    c = c
    d = d
    x = x
    y = y
    cb = cb
    w = w
    Block <- MCBlock
    Genesis = g
    NoBlock = none
    Prev <- MCPrev
    Height <- Depth
    ChainWork <- Depth
    MaxHeight = 4
    Coin <- MCCoin
    Creates <- MCCreates
    Spends <- MCSpends
    Coinbase = {cb, w}
    Maturity = 2
    BadBody = {e1}
    BadInputs = {}
    Utxo <- MCUtxo
    MaxCrashes = 1
CHECK_DEADLOCK FALSE
INVARIANTS
    TypeOK
    MainChainIndexed
    CoinsAreReplay
    MainChainVerified
    HeaderTipsAreLeaves
PROPERTIES
    DisconnectOnlyForMoreWork
    ImplementsLedger
    CallsEnd
