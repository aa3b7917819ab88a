SPECIFICATION Spec
CONSTANTS
    p1 = p1
    p2 = p2
    nobody = nobody
    Peer = {p1, p2}
    NoPeer = nobody
    Flaky = {p1}
    MaxHeight = 3
    FirstWorld = 3
    RecentFrom = 2
    OnDisk = {1}
    Worlds <- OneFlaw
    MaxHeaders = 2
    Window = 2
    PerPeer = 1
CHECK_DEADLOCK FALSE
INVARIANTS
    TypeOK
    RequestsMatch
    FetchedOnce
    VerifyingIsHarmless
