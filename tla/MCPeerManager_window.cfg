SPECIFICATION Spec
CONSTANTS
    p1 = p1
    p2 = p2
    nobody = nobody
    Peer = {p1, p2}
    NoPeer = nobody
    Flaky = {}
    MaxHeight = 3
    FirstWorld = 3
    RecentFrom = 0
    OnDisk = {0}
    Worlds <- Flawless
    MaxHeaders = 2
    Window = 2
    PerPeer = 1
CHECK_DEADLOCK FALSE
PROPERTIES
    BlocksArrive
