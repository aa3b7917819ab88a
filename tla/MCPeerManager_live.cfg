SPECIFICATION Spec
CONSTANTS
    p1 = p1
    p2 = p2
    nobody = nobody
    Peer = {p1, p2}
    NoPeer = nobody
    Flaky = {p1}
    MaxHeight = 2
    FirstWorld = 1
    RecentFrom = 2
    OnDisk = {0, 1}
    Worlds <- Flawless
    MaxHeaders = 3
    Window = 2
    PerPeer = 1
CHECK_DEADLOCK FALSE
PROPERTIES
    BlocksArrive
    DisconnectsHappen
