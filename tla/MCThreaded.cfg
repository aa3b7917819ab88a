SPECIFICATION Spec
CONSTANTS
    p1 = p1
    p2 = p2
    m = m
    t = t
    Peer = {p1, p2}
    Maintainer = m
    Tx = {t}
    Height = 2
    Window = 1
    HeadersFull = 2
    CompactLimit = 1
    PeerLimit = 2
    RecentFrom = 1
    MaxFailures = 1
SYMMETRY Symmetry
INVARIANTS
    TypeOK
    AddedOnce
    BooksAgree
    DeadlocksByInversion
CHECK_DEADLOCK FALSE
