\* Two original characters; three edits for one peer, two for two peers, with
\* every import, decision and prune between them.
CONSTANTS
    p = p
    q = q
    Peers = {p, q}
    a = a
    b = b
    Authors = {a, b}
    LengthAlone = 2
    LengthShared = 2
    MaxEditsAlone = 3
    MaxEditsShared = 2
    Unit = 64
SPECIFICATION Spec
INVARIANTS
    Attributed
    OrderKept
    NothingLost
SYMMETRY Symmetry
CHECK_DEADLOCK FALSE
