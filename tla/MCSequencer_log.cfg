\* One server: two browsers with an edit each, or one with two, and both snapshot
\* modes: rows, base and buffer against the vectors, and what a join, a relay
\* and a cold build must carry.
CONSTANTS
    c1 = c1
    c2 = c2
    r1 = r1
    s1 = s1
    s2 = s2
    NoOne = NoOne
    Servers = {s1}
    Clients = {c1, c2}
    Peers = {c1, c2, r1}
    Modes = {"full", "shallow"}
    MaxOps = 2
    MaxFaults = 2
    CompactionOutlivesFence = FALSE
SPECIFICATION Spec
CONSTRAINT FewEdits
SYMMETRY Browsers
INVARIANTS
    TypeOK
    LogBacked
    HeadBacked
    AppliedOnce
    InSync
    CacheAtHead
\* Once every edit is made and every fault spent nothing need happen.
CHECK_DEADLOCK FALSE
