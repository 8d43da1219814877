\* A compaction whose sequencer was fenced and replaced while the blob was
\* being written activates its base behind the new sequencer's back.
CONSTANTS
    c1 = c1
    c2 = c2
    r1 = r1
    s1 = s1
    s2 = s2
    NoOne = NoOne
    Servers = {s1}
    Clients = {c1, c2}
    Peers = {c1, c2, r1}
    Modes = {"full"}
    MaxOps = 2
    MaxFaults = 1
    CompactionOutlivesFence = TRUE
SPECIFICATION Spec
INVARIANT
    InSync
CHECK_DEADLOCK FALSE
