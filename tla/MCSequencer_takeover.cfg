\* Two servers: crash, lost lock and takeover by the next epoch; with
\* finitely many failures every edit ends up saved.
CONSTANTS
    c1 = c1
    c2 = c2
    r1 = r1
    s1 = s1
    s2 = s2
    NoOne = NoOne
    Servers = {s1, s2}
    Clients = {c1}
    Peers = {c1, r1}
    Modes = {"full"}
    MaxOps = 1
    MaxFaults = 2
    CompactionOutlivesFence = FALSE
SPECIFICATION FairSpec
INVARIANTS
    AnnouncedDurable
PROPERTIES
    EditsSaved
    DurableGrows
    ImplementsDurableLog
\* Once every edit is made and every fault spent nothing need happen.
CHECK_DEADLOCK FALSE
