\* Two drains and an ordinary flush, or two readers of two documents.
CONSTANTS
    d1 = d1
    d2 = d2
    t1 = t1
    t2 = t2
    t3 = t3
    None = None
    Tasks = {t1, t2, t3}
    Docs = {d1, d2}
    Drains = {t1, t2}
    Flushes = {t3}
    Readers = {t1, t2}
    Logs <- MCLogs
    Rows <- MCRows
    Limit = 2
    WordMax = 3
    Expansion = 1
    BuildExpansion = 1
    MaxBytes = 3
    MaxRounds = 2
    MaxCalls = 1
SPECIFICATION Spec
INVARIANTS
    Accounted
    NoMissedWakeup
PROPERTIES
    EventuallyServed
    OperationsEnd
\* Every round asked, nothing is left to do.
CHECK_DEADLOCK FALSE
