\* Two tasks, a list of one record or of two of which one is shown again, and
\* any two faults, cancellations, requests, stops or flushes.
SPECIFICATION Spec
CONSTANTS
    Tasks = {t1, t2}
    NoTask = NoTask
    Limits <- MCLimits
    MaxPendingInput = 1
    MaxEvents = 2
INVARIANTS TypeOK DispatchedOnce GrantsInTurn ShownAsRecorded NotStranded CancelEnds
PROPERTY OutcomeStays
CHECK_DEADLOCK FALSE
