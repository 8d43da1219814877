\* Two callers of Registry::get, the sweeper, fences and a failed admission.
CONSTANTS
    t1 = t1
    t2 = t2
    t3 = t3
    q1 = q1
    q2 = q2
    q3 = q3
    x1 = x1
    x2 = x2
    x3 = x3
    None = None
    Tasks = {t1, t2}
    Sequencers = {q1, q2, q3}
    Slots = {x1, x2, x3}
    MaxFailures = 1
SPECIFICATION Spec
INVARIANTS
    TypeOK
    OneSequencer
PROPERTIES
    GetReturns
