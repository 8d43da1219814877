\* A room over a fenced sequencer is handed out to whoever reconnects.
CONSTANTS
    t1 = t1
    t2 = t2
    t3 = t3
    q1 = q1
    q2 = q2
    q3 = q3
    x1 = x1
    x2 = x2
    x3 = x3
    None = None
    Tasks = {t1}
    Sequencers = {q1, q2, q3}
    Slots = {x1, x2, x3}
    MaxFailures = 0
SPECIFICATION Spec
PROPERTY
    ReconnectReaches
