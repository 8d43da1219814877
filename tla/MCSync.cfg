\* A text and an asset in a folder, a repository or a companion's connection;
\* any two edits, faults or interruptions between a transfer and the next.
CONSTANTS
    p = p
    q = q
    Paths = {p, q}
    Assets = {q}
    MaxEvents = 2
SPECIFICATION Spec
INVARIANTS
    WebKept
    LocalKept
    BaselineWasThere
    NothingHidden
    PushRemembered
CHECK_DEADLOCK FALSE
