\* Two documents, one row a page, one slot in the channel and in the map.
CONSTANTS
    MaxDoc = 2
    Queue = 1
    Page = 1
    Grace = 2
    Capacity = 1
    Ceiling = 1
    MaxFaults = 1
    MaxRequests = 1
SPECIFICATION Spec
INVARIANTS
    TypeOK
    SweepOwed
    Reminded
    RestorableIsWhole
PROPERTIES
    BacklogDrains
