SPECIFICATION Spec
CONSTANTS
    None = None
    NumObjects = 3
    Chunks <- MCChunks
    MaxLoads = 2
    MaxStops = 0
    Results = "idle"
INVARIANTS
    AllDataAnnounced
    FinishedOnce
    NothingAborts
PROPERTY
    KeepsPromise
\* The user need not load again.
CHECK_DEADLOCK FALSE
