SPECIFICATION FairSpec
CONSTANTS
    None = None
    NumObjects = 2
    Chunks <- MCChunks
    MaxLoads = 2
    MaxStops = 1
    Results = "never"
INVARIANTS
    DataIsOfLastLoad
    RestIsClean
PROPERTIES
    LoadEnds
\* The user need not load again.
CHECK_DEADLOCK FALSE
