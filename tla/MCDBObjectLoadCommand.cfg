SPECIFICATION Spec
CONSTANTS
    None = None
    NumObjects = 2
    Chunks <- MCChunks
    MaxLoads = 2
    MaxStops = 1
    Results = "never"
INVARIANT
    CommandIsFree
\* The user need not load again.
CHECK_DEADLOCK FALSE
