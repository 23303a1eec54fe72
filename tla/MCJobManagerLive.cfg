SPECIFICATION FairSpec
CONSTANTS
    d1 = d1
    d2 = d2
    b1 = b1
    n1 = n1
    n2 = n2
    None = None
    Jobs = {d1, b1, n1}
    Threads = 1
    WaitsForMain = {b1}
    KindOf <- MCKindOf
PROPERTIES
    EveryJobReported
    ShutdownEnds
\* The main thread leaves the model when shutdown() is over.
CHECK_DEADLOCK FALSE
