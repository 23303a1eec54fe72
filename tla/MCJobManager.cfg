SPECIFICATION Spec
CONSTANTS
    d1 = d1
    d2 = d2
    b1 = b1
    n1 = n1
    n2 = n2
    None = None
    Jobs = {d1, d2, n1, n2}
    Threads = 2
    WaitsForMain = {}
    KindOf <- MCKindOf
SYMMETRY MCSymmetry
INVARIANTS
    TypeOK
    DoneOrder
    OneLiveJobPerQueue
    PoolJobsAreHeld
    ReportedOnce
    ShutdownSettlesAll
    IdleWhenNoneAtWork
PROPERTY
    KeepsJobOrder
\* The main thread leaves the model when shutdown() is over.
CHECK_DEADLOCK FALSE
