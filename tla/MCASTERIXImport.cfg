SPECIFICATION FairSpec
CONSTANTS
    r = r
    t = t
    None = None
    NumChunks = 4
    Dbos = {r, t}
    Contents <- MCContents
INVARIANTS
    TypeOK
    InsertsCounted
    RestIsDone
PROPERTIES
    FollowsPipeline
    EndsUnlessPaused
\* The import is over, or its decoder stays paused.
CHECK_DEADLOCK FALSE
