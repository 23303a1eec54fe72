SPECIFICATION FairSpec
CONSTANTS
    r = r
    t = t
    None = None
    NumChunks = 3
    Dbos = {r, t}
    Contents <- MCFull
PROPERTY
    PausedIsUnpaused
\* The import is over, or its decoder stays paused.
CHECK_DEADLOCK FALSE
