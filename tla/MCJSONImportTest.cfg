SPECIFICATION Spec
CONSTANTS
    radar = radar
    adsb = adsb
    None = None
    Dbos = {radar, adsb}
    MaxOthers = 0
    Modulus = 8
    Files <- MCFiles
    NumObjects = 2
    MaxRuns = 1
    Texts <- MCFiles
INVARIANT
    TestInsertsNothing
\* A run that does not end keeps the user from starting another one.
CHECK_DEADLOCK FALSE
