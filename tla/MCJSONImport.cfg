SPECIFICATION FairSpec
CONSTANTS
    radar = radar
    adsb = adsb
    None = None
    Dbos = {radar, adsb}
    MaxOthers = 1
    Modulus = 8
    Files <- MCFiles
    NumObjects = 2
    MaxRuns = 2
    Texts <- MCTexts
INVARIANTS
    InsertsCounted
    RestStoresKnown
    PartsAreObjects
PROPERTIES
    FollowsPipeline
    EndLeavesFramesOnly
    ReadIsSettled
\* A run that does not end keeps the user from starting another one.
CHECK_DEADLOCK FALSE
