SPECIFICATION FairSpec
CONSTANTS
    Plans <- MCPlans
    MaxRows = 2
    MaxOpens = 3
    MaxRuns = 2
    None = None
INVARIANTS
    TypeOK
    DoneHasSeenRows
    PrerequisitesHold
    StartIsCurrent
PROPERTIES
    AutomaticTasksEnd
\* The user may do nothing more, and an assertion may fail.
CHECK_DEADLOCK FALSE
