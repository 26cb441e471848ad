SPECIFICATION FairSpec
CONSTANTS
    NumJobs = 3
    Prefetch = 2
    MaxQwenWorkers = 2
    RenderBuffer = 1
    MaxRuns = 2
INVARIANTS
    EveryJobAccounted
    NoReviewLost
    RowsClaimPublishedMasks
    NoWorkRepeated
    QcNeverWaits
    FatalStopsTheBatch
PROPERTIES
    Terminates
CHECK_DEADLOCK FALSE
