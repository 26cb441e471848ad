SPECIFICATION Spec
CONSTANTS
    NumEpisodes = 2
    Workers = 1
    MaxEpisodeAttempts = 2
    MaxRuns = 2
    MaxFaults = 2
INVARIANTS
    CompleteIsWhole
    SummaryIsTrue
    ReceiptFreezesEpisode
CHECK_DEADLOCK FALSE
