SPECIFICATION Spec
CONSTANTS
    NumEpisodes = 2
    NumConfigs = 2
    MaxRuns = 3
    MaxCrashes = 1
    MaxChanges = 1
INVARIANTS
    CompleteRecordsStand
    PublicTreesAreDerived
    PassedMeansPublished
PROPERTIES
    RecordsAreImmutable
CHECK_DEADLOCK FALSE
