SPECIFICATION FairSpec
CONSTANTS
    e1 = e1
    e2 = e2
    e3 = e3
    Worker = {w1, w2}
    EpisodeIds <- OneEpisode
    MaxEpisodeAttempts = 2
    MaxStartupAttempts = 2
    MaxIdleRestarts = 1
PROPERTIES
    Terminates
    OrphansExit
CHECK_DEADLOCK FALSE
