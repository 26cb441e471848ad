SPECIFICATION Spec
CONSTANTS
    e1 = e1
    e2 = e2
    e3 = e3
    Worker = {w1, w2}
    EpisodeIds <- TwoEpisodes
    MaxEpisodeAttempts = 2
    MaxStartupAttempts = 2
    MaxIdleRestarts = 1
PROPERTIES
    LostWorkerIsContained
CHECK_DEADLOCK FALSE
