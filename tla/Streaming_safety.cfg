SPECIFICATION FairSpec
CONSTANTS
    e1 = e1
    e2 = e2
    e3 = e3
    EpisodeIds <- ThreeEpisodes
    BufferSize = 1
    PipeSize = 2
INVARIANTS
    StreamConserved
    BackPressure
    ReturnedIsWhole
    NoChildLeft
PROPERTIES
    Terminates
CHECK_DEADLOCK FALSE
