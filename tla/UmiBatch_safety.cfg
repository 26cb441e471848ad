SPECIFICATION Spec
CONSTANTS
    e1 = e1
    e2 = e2
    g1 = g1
    g2 = g2
    w1 = w1
    w2 = w2
    Episodes <- TwoEpisodes
    Groups <- TwoGroups
    Answer = {"left", "right"}
    Worker <- GPUs
    MaxCommands = 5
    MaxFaults = 1
    MaxStarts = 2
    MaxKills = 1
    MaxAlive = 2
SYMMETRY WorkerSymmetry
CONSTRAINT Scope
INVARIANTS
    ConversionKept
    PlanIsBacked
    ReviewShowsMasks
    FinishedIsWhole
PROPERTIES
    RefusedForAReason
CHECK_DEADLOCK FALSE
