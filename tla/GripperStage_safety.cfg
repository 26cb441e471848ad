SPECIFICATION GripperSpec
CONSTANTS
    LastFrame = 10
    Levels = {0, 1, 2}
    ClosedLevel = 0
    OpenLevel = 2
    StableFrames = 2
    SeedCount = 2
    SeedMargin = 1
    MaxPrompts = 2
    Signals <- MCSignals
    OtherSignals <- MCOtherSignals
    VideoWindows <- MCVideoWindows
INVARIANTS
    OnlyAdjacentGesturesAreMissed
    StagesAgree
    AcceptedMaskIsTracked
    KnownWrongPixelsStayOut
    GripperSeedIsLeastBad
CHECK_DEADLOCK FALSE
