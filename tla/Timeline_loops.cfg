SPECIFICATION Spec
CONSTANTS
    LastFrame = 9
    Levels = {0, 1, 2}
    ClosedLevel = 0
    OpenLevel = 2
    StableFrames = 2
    SeedCount = 2
    SeedMargin = 1
    Signals <- MCSignals
    OtherSignals <- MCOtherSignals
    VideoWindows <- MCVideoWindows
INVARIANTS
    NoGestureIgnored
CHECK_DEADLOCK FALSE
