CONSTANTS
    m1 = m1
    m2 = m2
    qwen = qwen
    other = other
    Managers = {m1, m2}
    Models = {qwen, other}
    MaxSignals = 2
    MaxKills = 1
SPECIFICATION FairSpec
CHECK_DEADLOCK FALSE
INVARIANTS
    AbandonedServersWereInterrupted
    RunEndsBeforeItsServer
PROPERTIES
    SignalledManagersLeave
