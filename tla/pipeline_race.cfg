SPECIFICATION Spec
CONSTANTS
    DonePolicy = "clear"
    Workers = {w1, w2}
    Nobody = Nobody
    Signals <- RaceSignals
    MaxTasks = 5
    MaxRuns = 4
    MaxMessages = 0
    MaxFaults = 1
    FailThreshold = 2
INVARIANTS
    LeaksAreAccounted
    BurntKeysAreFailures
PROPERTIES
    CommittedKeyNeverReexecuted
    LockIsReleased
CHECK_DEADLOCK FALSE
