SPECIFICATION Spec
CONSTANTS
    DonePolicy = "fyi"
    Workers = {w1}
    Nobody = Nobody
    Signals <- AnySignal
    MaxTasks = 5
    MaxRuns = 3
    MaxMessages = 1
    MaxFaults = 2
    FailThreshold = 2
INVARIANTS
    TypeOK
    ActiveRowIsNamed
    PointerIsLive
    StateMatchesTask
    LeaksAreAccounted
    BurntKeysAreFailures
PROPERTIES
    CommittedKeyNeverReexecuted
    ReviewFreezes
    FollowsMatrix
CHECK_DEADLOCK FALSE
