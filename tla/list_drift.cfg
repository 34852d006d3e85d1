SPECIFICATION Spec
CONSTANTS
    DonePolicy = "clear"
    Workers = {w1}
    Nobody = Nobody
    Signals <- AskSignals
    MaxTasks = 4
    MaxRuns = 4
    MaxMessages = 0
    MaxFaults = 0
    FailThreshold = 2
INVARIANTS
    ListFollowsBucket
CHECK_DEADLOCK FALSE
