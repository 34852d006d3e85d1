SPECIFICATION Spec
CONSTANTS
    DonePolicy = "clear"
    Workers = {w1}
    Nobody = Nobody
    Signals <- ReopenSignals
    MaxTasks = 6
    MaxRuns = 7
    MaxMessages = 0
    MaxFaults = 0
    FailThreshold = 2
INVARIANTS
    OneOpenTask
CHECK_DEADLOCK FALSE
