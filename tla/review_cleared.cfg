SPECIFICATION Spec
CONSTANTS
    DonePolicy = "clear"
    Workers = {w1}
    Nobody = Nobody
    Signals <- ReviewSignals
    MaxTasks = 3
    MaxRuns = 3
    MaxMessages = 0
    MaxFaults = 0
    FailThreshold = 2
PROPERTIES
    ClearedReviewRuns
CHECK_DEADLOCK FALSE
