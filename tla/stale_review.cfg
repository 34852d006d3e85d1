SPECIFICATION Spec
CONSTANTS
    DonePolicy = "clear"
    Workers = {w1, w2}
    Nobody = Nobody
    Signals <- ReviewSignals
    MaxTasks = 3
    MaxRuns = 3
    MaxMessages = 0
    MaxFaults = 0
    FailThreshold = 2
PROPERTIES
    ReviewFreezes
CHECK_DEADLOCK FALSE
