SPECIFICATION Spec
CONSTANTS
    DonePolicy = "clear"
    Workers = {w1}
    Nobody = Nobody
    Signals <- AnySignal
    MaxTasks = 3
    MaxRuns = 3
    MaxMessages = 0
    MaxFaults = 0
    FailThreshold = 2
PROPERTIES
    HardDoneReopens
CHECK_DEADLOCK FALSE
