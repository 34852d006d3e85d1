SPECIFICATION Spec
CONSTANTS
    DonePolicy = "fyi"
    MaxDetected = 3
    Signals = {"deliverable", "reply", "replied", "explicit", "soft", "defer", "timer", "bulk", "fyi", "handoff", "due", "lag", "conflict", "failures"}
    InjectedSets = {{}, {"replied"}, {"handoff", "due"}}
    Targets <- MCTargets
INVARIANTS
    TypeOK
    NoContractError
    LowerTiersNeverDecide
    KeyFixesEffect
    ReviewStopsWriteback
    AskOpens
CHECK_DEADLOCK FALSE
