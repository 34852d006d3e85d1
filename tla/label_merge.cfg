SPECIFICATION Spec
CONSTANTS
    MaxAttempts = 2
    Labels = {act, waiting}
    UserCats = {work}
    MaxEdits = 1
    MaxJobs = 2
    MaxFaults = 1
    MaxTokens = 1
INVARIANTS
    TypeOK
    OneLabel
    EtagVouches
    FreshTokenIsTried
PROPERTIES
    LostEditsAreAccounted
    AppliedLabelShows
    JobEnds
CHECK_DEADLOCK FALSE
