SPECIFICATION Spec
CONSTANTS
    DonePolicy = "fyi"
    Mails <- MCMails
    MaxMails = 3
INVARIANTS
    TypeOK
    RulesAuthorizeNothing
    AsksAreHeld
    MachineMailIsFiled
    AskIsHeard
    ReviewHasACause
PROPERTIES
    FollowsMatrix
    AnswersSettle
    ReplyIsSeen
CHECK_DEADLOCK FALSE
