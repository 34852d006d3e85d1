SPECIFICATION Spec
CONSTANTS
    DonePolicy = "fyi"
    Mails <- MCMails
    MaxMails = 2
PROPERTIES
    EveryReplyIsSeen
CHECK_DEADLOCK FALSE
