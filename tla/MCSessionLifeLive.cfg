SPECIFICATION FairSpec
CONSTANTS
    SessionCount = 1
    MaxSid = 2
    CloseCap = 8
    NoticeCap = 2
    MaxSendErrors = 0
    StalledMove = FALSE
    EarlyKick = FALSE

    
PROPERTY
    MarkedIsRecycled
CHECK_DEADLOCK FALSE
