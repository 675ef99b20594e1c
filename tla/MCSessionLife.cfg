SPECIFICATION Spec
CONSTANTS
    SessionCount = 1
    MaxSid = 2
    CloseCap = 8
    NoticeCap = 2
    MaxSendErrors = 1
    StalledMove = FALSE
    EarlyKick = TRUE
INVARIANTS
    OnePlace
    
    
    
    FoundByItsOwnId

    
CHECK_DEADLOCK FALSE
