SPECIFICATION FairSpec
CONSTANTS
    Task = {t1, t2}
    Message <- TwoMessages
    Malformed = {}
    Content <- TwoContent
    MaxMessages = 1
    MaxFaults = 1
    MaxCrashes = 1
    MaxEarly = 1
INVARIANTS
    TypeOK
PROPERTIES
    IsForwarder
    EventuallyDeleted
CHECK_DEADLOCK FALSE
