SPECIFICATION LoadTestSpec
CONSTANTS
    Task = {t1}
    Reader = {r1}
    JobMessage = {"job"}
    JobOf <- OneJob
    Epoch <- FirstHour
    Horizon = 1
    Object = {"b"}
    Archive <- OneHour
    PageSize = 1
    Message <- MCMessage
    Malformed <- MCMalformed
    Content <- MCContent
    MaxMessages = 1
    MaxFaults = 1
    MaxCrashes = 1
    MaxEarly = 1
INVARIANTS
    TypeOK
    GoneJobsAreDone
PROPERTIES
    IsForwarder
CHECK_DEADLOCK FALSE
