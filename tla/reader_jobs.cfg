SPECIFICATION FairSpec
CONSTANTS
    Task = {t1, t2}
    Message <- WholeAndEmpty
    JobOf <- WholeAndEmptyJobs
    Epoch <- FirstHour
    Horizon = 3
    Object = {"a", "b", "c", "d"}
    Archive <- ThreeHours
    PageSize = 2
    MaxFaults = 1
    MaxCrashes = 1
    MaxEarly = 1
INVARIANTS
    TypeOK
    SendsExplained
PROPERTIES
    IsForwarder
    JobsEnd
CHECK_DEADLOCK FALSE
