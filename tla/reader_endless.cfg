SPECIFICATION FairSpec
CONSTANTS
    Task = {t1, t2}
    Message <- LastAndBack
    JobOf <- LastAndBackJobs
    Epoch <- FirstHour
    Horizon = 3
    Object = {"a", "b", "c", "d"}
    Archive <- ThreeHours
    PageSize = 2
    MaxFaults = 0
    MaxCrashes = 0
    MaxEarly = 1
PROPERTIES
    JobsEnd
CHECK_DEADLOCK FALSE
