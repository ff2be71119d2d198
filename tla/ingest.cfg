SPECIFICATION FairSpec
CONSTANTS
    t1 = t1
    t2 = t2
    r1 = r1
    r2 = r2
    r3 = r3
    Task = {t1, t2}
    Request = {r1, r2, r3}
    Body <- ThreeBatches
    Encrypts = TRUE
    Quiet = 3
    Threshold = 2
    MaxFaults = 1
    MaxCrashes = 1
INVARIANTS
    TypeOK
    HealthFollowsErrors
    OfferedPrefix
PROPERTIES
    IsForwarder
    AllAnswered
    AllReturn
CHECK_DEADLOCK FALSE
