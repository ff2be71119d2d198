SPECIFICATION DeadLettersSpec
CONSTANTS
    r1 = r1
    Server = {s1}
    ServerFaults = 2
    ServerCrashes = 0
    Request = {r1}
    Body <- OneBatch
    Encrypts = FALSE
    Quiet = 1
    Threshold = 1
    Task = {t1}
    Message <- OneBatchOf
    MaxMessages = 1
    MaxFaults = 1
    MaxCrashes = 1
    MaxEarly = 1
INVARIANTS
    EventsAccounted
    PutsExplained
PROPERTIES
    IsForwarder
    DeadLettersReplayed
CHECK_DEADLOCK FALSE
