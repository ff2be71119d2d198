SPECIFICATION Spec
CONSTANTS
    e1 = e1
    e2 = e2
    o1 = o1
    o2 = o2
    o3 = o3
    S3Event = {e1, e2}
    Object = {o1, o2, o3}
    Records <- TwoEvents
    MaxTries = 2
    MaxFaults = 3
INVARIANTS
    RecountsExplained
PROPERTIES
    IsForwarder
CHECK_DEADLOCK FALSE
