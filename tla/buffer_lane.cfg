SPECIFICATION FairSpec
CONSTANTS
    NumRecords = 3
    Last <- ThreeRecords
    FlushSize = 2
    BatchSize = 3
    MaxRetries = 1
    MaxBad = 1
    MaxFaults = 2
INVARIANTS
    TypeOK
    BufferIsTail
    NothingLost
    PoisonIsolated
PROPERTIES
    FirstWritesInOrder
    LaneDrains
CHECK_DEADLOCK FALSE
