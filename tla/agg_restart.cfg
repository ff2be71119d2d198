SPECIFICATION FairSpec
CONSTANTS
    Subtask = {s1, s2}
    Event <- RestartEvents
    WindowSize = 60
    OutOfOrderness = 30
    MaxRecords = 3
    MaxRestarts = 1
    MaxDropped = 1
INVARIANTS
    LostOnlyByPut
    UsedOnce
PROPERTIES
    PassedWindowsFire
CHECK_DEADLOCK FALSE
