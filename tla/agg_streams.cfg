SPECIFICATION Spec
CONSTANTS
    Subtask = {s1, s2}
    Event <- StreamEvents
    WindowSize = 60
    OutOfOrderness = 30
    MaxRecords = 5
    MaxRestarts = 0
    MaxDropped = 0
INVARIANTS
    TypeOK
    MinutesInOrder
    LateMeansOverdue
    SessionContents
    OnePlayPerWindow
SYMMETRY Symmetry
CHECK_DEADLOCK FALSE
