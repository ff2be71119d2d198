SPECIFICATION Spec
CONSTANTS
    Subtask = {s1}
    Event <- BlankIdEvents
    WindowSize = 60
    OutOfOrderness = 30
    MaxRecords = 3
    MaxRestarts = 0
    MaxDropped = 0
INVARIANTS
    SessionsKeptApart
CHECK_DEADLOCK FALSE
