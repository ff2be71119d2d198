SPECIFICATION Spec
CONSTANTS
    Payload <- JobPayloads
    Session <- JobSession
    MaxDone = 6
INVARIANTS
    EverySessionHasItsRow
CHECK_DEADLOCK FALSE
