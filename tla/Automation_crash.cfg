SPECIFICATION Spec
CONSTANTS
    Routines = {1}
    Slots = {0, 1, 2}
    Retention = 1
    Ahead = 1
    RequestMax = 3
    MaxClock = 3
    MaxStops = 2
    None = None
CHECK_DEADLOCK FALSE
INVARIANTS
    TypeOK
    AtMostOnce
    OneOpen
    ReceiptsMatch
PROPERTIES
    Forward
    KeptUntilReceipt
    Monotonic
