SPECIFICATION FairSpec
CONSTANTS
    w = w
    c = c
    x = x
    Workers = {w}
    Chats = {c}
    Turns = {x}
    Reminders = {1, 2}
    Tokens = {1, 2, 3, 4}
    TaskLimit = 2
    NoticeDeliveries = 1
    BatchMax = 2
    NoteCap = 1
    Unstamped = FALSE
    MaxWork = 3
    MaxStops = 1
    HeldMax = 2
    None = None
CHECK_DEADLOCK FALSE
INVARIANTS
    TypeOK
    FileReadable
    HandledStays
    EachAttemptCounts
PROPERTIES
    KeepsDuty
    RemindersBreedNothing
    EveryDutyTold
