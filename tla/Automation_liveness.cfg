SPECIFICATION FairSpec
CONSTANTS
    Routines = {1, 2}
    Slots = {1}
    Retention = 1
    Ahead = 1
    RequestMax = 2
    MaxClock = 2
    MaxStops = 1
    None = None
CHECK_DEADLOCK FALSE
PROPERTY EverySlotSettles
