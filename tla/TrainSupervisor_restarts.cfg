SPECIFICATION FairSpec
CONSTANTS
    States = {1, 2}
    Procs = {1, 2, 3, 4}
    Calls = {c1}
    MaxFails = 2
    MaxReloads = 3
    MaxRefused = 1
    None = None
CHECK_DEADLOCK FALSE
INVARIANTS
    TypeOK
    Tracked
    NoHangingCall
PROPERTIES
    GivesUp
    WantedRuns
