SPECIFICATION Spec
CONSTANTS
    States = {1, 2}
    Procs = {1, 2, 3}
    Calls = {}
    MaxFails = 2
    MaxReloads = 2
    MaxRefused = 1
    None = None
CHECK_DEADLOCK FALSE
INVARIANT OneProcess
