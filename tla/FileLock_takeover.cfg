SPECIFICATION Spec
CONSTANTS
    p = p
    q = q
    r = r
    Procs = {p, q, r}
    None = None
    Grace = 1
    Stale = 2
    MaxAge = 0
    MaxCrashes = 0
    MaxFull = 0
INVARIANT
    OneHolder
