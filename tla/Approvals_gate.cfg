SPECIFICATION FairSpec
CONSTANTS
    r1 = r1
    r2 = r2
    v = v
    f = f
    s = s
    post = post
    other = other
    speech = speech
    c = c
    d = d
    None = None
    Requests = {r1, r2, v, f, s}
    Server = {s}
    Foreign = {f}
    Actions = {post, other, speech}
    Calls = {c, d}
    Wants <- MCWants
    Shows <- MCShows
    Target <- MCTarget
    Access <- MCAccess
    Scenarios <- MCScenarios
    PendingMax = 2
    GrantsMax = 1
    PromptTTL = 1
    GrantTTL = 1
    RecentTTL = 2
    MaxFaults = 1
INVARIANTS
    TypeOK
    OwnerDecides
    WaitingIsHeld
PROPERTIES
    RevokedLetsNothingThrough
    EveryAskSettles
