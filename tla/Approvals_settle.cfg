SPECIFICATION Spec
CONSTANTS
    r1 = r1
    r2 = r2
    v = v
    f = f
    s = s
    post = post
    other = other
    speech = speech
    c = c
    d = d
    None = None
    Requests = {r1, r2}
    Server = {}
    Foreign = {}
    Actions = {post, other}
    Calls = {}
    Wants <- MCWants
    Shows <- MCShows
    Target <- MCTarget
    Access <- MCAccess
    PendingMax = 2
    GrantsMax = 2
    PromptTTL = 1
    GrantTTL = 1
    RecentTTL = 1
    MaxFaults = 1
    Scenarios <- MCScenarios
INVARIANT
    SettledWasClosed
