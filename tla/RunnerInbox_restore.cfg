SPECIFICATION Spec
CONSTANTS
    Chat = {1, 2, 3}
    Call = {}
    Note = {}
    Bytes <- UnitBytes
    Caps <- WideCaps
    BytesMax = 2
    InputMax = 1
    LedgerMax = 3
    Sessions = {1, 2, 3}
    Uncorrelated = FALSE
    Repeats = FALSE
    MaxStops = 1
    None = None
CHECK_DEADLOCK FALSE
INVARIANT RestartTakesAll
