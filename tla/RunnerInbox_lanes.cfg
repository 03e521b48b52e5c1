SPECIFICATION FairSpec
CONSTANTS
    Chat = {1}
    Call = {2}
    Note = {3, 4}
    Bytes <- UnitBytes
    Caps <- WideCaps
    BytesMax = 9
    InputMax = 1
    LedgerMax = 2
    Sessions = {1, 2, 3}
    Uncorrelated = FALSE
    Repeats = FALSE
    MaxStops = 1
    None = None
CHECK_DEADLOCK FALSE
INVARIANTS
    TypeOK
    OneUnconsumed
PROPERTY EveryChatSettles
