SPECIFICATION FairStop
CONSTANTS
    a = a
    b = b
    NoOne = NoOne
    Inst = {a, b}
    N = 2
    ErrorEnds = FALSE
    MaxCrashes = 0
    MaxHandoffs = 0
    MaxStalls = 0
    MaxRedisFaults = 1
    MaxPersistFaults = 1
    MaxRenewFaults = 0
    MaxStops = 2
CHECK_DEADLOCK FALSE
INVARIANTS StopTypeOK UnwrittenAnswerHeldByOther
PROPERTY StopSettles
