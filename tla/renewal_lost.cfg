SPECIFICATION FairSpec
CONSTANTS
    a = a
    b = b
    NoOne = NoOne
    Inst = {a, b}
    N = 2
    ErrorEnds = FALSE
    MaxCrashes = 0
    MaxHandoffs = 0
    MaxStalls = 0
    MaxRedisFaults = 0
    MaxPersistFaults = 0
    MaxRenewFaults = 1
CHECK_DEADLOCK FALSE
PROPERTY EventuallySettled
