SPECIFICATION SpecStop
CONSTANTS
    a = a
    b = b
    NoOne = NoOne
    Inst = {a, b}
    N = 3
    ErrorEnds = FALSE
    MaxCrashes = 0
    MaxHandoffs = 0
    MaxStalls = 0
    MaxRedisFaults = 0
    MaxPersistFaults = 0
    MaxRenewFaults = 0
    MaxStops = 1
CHECK_DEADLOCK FALSE
SYMMETRY Symmetry
INVARIANT ObserversSeeAnswer
