SPECIFICATION Spec
CONSTANTS
    a = a
    b = b
    NoOne = NoOne
    Inst = {a, b}
    N = 3
    ErrorEnds = FALSE
    MaxCrashes = 1
    MaxHandoffs = 0
    MaxStalls = 0
    MaxRedisFaults = 1
    MaxPersistFaults = 1
    MaxRenewFaults = 0
CHECK_DEADLOCK FALSE
SYMMETRY Symmetry
INVARIANT WatermarkCoversSnapshot
