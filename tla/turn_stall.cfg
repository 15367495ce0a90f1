SPECIFICATION Spec
CONSTANTS
    a = a
    b = b
    NoOne = NoOne
    Inst = {a, b}
    N = 2
    ErrorEnds = FALSE
    MaxCrashes = 0
    MaxHandoffs = 0
    MaxStalls = 2
    MaxRedisFaults = 0
    MaxPersistFaults = 1
    MaxRenewFaults = 1
CHECK_DEADLOCK FALSE
CONSTRAINT OneListenerLost
SYMMETRY Symmetry
INVARIANT UndisturbedAnswerComplete
PROPERTY KeepsPromise
