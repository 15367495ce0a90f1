SPECIFICATION FairSpec
CONSTANTS
    a = a
    b = b
    NoOne = NoOne
    Inst = {a, b}
    N = 2
    ErrorEnds = TRUE
    MaxCrashes = 1
    MaxHandoffs = 1
    MaxStalls = 0
    MaxRedisFaults = 0
    MaxPersistFaults = 0
    MaxRenewFaults = 0
CHECK_DEADLOCK FALSE
INVARIANTS OneConsumer ReleasedWhenSettled
PROPERTIES RecoveryBarrier FulfilsPromise
