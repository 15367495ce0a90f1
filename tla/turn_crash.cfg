SPECIFICATION FairSpec
CONSTANTS
    a = a
    b = b
    NoOne = NoOne
    Inst = {a, b}
    N = 3
    ErrorEnds = FALSE
    MaxCrashes = 1
    MaxHandoffs = 0
    MaxStalls = 0
    MaxRedisFaults = 2
    MaxPersistFaults = 2
    MaxRenewFaults = 0
CHECK_DEADLOCK FALSE
INVARIANTS TypeOK AckedTerminalPersisted UndisturbedAnswerComplete ReleasedWhenSettled
PROPERTIES RecoveryBarrier AnswerNeverShrinks FulfilsPromise EventuallyReleased
