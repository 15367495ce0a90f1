SPECIFICATION FairSpec
CONSTANTS
    InputReaders = {i1}
    AnswerReaders = {a1, a2}
    Callers = {c1}
    NumEvents = 2
    None = None
    Gone = Gone
    Done = Done
    MaxMishaps = 2
INVARIANTS TypeOK AcknowledgedIsKept AnswerInOrder
PROPERTIES AnswerOnlyGrows CatchesUp
CHECK_DEADLOCK FALSE
