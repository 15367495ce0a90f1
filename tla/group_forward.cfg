SPECIFICATION FairSpec
CONSTANTS
    None = None
    Targets = {t1, t2}
    NumMessages = 2
    Revocable = {t1, t2, "source", "message"}
    Workers = {w1, w2}
    MaxMishaps = 1
    MaxRetries = 1
    MaxRevocations = 1
CHECK_DEADLOCK FALSE
INVARIANTS TypeOK RequestStateDerived ExclusiveTickets PostedIsComplete
PROPERTY KeepsPromise ForwardSettles DeliverySettles
