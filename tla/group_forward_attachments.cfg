SPECIFICATION Spec
CONSTANTS
    None = None
    Targets = {t1, t2}
    NumMessages = 1
    Revocable = {}
    Workers = {w1}
    MaxMishaps = 0
    MaxRetries = 2
    MaxRevocations = 0
CHECK_DEADLOCK FALSE
INVARIANT AttachmentsComplete
