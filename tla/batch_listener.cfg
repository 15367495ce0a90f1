SPECIFICATION FairSpec
CONSTANTS
    M = 4
    MaxBatchSize = 2
    BatchQueueCapacity = 2
    AckRetryLimit = 1
    MaxFailures = 2
    MaxAckFailures = 2
CHECK_DEADLOCK FALSE
INVARIANTS TypeOK OneDrain ProcessedInOrder NothingDropped
PROPERTIES EventuallyProcessed EventuallyAckedOrRegistered
