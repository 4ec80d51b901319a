SPECIFICATION FairSpec
CONSTANTS
    MaxMsgs = 3
    MaxBatch = 2
    NumWorkers = 2

PROPERTIES ShutdownStopReturns
CHECK_DEADLOCK FALSE
