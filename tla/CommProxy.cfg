SPECIFICATION FairSpec
CONSTANTS
    MaxMsgs = 3
    MaxBatch = 2
    NumWorkers = 2
INVARIANTS TypeOK OvertakesOnlyInFlight StopDrains ClosedLast
PROPERTIES MainStopReturns HeartbeatHandled WaiterReleased
CHECK_DEADLOCK FALSE
