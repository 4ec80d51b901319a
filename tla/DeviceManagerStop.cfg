SPECIFICATION FairSpec
CONSTANTS
    MaxEvents = 0
    maxReconnectAttempts = 2
    autoReconnect = TRUE

PROPERTIES StopReturns
CHECK_DEADLOCK FALSE
