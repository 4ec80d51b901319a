SPECIFICATION FairSpec
CONSTANTS
    MaxEvents = 2
    maxReconnectAttempts = 2
    autoReconnect = TRUE
INVARIANTS TypeOK NoMissedDevice SettledIsConsistent
PROPERTIES RetryEnds StopGetsThrough
CHECK_DEADLOCK FALSE
