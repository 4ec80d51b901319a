SPECIFICATION RemoteSpec
CONSTANTS
    MAX_RETRIES = 2
    Capacity = 3
    States = {"PENDING", "RUNNING"}
    Initial = "PENDING"
    Commanded = {"RUNNING"}
    MaxEvents = 1
INVARIANT PeerLossIsNoticed
CHECK_DEADLOCK FALSE
