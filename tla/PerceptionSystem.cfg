SPECIFICATION FairSpec
CONSTANT MaxCommands = 4
INVARIANTS TypeOK StreamFollowsState ReportFollowsState
PROPERTIES ShutdownOutlivesStart StopEndsMain
CHECK_DEADLOCK FALSE
