SPECIFICATION FairSpec
CONSTANTS
    Threads = {t1, t2}
    Models = {"default"}
    maxQueueSize = 1
    inferenceInterval = 2
    DefaultModel = FALSE
    MaxFrames = 3
    minValidFrames = 1
    maxFrames = 1
    MaxSessions = 2
    Configurations = {{"inference"}, {"calibration"}}
    MaxCalls = 3
PROPERTIES QueueServed StopReturns
INVARIANTS TypeOK FramesAccounted EveryNthUnlessRaced EndsWithItsResult NoSelfDeadlock
CHECK_DEADLOCK FALSE
