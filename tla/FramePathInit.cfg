SPECIFICATION FairSpec
CONSTANTS
    Threads = {t1}
    Models = {"default"}
    maxQueueSize = 1
    inferenceInterval = 1
    DefaultModel = TRUE
    MaxFrames = 1
    minValidFrames = 1
    maxFrames = 1
    MaxSessions = 1
    Configurations = {{"inference"}}
    MaxCalls = 2
PROPERTY InitializeReturns
CHECK_DEADLOCK FALSE
