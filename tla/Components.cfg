SPECIFICATION FairSpec
CONSTANTS
    MaxChanges = 5
    Threads = {"sdk", "w1", "w2"}
    Workers = {"w1", "w2"}
    frameInterval = 2
    ColorFormats = {"MJPG", "RGB", "NV12"}
    SetTypes <- MCSetTypes
    Saved = {"COLOR", "DEPTH"}
    maxQueuedTasks = 1
    MaxSets = 3
    MaxPushes = 2
    MaxShows = 2
    MaxSpurious = 1
    MAX_RETRIES = 2
    Capacity = 3
    States = {"PENDING", "RUNNING"}
    Initial = "PENDING"
    Commanded = {"RUNNING"}
    MaxEvents = 1
    Rects <- MCRects
    Sizes <- MCSizes
    Scores = {0, 1, 2}
    threshold_ = 0
    MaxAnchors = 4
    MaxBoxes = 3
    Parsed <- MCParsed
    Section <- MCSection
    Type <- MCType
    Default <- MCDefault
    Values <- MCValues
    MAX_INT = 7
    Documents <- MCDocuments
    MaxCalls = 4
INVARIANTS
    TypeOK StreamsOnlyAsAsked CameraStreams ColorsAreRight BacklogGrowsSlowly
    KeepsTheBest SavedIsRestored
PROPERTIES
    CloseReturns NoSignalReturns ClientLearnsState RefinesRemoteLink
CHECK_DEADLOCK FALSE
