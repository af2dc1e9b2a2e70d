SPECIFICATION FairSpec
CONSTANTS
    c1 = c1
    c2 = c2
    Clients <- OneClient
    MaxGid = 3
    MaxGen = 1
    MaxJob = 1
    MaxPosition = 3
    QueueEnabled = TRUE
    MaxConcurrent = 1
    PauseNew = TRUE
    MaxActive = 2
    MaxRetained = 3
    Offsets <- MoveOffsets
    Observed = {}
    Calls <- BulkCalls
CHECK_DEADLOCK FALSE
PROPERTIES
    OthersKeepOrder
    WaitingIsStarted
