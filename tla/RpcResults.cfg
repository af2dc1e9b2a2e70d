SPECIFICATION Spec
CONSTANTS
    c1 = c1
    c2 = c2
    Clients <- OneClient
    MaxGid = 2
    MaxGen = 2
    MaxJob = 1
    MaxPosition = 2
    QueueEnabled = FALSE
    MaxConcurrent = 1
    PauseNew = FALSE
    MaxActive = 1
    MaxRetained = 1
    Offsets = {0}
    Observed <- EndMethods
    Calls <- DirectCalls
CHECK_DEADLOCK FALSE
INVARIANTS
    EndIsAnnounced
PROPERTIES
    CompleteIsNotRemoved
