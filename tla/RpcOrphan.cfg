SPECIFICATION Spec
CONSTANTS
    c1 = c1
    c2 = c2
    Clients <- OneClient
    MaxGid = 2
    MaxGen = 2
    MaxJob = 1
    MaxPosition = 2
    QueueEnabled = TRUE
    MaxConcurrent = 1
    PauseNew = FALSE
    MaxActive = 2
    MaxRetained = 2
    Offsets = {0}
    Observed = {}
    Calls <- ResultCalls
CHECK_DEADLOCK FALSE
INVARIANTS
    ForgottenIsFinished
