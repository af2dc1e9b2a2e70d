SPECIFICATION FairSpec
CONSTANTS
    StreamCount = 2
    Setups <- NumberedSources
    Window = 3
    MaxSeq = 6
    JoinSeq = 4
    Skew = 1
    HalfSeconds = 2
    TakeCount = 2
    Limit = 3
    RetryAttempts = 2
INVARIANTS
    RecordedRun
    LimitIsCounted
PROPERTIES
    NothingTakenBack
    RecordingEnds
CHECK_DEADLOCK FALSE
