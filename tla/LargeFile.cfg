SPECIFICATION FairSpec
CONSTANTS
    MaxSize = 9
    Sizes = {1, 4, 9}
    SplitSize = 3
    Sources = {"plain", "live"}
    Accepts = {"absent", "bytes"}
    Replies = {"refused", "lengthless", "length"}
    ThreadCount = 2
    Retries = 1
    CheckCount = TRUE
    MaxChunk = 4
    SpeedLimit = 1
    StopAt = 2
CHECK_DEADLOCK FALSE
INVARIANTS
    FileIsAsAnnounced
    WindowBounded
PROPERTIES
    StopMeansSilence
    LoadEnds
