SPECIFICATION MCSpec
CONSTANTS
    SegmentCount = 3
    HasInit = TRUE
    ForceProbe = TRUE
    ThreadCount = 2
    CheckCount = TRUE
    Retries = 1
    Engine = "mp4decrypt"
    Replies = {"whole", "short", "cut"}
    MaxSessions = 2
CHECK_DEADLOCK FALSE
INVARIANTS
    NeverTorn
    FilesAreAsAnnounced
PROPERTIES
    KeepsPromise
    SessionEnds
