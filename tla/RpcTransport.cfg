SPECIFICATION Spec
CONSTANTS
    c1 = c1
    c2 = c2
    Sockets <- OneSocket
    Requests <- OneRequest
    Frames <- SocketFrames
    Posts <- PostBodies
    Queries <- GetQueries
    Configs <- ServerConfigs
    Capacity = 2
    Window = 1
    MaxFrames = 2
    MaxEvents = 1
CHECK_DEADLOCK FALSE
INVARIANTS
    AnsweredInTurn
PROPERTIES
    MissedByOverrunOnly
    ClientsCatchUp
