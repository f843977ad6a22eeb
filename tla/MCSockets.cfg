SPECIFICATION SocketsSpec
CONSTANTS
    c1 = c1
    c2 = c2
    NULL = NULL
    Server = server
    Clients <- MCClients
    MaxLines = 2
    MaxRounds = 2
    x = x
    enl = enl
    Bytes <- MCBytes
    Newline = enl
    MaxLen = 4
    MaxBytes = 5
    Replies = 3
    Size = 3
    Room = 4
    MaxMsgs = 2
    MaxLost = 1
    MaxDups = 1
INVARIANTS
    WholeMessages
    ServerSurvives
    FarewellArrives
    StreamConserved
    OneLineAtMost
    RepliesInSequence
    DatagramsAccountedFor
PROPERTIES
    EverythingRead
    EverySessionEnds
\* Sessions end, and connections close.
CHECK_DEADLOCK FALSE
