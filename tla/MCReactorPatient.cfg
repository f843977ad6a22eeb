CONSTANTS
    c1 = c1
    c2 = c2
    c3 = c3
    w1 = w1
    w2 = w2
    MCio = MCio
    NULL = NULL
    io <- MCio
    Conns <- TwoConns
    Workers <- TwoWorkers
    MaxFd = 2
    QueSize = 1
    MaxLines = 2
    Patient = TRUE
SPECIFICATION FairSpec
\* All clients served and gone, the server waits for ever.
CHECK_DEADLOCK FALSE
PROPERTIES
    EveryLineAnswered
    ClosedIsReclaimed
