SPECIFICATION Spec
CONSTANTS
    c1 = c1
    c2 = c2
    Clients <- MCClients
    MaxMsgs = 2
    MaxFd = 2
    SockCap = 1
    NULL = NULL
INVARIANTS
    CountMatchesThreads
    MessagesUnmixed
PROPERTIES
    ConnectorsGetAThread
\* The clients may all have left.
CHECK_DEADLOCK FALSE
