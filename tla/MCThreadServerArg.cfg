SPECIFICATION SafetySpec
CONSTANTS
    c1 = c1
    c2 = c2
    Clients <- MCClients
    MaxMsgs = 1
    MaxFd = 2
    SockCap = 1
    NULL = NULL
INVARIANTS
    ThreadServesItsClient
\* The clients may all have left.
CHECK_DEADLOCK FALSE
