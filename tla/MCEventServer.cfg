SPECIFICATION Spec
CONSTANTS
    c1 = c1
    c2 = c2
    Clients <- MCClients
    MaxMsgs = 3
    SockCap = 1
INVARIANTS
    CountIsRegistered
    UnreadIsAnnounced
    KilledByTheHasty
PROPERTIES
    BatchMovesForward
    EveryMessageIsRead
\* The clients may all have left.
CHECK_DEADLOCK FALSE
