CONSTANTS
    Connections <- MCConnections
    MaxPieces = 2
    MaxConnections = 1
    MaxFree = 3
    c1 = c1
    c2 = c2
SPECIFICATION FairSpec
\* The process may die, or wait for a connection that never comes.
CHECK_DEADLOCK FALSE
INVARIANTS IInv QueueExclusive PacketIsThere StreamKept
PROPERTIES StopCompletes ConnectionIsAccepted
