CONSTANTS
    Callers <- MCCallers
    Connections <- MCConnections
    MaxApiFree = 4
    Nobody = Nobody
    t1 = t1
    t2 = t2
    t3 = t3
    t4 = t4
    k1 = k1
    k2 = k2
SPECIFICATION FairSpec
\* A second start() ends the process, and a caller may wait for the mutex for ever.
CHECK_DEADLOCK FALSE
INVARIANT IInv
PROPERTIES LateCallerReturns ConnectionIsServed
