CONSTANTS
    MaxFds = 4
    MaxDatagrams = 2
    SocketCapacity = 2
    EmptyDatagrams <- MCEmptyDatagrams
    Connections <- MCConnections
    Main = Main
    Nobody = Nobody
    k1 = k1
SPECIFICATION FairSpec
CHECK_DEADLOCK FALSE
PROPERTY DatagramsAreServed
