CONSTANTS
    SpaceSize = 3
    Included <- MCIncluded
    Clients <- MCClients
    XidsOf <- MCXidsOf
    NoIp <- MCNoIp
    NoMac = NoMac
    c1 = c1
    c2 = c2
    c3 = c3
SPECIFICATION Spec
\* The process may die and the clients run out of transactions.
CHECK_DEADLOCK FALSE
INVARIANT AckCarriesAddress
