CONSTANTS
    MaxFds = 4
    MaxDatagrams = 4
    SocketCapacity = 2
    EmptyDatagrams <- MCEmptyDatagrams
SPECIFICATION FairSpec
\* A destroyed server has nothing left to do.
CHECK_DEADLOCK FALSE
INVARIANTS IInv QueueExclusive FrontExists ReceiverUsesItsSocket
PROPERTIES ImplementsFifo StrayCloseOnlyInWindow StopCompletes TakenIsDelivered
