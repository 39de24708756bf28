CONSTANTS
    Characters <- MCCharacters
    IPv4 <- MCIPv4
    MaxLine = 7
SPECIFICATION MCSpec
\* The program ends when a handler cannot connect.
CHECK_DEADLOCK FALSE
INVARIANTS IInv HandlerGetsItsArguments CompleteCommandRuns RanWasTyped
