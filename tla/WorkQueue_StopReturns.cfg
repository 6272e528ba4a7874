CONSTANTS
    Consumers = {k1}
    Fds = {f1}
    MaxConns = 1
    MaxEvents = 1
    MayStop = TRUE
SPECIFICATION FairSpec
PROPERTY StopReturns
CHECK_DEADLOCK FALSE
