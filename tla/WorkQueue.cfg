CONSTANTS
    Consumers = {k1, k2}
    Fds = {f1}
    MaxConns = 2
    MaxEvents = 3
    MayStop = TRUE
SPECIFICATION FairSpec
INVARIANTS
    PoppedInOrder
    NoStrandedItem
    StoppedIsQuiet
PROPERTY ItemsConsumed
CHECK_DEADLOCK FALSE
