\* two descriptors, four events
CONSTANTS
    Fds = {4, 7}
    NoFd = NoFd
    MaxEvents = 4
SPECIFICATION FairSpec
INVARIANTS
    NoLostWakeup
PROPERTIES
    StopReturns
    ReadyServed
\* a stopped server takes no more steps
CHECK_DEADLOCK FALSE
