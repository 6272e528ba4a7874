CONSTANTS
    Owner = owner
    Terminators = {t1, t2}
    Waiters = {r1}
    MaxStarts = 2
SPECIFICATION FairSpec
INVARIANTS
    StartMeansListening
    PipeNotDelivered
    ReturnsOnlyOnTerminate
    DoneMeansClosed
PROPERTIES
    TerminateMeansTerminated
    StopReturns
    StartReturns
CHECK_DEADLOCK FALSE
