CONSTANTS
    Conns = {c1, c2}
    Fds = {f1, f2}
    ListenFd = ListenFd
    None = None
    MAX_EVENTS = 2
    use_smart_close = TRUE
    FailedBinds = 1
    ReadJobs = {"AVAILABLE_FOR_READ", "AVAILABLE_FOR_READ_AND_WRITE"}
    Retries = TRUE
    MaxBuffers = 2
    Followed = {c1}
SPECIFICATION Spec
INVARIANTS
    FdsTracked
    CountExact
    EventsFresh
    SmartCloseOnlyUnused
PROPERTY ImplementsService
CHECK_DEADLOCK FALSE
