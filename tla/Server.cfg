CONSTANTS
    Conns = {c1, c2}
    Fds = {f1}
    ListenFd = ListenFd
    None = None
    MAX_EVENTS = 1
    use_smart_close = TRUE
    FailedBinds = 1
    ReadJobs = {"AVAILABLE_FOR_READ", "AVAILABLE_FOR_READ_AND_WRITE"}
    Owner = owner
    MaxStarts = 1
    Retries = TRUE
    MaxBuffers = 1
    Followed = {c1}
SPECIFICATION ServerFairSpec
INVARIANTS
    ServerTypeOK
    QuietAfterStop
PROPERTIES
    StopReturnsUnderLoad
    BacklogServed
    ReadinessHandled
CHECK_DEADLOCK FALSE
