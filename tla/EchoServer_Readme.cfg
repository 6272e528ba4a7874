CONSTANTS
    Conns = {c1}
    Fds = {f1}
    ListenFd = ListenFd
    None = None
    MAX_EVENTS = 2
    use_smart_close = TRUE
    FailedBinds = 1
    ReadJobs = {"AVAILABLE_FOR_READ"}
    Retries = FALSE
    MaxBuffers = 2
    Followed = {c1}
SPECIFICATION FairSpec
PROPERTY ReadinessHandled
CHECK_DEADLOCK FALSE
