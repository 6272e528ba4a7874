CONSTANTS
    TcpServers = {"t1"}
    UnixServers = {"u1", "u2"}
    AddrInfo <- MCAddrInfo
    sockname <- MCsockname
    sun_path <- MCsun_path
    Paths = {"name", "longname"}
    Fds = {f1, f2, f3, f4}
    None = None
    Free = Free
    Left = Left
    MaxConstructs = 3
SPECIFICATION FairSpec
INVARIANTS
    DescriptorsAccounted
    ListeningIsWakeable
    OldFileIsNoObstacle
PROPERTIES
    FiveAttempts
    ConstructorReturns
CHECK_DEADLOCK FALSE
