CONSTANTS
    Workers = {worker}
    Closers = {listener, k1}
    Listener = listener
    NoThread = NoThread
    MaxCalls = 1
    Writers = {a1, a2}
    MsgSize = 2
    MaxConns = 2
SPECIFICATION Spec
INVARIANTS
    WritesContiguous
    LockNeverLeaks
    OverlapBound
PROPERTY UsesSocketDataLock
CHECK_DEADLOCK FALSE
