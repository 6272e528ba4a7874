CONSTANTS
    Workers = {worker}
    Closers = {listener, k1}
    Listener = listener
    NoThread = NoThread
    MaxCalls = 2
    Writers = {a1, a2}
    MsgSize = 1
    MaxConns = 1
SPECIFICATION FairSpec
PROPERTY CallsReturn
CHECK_DEADLOCK FALSE
