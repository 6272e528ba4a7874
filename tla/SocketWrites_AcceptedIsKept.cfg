CONSTANTS
    Workers = {worker}
    Closers = {listener}
    Listener = listener
    NoThread = NoThread
    MaxCalls = 1
    Writers = {a1}
    MsgSize = 2
    MaxConns = 1
SPECIFICATION Spec
INVARIANT AcceptedIsKept
CHECK_DEADLOCK FALSE
