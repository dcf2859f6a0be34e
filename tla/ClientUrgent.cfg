\* One thread; the peer may send urgent data.
SPECIFICATION Spec
CONSTANTS
    Threads = {main}
    Controller = main
    Pollers = {main}
    Fds = {3, 4}
    Handlers <- MCHandlers
    NoHandler = NoHandler
    NoThread = NoThread
    HasUnhandled = FALSE
    UrgentData = TRUE
    MaxEvents = 2
    Protos = {"tcp"}
    ConnectFirst = TRUE
    MayThrow = {}
    MaxStarts = 2
    MaxConnects = 1
INVARIANT
    OnDisconnectMeansDown
