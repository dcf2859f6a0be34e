\* One thread that may call proceed between start and connect.
SPECIFICATION FairSpec
CONSTANTS
    Threads = {main}
    Controller = main
    Pollers = {main}
    Fds = {3, 4}
    Handlers <- MCHandlers
    NoHandler = NoHandler
    NoThread = NoThread
    HasUnhandled = FALSE
    UrgentData = TRUE
    MaxEvents = 2
    Protos = {"tcp"}
    ConnectFirst = FALSE
    MayThrow = {}
    MaxStarts = 1
    MaxConnects = 1
PROPERTY
    ConnectionAnnounced
