\* client_main: one thread, one connection, a user who types lines.
SPECIFICATION AppSpec
CONSTANTS
    Threads = {main_thread}
    Controller = main_thread
    Pollers = {main_thread}
    Fds = {3}
    Handlers <- MCHandlers
    NoHandler = NoHandler
    NoThread = NoThread
    HasUnhandled = FALSE
    UrgentData = TRUE
    MaxEvents = 2
    Protos = {"tcp", "udp"}
    ConnectFirst = TRUE
    MayThrow = {}
    MaxStarts = 1
    MaxConnects = 1
    MaxMessages = 2
    MaxLines = 2
CHECK_DEADLOCK FALSE
INVARIANTS
    AppTypeOK
    UnreadHasEdge
PROPERTIES
    StopsOnSignal
    DownIsReported
    InputIsSent
