\* One thread, as in client_main: start, connect, then proceed in a loop; no
\* urgent data.
SPECIFICATION FairSpec
CONSTANTS
    Threads = {main}
    Controller = main
    Pollers = {main}
    Fds = {3, 4}
    Handlers <- MCHandlers
    NoHandler = NoHandler
    NoThread = NoThread
    HasUnhandled = FALSE
    UrgentData = FALSE
    MaxEvents = 2
    Protos = {"tcp", "udp"}
    ConnectFirst = TRUE
    MayThrow = {}
    MaxStarts = 2
    MaxConnects = 1
INVARIANTS
    OnDisconnectMeansDown
    DataBeforeDisconnect
PROPERTIES
    CallbackProtocol
    ConnectionAnnounced
    DisconnectionAnnounced
    DataAnnounced
