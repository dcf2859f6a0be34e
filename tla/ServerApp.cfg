\* server_main, for both protocols.  The process may end.
SPECIFICATION Spec
CHECK_DEADLOCK FALSE
CONSTANTS
    Threads = {main}
    Controller = main
    Protos = {"tcp", "udp"}
    Fds = {3, 4, 5}
    Handlers <- MCHandlers
    NoHandler = NoHandler
    NoThread = NoThread
    HasUnhandled = FALSE
    UrgentData = TRUE
    MaxEvents = 2
    Backlog = 2
    MaxPeers = 2
    MaxMessages = 2
    Senders = {1, 2}
    Requests <- MCRequests
    Width = 7
INVARIANTS
    AppTypeOK
    AnsweredOnce
    AnswerIsRight
    UndefinedExplained
PROPERTIES
    ImplementsSystem
    StopsOnSignal
    RequestsServed
