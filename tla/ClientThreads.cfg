\* A controller and a poller, in any order of calls: the client is stopped,
\* started and connected again; a callback may throw.
SPECIFICATION Spec
CHECK_DEADLOCK FALSE
CONSTANTS
    Threads = {ctl, p1}
    Controller = ctl
    Pollers = {p1}
    Fds = {3}
    Handlers <- MCHandlers
    NoHandler = NoHandler
    NoThread = NoThread
    HasUnhandled = FALSE
    UrgentData = TRUE
    MaxEvents = 1
    Protos = {"tcp", "udp"}
    ConnectFirst = FALSE
    MayThrow = {"connect", "read", "disconnect"}
    MaxStarts = 2
    MaxConnects = 2
INVARIANTS
    TypeOK
    ActiveHasRemote
    StopIsBarrier
    CalledAtMostOnce
