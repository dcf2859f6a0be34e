\* A controller that stops the client while a poller serves an event.
SPECIFICATION Spec
CHECK_DEADLOCK FALSE
CONSTANTS
    Threads = {ctl, poller}
    Controller = ctl
    Pollers = {poller}
    Fds = {3, 4}
    Handlers <- MCHandlers
    NoHandler = NoHandler
    NoThread = NoThread
    HasUnhandled = FALSE
    UrgentData = TRUE
    MaxEvents = 1
    Protos = {"tcp"}
    ConnectFirst = FALSE
    MayThrow = {}
    MaxStarts = 2
    MaxConnects = 1
INVARIANT
    NoLockCycle
