\* Two pollers; the number of a closed descriptor is used again.
SPECIFICATION Spec
CHECK_DEADLOCK FALSE
CONSTANTS
    Threads = {main, poller}
    Controller = main
    Protos = {"tcp"}
    Fds = {3, 4}
    Handlers <- MCHandlers
    NoHandler = NoHandler
    NoThread = NoThread
    HasUnhandled = FALSE
    UrgentData = FALSE
    MaxEvents = 1
    MayDrop = FALSE
    Backlog = 2
    MaxPeers = 2
INVARIANT
    OnlyTerminatedErased
