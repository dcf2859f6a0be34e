\* One thread; two peers may connect before the next poll.
SPECIFICATION FairSpec
CHECK_DEADLOCK FALSE
CONSTANTS
    Threads = {main}
    Controller = main
    Protos = {"tcp"}
    Fds = {3, 4, 5}
    Handlers <- MCHandlers
    NoHandler = NoHandler
    NoThread = NoThread
    HasUnhandled = FALSE
    UrgentData = TRUE
    MaxEvents = 2
    MayDrop = FALSE
    Backlog = 2
    MaxPeers = 2
PROPERTY
    EveryPeerAccepted
