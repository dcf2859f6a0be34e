\* One thread, as in server_main, and peers that come and go, without urgent
\* data.  The system may stop: a destroyed server does nothing more.
SPECIFICATION FairSpec
CHECK_DEADLOCK FALSE
CONSTANTS
    Threads = {main}
    Controller = main
    Protos = {"tcp", "udp"}
    Fds = {3, 4, 5}
    Handlers <- MCHandlers
    NoHandler = NoHandler
    NoThread = NoThread
    HasUnhandled = FALSE
    UrgentData = FALSE
    MaxEvents = 2
    MayDrop = TRUE
    Backlog = 2
    MaxPeers = 3
INVARIANTS
    TypeOK
    DescriptorsOwned
    OnlyTerminatedErased
    HeldMeansWatched
    RefsEndWithServer
PROPERTY
    TerminationAnnounced
