SPECIFICATION FairObsSpec
CONSTANTS
    Threads = {t1, t2}
    f1 = f1
    f2 = f2
    Fds = {f1, f2}
    Handlers = {h1}
    NoHandler = NoHandler
    HasUnhandled = TRUE
    Registrable <- MCRegistrable
    Batches <- MCBatches
INVARIANTS
    ObsTypeOK
    RemovedMeansQuiet
    UnhandledExactlyUnserved
    ExceptionsStayLocal
    ExceptionsReported
    ServedInOrder
PROPERTY
    ProceedReturns
