SPECIFICATION FairSpec
CONSTANTS
    t1 = t1
    t2 = t2
    Task = {t1, t2}
    Isolated = {}
    Pausable = {t1, t2}
    Cancellable = {t1}
    Worker <- MCOneWorker
    WorkerSlots = 2
    MaxSlots = 3
    PoolSize = 1
    MaxSubmissions = 2
    None = None
PROPERTIES RunningEnds CancelledRunEnds ShutdownCompletes
CHECK_DEADLOCK FALSE
