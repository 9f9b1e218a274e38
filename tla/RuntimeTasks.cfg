SPECIFICATION Spec
CONSTANTS
    t1 = t1
    t2 = t2
    Task = {t1, t2}
    Isolated = {t2}
    Pausable = {t1}
    Cancellable = {t1, t2}
    Worker <- MCOneWorker
    WorkerSlots = 1
    MaxSlots = 3
    PoolSize = 1
    MaxSubmissions = 2
    None = None
INVARIANTS SlotsAccounted BusyMeansFull LeaseIndexCurrent ClosingHasNoLiveTask
PROPERTIES TerminalIsFinal
CHECK_DEADLOCK FALSE
