\* Two tasks and two connections.
SPECIFICATION FairSpec
CONSTANTS
    Tasks = {t1, t2}
    Conns = {c1, c2}
INVARIANTS
    TypeOK
    WaitGroupCounts
    StoreClosedLast
    DrainedUnlessTimedOut
PROPERTIES
    LifecyclePromise
    ShutdownCompletes
    TasksKeepRunning
