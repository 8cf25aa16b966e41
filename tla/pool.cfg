CONSTANTS
    w1 = w1
    w2 = w2
    t1 = t1
    t2 = t2
    t3 = t3
    Workers <- TwoWorkers
    Tasks <- ThreeTasks
    Owner = Owner
    Free = Free
    NoTask = NoTask
    NestedEnqueue = TRUE
    MaxSpurious = 1
SPECIFICATION Spec
INVARIANT NoTaskLost
INVARIANT NoSleeperMissesStop
INVARIANT NoDoubleExecution
INVARIANT NoLostWakeup
INVARIANT DestroyedMeansDrained
PROPERTY EveryTaskSettled
PROPERTY DestructorReturns
PROPERTY ImplementsExecutor
