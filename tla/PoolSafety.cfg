SPECIFICATION FairSpec
CONSTANTS
    MinWorkerCount = 1
    MaxWorkerCount = 2
    InitialWorkerCount = 3
    ScaleUpThreshold = 1
    ScaleDownThreshold = 1
    FactorNum = 3
    FactorDen = 2
    EnableAutoscaling = TRUE
    Loads = {0, 2, 6}
    MaxLoadChanges = 1
    Slots = {g1, g2, g3}
INVARIANTS WithinLimits PoolConsistent WaitGroupExact ReturnedMeansStopped
PROPERTIES ShutdownCompletes StoppedWorkerLeaves ScalesToLoad
CHECK_DEADLOCK FALSE
