SPECIFICATION FairSpec
CONSTANTS
    MaxPid = 2
    BootModules = 2
    QueueBound = 1
INVARIANT IdleTaskRunnable
PROPERTY ReadyRuns
