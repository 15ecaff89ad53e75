\* Scheduling with every call of the task API: one level of interrupts, tickless idling.
CONSTANTS
    idle = idle
    t1 = t1
    t2 = t2
    t3 = t3
    Task <- MCTasks
    Idle <- idle
    Main <- t1
    Mutex = {}
    Waitable = {}
    NoTask = NoTask
    NoObj = NoObj
    PrioMax = 3
    MainPrio = 1
    TimeMax = 3
    NestingMax = 3
    RoundRobin = FALSE
    RobinDefault = 1
    Api <- AllApi
    IsrApi <- IsrCalls
    AppPrio = {0, 1}
    Delays = {1, 2}
    Timeslices = {0}
    SlowTick = FALSE
    MaxIrqNest = 1
    MaxSchedLock = 1
    TicksPerSec = 2
    MsPerSec = 4
    MaxDelay = 4
SPECIFICATION TicklessSpec
CHECK_DEADLOCK TRUE
INVARIANTS TypeOK ReadyQueueExact TickListExact HighestRuns RunningIsReady
PROPERTIES SleepersKeepTime
