\* An owner is destroyed.
CONSTANTS
    idle = idle
    t1 = t1
    t2 = t2
    t3 = t3
    Task <- MCTasks
    Idle <- idle
    Main <- t1
    m1 = m1
    m2 = m2
    Mutex = {m1}
    Waitable = {}
    NoTask = NoTask
    NoObj = NoObj
    PrioMax = 4
    MainPrio = 1
    TimeMax = 3
    NestingMax = 2
    RoundRobin = FALSE
    RobinDefault = 1
    Api <- DoomCalls
    IsrApi = {}
    AppPrio = {0, 2}
    Delays = {1}
    Timeslices = {0}
    SlowTick = FALSE
    MaxIrqNest = 1
    MaxSchedLock = 1
    MutexTimeouts = {4}
SPECIFICATION DoomSpec
CHECK_DEADLOCK TRUE
INVARIANTS RunningIsReady
