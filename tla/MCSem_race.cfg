\* Posts, deadlines, destruction and round robin racing.
CONSTANTS
    idle = idle
    t1 = t1
    t2 = t2
    Task <- MCPair
    Idle <- idle
    Main <- t1
    Mutex = {}
    s1 = s1
    Waitable = {s1}
    NoTask = NoTask
    NoObj = NoObj
    PrioMax = 3
    MainPrio = 1
    TimeMax = 3
    NestingMax = 3
    RoundRobin = TRUE
    RobinDefault = 1
    Api <- RaceCalls
    IsrApi <- IsrPosts
    AppPrio = {0, 1}
    Delays = {1}
    Timeslices = {1}
    SlowTick = FALSE
    MaxIrqNest = 1
    MaxSchedLock = 1
    Counts = {0, 2}
    CountMaxes = {1}
    Timeouts = {0, 2, 4}
SPECIFICATION SemFairSpec
CHECK_DEADLOCK TRUE
INVARIANTS NoLostWakeup PendDecided
PROPERTIES ImplementsSemaphore PeersAlternate TimedPendEnds
