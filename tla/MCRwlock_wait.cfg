\* A read-write lock without deadlines.
CONSTANTS
    idle = idle
    t1 = t1
    t2 = t2
    t3 = t3
    m1 = m1
    lock = lock
    signal = signal
    Task <- MCPair
    Idle <- idle
    Main <- t1
    Mutex = {lock, m1}
    Waitable = {signal}
    Lock <- lock
    Signal <- signal
    NoTask = NoTask
    NoObj = NoObj
    PrioMax = 4
    MainPrio = 1
    TimeMax = 1
    NestingMax = 2
    RoundRobin = FALSE
    RobinDefault = 1
    Api <- LockCalls
    IsrApi = {}
    AppPrio = {0,2}
    Delays = {}
    Timeslices = {0}
    SlowTick = FALSE
    MaxIrqNest = 1
    MaxSchedLock = 1
    MutexTimeouts = {2}
    Counts = {0, 2}
    CountMaxes = {1}
    Timeouts = {0, 1, 2}
    RwMax = 2
    SignalMax = 2
    RwTimeouts = {2}
    MaxObjects = 2
SPECIFICATION RwSpec
CHECK_DEADLOCK TRUE
INVARIANTS NobodyBarred
