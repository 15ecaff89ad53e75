\* Events, completions, latches and barriers: posts race the waits.
CONSTANTS
    idle = idle
    t1 = t1
    t2 = t2
    t3 = t3
    event = event
    completion = completion
    latch = latch
    barrier = barrier
    Task <- MCTasks
    Idle <- idle
    Main <- t1
    Mutex = {}
    NoTask = NoTask
    NoObj = NoObj
    PrioMax = 3
    MainPrio = 1
    TimeMax = 1
    NestingMax = 3
    RoundRobin = FALSE
    RobinDefault = 1
    Api <- SyncCalls
    IsrApi <- IsrPosts
    AppPrio = {0, 1}
    Delays = {}
    Timeslices = {0}
    SlowTick = FALSE
    MaxIrqNest = 1
    MaxSchedLock = 1
    Waitable = {event, completion, latch, barrier}
    Event = {event}
    Completion = {completion}
    Latch = {latch}
    Barrier = {barrier}
    a = a
    b = b
    Bits = {a, b}
    Posted <- MCPosted
    Expectation <- MCWaits
    SyncCounts = {0, 1, 3}
    CountTop = 3
    SyncTimeouts = {0, 1, 2}
    MaxLive = 1
SPECIFICATION SyncSpec
CHECK_DEADLOCK TRUE
INVARIANTS EventNoLostWakeup BarrierExact
PROPERTIES EventConsumedOnce
CONSTRAINT ThirdForBarrier
