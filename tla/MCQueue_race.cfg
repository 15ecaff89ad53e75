\* Message and mail queues: posts, flushes, deadlines and destruction race the waits.
CONSTANTS
    idle = idle
    t1 = t1
    t2 = t2
    t3 = t3
    Task <- MCTasks
    Idle <- idle
    Main <- t1
    Mutex = {}
    Waitable = {q1, q2, q3}
    NoTask = NoTask
    NoObj = NoObj
    PrioMax = 3
    MainPrio = 1
    TimeMax = 1
    NestingMax = 3
    RoundRobin = FALSE
    RobinDefault = 1
    Api <- QueueCalls
    IsrApi <- IsrPosts
    AppPrio = {0, 1}
    Delays = {}
    Timeslices = {0}
    SlowTick = FALSE
    MaxIrqNest = 1
    MaxSchedLock = 1
    q1 = q1
    q2 = q2
    q3 = q3
    x1 = x1
    x2 = x2
    Item = {x1, x2}
    NoItem = NoItem
    Mails = {q2, q3}
    Ranked = {q3}
    MsgPrios = {0, 1}
    WrongSize = {x2}
    QueueSizes = {2}
    QueueTimeouts = {0, 1}
    MaxQueues = 1
SPECIFICATION MCSpec
CHECK_DEADLOCK TRUE
INVARIANTS NoItemIdle
PROPERTIES PostReachesBest ImplementsQueue
