\* Software timers in the tick interrupt and in a task of their own.
CONSTANTS
    idle = idle
    t1 = t1
    tmr = tmr
    shot = shot
    beat = beat
    Task <- MCTasks
    Idle <- idle
    Main <- t1
    Mutex = {}
    Waitable = {}
    NoTask = NoTask
    NoObj = NoObj
    PrioMax = 4
    MainPrio = 1
    TimeMax = 3
    NestingMax = 3
    RoundRobin = FALSE
    RobinDefault = 1
    Api = {"delay"}
    IsrApi = {}
    AppPrio = {1}
    Delays = {1}
    Timeslices = {0}
    SlowTick = FALSE
    MaxIrqNest = 1
    MaxSchedLock = 1
    Timer = {shot, beat}
    ListHead = ListHead
    NoTimer = NoTimer
    LongestDelay = 2
    Garbage = {0, 3}
    TimerTask <- tmr
    TimerPrios = {0, 2}
    Builds = {TRUE, FALSE}
    TaskCalls <- CarefulCalls
    CallbackCalls <- CarefulCallbacks
    Settings <- MCSettings
    Changes = {0, 2}
    MaxSlip = 1
SPECIFICATION TimerSpec
CHECK_DEADLOCK TRUE
INVARIANTS TimerListExact
PROPERTIES TimerTaskInTime ImplementsAlarm
