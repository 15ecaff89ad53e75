\* Two threads of one priority with time slices: a thread that has unlocked pthread_mutex is not
\* yet dead when the other reaps it. Both may have gone.
CONSTANTS
    m = m
    w1 = w1
    w2 = w2
    Thread = {m, w1}
    Main = m
    Makers = {m}
    Joiners = {m}
    RoundRobin = TRUE
    Rank <- MCRank
    Ids = {0, 1}
    Values = {1}
    Nobody = Nobody
    Null = Null
SPECIFICATION ThreadSpec
CHECK_DEADLOCK FALSE
INVARIANTS ReapedIsDead
