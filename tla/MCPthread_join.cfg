\* Threads that exit, joined or detached by one of lower priority; they may all have gone.
CONSTANTS
    m = m
    w1 = w1
    w2 = w2
    Thread = {m, w1, w2}
    Main = m
    Makers = {m}
    Joiners = {m}
    RoundRobin = FALSE
    Rank <- MCRank
    Ids = {0, 1, 2}
    Values = {1, 2}
    Nobody = Nobody
    Null = Null
SPECIFICATION ThreadSpec
CHECK_DEADLOCK FALSE
INVARIANTS ReapedIsDead TableExact JoinGetsValue
PROPERTIES JoinReturns
