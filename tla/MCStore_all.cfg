\* The memory heap, a block pool, a byte FIFO, a priority queue and a bitmap.
CONSTANTS
    SlLog2 = 2
    FlMax = 5
    PoolMax = 2
    PoolSize <- MCPools
    Requests = {1, 4, 6, 9}
    Aligns = {2, 4}
    MaxOwned = 3
    NoBlk = NoBlk
    BlkNums = {1, 4}
    Null = Null
    AppData = AppData
    x1 = x1
    x2 = x2
    Item = {x1, x2}
    NoItem = NoItem
    FifoSize = 3
    StreamLen = 2
    MaxSent = 7
    p1 = p1
    c1 = c1
    Producers = {p1}
    Consumers = {c1}
    UsePrios = {0, 1, 2}
    UseSize = 4
    SlotSize = 4
    BitMaxes = {3, 4, 6}
SPECIFICATION StoreSpec
CHECK_DEADLOCK TRUE
INVARIANTS HeapSound SearchFits BlocksHandedOnce BytesInOrder CheckStillHolds BitsExact
