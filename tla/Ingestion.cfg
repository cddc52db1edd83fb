\* Four records, one spoilt; two workers' ends; a topic with a duplicate.
SPECIFICATION BothSpec
CONSTANTS
    Orders = {1, 2, 3, 4}
    Bad = {4}
    Rows = {"mug", "tee"}
    Units <- SomeUnits
    PREFETCH = 3
    FLUSH_SIZE = 2
    MaxEnds = 2
    StreamOrders = {1, 2}
    Minutes = {0}
    PlacedAt <- SomeMinutes
    Total <- SomeTotals
    Transforms = {"t1", "t2"}
    MaxLog = 4
INVARIANTS
    OrdersAccounted
    StreamAccounted
PROPERTIES
    PostsAsLedger
    LoadsAsLedger
    QueueDrains
    RollupCatchesUp
CHECK_DEADLOCK FALSE
