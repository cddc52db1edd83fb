\* Two overlapping calls for pairs of three images, of which two fit.
SPECIFICATION FairSpec
CONSTANTS
    Keys = {1, 2, 3}
    Requests = {{1, 2}, {2, 3}}
    Drops = {{2}, {1, 3}}
    Callers = {sync, screen}
    Size <- Sizes
    Budget = 2
    MaxParallel = 1
    MaxNow = 1
INVARIANTS
    BudgetKept
    IndexedIsOnDisk
    DroppedStaysGone
PROPERTIES
    EvictsOldestFirst
    EnsuresEnd
