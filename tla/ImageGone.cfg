\* Two calls fetch one image.
SPECIFICATION Spec
CONSTANTS
    Keys = {1, 2}
    Requests = {{2}, {1, 2}}
    Drops = {}
    Callers = {sync, screen}
    Size <- Sizes
    Budget = 3
    MaxParallel = 1
    MaxNow = 0
INVARIANTS
    UriIsOnDisk
