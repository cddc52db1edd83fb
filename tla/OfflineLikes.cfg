\* Writes: one post, two rows, every fault of the network and of the process, and a reset.
SPECIFICATION Spec
CONSTANTS
    Posts <- OnePost
    SeedPosts <- OnePost
    MaxTaps = 2
    BaseDelay = 1
    Factor = 2
    MaxDelay = 1
    MaxAttempts = 2
    MaxPosts = 1
    TTL = 0
    MaxNow = 0
    ImageBudget = 1
    Runs = {r1, r2}
    Faults = {"crash", "outage", "error", "lostReply", "clear"}
SYMMETRY RunSymmetry
INVARIANTS
    OneRun
    NoWriteLost
    OnlyRefusalsSpendAttempts
    ShownIsAsked
    AskedReachesServer
