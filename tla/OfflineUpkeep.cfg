\* Writes and reads together, in a process that is never killed.
SPECIFICATION Spec
CONSTANTS
    Posts <- TwoPosts
    SeedPosts <- OnePost
    MaxTaps = 1
    BaseDelay = 1
    Factor = 2
    MaxDelay = 1
    MaxAttempts = 2
    MaxPosts = 1
    TTL = 0
    MaxNow = 2
    ImageBudget = 1
    Runs = {r1}
    Faults = {"outage", "error", "lostReply", "delete", "download", "screen"}
INVARIANTS
    NoOrphanThumbs
