\* Reads: two posts and a third to come, a feed of two, expiry, deletions.
SPECIFICATION Spec
CONSTANTS
    Posts <- ThreePosts
    SeedPosts <- TwoPosts
    MaxTaps = 0
    BaseDelay = 1
    Factor = 2
    MaxDelay = 1
    MaxAttempts = 2
    MaxPosts = 2
    TTL = 1
    MaxNow = 2
    ImageBudget = 1
    Runs = {r1}
    Faults = {"crash", "outage", "delete", "clear"}
INVARIANTS
    CursorCoversChanges
    SyncedUnlessForgotten
PROPERTIES
    HeldImagesGoForRoom
