\* What becomes of runs, of writes and of the feed in the end.
SPECIFICATION FairSpec
CONSTANTS
    Posts <- TwoPosts
    SeedPosts <- OnePost
    MaxTaps = 1
    BaseDelay = 1
    Factor = 2
    MaxDelay = 1
    MaxAttempts = 2
    MaxPosts = 1
    TTL = 0
    MaxNow = 1
    ImageBudget = 1
    Runs = {r1}
    Faults = {"crash", "outage", "lostReply", "delete"}
PROPERTIES
    RunsEnd
    WritesSettle
    FeedConverges
