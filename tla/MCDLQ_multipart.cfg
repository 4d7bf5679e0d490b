CONSTANTS
    MaxJobs = 2
    Kinds <- PartKinds
    Gids = {g1,g2}
    NoGid = NoGid
    MaxAttempts = 1
    PostprocessLimit = 100
    Faults = TRUE
    Lossy = FALSE
    Workers = {w1, w2, w3}
    DecryptConcurrency = 1
    Clients = {}
    Ops = {"create"}
    MaxManual = 0
    Concurrency = 2
    AutoModes = {TRUE}
    MaxCrashes = 0
SPECIFICATION FairSpec
INVARIANT SetOpened
PROPERTY AllSettle
