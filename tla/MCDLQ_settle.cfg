CONSTANTS
    MaxJobs = 1
    Kinds <- AllKinds
    Gids = {g1,g2}
    NoGid = NoGid
    MaxAttempts = 2
    PostprocessLimit = 100
    Faults = TRUE
    Lossy = FALSE
    Workers = {w1, w2, w3}
    DecryptConcurrency = 1
    Clients = {}
    Ops = {"create"}
    MaxManual = 0
    Concurrency = 1
    AutoModes = {TRUE, FALSE}
    MaxCrashes = 0
SPECIFICATION FairSpec
INVARIANT FailedSecretsCleared
PROPERTIES AllSettle DownloadedOnce
