CONSTANTS
    MaxJobs = 1
    Kinds <- WebshareKinds
    Gids = {g1,g2}
    NoGid = NoGid
    MaxAttempts = 1
    PostprocessLimit = 100
    Faults = FALSE
    Lossy = FALSE
    Workers = {w1, w2, w3}
    DecryptConcurrency = 1
    Clients = {c1}
    Ops = {"create", "resume"}
    MaxManual = 1
    Concurrency = 1
    AutoModes = {FALSE}
    MaxCrashes = 0
SPECIFICATION FairSpec
PROPERTY NoTasklessDownload
