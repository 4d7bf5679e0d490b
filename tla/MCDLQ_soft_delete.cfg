CONSTANTS
    MaxJobs = 1
    Kinds <- HttpKinds
    Gids = {g1,g2}
    NoGid = NoGid
    MaxAttempts = 2
    PostprocessLimit = 100
    Faults = TRUE
    Lossy = FALSE
    Workers = {w1, w2, w3}
    DecryptConcurrency = 1
    Clients = {c1}
    Ops = {"create", "remove"}
    MaxManual = 0
    Concurrency = 1
    AutoModes = {FALSE}
    MaxCrashes = 0
SPECIFICATION Spec
PROPERTY SoftDeleteSticks
