CONSTANTS
    MaxJobs = 1
    Kinds <- UnnamedZipKinds
    Gids = {g1,g2}
    NoGid = NoGid
    MaxAttempts = 1
    PostprocessLimit = 100
    Faults = FALSE
    Lossy = FALSE
    Workers = {w1, w2, w3}
    DecryptConcurrency = 1
    Clients = {}
    Ops = {"create"}
    MaxManual = 0
    Concurrency = 1
    AutoModes = {TRUE}
    MaxCrashes = 0
SPECIFICATION Spec
INVARIANT DecryptingWhileInProgress
