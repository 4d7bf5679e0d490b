CONSTANTS
    MaxJobs = 2
    Kinds <- WebshareKinds
    Gids = {g1,g2,g3}
    NoGid = NoGid
    MaxAttempts = 1
    PostprocessLimit = 100
    Faults = FALSE
    Lossy = FALSE
    Workers = {w1, w2, w3}
    DecryptConcurrency = 1
    Clients = {c1}
    Ops = {"create", "pause", "purge"}
    MaxManual = 0
    Concurrency = 1
    AutoModes = {FALSE}
    MaxCrashes = 0
SPECIFICATION Spec
SYMMETRY Symmetry
INVARIANTS ConcurrencyBound EngineTasksTracked FreshStartSafe
PROPERTY LifecycleSpec
