CONSTANTS
    MaxJobs = 1
    Kinds <- LinkKinds
    Gids = {g1,g2}
    NoGid = NoGid
    MaxAttempts = 2
    PostprocessLimit = 100
    Faults = TRUE
    Lossy = TRUE
    Workers = {w1, w2, w3}
    DecryptConcurrency = 1
    Clients = {c1}
    Ops = {"create", "retry", "remove", "pause", "resume", "clear"}
    MaxManual = 1
    Concurrency = 1
    AutoModes = {FALSE}
    MaxCrashes = 1
SPECIFICATION Spec
SYMMETRY Symmetry
INVARIANTS TypeOK AttemptsBudget EngineTasksTracked CompletedWasDownloaded
PROPERTY LifecycleSpec
