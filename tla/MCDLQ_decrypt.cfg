CONSTANTS
    MaxJobs = 1
    Kinds <- MegaKinds
    Gids = {g1,g2}
    NoGid = NoGid
    MaxAttempts = 1
    PostprocessLimit = 100
    Faults = TRUE
    Lossy = FALSE
    Workers = {w1, w2, w3}
    DecryptConcurrency = 1
    Clients = {c1}
    Ops = {"create", "retry"}
    MaxManual = 1
    Concurrency = 1
    AutoModes = {TRUE, FALSE}
    MaxCrashes = 1
SPECIFICATION Spec
SYMMETRY Symmetry
INVARIANTS OneDecryptPerJob TokensConserved CompletedIsPlain
PROPERTY LifecycleSpec
