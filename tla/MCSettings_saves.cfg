CONSTANTS
    Admins = {a1, a2}
    Updates <- BorderUpdates
    WriteFaults = TRUE
    MaxCrashes = 1
SPECIFICATION Spec
INVARIANTS TypeOK SavedUpdateKept
SYMMETRY AdminSymmetry
