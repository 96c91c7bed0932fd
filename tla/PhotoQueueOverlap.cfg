SPECIFICATION Spec
CONSTANTS
    Photos = {p1}
    UploadRuns = {u1}
    Sweeps = {s1, s2}
    Clickers = {k1}
    NoPhoto = NoPhoto
    MaxAttempts = 2
    StaleRunning = 2
    RunLifetime = 2
    Budget = 1
    MaxCrashes = 1
INVARIANTS
    ExclusiveAnalysis
    ClaimIsHeld
    AttemptsBounded
    SpendBounded
    FindingsAreKept
PROPERTIES
    SettledIsFinal
