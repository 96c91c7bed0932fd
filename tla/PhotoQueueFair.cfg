SPECIFICATION FairSpec
CONSTANTS
    Photos = {p1, p2}
    UploadRuns = {u1}
    Sweeps = {s1}
    Clickers = {}
    NoPhoto = NoPhoto
    MaxAttempts = 1
    StaleRunning = 1
    RunLifetime = 1
    Budget = 0
    MaxCrashes = 1
PROPERTIES
    ImplementsLease
    QueuedIsSettled
