SPECIFICATION FairSpec
CONSTANTS
    Layers = {l1, l2}
    NoLayer = NoLayer
    Passes = {p1}
    Members = {u1}
    MaxExportAttempts = 2
    MaxCopies = 1
    MaxCuts = 1
    MaxRetries = 1
    MaxIgnores = 1
INVARIANTS
    LayersAreAccountedFor
    SettledIsComplete
PROPERTIES
    ImportSettles
