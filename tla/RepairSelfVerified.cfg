SPECIFICATION FieldSpec
CONSTANTS
    Jobs = {j1}
    Properties = {p1, p2}
    Calls = {q1, q2}
    MaxSites = 2
    Managers = {m1}
    Staff = {t1}
    Cards <- MCCards
    Routes <- MCRoutes
    Chunk = 1
    MaxImports = 2
    MaxMishaps = 1
    JobSites = {s1}
    Images = {p1, p2}
    MaxCaptures = 2
    TourSites = {p1, p2}
    Spaces = {x, y}
    Real = {x}
    MaxAsked = 4
SYMMETRY Symmetry
CHECK_DEADLOCK FALSE
INVARIANTS NobodyVerifiesOwnWork
