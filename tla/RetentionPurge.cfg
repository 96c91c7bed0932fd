SPECIFICATION Spec
CONSTANTS
    Requests = {d1, d2}
    NoRequest = NoRequest
    Files = {f1, f2}
    Derived = {f2}
    Overlays = {}
    Holds = {h1}
    OrgHolds = {}
    Runners = {r1, r2}
    People = {u1}
    MaxFaults = 1
SYMMETRY Symmetry
INVARIANTS
    GraceIsHonoured
    PurgeIsAccounted
