SPECIFICATION RecordsSpec
CONSTANTS
    Jobs = {j1, j2}
    NoJob = NoJob
    e1 = e1
    n1 = n1
    n2 = n2
    n3 = n3
    n4 = n4
    Records = {e1, n1, n2, n3, n4}
    NoRecord = NoRecord
    Existing <- MCExisting
    Files <- MCFiles
    Cols <- MCCols
    Null <- MCNull
    Edited <- MCEdited
    Requests = {q1, q2}
    MaxCommits = 2
    MaxEdits = 1
    Objects = {x1}
    Passes = {q1, q2}
    OldestAge = 2
    Never = Never
    Schedules <- MCSchedules
    MaxCutOffs = 1
    MaxChanges = 2
    Metrics = {j1, j2}
    Properties = {b1}
    NoProperty = NoProperty
    Quantities = {2}
    UnitCosts = {0, 3}
    LastDay = 1
    MaxUsage = 2
    MaxRates = 2
    Buildings = {j1, j2}
    NoBuilding = NoBuilding
    AiCalls <- MCCalls
    MaxIterations = 2
    MaxCalls = 2
    Uploaded = {j1, j2}
    OverlayIds = {1, 2}
    EmbedIds = {3}
    Edges = {0, 1, 2}
    Widest = 1
    ProjectIds = {j1, j2}
    Dates = {1, 2}
    Documents = {c1}
    Surveys = {t1}
    MaxManaged = 3
SYMMETRY Symmetry
CHECK_DEADLOCK FALSE
INVARIANTS
    BooksAreTrue
    LedgerIsTrue
    AnswersAreAccounted
    PlansFit
PROPERTIES
    BooksKeepThePast
