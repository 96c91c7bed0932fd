SPECIFICATION InspectionSpec
CONSTANTS
    Findings = {f1, f2}
    Rated = {f1}
    Suggestion = 1
    Hit = 1
    MaxScore = 1
    Calls = {c1, c2}
    Tasks <- MCTasks
    MaxInstances = 2
    MaxRows = 2
    Surveys = {t1, t2}
    MaxWrites = 2
    Tags <- MCTags
    Multiple = {"tag"}
    MaxChoices = 2
    Words <- MCWords
    Standard <- MCStandard
    QuestionTypes = {"text", "measure", "choice", "photo"}
    Typed = {"plain", "one"}
    MaxEdits = 1
    MaxSends = 2
    MaxAnswers = 1
    Answers = {0, 1}
    Labels = {"a", "b"}
    MaxSaves = 2
    MaxOthers = 1
SYMMETRY Symmetry
CONSTRAINT NobodyBeside
CHECK_DEADLOCK FALSE
INVARIANTS
    ReviewCountsOnce
    AnswersAreWhole
    TemplatesAreKept
    TagsAreFiled
    SheetsAreTrue
PROPERTIES
    LockedStays
