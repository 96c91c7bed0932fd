---------------------------- MODULE MCInspections ----------------------------
(* What inspections leave behind, for TLC: the condition of an asset with    *)
(* the property's health (PropertyHealth), an assessment with its answers    *)
(* (Assessments), its spreadsheet and its page (AnswerSheets, AnswerForms),  *)
(* the templates assessments are made from (SurveyTemplates), the tags of    *)
(* their responses and photos (PhotoTags) and the vocabulary these are       *)
(* chosen from (TagVocabulary).  Each behavior follows one of them.          *)
EXTENDS PropertyHealth, TLC

CONSTANTS Tasks, MaxInstances, MaxRows,
          Surveys, MaxWrites,
          Tags, Multiple, MaxChoices,
          Words, Standard,
          QuestionTypes, Typed, MaxEdits, MaxSends, MaxAnswers,
          Answers, Labels, MaxSaves, MaxOthers

VARIABLES part,
          status, task, responses, answers, complete, assessmentCall, raced,
          template, from, asked, writes, saving, mixed,
          stored, defaults, items, tags, tagging, choices, mingled,
          kinds, words, gone, editing, doubled,
          kind, repeatable, written, ofAssets, rows, edits, panel, loading, locked, since, races,
          shelf, form, saves, unseen, mishap

A == INSTANCE Assessments WITH call <- assessmentCall
S == INSTANCE SurveyTemplates WITH Savers <- Calls
P == INSTANCE PhotoTags WITH TagRows <- Tags, Taggers <- Calls
V == INSTANCE TagVocabulary WITH TagRows <- Words, Editors <- Calls
H == INSTANCE AnswerSheets
F == INSTANCE AnswerForms

assessment == <<status, task, responses, answers, complete, assessmentCall, raced>>
survey == <<template, from, asked, writes, saving, mixed>>
filing == <<stored, defaults, items, tags, tagging, choices, mingled>>
naming == <<kinds, words, gone, editing, doubled>>
sheet == <<kind, repeatable, written, ofAssets, rows, edits, panel, loading, locked, since, races>>
page == <<shelf, form, saves, unseen, mishap>>

\* The rows that stand for nothing are not among those there can be, and a
\* standard tag is told by its type and name; no answer is an answer.
ASSUME InspectionAssumption ==
    /\ MaxInstances \in Nat \ {0} /\ MaxRows \in Nat \ {0} /\ MaxWrites \in Nat /\ MaxChoices \in Nat
    /\ Tasks \subseteq [completable : BOOLEAN, repeatable : BOOLEAN, photo : BOOLEAN]
    /\ S!NoSurvey \notin Surveys
    /\ \A s, t \in Standard : s.type = t.type /\ s.name = t.name => s = t
    /\ 0 \in Answers

Task(c, r, p) == [completable |-> c, repeatable |-> r, photo |-> p]

\* A task that completes itself and one that is marked, repeatable or not,
\* with a photo or words for an answer.
MCTasks == {Task(TRUE, FALSE, TRUE), Task(TRUE, FALSE, FALSE), Task(FALSE, TRUE, TRUE)}

\* Two levels, one of them the property's own, the level of another property,
\* and a tag of a type an item may have several of.
Tag(i, type, place) == [id |-> i, type |-> type, place |-> place]
MCTags == {Tag(1, "level", "everywhere"), Tag(2, "level", "here"),
           Tag(3, "level", "there"), Tag(4, "tag", "everywhere")}

\* Three tags of one name, one of them a property's own, and another.
Word(type, place, name, copy) == [type |-> type, place |-> place, name |-> name, copy |-> copy]
MCWords == {Word("level", "everywhere", "ground", 1), Word("level", "everywhere", "ground", 2),
            Word("level", "here", "ground", 1), Word("area", "everywhere", "roof", 1)}
MCStandard == {[type |-> "level", name |-> "ground"], [type |-> "area", name |-> "roof"]}

Symmetry == Permutations(Calls) \cup Permutations(Surveys)

Parts == {"health", "assessment", "survey", "filing", "naming", "sheet", "page"}

InspectionInit ==
    /\ part \in Parts /\ Init /\ A!Init /\ S!SurveyInit /\ P!TagInit /\ V!WordInit
    /\ H!SheetInit /\ F!FormInit
    /\ part = "assessment" \/ task = Task(FALSE, TRUE, TRUE)
    /\ part = "health" \/ score = MaxScore
    /\ part = "filing" \/ defaults = {}
    /\ written.site[1] \in Typed \cup {H!Blank} \/ ofAssets.site[1] = H!Blank
    /\ \/ part = "sheet"
       \/ repeatable /\ kind = "text" /\ written.site[1] = H!Blank /\ written.task[1] = H!Blank
          /\ ofAssets.site[1] = H!Blank
    /\ part = "page" \/ shelf.number = 0

HealthStep == /\ part = "health" /\ Next
              /\ UNCHANGED <<part, assessment, survey, filing, naming, sheet, page>>
AssessmentStep == /\ part = "assessment" /\ A!Next
                  /\ UNCHANGED <<part, healthVars, survey, filing, naming, sheet, page>>
SurveyStep == /\ part = "survey" /\ S!SurveyNext
              /\ UNCHANGED <<part, healthVars, assessment, filing, naming, sheet, page>>
FilingStep == /\ part = "filing" /\ P!TagNext
              /\ UNCHANGED <<part, healthVars, assessment, survey, naming, sheet, page>>
NamingStep == /\ part = "naming" /\ V!WordNext
              /\ UNCHANGED <<part, healthVars, assessment, survey, filing, sheet, page>>
SheetStep == /\ part = "sheet" /\ H!SheetNext
             /\ UNCHANGED <<part, healthVars, assessment, survey, filing, naming, page>>
PageStep == /\ part = "page" /\ F!FormNext
            /\ UNCHANGED <<part, healthVars, assessment, survey, filing, naming, sheet>>

\* Bound: TLC goes no further once somebody has answered in the app beside a
\* sheet, as from there on it only matters what the panel has checked, which
\* no answer changes.
NobodyBeside == part = "sheet" => since.others = 0

all == <<part, healthVars, assessment, survey, filing, naming, sheet, page>>

InspectionNext ==
    \/ HealthStep \/ AssessmentStep \/ SurveyStep \/ FilingStep \/ NamingStep \/ SheetStep \/ PageStep

InspectionSpec == InspectionInit /\ [][InspectionNext]_all

\* The review of a finding counts once, with every value of its type: a
\* confirmed finding took its hit once, the history of an asset leads to its
\* score, and the newest snapshot of the property's health is of its present
\* state (PropertyHealth.tla).
ReviewCountsOnce ==
    part = "health" => TypeOK /\ ConfirmedOnce /\ HistoryLeadsToScore /\ SnapshotIsCurrent

\* What is complete is answered, a question once per response, and a task that
\* is not repeatable has one response (Assessments.tla).
AnswersAreWhole ==
    part = "assessment" => A!TypeOK /\ A!CompleteIsAnswered /\ A!OneAnswer /\ A!OneResponse

\* Assessments keep the questions they were scheduled with, answered questions
\* stay, a template is what one writer wrote, and one that has a new version is
\* no longer offered (SurveyTemplates.tla).
TemplatesAreKept ==
    part = "survey" => /\ S!SurveyTypeOK /\ S!UsedIsUnchanged /\ S!AnsweredStays
                       /\ S!OneStructure /\ S!SupersededIsRetired

\* A photo and a response have one tag of a kind, of those their property
\* offers (PhotoTags.tla), and no two of those mean the same
\* (TagVocabulary.tla).
TagsAreFiled ==
    /\ part = "filing" => P!TagTypeOK /\ P!OneOfAKind /\ P!TagsAreOffered
    /\ part = "naming" => V!WordTypeOK /\ V!NamesAreDistinct

\* What people filled in is what is stored: a sheet loads whole, as checked, and
\* what it was exported from when nobody changed it (AnswerSheets.tla), and a
\* page at rest shows what is stored and wiped nothing (AnswerForms.tla).
SheetsAreTrue ==
    /\ part = "sheet" => H!SheetTypeOK /\ H!RoundTrip /\ H!LoadedIsWhole /\ H!LoadIsChecked
    /\ part = "page" => F!FormTypeOK /\ F!ShownIsStored /\ F!OthersStay

\* Nothing changes on a completed assessment, and a released one stays so
\* (Assessments.tla).
LockedStays == A!LockedStays
=============================================================================
