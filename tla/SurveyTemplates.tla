--------------------------- MODULE SurveyTemplates ---------------------------
(* The templates surveys are made from: written in place while no assessment *)
(* uses them, and as a new version afterwards (template-service.ts, POST     *)
(* /api/v1/assessments).                                                     *)
(*                                                                           *)
(* Whether a template is used is counted before the transaction that         *)
(* replaces its sections, and a transaction only deletes the sections its    *)
(* DELETE could see.  The builder page chooses between the two ways of       *)
(* saving from what it was rendered with, so a call may ask for either at    *)
(* any time.                                                                 *)
EXTENDS Integers, FiniteSets

CONSTANTS Surveys,      \* ids of template rows
          Savers,       \* the requests the servers run at one time
          MaxWrites     \* bound on the structures written

VARIABLES template,   \* the rows there are; sections are named by the write they come from
          from,       \* history: the template each was saved as a version of
          asked,      \* history: the sections of each when an assessment first used it
          writes,     \* the number of structures written, which tells them apart
          saving,     \* what each request is doing
          mixed       \* history: the templates to which overlapping calls happened, by kind
surveyVars == <<template, from, asked, writes, saving, mixed>>

NoSurvey == "none"
AtRest == [at |-> "idle", on |-> NoSurvey, sees |-> {}, made |-> NoSurvey]
Kinds == {"used", "written", "versioned", "restored"}

NoRow == [active |-> FALSE, sections |-> {}, used |-> FALSE, answered |-> {}]
NewRow(n) == [NoRow EXCEPT !.active = TRUE, !.sections = {n}]
Stored == {t \in Surveys : template[t] # NoRow}

SurveyInit ==
    /\ \E t \in Surveys : template = [u \in Surveys |-> IF u = t THEN NewRow(0) ELSE NoRow]
    /\ from = [t \in Surveys |-> NoSurvey]
    /\ asked = [t \in Surveys |-> {}]
    /\ writes = 0
    /\ saving = [c \in Savers |-> AtRest]
    /\ mixed = {}

Stands(c, at, t) == saving[c].at = at /\ saving[c].on = t

Goes(c, row) == saving' = [saving EXCEPT ![c] = row]

\* What happened to a template while another call was in the middle of it.
Notes(kind, t, when) == mixed' = mixed \cup (IF when THEN {<<kind, t>>} ELSE {})

------------------------------------------------------------------------------
(* Changing a template in place.                                             *)

\* Mutant of MayReplace: nobody asks whether the template is used.
MayReplaceAny(t) == TRUE

MayReplace(t) == ~template[t].used

CountUses(c, t) ==
    /\ saving[c].at = "idle" /\ t \in Stored /\ MayReplace(t)
    /\ Goes(c, [AtRest EXCEPT !.at = "counted", !.on = t])
    /\ UNCHANGED <<template, from, asked, writes, mixed>>

\* The transaction's DELETE begins: it deletes the sections committed by now.
BeginReplace(c, t) ==
    /\ Stands(c, "counted", t)
    /\ Goes(c, [saving[c] EXCEPT !.at = "deleting", !.sees = template[t].sections])
    /\ UNCHANGED <<template, from, asked, writes, mixed>>

\* What is left under the template when the new sections come to it.
Kept(c, t) == template[t].sections \ saving[c].sees

\* Mutant of Answered: the answers go with their questions.
AnsweredNone(c, t) == FALSE

\* A question somebody answered cannot be deleted, nor anything with it.
Answered(c, t) == template[t].answered \cap saving[c].sees # {}

CommitReplace(c, t) ==
    /\ Stands(c, "deleting", t)
    /\ IF Answered(c, t)
       THEN UNCHANGED <<template, writes, mixed>>
       ELSE /\ writes < MaxWrites /\ writes' = writes + 1
            /\ template' = [template EXCEPT ![t].sections = Kept(c, t) \cup {writes + 1}]
            /\ Notes("written", t, \E d \in Savers \ {c} : Stands(d, "deleting", t))
    /\ Goes(c, AtRest)
    /\ UNCHANGED <<from, asked>>

------------------------------------------------------------------------------
(* Saving a new version, which retires the template it was made from.        *)

\* createTemplate, also as the first half of saveAsNewVersion.
CreateTemplate(c, t, u) ==
    /\ saving[c].at = "idle" /\ t \in Stored \cup {NoSurvey} /\ u \in Surveys \ Stored
    /\ writes < MaxWrites /\ writes' = writes + 1
    /\ template' = [template EXCEPT ![u] = NewRow(writes + 1)]
    /\ from' = [from EXCEPT ![u] = t]
    /\ Goes(c, IF t = NoSurvey THEN AtRest ELSE [AtRest EXCEPT !.at = "created", !.on = t, !.made = u])
    /\ Notes("versioned", t, t # NoSurvey /\ \E v \in Surveys : from[v] = t)
    /\ UNCHANGED asked

\* Mutant of Retires: the new version is retired, and not the old.
RetiresNew(c, t) == saving[c].made

\* The template a call retires when it is done.
Retires(c, t) == t

Retire(c, t) ==
    /\ Stands(c, "created", t)
    /\ template' = [template EXCEPT ![Retires(c, t)].active = FALSE]
    /\ Goes(c, AtRest)
    /\ UNCHANGED <<from, asked, writes, mixed>>

\* The server stops between the two.
BreakOffVersion(c, t) ==
    /\ Stands(c, "created", t)
    /\ Goes(c, AtRest)
    /\ Notes("versioned", t, TRUE)
    /\ UNCHANGED <<template, from, asked, writes>>

\* setTemplateActive.
SetActive(t, b) ==
    /\ t \in Stored /\ template[t].active # b
    /\ template' = [template EXCEPT ![t].active = b]
    /\ Notes("restored", t, b)
    /\ UNCHANGED <<from, asked, writes, saving>>

------------------------------------------------------------------------------
(* Using a template.                                                         *)

\* An assessment is scheduled: the template is read, then the row made.
LoadSchedule(c, t) ==
    /\ saving[c].at = "idle" /\ template[t].active
    /\ Goes(c, [AtRest EXCEPT !.at = "scheduling", !.on = t])
    /\ UNCHANGED <<template, from, asked, writes, mixed>>

Schedule(c, t) ==
    /\ Stands(c, "scheduling", t)
    /\ template' = [template EXCEPT ![t].used = TRUE]
    /\ asked' = [asked EXCEPT ![t] = IF template[t].used THEN @ ELSE template[t].sections]
    /\ Notes("used", t, \E d \in Savers : Stands(d, "counted", t) \/ Stands(d, "deleting", t))
    /\ Goes(c, AtRest)
    /\ UNCHANGED <<from, writes>>

\* An inspector answers a question of the sections there are.
Answer(t, sec) ==
    /\ template[t].used /\ sec \in template[t].sections \ template[t].answered
    /\ template' = [template EXCEPT ![t].answered = @ \cup {sec}]
    /\ UNCHANGED <<from, asked, writes, saving, mixed>>

SurveyNext ==
    \/ \E c \in Savers, t \in Surveys :
         \/ CountUses(c, t) \/ BeginReplace(c, t) \/ CommitReplace(c, t)
         \/ \E p \in Surveys \cup {NoSurvey} : CreateTemplate(c, p, t)
         \/ Retire(c, t) \/ BreakOffVersion(c, t)
         \/ LoadSchedule(c, t) \/ Schedule(c, t)
    \/ \E t \in Surveys, b \in BOOLEAN : SetActive(t, b)
    \/ \E t \in Surveys : \E sec \in template[t].sections : Answer(t, sec)

SurveySpec == SurveyInit /\ [][SurveyNext]_surveyVars
------------------------------------------------------------------------------
\* Every variable holds a value of its type.
SurveyTypeOK ==
    /\ \A t \in Surveys :
         /\ template[t].active \in BOOLEAN /\ template[t].used \in BOOLEAN
         /\ template[t].sections \subseteq 0..MaxWrites
    /\ from \in [Surveys -> Surveys \cup {NoSurvey}]
    /\ mixed \subseteq Kinds \X Surveys

\* An assessment keeps the questions it was scheduled with (replaceTemplate:
\* "only while no assessment has used it"), unless it was scheduled between
\* the count of a replacement and its commit.
UsedIsUnchanged ==
    \A t \in Surveys : template[t].used /\ <<"used", t>> \notin mixed => template[t].sections = asked[t]

\* Even then no question anybody has answered goes.
AnsweredStays == \A t \in Surveys : template[t].answered \subseteq template[t].sections

\* A template is what one of its writers wrote, never two of them together,
\* unless the transactions of two replacements overlapped.
OneStructure ==
    \A t \in Stored : <<"written", t>> \notin mixed => Cardinality(template[t].sections) = 1

\* A template a new version was made of is retired, once the call that made
\* the version is over, until somebody brings it back; unless the call was
\* cut off or a version was made of it twice.
SupersededIsRetired ==
    \A t \in Surveys :
      /\ \E u \in Surveys : from[u] = t
      /\ <<"versioned", t>> \notin mixed /\ <<"restored", t>> \notin mixed
      /\ \A c \in Savers : ~Stands(c, "created", t)
      => ~template[t].active

\* Known limit, not checked: of the templates made from one another, at most
\* one is offered for new assessments.  Two pages that save a new version of
\* one template leave two.
OneIsOffered ==
    \A t \in Surveys : Cardinality({u \in Surveys : from[u] = t /\ template[u].active}) <= 1
=============================================================================
