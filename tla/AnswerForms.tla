------------------------------ MODULE AnswerForms ------------------------------
(* The page an assessment is answered on (AssessmentRunner.tsx, TagPicker.tsx): *)
(* a measurement, whose note is an input of the page and whose number others    *)
(* fill in, a question of two buttons, and the tags of a task response.  The    *)
(* note is an uncontrolled input: it shows what was stored when the page was    *)
(* opened and what is typed since, and saves when it is left, changed or not.   *)
(* The tags show what was picked at once.  Saves run at the same time.          *)
EXTENDS Integers, Sequences, FiniteSets

CONSTANTS Answers,     \* answers people give, with 0 for none
          Labels,      \* tags the picker offers, of a type that takes several
          MaxSaves,    \* bound on the saves of the page
          MaxOthers    \* bound on what others change

VARIABLES shelf,       \* what is stored: note, number, choice, labels
          form,        \* the page: what it was rendered with, what it shows
          saves,       \* the saves of the page, in the order they were sent
          unseen,      \* what others changed since the page was opened
          mishap       \* what kept the page from the truth: races and hidden errors
formVars == <<shelf, form, saves, unseen, mishap>>

Fields == {"note", "choice", "labels"}

FormInit ==
    /\ \E n \in Answers : shelf = [note |-> 0, number |-> n, choice |-> 0, labels |-> {}]
    /\ form = [drawn |-> shelf, note |-> 0, labels |-> {}, busy |-> FALSE, error |-> FALSE, asked |-> FALSE]
    /\ saves = <<>> /\ unseen = [others |-> 0, fields |-> {}] /\ mishap = {}

Under == {i \in DOMAIN saves : saves[i].at # "done"}

\* run: a save clears the error and marks the page busy; what the save writes
\* is decided when it is sent.
Run(field, value) ==
    /\ Len(saves) < MaxSaves
    /\ saves' = Append(saves, [field |-> field, value |-> value, at |-> "sent"])
    /\ mishap' = mishap \cup (IF form.error THEN {"hidden"} ELSE {})
                        \cup (IF \E i \in Under : saves[i].field = field THEN {"overlap"} ELSE {})
    /\ UNCHANGED <<shelf, unseen>>

\* answerValues: the stored values go along, so that saving one field does not
\* wipe the others.
AnswerValues == [number |-> form.drawn.number]

TypeNote(v) ==
    /\ form.note # v /\ form' = [form EXCEPT !.note = v]
    /\ UNCHANGED <<shelf, saves, unseen, mishap>>

LeaveNote ==
    /\ Run("note", [note |-> form.note, number |-> AnswerValues.number])
    /\ form' = [form EXCEPT !.busy = TRUE, !.error = FALSE]

Choose(v) ==
    /\ Run("choice", [choice |-> v])
    /\ form' = [form EXCEPT !.busy = TRUE, !.error = FALSE]

\* saveResponseTags, with the picker's chips: shown at once, saved behind.
Toggled(t) == IF t \in form.labels THEN form.labels \ {t} ELSE form.labels \cup {t}

SaveResponseTags(t) ==
    /\ Run("labels", [labels |-> Toggled(t)])
    /\ form' = [form EXCEPT !.labels = Toggled(t), !.busy = TRUE, !.error = FALSE]

\* The server writes what it was sent, in whatever order the saves arrive, or
\* refuses: the assessment is locked, a tag is not offered, the way was cut.
Stored(s) == [k \in DOMAIN shelf |-> IF k \in DOMAIN s.value THEN s.value[k] ELSE shelf[k]]

Serve(i) ==
    /\ saves[i].at = "sent"
    /\ \/ shelf' = Stored(saves[i]) /\ saves' = [saves EXCEPT ![i].at = "stored"]
       \/ UNCHANGED shelf /\ saves' = [saves EXCEPT ![i].at = "refused"]
    /\ UNCHANGED <<form, unseen, mishap>>

\* The page hears: of two saves, in either order.  The error of one is all it
\* shows, and any answer ends "Saving...".
Hear(i) ==
    /\ saves[i].at \in {"stored", "refused"}
    /\ saves' = [saves EXCEPT ![i].at = "done"]
    /\ \/ saves[i].at = "stored" /\ form' = [form EXCEPT !.busy = FALSE, !.asked = TRUE]
       \/ form' = [form EXCEPT !.busy = FALSE, !.error = TRUE]     \* refused, or its answer lost
    /\ UNCHANGED <<shelf, unseen, mishap>>

\* router.refresh: the page is rendered again from what is stored; inputs that
\* are there keep what they show.
Refresh ==
    /\ form.asked
    /\ form' = [form EXCEPT !.drawn = shelf, !.asked = FALSE]
    /\ UNCHANGED <<shelf, saves, unseen, mishap>>

\* The sheet, a device or another page (AnswerSheets.tla, Assessments.tla).
OthersAnswer ==
    /\ unseen.others < MaxOthers
    /\ \E k \in {"note", "number"}, v \in Answers \ {0} :
         /\ shelf[k] # v /\ shelf' = [shelf EXCEPT ![k] = v]
         /\ unseen' = [others |-> unseen.others + 1, fields |-> unseen.fields \cup {k}]
    /\ UNCHANGED <<form, saves, mishap>>

FormNext ==
    \/ \E v \in Answers : TypeNote(v) \/ Choose(v)
    \/ LeaveNote \/ \E t \in Labels : SaveResponseTags(t)
    \/ \E i \in Under : Serve(i) \/ Hear(i)
    \/ Refresh \/ OthersAnswer

FormSpec == FormInit /\ [][FormNext]_formVars
--------------------------------------------------------------------------------
\* Every variable holds a value of its type.
FormTypeOK ==
    /\ shelf.note \in Answers /\ shelf.number \in Answers /\ shelf.choice \in Answers /\ shelf.labels \subseteq Labels
    /\ form.note \in Answers /\ form.labels \subseteq Labels /\ form.drawn.labels \subseteq Labels
    /\ \A i \in DOMAIN saves : saves[i].at \in {"sent", "stored", "refused", "done"}
    /\ mishap \subseteq {"hidden", "overlap"}

\* The last save of the note holds what the note shows: it was left since.
NoteLeft == \E i \in DOMAIN saves : /\ saves[i].field = "note" /\ saves[i].value.note = form.note
                                    /\ \A j \in DOMAIN saves : j > i => saves[j].field # "note"

\* A page at rest that shows no error shows what is stored: the note as it was
\* left, the tags as they were picked, and what it was rendered with; unless
\* two saves of one field were under way at once, an error made way for the
\* next save, or others wrote the same field.
ShownIsStored ==
    Under = {} /\ ~form.error /\ mishap = {} =>
      /\ form.labels = shelf.labels
      /\ NoteLeft /\ "note" \notin unseen.fields => form.note = shelf.note
      /\ ~form.asked /\ unseen.fields = {} => form.drawn = shelf

\* Saving one field does not wipe the others (answerValues): the number of the
\* question stays through every save of its note, unless others changed it
\* after the page was rendered.
OthersStay == "number" \notin unseen.fields => shelf.number = form.drawn.number
================================================================================
