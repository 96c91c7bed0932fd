----------------------------- MODULE AnswerSheets -----------------------------
(* The spreadsheet of an assessment: exported, filled in by hand, checked and *)
(* loaded from the page's panel (assessment-sheet.ts,                         *)
(* assessment-sheet-service.ts, AnswerSheetPanel.tsx).  The template has one  *)
(* question of the site and one of a task, both of one kind; rows of wrong    *)
(* questions fail like those of another assessment.                           *)
EXTENDS Integers, Sequences, FiniteSets

CONSTANTS QuestionTypes,  \* kinds of questions: yesNo, text, measure, choice, photo
          Typed,       \* the answers people give, in a cell or in the app
          MaxEdits,    \* bound on what people change in the sheet
          MaxSends,    \* bound on checks and loads
          MaxAnswers   \* bound on what is answered in the app meanwhile

VARIABLES kind, repeatable,
          written,     \* the answers there are, by question and response
          ofAssets,    \* and those to the same questions about an asset
          rows,        \* the sheet as a person has it: <<>> before an export
          edits,
          panel,       \* the panel: the file picked, what it waits for, the result
          loading,     \* what the server does with the file
          locked,
          since,       \* the answers and responses when the sheet was exported, and
                       \* whether the sheet, and how often an answer, changed since,
                       \* and whether a load was finished
          races      \* which unguarded races have happened
sheetVars == <<kind, repeatable, written, ofAssets, rows, edits, panel, loading, locked, since, races>>

Blank == "blank"
Bad == "bad"
NoFile == <<>>
Numbers == 1..2
\* The site's question, and the task's for a response.
Places == {[q |-> "site", n |-> 1]} \cup [q : {"task"}, n : Numbers]

\* What an answer may be, as far as a cell can tell: text with spaces around it, a
\* formula, text that begins with a tab, text that looks like either of them guarded,
\* a note that reads as a number, a number with a note, an option that contains the
\* separator.  For words in a measurement, "spaced" stands for whatever loads as
\* other words; options are taken to differ in more than case.
Values(k) == CASE k = "yesNo" -> {"yes", "no"}
               [] k = "text" -> {"plain", "spaced", "formula", "guarded", "tabbed", "quoted"}
               [] k = "measure" -> {"number", "words", "spaced", "digits", "both"}
               [] k = "choice" -> {"one", "several", "split"}
               [] OTHER -> {}

\* formatAnswerCell, with neutralizeFormula.
FormatAnswerCell(v) ==
    CASE v = "formula" -> "guarded"
      [] v = "tabbed" -> "quoted"
      [] v \in {"digits", "both"} -> "number"
      [] OTHER -> v

\* parseAnswerCell: the cell is trimmed, the guard of a formula is undone, the one
\* before a tab is not; a measurement may be any words.
ParseAnswerCell(cell) ==
    CASE cell = "guarded" -> "formula"
      [] cell = "spaced" -> IF kind = "measure" THEN "words" ELSE "plain"
      [] cell \in {"wrong", "split"} -> IF kind = "measure" THEN "words" ELSE Bad
      [] OTHER -> cell

\* The answers whose cell reads back as they are.
Exact == {"yes", "no", "plain", "formula", "number", "words", "one", "several", Blank}

\* An answer of the first response alone, where there is no other response, or no
\* other answer.
Only(v, others) == [n \in Numbers |-> IF n = 1 THEN v ELSE others]

Responses == {n \in Numbers : written["task"][n] # "none"}

NoResult == [rows |-> NoFile, applied |-> FALSE, errors |-> 0, saved |-> 0]

SheetInit ==
    /\ kind \in QuestionTypes /\ repeatable \in BOOLEAN
    /\ \E v \in Values(kind) \cup {Blank} : \E first \in {v, "none"} :
         written = [site |-> Only(v, "none"), task |-> Only(first, "none")]
    /\ \E v \in (Values(kind) \cap Typed) \cup {Blank} :
         ofAssets = [site |-> Only(v, Blank), task |-> Only(IF 1 \in Responses THEN v ELSE Blank, Blank)]
    /\ rows = NoFile /\ edits = 0 /\ locked = FALSE /\ races = {}
    /\ panel = [file |-> NoFile, busy |-> "none", sends |-> 0, result |-> NoResult]
    /\ loading = [at |-> "idle", rows |-> NoFile, dry |-> TRUE, open |-> {}, save |-> {}]
    /\ since = [was |-> written, edited |-> FALSE, others |-> 0, loaded |-> FALSE]

------------------------------------------------------------------------------
(* The sheet.                                                                 *)

Row(q, n, v) == [mine |-> TRUE, q |-> q, n |-> n, cell |-> FormatAnswerCell(v)]

\* The answers a row may show: of one about an asset and one about none it shows
\* either.
Shown(q, n) ==
    LET all == {written[q][n], ofAssets[q][n]} \ {"none", Blank} IN IF all = {} THEN {Blank} ELSE all

\* rowsFor: a task nobody has started still gets its rows.
RowsFor(site, first, second) ==
    <<Row("site", 1, site)>> \o
    (IF 1 \in Responses \/ Responses = {} THEN <<Row("task", 1, first)>> ELSE <<>>) \o
    (IF 2 \in Responses THEN <<Row("task", 2, second)>> ELSE <<>>)

Export ==
    /\ rows = NoFile
    /\ \E site \in Shown("site", 1), first \in Shown("task", 1), second \in Shown("task", 2) :
         rows' = RowsFor(site, first, second)
    /\ since' = [since EXCEPT !.was = written]
    /\ UNCHANGED <<kind, repeatable, written, ofAssets, edits, panel, loading, locked, races>>

\* Somebody fills a cell or clears it, copies a task's row and fills the copy, or
\* pastes a row of another assessment.
Fill(i, cell) == rows[i].cell # cell /\ rows' = [rows EXCEPT ![i].cell = cell]
CopyRow(i, n, cell) == rows[i].q = "task" /\ rows' = Append(rows, [rows[i] EXCEPT !.n = n, !.cell = cell])
Misplace(i) == rows[i].mine /\ rows' = [rows EXCEPT ![i].mine = FALSE]

Edit ==
    /\ edits < MaxEdits /\ edits' = edits + 1
    /\ \E i \in DOMAIN rows :
         \/ \E cell \in (Values(kind) \cap Typed) \cup {Blank, "wrong"} :
              Fill(i, cell) \/ \E n \in Numbers : CopyRow(i, n, cell)
         \/ Misplace(i)
    /\ since' = [since EXCEPT !.edited = TRUE]
    /\ UNCHANGED <<kind, repeatable, written, ofAssets, panel, loading, locked, races>>

------------------------------------------------------------------------------
(* importAnswers.                                                             *)

\* A row that would be saved if no row before it answered the same.
Readable(r) ==
    /\ r.mine /\ r.cell # Blank /\ kind # "photo"
    /\ r.q = "task" /\ r.n > 1 => repeatable
    /\ ParseAnswerCell(r.cell) # Bad

SameQuestion(r, s) == r.q = s.q /\ (r.q = "task" => r.n = s.n)

\* Mutant of StatusOf: a second answer to one question overwrites the first.
StatusOfEach(sheet, i) ==
    IF ~sheet[i].mine THEN "error"
    ELSE IF sheet[i].cell = Blank \/ kind = "photo" THEN "skip"
    ELSE IF Readable(sheet[i]) THEN "save" ELSE "error"

StatusOf(sheet, i) ==
    IF ~sheet[i].mine THEN "error"
    ELSE IF sheet[i].cell = Blank \/ kind = "photo" THEN "skip"
    ELSE IF Readable(sheet[i]) /\ \A j \in 1 .. i - 1 : ~(Readable(sheet[j]) /\ SameQuestion(sheet[i], sheet[j]))
         THEN "save"
    ELSE "error"

Errors(sheet) == {i \in DOMAIN sheet : StatusOf(sheet, i) = "error"}
Planned(sheet) == {i \in DOMAIN sheet : StatusOf(sheet, i) = "save"}
OfTasks(sheet) == {i \in Planned(sheet) : sheet[i].q = "task"}

Outcome(applied) ==
    [rows |-> loading.rows, applied |-> applied, errors |-> Cardinality(Errors(loading.rows)),
     saved |-> Cardinality(Planned(loading.rows))]

\* What the panel hears; where the way to the server is cut it keeps the result
\* it showed before.
Answered(result) ==
    /\ \E heard \in {result, panel.result} : panel' = [panel EXCEPT !.busy = "none", !.result = heard]
    /\ loading' = [loading EXCEPT !.at = "idle", !.open = {}, !.save = {}]
    /\ since' = [since EXCEPT !.loaded = @ \/ result.applied]

Check ==
    /\ loading.at = "check"
    /\ IF locked THEN Answered(NoResult)
       ELSE IF loading.dry \/ Errors(loading.rows) # {} THEN Answered(Outcome(FALSE))
       ELSE /\ loading' = [loading EXCEPT !.at = "write", !.open = OfTasks(loading.rows), !.save = Planned(loading.rows)]
            /\ UNCHANGED <<panel, since>>
    /\ UNCHANGED <<kind, repeatable, written, ofAssets, rows, edits, locked, races>>

\* ensureTaskResponse and saveAnswer each load the assessment again, and a lock
\* that came between leaves the rest undone.
GiveUp == Answered(NoResult) /\ races' = races \cup {"half"} /\ UNCHANGED written

First(S) == CHOOSE i \in S : \A j \in S : i <= j

\* Responses first ...
OpenResponse ==
    /\ loading.at = "write" /\ loading.open # {}
    /\ LET i == First(loading.open)
           n == loading.rows[i].n
       IN IF locked THEN GiveUp
          ELSE /\ written' = IF n \in Responses THEN written ELSE [written EXCEPT !.task[n] = Blank]
               /\ loading' = [loading EXCEPT !.open = @ \ {i}] /\ UNCHANGED <<panel, since, races>>
    /\ UNCHANGED <<kind, repeatable, ofAssets, rows, edits, locked>>

\* ... then the answers into them, as answers about no asset ...
SaveAnswer ==
    /\ loading.at = "write" /\ loading.open = {} /\ loading.save # {}
    /\ LET i == First(loading.save)
           r == loading.rows[i]
       IN IF locked \/ (r.q = "task" /\ r.n \notin Responses) THEN GiveUp
          ELSE /\ written' = [written EXCEPT ![r.q][r.n] = ParseAnswerCell(r.cell)]
               /\ loading' = [loading EXCEPT !.save = @ \ {i}]
               /\ UNCHANGED <<panel, since, races>>
    /\ UNCHANGED <<kind, repeatable, ofAssets, rows, edits, locked>>

\* ... then the line in the audit log.
LogImport ==
    /\ loading.at = "write" /\ loading.open = {} /\ loading.save = {}
    /\ Answered(Outcome(TRUE))
    /\ UNCHANGED <<kind, repeatable, written, ofAssets, rows, edits, locked, races>>

\* A statement fails, the one that writes that line too, or the server stops.
BreakOffSheet ==
    /\ loading.at # "idle" /\ Answered(NoResult)
    /\ races' = races \cup (IF loading.at = "write" THEN {"half"} ELSE {})
    /\ UNCHANGED <<kind, repeatable, written, ofAssets, rows, edits, locked>>

------------------------------------------------------------------------------
(* The panel.                                                                 *)

\* A file may be picked while another is being checked.
PickFile ==
    /\ rows # NoFile /\ panel.file # rows
    /\ panel' = [panel EXCEPT !.file = rows, !.result = NoResult]
    /\ races' = races \cup (IF panel.busy # "none" THEN {"file"} ELSE {})
    /\ UNCHANGED <<kind, repeatable, written, ofAssets, rows, edits, loading, locked, since>>

MayLoad == panel.result.rows # NoFile /\ ~panel.result.applied /\ panel.result.errors = 0 /\ panel.result.saved > 0

Send(dry) ==
    /\ panel.file # NoFile /\ panel.busy = "none" /\ panel.sends < MaxSends
    /\ dry \/ MayLoad
    /\ panel' = [panel EXCEPT !.busy = IF dry THEN "check" ELSE "load", !.sends = @ + 1]
    /\ loading' = [at |-> "check", rows |-> panel.file, dry |-> dry, open |-> {}, save |-> {}]
    /\ UNCHANGED <<kind, repeatable, written, ofAssets, rows, edits, locked, since, races>>

------------------------------------------------------------------------------
(* Others, in the app (Assessments.tla).                                      *)

Others(next, nextOfAssets) ==
    /\ written' = next /\ ofAssets' = nextOfAssets /\ (written' # written \/ ofAssets' # ofAssets)
    /\ since.others < MaxAnswers /\ since' = [since EXCEPT !.others = @ + 1]
    /\ UNCHANGED <<kind, repeatable, rows, edits, panel, loading, locked, races>>

\* An answer, about an asset or none, or the removal of a response with its answers.
AnswerInApp ==
    /\ ~locked
    /\ \/ \E v \in Values(kind) \cap Typed :
            \/ Others([written EXCEPT !.site[1] = v], ofAssets)
            \/ Others(written, [ofAssets EXCEPT !.site[1] = v])
            \/ \E n \in Responses \cup {1} : Others([written EXCEPT !.task[n] = v], ofAssets)
            \/ \E n \in Responses \cup {1} :
                 Others([written EXCEPT !.task[n] = IF @ = "none" THEN Blank ELSE @], [ofAssets EXCEPT !.task[n] = v])
       \/ repeatable /\ \E n \in Responses :
            Others([written EXCEPT !.task[n] = "none"], [ofAssets EXCEPT !.task[n] = Blank])

\* The assessment is completed, and its answers are locked.
Lock ==
    /\ ~locked /\ locked' = TRUE
    /\ UNCHANGED <<kind, repeatable, written, ofAssets, rows, edits, panel, loading, since, races>>

SheetNext == Export \/ Edit \/ Check \/ OpenResponse \/ SaveAnswer \/ LogImport \/ BreakOffSheet \/ PickFile
             \/ (\E dry \in BOOLEAN : Send(dry)) \/ AnswerInApp \/ Lock

SheetSpec == SheetInit /\ [][SheetNext]_sheetVars
------------------------------------------------------------------------------
\* Every variable holds a value of its type.
SheetTypeOK ==
    /\ \A p \in Places : /\ written[p.q][p.n] \in Values(kind) \cup {Blank, "none"}
                          /\ ofAssets[p.q][p.n] \in Values(kind) \cup {Blank}
    /\ loading.at \in {"idle", "check", "write"} /\ panel.busy \in {"none", "check", "load"}
    /\ races \subseteq {"half", "file"}

\* A sheet nobody has changed loads back to what it was exported from, question by
\* question and however often it is loaded: its blanks make no response, its
\* formulas keep their text; unless others answered, the answer does not survive
\* its cell (text with spaces around it, beginning with a tab or looking guarded,
\* a note of digits or beside a number, an option with the separator), or there
\* is an answer about an asset to the question too, which the row may show and
\* a load writes as one about none.
RoundTrip ==
    ~since.edited /\ since.others = 0 =>
      \A p \in Places : LET was == since.was[p.q][p.n] IN
        was \in Exact \cup {"none"} /\ ofAssets[p.q][p.n] = Blank => written[p.q][p.n] = was

\* All or nothing: what the panel calls loaded is in the assessment row by row,
\* and without that nothing is (importAnswers), as long as nobody answers in
\* the app and no load that has begun to write fails, is not logged, or finds
\* the assessment locked.
LoadedIsWhole ==
    since.others = 0 /\ rows # NoFile =>
      /\ ~since.loaded /\ "half" \notin races /\ loading.at # "write" => written = since.was
      /\ panel.result.applied =>
         \A i \in DOMAIN panel.result.rows :
           LET r == panel.result.rows[i]
           IN r.mine /\ r.cell # Blank /\ kind # "photo" => written[r.q][IF r.q = "site" THEN 1 ELSE r.n] = ParseAnswerCell(r.cell)

\* What is being loaded has been checked by the panel, without an error, before
\* somebody pressed Load (AnswerSheetPanel); unless another file was picked
\* while the first was being checked.
LoadIsChecked ==
    panel.busy = "load" /\ "file" \notin races => panel.result.rows = loading.rows /\ Errors(loading.rows) = {}
=============================================================================
