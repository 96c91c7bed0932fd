----------------------------- MODULE ImportJobs -----------------------------
(***************************************************************************)
(* Bulk import: src/lib/import-service.ts and src/lib/import/dedup.ts.     *)
(*                                                                         *)
(* An uploaded file is previewed, committed and rolled back by REQUESTS    *)
(* that read the job, compute, and write in one transaction each; nothing  *)
(* keeps two of them apart.  Meanwhile people edit and delete records.     *)
(*                                                                         *)
(* Files are of properties.  A row, once coerced and normalised, is the    *)
(* identity it claims, the cells it fills and two facts about it: do its   *)
(* cells validate, and does the portfolio it names exist.  Text that is    *)
(* blank is None and is not written; a blank number is written as null.    *)
(***************************************************************************)
EXTENDS Integers, Sequences, FiniteSets, SequencesExt, TLC

CONSTANTS
    Jobs, NoJob,
    Records, NoRecord,  \* ids of Property rows; a commit needs one per row
    Existing,           \* [subset of Records -> Identity and values]: the rows at first
    Files,              \* uploads, each a sequence of rows
    Cols,               \* number columns that are not part of an identity
    Null, Edited,       \* a cleared number, and what a person types
    Requests,
    MaxCommits,         \* bound: commits that are applied
    MaxEdits            \* bound: edits and deletions by people

VARIABLES
    file,       \* file[j]: the stored upload, by its place in Files
    db,         \* the Property rows there are, by id
    status,     \* status[j]: ImportJob.status; OPEN is UPLOADED, PREVIEWED or VALIDATED
    results,    \* results[j]: its ImportRowResult rows, in row order
    doing,      \* doing[q]: what request q has read and decided
    edits,
    applied,    \* applied[j]: commits of j that were applied
    base,       \* base[j]: db as the last commit of j found it
    maker,      \* maker[r]: the job whose commit created r
    overlapped, \* have two commits been under way at once?
    merged      \* has a commit updated a record?

request == <<doing>>
history == <<applied, base, maker, overlapped, merged>>
vars == <<file, db, status, results, doing, edits, applied, base, maker, overlapped, merged>>

None == "-"

TextCols == {"cid", "addr", "name", "city"}

Idle == [at |-> "idle", job |-> NoJob, plan |-> <<>>, update |-> FALSE]

Identity == [cid : STRING, ext : SUBSET STRING, addr : STRING, name : STRING, city : STRING,
             vals : [Cols -> STRING]]

\* A valid row has a name and a city, as their columns are required: names and
\* cities without a letter or a digit, which normalise to nothing, are left out.
RowOK(row) ==
    /\ {row.cid, row.addr, row.name, row.city} \subseteq STRING /\ row.ext \subseteq STRING
    /\ DOMAIN row.vals \subseteq Cols /\ \A c \in DOMAIN row.vals : row.vals[c] \in STRING
    /\ row.valid \in BOOLEAN /\ row.resolves \in BOOLEAN
    /\ row.valid => row.name # None /\ row.city # None

\* A row identifies a property that another row, or a record, identifies too.
SameIdentity(a, b) ==
    \/ a.cid # None /\ a.cid = b.cid
    \/ a.addr # None /\ a.addr = b.addr
    \/ a.ext \cap b.ext # {}
    \/ a.name = b.name /\ a.city = b.city

\* No two of the records at first are one property.
ASSUME ImportAssumption ==
    /\ NoJob \notin Jobs /\ NoRecord \notin Records /\ IsFiniteSet(Records)
    /\ MaxCommits \in Nat /\ MaxEdits \in Nat
    /\ Cols \cap TextCols = {} /\ Null \in STRING /\ Edited \in STRING
    /\ DOMAIN Existing \subseteq Records
    /\ \A r \in DOMAIN Existing : Existing[r] \in Identity
    /\ \A r, o \in DOMAIN Existing : r # o => ~SameIdentity(Existing[r], Existing[o])
    /\ \A f \in DOMAIN Files : /\ Len(Files[f]) \in Nat /\ DOMAIN Files[f] = 1 .. Len(Files[f])
                              /\ \A i \in DOMAIN Files[f] : RowOK(Files[f][i])

-----------------------------------------------------------------------------
(* Duplicate detection.  A city stands for a city and its state. *)

Named(kind, key) == IF key = None THEN {} ELSE {<<kind, key>>}

Placed(s) == IF s.city = None THEN {} ELSE {<<"namecity", s.name, s.city>>}

\* Mutant: the address does not identify a row.
KeysWithoutAddress(s) == Named("cid", s.cid) \cup Placed(s) \cup {<<"ext", e>> : e \in s.ext}

\* identityKeysFor
Keys(s) ==
    Named("cid", s.cid) \cup Named("addr", s.addr) \cup Placed(s)
        \cup {<<"ext", e>> : e \in s.ext}

\* findIntraFileDuplicates: rows that repeat a key of an earlier row.
IntraFile(f) ==
    {i \in DOMAIN f : \E k \in 1..(i - 1) : Keys(f[k]) \cap Keys(f[i]) # {}}

\* findMatches: the confidence of the strongest rule that fires, in hundredths.
Confidence(s, r) ==
    IF s.cid # None /\ s.cid = r.cid THEN 100
    ELSE IF s.ext \cap r.ext # {} THEN 95
    ELSE IF s.addr # None /\ s.addr = r.addr THEN 90
    ELSE IF s.name = r.name /\ s.city = r.city THEN 88
    ELSE IF s.name = r.name THEN 60 ELSE 0

\* The strongest candidates; the code takes the first it loaded.
Matches(s, d) ==
    LET score == [r \in DOMAIN d |-> Confidence(s, d[r])]
        best == {r \in DOMAIN d : score[r] > 0 /\ \A o \in DOMAIN d : score[o] <= score[r]}
    IN  IF best = {} THEN {NoRecord} ELSE best

\* verdictFor: DUPLICATE_THRESHOLD and REVIEW_THRESHOLD
Verdict(s, d, match) ==
    IF match = NoRecord THEN "NEW"
    ELSE IF Confidence(s, d[match]) >= 85 THEN "DUPLICATE"
    ELSE IF Confidence(s, d[match]) >= 60 THEN "NEEDS_REVIEW"
    ELSE "NEW"

\* What commitImport makes of every row before its transaction.
Plan(f, d, match) ==
    [i \in DOMAIN f |->
        IF ~f[i].valid THEN [verdict |-> "ERROR", match |-> NoRecord]
        ELSE IF i \in IntraFile(f) THEN [verdict |-> "DUPLICATE", match |-> NoRecord]
        ELSE [verdict |-> Verdict(f[i], d, match[i]), match |-> match[i]]]

\* buildPreview: the verdicts a person is shown.
PreviewVerdicts(f, d, match) ==
    [i \in DOMAIN f |->
        IF ~f[i].valid \/ ~f[i].resolves THEN "ERROR"
        ELSE IF i \in IntraFile(f) THEN "DUPLICATE"
        ELSE Verdict(f[i], d, match[i])]

Rows(j) == Files[file[j]]

-----------------------------------------------------------------------------
(* The transaction of a commit *)

\* writableColumns: text that is there, and every number column of the file.
Writable(row) == {c \in TextCols : row[c] # None} \cup DOMAIN row.vals

Cell(rec, c) == IF c \in TextCols THEN rec[c] ELSE rec.vals[c]

\* Write image to record r, if the table still has it.
Write(d, r, image) ==
    LET New(c) == IF c \in DOMAIN image THEN image[c] ELSE Cell(d[r], c)
    IN  IF r \notin DOMAIN d THEN d
        ELSE [d EXCEPT ![r] = [@ EXCEPT !.cid = New("cid"), !.addr = New("addr"),
                                        !.name = New("name"), !.city = New("city"),
                                        !.vals = [c \in Cols |-> New(c)]]]

\* captureBeforeImage
BeforeImage(d, r, row) ==
    IF r \notin DOMAIN d THEN <<>> ELSE [c \in Writable(row) |-> Cell(d[r], c)]

\* The unique key on customerPropertyId.
Unique(d) == \A r, o \in DOMAIN d : r # o => d[r].cid = None \/ d[r].cid # d[o].cid

Result(action, r, image) == [action |-> action, record |-> r, image |-> image]

NewRecord(row) ==
    [cid |-> row.cid, ext |-> row.ext, addr |-> row.addr, name |-> row.name, city |-> row.city,
     vals |-> [c \in Cols |-> IF c \in DOMAIN row.vals THEN row.vals[c] ELSE Null]]

\* Ids no record has had.
FreshIn(acc) == {r \in Records : r \notin acc.ids}

\* One row of the plan, applied to the database as the transaction has it.
ApplyRow(acc, row, p, update) ==
    LET duplicate == p.verdict \in {"DUPLICATE", "NEEDS_REVIEW"}
        new == CHOOSE r \in FreshIn(acc) : TRUE
        Skip(action) == [acc EXCEPT !.results = Append(@, Result(action, p.match, <<>>))]
    IN  IF p.verdict = "ERROR" THEN Skip("SKIPPED_ERROR")
        ELSE IF duplicate /\ (~update \/ p.match = NoRecord) THEN Skip("SKIPPED_DUPLICATE")
        ELSE IF duplicate
        THEN [acc EXCEPT
                !.db = Write(@, p.match, [c \in Writable(row) |-> Cell(row, c)]),
                !.results = Append(@, Result("UPDATED", p.match,
                                             BeforeImage(acc.db, p.match, row)))]
        ELSE IF ~row.resolves THEN [acc EXCEPT !.ok = FALSE]
        ELSE [acc EXCEPT !.db = [r \in DOMAIN @ \cup {new} |-> IF r = new THEN NewRecord(row) ELSE @[r]],
                         !.ids = @ \cup {new},
                         !.results = Append(@, Result("CREATED", new, <<>>))]

UsedIds == DOMAIN Existing \cup {r \in Records : maker[r] # NoJob}

\* Nothing is applied after a row has failed.
ApplyNext(acc, row, p, update) ==
    LET next == ApplyRow(acc, row, p, update)
    IN  IF ~acc.ok THEN acc ELSE [next EXCEPT !.ok = @ /\ Unique(next.db)]

ApplyAll(rows, plan, update) ==
    LET acc[n \in 0 .. Len(rows)] ==
            IF n = 0 THEN [db |-> db, results |-> <<>>, ok |-> TRUE, ids |-> UsedIds]
            ELSE ApplyNext(acc[n - 1], rows[n], plan[n], update)
    IN  acc[Len(rows)]

\* One row result undone; the table may have lost the record since.
UndoRow(d, res) ==
    CASE res.action = "CREATED" -> [r \in DOMAIN d \ {res.record} |-> d[r]]
      [] res.action = "UPDATED" -> Write(d, res.record, res.image)
      [] OTHER -> d

Undo(d, order) ==
    LET left[n \in 0 .. Len(order)] == IF n = 0 THEN d ELSE UndoRow(left[n - 1], order[n])
    IN  left[Len(order)]

-----------------------------------------------------------------------------
TypeOK ==
    /\ file \in [Jobs -> DOMAIN Files]
    /\ DOMAIN db \subseteq Records
    /\ \A r \in DOMAIN db : db[r] \in Identity
    /\ status \in [Jobs -> {"OPEN", "COMPLETED", "ROLLED_BACK"}]
    /\ \A j \in Jobs : \A i \in DOMAIN results[j] :
          /\ results[j][i].action \in {"CREATED", "UPDATED", "SKIPPED_ERROR", "SKIPPED_DUPLICATE"}
          /\ results[j][i].record \in Records \cup {NoRecord}
          /\ DOMAIN results[j][i].image \subseteq TextCols \cup Cols
    /\ \A q \in Requests : /\ doing[q].at \in {"idle", "commit", "rollback"}
                           /\ doing[q].job \in Jobs \cup {NoJob}
    /\ edits \in 0..MaxEdits
    /\ applied \in [Jobs -> Nat]
    /\ maker \in [Records -> Jobs \cup {NoJob}]
    /\ overlapped \in BOOLEAN /\ merged \in BOOLEAN

Init ==
    /\ file \in [Jobs -> DOMAIN Files]
    /\ db = Existing
    /\ status = [j \in Jobs |-> "OPEN"]
    /\ results = [j \in Jobs |-> <<>>]
    /\ doing = [q \in Requests |-> Idle]
    /\ edits = 0
    /\ applied = [j \in Jobs |-> 0]
    /\ base = [j \in Jobs |-> Existing]
    /\ maker = [r \in Records |-> NoJob]
    /\ overlapped = FALSE /\ merged = FALSE

Done(q) == doing' = [doing EXCEPT ![q] = Idle]

\* The preview route computes, and writes the status whatever it was.
Preview(j) ==
    /\ status' = [status EXCEPT ![j] = "OPEN"]
    /\ UNCHANGED <<file, db, results, doing, edits, history>>

\* commitImport up to its transaction: the job is read, then the candidates.
BeginCommit(q, j, update) ==
    /\ doing[q].at = "idle"
    /\ status[j] \notin {"COMPLETED", "ROLLED_BACK"}
    /\ LET f == Rows(j)
           best == [i \in DOMAIN f |-> Matches(f[i], db)]
       IN  \E match \in [DOMAIN f -> UNION Range(best)] :
              /\ \A i \in DOMAIN f : match[i] \in best[i]
              /\ doing' = [doing EXCEPT ![q] = [at |-> "commit", job |-> j, update |-> update,
                                                plan |-> Plan(f, db, match)]]
    /\ overlapped' = (overlapped \/ \E o \in Requests : doing[o].at = "commit")
    /\ UNCHANGED <<file, db, status, results, edits, applied, base, maker, merged>>

\* The transaction: earlier row results go, the rows are applied, the job is
\* completed, by its id.
Commit(q) ==
    LET j == doing[q].job
        after == ApplyAll(Rows(j), doing[q].plan, doing[q].update)
    IN  /\ doing[q].at = "commit"
        /\ SumFunction(applied) < MaxCommits
        /\ Cardinality(Records \ UsedIds) >= Len(Rows(j))
        /\ after.ok
        /\ db' = after.db
        /\ results' = [results EXCEPT ![j] = after.results]
        /\ status' = [status EXCEPT ![j] = "COMPLETED"]
        /\ Done(q)
        /\ applied' = [applied EXCEPT ![j] = @ + 1]
        /\ base' = [base EXCEPT ![j] = db]
        /\ maker' = [r \in Records |->
                        IF \E i \in DOMAIN after.results :
                              after.results[i] = Result("CREATED", r, <<>>)
                        THEN j ELSE maker[r]]
        /\ merged' = (merged \/ \E i \in DOMAIN after.results :
                                    after.results[i].action = "UPDATED")
        /\ UNCHANGED <<file, edits, overlapped>>

\* A row fails, the transaction times out or the function dies: none of it is kept.
CommitFails(q) ==
    /\ doing[q].at = "commit"
    /\ Done(q)
    /\ UNCHANGED <<file, db, status, results, edits, history>>

\* rollbackImport up to its transaction: the job and its row results are read.
BeginRollback(q, j) ==
    /\ doing[q].at = "idle"
    /\ status[j] = "COMPLETED"
    /\ doing' = [doing EXCEPT ![q] = [at |-> "rollback", job |-> j, update |-> FALSE,
                                      plan |-> results[j]]]
    /\ UNCHANGED <<file, db, status, results, edits, history>>

\* The row results come in no particular order.
Orders(s) == {[i \in DOMAIN s |-> s[p[i]]] : p \in Bijection(DOMAIN s, DOMAIN s)}

Rollback(q) ==
    /\ doing[q].at = "rollback"
    /\ \E order \in Orders(doing[q].plan) :
          /\ Unique(Undo(db, order))
          /\ db' = Undo(db, order)
    /\ status' = [status EXCEPT ![doing[q].job] = "ROLLED_BACK"]
    /\ Done(q)
    /\ UNCHANGED <<file, results, edits, history>>

RollbackFails(q) ==
    /\ doing[q].at = "rollback"
    /\ Done(q)
    /\ UNCHANGED <<file, db, status, results, edits, history>>

EditNumber(r, c) ==
    /\ edits < MaxEdits
    /\ r \in DOMAIN db
    /\ db' = [db EXCEPT ![r].vals[c] = Edited]
    /\ edits' = edits + 1
    /\ UNCHANGED <<file, status, results, doing, history>>

DeleteRecord(r) ==
    /\ edits < MaxEdits
    /\ r \in DOMAIN db
    /\ db' = [o \in DOMAIN db \ {r} |-> db[o]]
    /\ edits' = edits + 1
    /\ UNCHANGED <<file, status, results, doing, history>>

Next ==
    \/ \E j \in Jobs : Preview(j)
    \/ \E q \in Requests :
          \/ \E j \in Jobs, update \in BOOLEAN : BeginCommit(q, j, update)
          \/ \E j \in Jobs : BeginRollback(q, j)
          \/ Commit(q) \/ CommitFails(q)
          \/ Rollback(q) \/ RollbackFails(q)
    \/ \E r \in Records : DeleteRecord(r) \/ \E c \in Cols : EditNumber(r, c)

Spec == Init /\ [][Next]_vars

-----------------------------------------------------------------------------
(* Properties *)

\* Imports that skip duplicates and never overlap leave no two records that
\* one row of a file could mean: what a file repeats is found within the file,
\* and what exists is found in the table, by rules that fit together.
NoSecondIdentity ==
    ~overlapped /\ ~merged =>
        \A r, o \in DOMAIN db : r # o => ~SameIdentity(db[r], db[o])

\* A record an import created can be undone as long as it stands: its row
\* result names it, if the import was applied once.  So a job that is rolled
\* back has left no record behind.
CreatedIsListed ==
    \A r \in DOMAIN db :
        LET j == maker[r]
        IN  j # NoJob /\ applied[j] = 1 =>
                /\ status[j] # "ROLLED_BACK"
                /\ Result("CREATED", r, <<>>) \in Range(results[j])

UpdatedOnce(j, r) ==
    Cardinality({i \in DOMAIN results[j] : results[j][i].action = "UPDATED"
                                           /\ results[j][i].record = r}) = 1

\* A rollback gives every record one row of the file updated the values it had
\* before the commit in the columns that row filled, and what other columns
\* hold by now, edits made since included, stays.
RollbackRestores ==
    \A j \in Jobs :
         status[j] # "ROLLED_BACK" /\ status'[j] = "ROLLED_BACK" /\ applied[j] = 1 =>
             \A r \in DOMAIN db \cap DOMAIN base[j] : UpdatedOnce(j, r) =>
                /\ r \in DOMAIN db'
                /\ \E i \in DOMAIN Rows(j) : \A c \in TextCols \cup Cols :
                      Cell(db'[r], c) = IF c \in Writable(Rows(j)[i])
                                        THEN Cell(base[j][r], c) ELSE Cell(db[r], c)

\* What the preview and the commit, each by its own code, make of one file and
\* one table agrees row by row: a row the preview accepts meets the same verdict
\* in the commit, and one it calls an error is skipped or stops the whole commit.
PreviewTellsCommit ==
    \A j \in Jobs :
        LET f == Rows(j)
            best == [i \in DOMAIN f |-> Matches(f[i], db)]
        IN  \A match \in [DOMAIN f -> UNION Range(best)] :
                (\A i \in DOMAIN f : match[i] \in best[i]) =>
                    LET shown == PreviewVerdicts(f, db, match)
                        plan == Plan(f, db, match)
                    IN  \A i \in DOMAIN f :
                           IF shown[i] # "ERROR" THEN plan[i].verdict = shown[i]
                           ELSE plan[i].verdict = "ERROR" \/ ~f[i].resolves

\* "This import has already been applied"
AppliedOnce == \A j \in Jobs : applied[j] <= 1
=============================================================================
