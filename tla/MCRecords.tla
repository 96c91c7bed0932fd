------------------------------ MODULE MCRecords ------------------------------
(* The books for TLC: imports of an organization's records (ImportJobs), the   *)
(* ledger of its stored objects (StorageTiering), its metered costs            *)
(* (CostMetering), its questions to the assistant (AskAi), its plans of a site *)
(* (SitePlans) and its projects (Projects).  None of them writes a row another *)
(* one reads, so each behavior follows one of them.                            *)
(*                                                                             *)
(* Imports have one record the customer has, and rows that name it or a new    *)
(* store by some of the signals of an identity.                                *)
EXTENDS ImportJobs

CONSTANTS e1, n1, n2, n3, n4,
          Objects, Passes, OldestAge, Never, Schedules, MaxCutOffs, MaxChanges,
          Metrics, Properties, NoProperty, Quantities, UnitCosts, LastDay, MaxUsage, MaxRates,
          Buildings, NoBuilding, AiCalls, MaxIterations, MaxCalls,
          Uploaded, OverlayIds, EmbedIds, Edges, Widest,
          ProjectIds, Dates, Documents, Surveys, MaxManaged

VARIABLES part,
          policy, ledger, store, age, pass, ask, cutOffs, changes, behind,
          today, usage, rates, alive,
          standing, question, calls, turns, told, refs, aside, billed, books, logged, dropped,
          files, minted, overlays, embeds, planning,
          dates, filed, scheduled, managing, handled, mistold, crossed

T == INSTANCE StorageTiering
C == INSTANCE CostMetering
Q == INSTANCE AskAi WITH Calls <- AiCalls
O == INSTANCE SitePlans WITH Planners <- Requests, UploadKeys <- Uploaded
P == INSTANCE Projects WITH Days <- Dates, Managers <- Requests, calls <- handled, MaxCalls <- MaxManaged

tiering == <<policy, ledger, store, age, pass, ask, cutOffs, changes, behind>>
metering == <<today, usage, rates, alive>>
asking == <<standing, question, calls, turns, told, refs, aside, billed, books, logged, dropped>>
plans == <<files, minted, overlays, embeds, planning>>
projects == <<dates, filed, scheduled, managing, handled, mistold, crossed>>

\* The functions a model calls are the assistant's or none it has, no project
\* has the number that stands for no project, edges are numbers, and so are the
\* thresholds of a tier that are set and what is metered.
ASSUME RecordsAssumption ==
    /\ AiCalls \subseteq [tool : Q!Tools, of : Buildings \cup {NoBuilding}]
    /\ MaxIterations \in Nat /\ MaxCalls \in Nat
    /\ P!None \notin ProjectIds /\ P!Unborn \notin ProjectIds
    /\ Edges \subseteq Int /\ Widest \in Int
    /\ OldestAge \in Nat /\ Schedules \subseteq [1 .. 3 -> 0 .. OldestAge \cup {Never}]
    /\ Quantities \subseteq Nat /\ UnitCosts \subseteq Nat /\ LastDay \in Nat /\ MaxUsage \in Nat
    /\ NoProperty \notin Properties

R(cid, ext, addr, name, city, vals) ==
    [cid |-> cid, ext |-> ext, addr |-> addr, name |-> name, city |-> city, vals |-> vals,
     valid |-> TRUE, resolves |-> TRUE]

MCExisting ==
    e1 :> [cid |-> "C1", ext |-> {"X1"}, addr |-> "A1", name |-> "N1", city |-> "T1",
           vals |-> [area |-> "1"]]

ById == R("C1", {}, "A2", "N2", "T2", [area |-> "2"])         \* e1
ByExternal == R(None, {"X1"}, "A3", "N3", "T3", [area |-> Null])    \* e1, too
New == R("C2", {}, "A4", "N4", "T4", [area |-> "2"])         \* a new store
NewAgain == R(None, {"X2"}, "A4", "N5", "T5", <<>>)          \* the same, by its address
Wrong == [NewAgain EXCEPT !.valid = FALSE]
Dangling == [R(None, {}, "A7", "N4", "T4", <<>>) EXCEPT !.resolves = FALSE]  \* the same, by name
Namesake == R(None, {"X3"}, "A5", "N1", "T6", <<>>)          \* a name that e1 has, elsewhere

MCFiles == << <<ById, Dangling>>, <<New, NewAgain, Wrong>>, <<Namesake, ByExternal>> >>

\* Passes are named like requests, and buildings, metrics, uploads and projects
\* like jobs, so that they are permuted with them.
Symmetry == Permutations(Jobs) \cup Permutations(Requests)

\* A function called with a building, and some without one; a question about one
\* building has not heard of a summary.
MCCalls == [tool : {"exposure"}, of : Buildings]
    \cup [tool : {"summary", "property", "list", "asset", "files", "report"}, of : {NoBuilding}]

MCCols == {"area"}
MCNull == "null"
MCEdited == "edited"

\* Warm and cold thresholds in several combinations, one of them refused.
MCSchedules == {<<1, 2, Never>>, <<1, Never, Never>>, <<Never, Never, 1>>, <<2, 1, Never>>}

-----------------------------------------------------------------------------

RecordsInit == /\ part \in {"import", "tiering", "metering", "ask", "plans", "projects"}
               /\ Init /\ T!Init /\ C!Init /\ Q!Init /\ O!PlanInit /\ P!ProjectInit
               /\ part = "import" \/ file = [j \in Jobs |-> 1]

ImportStep == part = "import" /\ Next /\ UNCHANGED <<part, tiering, metering, asking, plans, projects>>
TieringStep == part = "tiering" /\ T!Next /\ UNCHANGED <<part, vars, metering, asking, plans, projects>>
MeteringStep == part = "metering" /\ C!Next /\ UNCHANGED <<part, vars, tiering, asking, plans, projects>>
AskStep == part = "ask" /\ Q!Next /\ UNCHANGED <<part, vars, tiering, metering, plans, projects>>
PlanStep == part = "plans" /\ O!PlanNext /\ UNCHANGED <<part, vars, tiering, metering, asking, projects>>
ProjectStep == part = "projects" /\ P!ProjectNext /\ UNCHANGED <<part, vars, tiering, metering, asking, plans>>

all == <<part, vars, tiering, metering, asking, plans, projects>>

RecordsNext == ImportStep \/ TieringStep \/ MeteringStep \/ AskStep \/ PlanStep \/ ProjectStep

RecordsSpec == RecordsInit /\ [][RecordsNext]_all

\* The books tell the truth.  Imports that do not overlap leave no two records
\* with one identity; what a job created is in its results, to be undone; and
\* what the preview says of a row is what the commit does (ImportJobs.tla).  The
\* groups of a cost report add up to its rows, each at the rate of its own day
\* (CostMetering.tla).
BooksAreTrue ==
    /\ part = "import" => TypeOK /\ NoSecondIdentity /\ CreatedIsListed /\ PreviewTellsCommit
    /\ part = "metering" => C!TypeOK /\ C!ReportAddsUp

\* A row of the tier ledger names the class its object is in and the restore the
\* store is working on (StorageTiering.tla).
LedgerIsTrue == part = "tiering" => T!TypeOK /\ T!LedgerTellsStore /\ T!RestoreOnRecord

\* A question to the assistant about one building is answered from that
\* building, names as sources what the model was given and is metered for all
\* it cost; every function call the model makes gets its answer (AskAi.tla).
AnswersAreAccounted ==
    part = "ask" => /\ Q!TypeOK /\ Q!ScopedStaysThere /\ Q!CallsAreAnswered
                    /\ Q!AnsweredIsMetered /\ Q!SourcesAreNamed

\* The edges of an overlay and the kind and link of an embed agree however
\* calls overlap, and an overlay has its file (SitePlans.tla).  A project does
\* not end before it starts, nothing is filed under one there is not, and a
\* deletion says what it unlinked (Projects.tla).
PlansFit ==
    /\ part = "plans" => O!PlanTypeOK /\ O!EdgesAreUsable /\ O!LinksFit /\ O!OverlaysHaveFilesAlone
    /\ part = "projects" => /\ P!ProjectTypeOK /\ P!DatesInOrderAlone /\ P!UnlinkedIsTold
                            /\ P!FiledUnderProjects

\* What is on the books is not undone by what comes later: a rollback gives
\* records the values of before its commit (ImportJobs.tla), a pass never moves
\* an object to a warmer class (StorageTiering.tla), later rates and deleted
\* properties leave the reports of earlier days alone (CostMetering.tla), and
\* taking a document out of one project does not take it out of the one it was
\* filed under since (Projects.tla).
BooksStep == /\ part = "import" => RollbackRestores
             /\ part = "tiering" => T!MovesColder
             /\ part = "metering" => C!KeepsClosedPeriods
             /\ part = "projects" => P!DetachSpares
BooksKeepThePast == [][BooksStep]_all

\* What a storage sample charges is what is stored (StorageTiering.tla).
SampleIsWhatIsStored == T!SampleIsWhatIsStored
=============================================================================
