------------------------- MODULE DroneDeployImport -------------------------
(***************************************************************************)
(* The DroneDeploy auto-import: src/lib/dronedeploy-import-service.ts.     *)
(*                                                                         *)
(* Maps meet only in the copy budget of a pass, so there is one map, with  *)
(* its DroneDeployImport row, one DroneDeployExportImport row per layer,   *)
(* the DroneCapture it was filed as and that capture's DroneOutputs.       *)
(* PASSES (cron, admin route, "Check now") may overlap; PEOPLE file,       *)
(* ignore and retry maps meanwhile.  DroneDeploy answers as it likes.      *)
(***************************************************************************)
EXTENDS Integers, FiniteSets

CONSTANTS
    Layers,             \* configuredLayers()
    NoLayer,
    Passes,             \* passes that may overlap
    Members,
    MaxExportAttempts,  \* MAX_EXPORT_ATTEMPTS
    MaxCopies,          \* MAX_COPIES_PER_RUN
    MaxCuts,            \* bound: outputs whose row was never written
    MaxRetries,         \* bound: times a failed import is retried
    MaxIgnores          \* bound: times a map is ignored

ASSUME DroneDeployAssumption ==
    /\ NoLayer \notin Layers
    /\ MaxExportAttempts \in Nat \ {0} /\ MaxCopies \in Nat \ {0}
    /\ MaxCuts \in Nat /\ MaxRetries \in Nat /\ MaxIgnores \in Nat

VARIABLES
    imp,        \* the DroneDeployImport row
    exp,        \* exp[l]: the DroneDeployExportImport row of layer l
    captures,   \* DroneCaptures that exist for this map
    outputs,    \* outputs[l]: DroneOutputs of layer l in the capture
    at,         \* at[p]: where pass p is
    snap,       \* snap[p]: the export rows as p read them
    left,       \* left[p]: layers p has not reached yet
    layer,      \* layer[p]: the layer p is copying
    copies,     \* copies[p]: budget.copies
    orphaned,   \* passes whose capture was deleted after they read it
    deciding,   \* deciding[u]: what person u has been allowed to do
    cutOff, retries, ignores,
    crossed,    \* an ignore was written over a map that had been filed meanwhile
    trouble     \* what keeps passes from their work at the moment

rows == <<imp, exp, captures, outputs>>
pass == <<at, snap, left, layer, copies, orphaned>>
bounds == <<cutOff, retries, ignores, crossed, trouble>>
importVars == <<imp, exp, captures, outputs, at, snap, left, layer, copies,
                orphaned, deciding, cutOff, retries, ignores, crossed, trouble>>

\* disconnected: the connection's row is deleted.  disabled: the organization
\* does not have the feature.  rejected: DroneDeploy refuses the key.  cut:
\* passes reach their time limit, or the instance dies.  One at a time is
\* enough: any may take over from another between two steps.
Troubles == {"none", "disconnected", "disabled", "rejected", "cut"}

Import == [status : {"NONE", "UNMATCHED", "IMPORTING", "IMPORTED", "FAILED", "IGNORED"},
           capture : {"none", "present", "gone"}]

\* asked: externalExportId is set
Export == [status : {"NONE", "REQUESTED", "IMPORTED", "FAILED"}, asked : BOOLEAN,
           attempts : Nat]

NoExport == [status |-> "NONE", asked |-> FALSE, attempts |-> 0]

NewExport == [status |-> "REQUESTED", asked |-> FALSE, attempts |-> 0]

ImportTypeOK ==
    /\ imp \in Import
    /\ exp \in [Layers -> Export]
    /\ captures \in Nat
    /\ outputs \in [Layers -> Nat]
    /\ at \in [Passes -> {"idle", "list", "file", "read", "lost", "export", "copying",
                          "copied", "settle", "finish", "giveup"}]
    /\ snap \in [Passes -> [Layers -> Export]]
    /\ left \in [Passes -> SUBSET Layers]
    /\ layer \in [Passes -> Layers \cup {NoLayer}]
    /\ copies \in [Passes -> 0..MaxCopies]
    /\ deciding \in [Members -> {"nothing", "ignore", "retry"}]
    /\ orphaned \in SUBSET Passes
    /\ cutOff \in Nat /\ retries \in Nat /\ ignores \in Nat
    /\ crossed \in BOOLEAN
    /\ trouble \in Troubles

ImportInit ==
    /\ imp = [status |-> "NONE", capture |-> "none"]
    /\ exp = [l \in Layers |-> NoExport]
    /\ captures = 0
    /\ outputs = [l \in Layers |-> 0]
    /\ at = [p \in Passes |-> "idle"]
    /\ snap = [p \in Passes |-> [l \in Layers |-> NoExport]]
    /\ left = [p \in Passes |-> {}]
    /\ layer = [p \in Passes |-> NoLayer]
    /\ copies = [p \in Passes |-> 0]
    /\ deciding = [u \in Members |-> "nothing"]
    /\ orphaned = {}
    /\ cutOff = 0 /\ retries = 0 /\ ignores = 0
    /\ crossed = FALSE
    /\ trouble = "none"

GoOn(p, to) == at' = [at EXCEPT ![p] = to]

\* The pass is over, or cut off: its memory is gone.
End(p) ==
    /\ GoOn(p, "idle")
    /\ snap' = [snap EXCEPT ![p] = [l \in Layers |-> NoExport]]
    /\ left' = [left EXCEPT ![p] = {}]
    /\ layer' = [layer EXCEPT ![p] = NoLayer]
    /\ copies' = [copies EXCEPT ![p] = 0]
    /\ orphaned' = orphaned \ {p}

Cut == cutOff < MaxCuts /\ cutOff' = cutOff + 1

-----------------------------------------------------------------------------
(* fileImport, by a pass or by a person *)

\* Mutants: the claim looks at the status alone; takes a failed import too.
StatusOnly == imp.status \in {"UNMATCHED", "IGNORED"}

FailedToo == imp.capture # "present" /\ imp.status \in {"UNMATCHED", "IGNORED", "FAILED"}

\* captureId: null, status: UNMATCHED or IGNORED
Claimable == imp.capture # "present" /\ imp.status \in {"UNMATCHED", "IGNORED"}

\* One transaction: the claim, a capture with its dataset, a row per layer.
FileIt ==
    /\ imp' = [status |-> "IMPORTING", capture |-> "present"]
    /\ captures' = captures + 1
    /\ exp' = [l \in Layers |-> IF exp[l].status = "NONE" THEN NewExport ELSE exp[l]]

-----------------------------------------------------------------------------
(* runDroneDeployImportForOrganization: discovery *)

\* Nothing is done for an organization that is not connected, or not entitled.
\* The key is read here: a pass that has begun goes on with it.
StartPass(p) ==
    /\ at[p] = "idle"
    /\ trouble \notin {"disconnected", "disabled"}
    /\ GoOn(p, "list")
    /\ copies' = [copies EXCEPT ![p] = MaxCopies]
    /\ UNCHANGED <<rows, snap, left, layer, orphaned, deciding, bounds>>

\* discoverPlan: the unique key makes one pass create the row, and that pass
\* alone files it, if one property lies within the radius.
Discover(p) ==
    /\ at[p] = "list"
    /\ imp.status = "NONE"
    /\ imp' = [imp EXCEPT !.status = "UNMATCHED"]
    /\ \E next \in {"file", "read"} : GoOn(p, next)
    /\ UNCHANGED <<exp, captures, outputs, snap, left, layer, copies, orphaned, deciding, bounds>>

KnownAlready(p) ==
    /\ at[p] = "list"
    /\ imp.status # "NONE"
    /\ GoOn(p, "read")
    /\ UNCHANGED <<rows, snap, left, layer, copies, orphaned, deciding, bounds>>

\* The listing, or filing a map, fails: the maps in flight are advanced.
ListingFails(p) ==
    /\ at[p] \in {"list", "file"}
    /\ GoOn(p, "read")
    /\ UNCHANGED <<rows, snap, left, layer, copies, orphaned, deciding, bounds>>

\* "A dead key fails every call; stop here": in every pass, as long as it lasts.
KeyRejected(p) ==
    /\ at[p] = "list"
    /\ trouble = "rejected"
    /\ End(p)
    /\ UNCHANGED <<rows, deciding, bounds>>

\* The claim is taken by somebody else: nothing to do.
FileMatched(p) ==
    /\ at[p] = "file"
    /\ IF Claimable THEN FileIt ELSE UNCHANGED <<imp, captures, exp>>
    /\ GoOn(p, "read")
    /\ UNCHANGED <<outputs, snap, left, layer, copies, orphaned, deciding, bounds>>

-----------------------------------------------------------------------------
(* advanceImport *)

\* The maps in flight are read once, with their exports.
ReadInFlight(p) ==
    /\ at[p] = "read"
    /\ IF imp.status # "IMPORTING"
       THEN End(p)
       ELSE /\ GoOn(p, IF imp.capture = "present" THEN "export" ELSE "lost")
            /\ snap' = [snap EXCEPT ![p] = exp]
            /\ left' = [left EXCEPT ![p] = {l \in Layers : exp[l].status = "REQUESTED"}]
            /\ orphaned' = orphaned \ {p}
            /\ UNCHANGED <<layer, copies>>
    /\ UNCHANGED <<rows, deciding, bounds>>

\* The capture was deleted out from under the import.
MarkLost(p) ==
    /\ at[p] = "lost"
    /\ imp' = [imp EXCEPT !.status = "FAILED"]
    /\ End(p)
    /\ UNCHANGED <<exp, captures, outputs, deciding, bounds>>

Reach(p, l) == at[p] = "export" /\ l \in left[p] /\ left' = [left EXCEPT ![p] = @ \ {l}]

\* createExport, and its id written to the row.
RequestExport(p, l) ==
    /\ Reach(p, l)
    /\ ~snap[p][l].asked
    /\ exp' = [exp EXCEPT ![l].asked = TRUE]
    /\ UNCHANGED <<imp, captures, outputs, at, snap, layer, copies, orphaned, deciding, bounds>>

\* getExport: not ready, or ready and no copies left in this pass.
CheckLater(p, l) ==
    /\ Reach(p, l)
    /\ snap[p][l].asked
    /\ UNCHANGED <<rows, at, snap, layer, copies, orphaned, deciding, bounds>>

\* getExport: DroneDeploy could not build it.
ExportFailed(p, l) ==
    /\ Reach(p, l)
    /\ snap[p][l].asked
    /\ exp' = [exp EXCEPT ![l].status = "FAILED"]
    /\ UNCHANGED <<imp, captures, outputs, at, snap, layer, copies, orphaned, deciding, bounds>>

\* getExport: ready; the download begins.
BeginCopy(p, l) ==
    /\ Reach(p, l)
    /\ snap[p][l].asked
    /\ copies[p] > 0
    /\ copies' = [copies EXCEPT ![p] = @ - 1]
    /\ layer' = [layer EXCEPT ![p] = l]
    /\ GoOn(p, "copying")
    /\ UNCHANGED <<rows, snap, orphaned, deciding, bounds>>

\* The catch block: attempts counted from what this pass read.
FailedOnce(row, attempts) ==
    [row EXCEPT !.attempts = attempts,
                !.status = IF attempts >= MaxExportAttempts THEN "FAILED" ELSE @]

CountError(p, l) == exp' = [exp EXCEPT ![l] = FailedOnce(@, snap[p][l].attempts + 1)]

\* createExport or getExport throws.  A rejected key skips the other layers.
CallFails(p, l) ==
    /\ at[p] = "export"
    /\ l \in left[p]
    /\ CountError(p, l)
    /\ \E rest \in {left[p] \ {l}, {}} : left' = [left EXCEPT ![p] = rest]
    /\ UNCHANGED <<imp, captures, outputs, at, snap, layer, copies, orphaned, deciding, bounds>>

\* copyExportToStorage: the file is in the store and a DroneOutput created.
CreateOutput(p) ==
    /\ at[p] = "copying"
    /\ p \notin orphaned
    /\ outputs' = [outputs EXCEPT ![layer[p]] = @ + 1]
    /\ GoOn(p, "copied")
    /\ UNCHANGED <<imp, exp, captures, snap, left, layer, copies, orphaned, deciding, bounds>>

Continue(p) == GoOn(p, "export") /\ layer' = [layer EXCEPT ![p] = NoLayer]

\* The download fails, or the dataset is gone.
CopyFails(p) ==
    /\ at[p] = "copying"
    /\ CountError(p, layer[p])
    /\ Continue(p)
    /\ UNCHANGED <<imp, captures, outputs, snap, left, copies, orphaned, deciding, bounds>>

Landed(row) == [row EXCEPT !.status = "IMPORTED"]

RecordImported(p) ==
    /\ at[p] = "copied"
    /\ exp' = [exp EXCEPT ![layer[p]] = Landed(@)]
    /\ Continue(p)
    /\ UNCHANGED <<imp, captures, outputs, snap, left, copies, orphaned, deciding, bounds>>

\* The output exists, but the row could not be written: it counts as an error.
ImportNotRecorded(p) ==
    /\ at[p] = "copied"
    /\ Cut
    /\ CountError(p, layer[p])
    /\ Continue(p)
    /\ UNCHANGED <<imp, captures, outputs, snap, left, copies, orphaned, deciding, retries, ignores, crossed, trouble>>

EndExports(p) ==
    /\ at[p] = "export"
    /\ left[p] = {}
    /\ GoOn(p, "settle")
    /\ UNCHANGED <<rows, snap, left, layer, copies, orphaned, deciding, bounds>>

-----------------------------------------------------------------------------
(* settleImport *)

\* Mutants: one layer that is done closes the import; only a landed one does.
OneDone == \E l \in Layers : exp[l].status # "REQUESTED"

AllLanded == \A l \in Layers : exp[l].status = "IMPORTED"

\* No layer is still REQUESTED.
AllDone == \A l \in Layers : exp[l].status # "REQUESTED"

SomeLanded == \E l \in Layers : exp[l].status = "IMPORTED"

ReadSettled(p) ==
    /\ at[p] = "settle"
    /\ IF imp.status = "IMPORTING" /\ imp.capture = "present" /\ AllDone
       THEN /\ GoOn(p, IF SomeLanded THEN "finish" ELSE "giveup")
            /\ orphaned' = orphaned \ {p}
            /\ UNCHANGED <<snap, left, layer, copies>>
       ELSE End(p)
    /\ UNCHANGED <<rows, deciding, bounds>>

\* Capture and import in one transaction; it throws if the capture is gone.
Settle(p) ==
    /\ at[p] \in {"finish", "giveup"}
    /\ imp' = IF p \notin orphaned
              THEN [imp EXCEPT !.status = IF at[p] = "finish" THEN "IMPORTED" ELSE "FAILED"]
              ELSE imp
    /\ End(p)
    /\ UNCHANGED <<exp, captures, outputs, deciding, bounds>>

\* The function reaches its time limit or the instance dies, in any pass and
\* as often as it likes; what an output costs whose row is not written by then
\* is counted.
CutPass(p) ==
    /\ at[p] # "idle"
    /\ trouble = "cut"
    /\ IF at[p] = "copied" THEN Cut ELSE UNCHANGED cutOff
    /\ End(p)
    /\ UNCHANGED <<rows, deciding, retries, ignores, crossed, trouble>>

\* Members connect and disconnect, plans change, keys expire and are replaced,
\* DroneDeploy and the platform have their bad days.
Turn ==
    /\ \E t \in Troubles \ {trouble} : trouble' = t
    /\ UNCHANGED <<rows, pass, deciding, cutOff, retries, ignores, crossed>>

-----------------------------------------------------------------------------
(* Members *)

\* assignDroneDeployImport: its own check is implied by the claim.
Assign(u) ==
    /\ trouble # "disabled"
    /\ deciding[u] = "nothing"
    /\ Claimable
    /\ FileIt
    /\ UNCHANGED <<outputs, pass, deciding, bounds>>

\* ignoreDroneDeployImport: a check, an audit entry, then an update by id.
CheckIgnore(u) ==
    /\ deciding[u] = "nothing"
    /\ imp.status = "UNMATCHED"
    /\ ignores < MaxIgnores
    /\ ignores' = ignores + 1
    /\ deciding' = [deciding EXCEPT ![u] = "ignore"]
    /\ UNCHANGED <<rows, pass, cutOff, retries, crossed, trouble>>

Ignore(u) ==
    /\ deciding[u] = "ignore"
    /\ imp' = [imp EXCEPT !.status = "IGNORED"]
    /\ crossed' = (crossed \/ imp.status # "UNMATCHED")
    /\ deciding' = [deciding EXCEPT ![u] = "nothing"]
    /\ UNCHANGED <<exp, captures, outputs, pass, cutOff, retries, ignores, trouble>>

\* retryDroneDeployImport: a check, then one transaction.
CheckRetry(u) ==
    /\ trouble # "disabled"
    /\ deciding[u] = "nothing"
    /\ imp.status = "FAILED" /\ imp.capture = "present"
    /\ retries < MaxRetries
    /\ retries' = retries + 1
    /\ deciding' = [deciding EXCEPT ![u] = "retry"]
    /\ UNCHANGED <<rows, pass, cutOff, ignores, crossed, trouble>>

\* Failed layers start from the beginning.
QueuedAgain == [l \in Layers |-> IF exp[l].status = "FAILED" THEN NewExport ELSE exp[l]]

Retry(u) ==
    /\ deciding[u] = "retry"
    /\ exp' = QueuedAgain
    /\ imp' = [imp EXCEPT !.status = "IMPORTING"]
    /\ deciding' = [deciding EXCEPT ![u] = "nothing"]
    /\ UNCHANGED <<captures, outputs, pass, bounds>>

\* The property is purged: capture and outputs go, the import's references
\* become null.  The transaction of a retry under way will throw.
DeleteProperty ==
    /\ imp.capture = "present"
    /\ imp' = [imp EXCEPT !.capture = "gone"]
    /\ captures' = captures - 1
    /\ outputs' = [l \in Layers |-> 0]
    /\ orphaned' = {p \in Passes : at[p] # "idle"}
    /\ deciding' = [u \in Members |-> IF deciding[u] = "retry" THEN "nothing" ELSE deciding[u]]
    /\ UNCHANGED <<exp, at, snap, left, layer, copies, bounds>>

-----------------------------------------------------------------------------
PassStep(p) ==
    \/ StartPass(p)
    \/ Discover(p) \/ KnownAlready(p) \/ FileMatched(p)
    \/ ReadInFlight(p) \/ MarkLost(p)
    \/ \E l \in Layers :
          \/ RequestExport(p, l) \/ CheckLater(p, l) \/ ExportFailed(p, l)
          \/ BeginCopy(p, l) \/ CallFails(p, l)
    \/ CreateOutput(p) \/ CopyFails(p) \/ RecordImported(p)
    \/ EndExports(p) \/ ReadSettled(p) \/ Settle(p)

ImportNext ==
    \/ \E p \in Passes :
          PassStep(p) \/ ListingFails(p) \/ KeyRejected(p) \/ ImportNotRecorded(p) \/ CutPass(p)
    \/ \E u \in Members :
          Assign(u) \/ CheckIgnore(u) \/ Ignore(u) \/ CheckRetry(u) \/ Retry(u)
    \/ DeleteProperty
    \/ Turn

ImportSpec == ImportInit /\ [][ImportNext]_importVars

\* getExport answers COMPLETE or FAILED in the end, or throws.
Answer(p, l) == ExportFailed(p, l) \/ BeginCopy(p, l) \/ (snap[p][l].asked /\ CallFails(p, l))

\* A pass is started again and again (the cron the README sets up) and goes on
\* while nothing keeps it from its work; DroneDeploy does not build an export
\* forever.  Nobody has to press a button, and no trouble has to end.
Fairness ==
    /\ \A p \in Passes : WF_importVars(PassStep(p))
    /\ \A p \in Passes, l \in Layers : SF_importVars(Answer(p, l))

FairSpec == ImportSpec /\ Fairness

-----------------------------------------------------------------------------
(* Properties *)

\* "two passes (or a pass and a person) racing on the same map file it once":
\* there is never more than one capture of a map.
OneCapture == captures <= 1

\* "every step is guarded by the state in the rows": a layer is copied once,
\* however often passes run.
OneOutputPerLayer == \A l \in Layers : outputs[l] <= 1

\* Without overlapping passes a second copy of a layer needs a pass that was
\* cut off, or could not write, just between the output and its row: being cut
\* off anywhere else costs none.
OutputsAccountedFor == \A l \in Layers : outputs[l] <= 1 + cutOff

\* A layer is marked as landed only with its output in the capture.
LandedHasOutput ==
    \A l \in Layers :
        imp.capture = "present" /\ exp[l].status = "IMPORTED" /\ ~crossed => outputs[l] > 0

\* A layer that waits has attempts left: nothing is retried beyond the limit,
\* and a retry by a person really starts over.
WaitingHasAttempts ==
    \A l \in Layers : exp[l].status = "REQUESTED" => exp[l].attempts < MaxExportAttempts

\* "Once no layer is still REQUESTED, the capture is finished one way or the
\* other": a finished import has no layer nobody will collect, a failed one
\* none that landed - unless the map was ignored while it was being filed, or
\* two people retry it at once: the later retry asks again for layers after the
\* import was settled (retryDroneDeployImport checks, then updates by id).
SettledIsComplete ==
    \A l \in Layers :
        /\ imp.status = "IMPORTED" => exp[l].status \in {"IMPORTED", "FAILED"}
        /\ imp.status = "FAILED" /\ imp.capture = "present" /\ ~crossed =>
              exp[l].status = "FAILED"

\* A map that is being imported is finished, or failed, in the end, once the
\* organization stays connected and entitled, its key is accepted and passes
\* have the time they need: nothing that happened before, and no step a person
\* leaves undone, keeps it open.
ImportSettles ==
    <>[](trouble = "none") => (imp.status = "IMPORTING" ~> imp.status # "IMPORTING")
=============================================================================
