----------------------------- MODULE Retention -----------------------------
(***************************************************************************)
(* The deletion of a property: src/lib/retention.ts, with the uploads it   *)
(* must not miss (evidence-service.ts and its like).                       *)
(*                                                                         *)
(* People ask for a deletion, cancel it, place and release legal holds,    *)
(* and upload files, each by a few database calls.  A RUNNER is one call   *)
(* of runDueDeletions (the admin route; nothing keeps two from             *)
(* overlapping).  It reads the due requests once and executes them one by  *)
(* one: check for a hold, collect the storage keys, delete the objects,    *)
(* delete the rows, write the result.                                      *)
(*                                                                         *)
(* There is one property.  Requests for a whole organization are never     *)
(* created by the code.  Backups, the cache and the search index have no   *)
(* state here: their outcomes do not depend on anything.                   *)
(***************************************************************************)
EXTENDS Integers, FiniteSets

CONSTANTS
    Requests,       \* rows of DeletionRequest
    NoRequest,
    Files,
    Derived,        \* files whose rows go with the property (drone imagery)
    Overlays,       \* site maps and plans: their rows go with it, too
    Holds,
    OrgHolds,       \* holds on the whole organization
    Runners, People,
    MaxFaults       \* bound: objects or statements that fail, and runners or
                    \* people's requests that are cut off, taken together

ASSUME RetentionAssumption ==
    /\ NoRequest \notin Requests
    /\ Derived \subseteq Files /\ Overlays \subseteq Files
    /\ OrgHolds \subseteq Holds
    /\ MaxFaults \in Nat

VARIABLES
    property,   \* the Property row: its retentionStatus, or "GONE"
    req,        \* req[d]: the DeletionRequest row
    hold,       \* hold[h]: the LegalHold row
    file,       \* file[f]: its row, and whether its object is in the store
    pc,         \* pc[r]: where runner r is
    batch,      \* batch[r]: requests read as due and not yet reached
    current,    \* current[r]: the request r is executing
    keys,       \* keys[r]: objects r has collected and not yet tried
    failures,   \* failures[r]: has an object failed in this execution?
    doing,      \* doing[u]: the step person u is at, and for which request
    faults, crashes,
    early,      \* early[h]: requests that were not due when h was placed
    spared,     \* requests cancelled before they were due
    late,       \* files registered while a runner already had its keys
    stuck,      \* files whose object could not be deleted
    overlapped  \* have two runners been at work at once?

runner == <<pc, batch, current, keys, failures>>
history == <<faults, crashes, early, spared, late, stuck, overlapped>>
vars == <<property, req, hold, file, pc, batch, current, keys, failures, doing,
          faults, crashes, early, spared, late, stuck, overlapped>>

Request == [status : {"NONE", "PENDING", "CANCELLED", "BLOCKED", "COMPLETED", "FAILED"},
            due : BOOLEAN]

File == [row : {"none", "linked", "unlinked", "gone"}, stored : BOOLEAN]

Idle == [at |-> "idle", req |-> NoRequest]

TypeOK ==
    /\ property \in {"ACTIVE", "SCHEDULED", "GONE"}
    /\ req \in [Requests -> Request]
    /\ hold \in [Holds -> {"none", "placed", "released", "gone"}]
    /\ file \in [Files -> File]
    /\ pc \in [Runners -> {"idle", "loop", "hold", "block", "collect", "objects", "finish"}]
    /\ batch \in [Runners -> SUBSET Requests]
    /\ current \in [Runners -> Requests \cup {NoRequest}]
    /\ keys \in [Runners -> SUBSET Files]
    /\ failures \in [Runners -> BOOLEAN]
    /\ doing \in [People -> [at : {"idle", "pending", "create", "mark", "cancel", "restore"},
                             req : Requests \cup {NoRequest}]]
    /\ faults \in Nat /\ crashes \in Nat
    /\ early \in [Holds -> SUBSET Requests]
    /\ spared \subseteq Requests
    /\ late \subseteq Files /\ stuck \subseteq Files
    /\ overlapped \in BOOLEAN

Init ==
    /\ property = "ACTIVE"
    /\ req = [d \in Requests |-> [status |-> "NONE", due |-> FALSE]]
    /\ hold = [h \in Holds |-> "none"]
    /\ file = [f \in Files |-> [row |-> "none", stored |-> FALSE]]
    /\ pc = [r \in Runners |-> "idle"]
    /\ batch = [r \in Runners |-> {}]
    /\ current = [r \in Runners |-> NoRequest]
    /\ keys = [r \in Runners |-> {}]
    /\ failures = [r \in Runners |-> FALSE]
    /\ doing = [u \in People |-> Idle]
    /\ faults = 0 /\ crashes = 0
    /\ early = [h \in Holds |-> {}]
    /\ spared = {} /\ late = {} /\ stuck = {}
    /\ overlapped = FALSE

Fault == faults + crashes < MaxFaults /\ faults' = faults + 1

CutOff == faults + crashes < MaxFaults /\ crashes' = crashes + 1

-----------------------------------------------------------------------------
(* Legal holds *)

PlaceHold(h) ==
    /\ hold[h] = "none"
    /\ h \notin OrgHolds => property # "GONE"
    /\ hold' = [hold EXCEPT ![h] = "placed"]
    /\ early' = [early EXCEPT ![h] = {d \in Requests : ~req[d].due}]
    /\ UNCHANGED <<property, req, file, runner, doing, faults, crashes, spared, late,
                   stuck, overlapped>>

ReleaseHold(h) ==
    /\ hold[h] = "placed"
    /\ hold' = [hold EXCEPT ![h] = "released"]
    /\ UNCHANGED <<property, req, file, runner, doing, history>>

\* Mutant: the clause for holds on the property itself is missing.
OrgHoldOnly == \E h \in OrgHolds : hold[h] = "placed"

\* activeHoldFor
ActiveHold == \E h \in Holds : hold[h] = "placed"

-----------------------------------------------------------------------------
(* Files *)

\* registerEvidence and its like: the bytes are in the store by then (an upload
\* never registered has no row to find it by, and no part here); refused once
\* the property is gone.
RegisterFile(f) ==
    /\ file[f].row = "none"
    /\ property # "GONE"
    /\ file' = [file EXCEPT ![f] = [row |-> "linked", stored |-> TRUE]]
    /\ late' = IF \E r \in Runners : pc[r] = "objects" THEN late \cup {f} ELSE late
    /\ UNCHANGED <<property, req, hold, runner, doing, faults, crashes, early, spared,
                   stuck, overlapped>>

-----------------------------------------------------------------------------
(* requestPropertyDeletion and cancelDeletionRequest *)

Step(u, to, d) == doing' = [doing EXCEPT ![u] = [at |-> to, req |-> d]]

Rest(u) == doing' = [doing EXCEPT ![u] = Idle]

\* First read: the property exists and no hold stands.
Ask(u) ==
    /\ doing[u] = Idle
    /\ property # "GONE"
    /\ ~ActiveHold
    /\ Step(u, "pending", NoRequest)
    /\ UNCHANGED <<property, req, hold, file, runner, history>>

\* Second read: none is PENDING, or the call is refused.
CheckPending(u) ==
    /\ doing[u].at = "pending"
    /\ IF \E d \in Requests : req[d].status = "PENDING"
       THEN Rest(u) ELSE Step(u, "create", NoRequest)
    /\ UNCHANGED <<property, req, hold, file, runner, history>>

CreateRequest(u, d) ==
    /\ doing[u].at = "create"
    /\ req[d].status = "NONE"
    /\ req' = [req EXCEPT ![d].status = "PENDING"]
    /\ Step(u, "mark", d)
    /\ UNCHANGED <<property, hold, file, runner, history>>

\* "marked, not hidden"; the update throws if the property has gone.
MarkProperty(u) ==
    /\ doing[u].at = "mark"
    /\ property' = IF property = "GONE" THEN property ELSE "SCHEDULED"
    /\ Rest(u)
    /\ UNCHANGED <<req, hold, file, runner, history>>

CheckCancel(u, d) ==
    /\ doing[u] = Idle
    /\ req[d].status = "PENDING"
    /\ Step(u, "cancel", d)
    /\ UNCHANGED <<property, req, hold, file, runner, history>>

\* By id alone: whatever has become of the request since.
WriteCancelled(u) ==
    LET d == doing[u].req
    IN /\ doing[u].at = "cancel"
       /\ req' = [req EXCEPT ![d].status = "CANCELLED"]
       /\ spared' = IF req[d].due THEN spared ELSE spared \cup {d}
       /\ Step(u, "restore", d)
       /\ UNCHANGED <<property, hold, file, runner, faults, crashes, early, late, stuck,
                      overlapped>>

RestoreProperty(u) ==
    /\ doing[u].at = "restore"
    /\ property' = IF property = "GONE" THEN property ELSE "ACTIVE"
    /\ Rest(u)
    /\ UNCHANGED <<req, hold, file, runner, history>>

RequestCutOff(u) ==
    /\ doing[u] # Idle
    /\ CutOff
    /\ Rest(u)
    /\ UNCHANGED <<property, req, hold, file, runner, faults, early, spared, late, stuck,
                   overlapped>>

\* The grace window ends.
ComeDue(d) ==
    /\ req[d].status # "NONE"
    /\ ~req[d].due
    /\ req' = [req EXCEPT ![d].due = TRUE]
    /\ UNCHANGED <<property, hold, file, runner, doing, history>>

-----------------------------------------------------------------------------
(* runDueDeletions and executeDeletionRequest *)

Goto(r, next) == pc' = [pc EXCEPT ![r] = next]

\* The call is over, normally or by an exception.
Forget(r) ==
    /\ Goto(r, "idle")
    /\ batch' = [batch EXCEPT ![r] = {}]
    /\ current' = [current EXCEPT ![r] = NoRequest]
    /\ keys' = [keys EXCEPT ![r] = {}]
    /\ failures' = [failures EXCEPT ![r] = FALSE]

\* This request is done with, the next one follows.
NextRequest(r) ==
    /\ Goto(r, "loop")
    /\ current' = [current EXCEPT ![r] = NoRequest]
    /\ failures' = [failures EXCEPT ![r] = FALSE]
    /\ UNCHANGED <<batch, keys>>

Due == {d \in Requests : req[d].status = "PENDING" /\ req[d].due}

ReadDue(r) ==
    /\ pc[r] = "idle"
    /\ Goto(r, "loop")
    /\ batch' = [batch EXCEPT ![r] = Due]
    /\ overlapped' = (overlapped \/ \E q \in Runners : pc[q] # "idle")
    /\ UNCHANGED <<property, req, hold, file, current, keys, failures, doing, faults, crashes,
                   early, spared, late, stuck>>

\* A request that is not PENDING any more throws, and the batch is over.
Load(r, d) ==
    /\ pc[r] = "loop"
    /\ d \in batch[r]
    /\ IF req[d].status = "PENDING"
       THEN /\ Goto(r, "hold")
            /\ batch' = [batch EXCEPT ![r] = @ \ {d}]
            /\ current' = [current EXCEPT ![r] = d]
            /\ UNCHANGED <<keys, failures>>
       ELSE Forget(r)
    /\ UNCHANGED <<property, req, hold, file, doing, history>>

\* "Re-checked at execution, not only at request time."
CheckHold(r) ==
    /\ pc[r] = "hold"
    /\ Goto(r, IF ActiveHold THEN "block" ELSE "collect")
    /\ UNCHANGED <<property, req, hold, file, batch, current, keys, failures, doing, history>>

Block(r) ==
    /\ pc[r] = "block"
    /\ req' = [req EXCEPT ![current[r]].status = "BLOCKED"]
    /\ NextRequest(r)
    /\ UNCHANGED <<property, hold, file, doing, history>>

Linked == {f \in Files : file[f].row = "linked"}

\* Mutant: originals only.
Originals == Linked \ (Derived \cup Overlays)

\* collectStorageKeys: evidence, document versions, drone images and outputs.
Collected == Linked \ Overlays

Collect(r) ==
    /\ pc[r] = "collect"
    /\ keys' = [keys EXCEPT ![r] = Collected]
    /\ Goto(r, "objects")
    /\ UNCHANGED <<property, req, hold, file, batch, current, failures, doing, history>>

\* "already gone" is success.
DeleteObject(r, f) ==
    /\ pc[r] = "objects"
    /\ f \in keys[r]
    /\ file' = [file EXCEPT ![f].stored = FALSE]
    /\ keys' = [keys EXCEPT ![r] = @ \ {f}]
    /\ UNCHANGED <<property, req, hold, pc, batch, current, failures, doing, history>>

\* Caught, counted, and the next object is tried.
DeleteObjectFails(r, f) ==
    /\ pc[r] = "objects"
    /\ f \in keys[r]
    /\ Fault
    /\ stuck' = stuck \cup {f}
    /\ keys' = [keys EXCEPT ![r] = @ \ {f}]
    /\ failures' = [failures EXCEPT ![r] = TRUE]
    /\ UNCHANGED <<property, req, hold, file, pc, batch, current, doing, crashes, early,
                   spared, late, overlapped>>

\* onDelete: imagery and plans go with the property, evidence and documents
\* stay without one, holds on it go.
CascadeRow(f) == IF f \in Derived \cup Overlays THEN "gone" ELSE "unlinked"

\* deleteFromDatabase, however many objects have failed.
DeleteRows(r) ==
    /\ pc[r] = "objects"
    /\ keys[r] = {}
    /\ property' = "GONE"
    /\ file' = [f \in Files |->
                  IF f \in Linked THEN [file[f] EXCEPT !.row = CascadeRow(f)] ELSE file[f]]
    /\ hold' = [h \in Holds |->
                  IF h \notin OrgHolds /\ hold[h] # "none" THEN "gone" ELSE hold[h]]
    /\ Goto(r, "finish")
    /\ UNCHANGED <<req, batch, current, keys, failures, doing, history>>

Result(failed) == IF failed THEN "FAILED" ELSE "COMPLETED"

\* By id alone.
WriteResult(r) ==
    /\ pc[r] = "finish"
    /\ req' = [req EXCEPT ![current[r]].status = Result(failures[r])]
    /\ NextRequest(r)
    /\ UNCHANGED <<property, hold, file, doing, history>>

\* A statement of the try block throws: FAILED, and the rest of the batch is
\* left for another run.
ExecutionFails(r) ==
    /\ pc[r] \in {"collect", "objects", "finish"}
    /\ pc[r] = "objects" => keys[r] = {}
    /\ Fault
    /\ req' = [req EXCEPT ![current[r]].status = "FAILED"]
    /\ Forget(r)
    /\ UNCHANGED <<property, hold, file, doing, crashes, early, spared, late, stuck, overlapped>>

EndRun(r) ==
    /\ pc[r] = "loop"
    /\ batch[r] = {}
    /\ Forget(r)
    /\ UNCHANGED <<property, req, hold, file, doing, history>>

Crash(r) ==
    /\ pc[r] # "idle"
    /\ CutOff
    /\ Forget(r)
    /\ UNCHANGED <<property, req, hold, file, doing, faults, early, spared, late, stuck, overlapped>>

-----------------------------------------------------------------------------
RunnerStep(r) ==
    \/ ReadDue(r) \/ EndRun(r)
    \/ \E d \in Requests : Load(r, d)
    \/ CheckHold(r) \/ Block(r) \/ Collect(r)
    \/ \E f \in Files : DeleteObject(r, f) \/ DeleteObjectFails(r, f)
    \/ DeleteRows(r) \/ WriteResult(r) \/ ExecutionFails(r) \/ Crash(r)

PersonStep(u) ==
    \/ Ask(u) \/ CheckPending(u) \/ MarkProperty(u)
    \/ \E d \in Requests : CreateRequest(u, d) \/ CheckCancel(u, d)
    \/ WriteCancelled(u) \/ RestoreProperty(u) \/ RequestCutOff(u)

Next ==
    \/ \E r \in Runners : RunnerStep(r)
    \/ \E u \in People : PersonStep(u)
    \/ \E h \in Holds : PlaceHold(h) \/ ReleaseHold(h)
    \/ \E f \in Files : RegisterFile(f)
    \/ \E d \in Requests : ComeDue(d)

Spec == Init /\ [][Next]_vars

-----------------------------------------------------------------------------
(* Properties *)

Destroying(r) == pc[r] \in {"collect", "objects", "finish"}

\* "a hold placed during the grace window must still stop the deletion": as
\* long as such a hold stands, no runner gets past its check for that request,
\* however runners, holds and other requests overlap.
GraceHoldStops ==
    \A r \in Runners, h \in Holds :
        Destroying(r) /\ current[r] \in early[h] => hold[h] # "placed"

\* A deletion cancelled within its grace window is never executed, not even in
\* part.
CancelledInGraceIsSpared == \A r \in Runners : current[r] \notin spared

\* "a storage key you can no longer look up is an orphaned object that lives
\* forever": when the rows are gone, so are the objects of every kind of file
\* the code collects, but for those the store refused to delete and those
\* registered after the keys were read.
ObjectsGoFirst ==
    \A f \in Files \ (Overlays \cup late \cup stuck) :
        file[f].row \in {"unlinked", "gone"} => ~file[f].stored

\* "was this really deleted?": an object the purge left behind is not passed
\* over.  As long as runs do not overlap and none is cut off, some request says
\* FAILED, or was cancelled while it was executed, or is still being executed.
LeftoverIsReported ==
    \A f \in stuck \ late :
        /\ file[f].stored /\ file[f].row \in {"unlinked", "gone"}
        /\ ~overlapped /\ crashes = 0
        => \/ \E d \in Requests : req[d].status \in {"FAILED", "CANCELLED"} /\ req[d].due
           \/ \E r \in Runners : pc[r] # "idle"

\* "Every object-storage key reachable from these properties": ObjectsGoFirst
\* for every kind of file a property has.
NothingIsMissed ==
    \A f \in Files \ (late \cup stuck) :
        file[f].row \in {"unlinked", "gone"} => ~file[f].stored
=============================================================================
