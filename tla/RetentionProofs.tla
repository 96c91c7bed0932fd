-------------------------- MODULE RetentionProofs --------------------------
(* Proofs about Retention, for any number of requests, files, holds, people *)
(* and overlapping runners, and any number of faults and crashes; and about *)
(* DroneDeployImport, whose property it may purge, for any number of layers, *)
(* passes and people, faults, retries and purges.                            *)
EXTENDS MCRetention, MCDroneDeployImport, TLAPS

HIDE DroneDeployAssumption

Working == {"hold", "block", "collect", "objects", "finish"}

\* A runner works on a request whose grace window has ended, and has read no
\* other ones into its batch.
WorksOnDue ==
    \A r \in Runners :
        /\ \A d \in batch[r] : req[d].due
        /\ pc[r] \in Working => current[r] \in Requests /\ req[current[r]].due
        /\ pc[r] \notin Working => current[r] = NoRequest

\* A person who cancels has found a request; one cancelled in its grace window
\* is never pending again.
CancelsARequest ==
    /\ \A u \in People : doing[u].at = "cancel" =>
          doing[u].req \in Requests /\ req[doing[u].req].status # "NONE"
    /\ \A d \in spared : req[d].status \notin {"NONE", "PENDING"}

\* Between its collection and its last object, a runner still has every object
\* to delete that was not deleted, refused or registered since.
CollectedAll ==
    \A r \in Runners, f \in Files \ (Overlays \cup late \cup stuck) :
        pc[r] = "objects" /\ file[f].row = "linked" /\ file[f].stored => f \in keys[r]

\* Runs that have not overlapped follow each other.
OneAtATime ==
    ~overlapped => \A r, q \in Runners : pc[r] # "idle" /\ pc[q] # "idle" => r = q

\* A request that says that something is left and that no runner writes any
\* more.
Says(d) == req[d].status \in {"FAILED", "CANCELLED"} /\ req[d].due /\ \A r \in Runners : current[r] # d

\* The runner that met the failure still knows of it.
Knows(r) == pc[r] \in {"objects", "finish"} /\ failures[r]

FailureIsKnown ==
    stuck # {} /\ ~overlapped /\ crashes = 0 =>
        (\E d \in Requests : Says(d)) \/ (\E r \in Runners : Knows(r))

RInv == /\ TypeOK /\ WorksOnDue /\ CancelsARequest /\ CollectedAll /\ OneAtATime
        /\ FailureIsKnown /\ GraceHoldStops /\ CancelledInGraceIsSpared /\ ObjectsGoFirst

USE RetentionAssumption

-----------------------------------------------------------------------------
(* Types.                                                                   *)

Status == {"NONE", "PENDING", "CANCELLED", "BLOCKED", "COMPLETED", "FAILED"}

\* A column of one row is overwritten; the rest of the table stays.
LEMMA RequestUpdates ==
    ASSUME NEW q \in Request, NEW st \in Status
    PROVE  /\ [q EXCEPT !.status = st] \in Request
           /\ [q EXCEPT !.status = st].status = st
           /\ [q EXCEPT !.status = st].due = q.due
           /\ [q EXCEPT !.due = TRUE] \in Request
           /\ [q EXCEPT !.due = TRUE].status = q.status
           /\ [q EXCEPT !.due = TRUE].due = TRUE
  BY DEF Request, Status

LEMMA FileUpdates ==
    ASSUME NEW x \in File
    PROVE  /\ [x EXCEPT !.stored = FALSE] \in File
           /\ [x EXCEPT !.stored = FALSE].row = x.row
           /\ [x EXCEPT !.stored = FALSE].stored = FALSE
  BY DEF File

\* A statement that sets the status of one request.
SetsStatus(d, st) == req' = [req EXCEPT ![d].status = st]

LEMMA StatusIsSet ==
    ASSUME req \in [Requests -> Request], NEW d, NEW st \in Status, SetsStatus(d, st)
    PROVE  /\ req' \in [Requests -> Request]
           /\ \A e \in Requests : /\ req'[e].due = req[e].due
                                 /\ req'[e].status = IF e = d THEN st ELSE req[e].status
  <1>1. \A e \in Requests : req'[e] = IF e = d THEN [req[e] EXCEPT !.status = st] ELSE req[e]
    BY DEF SetsStatus
  <1>2. DOMAIN req' = Requests
    BY DEF SetsStatus
  <1>3. \A e \in Requests : /\ req'[e] \in Request
                            /\ req'[e].due = req[e].due
                            /\ req'[e].status = IF e = d THEN st ELSE req[e].status
    <2> SUFFICES ASSUME NEW e \in Requests
                 PROVE  /\ req'[e] \in Request
                        /\ req'[e].due = req[e].due
                        /\ req'[e].status = IF e = d THEN st ELSE req[e].status
      OBVIOUS
    <2>1. CASE e = d
      <3>1. req[e] \in Request
        OBVIOUS
      <3>2. /\ [req[e] EXCEPT !.status = st] \in Request
            /\ [req[e] EXCEPT !.status = st].status = st
            /\ [req[e] EXCEPT !.status = st].due = req[e].due
        BY <3>1, RequestUpdates, Zenon
      <3> QED
        BY <1>1, <2>1, <3>2, Zenon
    <2>2. CASE e # d
      BY <1>1, <2>2
    <2> QED
      BY <2>1, <2>2
  <1>4. req' \in [Requests -> Request]
    BY <1>2, <1>3 DEF SetsStatus
  <1> QED
    BY <1>3, <1>4

LEMMA DueIsSet ==
    ASSUME req \in [Requests -> Request], NEW d \in Requests, req' = [req EXCEPT ![d].due = TRUE]
    PROVE  /\ req' \in [Requests -> Request]
           /\ \A e \in Requests : /\ req'[e].status = req[e].status
                                 /\ req'[e].due = (e = d \/ req[e].due)
  <1>1. "NONE" \in Status
    BY DEF Status
  <1>2. \A e \in Requests : req[e].due \in BOOLEAN
    BY DEF Request
  <1> QED
    BY <1>1, <1>2, RequestUpdates, ZenonT(40)

\* The deletion of the object of one file.
Deletes(f) == file' = [file EXCEPT ![f].stored = FALSE]

IsDeleted(f) ==
    \A g \in Files : /\ file'[g].row = file[g].row
                     /\ g # f => file'[g].stored = file[g].stored
                     /\ g = f => file'[g].stored = FALSE

LEMMA ObjectIsDeleted ==
    ASSUME file \in [Files -> File], NEW f \in Files, Deletes(f)
    PROVE  file' \in [Files -> File] /\ IsDeleted(f)
  BY FileUpdates DEF Deletes, IsDeleted

LEMMA RunnerTypeOK ==
    ASSUME TypeOK, NEW r \in Runners, RunnerStep(r) PROVE TypeOK'
  <1> USE DEF TypeOK, Goto, Forget, NextRequest, history, CutOff, Fault
  <1>1. CASE ReadDue(r)
    BY <1>1 DEF ReadDue, Due
  <1>2. CASE EndRun(r)
    BY <1>2 DEF EndRun
  <1>3. ASSUME NEW d \in Requests, Load(r, d) PROVE TypeOK'
    <2>1. batch[r] \ {d} \in SUBSET Requests
      OBVIOUS
    <2>2. CASE req[d].status = "PENDING"
      BY <1>3, <2>1, <2>2, SMTT(30) DEF Load
    <2>3. CASE req[d].status # "PENDING"
      BY <1>3, <2>3 DEF Load
    <2> QED
      BY <2>2, <2>3
  <1>4. CASE CheckHold(r)
    BY <1>4 DEF CheckHold
  <1>5. CASE Block(r)
    BY <1>5, StatusIsSet DEF Block, SetsStatus, Status
  <1>6. CASE Collect(r)
    BY <1>6 DEF Collect, Collected, Linked
  <1>7. ASSUME NEW f \in Files, DeleteObject(r, f) PROVE TypeOK'
    <2>1. file' \in [Files -> File]
      BY <1>7, ObjectIsDeleted DEF DeleteObject, Deletes
    <2> QED
      BY <1>7, <2>1 DEF DeleteObject
  <1>8. CASE \E f \in Files : DeleteObjectFails(r, f)
    BY <1>8 DEF DeleteObjectFails
  <1>9. CASE DeleteRows(r)
    BY <1>9 DEF DeleteRows, Linked, CascadeRow, File
  <1>10. CASE WriteResult(r)
    BY <1>10, StatusIsSet DEF WriteResult, Result, SetsStatus, Status
  <1>11. CASE ExecutionFails(r)
    <2>1. req' \in [Requests -> Request]
      BY <1>11, StatusIsSet DEF ExecutionFails, SetsStatus, Status
    <2> QED
      BY <1>11, <2>1 DEF ExecutionFails
  <1>12. CASE Crash(r)
    BY <1>12 DEF Crash
  <1> QED
    BY <1>1, <1>2, <1>3, <1>4, <1>5, <1>6, <1>7, <1>8, <1>9, <1>10, <1>11, <1>12 DEF RunnerStep

LEMMA PersonTypeOK ==
    ASSUME TypeOK, CancelsARequest, NEW u \in People, PersonStep(u) PROVE TypeOK'
  <1> USE DEF TypeOK, Step, Rest, Idle, runner, history, CutOff
  <1>1. CASE Ask(u)
    BY <1>1 DEF Ask
  <1>2. CASE CheckPending(u)
    BY <1>2 DEF CheckPending
  <1>3. CASE MarkProperty(u)
    BY <1>3 DEF MarkProperty
  <1>4. ASSUME NEW d \in Requests, CreateRequest(u, d) PROVE TypeOK'
    <2>1. req' \in [Requests -> Request]
      BY <1>4, StatusIsSet DEF CreateRequest, SetsStatus, Status
    <2> QED
      BY <1>4, <2>1 DEF CreateRequest
  <1>5. CASE \E d \in Requests : CheckCancel(u, d)
    BY <1>5 DEF CheckCancel
  <1>6. CASE WriteCancelled(u)
    <2>1. req' \in [Requests -> Request]
      BY <1>6, StatusIsSet DEF WriteCancelled, SetsStatus, Status
    <2>2. doing[u].req \in Requests
      BY <1>6 DEF WriteCancelled, CancelsARequest
    <2> QED
      BY <1>6, <2>1, <2>2 DEF WriteCancelled
  <1>7. CASE RestoreProperty(u)
    BY <1>7 DEF RestoreProperty
  <1>8. CASE RequestCutOff(u)
    BY <1>8 DEF RequestCutOff
  <1> QED
    BY <1>1, <1>2, <1>3, <1>4, <1>5, <1>6, <1>7, <1>8 DEF PersonStep

LEMMA RetentionTypeOK ==
    ASSUME TypeOK, CancelsARequest, [Next]_vars PROVE TypeOK'
  <1> USE DEF TypeOK, runner, history
  <1>1. CASE \E h \in Holds : PlaceHold(h) \/ ReleaseHold(h)
    BY <1>1 DEF PlaceHold, ReleaseHold
  <1>2. CASE \E f \in Files : RegisterFile(f)
    BY <1>2 DEF RegisterFile, File
  <1>3. CASE \E d \in Requests : ComeDue(d)
    BY <1>3, DueIsSet, ZenonT(40) DEF ComeDue
  <1>4. CASE UNCHANGED vars
    BY <1>4 DEF vars
  <1> QED
    BY <1>1, <1>2, <1>3, <1>4, RunnerTypeOK, PersonTypeOK DEF Next
-----------------------------------------------------------------------------
(* What no step undoes.                                                     *)

RequestsMove ==
    \A d \in Requests : /\ req[d].due => req'[d].due
                        /\ req[d].status # "NONE" => req'[d].status # "NONE"
                        /\ req[d].status \notin {"NONE", "PENDING"} =>
                              req'[d].status \notin {"NONE", "PENDING"}

\* A request is due for good, and never becomes PENDING a second time.
LEMMA RequestsOnlyMove ==
    ASSUME TypeOK, [Next]_vars PROVE RequestsMove
  <1> USE DEF TypeOK, RequestsMove
  <1>1. CASE UNCHANGED req
    BY <1>1
  <1>2. ASSUME NEW d, NEW st \in Status \ {"NONE", "PENDING"}, SetsStatus(d, st) PROVE RequestsMove
    BY <1>2, StatusIsSet
  <1>3. ASSUME NEW d \in Requests, req[d].status = "NONE", SetsStatus(d, "PENDING")
        PROVE  RequestsMove
    <2>1. "PENDING" \in Status
      BY DEF Status
    <2> QED
      BY <1>3, <2>1, StatusIsSet
  <1>4. ASSUME NEW d \in Requests, req' = [req EXCEPT ![d].due = TRUE] PROVE RequestsMove
    BY <1>4, DueIsSet
  <1>5. CASE \E r \in Runners : RunnerStep(r)
    <2> PICK r \in Runners : RunnerStep(r)
      BY <1>5
    <2>1. CASE Block(r)
      BY <1>2, <2>1 DEF Block, SetsStatus, Status
    <2>2. CASE WriteResult(r)
      BY <1>2, <2>2 DEF WriteResult, Result, SetsStatus, Status
    <2>3. CASE ExecutionFails(r)
      BY <1>2, <2>3 DEF ExecutionFails, SetsStatus, Status
    <2>4. CASE UNCHANGED req
      BY <1>1, <2>4
    <2> QED
      BY <2>1, <2>2, <2>3, <2>4 DEF RunnerStep, ReadDue, EndRun, Load, CheckHold, Collect,
         DeleteObject, DeleteObjectFails, DeleteRows, Crash
  <1>6. CASE \E u \in People : PersonStep(u)
    <2> PICK u \in People : PersonStep(u)
      BY <1>6
    <2>1. CASE \E d \in Requests : CreateRequest(u, d)
      BY <1>3, <2>1 DEF CreateRequest, SetsStatus
    <2>2. CASE WriteCancelled(u)
      BY <1>2, <2>2 DEF WriteCancelled, SetsStatus, Status
    <2>3. CASE UNCHANGED req
      BY <1>1, <2>3
    <2> QED
      BY <2>1, <2>2, <2>3 DEF PersonStep, Ask, CheckPending, MarkProperty, CheckCancel,
         RestoreProperty, RequestCutOff
  <1>7. CASE \E d \in Requests : ComeDue(d)
    BY <1>4, <1>7 DEF ComeDue
  <1> QED
    BY <1>1, <1>5, <1>6, <1>7 DEF Next, PlaceHold, ReleaseHold, RegisterFile, vars

\* What belongs to the runners is theirs.
LEMMA RunnersAlone ==
    ASSUME [Next]_vars, ~\E r \in Runners : RunnerStep(r)
    PROVE  UNCHANGED <<pc, batch, current, keys, failures, overlapped, stuck>>
  BY DEF Next, PersonStep, Ask, CheckPending, CreateRequest, MarkProperty, CheckCancel,
         WriteCancelled, RestoreProperty, RequestCutOff, PlaceHold, ReleaseHold, RegisterFile,
         ComeDue, vars, runner, history

-----------------------------------------------------------------------------
(* The invariant, part by part.                                             *)

LEMMA WorksOnDueStep ==
    ASSUME TypeOK, WorksOnDue, [Next]_vars PROVE WorksOnDue'
  <1> USE DEF TypeOK, WorksOnDue, Working, Goto, Forget, NextRequest
  <1>1. RequestsMove
    BY RequestsOnlyMove
  <1>2. CASE ~\E r \in Runners : RunnerStep(r)
    BY <1>1, <1>2, RunnersAlone DEF RequestsMove
  <1>3. ASSUME NEW r \in Runners, RunnerStep(r) PROVE WorksOnDue'
    <2> SUFFICES ASSUME NEW q \in Runners
                 PROVE  /\ \A d \in batch'[q] : req'[d].due
                        /\ pc'[q] \in Working => current'[q] \in Requests /\ req'[current'[q]].due
                        /\ pc'[q] \notin Working => current'[q] = NoRequest
      OBVIOUS
    <2> USE <1>1 DEF RequestsMove
    <2>1. CASE ReadDue(r)
      BY <2>1 DEF ReadDue, Due
    <2>2. ASSUME NEW d \in Requests, Load(r, d)
          PROVE  /\ batch'[q] \subseteq batch[q]
                 /\ pc'[q] \in Working => \/ q = r /\ current'[q] = d /\ d \in batch[r]
                                          \/ current'[q] = current[q] /\ pc[q] \in Working
                 /\ pc'[q] \notin Working => current'[q] = NoRequest
      BY <2>2 DEF Load
    <2>3. CASE CheckHold(r)
      BY <2>3 DEF CheckHold
    <2>4. CASE Block(r)
      BY <2>4 DEF Block
    <2>5. CASE Collect(r)
      BY <2>5 DEF Collect
    <2>6. CASE \E f \in Files : DeleteObject(r, f) \/ DeleteObjectFails(r, f)
      BY <2>6 DEF DeleteObject, DeleteObjectFails
    <2>7. CASE DeleteRows(r)
      BY <2>7 DEF DeleteRows
    <2>8. CASE WriteResult(r)
      BY <2>8 DEF WriteResult
    <2>9. CASE EndRun(r) \/ ExecutionFails(r) \/ Crash(r)
      BY <2>9 DEF EndRun, ExecutionFails, Crash
    <2> QED
      BY <1>3, <2>1, <2>2, <2>3, <2>4, <2>5, <2>6, <2>7, <2>8, <2>9 DEF RunnerStep
  <1> QED
    BY <1>2, <1>3
LEMMA CancelsARequestStep ==
    ASSUME TypeOK, CancelsARequest, [Next]_vars PROVE CancelsARequest'
  <1> USE DEF TypeOK, CancelsARequest
  <1>1. RequestsMove
    BY RequestsOnlyMove
  <1>2. CASE UNCHANGED <<doing, spared>>
    BY <1>1, <1>2 DEF RequestsMove
  <1>3. ASSUME NEW u \in People, PersonStep(u) PROVE CancelsARequest'
    <2> USE <1>1 DEF RequestsMove, Step, Rest, Idle, history
    <2>1. ASSUME NEW to \in {"idle", "pending", "create", "mark", "restore"}, NEW d, UNCHANGED spared,
                 doing' = [doing EXCEPT ![u] = [at |-> to, req |-> d]]
          PROVE  CancelsARequest'
      <3>1. \A v \in People : doing'[v].at = "cancel" => doing'[v] = doing[v]
        BY <2>1
      <3> QED
        BY <2>1, <3>1
    <2>2. ASSUME NEW d \in Requests, CreateRequest(u, d) PROVE CancelsARequest'
      BY <2>1, <2>2 DEF CreateRequest
    <2>3. CASE \/ Ask(u) \/ CheckPending(u) \/ MarkProperty(u) \/ RestoreProperty(u)
               \/ RequestCutOff(u)
      BY <2>1, <2>3 DEF Ask, CheckPending, MarkProperty, RestoreProperty, RequestCutOff
    <2>4. ASSUME NEW d \in Requests, CheckCancel(u, d) PROVE CancelsARequest'
      BY <2>4 DEF CheckCancel
    <2>5. CASE WriteCancelled(u)
      <3>1. req'[doing[u].req].status = "CANCELLED"
        BY <2>5, StatusIsSet DEF WriteCancelled, SetsStatus, Status
      <3> QED
        BY <2>5, <3>1 DEF WriteCancelled
    <2> QED
      BY <1>3, <2>2, <2>3, <2>4, <2>5 DEF PersonStep
  <1>4. ASSUME NEW r \in Runners, RunnerStep(r) PROVE UNCHANGED <<doing, spared>>
    BY <1>4 DEF RunnerStep, ReadDue, EndRun, Load, CheckHold, Block, Collect, DeleteObject,
         DeleteObjectFails, DeleteRows, WriteResult, ExecutionFails, Crash, history
  <1> QED
    BY <1>2, <1>3, <1>4 DEF Next, PlaceHold, ReleaseHold, RegisterFile, ComeDue, vars, history

LEMMA CollectedAllStep ==
    ASSUME TypeOK, CollectedAll, [Next]_vars PROVE CollectedAll'
  <1> USE DEF TypeOK, CollectedAll
  <1>1. ASSUME NEW r \in Runners, RunnerStep(r) PROVE CollectedAll'
    <2> USE DEF Goto, Forget, NextRequest, history
    <2>1. CASE Collect(r)
      BY <2>1 DEF Collect, Collected, Linked
    <2>2. ASSUME NEW f \in Files, DeleteObject(r, f) PROVE CollectedAll'
      <3>1. IsDeleted(f)
        BY <2>2, ObjectIsDeleted DEF DeleteObject, Deletes
      <3> QED
        BY <2>2, <3>1 DEF DeleteObject, IsDeleted
    <2>3. ASSUME NEW f \in Files, DeleteObjectFails(r, f) PROVE CollectedAll'
      BY <2>3 DEF DeleteObjectFails
    <2>4. CASE DeleteRows(r)
      <3>1. \A g \in Files : file'[g].row # "linked"
        BY <2>4 DEF DeleteRows, Linked, CascadeRow, File
      <3> QED
        BY <3>1
    <2>5. CASE \/ ReadDue(r) \/ EndRun(r) \/ (\E d \in Requests : Load(r, d))
               \/ CheckHold(r) \/ Block(r) \/ WriteResult(r) \/ ExecutionFails(r) \/ Crash(r)
      BY <2>5 DEF ReadDue, EndRun, Load, CheckHold, Block, WriteResult, ExecutionFails, Crash
    <2> QED
      BY <1>1, <2>1, <2>2, <2>3, <2>4, <2>5 DEF RunnerStep
  <1>2. ASSUME NEW f \in Files, RegisterFile(f) PROVE CollectedAll'
    BY <1>2 DEF RegisterFile, runner
  <1>3. CASE UNCHANGED <<file, pc, keys, late, stuck>>
    BY <1>3
  <1> QED
    BY <1>1, <1>2, <1>3 DEF Next, PersonStep, Ask, CheckPending, CreateRequest, MarkProperty,
         CheckCancel, WriteCancelled, RestoreProperty, RequestCutOff, PlaceHold, ReleaseHold,
         ComeDue, vars, runner, history

LEMMA OneAtATimeStep ==
    ASSUME TypeOK, OneAtATime, [Next]_vars PROVE OneAtATime'
  <1> USE DEF TypeOK, OneAtATime
  <1>1. CASE ~\E r \in Runners : RunnerStep(r)
    BY <1>1, RunnersAlone
  <1>2. ASSUME NEW r \in Runners, RunnerStep(r) PROVE OneAtATime'
    <2>1. CASE ReadDue(r)
      BY <2>1 DEF ReadDue, Goto
    <2>2. CASE ~ReadDue(r)
      <3>1. pc[r] # "idle" /\ overlapped' = overlapped /\ \A q \in Runners \ {r} : pc'[q] = pc[q]
        BY <1>2, <2>2 DEF RunnerStep, EndRun, Load, CheckHold, Block, Collect, DeleteObject,
             DeleteObjectFails, DeleteRows, WriteResult, ExecutionFails, Crash, Goto, Forget,
             NextRequest, history
      <3> QED
        BY <3>1
    <2> QED
      BY <2>1, <2>2
  <1> QED
    BY <1>1, <1>2

LEMMA ObjectsGoFirstStep ==
    ASSUME TypeOK, CollectedAll, ObjectsGoFirst, [Next]_vars PROVE ObjectsGoFirst'
  <1> USE DEF TypeOK, ObjectsGoFirst
  <1>1. ASSUME NEW r \in Runners, RunnerStep(r) PROVE ObjectsGoFirst'
    <2>1. ASSUME NEW f \in Files, DeleteObject(r, f) PROVE ObjectsGoFirst'
      <3>1. IsDeleted(f)
        BY <2>1, ObjectIsDeleted DEF DeleteObject, Deletes
      <3> QED
        BY <2>1, <3>1 DEF DeleteObject, IsDeleted, history
    <2>2. ASSUME NEW f \in Files, DeleteObjectFails(r, f) PROVE ObjectsGoFirst'
      BY <2>2 DEF DeleteObjectFails
    <2>3. CASE DeleteRows(r)
      BY <2>3 DEF DeleteRows, Linked, CollectedAll, File, history
    <2>4. CASE UNCHANGED <<file, late, stuck>>
      BY <2>4
    <2> QED
      BY <1>1, <2>1, <2>2, <2>3, <2>4 DEF RunnerStep, ReadDue, EndRun, Load, CheckHold, Block,
           Collect, WriteResult, ExecutionFails, Crash, history
  <1>2. ASSUME NEW f \in Files, RegisterFile(f) PROVE ObjectsGoFirst'
    BY <1>2 DEF RegisterFile
  <1>3. CASE UNCHANGED <<file, late, stuck>>
    BY <1>3
  <1> QED
    BY <1>1, <1>2, <1>3 DEF Next, PersonStep, Ask, CheckPending, CreateRequest, MarkProperty,
         CheckCancel, WriteCancelled, RestoreProperty, RequestCutOff, PlaceHold, ReleaseHold,
         ComeDue, vars, history

LEMMA GraceHoldStopsStep ==
    ASSUME TypeOK, WorksOnDue, GraceHoldStops, [Next]_vars PROVE GraceHoldStops'
  <1> USE DEF TypeOK, WorksOnDue, Working, GraceHoldStops, Destroying
  <1>1. ASSUME NEW r \in Runners, RunnerStep(r) PROVE GraceHoldStops'
    <2> USE DEF Goto, Forget, NextRequest, history
    <2>1. CASE CheckHold(r)
      BY <2>1 DEF CheckHold, ActiveHold
    <2>2. CASE DeleteRows(r)
      BY <2>2 DEF DeleteRows
    <2>3. CASE \E d \in Requests : Load(r, d)
      BY <2>3 DEF Load
    <2>4. CASE \E f \in Files : DeleteObject(r, f) \/ DeleteObjectFails(r, f)
      BY <2>4 DEF DeleteObject, DeleteObjectFails
    <2>5. CASE ReadDue(r) \/ EndRun(r) \/ Block(r) \/ Collect(r)
      BY <2>5 DEF ReadDue, EndRun, Block, Collect
    <2>6. CASE WriteResult(r) \/ ExecutionFails(r) \/ Crash(r)
      BY <2>6 DEF WriteResult, ExecutionFails, Crash
    <2> QED
      BY <1>1, <2>1, <2>2, <2>3, <2>4, <2>5, <2>6 DEF RunnerStep
  <1>2. ASSUME NEW h \in Holds, PlaceHold(h) PROVE GraceHoldStops'
    BY <1>2 DEF PlaceHold, runner
  <1>3. ASSUME NEW h \in Holds, ReleaseHold(h) PROVE GraceHoldStops'
    BY <1>3 DEF ReleaseHold, runner, history
  <1>4. CASE UNCHANGED <<pc, current, hold, early>>
    BY <1>4
  <1> QED
    BY <1>1, <1>2, <1>3, <1>4 DEF Next, PersonStep, Ask, CheckPending, CreateRequest,
         MarkProperty, CheckCancel, WriteCancelled, RestoreProperty, RequestCutOff,
         RegisterFile, ComeDue, vars, runner, history

LEMMA SparedStep ==
    ASSUME TypeOK, WorksOnDue, CancelsARequest, CancelledInGraceIsSpared, [Next]_vars
    PROVE  CancelledInGraceIsSpared'
  <1> USE DEF TypeOK, WorksOnDue, Working, CancelledInGraceIsSpared
  <1>1. ASSUME NEW r \in Runners, RunnerStep(r) PROVE CancelledInGraceIsSpared'
    <2> USE DEF Goto, Forget, NextRequest, history
    <2>1. ASSUME NEW d \in Requests, Load(r, d) PROVE CancelledInGraceIsSpared'
      BY <2>1 DEF Load, CancelsARequest
    <2>2. CASE current'[r] \in {current[r], NoRequest} /\ UNCHANGED spared
               /\ \A q \in Runners \ {r} : current'[q] = current[q]
      BY <2>2
    <2> QED
      BY <1>1, <2>1, <2>2 DEF RunnerStep, ReadDue, EndRun, CheckHold, Block, Collect,
           DeleteObject, DeleteObjectFails, DeleteRows, WriteResult, ExecutionFails, Crash
  <1>2. ASSUME NEW u \in People, WriteCancelled(u) PROVE CancelledInGraceIsSpared'
    BY <1>2 DEF WriteCancelled, CancelsARequest, runner
  <1>3. CASE UNCHANGED <<current, spared>>
    BY <1>3
  <1> QED
    BY <1>1, <1>2, <1>3 DEF Next, PersonStep, Ask, CheckPending, CreateRequest, MarkProperty,
         CheckCancel, RestoreProperty, RequestCutOff, PlaceHold, ReleaseHold, RegisterFile,
         ComeDue, vars, runner, history
\* What a request says of the objects left, it says for good.
LEMMA SaysStays ==
    ASSUME TypeOK, WorksOnDue, [Next]_vars, NEW d \in Requests, Says(d) PROVE Says(d)'
  <1> USE DEF TypeOK, Says
  <1>1. RequestsMove
    BY RequestsOnlyMove
  <1>2. req'[d].due
    BY <1>1 DEF RequestsMove
  <1>3. req'[d].status \in {"FAILED", "CANCELLED"}
    <2>1. CASE UNCHANGED req
      BY <2>1
    <2>2. ASSUME NEW e, NEW st \in Status, SetsStatus(e, st), e = d => st = "CANCELLED"
          PROVE  req'[d].status \in {"FAILED", "CANCELLED"}
      BY <2>2, StatusIsSet
    <2>3. ASSUME NEW r \in Runners, RunnerStep(r)
          PROVE  UNCHANGED req \/ \E st \in Status : SetsStatus(current[r], st)
      BY <2>3 DEF RunnerStep, ReadDue, EndRun, Load, CheckHold, Block, Collect, DeleteObject,
           DeleteObjectFails, DeleteRows, WriteResult, Result, ExecutionFails, Crash, SetsStatus,
           Status
    <2>4. ASSUME NEW u \in People, PersonStep(u)
          PROVE  \/ UNCHANGED req
                 \/ \E e \in Requests : req[e].status = "NONE" /\ SetsStatus(e, "PENDING")
                 \/ SetsStatus(doing[u].req, "CANCELLED")
      BY <2>4 DEF PersonStep, Ask, CheckPending, CreateRequest, MarkProperty, CheckCancel,
           WriteCancelled, RestoreProperty, RequestCutOff, SetsStatus
    <2>5. ASSUME NEW e \in Requests, ComeDue(e) PROVE req'[d].status \in {"FAILED", "CANCELLED"}
      BY <2>5, DueIsSet DEF ComeDue
    <2>6. "PENDING" \in Status /\ "CANCELLED" \in Status
      BY DEF Status
    <2> QED
      BY <2>1, <2>2, <2>3, <2>4, <2>5, <2>6 DEF Next, PlaceHold, ReleaseHold, RegisterFile, vars
  <1>4. \A r \in Runners : current'[r] # d
    <2>1. CASE ~\E r \in Runners : RunnerStep(r)
      BY <2>1, RunnersAlone
    <2>2. ASSUME NEW r \in Runners, RunnerStep(r) PROVE \A q \in Runners : current'[q] # d
      <3>1. CASE \E e \in Requests : Load(r, e)
        BY <3>1 DEF Load, Forget
      <3>2. CASE current'[r] \in {current[r], NoRequest}
                 /\ \A q \in Runners \ {r} : current'[q] = current[q]
        BY <3>2
      <3> QED
        BY <2>2, <3>1, <3>2 DEF RunnerStep, ReadDue, EndRun, CheckHold, Block, Collect,
             DeleteObject, DeleteObjectFails, DeleteRows, WriteResult, ExecutionFails, Crash,
             Forget, NextRequest
    <2> QED
      BY <2>1, <2>2
  <1> QED
    BY <1>2, <1>3, <1>4

\* The request whose execution ends as FAILED says so, when runs follow each
\* other.
LEMMA FailedSays ==
    ASSUME TypeOK, WorksOnDue, OneAtATime, ~overlapped, NEW r \in Runners, pc[r] \in Working,
           SetsStatus(current[r], "FAILED"), current' = [current EXCEPT ![r] = NoRequest]
    PROVE  \E d \in Requests : Says(d)'
  <1> USE DEF TypeOK, WorksOnDue, OneAtATime, Working
  <1>1. current[r] \in Requests /\ req[current[r]].due
    OBVIOUS
  <1>2. req'[current[r]].status = "FAILED" /\ req'[current[r]].due
    <2>1. "FAILED" \in Status
      BY DEF Status
    <2> QED
      BY <1>1, <2>1, StatusIsSet
  <1>3. \A q \in Runners : current'[q] # current[r]
    BY <1>1
  <1> QED
    BY <1>1, <1>2, <1>3 DEF Says

LEMMA FailureIsKnownStep ==
    ASSUME TypeOK, WorksOnDue, OneAtATime, FailureIsKnown, [Next]_vars PROVE FailureIsKnown'
  <1> SUFFICES ASSUME stuck' # {}, ~overlapped', crashes' = 0
               PROVE  (\E d \in Requests : Says(d)') \/ (\E r \in Runners : Knows(r)')
    BY DEF FailureIsKnown
  <1> USE DEF TypeOK
  <1>1. CASE ~\E r \in Runners : RunnerStep(r)
    <2>1. UNCHANGED <<pc, batch, current, keys, failures, overlapped, stuck>>
      BY <1>1, RunnersAlone
    <2>2. crashes' = crashes \/ crashes' = crashes + 1
      BY <1>1, Zenon DEF Next, PersonStep, Ask, CheckPending, CreateRequest, MarkProperty, CheckCancel,
         WriteCancelled, RestoreProperty, RequestCutOff, PlaceHold, ReleaseHold, RegisterFile,
         ComeDue, vars, runner, history, CutOff
    <2>3. (\E d \in Requests : Says(d)) \/ (\E r \in Runners : Knows(r))
      <3>1. crashes = 0
        BY <2>2
      <3> QED
        BY <2>1, <3>1 DEF FailureIsKnown
    <2>4. \A r \in Runners : Knows(r) => Knows(r)'
      BY <2>1 DEF Knows
    <2> QED
      BY <2>3, <2>4, SaysStays
  <1>2. ASSUME NEW r \in Runners, RunnerStep(r)
        PROVE  (\E d \in Requests : Says(d)') \/ (\E q \in Runners : Knows(q)')
    <2>1. CASE \E f \in Files : DeleteObjectFails(r, f)
      BY <2>1 DEF DeleteObjectFails, Knows
    <2>2. CASE ~\E f \in Files : DeleteObjectFails(r, f)
      <3>1. stuck' = stuck /\ ~overlapped /\ crashes = 0 /\ ~Crash(r)
        BY <1>2, <2>2 DEF RunnerStep, ReadDue, EndRun, Load, CheckHold, Block, Collect,
             DeleteObject, DeleteRows, WriteResult, ExecutionFails, Crash, history, CutOff
      <3>2. CASE \E d \in Requests : Says(d)
        BY <3>2, SaysStays
      <3>3. ASSUME NEW q \in Runners, Knows(q)
            PROVE  (\E d \in Requests : Says(d)') \/ (\E p \in Runners : Knows(p)')
        <4>1. q = r /\ pc[r] \in {"objects", "finish"}
          BY <1>2, <3>1, <3>3 DEF Knows, OneAtATime, RunnerStep, ReadDue, EndRun, Load, CheckHold,
             Block, Collect, DeleteObject, DeleteObjectFails, DeleteRows, WriteResult,
             ExecutionFails, Crash
        <4>2. CASE WriteResult(r) \/ ExecutionFails(r)
          <5>1. SetsStatus(current[r], "FAILED") /\ current' = [current EXCEPT ![r] = NoRequest]
            BY <3>3, <4>1, <4>2 DEF Knows, WriteResult, ExecutionFails, Result, SetsStatus,
               NextRequest, Forget
          <5> QED
            BY <3>1, <4>1, <5>1, FailedSays DEF Working
        <4>3. CASE (\E f \in Files : DeleteObject(r, f)) \/ DeleteRows(r)
          BY <3>3, <4>1, <4>3 DEF Knows, DeleteObject, DeleteRows, Goto
        <4> QED
          BY <1>2, <2>2, <3>1, <4>1, <4>2, <4>3 DEF RunnerStep, ReadDue, EndRun, Load, CheckHold,
             Block, Collect
      <3> QED
        BY <2>2, <3>1, <3>2, <3>3 DEF FailureIsKnown
    <2> QED
      BY <2>1, <2>2
  <1> QED
    BY <1>1, <1>2

-----------------------------------------------------------------------------
(* The theorems.                                                            *)

LEMMA RetentionInvariant == Spec => []RInv
  <1>1. Init => RInv
    <2> SUFFICES ASSUME Init PROVE RInv
      OBVIOUS
    <2> USE DEF Init
    <2>1. req \in [Requests -> Request] /\ file \in [Files -> File]
      BY DEF Request, File
    <2>2. TypeOK
      BY <2>1 DEF TypeOK, Idle
    <2>3. WorksOnDue /\ CancelsARequest /\ CollectedAll /\ OneAtATime
      BY DEF WorksOnDue, Working, CancelsARequest, CollectedAll, OneAtATime, Idle
    <2>4. FailureIsKnown /\ GraceHoldStops /\ CancelledInGraceIsSpared /\ ObjectsGoFirst
      BY DEF FailureIsKnown, GraceHoldStops, Destroying, CancelledInGraceIsSpared, ObjectsGoFirst
    <2> QED
      BY <2>2, <2>3, <2>4 DEF RInv
  <1>2. RInv /\ [Next]_vars => RInv'
    <2> SUFFICES ASSUME RInv, [Next]_vars PROVE RInv'
      OBVIOUS
    <2> USE DEF RInv
    <2>1. TypeOK'
      BY RetentionTypeOK
    <2>2. WorksOnDue' /\ CancelsARequest' /\ CollectedAll' /\ OneAtATime'
      BY WorksOnDueStep, CancelsARequestStep, CollectedAllStep, OneAtATimeStep
    <2>3. FailureIsKnown'
      BY FailureIsKnownStep
    <2>4. GraceHoldStops' /\ CancelledInGraceIsSpared' /\ ObjectsGoFirst'
      BY GraceHoldStopsStep, SparedStep, ObjectsGoFirstStep
    <2> QED
      BY <2>1, <2>2, <2>3, <2>4
  <1> QED
    BY <1>1, <1>2, PTL DEF Spec

\* A hold placed during the grace window stops the deletion, and a request
\* cancelled in its grace window is never executed, however many runs, people
\* and holds overlap (executeDeletionRequest, cancelDeletionRequest).
THEOREM GraceWindowIsHonoured == Spec => []GraceIsHonoured
  <1>1. RInv => GraceIsHonoured
    BY DEF RInv, GraceIsHonoured
  <1> QED
    BY <1>1, RetentionInvariant, PTL

\* No object outlives its row unless the store refused to delete it or it came
\* late, and one that was refused is reported (executeDeletionRequest).
THEOREM PurgeLeavesNothingUnsaid == Spec => []PurgeIsAccounted
  <1>1. RInv => PurgeIsAccounted
    BY DEF RInv, PurgeIsAccounted, LeftoverIsReported, FailureIsKnown, Says, Knows
  <1> QED
    BY <1>1, RetentionInvariant, PTL

-----------------------------------------------------------------------------
(* The DroneDeploy import: what is filed, for any interleaving; what is      *)
(* copied, as long as no two passes overlap; and how an import ends, if no   *)
(* two retries overlap either.                                               *)

HIDE RetentionAssumption

Collecting == {"export", "copying", "copied"}
Advancing == Collecting \cup {"lost", "settle", "finish", "giveup"}

\* A capture is counted while it is there.
OneFiling == captures = IF imp.capture = "present" THEN 1 ELSE 0

\* Only a map that was filed has layers, and one that was not ignored meanwhile
\* is being imported, or was.
FiledHasLayers ==
    /\ imp.status \in {"NONE", "UNMATCHED"} => imp.capture = "none"
    /\ imp.capture = "none" => /\ imp.status \in {"NONE", "UNMATCHED", "IGNORED"}
                               /\ \A l \in Layers : exp[l].status = "NONE"
    /\ imp.capture # "none" => \A l \in Layers : exp[l].status # "NONE"
    /\ imp.capture # "none" /\ ~crossed => imp.status \in {"IMPORTING", "IMPORTED", "FAILED"}
    /\ imp.capture # "gone" /\ ~crossed => orphaned = {}

\* A pass advances a map that was filed, the layer it copies is one of them, and
\* what it has copied is in the capture.
AdvancesFiled ==
    \A p \in Passes :
        /\ at[p] \in Advancing => imp.capture # "none"
        /\ at[p] = "lost" => crossed \/ imp.capture = "gone"
        /\ at[p] \in {"copying", "copied"} => layer[p] \in Layers
        /\ at[p] = "copied" /\ imp.capture = "present" /\ ~crossed => outputs[layer[p]] > 0

\* The transaction of a retry throws if the capture is gone.
RetriesFiled == \A u \in Members : deciding[u] = "retry" => imp.capture = "present"

ImportInv == /\ ImportTypeOK /\ OneFiling /\ FiledHasLayers /\ AdvancesFiled /\ RetriesFiled
             /\ LandedHasOutput /\ WaitingHasAttempts

\* No two passes overlap.
OnePass == \A p, q \in Passes : at[p] # "idle" /\ at[q] # "idle" => p = q

\* What a pass has yet to reach, or is copying, still waits.
LeftIsWaiting ==
    \A p \in Passes :
        /\ at[p] \notin Collecting \cup {"lost"} => left[p] = {}
        /\ \A l \in left[p] : exp[l].status = "REQUESTED"
        /\ at[p] \in {"copying", "copied"} => exp[layer[p]].status = "REQUESTED" /\ layer[p] \notin left[p]

\* An output more than there were faults is of a layer that landed, or is about to.
OutputsCounted ==
    \A l \in Layers :
        /\ outputs[l] <= 1 + cutOff
        /\ exp[l].status # "IMPORTED" /\ (\A p \in Passes : ~(at[p] = "copied" /\ layer[p] = l)) =>
              outputs[l] <= cutOff

OnePassInv == ImportInv /\ LeftIsWaiting /\ OutputsCounted

\* No two people retry at once.
OneRetry == \A u, v \in Members : deciding[u] = "retry" /\ deciding[v] = "retry" => u = v

\* While a pass advances a map nothing finishes it, and what the pass is about
\* to write is still so.
AdvancesOpen ==
    \A p \in Passes :
        /\ at[p] \in Advancing => imp.status \in {"IMPORTING", "IGNORED"}
        /\ at[p] \in {"finish", "giveup"} => \A l \in Layers : exp[l].status \in {"IMPORTED", "FAILED"}
        /\ at[p] = "giveup" => \A l \in Layers : exp[l].status = "FAILED"

\* A retry that was allowed finds the failed map, and no pass at it.
RetriesFailed ==
    \A u \in Members : deciding[u] = "retry" =>
        imp.status \in {"FAILED", "IGNORED"} /\ \A p \in Passes : at[p] \notin Advancing

SettledInv == OnePassInv /\ AdvancesOpen /\ RetriesFailed /\ SettledIsComplete

\* The rows of the other layers stay.
OnlyLayer(l) == \A k \in Layers : k # l => exp'[k] = exp[k]

LEMMA AskedRow ==
    ASSUME exp \in [Layers -> Export], NEW l \in Layers, exp' = [exp EXCEPT ![l].asked = TRUE]
    PROVE  /\ exp' \in [Layers -> Export] /\ OnlyLayer(l)
           /\ exp'[l].status = exp[l].status /\ exp'[l].attempts = exp[l].attempts
  BY DEF Export, OnlyLayer

LEMMA MarkedLayer ==
    ASSUME exp \in [Layers -> Export], NEW l \in Layers, NEW st \in {"IMPORTED", "FAILED"},
           exp' = [exp EXCEPT ![l].status = st]
    PROVE  exp' \in [Layers -> Export] /\ OnlyLayer(l) /\ exp'[l].status = st
  BY DEF Export, OnlyLayer

LEMMA FailedRow ==
    ASSUME NEW row \in Export, NEW n \in Nat, NEW counted, counted = FailedOnce(row, n)
    PROVE  /\ counted \in Export /\ counted.attempts = n
           /\ counted.status = IF n >= MaxExportAttempts THEN "FAILED" ELSE row.status
  <1>1. counted = [row EXCEPT !.attempts = n, !.status = IF n >= MaxExportAttempts THEN "FAILED" ELSE @]
    BY DEF FailedOnce
  <1>2. CASE n >= MaxExportAttempts
    <2>1. counted = [row EXCEPT !.attempts = n, !.status = "FAILED"]
      BY <1>1, <1>2
    <2> QED
      BY <1>2, <2>1 DEF Export
  <1>3. CASE ~(n >= MaxExportAttempts)
    <2>1. counted = [row EXCEPT !.attempts = n]
      BY <1>1, <1>3 DEF Export
    <2> QED
      BY <1>3, <2>1 DEF Export
  <1> QED
    BY <1>2, <1>3

LEMMA CountedRow ==
    ASSUME exp \in [Layers -> Export], NEW l \in Layers, NEW n \in Nat, MaxExportAttempts \in Nat,
           exp' = [exp EXCEPT ![l] = FailedOnce(@, n)]
    PROVE  /\ exp' \in [Layers -> Export] /\ OnlyLayer(l)
           /\ exp'[l].status \in {exp[l].status, "FAILED"}
           /\ exp'[l].status # "FAILED" => exp'[l].attempts < MaxExportAttempts
  <1>1. PICK counted : counted = FailedOnce(exp[l], n)
    OBVIOUS
  <1>2. exp' = [exp EXCEPT ![l] = counted]
    BY <1>1
  <1>3. /\ counted \in Export /\ counted.attempts = n
        /\ counted.status = IF n >= MaxExportAttempts THEN "FAILED" ELSE exp[l].status
    BY <1>1, FailedRow
  <1> QED
    BY <1>2, <1>3 DEF OnlyLayer

LEMMA FiledRows ==
    ASSUME exp \in [Layers -> Export], MaxExportAttempts \in Nat \ {0},
           exp' = [l \in Layers |-> IF exp[l].status = "NONE" THEN NewExport ELSE exp[l]]
    PROVE  /\ exp' \in [Layers -> Export]
           /\ \A l \in Layers : IF exp[l].status = "NONE"
                                THEN exp'[l].status = "REQUESTED" /\ exp'[l].attempts < MaxExportAttempts
                                ELSE exp'[l] = exp[l]
  BY DEF Export, NewExport

LEMMA QueuedRows ==
    ASSUME exp \in [Layers -> Export], MaxExportAttempts \in Nat \ {0}, exp' = QueuedAgain
    PROVE  /\ exp' \in [Layers -> Export]
           /\ \A l \in Layers : IF exp[l].status = "FAILED"
                                THEN exp'[l].status = "REQUESTED" /\ exp'[l].attempts < MaxExportAttempts
                                ELSE exp'[l] = exp[l]
  BY DEF Export, NewExport, QueuedAgain

LEMMA ImportColumn ==
    ASSUME imp \in Import, NEW st \in {"NONE", "UNMATCHED", "IMPORTING", "IMPORTED", "FAILED", "IGNORED"},
           imp' = [imp EXCEPT !.status = st]
    PROVE  imp' \in Import /\ imp'.status = st /\ imp'.capture = imp.capture
  BY DEF Import

LEMMA CaptureColumn ==
    ASSUME imp \in Import, imp' = [imp EXCEPT !.capture = "gone"]
    PROVE  imp' \in Import /\ imp'.status = imp.status /\ imp'.capture = "gone"
  BY DEF Import


-----------------------------------------------------------------------------
(* The import: types.                                                       *)

LEMMA EndTypes ==
    ASSUME ImportTypeOK, NEW p \in Passes, End(p), MaxCopies \in Nat
    PROVE  /\ at' \in [Passes -> {"idle", "list", "file", "read", "lost", "export", "copying",
                                  "copied", "settle", "finish", "giveup"}]
           /\ snap' \in [Passes -> [Layers -> Export]]
           /\ left' \in [Passes -> SUBSET Layers]
           /\ layer' \in [Passes -> Layers \cup {NoLayer}]
           /\ copies' \in [Passes -> 0..MaxCopies]
           /\ orphaned' \in SUBSET Passes
  <1>1. [l \in Layers |-> NoExport] \in [Layers -> Export]
    BY DEF NoExport, Export
  <1> QED
    BY <1>1 DEF End, GoOn, ImportTypeOK

\* Filing a map.
LEMMA FileItTypes ==
    ASSUME ImportTypeOK, FileIt, DroneDeployAssumption
    PROVE  imp' \in Import /\ captures' \in Nat /\ exp' \in [Layers -> Export]
  BY FiledRows DEF FileIt, ImportTypeOK, Import, DroneDeployAssumption

LEMMA PassTypeOK ==
    ASSUME ImportTypeOK, DroneDeployAssumption, NEW p \in Passes,
           PassStep(p) \/ ListingFails(p) \/ KeyRejected(p) \/ ImportNotRecorded(p) \/ CutPass(p),
           AdvancesFiled
    PROVE  ImportTypeOK'
  <1> USE DEF ImportTypeOK, GoOn, Cut, rows, pass, bounds, DroneDeployAssumption
  <1>1. CASE StartPass(p) \/ KnownAlready(p) \/ EndExports(p)
    <2>1. /\ UNCHANGED <<imp, exp, captures, outputs, snap, left, layer, orphaned, deciding, cutOff,
                         retries, ignores, crossed, trouble>>
          /\ \E to \in {"list", "read", "settle"} : at' = [at EXCEPT ![p] = to]
          /\ copies' = copies \/ copies' = [copies EXCEPT ![p] = MaxCopies]
      BY <1>1 DEF StartPass, KnownAlready, EndExports
    <2>2. at' \in [Passes -> {"idle", "list", "file", "read", "lost", "export", "copying",
                              "copied", "settle", "finish", "giveup"}]
      BY <2>1
    <2>3. copies' \in [Passes -> 0..MaxCopies]
      BY <2>1
    <2> QED
      BY <2>1, <2>2, <2>3
  <1>2. CASE Discover(p)
    BY <1>2, ImportColumn DEF Discover
  <1>3. CASE FileMatched(p)
    BY <1>3, FileItTypes DEF FileMatched
  <1>4. CASE ReadInFlight(p)
    <2>1. CASE End(p)
      BY <1>4, <2>1, EndTypes DEF ReadInFlight
    <2>2. CASE ~End(p)
      <3>1. /\ \E to \in {"export", "lost"} : at' = [at EXCEPT ![p] = to]
            /\ snap' = [snap EXCEPT ![p] = exp]
            /\ left' = [left EXCEPT ![p] = {l \in Layers : exp[l].status = "REQUESTED"}]
            /\ orphaned' = orphaned \ {p}
            /\ UNCHANGED <<imp, exp, captures, outputs, layer, copies, deciding, cutOff, retries,
                           ignores, crossed, trouble>>
        BY <1>4, <2>2 DEF ReadInFlight
      <3>2. at' \in [Passes -> {"idle", "list", "file", "read", "lost", "export", "copying",
                                "copied", "settle", "finish", "giveup"}]
        BY <3>1
      <3>3. snap' \in [Passes -> [Layers -> Export]] /\ left' \in [Passes -> SUBSET Layers]
        BY <3>1
      <3> QED
        BY <3>1, <3>2, <3>3
    <2> QED
      BY <2>1, <2>2
  <1>5. CASE MarkLost(p)
    BY <1>5, EndTypes, ImportColumn DEF MarkLost
  <1>6. ASSUME NEW l \in Layers, RequestExport(p, l) PROVE ImportTypeOK'
    BY <1>6, AskedRow DEF RequestExport, Reach
  <1>7. ASSUME NEW l \in Layers, CheckLater(p, l) \/ BeginCopy(p, l) PROVE ImportTypeOK'
    <2>1. CASE CheckLater(p, l)
      BY <2>1 DEF CheckLater, Reach
    <2>2. CASE BeginCopy(p, l)
      <3>1. copies[p] \in 1..MaxCopies /\ copies' = [copies EXCEPT ![p] = @ - 1]
        BY <2>2 DEF BeginCopy
      <3>2. copies' \in [Passes -> 0..MaxCopies]
        BY <3>1
      <3> QED
        BY <2>2, <3>2 DEF BeginCopy, Reach
    <2> QED
      BY <1>7, <2>1, <2>2
  <1>8. ASSUME NEW l \in Layers, ExportFailed(p, l) PROVE ImportTypeOK'
    BY <1>8, MarkedLayer DEF ExportFailed, Reach
  <1>9. ASSUME NEW l \in Layers PROVE snap[p][l].attempts + 1 \in Nat
    BY <1>9 DEF Export
  <1>10. ASSUME NEW l \in Layers, CallFails(p, l) PROVE ImportTypeOK'
    <2>1. exp' \in [Layers -> Export]
      BY <1>9, <1>10, CountedRow DEF CallFails, CountError
    <2>2. left' \in [Passes -> SUBSET Layers]
      BY <1>10 DEF CallFails
    <2> QED
      BY <1>10, <2>1, <2>2 DEF CallFails
  <1>11. CASE CreateOutput(p)
    BY <1>11 DEF CreateOutput, AdvancesFiled
  <1>12. CASE CopyFails(p)
    BY <1>9, <1>12, CountedRow DEF CopyFails, CountError, Continue, AdvancesFiled
  <1>13. CASE RecordImported(p)
    BY <1>13, MarkedLayer DEF RecordImported, Landed, Continue, AdvancesFiled
  <1>14. CASE ReadSettled(p)
    <2>1. CASE End(p)
      BY <1>14, <2>1, EndTypes DEF ReadSettled
    <2>2. CASE ~End(p)
      BY <1>14, <2>2 DEF ReadSettled
    <2> QED
      BY <2>1, <2>2
  <1>15. CASE Settle(p)
    BY <1>15, EndTypes, ImportColumn DEF Settle
  <1>16. CASE ListingFails(p)
    BY <1>16 DEF ListingFails
  <1>17. CASE ImportNotRecorded(p)
    <2>1. layer[p] \in Layers
      BY <1>17 DEF ImportNotRecorded, AdvancesFiled
    <2>2. exp' \in [Layers -> Export]
      BY <1>9, <1>17, <2>1, CountedRow DEF ImportNotRecorded, CountError
    <2> QED
      BY <1>17, <2>2 DEF ImportNotRecorded, Continue
  <1>18. CASE CutPass(p)
    <2>1. cutOff' \in Nat
      BY <1>18 DEF CutPass
    <2> QED
      BY <1>18, <2>1, EndTypes DEF CutPass
  <1>19. CASE KeyRejected(p)
    BY <1>19, EndTypes DEF KeyRejected
  <1> QED
    BY <1>1, <1>2, <1>3, <1>4, <1>5, <1>6, <1>7, <1>8, <1>10, <1>11, <1>12, <1>13, <1>14, <1>15,
       <1>16, <1>17, <1>18, <1>19 DEF PassStep

LEMMA PeopleTypeOK ==
    ASSUME ImportTypeOK, OneFiling, DroneDeployAssumption,
           \/ \E u \in Members : Assign(u) \/ CheckIgnore(u) \/ Ignore(u) \/ CheckRetry(u) \/ Retry(u)
           \/ DeleteProperty
    PROVE  ImportTypeOK'
  <1> USE DEF ImportTypeOK, rows, pass, bounds
  <1>1. ASSUME NEW u \in Members, Assign(u) PROVE ImportTypeOK'
    BY <1>1, FileItTypes DEF Assign
  <1>2. ASSUME NEW u \in Members, CheckIgnore(u) \/ CheckRetry(u) PROVE ImportTypeOK'
    <2>1. CASE CheckIgnore(u)
      BY <2>1 DEF CheckIgnore
    <2>2. CASE CheckRetry(u)
      BY <2>2 DEF CheckRetry
    <2> QED
      BY <1>2, <2>1, <2>2
  <1>3. ASSUME NEW u \in Members, Ignore(u) PROVE ImportTypeOK'
    BY <1>3, ImportColumn DEF Ignore
  <1>4. ASSUME NEW u \in Members, Retry(u) PROVE ImportTypeOK'
    BY <1>4, ImportColumn, QueuedRows DEF Retry, DroneDeployAssumption
  <1>5. CASE DeleteProperty
    <2>1. captures' = 0
      BY <1>5 DEF DeleteProperty, OneFiling
    <2> QED
      BY <1>5, <2>1, CaptureColumn DEF DeleteProperty
  <1> QED
    BY <1>1, <1>2, <1>3, <1>4, <1>5


-----------------------------------------------------------------------------
(* The import: what is filed.                                               *)

\* What a step of a pass leaves of the other passes.
OnlyPass(p) == \A q \in Passes \ {p} : at'[q] = at[q] /\ layer'[q] = layer[q]

\* The pass's own part of AdvancesFiled.
FiledFor(p) ==
    /\ at[p] \in Advancing => imp.capture # "none"
    /\ at[p] = "lost" => crossed \/ imp.capture = "gone"
    /\ at[p] \in {"copying", "copied"} => layer[p] \in Layers
    /\ at[p] = "copied" /\ imp.capture = "present" /\ ~crossed => outputs[layer[p]] > 0

\* A layer lands with its output, and waits with attempts left.
LayerFiled(l) ==
    /\ imp.capture = "present" /\ exp[l].status = "IMPORTED" /\ ~crossed => outputs[l] > 0
    /\ exp[l].status = "REQUESTED" => exp[l].attempts < MaxExportAttempts

\* One layer stays, or moves as it may.
LayerMoves(l) ==
    \/ exp'[l] = exp[l]
    \/ LayerFiled(l)' /\ exp'[l].status # "NONE" /\ exp[l].status # "NONE"

FiledInv == /\ OneFiling /\ FiledHasLayers /\ AdvancesFiled /\ RetriesFiled
            /\ LandedHasOutput /\ WaitingHasAttempts

LEMMA LayersFiled == LandedHasOutput /\ WaitingHasAttempts <=> \A l \in Layers : LayerFiled(l)
  BY DEF LandedHasOutput, WaitingHasAttempts, LayerFiled

LEMMA PassesFiled == AdvancesFiled <=> \A p \in Passes : FiledFor(p)
  BY DEF AdvancesFiled, FiledFor

\* A pass that leaves the import as it is moves one layer, or none.
LEMMA PassMoves ==
    ASSUME ImportInv, NEW p \in Passes, OnlyPass(p), UNCHANGED <<imp, captures, crossed, deciding>>,
           orphaned' \subseteq orphaned, FiledFor(p)',
           \A l \in Layers : outputs'[l] \in Nat /\ outputs'[l] >= outputs[l],
           \A l \in Layers : LayerMoves(l)
    PROVE  FiledInv'
  <1>1. \A q \in Passes \ {p} : FiledFor(q)'
    <2> SUFFICES ASSUME NEW q \in Passes \ {p} PROVE FiledFor(q)'
      OBVIOUS
    <2>1. FiledFor(q)
      BY DEF ImportInv, AdvancesFiled, FiledFor
    <2>2. at'[q] = at[q] /\ layer'[q] = layer[q]
      BY DEF OnlyPass
    <2>3. CASE at[q] = "copied"
      <3>1. layer[q] \in Layers
        BY <2>1, <2>3 DEF FiledFor
      <3>2. outputs[layer[q]] \in Nat /\ outputs'[layer[q]] \in Nat /\ outputs'[layer[q]] >= outputs[layer[q]]
        BY <3>1 DEF ImportInv, ImportTypeOK
      <3> QED
        BY <2>1, <2>2, <2>3, <3>1, <3>2 DEF FiledFor, Advancing, Collecting
    <2>4. CASE at[q] # "copied"
      BY <2>1, <2>2, <2>4 DEF FiledFor
    <2> QED
      BY <2>3, <2>4
  <1>2. \A l \in Layers : LayerFiled(l)'
    <2> SUFFICES ASSUME NEW l \in Layers, exp'[l] = exp[l] PROVE LayerFiled(l)'
      BY DEF LayerMoves
    <2>1. LayerFiled(l)
      BY LayersFiled DEF ImportInv
    <2>2. outputs[l] \in Nat /\ outputs'[l] \in Nat /\ outputs'[l] >= outputs[l]
      BY DEF ImportInv, ImportTypeOK
    <2> QED
      BY <2>1, <2>2 DEF LayerFiled
  <1>3. OneFiling' /\ RetriesFiled'
    BY DEF ImportInv, OneFiling, RetriesFiled
  <1>4. FiledHasLayers'
    BY DEF ImportInv, FiledHasLayers, LayerMoves
  <1>5. AdvancesFiled'
    BY <1>1, PassesFiled DEF FiledFor, AdvancesFiled
  <1>6. LandedHasOutput' /\ WaitingHasAttempts'
    BY <1>2 DEF LandedHasOutput, WaitingHasAttempts, LayerFiled
  <1> QED
    BY <1>3, <1>4, <1>5, <1>6 DEF FiledInv

\* A pass that writes nothing.
LEMMA PassReads ==
    ASSUME ImportInv, NEW p \in Passes, OnlyPass(p), UNCHANGED <<imp, exp, captures, outputs, crossed, deciding>>,
           orphaned' \subseteq orphaned, FiledFor(p)'
    PROVE  FiledInv'
  <1>1. \A l \in Layers : outputs'[l] \in Nat /\ outputs'[l] >= outputs[l]
    BY DEF ImportInv, ImportTypeOK
  <1>2. \A l \in Layers : LayerMoves(l)
    BY DEF LayerMoves
  <1> QED
    BY <1>1, <1>2, PassMoves

\* A pass that is over.
LEMMA EndFacts ==
    ASSUME ImportTypeOK, NEW p \in Passes, End(p)
    PROVE  OnlyPass(p) /\ orphaned' \subseteq orphaned /\ FiledFor(p)' /\ at'[p] = "idle"
  BY DEF End, GoOn, OnlyPass, FiledFor, ImportTypeOK, Advancing, Collecting

\* A count of the attempts of one layer.
LEMMA CountFiled ==
    ASSUME ImportInv, DroneDeployAssumption, NEW p \in Passes, NEW l \in Layers, CountError(p, l),
           UNCHANGED <<imp, outputs, crossed>>, imp.capture # "none"
    PROVE  \A k \in Layers : LayerMoves(k)
  <1>1. snap[p][l].attempts + 1 \in Nat
    BY DEF ImportInv, ImportTypeOK, Export
  <1>2. /\ OnlyLayer(l) /\ exp'[l].status \in {exp[l].status, "FAILED"}
        /\ exp'[l].status # "FAILED" => exp'[l].attempts < MaxExportAttempts
    BY <1>1, CountedRow DEF ImportInv, ImportTypeOK, CountError, DroneDeployAssumption
  <1>3. exp[l].status # "NONE" /\ LayerFiled(l)
    BY LayersFiled DEF ImportInv, FiledHasLayers
  <1>4. LayerFiled(l)'
    BY <1>2, <1>3 DEF LayerFiled
  <1> QED
    BY <1>2, <1>3, <1>4 DEF OnlyLayer, LayerMoves

\* A map is filed that nobody has filed, or one that was ignored meanwhile.
LEMMA FileItFiled ==
    ASSUME ImportInv, DroneDeployAssumption, Claimable, FileIt,
           UNCHANGED <<outputs, crossed, deciding, orphaned>>,
           \A q \in Passes : /\ at'[q] \in Advancing \cup {"copying", "copied"} => at'[q] = at[q]
                             /\ layer'[q] = layer[q]
    PROVE  FiledInv'
  <1> USE DEF Claimable
  <1>1. /\ imp'.status = "IMPORTING" /\ imp'.capture = "present" /\ captures' = captures + 1
        /\ \A l \in Layers : IF exp[l].status = "NONE"
                             THEN exp'[l].status = "REQUESTED" /\ exp'[l].attempts < MaxExportAttempts
                             ELSE exp'[l] = exp[l]
    BY FiledRows DEF FileIt, ImportInv, ImportTypeOK, DroneDeployAssumption
  <1>2. ~crossed => imp.capture = "none"
    BY DEF ImportInv, FiledHasLayers
  <1>3. OneFiling' /\ RetriesFiled'
    BY <1>1 DEF ImportInv, OneFiling, RetriesFiled
  <1>4. FiledHasLayers'
    BY <1>1, <1>2 DEF ImportInv, FiledHasLayers
  <1>5. AdvancesFiled'
    BY <1>1, <1>2 DEF ImportInv, AdvancesFiled, Advancing, Collecting
  <1>6. \A l \in Layers : LayerFiled(l)'
    BY <1>1, <1>2, LayersFiled DEF ImportInv, LayerFiled, FiledHasLayers
  <1>7. LandedHasOutput' /\ WaitingHasAttempts'
    BY <1>6 DEF LandedHasOutput, WaitingHasAttempts, LayerFiled
  <1> QED
    BY <1>3, <1>4, <1>5, <1>7 DEF FiledInv

\* The import's own status is written, by a pass or by a person.
LEMMA StatusWritten ==
    ASSUME ImportInv, NEW st \in {"UNMATCHED", "IMPORTED", "FAILED", "IGNORED"},
           imp' = [imp EXCEPT !.status = st], UNCHANGED <<exp, captures, outputs>>,
           orphaned' \subseteq orphaned, crossed' \in BOOLEAN, crossed => crossed',
           st = "UNMATCHED" => imp.status = "NONE",
           st \in {"IMPORTED", "FAILED"} => imp.capture # "none",
           st = "IGNORED" => crossed' \/ imp.status = "UNMATCHED",
           \A u \in Members : deciding'[u] = "retry" => deciding[u] = "retry",
           \A q \in Passes : FiledFor(q)' \/ (at'[q] = at[q] /\ layer'[q] = layer[q])
    PROVE  FiledInv'
  <1>1. imp'.status = st /\ imp'.capture = imp.capture
    BY ImportColumn DEF ImportInv, ImportTypeOK
  <1>2. OneFiling' /\ RetriesFiled'
    BY <1>1 DEF ImportInv, OneFiling, RetriesFiled
  <1>3. FiledHasLayers'
    BY <1>1 DEF ImportInv, FiledHasLayers
  <1>4. \A q \in Passes : FiledFor(q)'
    BY <1>1 DEF ImportInv, AdvancesFiled, FiledFor
  <1>5. AdvancesFiled'
    BY <1>4 DEF AdvancesFiled, FiledFor
  <1>6. LandedHasOutput' /\ WaitingHasAttempts'
    BY <1>1 DEF ImportInv, LandedHasOutput, WaitingHasAttempts
  <1> QED
    BY <1>2, <1>3, <1>5, <1>6 DEF FiledInv


LEMMA PassFiled ==
    ASSUME ImportInv, DroneDeployAssumption, NEW p \in Passes,
           PassStep(p) \/ ListingFails(p) \/ KeyRejected(p) \/ ImportNotRecorded(p) \/ CutPass(p)
    PROVE  FiledInv'
  <1> USE DEF GoOn, rows, pass, bounds, Cut
  <1>1. ImportTypeOK /\ FiledFor(p)
    BY PassesFiled DEF ImportInv
  <1>2. CASE StartPass(p) \/ KnownAlready(p) \/ EndExports(p)
    <2>1. /\ OnlyPass(p) /\ at'[p] \in {"list", "read", "settle"} /\ imp' = imp /\ orphaned' = orphaned
          /\ UNCHANGED <<exp, captures, outputs, crossed, deciding>>
          /\ at'[p] = "settle" => at[p] = "export"
      BY <1>1, <1>2 DEF StartPass, KnownAlready, EndExports, OnlyPass, ImportTypeOK
    <2>2. FiledFor(p)'
      BY <1>1, <2>1 DEF FiledFor, Advancing, Collecting
    <2> QED
      BY <2>1, <2>2, PassReads
  <1>3. CASE Discover(p)
    <2>1. /\ imp.status = "NONE" /\ imp' = [imp EXCEPT !.status = "UNMATCHED"]
          /\ UNCHANGED <<exp, captures, outputs, orphaned, crossed, deciding, layer>>
          /\ at'[p] \in {"file", "read"} /\ OnlyPass(p)
      BY <1>1, <1>3 DEF Discover, OnlyPass, ImportTypeOK
    <2>2. FiledFor(p)'
      BY <2>1 DEF FiledFor, Advancing, Collecting
    <2> QED
      BY <2>1, <2>2, StatusWritten DEF OnlyPass, ImportInv, ImportTypeOK
  <1>4. CASE FileMatched(p)
    <2>1. /\ at[p] = "file" /\ at' = [at EXCEPT ![p] = "read"]
          /\ UNCHANGED <<outputs, layer, orphaned, deciding, crossed>>
      BY <1>4 DEF FileMatched
    <2>2. CASE Claimable
      BY <1>1, <1>4, <2>1, <2>2, FileItFiled DEF FileMatched, ImportTypeOK, Advancing, Collecting
    <2>3. CASE ~Claimable
      BY <1>1, <1>4, <2>1, <2>3, PassReads
         DEF FileMatched, ImportTypeOK, OnlyPass, FiledFor, Advancing, Collecting
    <2> QED
      BY <2>2, <2>3
  <1>5. CASE ReadInFlight(p)
    <2>1. CASE End(p)
      BY <1>1, <1>5, <2>1, EndFacts, PassReads DEF ReadInFlight
    <2>2. CASE ~End(p)
      <3>1. /\ imp.status = "IMPORTING"
            /\ at' = [at EXCEPT ![p] = IF imp.capture = "present" THEN "export" ELSE "lost"]
            /\ orphaned' = orphaned \ {p}
            /\ UNCHANGED <<imp, exp, captures, outputs, layer, crossed, deciding>>
        BY <1>5, <2>2 DEF ReadInFlight
      <3>2. imp.capture # "none" /\ imp.capture \in {"none", "present", "gone"}
        BY <3>1 DEF ImportInv, FiledHasLayers, ImportTypeOK, Import
      <3>3. OnlyPass(p) /\ FiledFor(p)'
        BY <1>1, <3>1, <3>2 DEF OnlyPass, FiledFor, ImportTypeOK, Advancing, Collecting
      <3> QED
        BY <3>1, <3>3, PassReads
    <2> QED
      BY <2>1, <2>2
  <1>6. CASE MarkLost(p)
    <2>1. OnlyPass(p) /\ orphaned' \subseteq orphaned /\ FiledFor(p)'
      BY <1>1, <1>6, EndFacts DEF MarkLost
    <2>2. imp.capture # "none" /\ imp' = [imp EXCEPT !.status = "FAILED"]
          /\ UNCHANGED <<exp, captures, outputs, crossed, deciding>> /\ crossed \in BOOLEAN
      BY <1>1, <1>6 DEF MarkLost, FiledFor, Advancing, ImportTypeOK
    <2> QED
      BY <2>1, <2>2, StatusWritten DEF OnlyPass
  <1>7. ASSUME NEW l \in Layers, RequestExport(p, l) PROVE FiledInv'
    <2>1. at[p] = "export" /\ UNCHANGED <<imp, captures, outputs, at, layer, orphaned, deciding, crossed>>
      BY <1>7 DEF RequestExport, Reach
    <2>2. OnlyLayer(l) /\ exp'[l].status = exp[l].status /\ exp'[l].attempts = exp[l].attempts
      BY <1>1, <1>7, AskedRow DEF RequestExport, ImportTypeOK
    <2>3. LayerFiled(l) /\ exp[l].status # "NONE"
      BY <1>1, <2>1, LayersFiled DEF ImportInv, FiledFor, FiledHasLayers, Advancing, Collecting
    <2>4. \A k \in Layers : LayerMoves(k)
      BY <2>1, <2>2, <2>3 DEF OnlyLayer, LayerMoves, LayerFiled
    <2>5. OnlyPass(p) /\ FiledFor(p)' /\ \A k \in Layers : outputs'[k] \in Nat /\ outputs'[k] >= outputs[k]
      BY <1>1, <2>1 DEF OnlyPass, FiledFor, ImportTypeOK
    <2> QED
      BY <2>1, <2>4, <2>5, PassMoves
  <1>8. ASSUME NEW l \in Layers, CheckLater(p, l) PROVE FiledInv'
    BY <1>1, <1>8, PassReads DEF CheckLater, Reach, OnlyPass, FiledFor
  <1>18. ASSUME NEW l \in Layers, BeginCopy(p, l) PROVE FiledInv'
    <2>1. /\ at[p] = "export" /\ at'[p] = "copying" /\ layer'[p] = l /\ OnlyPass(p)
          /\ UNCHANGED <<imp, exp, captures, outputs, orphaned, deciding, crossed>>
      BY <1>1, <1>18 DEF BeginCopy, Reach, OnlyPass, ImportTypeOK
    <2>2. FiledFor(p)'
      BY <1>1, <2>1 DEF FiledFor, Advancing, Collecting
    <2> QED
      BY <2>1, <2>2, PassReads
  <1>9. ASSUME NEW l \in Layers, ExportFailed(p, l) PROVE FiledInv'
    <2>1. at[p] = "export" /\ UNCHANGED <<imp, captures, outputs, at, layer, orphaned, deciding, crossed>>
      BY <1>9 DEF ExportFailed, Reach
    <2>2. OnlyLayer(l) /\ exp'[l].status = "FAILED" /\ exp[l].status # "NONE"
      BY <1>1, <1>9, <2>1, MarkedLayer
         DEF ExportFailed, ImportTypeOK, ImportInv, FiledFor, FiledHasLayers, Advancing, Collecting
    <2>3. \A k \in Layers : LayerMoves(k)
      BY <2>1, <2>2 DEF OnlyLayer, LayerMoves, LayerFiled
    <2>4. OnlyPass(p) /\ FiledFor(p)' /\ \A k \in Layers : outputs'[k] \in Nat /\ outputs'[k] >= outputs[k]
      BY <1>1, <2>1 DEF OnlyPass, FiledFor, ImportTypeOK
    <2> QED
      BY <2>1, <2>3, <2>4, PassMoves
  <1>10. ASSUME NEW l \in Layers, CallFails(p, l) PROVE FiledInv'
    <2>1. at[p] = "export" /\ UNCHANGED <<imp, captures, outputs, at, layer, orphaned, deciding, crossed>>
      BY <1>10 DEF CallFails
    <2>2. \A k \in Layers : LayerMoves(k)
      BY <1>1, <1>10, <2>1, CountFiled DEF CallFails, FiledFor, Advancing, Collecting
    <2>3. OnlyPass(p) /\ FiledFor(p)' /\ \A k \in Layers : outputs'[k] \in Nat /\ outputs'[k] >= outputs[k]
      BY <1>1, <2>1 DEF OnlyPass, FiledFor, ImportTypeOK
    <2> QED
      BY <2>1, <2>2, <2>3, PassMoves
  <1>11. CASE CreateOutput(p)
    <2>1. /\ at[p] = "copying" /\ at'[p] = "copied" /\ OnlyPass(p) /\ layer[p] \in Layers
          /\ outputs' = [outputs EXCEPT ![layer[p]] = @ + 1]
          /\ UNCHANGED <<imp, exp, captures, layer, orphaned, deciding, crossed>>
      BY <1>1, <1>11 DEF CreateOutput, OnlyPass, ImportTypeOK, FiledFor
    <2>2. \A k \in Layers : outputs'[k] \in Nat /\ outputs'[k] >= outputs[k]
      BY <1>1, <2>1 DEF ImportTypeOK
    <2>3. outputs'[layer[p]] > 0
      BY <1>1, <2>1 DEF ImportTypeOK
    <2>4. FiledFor(p)'
      BY <1>1, <2>1, <2>3 DEF FiledFor, Advancing, Collecting
    <2>5. \A k \in Layers : LayerMoves(k)
      BY <2>1 DEF LayerMoves
    <2> QED
      BY <2>1, <2>2, <2>4, <2>5, PassMoves
  <1>12. CASE CopyFails(p) \/ ImportNotRecorded(p)
    <2>1. /\ at[p] \in {"copying", "copied"} /\ at'[p] = "export" /\ OnlyPass(p) /\ layer[p] \in Layers
          /\ CountError(p, layer[p])
          /\ UNCHANGED <<imp, captures, outputs, orphaned, deciding, crossed>>
      BY <1>1, <1>12 DEF CopyFails, ImportNotRecorded, Continue, OnlyPass, ImportTypeOK, FiledFor
    <2>2. imp.capture # "none"
      BY <1>1, <2>1 DEF FiledFor, Advancing, Collecting
    <2>3. \A k \in Layers : LayerMoves(k)
      BY <2>1, <2>2, CountFiled
    <2>4. FiledFor(p)' /\ \A k \in Layers : outputs'[k] \in Nat /\ outputs'[k] >= outputs[k]
      BY <1>1, <2>1, <2>2 DEF FiledFor, ImportTypeOK
    <2> QED
      BY <2>1, <2>3, <2>4, PassMoves
  <1>13. CASE RecordImported(p)
    <2>1. /\ at[p] = "copied" /\ at'[p] = "export" /\ OnlyPass(p) /\ layer[p] \in Layers
          /\ exp' = [exp EXCEPT ![layer[p]].status = "IMPORTED"]
          /\ UNCHANGED <<imp, captures, outputs, orphaned, deciding, crossed>>
      BY <1>1, <1>13 DEF RecordImported, Landed, Continue, OnlyPass, ImportTypeOK, FiledFor
    <2>2. imp.capture # "none" /\ (imp.capture = "present" /\ ~crossed => outputs[layer[p]] > 0)
      BY <1>1, <2>1 DEF FiledFor, Advancing, Collecting
    <2>3. OnlyLayer(layer[p]) /\ exp'[layer[p]].status = "IMPORTED"
      BY <1>1, <2>1, MarkedLayer DEF ImportTypeOK
    <2>4. \A k \in Layers : LayerMoves(k)
      BY <2>1, <2>2, <2>3 DEF OnlyLayer, LayerMoves, LayerFiled, ImportInv, FiledHasLayers
    <2>5. FiledFor(p)' /\ \A k \in Layers : outputs'[k] \in Nat /\ outputs'[k] >= outputs[k]
      BY <1>1, <2>1, <2>2 DEF FiledFor, ImportTypeOK
    <2> QED
      BY <2>1, <2>4, <2>5, PassMoves
  <1>14. CASE ReadSettled(p)
    <2>1. CASE End(p)
      BY <1>1, <1>14, <2>1, EndFacts, PassReads DEF ReadSettled
    <2>2. CASE ~End(p)
      <3>1. /\ at[p] = "settle" /\ at'[p] \in {"finish", "giveup"} /\ OnlyPass(p)
            /\ orphaned' = orphaned \ {p}
            /\ UNCHANGED <<imp, exp, captures, outputs, layer, crossed, deciding>>
        BY <1>1, <1>14, <2>2 DEF ReadSettled, OnlyPass, ImportTypeOK
      <3>2. FiledFor(p)'
        BY <1>1, <3>1 DEF FiledFor, Advancing, Collecting
      <3> QED
        BY <3>1, <3>2, PassReads
    <2> QED
      BY <2>1, <2>2
  <1>15. CASE Settle(p)
    <2>1. OnlyPass(p) /\ orphaned' \subseteq orphaned /\ FiledFor(p)'
      BY <1>1, <1>15, EndFacts DEF Settle
    <2>2. imp.capture # "none" /\ UNCHANGED <<exp, captures, outputs, crossed, deciding>> /\ crossed \in BOOLEAN
      BY <1>1, <1>15 DEF Settle, FiledFor, Advancing, Collecting, ImportTypeOK
    <2>3. CASE p \notin orphaned
      <3>1. PICK st \in {"IMPORTED", "FAILED"} : imp' = [imp EXCEPT !.status = st]
        BY <1>15, <2>3 DEF Settle
      <3> QED
        BY <2>1, <2>2, <3>1, StatusWritten DEF OnlyPass
    <2>4. CASE p \in orphaned
      BY <1>15, <2>1, <2>2, <2>4, PassReads DEF Settle
    <2> QED
      BY <2>3, <2>4
  <1>16. CASE ListingFails(p)
    BY <1>1, <1>16, PassReads DEF ListingFails, OnlyPass, FiledFor, ImportTypeOK, Advancing, Collecting
  <1>17. CASE CutPass(p) \/ KeyRejected(p)
    BY <1>1, <1>17, EndFacts, PassReads DEF CutPass, KeyRejected
  <1> QED
    BY <1>2, <1>3, <1>4, <1>5, <1>6, <1>7, <1>8, <1>9, <1>10, <1>11, <1>12, <1>13, <1>14, <1>15,
       <1>16, <1>17, <1>18 DEF PassStep

LEMMA PeopleFiled ==
    ASSUME ImportInv, DroneDeployAssumption,
           \/ \E u \in Members : Assign(u) \/ CheckIgnore(u) \/ Ignore(u) \/ CheckRetry(u) \/ Retry(u)
           \/ DeleteProperty
    PROVE  FiledInv'
  <1> USE DEF rows, pass, bounds
  <1>1. ImportTypeOK
    BY DEF ImportInv
  <1>2. ASSUME NEW u \in Members, Assign(u) PROVE FiledInv'
    BY <1>2, FileItFiled DEF Assign
  <1>3. ASSUME NEW u \in Members, CheckIgnore(u) \/ CheckRetry(u) PROVE FiledInv'
    <2>1. /\ UNCHANGED <<imp, exp, captures, outputs, at, layer, orphaned, crossed>>
          /\ \E to \in {"ignore", "retry"} : /\ deciding' = [deciding EXCEPT ![u] = to]
                                             /\ to = "retry" => imp.capture = "present"
      BY <1>3 DEF CheckIgnore, CheckRetry
    <2>2. RetriesFiled'
      BY <1>1, <2>1 DEF ImportInv, RetriesFiled, ImportTypeOK
    <2> QED
      BY <2>1, <2>2 DEF ImportInv, FiledInv, OneFiling, FiledHasLayers, AdvancesFiled, LandedHasOutput,
         WaitingHasAttempts
  <1>4. ASSUME NEW u \in Members, Ignore(u) PROVE FiledInv'
    <2>1. /\ imp' = [imp EXCEPT !.status = "IGNORED"] /\ crossed' = (crossed \/ imp.status # "UNMATCHED")
          /\ deciding' = [deciding EXCEPT ![u] = "nothing"]
          /\ UNCHANGED <<exp, captures, outputs, at, layer, orphaned>>
      BY <1>4 DEF Ignore
    <2>2. crossed' \in BOOLEAN /\ \A v \in Members : deciding'[v] = "retry" => deciding[v] = "retry"
      BY <1>1, <2>1 DEF ImportTypeOK
    <2> QED
      BY <2>1, <2>2, StatusWritten
  <1>5. ASSUME NEW u \in Members, Retry(u) PROVE FiledInv'
    <2>1. /\ deciding[u] = "retry" /\ exp' = QueuedAgain /\ imp' = [imp EXCEPT !.status = "IMPORTING"]
          /\ deciding' = [deciding EXCEPT ![u] = "nothing"]
          /\ UNCHANGED <<captures, outputs, at, layer, orphaned, crossed>>
      BY <1>5 DEF Retry
    <2>2. imp.capture = "present" /\ imp'.capture = "present" /\ imp'.status = "IMPORTING"
      BY <1>1, <2>1, ImportColumn DEF ImportInv, RetriesFiled, ImportTypeOK
    <2>3. \A l \in Layers : IF exp[l].status = "FAILED"
                            THEN exp'[l].status = "REQUESTED" /\ exp'[l].attempts < MaxExportAttempts
                            ELSE exp'[l] = exp[l]
      BY <1>1, <2>1, QueuedRows DEF ImportTypeOK, DroneDeployAssumption
    <2>4. \A l \in Layers : LayerFiled(l)'
      BY <2>1, <2>2, <2>3, LayersFiled DEF ImportInv, LayerFiled
    <2>5. OneFiling' /\ RetriesFiled' /\ AdvancesFiled'
      BY <1>1, <2>1, <2>2 DEF ImportInv, OneFiling, RetriesFiled, AdvancesFiled, ImportTypeOK
    <2>6. FiledHasLayers'
      BY <2>1, <2>2, <2>3 DEF ImportInv, FiledHasLayers
    <2> QED
      BY <2>4, <2>5, <2>6 DEF FiledInv, LandedHasOutput, WaitingHasAttempts, LayerFiled
  <1>6. CASE DeleteProperty
    <2>1. /\ imp.capture = "present" /\ imp'.capture = "gone" /\ imp'.status = imp.status
          /\ captures' = 0 /\ UNCHANGED <<exp, at, layer, crossed>>
          /\ \A u \in Members : deciding'[u] # "retry"
      BY <1>1, <1>6, CaptureColumn DEF DeleteProperty, ImportInv, OneFiling, ImportTypeOK
    <2>2. OneFiling' /\ RetriesFiled' /\ FiledHasLayers'
      BY <2>1 DEF OneFiling, RetriesFiled, ImportInv, FiledHasLayers
    <2>3. AdvancesFiled'
      BY <2>1 DEF ImportInv, AdvancesFiled
    <2> QED
      BY <2>1, <2>2, <2>3 DEF FiledInv, ImportInv, LandedHasOutput, WaitingHasAttempts
  <1> QED
    BY <1>2, <1>3, <1>4, <1>5, <1>6


LEMMA ImportStep ==
    ASSUME DroneDeployAssumption, ImportInv, [ImportNext]_importVars PROVE ImportInv'
  <1>1. ImportTypeOK /\ AdvancesFiled /\ OneFiling
    BY DEF ImportInv
  <1>2. ASSUME NEW p \in Passes, PassStep(p) \/ ListingFails(p) \/ KeyRejected(p) \/ ImportNotRecorded(p) \/ CutPass(p)
        PROVE  ImportInv'
    BY <1>1, <1>2, PassTypeOK, PassFiled DEF ImportInv, FiledInv
  <1>3. CASE \/ \E u \in Members : Assign(u) \/ CheckIgnore(u) \/ Ignore(u) \/ CheckRetry(u) \/ Retry(u)
             \/ DeleteProperty
    BY <1>1, <1>3, PeopleTypeOK, PeopleFiled DEF ImportInv, FiledInv
  <1>4. CASE UNCHANGED importVars
    BY <1>4 DEF importVars, ImportInv, ImportTypeOK, OneFiling, FiledHasLayers, AdvancesFiled, RetriesFiled,
       LandedHasOutput, WaitingHasAttempts
  <1>5. CASE Turn
    BY <1>5 DEF Turn, rows, pass, ImportInv, ImportTypeOK, OneFiling, FiledHasLayers, AdvancesFiled, RetriesFiled,
       LandedHasOutput, WaitingHasAttempts
  <1> QED
    BY <1>2, <1>3, <1>4, <1>5 DEF ImportNext

-----------------------------------------------------------------------------
(* The import: what is copied, as long as no two passes overlap.            *)

PassActs(p) == PassStep(p) \/ ListingFails(p) \/ KeyRejected(p) \/ ImportNotRecorded(p) \/ CutPass(p)

LeftFor(p) ==
    /\ at[p] \notin Collecting \cup {"lost"} => left[p] = {}
    /\ \A l \in left[p] : exp[l].status = "REQUESTED"
    /\ at[p] \in {"copying", "copied"} => exp[layer[p]].status = "REQUESTED" /\ layer[p] \notin left[p]

\* The outputs of a layer, if there is no pass but p.
CountFor(p, l) ==
    /\ outputs[l] <= 1 + cutOff
    /\ exp[l].status # "IMPORTED" /\ ~(at[p] = "copied" /\ layer[p] = l) => outputs[l] <= cutOff

\* The other passes are idle, and stay so.
LEMMA OthersIdle ==
    ASSUME ImportTypeOK, OnePass, OnePass', NEW p \in Passes, PassActs(p)
    PROVE  \A q \in Passes \ {p} : at[q] = "idle" /\ at'[q] = "idle" /\ left'[q] = left[q]
  <1>1. at[p] # "idle" \/ at'[p] # "idle"
    BY DEF PassActs, PassStep, StartPass, Discover, KnownAlready, FileMatched, ReadInFlight,
       MarkLost, RequestExport, CheckLater, ExportFailed, BeginCopy, CallFails, Reach,
       CreateOutput, CopyFails, RecordImported, EndExports, ReadSettled, Settle,
       ListingFails, KeyRejected, ImportNotRecorded, CutPass, GoOn, ImportTypeOK
  <1>2. /\ \E to : at' = [at EXCEPT ![p] = to]
        /\ \E rest : left' = left \/ left' = [left EXCEPT ![p] = rest]
    BY DEF PassActs, PassStep, StartPass, Discover, KnownAlready, FileMatched, ReadInFlight,
       MarkLost, RequestExport, CheckLater, ExportFailed, BeginCopy, CallFails, Reach,
       CreateOutput, CopyFails, RecordImported, EndExports, ReadSettled, Settle,
       ListingFails, KeyRejected, ImportNotRecorded, CutPass, GoOn, ImportTypeOK, End, Continue, rows
  <1>3. \A q \in Passes \ {p} : at'[q] = at[q] /\ left'[q] = left[q]
    BY <1>2 DEF ImportTypeOK
  <1> QED
    BY <1>1, <1>3 DEF OnePass

LEMMA EndCounts ==
    ASSUME OnePassInv, NEW p \in Passes, \A l \in Layers : CountFor(p, l), End(p), UNCHANGED <<exp, outputs>>,
           \/ cutOff' = cutOff /\ at[p] # "copied"
           \/ cutOff' = cutOff + 1
    PROVE  LeftFor(p)' /\ \A l \in Layers : CountFor(p, l)'
  <1>1. at'[p] = "idle" /\ left'[p] = {}
    BY DEF End, GoOn, OnePassInv, ImportInv, ImportTypeOK
  <1>2. \A l \in Layers : outputs[l] \in Nat /\ cutOff \in Nat
    BY DEF OnePassInv, ImportInv, ImportTypeOK
  <1>3. \A l \in Layers : CountFor(p, l)'
    BY <1>1, <1>2 DEF CountFor
  <1> QED
    BY <1>1, <1>3 DEF LeftFor, Collecting

LEMMA PassCounts ==
    ASSUME OnePassInv, DroneDeployAssumption, NEW p \in Passes, PassActs(p),
           \A l \in Layers : CountFor(p, l)
    PROVE  LeftFor(p)' /\ \A l \in Layers : CountFor(p, l)'
  <1> USE DEF GoOn, rows, pass, bounds, Cut
  <1>1. ImportTypeOK /\ LeftFor(p) /\ FiledFor(p)
    BY PassesFiled DEF OnePassInv, ImportInv, LeftIsWaiting, LeftFor
  <1>2. cutOff \in Nat /\ \A l \in Layers : outputs[l] \in Nat
    BY <1>1 DEF ImportTypeOK
  <1>3. ASSUME NEW l \in Layers, CountError(p, l)
        PROVE  OnlyLayer(l) /\ exp'[l].status \in {exp[l].status, "FAILED"}
    <2>1. snap[p][l].attempts + 1 \in Nat
      BY <1>1 DEF ImportTypeOK, Export
    <2> QED
      BY <1>1, <1>3, <2>1, CountedRow DEF ImportTypeOK, CountError, DroneDeployAssumption
  <1>4. CASE StartPass(p) \/ KnownAlready(p) \/ Discover(p) \/ EndExports(p)
    <2>1. /\ at'[p] \in {"list", "read", "file", "settle"} /\ at[p] # "copied" /\ left[p] = {}
          /\ UNCHANGED <<exp, outputs, left, layer, cutOff>>
      BY <1>1, <1>4 DEF StartPass, KnownAlready, Discover, EndExports, ImportTypeOK, LeftFor, Collecting
    <2> QED
      BY <2>1 DEF LeftFor, CountFor, Collecting
  <1>5. CASE FileMatched(p)
    <2>1. /\ at[p] = "file" /\ at'[p] = "read" /\ left[p] = {} /\ left' = left /\ outputs' = outputs /\ cutOff' = cutOff
      BY <1>1, <1>5 DEF FileMatched, ImportTypeOK, LeftFor, Collecting
    <2>2. \A l \in Layers : exp[l].status = "IMPORTED" => exp'[l].status = "IMPORTED"
      BY <1>5 DEF FileMatched, FileIt
    <2> QED
      BY <2>1, <2>2 DEF LeftFor, CountFor, Collecting
  <1>6. CASE ReadInFlight(p)
    <2>1. CASE End(p)
      BY <1>1, <1>6, <2>1, EndCounts DEF ReadInFlight
    <2>2. CASE ~End(p)
      <3>1. /\ at[p] = "read" /\ at'[p] \in {"export", "lost"} /\ UNCHANGED <<exp, outputs, cutOff>>
            /\ left'[p] = {l \in Layers : exp[l].status = "REQUESTED"}
        BY <1>1, <1>6, <2>2 DEF ReadInFlight, ImportTypeOK
      <3> QED
        BY <3>1 DEF LeftFor, CountFor, Collecting
    <2> QED
      BY <2>1, <2>2
  <1>7. CASE MarkLost(p) \/ Settle(p)
    BY <1>7, EndCounts DEF MarkLost, Settle
  <1>8. CASE CutPass(p) \/ KeyRejected(p)
    BY <1>8, EndCounts DEF CutPass, KeyRejected
  <1>9. ASSUME NEW l \in Layers, RequestExport(p, l) \/ CheckLater(p, l) \/ ExportFailed(p, l) \/ CallFails(p, l)
        PROVE  LeftFor(p)' /\ \A k \in Layers : CountFor(p, k)'
    <2>1. /\ at[p] = "export" /\ l \in left[p] /\ left'[p] \subseteq left[p] \ {l}
          /\ UNCHANGED <<at, layer, outputs, cutOff>>
      BY <1>1, <1>9 DEF RequestExport, CheckLater, ExportFailed, CallFails, Reach, ImportTypeOK
    <2>2. exp[l].status = "REQUESTED"
      BY <1>1, <2>1 DEF LeftFor
    <2>3. OnlyLayer(l)
      BY <1>1, <1>3, <1>9, AskedRow, MarkedLayer
         DEF RequestExport, CheckLater, ExportFailed, CallFails, OnlyLayer, ImportTypeOK
    <2>4. left[p] \subseteq Layers
      BY <1>1 DEF ImportTypeOK
    <2>5. LeftFor(p)'
      BY <1>1, <2>1, <2>3, <2>4 DEF LeftFor, OnlyLayer, Collecting
    <2>6. \A k \in Layers : CountFor(p, k)'
      BY <2>1, <2>2, <2>3 DEF CountFor, OnlyLayer
    <2> QED
      BY <2>5, <2>6
  <1>10. ASSUME NEW l \in Layers, BeginCopy(p, l) PROVE LeftFor(p)' /\ \A k \in Layers : CountFor(p, k)'
    <2>1. /\ at[p] = "export" /\ at'[p] = "copying" /\ layer'[p] = l /\ l \in left[p] /\ left'[p] = left[p] \ {l}
          /\ UNCHANGED <<exp, outputs, cutOff>>
      BY <1>1, <1>10 DEF BeginCopy, Reach, ImportTypeOK
    <2> QED
      BY <1>1, <2>1 DEF LeftFor, CountFor, Collecting
  <1>11. CASE CreateOutput(p)
    <2>1. /\ at[p] = "copying" /\ at'[p] = "copied" /\ layer[p] \in Layers
          /\ outputs' = [outputs EXCEPT ![layer[p]] = @ + 1] /\ UNCHANGED <<exp, left, layer, cutOff>>
      BY <1>1, <1>11 DEF CreateOutput, ImportTypeOK, FiledFor
    <2>2. exp[layer[p]].status = "REQUESTED"
      BY <1>1, <2>1 DEF LeftFor
    <2>3. outputs[layer[p]] <= cutOff
      BY <2>1, <2>2 DEF CountFor
    <2>4. LeftFor(p)'
      BY <1>1, <2>1 DEF LeftFor, Collecting
    <2>5. ASSUME NEW k \in Layers PROVE CountFor(p, k)'
      <3>1. outputs'[k] = IF k = layer[p] THEN outputs[k] + 1 ELSE outputs[k]
        BY <1>1, <2>1 DEF ImportTypeOK
      <3> QED
        BY <1>2, <2>1, <2>3, <3>1 DEF CountFor
    <2> QED
      BY <2>4, <2>5
  <1>12. CASE CopyFails(p) \/ ImportNotRecorded(p)
    <2>1. /\ at[p] \in {"copying", "copied"} /\ at'[p] = "export" /\ layer[p] \in Layers
          /\ CountError(p, layer[p]) /\ UNCHANGED <<outputs, left>>
          /\ \/ at[p] = "copying" /\ cutOff' = cutOff
             \/ cutOff' = cutOff + 1
      BY <1>1, <1>12 DEF CopyFails, ImportNotRecorded, Continue, ImportTypeOK, FiledFor
    <2>2. OnlyLayer(layer[p]) /\ exp[layer[p]].status = "REQUESTED" /\ layer[p] \notin left[p]
      BY <1>1, <1>3, <2>1 DEF LeftFor
    <2>3. left[p] \subseteq Layers
      BY <1>1 DEF ImportTypeOK
    <2>4. LeftFor(p)'
      BY <1>1, <2>1, <2>2, <2>3 DEF LeftFor, OnlyLayer, Collecting
    <2>5. \A k \in Layers : CountFor(p, k)'
      BY <1>2, <2>1, <2>2 DEF CountFor, OnlyLayer
    <2> QED
      BY <2>4, <2>5
  <1>13. CASE RecordImported(p)
    <2>1. /\ at[p] = "copied" /\ at'[p] = "export" /\ layer[p] \in Layers
          /\ exp' = [exp EXCEPT ![layer[p]].status = "IMPORTED"] /\ UNCHANGED <<outputs, left, cutOff>>
      BY <1>1, <1>13 DEF RecordImported, Landed, Continue, ImportTypeOK, FiledFor
    <2>2. OnlyLayer(layer[p]) /\ exp'[layer[p]].status = "IMPORTED"
      BY <1>1, <2>1, MarkedLayer DEF ImportTypeOK
    <2>3. left[p] \subseteq Layers \ {layer[p]}
      BY <1>1, <2>1 DEF ImportTypeOK, LeftFor
    <2>4. LeftFor(p)'
      BY <1>1, <2>1, <2>2, <2>3 DEF LeftFor, OnlyLayer, Collecting
    <2>5. \A k \in Layers : CountFor(p, k)'
      BY <1>2, <2>1, <2>2 DEF CountFor, OnlyLayer
    <2> QED
      BY <2>4, <2>5
  <1>14. CASE ReadSettled(p)
    <2>1. CASE End(p)
      BY <1>1, <1>14, <2>1, EndCounts DEF ReadSettled
    <2>2. CASE ~End(p)
      <3>1. /\ at[p] = "settle" /\ at'[p] \in {"finish", "giveup"} /\ UNCHANGED <<exp, outputs, left, cutOff>>
        BY <1>1, <1>14, <2>2 DEF ReadSettled, ImportTypeOK
      <3> QED
        BY <1>1, <3>1 DEF LeftFor, CountFor, Collecting
    <2> QED
      BY <2>1, <2>2
  <1>15. CASE ListingFails(p)
    <2>1. /\ at[p] \in {"list", "file"} /\ at'[p] = "read" /\ UNCHANGED <<exp, outputs, left, cutOff>>
      BY <1>1, <1>15 DEF ListingFails, ImportTypeOK
    <2> QED
      BY <1>1, <1>2, <2>1 DEF LeftFor, CountFor, Collecting
  <1> QED
    BY <1>4, <1>5, <1>6, <1>7, <1>8, <1>9, <1>10, <1>11, <1>12, <1>13, <1>14, <1>15 DEF PassActs, PassStep


\* Members, and a purge, leave what a pass has to collect.
LEMMA PeopleCount ==
    ASSUME OnePassInv, DroneDeployAssumption,
           \/ \E u \in Members : Assign(u) \/ CheckIgnore(u) \/ Ignore(u) \/ CheckRetry(u) \/ Retry(u)
           \/ DeleteProperty
    PROVE  LeftIsWaiting' /\ OutputsCounted'
  <1>1. ImportTypeOK /\ AdvancesFiled
    BY DEF OnePassInv, ImportInv
  <1>2. UNCHANGED <<at, left, layer, cutOff>>
    BY DEF Assign, CheckIgnore, Ignore, CheckRetry, Retry, DeleteProperty, rows, pass, bounds
  <1>3. \A l \in Layers : outputs'[l] = outputs[l] \/ outputs'[l] = 0
    BY DEF Assign, CheckIgnore, Ignore, CheckRetry, Retry, DeleteProperty, rows, pass, bounds
  <1>4. \A l \in Layers : /\ exp[l].status = "REQUESTED" => exp'[l].status = "REQUESTED"
                          /\ exp[l].status = "IMPORTED" => exp'[l].status = "IMPORTED"
    BY DEF Assign, CheckIgnore, Ignore, CheckRetry, Retry, DeleteProperty, rows, pass, bounds,
       FileIt, QueuedAgain
  <1>5. \A p \in Passes : /\ left[p] \subseteq Layers
                          /\ at[p] \in {"copying", "copied"} => layer[p] \in Layers
    BY <1>1 DEF ImportTypeOK, AdvancesFiled
  <1>6. LeftIsWaiting'
    BY <1>2, <1>4, <1>5 DEF OnePassInv, LeftIsWaiting
  <1>7. cutOff \in Nat /\ \A l \in Layers : outputs[l] \in Nat
    BY <1>1 DEF ImportTypeOK
  <1>8. OutputsCounted'
    BY <1>2, <1>3, <1>4, <1>7 DEF OnePassInv, OutputsCounted
  <1> QED
    BY <1>6, <1>8

LEMMA OnePassStep ==
    ASSUME DroneDeployAssumption, OnePassInv, OnePass, OnePass', [ImportNext]_importVars PROVE OnePassInv'
  <1>1. ImportInv'
    BY ImportStep DEF OnePassInv
  <1>2. ImportTypeOK
    BY DEF OnePassInv, ImportInv
  <1>3. ASSUME NEW p \in Passes, PassActs(p) PROVE LeftIsWaiting' /\ OutputsCounted'
    <2>1. \A q \in Passes \ {p} : at[q] = "idle" /\ at'[q] = "idle" /\ left'[q] = left[q]
      BY <1>2, <1>3, OthersIdle
    <2>2. \A l \in Layers : CountFor(p, l)
      BY <2>1 DEF OnePassInv, OutputsCounted, CountFor
    <2>3. LeftFor(p)' /\ \A l \in Layers : CountFor(p, l)'
      BY <1>3, <2>2, PassCounts
    <2>4. \A q \in Passes \ {p} : left'[q] = {}
      BY <2>1 DEF OnePassInv, LeftIsWaiting, Collecting
    <2>5. LeftIsWaiting'
      BY <2>1, <2>3, <2>4 DEF LeftIsWaiting, LeftFor
    <2>6. OutputsCounted'
      BY <2>1, <2>3 DEF OutputsCounted, CountFor
    <2> QED
      BY <2>5, <2>6
  <1>4. CASE \/ \E u \in Members : Assign(u) \/ CheckIgnore(u) \/ Ignore(u) \/ CheckRetry(u) \/ Retry(u)
             \/ DeleteProperty
    BY <1>1, <1>4, PeopleCount DEF OnePassInv
  <1>5. CASE UNCHANGED importVars
    BY <1>1, <1>5 DEF importVars, OnePassInv, LeftIsWaiting, OutputsCounted
  <1>6. CASE Turn
    BY <1>1, <1>6 DEF Turn, rows, pass, OnePassInv, LeftIsWaiting, OutputsCounted
  <1> QED
    BY <1>1, <1>3, <1>4, <1>5, <1>6 DEF ImportNext, PassActs, OnePassInv

-----------------------------------------------------------------------------
(* The import: how it ends, as long as neither passes nor retries overlap.  *)

OpenFor(p) ==
    /\ at[p] \in Advancing => imp.status \in {"IMPORTING", "IGNORED"}
    /\ at[p] \in {"finish", "giveup"} => \A l \in Layers : exp[l].status \in {"IMPORTED", "FAILED"}
    /\ at[p] = "giveup" => \A l \in Layers : exp[l].status = "FAILED"

EndsInv == AdvancesOpen /\ RetriesFailed /\ SettledIsComplete

\* A pass that changes neither the status nor a retry.
LEMMA StatusStays ==
    ASSUME SettledInv, NEW p \in Passes, \A q \in Passes \ {p} : at[q] = "idle" /\ at'[q] = "idle",
           UNCHANGED <<imp, crossed, deciding>>, OpenFor(p)',
           \/ exp' = exp
           \/ at[p] \in Advancing,
           at'[p] \in Advancing => at[p] \in Advancing \/ imp.status = "IMPORTING"
    PROVE  EndsInv'
  <1>1. OpenFor(p)
    BY DEF SettledInv, AdvancesOpen, OpenFor
  <1>2. AdvancesOpen'
    BY DEF AdvancesOpen, OpenFor, Advancing, Collecting
  <1>3. RetriesFailed'
    BY DEF SettledInv, RetriesFailed, Advancing, Collecting
  <1>4. SettledIsComplete'
    BY <1>1 DEF SettledInv, OpenFor, SettledIsComplete
  <1> QED
    BY <1>2, <1>3, <1>4 DEF EndsInv

LEMMA PassEnds ==
    ASSUME SettledInv, DroneDeployAssumption, NEW p \in Passes, PassActs(p),
           \A q \in Passes \ {p} : at[q] = "idle" /\ at'[q] = "idle"
    PROVE  EndsInv'
  <1> USE DEF GoOn, rows, pass, bounds, Cut
  <1>1. ImportTypeOK /\ OpenFor(p) /\ FiledFor(p) /\ ImportInv
    BY PassesFiled DEF SettledInv, OnePassInv, ImportInv, AdvancesOpen, OpenFor
  <1>2. End(p) => at'[p] = "idle" /\ OpenFor(p)'
    BY <1>1 DEF End, ImportTypeOK, OpenFor, Advancing, Collecting
  <1>3. CASE StartPass(p) \/ KnownAlready(p)
    <2>1. /\ at'[p] \in {"list", "read"} /\ UNCHANGED <<imp, exp, crossed, deciding>>
      BY <1>1, <1>3 DEF StartPass, KnownAlready, ImportTypeOK
    <2>2. OpenFor(p)' /\ at'[p] \notin Advancing
      BY <2>1 DEF OpenFor, Advancing, Collecting
    <2> QED
      BY <2>1, <2>2, StatusStays
  <1>4. CASE Discover(p) \/ FileMatched(p)
    <2>1. /\ at'[p] \in {"read", "file"} /\ UNCHANGED <<crossed, deciding>>
      BY <1>1, <1>4 DEF Discover, FileMatched, ImportTypeOK
    <2>2. CASE imp' = imp /\ exp' = exp
      <3>1. OpenFor(p)' /\ at'[p] \notin Advancing
        BY <2>1 DEF OpenFor, Advancing, Collecting
      <3> QED
        BY <2>1, <2>2, <3>1, StatusStays
    <2>3. CASE ~(imp' = imp /\ exp' = exp)
      <3>1. /\ imp.status \in {"NONE", "UNMATCHED", "IGNORED"} /\ imp'.status \in {"UNMATCHED", "IMPORTING"}
            /\ imp.status = "IGNORED" => imp.capture # "present"
        BY <1>1, <1>4, <2>3 DEF Discover, FileMatched, Claimable, FileIt, ImportTypeOK, Import
      <3>2. \A u \in Members : deciding[u] # "retry"
        BY <3>1 DEF SettledInv, OnePassInv, ImportInv, RetriesFailed, RetriesFiled
      <3>3. AdvancesOpen'
        BY <2>1 DEF AdvancesOpen, Advancing, Collecting
      <3> QED
        BY <2>1, <3>1, <3>2, <3>3 DEF EndsInv, RetriesFailed, SettledIsComplete
    <2> QED
      BY <2>2, <2>3
  <1>5. CASE ReadInFlight(p)
    <2>1. CASE End(p)
      BY <1>2, <1>5, <2>1, StatusStays DEF ReadInFlight, Advancing, Collecting
    <2>2. CASE ~End(p)
      <3>1. /\ at'[p] \in {"export", "lost"} /\ imp.status = "IMPORTING" /\ UNCHANGED <<imp, exp, crossed, deciding>>
        BY <1>1, <1>5, <2>2 DEF ReadInFlight, ImportTypeOK
      <3>2. OpenFor(p)'
        BY <3>1 DEF OpenFor
      <3> QED
        BY <3>1, <3>2, StatusStays
    <2> QED
      BY <2>1, <2>2
  <1>6. CASE MarkLost(p)
    <2>1. /\ at[p] = "lost" /\ imp'.status = "FAILED" /\ imp'.capture = imp.capture
          /\ UNCHANGED <<exp, crossed, deciding>>
      BY <1>1, <1>6, ImportColumn DEF MarkLost, ImportTypeOK
    <2>2. at'[p] = "idle"
      BY <1>2, <1>6 DEF MarkLost
    <2>3. crossed \/ imp.capture = "gone"
      BY <1>1, <2>1 DEF FiledFor
    <2>4. AdvancesOpen' /\ RetriesFailed'
      BY <2>1, <2>2 DEF AdvancesOpen, SettledInv, RetriesFailed, Advancing, Collecting
    <2> QED
      BY <2>1, <2>3, <2>4 DEF EndsInv, SettledIsComplete
  <1>7. CASE Settle(p)
    <2>1. at'[p] = "idle" /\ at[p] \in {"finish", "giveup"} /\ UNCHANGED <<exp, crossed, deciding>>
      BY <1>2, <1>7 DEF Settle
    <2>2. CASE p \in orphaned
      BY <1>2, <1>7, <2>1, <2>2, StatusStays DEF Settle, Advancing, Collecting
    <2>3. CASE p \notin orphaned
      <3>1. PICK st \in {"IMPORTED", "FAILED"} :
               /\ imp' = [imp EXCEPT !.status = st]
               /\ st = "FAILED" => at[p] = "giveup"
        BY <1>7, <2>1, <2>3 DEF Settle
      <3>2. imp'.status = st
        BY <1>1, <3>1, ImportColumn DEF ImportTypeOK
      <3>3. \A u \in Members : deciding[u] # "retry"
        BY <2>1 DEF SettledInv, RetriesFailed, Advancing, Collecting
      <3>4. SettledIsComplete'
        BY <1>1, <2>1, <3>1, <3>2 DEF OpenFor, SettledIsComplete
      <3>5. AdvancesOpen' /\ RetriesFailed'
        BY <2>1, <3>3 DEF AdvancesOpen, RetriesFailed, Advancing, Collecting
      <3> QED
        BY <3>4, <3>5 DEF EndsInv
    <2> QED
      BY <2>2, <2>3
  <1>8. CASE CutPass(p) \/ KeyRejected(p)
    BY <1>2, <1>8, StatusStays DEF CutPass, KeyRejected, Advancing, Collecting
  <1>9. CASE \/ \E l \in Layers : \/ RequestExport(p, l) \/ CheckLater(p, l) \/ ExportFailed(p, l)
                                  \/ BeginCopy(p, l) \/ CallFails(p, l)
             \/ CreateOutput(p) \/ CopyFails(p) \/ RecordImported(p) \/ ImportNotRecorded(p)
             \/ EndExports(p)
    <2>1. /\ at[p] \in Collecting /\ at'[p] \in Collecting \cup {"settle"} /\ UNCHANGED <<imp, crossed, deciding>>
      BY <1>1, <1>9 DEF RequestExport, CheckLater, ExportFailed, BeginCopy, CallFails, Reach,
         CreateOutput, CopyFails, RecordImported, ImportNotRecorded, EndExports, Continue,
         ImportTypeOK, Collecting
    <2>2. at[p] \in Advancing /\ OpenFor(p)'
      BY <1>1, <2>1 DEF OpenFor, Advancing, Collecting
    <2> QED
      BY <2>1, <2>2, StatusStays
  <1>10. CASE ReadSettled(p)
    <2>1. CASE End(p)
      BY <1>2, <1>10, <2>1, StatusStays DEF ReadSettled, Advancing, Collecting
    <2>2. CASE ~End(p)
      <3>1. /\ at[p] = "settle" /\ at' = [at EXCEPT ![p] = IF SomeLanded THEN "finish" ELSE "giveup"]
            /\ imp.status = "IMPORTING" /\ imp.capture = "present" /\ AllDone
            /\ UNCHANGED <<imp, exp, crossed, deciding>>
        BY <1>10, <2>2 DEF ReadSettled
      <3>2. \A l \in Layers : exp[l].status \in {"IMPORTED", "FAILED"}
        BY <1>1, <3>1 DEF AllDone, ImportInv, FiledHasLayers, ImportTypeOK, Export
      <3>3. OpenFor(p)'
        BY <1>1, <3>1, <3>2 DEF OpenFor, SomeLanded, ImportTypeOK
      <3>4. at[p] \in Advancing
        BY <3>1 DEF Advancing
      <3> QED
        BY <3>1, <3>3, <3>4, StatusStays
    <2> QED
      BY <2>1, <2>2
  <1>11. CASE ListingFails(p)
    <2>1. at'[p] \notin Advancing /\ UNCHANGED <<imp, exp, crossed, deciding>>
      BY <1>1, <1>2, <1>11 DEF ListingFails, ImportTypeOK, Advancing, Collecting
    <2>2. OpenFor(p)'
      BY <2>1 DEF OpenFor, Advancing, Collecting
    <2> QED
      BY <2>1, <2>2, StatusStays
  <1> QED
    BY <1>3, <1>4, <1>5, <1>6, <1>7, <1>8, <1>9, <1>10, <1>11 DEF PassActs, PassStep

LEMMA PeopleEnd ==
    ASSUME SettledInv, DroneDeployAssumption, OneRetry, OneRetry',
           \/ \E u \in Members : Assign(u) \/ CheckIgnore(u) \/ Ignore(u) \/ CheckRetry(u) \/ Retry(u)
           \/ DeleteProperty
    PROVE  EndsInv'
  <1> USE DEF rows, pass, bounds
  <1>1. ImportTypeOK /\ ImportInv
    BY DEF SettledInv, OnePassInv, ImportInv
  <1>2. ASSUME NEW u \in Members, Assign(u) PROVE EndsInv'
    <2>1. /\ Claimable /\ imp'.status = "IMPORTING" /\ UNCHANGED <<at, deciding, crossed>>
          /\ \A l \in Layers : exp[l].status # "NONE" => exp'[l] = exp[l]
      BY <1>2 DEF Assign, FileIt
    <2>2. \A v \in Members : deciding[v] # "retry"
      BY <1>1, <2>1 DEF Claimable, ImportInv, RetriesFiled
    <2>3. AdvancesOpen'
      BY <1>1, <2>1 DEF SettledInv, AdvancesOpen, ImportInv, AdvancesFiled, FiledHasLayers, Advancing, Collecting
    <2> QED
      BY <2>1, <2>2, <2>3 DEF EndsInv, RetriesFailed, SettledIsComplete
  <1>3. ASSUME NEW u \in Members, CheckIgnore(u) PROVE EndsInv'
    <2>1. UNCHANGED <<imp, exp, at, crossed>> /\ deciding' = [deciding EXCEPT ![u] = "ignore"]
      BY <1>3 DEF CheckIgnore
    <2>2. \A v \in Members : deciding'[v] = "retry" => deciding[v] = "retry"
      BY <1>1, <2>1 DEF ImportTypeOK
    <2> QED
      BY <2>1, <2>2 DEF SettledInv, EndsInv, AdvancesOpen, RetriesFailed, SettledIsComplete
  <1>4. ASSUME NEW u \in Members, CheckRetry(u) PROVE EndsInv'
    <2>1. /\ UNCHANGED <<imp, exp, at, crossed>> /\ deciding' = [deciding EXCEPT ![u] = "retry"]
          /\ imp.status = "FAILED"
      BY <1>4 DEF CheckRetry
    <2>2. \A p \in Passes : at[p] \notin Advancing
      BY <2>1 DEF SettledInv, AdvancesOpen
    <2>3. RetriesFailed'
      BY <2>1, <2>2 DEF RetriesFailed
    <2> QED
      BY <2>1, <2>3 DEF SettledInv, EndsInv, AdvancesOpen, SettledIsComplete
  <1>5. ASSUME NEW u \in Members, Ignore(u) PROVE EndsInv'
    <2>1. /\ imp'.status = "IGNORED" /\ deciding' = [deciding EXCEPT ![u] = "nothing"] /\ UNCHANGED <<exp, at>>
      BY <1>1, <1>5, ImportColumn DEF Ignore, ImportTypeOK
    <2>2. \A v \in Members : deciding'[v] = "retry" => deciding[v] = "retry"
      BY <1>1, <2>1 DEF ImportTypeOK
    <2> QED
      BY <2>1, <2>2 DEF SettledInv, EndsInv, AdvancesOpen, RetriesFailed, SettledIsComplete
  <1>6. ASSUME NEW u \in Members, Retry(u) PROVE EndsInv'
    <2>1. /\ deciding[u] = "retry" /\ imp'.status = "IMPORTING" /\ UNCHANGED at
          /\ deciding' = [deciding EXCEPT ![u] = "nothing"]
      BY <1>1, <1>6, ImportColumn DEF Retry, ImportTypeOK
    <2>2. \A p \in Passes : at[p] \notin Advancing
      BY <2>1 DEF SettledInv, RetriesFailed
    <2>3. \A v \in Members : deciding'[v] # "retry"
      BY <1>1, <2>1 DEF OneRetry, ImportTypeOK
    <2> QED
      BY <2>1, <2>2, <2>3 DEF EndsInv, AdvancesOpen, RetriesFailed, SettledIsComplete, Advancing, Collecting
  <1>7. CASE DeleteProperty
    <2>1. /\ imp'.status = imp.status /\ imp'.capture = "gone" /\ UNCHANGED <<exp, at, crossed>>
          /\ \A u \in Members : deciding'[u] # "retry"
      BY <1>1, <1>7, CaptureColumn DEF DeleteProperty, ImportTypeOK
    <2> QED
      BY <2>1 DEF SettledInv, EndsInv, AdvancesOpen, RetriesFailed, SettledIsComplete
  <1> QED
    BY <1>2, <1>3, <1>4, <1>5, <1>6, <1>7

LEMMA SettledStep ==
    ASSUME DroneDeployAssumption, SettledInv, OnePass, OnePass', OneRetry, OneRetry', [ImportNext]_importVars
    PROVE  SettledInv'
  <1>1. OnePassInv'
    BY OnePassStep DEF SettledInv
  <1>2. ASSUME NEW p \in Passes, PassActs(p) PROVE EndsInv'
    <2>1. ImportTypeOK
      BY DEF SettledInv, OnePassInv, ImportInv
    <2> QED
      BY <1>2, <2>1, OthersIdle, PassEnds
  <1>3. ASSUME \/ \E u \in Members : Assign(u) \/ CheckIgnore(u) \/ Ignore(u) \/ CheckRetry(u) \/ Retry(u)
               \/ DeleteProperty
        PROVE  EndsInv'
    BY <1>3, PeopleEnd
  <1>4. ASSUME UNCHANGED importVars PROVE EndsInv'
    BY <1>4 DEF importVars, SettledInv, EndsInv, AdvancesOpen, RetriesFailed, SettledIsComplete
  <1>5. ASSUME Turn PROVE EndsInv'
    BY <1>5 DEF Turn, rows, pass, SettledInv, EndsInv, AdvancesOpen, RetriesFailed, SettledIsComplete
  <1> QED
    BY <1>1, <1>2, <1>3, <1>4, <1>5 DEF ImportNext, PassActs, SettledInv, EndsInv

LEMMA ImportBegins == ASSUME DroneDeployAssumption, ImportInit PROVE SettledInv
  <1> USE DEF ImportInit
  <1>1. NoExport \in Export /\ NoExport.status = "NONE"
    BY DEF NoExport, Export
  <1>2. ImportTypeOK
    <2>1. imp \in Import /\ exp \in [Layers -> Export] /\ snap \in [Passes -> [Layers -> Export]]
      BY <1>1 DEF Import
    <2>2. 0 \in 0..MaxCopies
      BY DEF DroneDeployAssumption
    <2>3. copies \in [Passes -> 0..MaxCopies]
      BY <2>2
    <2> QED
      BY <2>1, <2>3 DEF ImportTypeOK, Troubles
  <1>3. OneFiling /\ FiledHasLayers /\ AdvancesFiled /\ RetriesFiled
    BY <1>1 DEF OneFiling, FiledHasLayers, AdvancesFiled, RetriesFiled, Advancing, Collecting
  <1>4. LandedHasOutput /\ WaitingHasAttempts
    BY <1>1 DEF LandedHasOutput, WaitingHasAttempts
  <1>5. LeftIsWaiting /\ OutputsCounted
    BY DEF LeftIsWaiting, OutputsCounted, Collecting
  <1>6. AdvancesOpen /\ RetriesFailed /\ SettledIsComplete
    BY DEF AdvancesOpen, RetriesFailed, SettledIsComplete, Advancing, Collecting
  <1> QED
    BY <1>2, <1>3, <1>4, <1>5, <1>6 DEF SettledInv, OnePassInv, ImportInv

\* Whoever files a map - passes and people, however they overlap - makes one
\* capture of it, a layer that is called landed has its output in the capture,
\* and none waits beyond its attempts (fileImport, advanceImport).
THEOREM MapIsFiledOnce ==
    ImportSpec => [](ImportTypeOK /\ OneCapture /\ LandedHasOutput /\ WaitingHasAttempts)
  <1>1. ImportInit => ImportInv
    BY DroneDeployAssumption, ImportBegins DEF SettledInv, OnePassInv
  <1>2. ImportInv /\ [ImportNext]_importVars => ImportInv'
    BY DroneDeployAssumption, ImportStep
  <1>3. ImportInv => ImportTypeOK /\ OneCapture /\ LandedHasOutput /\ WaitingHasAttempts
    BY DEF ImportInv, OneFiling, OneCapture
  <1> QED
    BY <1>1, <1>2, <1>3, PTL DEF ImportSpec

\* As long as no two passes overlap, a layer is copied once but for the faults
\* between an output and its row, however often the property is purged, and
\* the map filed, ignored and retried meanwhile (advanceImport,
\* copyExportToStorage).
THEOREM LayersAreCopiedOnce ==
    ImportSpec /\ []OnePass => []LayersAreAccountedFor
  <1>1. ImportInit => OnePassInv
    BY DroneDeployAssumption, ImportBegins DEF SettledInv
  <1>2. OnePassInv /\ OnePass /\ OnePass' /\ [ImportNext]_importVars => OnePassInv'
    BY DroneDeployAssumption, OnePassStep
  <1>3. OnePassInv => LayersAreAccountedFor
    BY DEF OnePassInv, ImportInv, OutputsCounted, OneFiling, OneCapture, OutputsAccountedFor,
       LayersAreAccountedFor
  <1> QED
    BY <1>1, <1>2, <1>3, PTL DEF ImportSpec

\* As long as neither passes nor retries overlap, an import ends with every layer
\* collected or given up, and fails with none that landed, unless the map was
\* ignored while it was being filed (settleImport, retryDroneDeployImport).
THEOREM ImportEndsComplete ==
    ImportSpec /\ []OnePass /\ []OneRetry => []SettledIsComplete
  <1>1. ImportInit => SettledInv
    BY DroneDeployAssumption, ImportBegins
  <1>2. SettledInv /\ OnePass /\ OnePass' /\ OneRetry /\ OneRetry' /\ [ImportNext]_importVars => SettledInv'
    BY DroneDeployAssumption, SettledStep
  <1>3. SettledInv => SettledIsComplete
    BY DEF SettledInv
  <1> QED
    BY <1>1, <1>2, <1>3, PTL DEF ImportSpec
=============================================================================
