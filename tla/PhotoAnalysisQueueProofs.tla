--------------------- MODULE PhotoAnalysisQueueProofs ---------------------
(* Proofs about PhotoAnalysisQueue, for every number of photos, runs and    *)
(* people and every value of the limits QueueAssumption allows.             *)
EXTENDS MCPhotoAnalysisQueue, PhotoQueueRefinement, TLAPS, FiniteSetTheorems

(***************************************************************************)
(* The inductive invariant.  Exclusion is not inductive on its own: a stale *)
(* claim could hand out a job that is still being worked on.  What excludes *)
(* it is the age of a claim, bounded by the age of the run that made it     *)
(* (Holding), and what the version number says of a snapshot (Snapshots).   *)
(***************************************************************************)

\* A caller has a photo in hand exactly while it is in runPhotoAnalysis.
Shape ==
    /\ \A r \in Runs : /\ phase[r] = "work" <=> target[r] # NoPhoto
                       /\ phase[r] # "work" => step[r] = "none"
                       /\ step[r] # "clicked"
    /\ \A a \in Callers : step[a] # "none" => target[a] # NoPhoto

\* Only a stored photo has a row, findings or bills.
RowsOfStoredPhotos == \A p \in Photos : photo[p] # "stored" => job[p] = NoRow

\* The row of the photo a run works on carries that run's claim, and the claim
\* is no older than the run.
Holding ==
    \A r \in Runs :
        phase[r] = "work" =>
            \/ photo[target[r]] = "detached"
            \/ /\ job[target[r]].status = "RUNNING"
               /\ job[target[r]].attempts = attempt[r]
               /\ job[target[r]].age <= elapsed[r]

\* A snapshot is of an earlier or of the present version of its row; of the
\* present one, it says what the row says, and a RUNNING one is abandoned.
FaithfulSnapshot(c) ==
    /\ job[c.photo].status # "NONE"
    /\ c.rev <= job[c.photo].rev
    /\ c.rev = job[c.photo].rev =>
          /\ c.attempts = job[c.photo].attempts
          /\ c.status = job[c.photo].status
          /\ c.status = "RUNNING" => job[c.photo].age > StaleRunning

Snapshots ==
    \A r \in Runs : \A c \in todo[r] :
        photo[c.photo] = "detached" \/ FaithfulSnapshot(c)

QInv ==
    /\ TypeOK
    /\ Shape
    /\ RowsOfStoredPhotos
    /\ Holding
    /\ ExclusiveAnalysis
    /\ Snapshots

USE DEF Runs, Callers

-----------------------------------------------------------------------------
(* Lemmas about the row operators *)

\* Inserting or skipping never changes a row that exists.
LEMMA CreateOrSkipKeeps ==
    ASSUME NEW row \in Row
    PROVE  /\ CreateOrSkip(row) \in Row
           /\ row.status # "NONE" => CreateOrSkip(row) = row
           /\ CreateOrSkip(row).status # "NONE"
  BY QueueAssumption DEF CreateOrSkip, NewRow, NoRow, Row, Statuses

\* Time passes only for a RUNNING row, by at most one, and an abandoned row
\* stays abandoned.
LEMMA OlderAges ==
    ASSUME NEW row \in Row
    PROVE  /\ Older(row) \in Row
           /\ Older(row).status = row.status
           /\ Older(row).attempts = row.attempts
           /\ Older(row).rev = row.rev
           /\ Older(row).age >= row.age
           /\ Older(row).age <= row.age + 1
           /\ row.status # "RUNNING" => Older(row) = row
  BY QueueAssumption DEF Older, Row, Statuses

\* A claim counts an attempt and makes a new version.
LEMMA ClaimedIsRunning ==
    ASSUME NEW row \in Row
    PROVE  /\ Claimed(row) \in Row
           /\ Claimed(row).status = "RUNNING"
           /\ Claimed(row).attempts = row.attempts + 1
           /\ Claimed(row).rev = row.rev + 1
           /\ Claimed(row).age = 0
  BY QueueAssumption DEF Claimed, Row, Statuses

\* What a run reads is a snapshot of the row as it is.
LEMMA CandidatesAreFaithful ==
    ASSUME TypeOK, NEW r \in Runs, NEW p \in Candidates(r)
    PROVE  /\ p \in Photos
           /\ Snap(p) \in Snapshot
           /\ Snap(p).photo = p
           /\ FaithfulSnapshot(Snap(p))
  <1>1. p \in Photos /\ (job[p].status = "QUEUED" \/ Abandoned(job[p]))
    BY DEF Candidates, TypeOK
  <1>2. job[p] \in Row
    BY <1>1 DEF TypeOK
  <1>3. Snap(p) \in Snapshot /\ Snap(p).photo = p
    BY <1>1, <1>2 DEF Snap, Snapshot, Abandoned, Row
  <1>4. FaithfulSnapshot(Snap(p))
    BY <1>1, <1>2 DEF Snap, FaithfulSnapshot, Abandoned, Row
  <1> QED
    BY <1>1, <1>3, <1>4

\* A claim that succeeds is on a row no run is working on.
LEMMA ClaimIsFree ==
    ASSUME QInv, NEW r \in Runs, NEW c \in todo[r], Unchanged(c)
    PROVE  /\ c \in Snapshot
           /\ photo[c.photo] = "stored"
           /\ FaithfulSnapshot(c)
           /\ \A q \in Runs : target[q] # c.photo
  <1>1. c \in Snapshot
    BY DEF QInv, TypeOK
  <1>2. job[c.photo].status \in {"QUEUED", "RUNNING"} /\ job[c.photo].rev = c.rev
    BY <1>1 DEF Unchanged, Snapshot
  <1>3. c.photo \in Photos /\ job[c.photo] \in Row
    BY <1>1 DEF QInv, TypeOK, Snapshot
  <1>4. photo[c.photo] = "stored"
    BY <1>2, <1>3 DEF QInv, RowsOfStoredPhotos, NoRow
  <1>5. FaithfulSnapshot(c)
    BY <1>4 DEF QInv, Snapshots
  <1>6. ASSUME NEW q \in Runs, target[q] = c.photo PROVE FALSE
    <2>1. phase[q] = "work"
      BY <1>3, <1>6, QueueAssumption DEF QInv, Shape
    <2>2. job[c.photo].status = "RUNNING" /\ job[c.photo].age <= elapsed[q]
      BY <1>4, <1>6, <2>1 DEF QInv, Holding
    <2>3. elapsed[q] \in 0..RunLifetime
      BY DEF QInv, TypeOK
    <2>4. job[c.photo].age > StaleRunning
      BY <1>2, <1>5, <2>2 DEF FaithfulSnapshot
    <2> QED
      BY <1>3, <2>2, <2>3, <2>4, QueueAssumption DEF Row
  <1> QED
    BY <1>1, <1>4, <1>5, <1>6

-----------------------------------------------------------------------------
LEMMA InitQInv == Init => QInv
  BY QueueAssumption DEF Init, QInv, TypeOK, Shape, RowsOfStoredPhotos, Holding,
     ExclusiveAnalysis, Snapshots, Row, NoRow, Statuses, Steps

\* A step that forgets a run (its end, however it ends) keeps the invariant.
LEMMA ForgetQInv ==
    ASSUME QInv, NEW r \in Runs, Forget(r), UNCHANGED <<rows, unsaved>>, crashes' \in Nat
    PROVE  QInv'
  <1> USE QueueAssumption DEF QInv, Forget, rows
  <1>1. TypeOK'
    BY DEF TypeOK, Steps
  <1>2. Shape'
    BY DEF TypeOK, Shape
  <1>3. RowsOfStoredPhotos' /\ Holding'
    BY DEF TypeOK, Shape, RowsOfStoredPhotos, Holding
  <1>4. ExclusiveAnalysis'
    BY DEF TypeOK, ExclusiveAnalysis
  <1>5. Snapshots'
    BY DEF TypeOK, Snapshots, FaithfulSnapshot
  <1> QED
    BY <1>1, <1>2, <1>3, <1>4, <1>5

LEMMA EnqueueQInv ==
    ASSUME QInv, NEW r \in UploadRuns, NEW batch \in SUBSET Photos, Enqueue(r, batch)
    PROVE  QInv'
  <1> USE QueueAssumption DEF QInv, Enqueue, runs, calls
  <1>1. \A p \in Photos : /\ job'[p] \in Row
                          /\ job[p].status # "NONE" => job'[p] = job[p]
                          /\ photo[p] # "stored" => job'[p] = job[p]
    BY CreateOrSkipKeeps DEF TypeOK
  <1>2. TypeOK'
    <2>1. job' \in [Photos -> Row]
      BY <1>1
    <2>2. \/ UNCHANGED <<phase, ids>>
          \/ /\ phase' = [phase EXCEPT ![r] = "after"]
             /\ \E given \in SUBSET Photos : ids' = [ids EXCEPT ![r] = given]
      OBVIOUS
    <2>3. ids' \in [Runs -> SUBSET Photos] /\ phase' \in [Runs -> {"idle", "after", "loop", "work"}]
      BY <2>2 DEF TypeOK
    <2> QED
      BY <2>1, <2>3 DEF TypeOK
  <1>3. Shape'
    BY ZenonT(40) DEF TypeOK, Shape
  <1>4. RowsOfStoredPhotos'
    BY <1>1 DEF RowsOfStoredPhotos
  <1>5. Holding'
    <2>1. \A q \in Runs : phase'[q] = "work" => phase[q] = "work" /\ target[q] \in Photos
      BY ZenonT(40) DEF TypeOK, Shape
    <2> QED
      BY <1>1, <2>1 DEF Holding
  <1>6. ExclusiveAnalysis'
    BY DEF ExclusiveAnalysis
  <1>7. Snapshots'
    BY <1>1 DEF TypeOK, Snapshot, Snapshots, FaithfulSnapshot
  <1> QED
    BY <1>2, <1>3, <1>4, <1>5, <1>6, <1>7

LEMMA ReadCandidatesQInv ==
    ASSUME QInv, NEW r \in Runs, ReadCandidates(r)
    PROVE  QInv'
  <1> USE QueueAssumption DEF QInv, ReadCandidates, rows, calls
  <1> DEFINE read == {Snap(p) : p \in Candidates(r)}
  <1>1. \A c \in read : c \in Snapshot /\ FaithfulSnapshot(c)
    BY CandidatesAreFaithful
  <1>2. TypeOK'
    <2>1. todo' \in [Runs -> SUBSET Snapshot]
      BY <1>1 DEF TypeOK
    <2>2. /\ phase' \in [Runs -> {"idle", "after", "loop", "work"}]
          /\ elapsed' \in [Runs -> 0..RunLifetime]
          /\ ids' \in [Runs -> SUBSET Photos]
      BY DEF TypeOK
    <2> QED
      BY <2>1, <2>2 DEF TypeOK
  <1>3. Shape'
    BY DEF TypeOK, Shape
  <1>4. RowsOfStoredPhotos'
    BY DEF RowsOfStoredPhotos
  <1>5. Holding'
    BY DEF TypeOK, Shape, Holding
  <1>6. ExclusiveAnalysis'
    BY DEF ExclusiveAnalysis
  <1>7. Snapshots'
    <2>1. \A q \in Runs : todo'[q] = IF q = r THEN read ELSE todo[q]
      BY DEF TypeOK
    <2> QED
      BY <1>1, <2>1 DEF Snapshots, FaithfulSnapshot
  <1> QED
    BY <1>2, <1>3, <1>4, <1>5, <1>6, <1>7

LEMMA ClaimQInv ==
    ASSUME QInv, NEW r \in Runs, NEW c \in todo[r], Claim(r, c)
    PROVE  QInv'
  <1> USE QueueAssumption DEF QInv, Claim
  <1>1. /\ c \in Snapshot /\ c.photo \in Photos
        /\ photo[c.photo] = "stored"
        /\ FaithfulSnapshot(c)
        /\ \A q \in Runs : target[q] # c.photo
    BY ClaimIsFree DEF Snapshot
  <1>2. job[c.photo] \in Row /\ job'[c.photo] = Claimed(job[c.photo])
    BY <1>1 DEF TypeOK
  <1>3. /\ job'[c.photo] \in Row
        /\ job'[c.photo].status = "RUNNING"
        /\ job'[c.photo].attempts = attempt'[r]
        /\ job'[c.photo].rev = job[c.photo].rev + 1
        /\ job'[c.photo].age = 0
    <2>1. c.attempts = job[c.photo].attempts
      BY <1>1 DEF Unchanged, FaithfulSnapshot
    <2> QED
      BY <1>2, <2>1, ClaimedIsRunning DEF TypeOK
  <1>4. \A p \in Photos : p # c.photo => job'[p] = job[p]
    BY DEF TypeOK
  <1>5. TypeOK'
    <2>1. job' \in [Photos -> Row]
      BY <1>1, <1>3 DEF TypeOK
    <2>2. attempt' \in [Runs -> Nat]
      BY <1>1 DEF TypeOK, Snapshot
    <2>3. /\ phase' \in [Runs -> {"idle", "after", "loop", "work"}]
          /\ todo' \in [Runs -> SUBSET Snapshot]
      BY DEF TypeOK
    <2>4. /\ step' \in [Callers -> Steps]
          /\ target' \in [Callers -> Photos \cup {NoPhoto}]
      BY <1>1 DEF TypeOK, Steps
    <2> QED
      BY <2>1, <2>2, <2>3, <2>4 DEF TypeOK
  <1>6. Shape'
    BY <1>1 DEF TypeOK, Shape
  <1>7. RowsOfStoredPhotos'
    BY <1>1, <1>4 DEF RowsOfStoredPhotos
  <1>8. Holding'
    <2>1. \A q \in Runs : q # r /\ phase'[q] = "work" =>
             phase[q] = "work" /\ target'[q] = target[q] /\ target[q] \in Photos
      BY DEF TypeOK, Shape
    <2>2. elapsed[r] \in 0..RunLifetime
      BY DEF TypeOK
    <2>3. target'[r] = c.photo
      BY DEF TypeOK
    <2>4. \A q \in Runs : q # r => attempt'[q] = attempt[q]
      BY DEF TypeOK
    <2> QED
      BY <1>1, <1>3, <1>4, <2>1, <2>2, <2>3, <2>4 DEF Holding
  <1>9. ExclusiveAnalysis'
    BY <1>1 DEF TypeOK, ExclusiveAnalysis
  <1>10. Snapshots'
    <2>1. \A q \in Runs : todo'[q] \subseteq todo[q] /\ todo[q] \subseteq Snapshot
      BY DEF TypeOK
    <2>2. \A d \in Snapshot : FaithfulSnapshot(d) => FaithfulSnapshot(d)'
      BY <1>2, <1>3, <1>4 DEF FaithfulSnapshot, Snapshot, Row
    <2> QED
      BY <2>1, <2>2 DEF Snapshots
  <1> QED
    BY <1>5, <1>6, <1>7, <1>8, <1>9, <1>10

LEMMA RecordQInv ==
    ASSUME QInv, NEW r \in Runs, Record(r)
    PROVE  QInv'
  <1> USE QueueAssumption DEF QInv, Record
  <1> DEFINE p == target[r]
  <1>1. p \in Photos /\ job[p] \in Row /\ photo[p] = "stored"
    BY DEF TypeOK, Shape, RowsOfStoredPhotos, NoRow
  <1>2. Outcome(r) \in Statuses /\ Outcome(r) # "NONE"
    BY DEF Outcome, Statuses
  <1>3. /\ job'[p] \in Row
        /\ job'[p].status # "NONE"
        /\ job'[p].rev = job[p].rev + 1
    BY <1>1, <1>2 DEF Row, TypeOK
  <1>4. \A q \in Photos : q # p => job'[q] = job[q]
    BY DEF TypeOK
  <1>5. TypeOK'
    <2>1. job' \in [Photos -> Row]
      BY <1>1, <1>3 DEF TypeOK
    <2>2. /\ step' \in [Callers -> Steps]
          /\ target' \in [Callers -> Photos \cup {NoPhoto}]
          /\ phase' \in [Runs -> {"idle", "after", "loop", "work"}]
      BY DEF TypeOK, Steps
    <2> QED
      BY <2>1, <2>2 DEF TypeOK
  <1>6. Shape'
    BY DEF TypeOK, Shape
  <1>7. RowsOfStoredPhotos'
    BY <1>1, <1>4 DEF RowsOfStoredPhotos
  <1>8. Holding'
    <2>1. \A q \in Runs : phase'[q] = "work" =>
             /\ phase[q] = "work" /\ q # r
             /\ target'[q] = target[q] /\ target[q] \in Photos
      BY DEF TypeOK, Shape
    <2>2. \A q \in Runs : phase'[q] = "work" => target[q] # p
      BY <1>1, <2>1 DEF ExclusiveAnalysis
    <2> QED
      BY <1>4, <2>1, <2>2 DEF Holding
  <1>9. ExclusiveAnalysis'
    BY DEF TypeOK, ExclusiveAnalysis
  <1>10. Snapshots'
    <2>1. \A q \in Runs : todo'[q] = todo[q] /\ todo[q] \subseteq Snapshot
      BY DEF TypeOK
    <2>2. \A d \in Snapshot : FaithfulSnapshot(d) => FaithfulSnapshot(d)'
      BY <1>1, <1>3, <1>4 DEF FaithfulSnapshot, Snapshot, Row
    <2> QED
      BY <2>1, <2>2 DEF Snapshots
  <1> QED
    BY <1>5, <1>6, <1>7, <1>8, <1>9, <1>10

LEMMA TickQInv ==
    ASSUME QInv, Tick
    PROVE  QInv'
  <1> USE QueueAssumption DEF QInv, Tick, calls
  <1>1. \A p \in Photos : job[p] \in Row /\ job'[p] = Older(job[p])
    BY DEF TypeOK
  <1>2. TypeOK'
    <2>1. job' \in [Photos -> Row]
      BY <1>1, OlderAges
    <2>2. elapsed' \in [Runs -> 0..RunLifetime]
      BY DEF TypeOK
    <2> QED
      BY <2>1, <2>2 DEF TypeOK
  <1>3. Shape'
    BY DEF Shape
  <1>4. RowsOfStoredPhotos'
    BY <1>1, OlderAges DEF RowsOfStoredPhotos, NoRow
  <1>5. Holding'
    <2>1. \A q \in Runs : phase[q] = "work" =>
             target[q] \in Photos /\ elapsed'[q] = elapsed[q] + 1 /\ elapsed[q] \in Int
      BY DEF TypeOK, Shape
    <2>2. \A p \in Photos : Older(job[p]).age <= job[p].age + 1 /\ job[p].age \in Int
                            /\ Older(job[p]).age \in Int
      BY <1>1, OlderAges DEF Row
    <2>3. \A p \in Photos : /\ job'[p].status = job[p].status
                            /\ job'[p].attempts = job[p].attempts
                            /\ job'[p].age <= job[p].age + 1 /\ job'[p].age \in Int
      BY <1>1, <2>2, OlderAges
    <2>4. ASSUME NEW q \in Runs, phase[q] = "work", photo[target[q]] # "detached"
          PROVE  /\ job'[target[q]].status = "RUNNING"
                 /\ job'[target[q]].attempts = attempt[q]
                 /\ job'[target[q]].age <= elapsed'[q]
      <3>1. target[q] \in Photos
        BY <2>1, <2>4
      <3>2. /\ job[target[q]].status = "RUNNING"
            /\ job[target[q]].attempts = attempt[q]
            /\ job[target[q]].age <= elapsed[q]
        BY <2>4 DEF Holding
      <3>3. elapsed'[q] = elapsed[q] + 1 /\ elapsed[q] \in Int
        BY <2>1, <2>4
      <3>4. /\ job[target[q]].age \in Int /\ job'[target[q]].age \in Int
            /\ job'[target[q]].age <= job[target[q]].age + 1
        BY <2>2, <2>3, <3>1
      <3>5. job'[target[q]].age <= elapsed'[q]
        BY <3>2, <3>3, <3>4
      <3> QED
        BY <2>3, <3>1, <3>2, <3>5
    <2> QED
      BY <2>4 DEF Holding
  <1>6. ExclusiveAnalysis'
    BY DEF ExclusiveAnalysis
  <1>7. Snapshots'
    <2>1. \A q \in Runs : todo'[q] = todo[q] /\ todo[q] \subseteq Snapshot
      BY DEF TypeOK
    <2>2. \A d \in Snapshot : FaithfulSnapshot(d) => FaithfulSnapshot(d)'
      <3>1. SUFFICES ASSUME NEW d \in Snapshot, FaithfulSnapshot(d)
                     PROVE  FaithfulSnapshot(d)'
        OBVIOUS
      <3>2. d.photo \in Photos /\ job[d.photo] \in Row
        BY <1>1 DEF Snapshot
      <3>3. /\ job'[d.photo].status = job[d.photo].status
            /\ job'[d.photo].attempts = job[d.photo].attempts
            /\ job'[d.photo].rev = job[d.photo].rev
            /\ job'[d.photo].age >= job[d.photo].age
            /\ job'[d.photo].age \in Int /\ job[d.photo].age \in Int
        BY <1>1, <3>2, OlderAges DEF Row
      <3> QED
        BY <3>1, <3>3 DEF FaithfulSnapshot
    <2> QED
      BY <2>1, <2>2 DEF Snapshots
  <1> QED
    BY <1>2, <1>3, <1>4, <1>5, <1>6, <1>7

\* The steps of runPhotoAnalysis and of people change no row of the queue but
\* for a deletion.
LEMMA AnalyseQInv ==
    ASSUME QInv, NEW a \in Callers, Analyse(a)
    PROVE  QInv'
  <1> USE QueueAssumption DEF QInv, rows, runs
  <1>1. /\ UNCHANGED <<photo, job, phase, elapsed, ids, todo, attempt, target>>
        /\ step[a] \in {"check", "provider", "answer"}
        /\ \E next \in Steps \ {"none", "clicked"} : step' = [step EXCEPT ![a] = next]
    BY DEF Analyse, CheckPhoto, CallProvider, CreateFinding, RefuseAnswer, Steps
  <1>2. target[a] \in Photos
    BY <1>1 DEF TypeOK, Shape
  <1>3. /\ open' \in [Photos -> Nat] /\ paid' \in [Photos -> Nat]
        /\ reviewed' = reviewed /\ crashes' = crashes /\ unsaved' = unsaved
    BY <1>2 DEF TypeOK, Analyse, CheckPhoto, CallProvider, CreateFinding, RefuseAnswer
  <1>4. step' \in [Callers -> Steps]
    BY <1>1 DEF TypeOK
  <1>5. TypeOK'
    BY <1>1, <1>3, <1>4 DEF TypeOK
  <1>6. Shape'
    BY <1>1 DEF TypeOK, Shape
  <1>7. RowsOfStoredPhotos' /\ Holding' /\ ExclusiveAnalysis' /\ Snapshots'
    BY <1>1 DEF RowsOfStoredPhotos, Holding, ExclusiveAnalysis, Snapshots, FaithfulSnapshot
  <1> QED
    BY <1>5, <1>6, <1>7

\* A run whose update to DONE failed goes on as one whose analysis threw.
LEMMA DoneFailsQInv ==
    ASSUME QInv, NEW r \in Runs, DoneFails(r)
    PROVE  QInv'
  <1> USE QueueAssumption DEF QInv, rows, runs
  <1>1. /\ UNCHANGED <<photo, job, open, reviewed, paid, phase, elapsed, ids, todo, attempt, target, crashes>>
        /\ step[r] = "finding" /\ step' = [step EXCEPT ![r] = "retryable"]
    BY DEF DoneFails
  <1>2. target[r] \in Photos
    BY <1>1 DEF TypeOK, Shape
  <1>3. step' \in [Callers -> Steps] /\ unsaved' \in [Photos -> Nat]
    BY <1>1, <1>2 DEF DoneFails, TypeOK, Steps
  <1>4. TypeOK'
    BY <1>1, <1>3 DEF TypeOK
  <1>5. Shape'
    BY <1>1 DEF DoneFails, TypeOK, Shape
  <1>6. RowsOfStoredPhotos' /\ Holding' /\ ExclusiveAnalysis' /\ Snapshots'
    BY <1>1 DEF RowsOfStoredPhotos, Holding, ExclusiveAnalysis, Snapshots, FaithfulSnapshot
  <1> QED
    BY <1>4, <1>5, <1>6

LEMMA ClickQInv ==
    ASSUME QInv, NEW k \in Clickers,
           ClickReturns(k) \/ \E p \in Photos : Click(k, p)
    PROVE  QInv'
  <1> USE QueueAssumption DEF QInv, rows, runs
  <1>1. /\ UNCHANGED <<photo, job, open, reviewed, paid, phase, elapsed, ids, todo, attempt, crashes, unsaved>>
        /\ \A r \in Runs : step'[r] = step[r] /\ target'[r] = target[r]
    BY DEF TypeOK, Click, ClickReturns
  <1>2. /\ step' \in [Callers -> Steps]
        /\ target' \in [Callers -> Photos \cup {NoPhoto}]
        /\ \A a \in Callers : step'[a] # "none" => target'[a] # NoPhoto
    BY DEF TypeOK, Shape, Click, ClickReturns, Steps, Returned
  <1>3. TypeOK'
    BY <1>1, <1>2 DEF TypeOK
  <1>4. Shape'
    BY <1>1, <1>2 DEF Shape
  <1>5. RowsOfStoredPhotos' /\ Holding' /\ ExclusiveAnalysis' /\ Snapshots'
    BY <1>1 DEF RowsOfStoredPhotos, Holding, ExclusiveAnalysis, Snapshots, FaithfulSnapshot
  <1> QED
    BY <1>3, <1>4, <1>5

LEMMA PhotoQInv ==
    ASSUME QInv, NEW p \in Photos, Upload(p) \/ Review(p) \/ DeleteAsset(p)
    PROVE  QInv'
  <1> USE QueueAssumption DEF QInv, runs, calls
  <1>1. /\ UNCHANGED <<phase, elapsed, ids, todo, attempt, step, target, crashes, unsaved>>
        /\ \A q \in Photos : \/ photo'[q] = "detached" /\ job'[q] = NoRow
                             \/ /\ job'[q] = job[q]
                                /\ \/ photo'[q] = photo[q]
                                   \/ photo[q] = "absent" /\ photo'[q] = "stored"
    <2>1. CASE Upload(p)
      BY <2>1 DEF TypeOK, Upload
    <2>2. CASE Review(p)
      BY <2>2 DEF TypeOK, Review
    <2>3. CASE DeleteAsset(p)
      BY <2>3 DEF TypeOK, DeleteAsset
    <2> QED
      BY <2>1, <2>2, <2>3
  <1>2. TypeOK'
    <2>1. NoRow \in Row
      BY DEF NoRow, Row, Statuses
    <2>2. /\ photo' \in [Photos -> {"absent", "stored", "detached"}]
          /\ job' \in [Photos -> Row]
          /\ open' \in [Photos -> Nat] /\ reviewed' \in [Photos -> Nat]
          /\ paid' \in [Photos -> Nat]
      BY <2>1 DEF TypeOK, Upload, Review, DeleteAsset
    <2> QED
      BY <1>1, <2>2 DEF TypeOK
  <1>3. Shape' /\ ExclusiveAnalysis'
    BY <1>1 DEF Shape, ExclusiveAnalysis
  <1>4. RowsOfStoredPhotos'
    BY <1>1 DEF TypeOK, RowsOfStoredPhotos
  <1>5. Holding'
    BY <1>1 DEF TypeOK, Shape, Holding
  <1>6. Snapshots'
    <2>1. \A q \in Runs : todo'[q] = todo[q] /\ todo[q] \subseteq Snapshot
      BY <1>1 DEF TypeOK
    <2> QED
      BY <1>1, <2>1 DEF Snapshots, FaithfulSnapshot, Snapshot
  <1> QED
    BY <1>2, <1>3, <1>4, <1>5, <1>6

LEMMA SkipTakenQInv ==
    ASSUME QInv, NEW r \in Runs, NEW c \in todo[r], SkipTaken(r, c)
    PROVE  QInv'
  <1> USE QueueAssumption DEF QInv, SkipTaken, rows, calls
  <1>1. todo' \in [Runs -> SUBSET Snapshot] /\ \A q \in Runs : todo'[q] \subseteq todo[q]
    BY DEF TypeOK
  <1>2. TypeOK'
    BY <1>1 DEF TypeOK
  <1>3. Shape' /\ RowsOfStoredPhotos' /\ Holding' /\ ExclusiveAnalysis'
    BY DEF Shape, RowsOfStoredPhotos, Holding, ExclusiveAnalysis
  <1>4. Snapshots'
    BY <1>1 DEF Snapshots, FaithfulSnapshot
  <1> QED
    BY <1>2, <1>3, <1>4

LEMMA NextQInv == QInv /\ [Next]_vars => QInv'
  <1> SUFFICES ASSUME QInv, [Next]_vars PROVE QInv'
    OBVIOUS
  <1>1. CASE People
    BY <1>1, PhotoQInv, EnqueueQInv, ClickQInv DEF People
  <1>2. ASSUME NEW r \in Runs, ReadCandidates(r) PROVE QInv'
    BY <1>2, ReadCandidatesQInv
  <1>3. ASSUME NEW r \in Runs, Reach(r) PROVE QInv'
    BY <1>3, ClaimQInv, SkipTakenQInv DEF Reach
  <1>4. ASSUME NEW r \in Runs, Finish(r) PROVE QInv'
    <2>1. CASE Record(r)
      BY <2>1, RecordQInv
    <2>2. CASE AbortOnMissingRow(r) \/ EndRun(r)
      BY <2>2, ForgetQInv DEF AbortOnMissingRow, EndRun, QInv, TypeOK
    <2> QED
      BY <1>4, <2>1, <2>2 DEF Finish
  <1>5. ASSUME NEW r \in Runs, Crash(r) PROVE QInv'
    BY <1>5, ForgetQInv DEF Crash, QInv, TypeOK
  <1>6. ASSUME NEW a \in Callers, Analyse(a) PROVE QInv'
    BY <1>6, AnalyseQInv
  <1>7. ASSUME NEW k \in Clickers, ClickReturns(k) PROVE QInv'
    BY <1>7, ClickQInv
  <1>8. CASE Tick
    BY <1>8, TickQInv
  <1>9. CASE UNCHANGED vars
    BY <1>9 DEF vars, QInv, TypeOK, Shape, RowsOfStoredPhotos, Holding,
        ExclusiveAnalysis, Snapshots, FaithfulSnapshot
  <1>10. ASSUME NEW r \in Runs, DoneFails(r) PROVE QInv'
    BY <1>10, DoneFailsQInv
  <1> QED
    BY <1>1, <1>2, <1>3, <1>4, <1>5, <1>6, <1>7, <1>8, <1>9, <1>10 DEF Next

LEMMA SpecQInv == Spec => []QInv
  BY InitQInv, NextQInv, PTL DEF Spec

-----------------------------------------------------------------------------
\* Every variable keeps its type: in particular no run outlives RunLifetime and
\* no version or attempt number leaves the naturals.
THEOREM QueueTypeCorrect == Spec => []TypeOK
  <1>1. QInv => TypeOK
    BY DEF QInv
  <1> QED
    BY <1>1, SpecQInv, PTL

\* No two runs of processPhotoAnalysisJobs, whatever they are and however many
\* are cut off, have the same photo in hand.
THEOREM AnalysisIsExclusive == Spec => []ExclusiveAnalysis
  <1>1. QInv => ExclusiveAnalysis
    BY DEF QInv
  <1> QED
    BY <1>1, SpecQInv, PTL

\* The unconditional final update of a run always lands on its own claim.
THEOREM ClaimStaysHeld == Spec => []ClaimIsHeld
  <1>1. QInv => ClaimIsHeld
    BY QueueAssumption DEF QInv, ClaimIsHeld, Holding, RowsOfStoredPhotos, NoRow, TypeOK, Shape
  <1> QED
    BY <1>1, SpecQInv, PTL

\* A DONE, SKIPPED or FAILED row is never written again.
THEOREM SettledStaysFinal == Spec => SettledIsFinal
  <1> DEFINE Final == \A p \in Photos : job[p].status \in Settled =>
                         job'[p] = job[p] \/ job'[p].status = "NONE"
  <1>1. QInv /\ [Next]_vars => [Final]_vars
    <2> SUFFICES ASSUME QInv, Next, NEW p \in Photos, job[p].status \in Settled
                 PROVE  job'[p] = job[p] \/ job'[p].status = "NONE"
      OBVIOUS
    <2> USE DEF rows, runs, calls
    <2>0. job[p] \in Row
      BY DEF QInv, TypeOK
    <2>1. CASE People
      <3>1. ASSUME NEW r \in UploadRuns, NEW batch \in SUBSET Photos, Enqueue(r, batch)
            PROVE  job'[p] = job[p]
        BY <2>0, <3>1, CreateOrSkipKeeps DEF Enqueue, Settled
      <3>2. ASSUME NEW q \in Photos, Upload(q) \/ Review(q) \/ DeleteAsset(q)
            PROVE  job'[p] = job[p] \/ job'[p].status = "NONE"
        BY <3>2 DEF Upload, Review, DeleteAsset, QInv, TypeOK, NoRow
      <3> QED
        BY <2>1, <3>1, <3>2 DEF People, Click
    <2>2. ASSUME NEW r \in Runs, ReadCandidates(r) \/ Reach(r)
          PROVE  job'[p] = job[p]
      <3>1. ASSUME NEW c \in todo[r], Claim(r, c) PROVE job'[p] = job[p]
        <4>1. c \in Snapshot
          BY DEF QInv, TypeOK
        <4>2. c.photo # p
          BY <3>1, <4>1 DEF Claim, Unchanged, Snapshot, Settled
        <4> QED
          BY <3>1, <4>2 DEF Claim, QInv, TypeOK
      <3> QED
        BY <2>2, <3>1 DEF ReadCandidates, Reach, SkipTaken
    <2>3. ASSUME NEW r \in Runs, DoneFails(r) \/ Finish(r) \/ Crash(r) PROVE job'[p] = job[p]
      <3>1. CASE Record(r)
        <4>1. target[r] # p
          BY <3>1, QueueAssumption DEF Record, QInv, Holding, RowsOfStoredPhotos, NoRow, Settled
        <4> QED
          BY <3>1, <4>1 DEF Record, QInv, TypeOK
      <3> QED
        BY <2>3, <3>1 DEF DoneFails, Finish, AbortOnMissingRow, EndRun, Crash
    <2>4. ASSUME NEW a \in Callers, Analyse(a) PROVE job'[p] = job[p]
      BY <2>4 DEF Analyse, CheckPhoto, CallProvider, CreateFinding, RefuseAnswer
    <2>5. CASE Tick
      BY <2>0, <2>5, OlderAges DEF Tick, Settled
    <2> QED
      BY <2>1, <2>2, <2>3, <2>4, <2>5 DEF Next, ClickReturns
  <1> QED
    BY <1>1, SpecQInv, PTL DEF Spec, SettledIsFinal

-----------------------------------------------------------------------------
(***************************************************************************)
(* Attempts and bills.  The bound on attempts needs to know which RUNNING   *)
(* rows nobody works on: each cost a crash, and a crash is what pays for    *)
(* the attempt beyond MaxAttempts.  The bound on bills needs to know that a *)
(* run that has not reached the provider has not paid for its attempt yet.  *)
(***************************************************************************)
Unattended(p) == job[p].status = "RUNNING" /\ \A r \in Runs : target[r] # p

LostAttemptsCounted ==
    \A p \in Photos : Unattended(p) => job[p].attempts < MaxAttempts + crashes

PaidPerAttempt ==
    /\ \A p \in Photos :
         IF job[p].status # "NONE" THEN paid[p] <= job[p].attempts
         ELSE photo[p] # "detached" => paid[p] = 0
    /\ \A r \in Runs :
         /\ phase[r] = "work"
         /\ step[r] \in {"check", "provider"}
         /\ photo[target[r]] # "detached"
         => paid[target[r]] < job[target[r]].attempts

LimitInv == QInv /\ AttemptsBounded /\ LostAttemptsCounted /\ PaidPerAttempt

\* What a run in the middle of its work knows of a photo that is not deleted.
LEMMA HeldRow ==
    ASSUME QInv, NEW r \in Runs, phase[r] = "work", photo[target[r]] # "detached"
    PROVE  /\ target[r] \in Photos
           /\ job[target[r]] \in Row
           /\ job[target[r]].status = "RUNNING"
           /\ job[target[r]].attempts = attempt[r]
           /\ \A q \in Runs : q # r => target[q] # target[r]
  BY QueueAssumption DEF QInv, TypeOK, Shape, Holding, ExclusiveAnalysis

LEMMA InitLimitInv == Init => LimitInv
  <1> SUFFICES ASSUME Init PROVE AttemptsBounded /\ LostAttemptsCounted /\ PaidPerAttempt
    BY InitQInv DEF LimitInv
  <1> QED
    BY QueueAssumption DEF Init, AttemptsBounded, LostAttemptsCounted, Unattended,
       PaidPerAttempt, NoRow

LEMMA ClaimLimit ==
    ASSUME LimitInv, NEW r \in Runs, NEW c \in todo[r], Claim(r, c)
    PROVE  AttemptsBounded' /\ LostAttemptsCounted' /\ PaidPerAttempt'
  <1> USE QueueAssumption DEF LimitInv
  <1> DEFINE p == c.photo
  <1>1. /\ c \in Snapshot /\ p \in Photos
        /\ photo[p] = "stored"
        /\ FaithfulSnapshot(c)
        /\ \A q \in Runs : target[q] # p
    BY ClaimIsFree DEF Snapshot, Claim
  <1>2. job[p] \in Row /\ job' = [job EXCEPT ![p] = Claimed(@)] /\ job \in [Photos -> Row]
    BY <1>1 DEF QInv, TypeOK, Claim
  <1>3. /\ job'[p].status = "RUNNING"
        /\ job'[p].attempts = job[p].attempts + 1
        /\ job[p].attempts \in Nat
        /\ \A q \in Photos : q # p => job'[q] = job[q]
    BY <1>1, <1>2, ClaimedIsRunning DEF Row
  <1>4. job[p].attempts < MaxAttempts + crashes
    <2>1. job[p].status \in {"QUEUED", "RUNNING"}
      BY <1>1 DEF Claim, Unchanged, Snapshot
    <2>2. CASE job[p].status = "QUEUED"
      BY <1>1, <1>3, <2>2 DEF AttemptsBounded, QInv, TypeOK
    <2>3. CASE job[p].status = "RUNNING"
      BY <1>1, <2>3 DEF LostAttemptsCounted, Unattended
    <2> QED
      BY <2>1, <2>2, <2>3
  <1>5. crashes' = crashes /\ crashes \in Nat /\ paid' = paid /\ photo' = photo
    BY DEF Claim, QInv, TypeOK
  <1>6. /\ target'[r] = p
        /\ \A q \in Runs : q # r => /\ target'[q] = target[q] /\ phase'[q] = phase[q]
                                    /\ step'[q] = step[q]
    BY DEF Claim, QInv, TypeOK
  <1>7. AttemptsBounded'
    BY <1>1, <1>3, <1>4, <1>5 DEF AttemptsBounded
  <1>8. LostAttemptsCounted'
    BY <1>1, <1>3, <1>5, <1>6 DEF LostAttemptsCounted, Unattended, Claim, QInv, Shape
  <1>9. PaidPerAttempt'
    <2>1. paid[p] <= job[p].attempts /\ paid[p] \in Nat
      BY <1>1 DEF PaidPerAttempt, FaithfulSnapshot, QInv, TypeOK
    <2>2. \A q \in Photos :
            IF job'[q].status # "NONE" THEN paid[q] <= job'[q].attempts
            ELSE photo[q] # "detached" => paid[q] = 0
      BY <1>3, <2>1 DEF PaidPerAttempt
    <2>3. ASSUME NEW q \in Runs, q # r, phase[q] = "work", photo[target[q]] # "detached"
          PROVE  target[q] \in Photos /\ job'[target[q]] = job[target[q]]
      BY <1>1, <1>3, <2>3, HeldRow
    <2>4. paid[p] < job'[p].attempts
      BY <1>3, <2>1
    <2> QED
      BY <1>5, <1>6, <2>2, <2>3, <2>4 DEF PaidPerAttempt
  <1> QED
    BY <1>7, <1>8, <1>9

LEMMA RecordLimit ==
    ASSUME LimitInv, NEW r \in Runs, Record(r)
    PROVE  AttemptsBounded' /\ LostAttemptsCounted' /\ PaidPerAttempt'
  <1> USE QueueAssumption DEF LimitInv
  <1> DEFINE p == target[r]
  <1>1. phase[r] = "work" /\ step[r] \in Returned /\ job[p].status # "NONE"
    BY DEF Record
  <1>2. p \in Photos /\ photo[p] # "detached"
    BY <1>1 DEF QInv, TypeOK, Shape, RowsOfStoredPhotos, NoRow
  <1>3. /\ job[p] \in Row
        /\ job[p].attempts = attempt[r] /\ attempt[r] \in Nat
        /\ \A q \in Runs : q # r => target[q] # p
    BY <1>1, <1>2, HeldRow DEF QInv, TypeOK
  <1>4. /\ job'[p].status = Outcome(r)
        /\ job'[p].attempts = job[p].attempts
        /\ \A q \in Photos : q # p => job'[q] = job[q]
    BY <1>2 DEF Record, QInv, TypeOK
  <1>5. /\ Outcome(r) \notin {"RUNNING", "NONE"}
        /\ Outcome(r) = "QUEUED" => attempt[r] < MaxAttempts
        /\ Outcome(r) = "FAILED" => attempt[r] >= MaxAttempts
    BY <1>1, <1>3 DEF Outcome, Returned
  <1>6. crashes' = crashes /\ paid' = paid /\ photo' = photo
    BY DEF Record
  <1>7. /\ phase'[r] = "loop"
        /\ \A q \in Runs : q # r => /\ target'[q] = target[q] /\ phase'[q] = phase[q]
                                    /\ step'[q] = step[q]
    BY DEF Record, QInv, TypeOK
  <1>8. AttemptsBounded'
    BY <1>2, <1>3, <1>4, <1>5, <1>6 DEF AttemptsBounded
  <1>9. LostAttemptsCounted'
    BY <1>2, <1>4, <1>5, <1>6, <1>7 DEF LostAttemptsCounted, Unattended
  <1>10. PaidPerAttempt'
    <2>1. ASSUME NEW q \in Runs, q # r, phase[q] = "work", photo[target[q]] # "detached"
          PROVE  target[q] \in Photos /\ job'[target[q]] = job[target[q]]
      BY <1>3, <1>4, <2>1, HeldRow
    <2>2. \A q \in Photos :
            IF job'[q].status # "NONE" THEN paid[q] <= job'[q].attempts
            ELSE photo[q] # "detached" => paid[q] = 0
      BY <1>1, <1>2, <1>4, <1>5 DEF PaidPerAttempt
    <2> QED
      BY <1>6, <1>7, <2>1, <2>2 DEF PaidPerAttempt
  <1> QED
    BY <1>8, <1>9, <1>10

\* A run that ends without a crash has no row in hand; a crash adds one to the
\* bound of the row it leaves.
LEMMA ForgetLimit ==
    ASSUME LimitInv, NEW r \in Runs, AbortOnMissingRow(r) \/ EndRun(r) \/ Crash(r)
    PROVE  AttemptsBounded' /\ LostAttemptsCounted' /\ PaidPerAttempt'
  <1> USE QueueAssumption DEF LimitInv
  <1>1. Forget(r) /\ UNCHANGED <<photo, job, open, reviewed, paid>>
    BY DEF AbortOnMissingRow, EndRun, Crash, rows
  <1>2. /\ phase'[r] = "idle"
        /\ \A q \in Runs : q # r => /\ target'[q] = target[q] /\ phase'[q] = phase[q]
                                    /\ step'[q] = step[q]
    BY <1>1 DEF Forget, QInv, TypeOK
  <1>3. /\ crashes \in Nat
        /\ crashes' = crashes \/ crashes' = crashes + 1
        /\ \A p \in Photos : job[p].attempts \in Nat
    BY DEF AbortOnMissingRow, EndRun, Crash, QInv, TypeOK, Row
  <1>4. AttemptsBounded'
    BY <1>1, <1>3 DEF AttemptsBounded
  <1>5. LostAttemptsCounted'
    <2> SUFFICES ASSUME NEW p \in Photos, Unattended(p)'
                 PROVE  job[p].attempts < MaxAttempts + crashes'
      BY <1>1 DEF LostAttemptsCounted
    <2>1. CASE target[r] # p
      BY <1>1, <1>2, <1>3, <2>1 DEF LostAttemptsCounted, Unattended
    <2>2. CASE target[r] = p /\ Crash(r)
      BY <1>3, <2>2 DEF Crash, AttemptsBounded
    <2>3. CASE target[r] = p /\ (AbortOnMissingRow(r) \/ EndRun(r))
      BY <1>1, <2>3 DEF AbortOnMissingRow, EndRun, Unattended, QInv, Shape
    <2> QED
      BY <2>1, <2>2, <2>3
  <1>6. PaidPerAttempt'
    BY <1>1, <1>2 DEF PaidPerAttempt
  <1> QED
    BY <1>4, <1>5, <1>6

LEMMA AnalyseLimit ==
    ASSUME LimitInv, NEW a \in Callers, Analyse(a)
    PROVE  AttemptsBounded' /\ LostAttemptsCounted' /\ PaidPerAttempt'
  <1> USE QueueAssumption DEF LimitInv
  <1>1. UNCHANGED <<photo, job, phase, attempt, target, crashes, unsaved>>
    BY DEF Analyse, CheckPhoto, CallProvider, CreateFinding, RefuseAnswer, rows, runs
  <1>2. AttemptsBounded' /\ LostAttemptsCounted'
    BY <1>1 DEF AttemptsBounded, LostAttemptsCounted, Unattended
  <1>3. /\ target[a] \in Photos
        /\ \A q \in Callers : q # a => step'[q] = step[q]
        /\ step[a] \in {"check", "provider", "answer"}
        /\ step'[a] \in {"check", "provider"} => step[a] = "check"
    BY DEF Analyse, CheckPhoto, CallProvider, CreateFinding, RefuseAnswer, QInv, TypeOK, Shape
  <1>4. PaidPerAttempt'
    <2>1. CASE paid' = paid
      <3>1. \A r \in Runs : step'[r] \in {"check", "provider"} => step[r] \in {"check", "provider"}
        BY <1>3
      <3> QED
        BY <1>1, <2>1, <3>1 DEF PaidPerAttempt
    <2>2. CASE paid' # paid
      <3>1. /\ a \in Runs /\ step[a] = "provider" /\ step'[a] = "answer"
            /\ paid' = [paid EXCEPT ![target[a]] = @ + 1]
        BY <2>2 DEF Analyse, CheckPhoto, CallProvider, CreateFinding, RefuseAnswer, rows, QInv, TypeOK
      <3>2. phase[a] = "work"
        BY <3>1 DEF QInv, Shape
      <3>3. /\ paid \in [Photos -> Nat]
            /\ \A p \in Photos : job[p].attempts \in Nat
        BY DEF QInv, TypeOK, Row
      <3>4. /\ paid'[target[a]] = paid[target[a]] + 1
            /\ \A p \in Photos : p # target[a] => paid'[p] = paid[p]
        BY <1>3, <3>1, <3>3
      <3>5. CASE photo[target[a]] = "detached"
        <4>1. job[target[a]].status = "NONE"
          BY <1>3, <3>5 DEF QInv, RowsOfStoredPhotos, NoRow
        <4>2. \A p \in Photos :
                IF job[p].status # "NONE" THEN paid'[p] <= job[p].attempts
                ELSE photo[p] # "detached" => paid'[p] = 0
          BY <3>4, <3>5, <4>1 DEF PaidPerAttempt
        <4>3. ASSUME NEW r \in Runs, phase[r] = "work", step'[r] \in {"check", "provider"},
                     photo[target[r]] # "detached"
              PROVE  paid'[target[r]] < job[target[r]].attempts
          BY <1>3, <3>1, <3>4, <3>5, <4>3, HeldRow DEF PaidPerAttempt
        <4> QED
          BY <1>1, <4>2, <4>3 DEF PaidPerAttempt
      <3>6. CASE photo[target[a]] # "detached"
        <4>1. /\ job[target[a]].status = "RUNNING"
              /\ \A q \in Runs : q # a => target[q] # target[a]
          BY <3>1, <3>2, <3>6, HeldRow
        <4>2. paid[target[a]] < job[target[a]].attempts
          BY <3>1, <3>2, <3>6 DEF PaidPerAttempt
        <4>3. \A p \in Photos :
                IF job[p].status # "NONE" THEN paid'[p] <= job[p].attempts
                ELSE photo[p] # "detached" => paid'[p] = 0
          BY <1>3, <3>3, <3>4, <4>1, <4>2 DEF PaidPerAttempt
        <4>4. ASSUME NEW r \in Runs, phase[r] = "work", step'[r] \in {"check", "provider"},
                     photo[target[r]] # "detached"
              PROVE  paid'[target[r]] < job[target[r]].attempts
          BY <1>3, <3>1, <3>4, <4>1, <4>4, HeldRow DEF PaidPerAttempt
        <4> QED
          BY <1>1, <4>3, <4>4 DEF PaidPerAttempt
      <3> QED
        BY <3>5, <3>6
    <2> QED
      BY <2>1, <2>2
  <1> QED
    BY <1>2, <1>4

\* The remaining steps neither claim nor pay.
LEMMA PeopleLimit ==
    ASSUME LimitInv, People
    PROVE  AttemptsBounded' /\ LostAttemptsCounted' /\ PaidPerAttempt'
  <1> USE QueueAssumption DEF LimitInv, rows, runs, calls
  <1>1. ASSUME NEW p \in Photos, Upload(p) \/ Review(p) \/ DeleteAsset(p)
        PROVE  AttemptsBounded' /\ LostAttemptsCounted' /\ PaidPerAttempt'
    <2>1. /\ UNCHANGED <<phase, step, target, crashes, unsaved>>
          /\ \A q \in Photos :
               \/ /\ photo'[q] = "detached" /\ job'[q] = NoRow /\ paid'[q] = 0
               \/ /\ job'[q] = job[q] /\ paid'[q] = paid[q]
                  /\ photo[q] = "detached" => photo'[q] = "detached"
                  /\ photo[q] # "detached" => photo'[q] # "detached"
      <3>1. CASE Upload(p)
        BY <1>1, <3>1 DEF Upload, QInv, TypeOK
      <3>2. CASE Review(p)
        BY <1>1, <3>2 DEF Review, QInv, TypeOK
      <3>3. CASE DeleteAsset(p)
        BY <1>1, <3>3 DEF DeleteAsset, QInv, TypeOK
      <3> QED
        BY <1>1, <3>1, <3>2, <3>3
    <2>2. crashes \in Nat
      BY DEF QInv, TypeOK
    <2>3. AttemptsBounded' /\ LostAttemptsCounted'
      BY <2>1, <2>2 DEF AttemptsBounded, LostAttemptsCounted, Unattended, NoRow
    <2>4. PaidPerAttempt'
      <3>1. \A r \in Runs : phase[r] = "work" => target[r] \in Photos
        BY DEF QInv, TypeOK, Shape
      <3> QED
        BY <2>1, <3>1 DEF PaidPerAttempt, NoRow
    <2> QED
      BY <2>3, <2>4
  <1>2. ASSUME NEW r \in UploadRuns, NEW batch \in SUBSET Photos, Enqueue(r, batch)
        PROVE  AttemptsBounded' /\ LostAttemptsCounted' /\ PaidPerAttempt'
    <2>1. /\ UNCHANGED <<photo, paid, step, target, crashes, unsaved>>
          /\ \A q \in Runs : phase'[q] = "work" => phase[q] = "work" /\ target[q] \in Photos
      BY <1>2 DEF Enqueue, QInv, TypeOK, Shape
    <2>2. \A p \in Photos : \/ job'[p] = job[p]
                            \/ /\ job[p].status = "NONE" /\ photo[p] # "detached"
                               /\ job'[p] = NewRow
      BY <1>2 DEF Enqueue, CreateOrSkip
    <2>3. crashes \in Nat
      BY DEF QInv, TypeOK
    <2>4. AttemptsBounded' /\ LostAttemptsCounted'
      BY <2>1, <2>2, <2>3 DEF AttemptsBounded, LostAttemptsCounted, Unattended, NewRow, NoRow
    <2>5. PaidPerAttempt'
      <3>1. \A p \in Photos :
              IF job'[p].status # "NONE" THEN paid[p] <= job'[p].attempts
              ELSE photo[p] # "detached" => paid[p] = 0
        BY <2>2 DEF PaidPerAttempt, NewRow, NoRow
      <3>2. ASSUME NEW q \in Runs, phase[q] = "work", photo[target[q]] # "detached"
            PROVE  target[q] \in Photos /\ job'[target[q]] = job[target[q]]
        BY <2>2, <3>2, HeldRow
      <3> QED
        BY <2>1, <3>1, <3>2 DEF PaidPerAttempt
    <2> QED
      BY <2>4, <2>5
  <1>3. ASSUME NEW k \in Clickers, NEW p \in Photos, Click(k, p)
        PROVE  AttemptsBounded' /\ LostAttemptsCounted' /\ PaidPerAttempt'
    <2>1. /\ UNCHANGED <<photo, job, paid, phase, crashes, unsaved>>
          /\ \A r \in Runs : step'[r] = step[r] /\ target'[r] = target[r]
      BY <1>3 DEF Click, QInv, TypeOK
    <2> QED
      BY <2>1 DEF AttemptsBounded, LostAttemptsCounted, Unattended, PaidPerAttempt
  <1> QED
    BY <1>1, <1>2, <1>3 DEF People

LEMMA TickLimit ==
    ASSUME LimitInv, Tick
    PROVE  AttemptsBounded' /\ LostAttemptsCounted' /\ PaidPerAttempt'
  <1>1. \A p \in Photos : /\ job'[p].status = job[p].status
                          /\ job'[p].attempts = job[p].attempts
    BY OlderAges DEF Tick, LimitInv, QInv, TypeOK
  <1>2. UNCHANGED <<photo, paid, phase, step, target, crashes, unsaved>>
    BY DEF Tick, calls
  <1>3. \A r \in Runs : phase[r] = "work" => target[r] \in Photos
    BY QueueAssumption DEF LimitInv, QInv, TypeOK, Shape
  <1> QED
    BY <1>1, <1>2, <1>3 DEF LimitInv, AttemptsBounded, LostAttemptsCounted, Unattended, PaidPerAttempt

LEMMA NextLimitInv == LimitInv /\ [Next]_vars => LimitInv'
  <1> SUFFICES ASSUME LimitInv, [Next]_vars
               PROVE  AttemptsBounded' /\ LostAttemptsCounted' /\ PaidPerAttempt'
    BY NextQInv DEF LimitInv
  <1> USE DEF rows, runs, calls
  <1>1. CASE People
    BY <1>1, PeopleLimit
  <1>2. ASSUME NEW r \in Runs, ReadCandidates(r)
        PROVE  AttemptsBounded' /\ LostAttemptsCounted' /\ PaidPerAttempt'
    <2>1. /\ UNCHANGED <<photo, job, paid, step, target, crashes, unsaved>>
          /\ \A q \in Runs : phase'[q] = "work" => phase[q] = "work"
      BY <1>2 DEF ReadCandidates, LimitInv, QInv, TypeOK
    <2> QED
      BY <2>1 DEF LimitInv, AttemptsBounded, LostAttemptsCounted, Unattended, PaidPerAttempt
  <1>3. ASSUME NEW r \in Runs, NEW c \in todo[r], Claim(r, c)
        PROVE  AttemptsBounded' /\ LostAttemptsCounted' /\ PaidPerAttempt'
    BY <1>3, ClaimLimit
  <1>4. ASSUME NEW r \in Runs, Finish(r) \/ Crash(r)
        PROVE  AttemptsBounded' /\ LostAttemptsCounted' /\ PaidPerAttempt'
    BY <1>4, RecordLimit, ForgetLimit DEF Finish
  <1>5. ASSUME NEW a \in Callers, Analyse(a)
        PROVE  AttemptsBounded' /\ LostAttemptsCounted' /\ PaidPerAttempt'
    BY <1>5, AnalyseLimit
  <1>6. CASE Tick
    BY <1>6, TickLimit
  <1>7. ASSUME UNCHANGED vars \/ \E r \in Runs : \E c \in todo[r] : SkipTaken(r, c)
        PROVE  AttemptsBounded' /\ LostAttemptsCounted' /\ PaidPerAttempt'
    <2>1. UNCHANGED <<photo, job, paid, phase, step, target, crashes, unsaved>>
      BY <1>7 DEF SkipTaken, vars
    <2> QED
      BY <2>1 DEF LimitInv, AttemptsBounded, LostAttemptsCounted, Unattended, PaidPerAttempt
  <1>8. ASSUME NEW k \in Clickers, ClickReturns(k)
        PROVE  AttemptsBounded' /\ LostAttemptsCounted' /\ PaidPerAttempt'
    <2>1. /\ UNCHANGED <<photo, job, paid, phase, target, crashes, unsaved>>
          /\ \A r \in Runs : step'[r] = step[r]
      BY <1>8, QueueAssumption DEF ClickReturns, LimitInv, QInv, TypeOK
    <2> QED
      BY <2>1 DEF LimitInv, AttemptsBounded, LostAttemptsCounted, Unattended, PaidPerAttempt
  <1>9. ASSUME NEW r \in Runs, DoneFails(r)
        PROVE  AttemptsBounded' /\ LostAttemptsCounted' /\ PaidPerAttempt'
    <2>1. /\ UNCHANGED <<photo, job, paid, phase, target, crashes>>
          /\ step'[r] = "retryable" /\ \A q \in Runs : q # r => step'[q] = step[q]
      BY <1>9 DEF DoneFails, LimitInv, QInv, TypeOK
    <2> QED
      BY <2>1 DEF LimitInv, AttemptsBounded, LostAttemptsCounted, Unattended, PaidPerAttempt
  <1> QED
    BY <1>1, <1>2, <1>3, <1>4, <1>5, <1>6, <1>7, <1>8, <1>9 DEF Next, Reach

\* A waiting job has attempts left, a FAILED one has used them all, and no job
\* is attempted more than MaxAttempts times plus once per run cut off.
THEOREM AttemptsStayBounded == Spec => []AttemptsBounded
  <1>1. LimitInv => AttemptsBounded
    BY DEF LimitInv
  <1> QED
    BY <1>1, InitLimitInv, NextLimitInv, PTL DEF Spec

\* The queue is billed at most once per attempt.
THEOREM SpendStaysBounded == Spec => []SpendBounded
  <1>1. LimitInv => SpendBounded
    BY DEF LimitInv, PaidPerAttempt, SpendBounded
  <1> QED
    BY <1>1, InitLimitInv, NextLimitInv, PTL DEF Spec

-----------------------------------------------------------------------------
(***************************************************************************)
(* Findings.  Each finding of a photo has one who answers for it: the run   *)
(* that has just made it or the DONE it led to, of which there is one at a  *)
(* time; a run that was cut off, an update to DONE that failed; or a person whose click made it.           *)
(***************************************************************************)
Found(p) == job[p].status = "DONE" \/ \E r \in Runs : target[r] = p /\ step[r] = "finding"

Clicked(p) == {k \in Clickers : target[k] = p /\ step[k] \in {"finding", "clicked"}}

Kept(p) ==
    IF photo[p] # "stored" THEN open[p] = 0 /\ reviewed[p] = 0
    ELSE /\ open[p] + reviewed[p] <= crashes + unsaved[p] + Cardinality(Clicked(p)) + (IF Found(p) THEN 1 ELSE 0)
         /\ Found(p) => open[p] + reviewed[p] > 0

FindingInv == QInv /\ \A p \in Photos : Kept(p)

\* The people who clicked are finitely many, and more of them never count less.
LEMMA ClickedCounts ==
    ASSUME NEW p \in Photos
    PROVE  /\ IsFiniteSet(Clicked(p)) /\ Cardinality(Clicked(p)) \in Nat
           /\ IsFiniteSet(Clicked(p)') /\ Cardinality(Clicked(p)') \in Nat
           /\ Clicked(p) \subseteq Clicked(p)' => Cardinality(Clicked(p)) <= Cardinality(Clicked(p)')
  <1>1. IsFiniteSet(Clickers) /\ Clicked(p) \subseteq Clickers /\ Clicked(p)' \subseteq Clickers
    BY QueueAssumption DEF Clicked
  <1>2. IsFiniteSet(Clicked(p)) /\ IsFiniteSet(Clicked(p)')
    BY <1>1, FS_Subset
  <1> QED
    BY <1>2, FS_Subset, FS_CardinalityType

\* A step that makes no finding and reviews none.
LEMMA StaysKept ==
    ASSUME FindingInv, QInv', NEW p \in Photos, photo' = photo,
           open'[p] = open[p], reviewed'[p] = reviewed[p], Clicked(p) \subseteq Clicked(p)',
           \/ crashes' = crashes /\ unsaved'[p] = unsaved[p] /\ (Found(p) => Found(p)')
           \/ crashes' = crashes + 1 /\ unsaved'[p] = unsaved[p]
           \/ crashes' = crashes /\ unsaved'[p] = unsaved[p] + 1,
           Found(p)' => Found(p) \/ open[p] + reviewed[p] > 0 \/ photo[p] # "stored"
    PROVE  Kept(p)'
  <1>1. /\ open[p] \in Nat /\ reviewed[p] \in Nat /\ crashes \in Nat /\ unsaved[p] \in Nat /\ Kept(p)
    BY DEF FindingInv, QInv, TypeOK
  <1>2. CASE photo[p] # "stored"
    BY <1>1, <1>2 DEF Kept
  <1>3. CASE photo[p] = "stored"
    <2>1. /\ Cardinality(Clicked(p)) \in Nat /\ Cardinality(Clicked(p)') \in Nat
          /\ Cardinality(Clicked(p)) <= Cardinality(Clicked(p)')
      BY ClickedCounts
    <2>2. open[p] + reviewed[p] <= crashes' + unsaved'[p] + Cardinality(Clicked(p)') + (IF Found(p)' THEN 1 ELSE 0)
      BY <1>1, <1>3, <2>1 DEF Kept
    <2>3. Found(p)' => open[p] + reviewed[p] > 0
      BY <1>1, <1>3 DEF Kept
    <2> QED
      BY <1>3, <2>2, <2>3 DEF Kept
  <1> QED
    BY <1>2, <1>3

LEMMA InitFinding == Init => FindingInv
  <1> SUFFICES ASSUME Init, NEW p \in Photos PROVE Kept(p)
    BY InitQInv DEF FindingInv
  <1> QED
    BY DEF Init, Kept

\* The steps of a run, but for its analysis.
LEMMA RunFinding ==
    ASSUME FindingInv, QInv', NEW r \in Runs, ReadCandidates(r) \/ Reach(r), NEW p \in Photos
    PROVE  Kept(p)'
  <1> USE QueueAssumption DEF FindingInv
  <1>1. /\ UNCHANGED <<photo, open, reviewed, crashes, unsaved>>
        /\ \A k \in Clickers : step'[k] = step[k] /\ target'[k] = target[k]
    BY DEF ReadCandidates, Reach, Claim, SkipTaken, rows, calls, QInv, TypeOK
  <1>2. Found(p)' <=> Found(p)
    <2>1. ASSUME NEW c \in todo[r], Claim(r, c) PROVE Found(p)' <=> Found(p)
      <3>1. c \in Snapshot /\ c.photo \in Photos /\ \A q \in Runs : target[q] # c.photo
        BY <2>1, ClaimIsFree DEF Claim, Snapshot
      <3>2. job[c.photo].status \in {"QUEUED", "RUNNING"} /\ job[c.photo] \in Row
        BY <2>1, <3>1 DEF Claim, Unchanged, Snapshot, QInv, TypeOK
      <3>3. job'[c.photo].status = "RUNNING"
            /\ \A q \in Photos : q # c.photo => job'[q] = job[q]
        BY <2>1, <3>1, <3>2, ClaimedIsRunning DEF Claim, QInv, TypeOK
      <3>4. /\ target[r] = NoPhoto /\ target'[r] = c.photo /\ step'[r] = "check"
            /\ \A q \in Runs : q # r => target'[q] = target[q] /\ step'[q] = step[q]
        BY <2>1, <3>1 DEF Claim, QInv, TypeOK, Shape
      <3> QED
        BY <3>1, <3>2, <3>3, <3>4 DEF Found
    <2>2. ASSUME NEW c \in todo[r], SkipTaken(r, c) PROVE Found(p)' <=> Found(p)
      BY <2>2 DEF SkipTaken, rows, calls, Found
    <2>3. CASE ReadCandidates(r)
      BY <2>3 DEF ReadCandidates, rows, calls, Found
    <2> QED
      BY <2>1, <2>2, <2>3 DEF Reach
  <1>3. Clicked(p)' = Clicked(p)
    BY <1>1 DEF Clicked
  <1> QED
    BY <1>1, <1>2, <1>3, StaysKept

LEMMA RecordFinding ==
    ASSUME FindingInv, QInv', NEW r \in Runs, Record(r), NEW p \in Photos
    PROVE  Kept(p)'
  <1> USE QueueAssumption DEF FindingInv
  <1>1. /\ UNCHANGED <<photo, open, reviewed, crashes, unsaved>>
        /\ \A k \in Clickers : step'[k] = step[k] /\ target'[k] = target[k]
    BY DEF Record, QInv, TypeOK
  <1>2. /\ target[r] \in Photos /\ photo[target[r]] = "stored" /\ phase[r] = "work"
        /\ job[target[r]] \in Row
    BY DEF Record, QInv, TypeOK, Shape, RowsOfStoredPhotos, NoRow
  <1>3. job[target[r]].status = "RUNNING" /\ \A q \in Runs : q # r => target[q] # target[r]
    BY <1>2, HeldRow
  <1>4. /\ job'[target[r]].status = Outcome(r) /\ \A q \in Photos : q # target[r] => job'[q] = job[q]
        /\ Outcome(r) = "DONE" <=> step[r] = "finding"
        /\ target'[r] = NoPhoto
        /\ \A q \in Runs : q # r => target'[q] = target[q] /\ step'[q] = step[q]
    BY <1>2 DEF Record, Outcome, Returned, QInv, TypeOK
  <1>5. Found(p)' <=> Found(p)
    BY <1>2, <1>3, <1>4 DEF Found
  <1>6. Clicked(p)' = Clicked(p)
    BY <1>1 DEF Clicked
  <1> QED
    BY <1>1, <1>5, <1>6, StaysKept

\* A finding whose DONE could not be written is one that nobody answers for.
LEMMA DoneFailsFinding ==
    ASSUME FindingInv, QInv', NEW r \in Runs, DoneFails(r), NEW p \in Photos
    PROVE  Kept(p)'
  <1> USE QueueAssumption DEF FindingInv
  <1>1. /\ UNCHANGED <<photo, job, open, reviewed, target, crashes>> /\ target[r] \in Photos
        /\ step'[r] = "retryable" /\ \A b \in Callers : b # r => step'[b] = step[b]
        /\ unsaved'[target[r]] = unsaved[target[r]] + 1
        /\ p # target[r] => unsaved'[p] = unsaved[p]
    BY DEF DoneFails, rows, runs, QInv, TypeOK, Shape
  <1>2. Clicked(p)' = Clicked(p) /\ (Found(p)' => Found(p))
    BY <1>1 DEF Clicked, Found
  <1>3. CASE p = target[r]
    BY <1>1, <1>2, <1>3, StaysKept
  <1>4. CASE p # target[r]
    <2>1. Found(p)' <=> Found(p)
      BY <1>1, <1>4 DEF Found
    <2> QED
      BY <1>1, <1>2, <1>4, <2>1, StaysKept
  <1> QED
    BY <1>3, <1>4

\* A run that ends leaves no finding unless it was cut off.
LEMMA ForgetFinding ==
    ASSUME FindingInv, QInv', NEW r \in Runs, AbortOnMissingRow(r) \/ EndRun(r) \/ Crash(r),
           NEW p \in Photos
    PROVE  Kept(p)'
  <1> USE QueueAssumption DEF FindingInv
  <1>1. /\ UNCHANGED <<photo, job, open, reviewed, unsaved>> /\ Forget(r)
    BY DEF AbortOnMissingRow, EndRun, Crash, rows
  <1>2. /\ \A k \in Clickers : step'[k] = step[k] /\ target'[k] = target[k]
        /\ \A q \in Runs : q # r => step'[q] = step[q] /\ target'[q] = target[q]
        /\ target'[r] = NoPhoto
    BY <1>1 DEF Forget, QInv, TypeOK
  <1>3. (crashes' = crashes /\ (Found(p) => Found(p)' \/ photo[p] # "stored")) \/ crashes' = crashes + 1
    <2>1. CASE Crash(r)
      BY <2>1 DEF Crash
    <2>2. CASE EndRun(r)
      <3>1. step[r] = "none" /\ crashes' = crashes
        BY <2>2 DEF EndRun, QInv, Shape
      <3> QED
        BY <1>1, <1>2, <3>1 DEF Found
    <2>3. CASE AbortOnMissingRow(r)
      <3>1. photo[target[r]] = "detached" /\ crashes' = crashes
        BY <2>3 DEF AbortOnMissingRow, QInv, Holding
      <3> QED
        BY <1>1, <1>2, <3>1 DEF Found
    <2> QED
      BY <2>1, <2>2, <2>3
  <1>4. Found(p)' => Found(p)
    BY <1>1, <1>2 DEF Found
  <1>5. Clicked(p)' = Clicked(p)
    BY <1>2 DEF Clicked
  <1>6. CASE photo[p] # "stored"
    BY <1>1, <1>6 DEF Kept
  <1>7. CASE photo[p] = "stored"
    BY <1>1, <1>3, <1>4, <1>5, <1>7, StaysKept
  <1> QED
    BY <1>6, <1>7

\* What a caller's step does to the others.
LEMMA AnalyseFinding ==
    ASSUME FindingInv, QInv', NEW a \in Callers, Analyse(a), NEW p \in Photos
    PROVE  Kept(p)'
  <1> USE QueueAssumption DEF FindingInv
  <1>1. /\ UNCHANGED <<photo, job, reviewed, target, crashes, unsaved>> /\ target[a] \in Photos
        /\ step[a] \in {"check", "provider", "answer"}
        /\ \A b \in Callers : b # a => step'[b] = step[b]
    BY DEF Analyse, CheckPhoto, CallProvider, CreateFinding, RefuseAnswer, rows, runs, QInv, TypeOK, Shape
  <1>2. Clicked(p) \subseteq Clicked(p)'
    BY <1>1 DEF Clicked
  <1>3. Found(p) => Found(p)'
    BY <1>1 DEF Found
  <1>4. CASE CallProvider(a) \/ RefuseAnswer(a)
    <2>1. open' = open /\ step'[a] # "finding"
      BY <1>4 DEF CallProvider, RefuseAnswer, rows, QInv, TypeOK
    <2>2. Found(p)' => Found(p)
      BY <1>1, <2>1 DEF Found
    <2> QED
      BY <1>1, <1>2, <1>3, <2>1, <2>2, StaysKept
  <1>5. CASE CheckPhoto(a)
    <2>1. open' = open /\ (step'[a] = "finding" => open[target[a]] > 0)
      BY <1>5 DEF CheckPhoto, HasOpenSuggestion, rows, QInv, TypeOK
    <2>2. Found(p)' => Found(p) \/ open[p] > 0
      BY <1>1, <2>1 DEF Found
    <2>3. open[p] \in Nat /\ reviewed[p] \in Nat
      BY DEF QInv, TypeOK
    <2> QED
      BY <1>1, <1>2, <1>3, <2>1, <2>2, <2>3, StaysKept
  <1>6. CASE CreateFinding(a)
    <2>1. /\ photo[target[a]] = "stored" /\ step[a] = "answer" /\ step'[a] = "finding"
          /\ open'[target[a]] = open[target[a]] + 1 /\ \A q \in Photos : q # target[a] => open'[q] = open[q]
      BY <1>1, <1>6 DEF CreateFinding, QInv, TypeOK
    <2>2. CASE p # target[a]
      <3>1. Found(p)' => Found(p)
        BY <1>1, <2>2 DEF Found
      <3> QED
        BY <1>1, <1>2, <1>3, <2>1, <2>2, <3>1, StaysKept
    <2>3. CASE p = target[a] /\ a \in Runs
      <3>1. phase[a] = "work"
        BY <1>1, <2>3 DEF QInv, Shape
      <3>2. job[p].status = "RUNNING" /\ \A q \in Runs : q # a => target[q] # p
        BY <2>1, <2>3, <3>1, HeldRow
      <3>3. ~Found(p) /\ Found(p)'
        BY <1>1, <2>1, <2>3, <3>2 DEF Found
      <3>4. /\ open[p] \in Nat /\ reviewed[p] \in Nat /\ crashes \in Nat /\ unsaved[p] \in Nat
            /\ open[p] + reviewed[p] <= crashes + unsaved[p] + Cardinality(Clicked(p))
        BY <2>1, <2>3, <3>3, ClickedCounts DEF Kept, QInv, TypeOK
      <3>5. open'[p] + reviewed[p] <= crashes + unsaved[p] + Cardinality(Clicked(p)') + 1 /\ open'[p] + reviewed[p] > 0
        BY <1>2, <2>1, <2>3, <3>4, ClickedCounts
      <3> QED
        BY <1>1, <2>1, <2>3, <3>3, <3>5 DEF Kept
    <2>4. CASE p = target[a] /\ a \in Clickers
      <3>1. a \notin Clicked(p) /\ a \in Clicked(p)'
        BY <1>1, <2>1, <2>4 DEF Clicked
      <3>2. Found(p)' <=> Found(p)
        BY <1>1, <2>4 DEF Found
      <3>3. Cardinality(Clicked(p)) + 1 <= Cardinality(Clicked(p)')
        <4>1. Clicked(p) \cup {a} \subseteq Clicked(p)'
          BY <1>2, <3>1
        <4>2. /\ IsFiniteSet(Clicked(p) \cup {a})
              /\ Cardinality(Clicked(p) \cup {a}) = Cardinality(Clicked(p)) + 1
          BY <3>1, ClickedCounts, FS_AddElement
        <4> QED
          BY <4>1, <4>2, ClickedCounts, FS_Subset
      <3>4. /\ open[p] \in Nat /\ reviewed[p] \in Nat /\ crashes \in Nat /\ unsaved[p] \in Nat
            /\ open[p] + reviewed[p] <= crashes + unsaved[p] + Cardinality(Clicked(p)) + (IF Found(p) THEN 1 ELSE 0)
        BY <2>1, <2>4 DEF Kept, QInv, TypeOK
      <3>5. /\ open'[p] + reviewed[p] <= crashes + unsaved[p] + Cardinality(Clicked(p)') + (IF Found(p)' THEN 1 ELSE 0)
            /\ open'[p] + reviewed[p] > 0
        BY <2>1, <2>4, <3>2, <3>3, <3>4, ClickedCounts
      <3> QED
        BY <1>1, <2>1, <2>4, <3>5 DEF Kept
    <2> QED
      BY <2>2, <2>3, <2>4
  <1> QED
    BY <1>4, <1>5, <1>6 DEF Analyse

LEMMA PeopleFinding ==
    ASSUME FindingInv, QInv', People, NEW p \in Photos PROVE Kept(p)'
  <1> USE QueueAssumption DEF FindingInv, runs, calls, rows
  <1>1. ASSUME NEW q \in Photos, Upload(q) \/ Review(q) \/ DeleteAsset(q) PROVE Kept(p)'
    <2>1. UNCHANGED <<step, target, crashes, unsaved>> /\ Clicked(p)' = Clicked(p)
      BY <1>1 DEF Upload, Review, DeleteAsset, Clicked
    <2>2. /\ open[p] \in Nat /\ reviewed[p] \in Nat /\ crashes \in Nat /\ unsaved[p] \in Nat /\ Cardinality(Clicked(p)) \in Nat
      BY ClickedCounts DEF QInv, TypeOK
    <2>3. CASE Upload(q)
      <3>1. CASE q = p
        <4>1. /\ photo[p] # "stored" /\ job[p] = NoRow /\ job' = job
              /\ open' = open /\ reviewed' = reviewed /\ open[p] = 0 /\ reviewed[p] = 0
          BY <2>3, <3>1 DEF Upload, QInv, RowsOfStoredPhotos, Kept
        <4>2. ~Found(p)'
          <5>1. ASSUME NEW r \in Runs, target[r] = p, step[r] = "finding" PROVE FALSE
            BY <2>3, <3>1, <4>1, <5>1 DEF Upload, QInv, Shape, Holding, NoRow
          <5> QED
            BY <2>1, <4>1, <5>1 DEF Found, NoRow
        <4> QED
          BY <2>1, <2>2, <4>1, <4>2 DEF Kept
      <3>2. CASE q # p
        BY <2>1, <2>3, <3>2 DEF Upload, Kept, Found, QInv, TypeOK
      <3> QED
        BY <3>1, <3>2
    <2>4. CASE Review(q)
      <3>1. photo' = photo /\ (Found(p)' <=> Found(p))
        BY <2>1, <2>4 DEF Review, Found
      <3>2. CASE q = p
        <4>1. /\ open'[p] = open[p] - 1 /\ reviewed'[p] = reviewed[p] + 1 /\ photo[p] = "stored"
              /\ open'[p] + reviewed'[p] = open[p] + reviewed[p]
          BY <2>2, <2>4, <3>2, SMTT(30) DEF Review, QInv, TypeOK, Kept
        <4> QED
          BY <2>1, <3>1, <4>1 DEF Kept
      <3>3. CASE q # p
        BY <2>1, <2>4, <3>1, <3>3 DEF Review, Kept, QInv, TypeOK
      <3> QED
        BY <3>2, <3>3
    <2>5. CASE DeleteAsset(q)
      <3>1. CASE q = p
        BY <2>5, <3>1 DEF DeleteAsset, Kept, QInv, TypeOK
      <3>2. CASE q # p
        BY <2>1, <2>5, <3>2 DEF DeleteAsset, Kept, Found, QInv, TypeOK
      <3> QED
        BY <3>1, <3>2
    <2> QED
      BY <1>1, <2>3, <2>4, <2>5
  <1>2. ASSUME NEW r \in UploadRuns, NEW batch \in SUBSET Photos, Enqueue(r, batch) PROVE Kept(p)'
    <2>1. UNCHANGED <<photo, open, reviewed, step, target, crashes, unsaved>>
      BY <1>2 DEF Enqueue
    <2>2. job'[p].status = "DONE" <=> job[p].status = "DONE"
      BY <1>2 DEF Enqueue, CreateOrSkip, NewRow, NoRow
    <2>3. (Found(p)' <=> Found(p)) /\ Clicked(p)' = Clicked(p)
      BY <2>1, <2>2 DEF Found, Clicked
    <2> QED
      BY <2>1, <2>3, StaysKept
  <1>3. ASSUME NEW k \in Clickers, NEW q \in Photos, Click(k, q) PROVE Kept(p)'
    <2>1. /\ UNCHANGED <<photo, open, reviewed, job, crashes, unsaved>> /\ step[k] = "none"
          /\ \A b \in Callers : b # k => step'[b] = step[b] /\ target'[b] = target[b]
      BY <1>3 DEF Click, QInv, TypeOK
    <2>2. Clicked(p) \subseteq Clicked(p)' /\ (Found(p)' <=> Found(p))
      BY <2>1 DEF Clicked, Found
    <2> QED
      BY <2>1, <2>2, StaysKept
  <1> QED
    BY <1>1, <1>2, <1>3 DEF People

LEMMA NextFinding == FindingInv /\ [Next]_vars => FindingInv'
  <1> SUFFICES ASSUME FindingInv, [Next]_vars, QInv', NEW p \in Photos PROVE Kept(p)'
    BY NextQInv DEF FindingInv
  <1>1. ASSUME NEW r \in Runs, DoneFails(r) \/ Finish(r) \/ Crash(r) PROVE Kept(p)'
    BY <1>1, DoneFailsFinding, RecordFinding, ForgetFinding DEF Finish
  <1>2. ASSUME NEW k \in Clickers, ClickReturns(k) PROVE Kept(p)'
    <2>1. /\ UNCHANGED <<photo, open, reviewed, job, target, crashes, unsaved>>
          /\ step'[k] = "clicked" /\ \A b \in Callers : b # k => step'[b] = step[b]
      BY <1>2 DEF ClickReturns, rows, FindingInv, QInv, TypeOK
    <2>2. Clicked(p) \subseteq Clicked(p)' /\ (Found(p)' <=> Found(p))
      BY <2>1, QueueAssumption DEF Clicked, Found
    <2> QED
      BY <2>1, <2>2, StaysKept
  <1>3. CASE Tick
    <2>1. UNCHANGED <<photo, open, reviewed, step, target, crashes, unsaved>> /\ job'[p].status = job[p].status
      BY <1>3, OlderAges DEF Tick, calls, FindingInv, QInv, TypeOK
    <2>2. Clicked(p)' = Clicked(p) /\ (Found(p)' <=> Found(p))
      BY <2>1 DEF Clicked, Found
    <2> QED
      BY <2>1, <2>2, StaysKept
  <1>4. CASE UNCHANGED vars
    BY <1>4 DEF vars, FindingInv, Kept, Found, Clicked
  <1> QED
    BY <1>1, <1>2, <1>3, <1>4, RunFinding, AnalyseFinding, PeopleFinding DEF Next

\* Findings and jobs account for each other: a photo has one finding of the
\* queue's, another only for a run cut off, a DONE that was not written or a click, and a job that
\* is DONE has its finding (ai/photo-analysis.ts, ai/photo-analysis-queue.ts).
THEOREM FindingsStayKept == Spec => []FindingsAreKept
  <1>1. FindingInv => FindingsAreKept
    <2> SUFFICES ASSUME FindingInv, NEW p \in Photos
                 PROVE  /\ open[p] + reviewed[p] <= 1 + crashes + unsaved[p] + Cardinality({k \in Clickers : target[k] = p})
                        /\ job[p].status = "DONE" => open[p] + reviewed[p] > 0
      BY DEF FindingInv, QInv, FindingsAreKept, FindingsAccountedFor, DoneHasFinding
    <2>1. Kept(p) /\ open[p] \in Nat /\ reviewed[p] \in Nat /\ crashes \in Nat /\ unsaved[p] \in Nat
      BY DEF FindingInv, QInv, TypeOK
    <2>2. /\ Cardinality({k \in Clickers : target[k] = p}) \in Nat
          /\ Cardinality(Clicked(p)) \in Nat
          /\ Cardinality(Clicked(p)) <= Cardinality({k \in Clickers : target[k] = p})
      <3>1. IsFiniteSet({k \in Clickers : target[k] = p})
        BY QueueAssumption, FS_Subset
      <3>2. Clicked(p) \subseteq {k \in Clickers : target[k] = p}
        BY DEF Clicked
      <3> QED
        BY <3>1, <3>2, FS_Subset, FS_CardinalityType
    <2>3. job[p].status = "DONE" => photo[p] = "stored" /\ Found(p)
      BY DEF FindingInv, QInv, RowsOfStoredPhotos, NoRow, Found
    <2> QED
      BY <2>1, <2>2, <2>3 DEF Kept
  <1> QED
    BY <1>1, InitFinding, NextFinding, PTL DEF Spec
-----------------------------------------------------------------------------
(***************************************************************************)
(* The contract.  A job is in hand of the run that has its photo as its     *)
(* target, of one at most (ExclusiveAnalysis): what the mapping chooses is  *)
(* no choice.                                                               *)
(***************************************************************************)
Held ==
    \A p \in Photos :
        /\ inHandOf[p] \in Runs \cup {NoPhoto}
        /\ \A r \in Runs : inHandOf[p] = r <=> target[r] = p

LEMMA JobsAreHeld == (QInv => Held) /\ (QInv' => Held')
  <1>1. ASSUME NEW p \in Photos, NEW hand,
               \A r, q \in Runs : hand[r] = p /\ hand[q] = p => r = q
        PROVE  LET h == IF \E r \in Runs : hand[r] = p THEN CHOOSE r \in Runs : hand[r] = p ELSE NoPhoto
               IN h \in Runs \cup {NoPhoto} /\ \A r \in Runs : h = r <=> hand[r] = p
    BY <1>1, QueueAssumption, Zenon
  <1>2. ASSUME QInv PROVE Held
    <2>1. \A p \in Photos : \A r, q \in Runs : target[r] = p /\ target[q] = p => r = q
      BY <1>2, QueueAssumption DEF QInv, ExclusiveAnalysis
    <2> QED
      BY <1>1, <2>1, Zenon DEF Held, inHandOf
  <1>3. ASSUME QInv' PROVE Held'
    <2>1. \A p \in Photos : \A r, q \in Runs : target'[r] = p /\ target'[q] = p => r = q
      BY <1>3, QueueAssumption DEF QInv, ExclusiveAnalysis
    <2> QED
      BY <1>1, <2>1, Zenon DEF Held, inHandOf
  <1> QED
    BY <1>2, <1>3

\* What the contract sees of a photo is its deletion and the status of its row.
LEMMA SameJobs ==
    ASSUME \A p \in Photos : /\ photo'[p] = "detached" <=> photo[p] = "detached"
                             /\ job'[p].status = job[p].status
    PROVE  jobState' = jobState
  BY DEF jobState

\* Who has a job is told by what each run has.
LEMMA HandIsKnown ==
    ASSUME NEW h \in Runs \cup {NoPhoto}, NEW g \in Runs \cup {NoPhoto}, \A r \in Runs : h = r <=> g = r
    PROVE  h = g
  <1>1. CASE h \in Runs
    BY <1>1
  <1>2. CASE h = NoPhoto
    BY <1>2, QueueAssumption
  <1> QED
    BY <1>1, <1>2

LEMMA HandsAreKnown ==
    ASSUME Held, Held', NEW p \in Photos, \A r \in Runs : inHandOf'[p] = r <=> inHandOf[p] = r
    PROVE  inHandOf'[p] = inHandOf[p]
  <1>1. inHandOf[p] \in Runs \cup {NoPhoto}
    BY Zenon DEF Held
  <1>2. inHandOf'[p] \in Runs \cup {NoPhoto}
    BY Zenon DEF Held
  <1> QED
    BY <1>1, <1>2, HandIsKnown

LEMMA HandsAreHands ==
    /\ inHandOf = [p \in Photos |-> inHandOf[p]]
    /\ inHandOf' = [p \in Photos |-> inHandOf'[p]]
  <1>1. inHandOf = [p \in Photos |-> inHandOf[p]]
    BY Zenon DEF inHandOf
  <1>2. inHandOf' = [p \in Photos |-> inHandOf'[p]]
    BY Zenon DEF inHandOf
  <1> QED
    BY <1>1, <1>2

LEMMA NewJobs ==
    ASSUME NEW p \in Photos, photo[p] # "detached", job[p].status = "NONE"
    PROVE  jobState[p] = "none"
  <1>1. jobState[p] = CASE job[p].status = "NONE" -> "none"
                        [] job[p].status \in Settled -> "settled"
                        [] OTHER -> "waiting"
    BY DEF jobState
  <1> QED
    BY <1>1 DEF Settled

LEMMA SameHands ==
    ASSUME Held, Held', \A r \in Runs : target'[r] = target[r]
    PROVE  inHandOf' = inHandOf
  <1>1. ASSUME NEW p \in Photos PROVE inHandOf'[p] = inHandOf[p]
    <2>1. ASSUME NEW a \in Runs PROVE inHandOf'[p] = a <=> inHandOf[p] = a
      <3>1. (inHandOf'[p] = a <=> target'[a] = p) /\ (inHandOf[p] = a <=> target[a] = p)
        BY Zenon DEF Held
      <3> QED
        BY <3>1
    <2> QED
      BY <2>1, HandsAreKnown
  <1> QED
    BY <1>1, HandsAreHands, Zenon

\* One run takes a job, or lets it go.
LEMMA HandTakes ==
    ASSUME Held, Held', NEW r \in Runs, NEW p \in Photos, target'[r] = p,
           \A q \in Runs : target[q] # p /\ (q # r => target'[q] = target[q]),
           target[r] = NoPhoto
    PROVE  inHandOf' = [inHandOf EXCEPT ![p] = r]
  <1>1. inHandOf'[p] = r
    BY DEF Held
  <1>2. ASSUME NEW q \in Photos, q # p PROVE inHandOf'[q] = inHandOf[q]
    <2>1. ASSUME NEW a \in Runs PROVE inHandOf'[q] = a <=> inHandOf[q] = a
      <3>1. (inHandOf'[q] = a <=> target'[a] = q) /\ (inHandOf[q] = a <=> target[a] = q)
        BY Zenon DEF Held
      <3>2. target'[a] = q <=> target[a] = q
        BY <1>2, QueueAssumption
      <3> QED
        BY <3>1, <3>2
    <2> QED
      BY <2>1, HandsAreKnown
  <1> QED
    BY <1>1, <1>2, HandsAreHands

LEMMA HandReleases ==
    ASSUME Held, Held', NEW r \in Runs, NEW p \in Photos, target[r] = p, target'[r] = NoPhoto,
           \A q \in Runs : q # r => target'[q] = target[q]
    PROVE  inHandOf[p] = r /\ inHandOf' = [inHandOf EXCEPT ![p] = NoPhoto]
  <1>1. inHandOf[p] = r
    BY DEF Held
  <1>2. inHandOf'[p] = NoPhoto
    BY <1>1, QueueAssumption DEF Held
  <1>3. ASSUME NEW q \in Photos, q # p PROVE inHandOf'[q] = inHandOf[q]
    <2>1. ASSUME NEW a \in Runs PROVE inHandOf'[q] = a <=> inHandOf[q] = a
      <3>1. (inHandOf'[q] = a <=> target'[a] = q) /\ (inHandOf[q] = a <=> target[a] = q)
        BY Zenon DEF Held
      <3>2. target'[a] = q <=> target[a] = q
        BY <1>3, QueueAssumption
      <3> QED
        BY <3>1, <3>2
    <2> QED
      BY <2>1, HandsAreKnown
  <1> QED
    BY <1>1, <1>2, <1>3, HandsAreHands

LEMMA InitLease == Init => Lease!LeaseInit
  <1> SUFFICES ASSUME Init PROVE Lease!LeaseInit
    OBVIOUS
  <1>1. jobState = [p \in Photos |-> "none"]
    <2>1. \A p \in Photos : photo[p] # "detached" /\ job[p].status = "NONE"
      BY DEF Init, NoRow
    <2>2. \A p \in Photos : jobState[p] = "none"
      BY <2>1, NewJobs
    <2>3. jobState = [p \in Photos |-> jobState[p]]
      BY DEF jobState
    <2> QED
      BY <2>2, <2>3
  <1>2. \A p \in Photos : \A r \in Runs : target[r] # p
    BY QueueAssumption DEF Init
  <1>3. inHandOf = [p \in Photos |-> NoPhoto]
    BY <1>2, Zenon DEF inHandOf
  <1> QED
    BY <1>1, <1>3 DEF Lease!LeaseInit

\* What only moves within runs, or between people, is no step of the contract.
LEMMA QuietLease ==
    ASSUME QInv, QInv', [Next]_vars, \A r \in Runs : target'[r] = target[r],
           \A p \in Photos : /\ photo'[p] = "detached" <=> photo[p] = "detached"
                             /\ job'[p].status = job[p].status
    PROVE  UNCHANGED <<jobState, inHandOf>>
  BY JobsAreHeld, SameJobs, SameHands

LEMMA ClaimLease ==
    ASSUME QInv, QInv', NEW r \in Runs, NEW c \in todo[r], Claim(r, c)
    PROVE  Lease!Take(r, c.photo)
  <1>1. /\ c \in Snapshot /\ photo[c.photo] = "stored"
        /\ \A q \in Runs : target[q] # c.photo
    BY ClaimIsFree DEF Claim
  <1>2. c.photo \in Photos /\ job[c.photo].status \in {"QUEUED", "RUNNING"}
    BY <1>1 DEF Snapshot, Claim, Unchanged
  <1>3. target[r] = NoPhoto
    BY QueueAssumption DEF Claim, QInv, TypeOK, Shape
  <1>4. target'[r] = c.photo /\ \A q \in Runs : q # r => target'[q] = target[q]
    BY DEF Claim, QInv, TypeOK
  <1>5. Held /\ Held'
    BY JobsAreHeld
  <1>6. inHandOf' = [inHandOf EXCEPT ![c.photo] = r]
    BY <1>1, <1>2, <1>3, <1>4, <1>5, HandTakes
  <1>7. jobState[c.photo] = "waiting"
    BY <1>1, <1>2 DEF jobState, Settled
  <1>8. jobState' = jobState
    <2>1. photo' = photo /\ job'[c.photo].status = "RUNNING" /\ \A p \in Photos : p # c.photo => job'[p] = job[p]
      BY <1>2 DEF Claim, Claimed, QInv, TypeOK
    <2>2. ASSUME NEW p \in Photos PROVE jobState'[p] = jobState[p]
      <3>1. CASE p = c.photo
        BY <1>1, <1>7, <2>1, <3>1 DEF jobState, Settled
      <3>2. CASE p # c.photo
        BY <2>1, <3>2 DEF jobState
      <3> QED
        BY <3>1, <3>2
    <2> QED
      BY <2>2 DEF jobState
  <1>9. inHandOf[c.photo] = NoPhoto /\ \A p \in Photos : inHandOf[p] # r
    <2>1. inHandOf[c.photo] \in Runs \cup {NoPhoto} /\ \A q \in Runs : inHandOf[c.photo] # q
      <3>1. /\ inHandOf[c.photo] \in Runs \cup {NoPhoto}
            /\ \A q \in Runs : inHandOf[c.photo] = q <=> target[q] = c.photo
        BY <1>2, <1>5, Zenon DEF Held
      <3> QED
        BY <1>1, <3>1
    <2>2. ASSUME NEW p \in Photos PROVE inHandOf[p] # r
      <3>1. inHandOf[p] = r <=> target[r] = p
        BY <1>5, Zenon DEF Held
      <3> QED
        BY <1>3, <3>1, QueueAssumption
    <2> QED
      BY <2>1, <2>2
  <1> QED
    BY <1>6, <1>7, <1>8, <1>9 DEF Lease!Take

\* A run that ends with a photo in hand gives it back.
LEMMA ForgetLease ==
    ASSUME QInv, QInv', NEW r \in Runs, Forget(r), UNCHANGED rows
    PROVE  (\E p \in Photos : Lease!Release(r, p)) \/ UNCHANGED <<jobState, inHandOf>>
  <1>1. jobState' = jobState
    BY SameJobs DEF rows
  <1>2. target'[r] = NoPhoto /\ \A q \in Runs : q # r => target'[q] = target[q]
    BY DEF Forget, QInv, TypeOK
  <1>3. target[r] \in Photos \cup {NoPhoto}
    BY DEF QInv, TypeOK
  <1>4. CASE target[r] = NoPhoto
    BY <1>1, <1>2, <1>4, JobsAreHeld, SameHands
  <1>5. CASE target[r] \in Photos
    <2>1. inHandOf[target[r]] = r /\ inHandOf' = [inHandOf EXCEPT ![target[r]] = NoPhoto]
      BY <1>2, <1>5, JobsAreHeld, HandReleases
    <2>2. Lease!Release(r, target[r])
      BY <1>1, <2>1 DEF Lease!Release
    <2> QED
      BY <1>5, <2>2
  <1> QED
    BY <1>3, <1>4, <1>5

LEMMA RecordLease ==
    ASSUME QInv, QInv', NEW r \in Runs, Record(r)
    PROVE  \E p \in Photos : Lease!Settle(r, p) \/ Lease!Release(r, p)
  <1> DEFINE p == target[r]
  <1>1. p \in Photos /\ job[p] \in Row
    BY QueueAssumption DEF Record, QInv, TypeOK, Shape
  <1>2. job[p].status = "RUNNING" /\ photo[p] # "detached"
    BY <1>1 DEF Record, QInv, Holding, RowsOfStoredPhotos, NoRow
  <1>3. target'[r] = NoPhoto /\ \A q \in Runs : q # r => target'[q] = target[q]
    BY DEF Record, QInv, TypeOK
  <1>4. inHandOf[p] = r /\ inHandOf' = [inHandOf EXCEPT ![p] = NoPhoto]
    BY <1>1, <1>3, JobsAreHeld, HandReleases
  <1>5. photo' = photo /\ job'[p].status = Outcome(r) /\ \A q \in Photos : q # p => job'[q] = job[q]
    BY <1>1 DEF Record, QInv, TypeOK
  <1>6. Outcome(r) \in Settled \/ Outcome(r) = "QUEUED"
    BY DEF Outcome, Settled
  <1>7. jobState[p] = "waiting"
    BY <1>1, <1>2 DEF jobState, Settled
  <1>8. CASE Outcome(r) \in Settled
    <2>1. jobState' = [jobState EXCEPT ![p] = "settled"]
      BY <1>1, <1>2, <1>5, <1>8 DEF jobState, Settled
    <2> QED
      BY <1>1, <1>4, <1>7, <2>1 DEF Lease!Settle
  <1>9. CASE Outcome(r) = "QUEUED"
    <2>1. jobState' = jobState
      BY <1>1, <1>2, <1>5, <1>9 DEF jobState, Settled
    <2> QED
      BY <1>1, <1>4, <2>1 DEF Lease!Release
  <1> QED
    BY <1>6, <1>8, <1>9

\* The upload request submits the photos that have no row yet.
LEMMA EnqueueLease ==
    ASSUME QInv, QInv', NEW r \in UploadRuns, NEW batch \in SUBSET Photos, Enqueue(r, batch)
    PROVE  \E b \in SUBSET Photos : Lease!Submit(b)
  <1> DEFINE b == {p \in batch : job[p].status = "NONE"}
  <1>1. \A p \in Photos : job'[p] = IF p \in b THEN NewRow ELSE job[p]
    BY DEF Enqueue, CreateOrSkip
  <1>2. photo' = photo /\ \A p \in batch : photo[p] = "stored"
    BY DEF Enqueue
  <1>3. \A p \in b : jobState[p] = "none"
    <2>1. ASSUME NEW p \in b PROVE p \in Photos /\ photo[p] # "detached" /\ job[p].status = "NONE"
      BY <1>2
    <2> QED
      BY <2>1, NewJobs
  <1>4. NewRow.status = "QUEUED"
    BY DEF NewRow, NoRow
  <1>5. jobState' = [p \in Photos |-> IF p \in b THEN "waiting" ELSE jobState[p]]
    BY <1>1, <1>2, <1>4 DEF jobState, Settled
  <1>6. inHandOf' = inHandOf
    BY JobsAreHeld, SameHands DEF Enqueue, calls
  <1> QED
    BY <1>3, <1>5, <1>6 DEF Lease!Submit

LEMMA DeleteLease ==
    ASSUME QInv, QInv', NEW p \in Photos, DeleteAsset(p)
    PROVE  Lease!Withdraw(p)
  <1>1. photo[p] = "stored" /\ photo'[p] = "detached"
        /\ \A q \in Photos : q # p => photo'[q] = photo[q] /\ job'[q] = job[q]
    BY DEF DeleteAsset, QInv, TypeOK
  <1>2. jobState[p] # "gone"
    BY <1>1 DEF jobState
  <1>3. jobState' = [jobState EXCEPT ![p] = "gone"]
    <2>1. jobState'[p] = "gone"
      BY <1>1 DEF jobState
    <2>2. \A q \in Photos : q # p => jobState'[q] = jobState[q]
      BY <1>1 DEF jobState
    <2>3. jobState' = [q \in Photos |-> jobState'[q]] /\ jobState = [q \in Photos |-> jobState[q]]
      BY DEF jobState
    <2> QED
      BY <2>1, <2>2, <2>3
  <1>4. inHandOf' = inHandOf
    BY JobsAreHeld, SameHands DEF DeleteAsset, calls
  <1> QED
    BY <1>2, <1>3, <1>4 DEF Lease!Withdraw

LEMMA StepLease ==
    QInv /\ QInv' /\ [Next]_vars => [Lease!LeaseNext]_(Lease!leaseVars)
  <1> SUFFICES ASSUME QInv, QInv', [Next]_vars
               PROVE  Lease!LeaseNext \/ UNCHANGED <<jobState, inHandOf>>
    BY DEF Lease!leaseVars
  <1> USE DEF rows, runs, calls
  <1>1. ASSUME NEW r \in UploadRuns, NEW batch \in SUBSET Photos, Enqueue(r, batch) PROVE Lease!LeaseNext
    BY <1>1, EnqueueLease DEF Lease!LeaseNext
  <1>2. ASSUME NEW p \in Photos, DeleteAsset(p) PROVE Lease!LeaseNext
    BY <1>2, DeleteLease DEF Lease!LeaseNext
  <1>3. ASSUME NEW r \in Runs, NEW c \in todo[r], Claim(r, c) PROVE Lease!LeaseNext
    <2>1. c.photo \in Photos
      BY DEF QInv, TypeOK, Snapshot
    <2> QED
      BY <1>3, <2>1, ClaimLease DEF Lease!LeaseNext
  <1>4. ASSUME NEW r \in Runs, Record(r) PROVE Lease!LeaseNext
    BY <1>4, RecordLease DEF Lease!LeaseNext
  <1>5. ASSUME NEW r \in Runs, AbortOnMissingRow(r) \/ EndRun(r) \/ Crash(r)
        PROVE  Lease!LeaseNext \/ UNCHANGED <<jobState, inHandOf>>
    BY <1>5, ForgetLease DEF AbortOnMissingRow, EndRun, Crash, Lease!LeaseNext
  <1>6. ASSUME NEW p \in Photos, Upload(p) PROVE UNCHANGED <<jobState, inHandOf>>
    <2>1. photo' = [photo EXCEPT ![p] = "stored"] /\ photo[p] = "absent" /\ photo \in [Photos -> {"absent", "stored", "detached"}]
      BY <1>6 DEF Upload, QInv, TypeOK
    <2> QED
      BY <1>6, <2>1, QuietLease DEF Upload
  <1>7. ASSUME NEW k \in Clickers, NEW p \in Photos, Click(k, p) PROVE UNCHANGED <<jobState, inHandOf>>
    <2>1. \A r \in Runs : target'[r] = target[r]
      BY <1>7, QueueAssumption DEF Click, QInv, TypeOK
    <2> QED
      BY <1>7, <2>1, QuietLease DEF Click
  <1>8. CASE Tick
    <2>1. \A p \in Photos : job'[p].status = job[p].status
      BY <1>8, OlderAges DEF Tick, QInv, TypeOK
    <2> QED
      BY <1>8, <2>1, QuietLease DEF Tick
  <1>9. ASSUME UNCHANGED <<photo, job, target>> PROVE UNCHANGED <<jobState, inHandOf>>
    BY <1>9, QuietLease
  <1>10. ASSUME NEW a \in Callers, Analyse(a) PROVE UNCHANGED <<photo, job, target>>
    BY <1>10 DEF Analyse, CheckPhoto, CallProvider, CreateFinding, RefuseAnswer
  <1>11. ASSUME NEW r \in Runs, ReadCandidates(r) PROVE UNCHANGED <<photo, job, target>>
    BY <1>11 DEF ReadCandidates
  <1>12. ASSUME NEW r \in Runs, NEW c \in todo[r], SkipTaken(r, c) PROVE UNCHANGED <<photo, job, target>>
    BY <1>12 DEF SkipTaken
  <1>13. ASSUME NEW k \in Clickers, ClickReturns(k) PROVE UNCHANGED <<photo, job, target>>
    BY <1>13 DEF ClickReturns
  <1>14. ASSUME NEW p \in Photos, Review(p) PROVE UNCHANGED <<photo, job, target>>
    BY <1>14 DEF Review
  <1>15. ASSUME UNCHANGED vars PROVE UNCHANGED <<photo, job, target>>
    BY <1>15 DEF vars
  <1>16. CASE People
    BY <1>1, <1>2, <1>6, <1>7, <1>9, <1>14, <1>16 DEF People
  <1>17. ASSUME NEW r \in Runs, ReadCandidates(r) \/ Reach(r) \/ DoneFails(r) \/ Finish(r) \/ Crash(r)
         PROVE  Lease!LeaseNext \/ UNCHANGED <<jobState, inHandOf>>
    BY <1>3, <1>4, <1>5, <1>9, <1>11, <1>12, <1>17 DEF DoneFails, Reach, Finish
  <1> QED
    BY <1>8, <1>9, <1>10, <1>13, <1>15, <1>16, <1>17 DEF Next

\* The queue keeps the contract of a table of leased jobs, whatever its runs
\* do, and whatever kills them: none is taken while a run has it, none is
\* settled by a run that has lost it, and a settled one is never taken again.
THEOREM QueueImplementsLease == Spec => ImplementsLease
  <1> QED
    BY InitQInv, NextQInv, InitLease, StepLease, PTL DEF Spec, ImplementsLease, Lease!LeaseSpec
=============================================================================
