------------------------ MODULE PhotoAnalysisQueue ------------------------
(***************************************************************************)
(* The automatic photo analysis queue: src/lib/ai/photo-analysis-queue.ts, *)
(* the analysis it calls (runPhotoAnalysis in ai/photo-analysis.ts) and    *)
(* the code that starts it (ai/start-auto-analysis.ts, the sweep routes).  *)
(*                                                                         *)
(* Several processes share one table of jobs.  An UPLOAD RUN works through *)
(* the photos of one upload after the response has gone out; a SWEEP works *)
(* through whatever is QUEUED and takes back what has been RUNNING for too *)
(* long; a CLICKER is a person who pressed "Analyse with AI", which runs   *)
(* the same analysis without touching the queue.  The platform kills a run *)
(* at RunLifetime, or at any earlier moment.                               *)
(*                                                                         *)
(* Time is an age: elapsed[r] since run r began, job[p].age since the      *)
(* claim (the column startedAt).  The column updatedAt is job[p].rev, a    *)
(* number that every write of the row changes.                             *)
(***************************************************************************)
EXTENDS Integers, FiniteSets

CONSTANTS
    Photos,         \* evidence the queue can rate (type, size, asset, vendor)
    UploadRuns,     \* slots for processPhotoAnalysisJobs({ jobIds })
    Sweeps,         \* slots for processPhotoAnalysisJobs() of the cron route
    Clickers,       \* people who press the button, once each
    NoPhoto,        \* what a caller that analyses nothing has in hand
    MaxAttempts,    \* MAX_ATTEMPTS
    StaleRunning,   \* STALE_RUNNING_MS
    RunLifetime,    \* maxDuration of the functions that run the queue
    Budget,         \* timeBudgetMs
    MaxCrashes      \* bound: how many runs are cut off in a behaviour

Runs == UploadRuns \cup Sweeps

Callers == Runs \cup Clickers

(***************************************************************************)
(* RunLifetime <= StaleRunning is what makes the take-over of a stale job  *)
(* sound: the functions have 300 s (maxDuration), the job ten minutes.     *)
(***************************************************************************)
ASSUME QueueAssumption ==
    /\ UploadRuns \cap Sweeps = {}
    /\ Runs \cap Clickers = {}
    /\ NoPhoto \notin Photos \cup Runs
    /\ IsFiniteSet(Clickers)
    /\ MaxAttempts \in Nat \ {0}
    /\ StaleRunning \in Nat /\ RunLifetime \in Nat /\ Budget \in Nat
    /\ MaxCrashes \in Nat
    /\ RunLifetime <= StaleRunning

VARIABLES
    photo,      \* photo[p]: no row yet, stored, or detached (its asset is deleted)
    job,        \* job[p]: the PhotoAnalysisJob row of photo p
    open,       \* open[p]: findings of p and its asset that are SUGGESTED
    reviewed,   \* reviewed[p]: those somebody confirmed or rejected
    paid,       \* paid[p]: provider calls the queue's runs were billed for p
    phase,      \* phase[r]: where run r is in processPhotoAnalysisJobs
    elapsed,    \* elapsed[r]: time since run r began
    ids,        \* ids[r]: the jobIds an upload run was given
    todo,       \* todo[r]: candidates as read and not yet reached
    attempt,    \* attempt[r]: the local variable of that name
    step,       \* step[a]: where caller a is in runPhotoAnalysis
    target,     \* target[a]: the photo caller a is analysing
    crashes,    \* runs cut off so far
    unsaved     \* unsaved[p]: analyses of p whose update to DONE failed

rows == <<photo, job, open, reviewed, paid>>
runs == <<phase, elapsed, ids, todo, attempt>>
calls == <<step, target>>
vars == <<photo, job, open, reviewed, paid, phase, elapsed, ids, todo,
          attempt, step, target, crashes, unsaved>>

Statuses == {"NONE", "QUEUED", "RUNNING", "DONE", "SKIPPED", "FAILED"}
Settled == {"DONE", "SKIPPED", "FAILED"}

Row == [status : Statuses, attempts : Nat, age : 0..(StaleRunning + 1), rev : Nat]

NoRow == [status |-> "NONE", attempts |-> 0, age |-> 0, rev |-> 0]

NewRow == [NoRow EXCEPT !.status = "QUEUED"]

\* What `findMany` copies of a row into a run's memory.
Snapshot == [photo : Photos, status : {"QUEUED", "RUNNING"}, attempts : Nat, rev : Nat]

Snap(p) == [photo |-> p, status |-> job[p].status,
            attempts |-> job[p].attempts, rev |-> job[p].rev]

Steps == {"none", "check", "provider", "answer",
          "finding", "permanent", "retryable", "clicked"}

Returned == {"finding", "permanent", "retryable"}

TypeOK ==
    /\ photo \in [Photos -> {"absent", "stored", "detached"}]
    /\ job \in [Photos -> Row]
    /\ open \in [Photos -> Nat]
    /\ reviewed \in [Photos -> Nat]
    /\ paid \in [Photos -> Nat]
    /\ phase \in [Runs -> {"idle", "after", "loop", "work"}]
    /\ elapsed \in [Runs -> 0..RunLifetime]
    /\ ids \in [Runs -> SUBSET Photos]
    /\ todo \in [Runs -> SUBSET Snapshot]
    /\ attempt \in [Runs -> Nat]
    /\ step \in [Callers -> Steps]
    /\ target \in [Callers -> Photos \cup {NoPhoto}]
    /\ crashes \in Nat
    /\ unsaved \in [Photos -> Nat]

Init ==
    /\ photo = [p \in Photos |-> "absent"]
    /\ job = [p \in Photos |-> NoRow]
    /\ open = [p \in Photos |-> 0]
    /\ reviewed = [p \in Photos |-> 0]
    /\ paid = [p \in Photos |-> 0]
    /\ phase = [r \in Runs |-> "idle"]
    /\ elapsed = [r \in Runs |-> 0]
    /\ ids = [r \in Runs |-> {}]
    /\ todo = [r \in Runs |-> {}]
    /\ attempt = [r \in Runs |-> 0]
    /\ step = [a \in Callers |-> "none"]
    /\ target = [a \in Callers |-> NoPhoto]
    /\ crashes = 0
    /\ unsaved = [p \in Photos |-> 0]

-----------------------------------------------------------------------------
(* The upload request *)

\* The evidence row is created before anything is queued.
Upload(p) ==
    /\ photo[p] = "absent"
    /\ photo' = [photo EXCEPT ![p] = "stored"]
    /\ UNCHANGED <<job, open, reviewed, paid, runs, calls, crashes, unsaved>>

\* Mutant: an upsert that queues the photo again.
CreateOrRequeue(row) == [row EXCEPT !.status = "QUEUED", !.age = 0, !.rev = @ + 1]

\* createMany with skipDuplicates: "one job per photo, however many times the
\* upload is retried".
CreateOrSkip(row) == IF row.status = "NONE" THEN NewRow ELSE row

\* enqueueAutoAnalysis: the rows, then the ids that are QUEUED are handed to a
\* run that starts once the response is out.
Enqueue(r, batch) ==
    LET created == [p \in Photos |-> IF p \in batch THEN CreateOrSkip(job[p]) ELSE job[p]]
        queued == {p \in batch : created[p].status = "QUEUED"}
    IN /\ phase[r] = "idle"
       /\ batch # {}
       /\ \A p \in batch : photo[p] = "stored"
       /\ job' = created
       /\ IF queued = {}
          THEN UNCHANGED <<phase, ids>>
          ELSE /\ phase' = [phase EXCEPT ![r] = "after"]
               /\ ids' = [ids EXCEPT ![r] = queued]
       /\ UNCHANGED <<photo, open, reviewed, paid, elapsed, todo, attempt,
                      calls, crashes, unsaved>>

-----------------------------------------------------------------------------
(* processPhotoAnalysisJobs *)

\* Mutant: the threshold is off by one.
AbandonedAtThreshold(row) == row.status = "RUNNING" /\ row.age >= StaleRunning

\* A sweep takes over a job that has been RUNNING for longer than this.
Abandoned(row) == row.status = "RUNNING" /\ row.age > StaleRunning

\* Mutant: the sweep never takes anything back.
QueuedOnly(r) ==
    {p \in IF r \in UploadRuns THEN ids[r] ELSE Photos : job[p].status = "QUEUED"}

Candidates(r) ==
    IF r \in UploadRuns
    THEN {p \in ids[r] : job[p].status = "QUEUED"}
    ELSE {p \in Photos : job[p].status = "QUEUED" \/ Abandoned(job[p])}

\* The run reads its candidates once, before the loop.
ReadCandidates(r) ==
    /\ phase[r] = IF r \in UploadRuns THEN "after" ELSE "idle"
    /\ phase' = [phase EXCEPT ![r] = "loop"]
    /\ todo' = [todo EXCEPT ![r] = {Snap(p) : p \in Candidates(r)}]
    /\ ids' = [ids EXCEPT ![r] = {}]
    /\ elapsed' = [elapsed EXCEPT ![r] = 0]
    /\ UNCHANGED <<rows, attempt, calls, crashes, unsaved>>

\* Mutant: the claim does not compare updatedAt.
SameStatus(c) == job[c.photo].status = c.status

\* The row is still what this run read: status and updatedAt are unchanged.
Unchanged(c) == job[c.photo].status = c.status /\ job[c.photo].rev = c.rev

\* Mutant: taking a job back does not count as an attempt.
ClaimedForFree(row) ==
    [status |-> "RUNNING", age |-> 0, rev |-> row.rev + 1,
     attempts |-> IF row.status = "QUEUED" THEN row.attempts + 1 ELSE row.attempts]

\* The row as a claim leaves it.
Claimed(row) ==
    [status |-> "RUNNING", age |-> 0, rev |-> row.rev + 1, attempts |-> row.attempts + 1]

\* updateMany ... where status and updatedAt: one row changed, the job is ours.
Claim(r, c) ==
    /\ phase[r] = "loop"
    /\ c \in todo[r]
    /\ elapsed[r] <= Budget
    /\ Unchanged(c)
    /\ job' = [job EXCEPT ![c.photo] = Claimed(@)]
    /\ phase' = [phase EXCEPT ![r] = "work"]
    /\ todo' = [todo EXCEPT ![r] = @ \ {c}]
    /\ attempt' = [attempt EXCEPT ![r] = c.attempts + 1]
    /\ step' = [step EXCEPT ![r] = "check"]
    /\ target' = [target EXCEPT ![r] = c.photo]
    /\ UNCHANGED <<photo, open, reviewed, paid, elapsed, ids, crashes, unsaved>>

\* claimed.count = 0: somebody else has it, go on to the next candidate.
SkipTaken(r, c) ==
    /\ phase[r] = "loop"
    /\ c \in todo[r]
    /\ elapsed[r] <= Budget
    /\ ~Unchanged(c)
    /\ todo' = [todo EXCEPT ![r] = @ \ {c}]
    /\ UNCHANGED <<rows, phase, elapsed, ids, attempt, calls, crashes, unsaved>>

\* Mutants: one attempt too many; an error that counts as an analysis.
OutcomeOffByOne(r) ==
    CASE step[r] = "finding" -> "DONE"
      [] step[r] = "permanent" -> "SKIPPED"
      [] step[r] = "retryable" /\ attempt[r] > MaxAttempts -> "FAILED"
      [] OTHER -> "QUEUED"

OutcomeIgnoringErrors(r) == IF step[r] = "retryable" THEN "QUEUED" ELSE "DONE"

\* What the run writes when the analysis returned or threw.
Outcome(r) ==
    CASE step[r] = "finding" -> "DONE"
      [] step[r] = "permanent" -> "SKIPPED"
      [] step[r] = "retryable" /\ attempt[r] >= MaxAttempts -> "FAILED"
      [] OTHER -> "QUEUED"

\* The update to DONE is inside the try: when it fails (a lost connection, a
\* timeout of the database), the run treats the analysis as one that threw,
\* and the finding it made stays.
DoneFails(r) ==
    /\ phase[r] = "work"
    /\ step[r] = "finding"
    /\ job[target[r]].status # "NONE"
    /\ step' = [step EXCEPT ![r] = "retryable"]
    /\ unsaved' = [unsaved EXCEPT ![target[r]] = @ + 1]
    /\ UNCHANGED <<rows, runs, target, crashes>>

\* The final update is by id alone: the run trusts its claim.
Record(r) ==
    LET p == target[r]
    IN /\ phase[r] = "work"
       /\ step[r] \in Returned
       /\ job[p].status # "NONE"
       /\ job' = [job EXCEPT ![p] = [status |-> Outcome(r), age |-> 0,
                                     attempts |-> @.attempts, rev |-> @.rev + 1]]
       /\ phase' = [phase EXCEPT ![r] = "loop"]
       /\ step' = [step EXCEPT ![r] = "none"]
       /\ target' = [target EXCEPT ![r] = NoPhoto]
       /\ UNCHANGED <<photo, open, reviewed, paid, elapsed, ids, todo, attempt,
                      crashes, unsaved>>

\* The end of a run, however it ends: its memory is gone.
Forget(r) ==
    /\ phase' = [phase EXCEPT ![r] = "idle"]
    /\ elapsed' = [elapsed EXCEPT ![r] = 0]
    /\ ids' = [ids EXCEPT ![r] = {}]
    /\ todo' = [todo EXCEPT ![r] = {}]
    /\ attempt' = [attempt EXCEPT ![r] = 0]
    /\ step' = [step EXCEPT ![r] = "none"]
    /\ target' = [target EXCEPT ![r] = NoPhoto]

\* The row was deleted under the run: `update` throws, in the try block and
\* again in the catch block, and the exception leaves the loop.
AbortOnMissingRow(r) ==
    /\ phase[r] = "work"
    /\ step[r] \in Returned
    /\ job[target[r]].status = "NONE"
    /\ Forget(r)
    /\ UNCHANGED <<rows, crashes, unsaved>>

\* Nothing left, or the time budget is spent: what is left stays QUEUED.
EndRun(r) ==
    /\ phase[r] = "loop"
    /\ todo[r] = {} \/ elapsed[r] > Budget
    /\ Forget(r)
    /\ UNCHANGED <<rows, crashes, unsaved>>

\* The instance is restarted or hits its time limit at any point of the run,
\* or a database call outside the try throws: the claim, or the catch block's
\* own update.
Crash(r) ==
    /\ phase[r] # "idle"
    /\ crashes < MaxCrashes
    /\ Forget(r)
    /\ crashes' = crashes + 1
    /\ UNCHANGED <<rows, unsaved>>

-----------------------------------------------------------------------------
(* runPhotoAnalysis, called by a run for its job or by a person's click *)

HasOpenSuggestion(p) == open[p] > 0

\* Reads the evidence, the asset and the open suggestion.  `permanent` with
\* the photo still stored: asset inactive or moved, file lost.  `retryable`:
\* the database failed.
CheckPhoto(a) ==
    LET p == target[a]
    IN /\ step[a] = "check"
       /\ \E next \in {"permanent", "retryable", "finding", "provider"} :
            /\ next = "finding" => photo[p] = "stored" /\ HasOpenSuggestion(p)
            /\ next = "provider" => photo[p] = "stored" /\ ~HasOpenSuggestion(p)
            /\ step' = [step EXCEPT ![a] = next]
       /\ UNCHANGED <<rows, runs, target, crashes, unsaved>>

\* The provider is not configured (503), fails (502), or answers and bills.
CallProvider(a) ==
    /\ step[a] = "provider"
    /\ \E next \in {"permanent", "retryable", "answer"} :
         /\ step' = [step EXCEPT ![a] = next]
         /\ paid' = IF next = "answer" /\ a \in Runs
                    THEN [paid EXCEPT ![target[a]] = @ + 1] ELSE paid
    /\ UNCHANGED <<photo, job, open, reviewed, runs, target, crashes, unsaved>>

\* The answer has the right shape and becomes a SUGGESTED finding.
CreateFinding(a) ==
    LET p == target[a]
    IN /\ step[a] = "answer"
       /\ photo[p] = "stored"
       /\ open' = [open EXCEPT ![p] = @ + 1]
       /\ step' = [step EXCEPT ![a] = "finding"]
       /\ UNCHANGED <<photo, job, reviewed, paid, runs, target, crashes, unsaved>>

\* The wrong shape (502), or `create` failed because the asset is gone.
RefuseAnswer(a) ==
    /\ step[a] = "answer"
    /\ step' = [step EXCEPT ![a] = "retryable"]
    /\ UNCHANGED <<rows, runs, target, crashes, unsaved>>

-----------------------------------------------------------------------------
(* People *)

\* analyzeEvidencePhoto: the button.
Click(k, p) ==
    /\ step[k] = "none"
    /\ photo[p] = "stored"
    /\ step' = [step EXCEPT ![k] = "check"]
    /\ target' = [target EXCEPT ![k] = p]
    /\ UNCHANGED <<rows, runs, crashes, unsaved>>

ClickReturns(k) ==
    /\ step[k] \in Returned
    /\ step' = [step EXCEPT ![k] = "clicked"]
    /\ UNCHANGED <<rows, runs, target, crashes, unsaved>>

\* reviewAIFinding, confirm or reject: a SUGGESTED finding is claimed once.
Review(p) ==
    /\ open[p] > 0
    /\ open' = [open EXCEPT ![p] = @ - 1]
    /\ reviewed' = [reviewed EXCEPT ![p] = @ + 1]
    /\ UNCHANGED <<photo, job, paid, runs, calls, crashes, unsaved>>

\* The asset is deleted (its property is purged, or the import that made it is
\* rolled back).  The job goes by cascade; the photo and its findings stay,
\* without an asset, so none is left that counts for photo and asset.
DeleteAsset(p) ==
    /\ photo[p] = "stored"
    /\ photo' = [photo EXCEPT ![p] = "detached"]
    /\ job' = [job EXCEPT ![p] = NoRow]
    /\ open' = [open EXCEPT ![p] = 0]
    /\ reviewed' = [reviewed EXCEPT ![p] = 0]
    /\ paid' = [paid EXCEPT ![p] = 0]
    /\ UNCHANGED <<runs, calls, crashes, unsaved>>

-----------------------------------------------------------------------------
(* Time *)

\* Past StaleRunning all ages are alike; only a RUNNING row's age is read.
Older(row) ==
    IF row.status = "RUNNING" /\ row.age <= StaleRunning
    THEN [row EXCEPT !.age = @ + 1] ELSE row

\* A run at RunLifetime is over before time goes on.
Tick ==
    /\ \A r \in Runs : phase[r] \in {"loop", "work"} => elapsed[r] < RunLifetime
    /\ job' = [p \in Photos |-> Older(job[p])]
    /\ elapsed' = [r \in Runs |-> IF phase[r] \in {"loop", "work"}
                                  THEN elapsed[r] + 1 ELSE elapsed[r]]
    /\ UNCHANGED <<photo, open, reviewed, paid, phase, ids, todo, attempt,
                   calls, crashes, unsaved>>

-----------------------------------------------------------------------------
Reach(r) == \E c \in todo[r] : Claim(r, c) \/ SkipTaken(r, c)

Analyse(a) ==
    CheckPhoto(a) \/ CallProvider(a) \/ CreateFinding(a) \/ RefuseAnswer(a)

Finish(r) == Record(r) \/ AbortOnMissingRow(r) \/ EndRun(r)

People ==
    \/ \E p \in Photos : Upload(p) \/ Review(p) \/ DeleteAsset(p)
    \/ \E r \in UploadRuns, batch \in SUBSET Photos : Enqueue(r, batch)
    \/ \E k \in Clickers, p \in Photos : Click(k, p)

Next ==
    \/ People
    \/ \E r \in Runs : ReadCandidates(r) \/ Reach(r) \/ DoneFails(r) \/ Finish(r) \/ Crash(r)
    \/ \E a \in Callers : Analyse(a)
    \/ \E k \in Clickers : ClickReturns(k)
    \/ Tick

Spec == Init /\ [][Next]_vars

(***************************************************************************)
(* Fairness.  The cron route starts the sweep every day, a run that works  *)
(* goes on (the provider's SDK answers or times out) and time passes.      *)
(* Nobody is made to upload, click, review or delete.  A sweep that keeps  *)
(* reading a candidate reaches it some day (SF): its budget is 240 s and   *)
(* the claim is the first thing it does.                                   *)
(***************************************************************************)
Fairness ==
    /\ \A r \in Runs : WF_vars(ReadCandidates(r)) /\ WF_vars(Reach(r)) /\ WF_vars(Finish(r))
    /\ \A r \in Sweeps, p \in Photos :
          SF_vars(\E c \in todo[r] : c.photo = p /\ (Claim(r, c) \/ SkipTaken(r, c)))
    /\ \A a \in Callers : WF_vars(Analyse(a))
    /\ WF_vars(Tick)

FairSpec == Spec /\ Fairness

-----------------------------------------------------------------------------
(* Properties *)

\* "the request-time run and a sweep that overlap can never both analyse (and
\* both bill) the same photo": no two runs have the same photo in hand, at any
\* step between the claim and the write that ends it.
ExclusiveAnalysis ==
    \A r1, r2 \in Runs :
        target[r1] # NoPhoto /\ target[r1] = target[r2] => r1 = r2

\* The write that ends a job is by id alone, yet it can never land on a row
\* somebody else has claimed since: the row a run is working on is RUNNING
\* with the attempt number that run took, until the run ends or the row is
\* deleted.
ClaimIsHeld ==
    \A r \in Runs :
        phase[r] = "work" /\ job[target[r]].status # "NONE" =>
            /\ job[target[r]].status = "RUNNING"
            /\ job[target[r]].attempts = attempt[r]

\* A retried failure is retried MAX_ATTEMPTS times in total: a job that waits
\* has attempts left, one that FAILED has used them all, and only a run cut
\* off in the middle can take a job past the limit.
AttemptsBounded ==
    \A p \in Photos :
        /\ job[p].status = "QUEUED" => job[p].attempts < MaxAttempts
        /\ job[p].status = "FAILED" => job[p].attempts >= MaxAttempts
        /\ job[p].attempts <= MaxAttempts + crashes

\* The queue is billed for a photo at most once per attempt.
SpendBounded ==
    \A p \in Photos : job[p].status # "NONE" => paid[p] <= job[p].attempts

\* The queue leaves one finding per photo; another needs a run that was cut
\* off between its finding and its DONE, a DONE that could not be written, or
\* a person's click.  A retry alone never makes one: it is the review of the
\* first finding, between the failed write and the retry, that lets it.
FindingsAccountedFor ==
    \A p \in Photos :
        open[p] + reviewed[p] <=
            1 + crashes + unsaved[p] + Cardinality({k \in Clickers : target[k] = p})

\* A job is DONE only when the finding it stands for exists.
DoneHasFinding ==
    \A p \in Photos : job[p].status = "DONE" => open[p] + reviewed[p] > 0

\* "returned as-is rather than paid for twice by a double click": there is
\* never more than one open suggestion for a photo and asset.
OneOpenSuggestion == \A p \in Photos : open[p] <= 1

\* Once DONE, SKIPPED or FAILED, the row is never written again.
SettledIsFinal ==
    [][\A p \in Photos : job[p].status \in Settled =>
          job'[p] = job[p] \/ job'[p].status = "NONE"]_vars

\* "Neither path holds work only in memory": whatever is cut off, a queued
\* photo is settled in the end (or deleted).
QueuedIsSettled ==
    \A p \in Photos :
        job[p].status \in {"QUEUED", "RUNNING"}
            ~> job[p].status \in Settled \cup {"NONE"}
=============================================================================
