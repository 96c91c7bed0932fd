----------------------------- MODULE CaptureJobs -----------------------------
(* Capture jobs: sites that a vendor is sent to, what it delivers there, and *)
(* the review that accepts it (capture-job-service.ts); the vendor's uploads *)
(* (evidence-service.ts) and who sees them meanwhile (tenant-scope.ts).      *)
(*                                                                           *)
(* A site is named by its job and property.  Every call loads what it checks *)
(* and writes later by id; calls overlap, and may break off.  A job asks for *)
(* uploads (a deliverable of another kind is counted the same way) and for   *)
(* its route: a position that some upload names, which is not counted from   *)
(* the issue on.  Where a route's pins are is left out.                      *)
EXTENDS Naturals, FiniteSets, SequencesExt

CONSTANTS Jobs, Properties,
          Calls,        \* the requests the servers run at one time
          MaxSites      \* bound: sites ever ordered

None == "none"
Owed == {"photos", "route"}
Sites == Jobs \X Properties

VARIABLES job,         \* the status of each job; None before it is created
          site,        \* the status of each site; None where the job has none
          issues,      \* the jobs, in the order they were issued
          done,        \* what was made at each site, since the issue
          filed,       \* the vendor's latest upload
          repairing,   \* the properties where the vendor has an open repair,
                       \* which does not change meanwhile
          call,        \* what each request is doing
          overlap,     \* kinds of calls that have overlapped
          cutOff       \* the jobs of which a review broke off before its end
captureVars == <<job, site, issues, done, filed, repairing, call, overlap, cutOff>>

NoSite == <<None, None>>
Nothing == [tag |-> <<None>>, due |-> TRUE]
Resting == [at |-> "idle", op |-> None, id |-> NoSite, how |-> None, tag |-> NoSite]

Init ==
    /\ job = [j \in Jobs |-> None] /\ site = [s \in Sites |-> None]
    /\ issues = <<>> /\ done = [s \in Sites |-> {}] /\ filed = Nothing
    /\ repairing \in {{}, Properties}
    /\ call = [r \in Calls |-> Resting]
    /\ overlap = {} /\ cutOff = {}

SitesOf(j) == {s \in Sites : s[1] = j /\ site[s] # None}
SitesAt(p) == {s \in Sites : s[2] = p /\ site[s] # None}

\* OPEN_STATUSES: the code never sets a job to SUBMITTED or REJECTED.
Open(j) == job[j] = "ISSUED"

Goes(r, at, op, s, how) ==
    call' = [call EXCEPT ![r] = [Resting EXCEPT !.at = at, !.op = op, !.id = s, !.how = how]]
Ready(r) == call' = [call EXCEPT ![r] = Resting]

\* Another call has loaded what this one loads, and has not written yet.
Meets(r, kind, Other(_)) ==
    IF \E q \in Calls \ {r} : call[q].at # "idle" /\ Other(call[q]) THEN {kind} ELSE {}
ActsOn(q, s) == q.op \in {"score", "submit", "review"} /\ q.id = s
UploadsTo(q, ps) == q.op = "upload" /\ q.id[2] \in ps

------------------------------------------------------------------------------
(* Ordering.                                                                 *)

CreateCaptureJob(j, ps) ==
    /\ job[j] = None /\ ps # {}
    /\ Cardinality(ps) + Cardinality({s \in Sites : site[s] # None}) <= MaxSites
    /\ job' = [job EXCEPT ![j] = "DRAFT"]
    /\ site' = [s \in Sites |-> IF s[1] = j /\ s[2] \in ps THEN "PENDING" ELSE site[s]]
    /\ UNCHANGED <<issues, done, filed, repairing, call, overlap, cutOff>>

LoadIssue(r, j) ==
    /\ call[r].at = "idle" /\ job[j] = "DRAFT"
    /\ Goes(r, "loaded", "issue", <<j, None>>, None)
    /\ overlap' = overlap
         \cup Meets(r, "decision", LAMBDA q : q.op = "issue" /\ q.id[1] = j)
         \cup Meets(r, "upload", LAMBDA q : UploadsTo(q, {s[2] : s \in SitesOf(j)}))
    /\ UNCHANGED <<job, site, issues, done, filed, repairing, cutOff>>

\* The vendor's access starts, and the work that counts.
IssueCaptureJob(r) ==
    LET j == call[r].id[1] IN
    /\ call[r].at = "loaded" /\ call[r].op = "issue"
    /\ job' = [job EXCEPT ![j] = "ISSUED"]
    /\ issues' = Append(RemoveFirst(issues, j), j)
    /\ done' = [s \in Sites |-> IF s[1] = j THEN done[s] \cap {"route"} ELSE done[s]]
    /\ Ready(r)
    /\ UNCHANGED <<site, filed, repairing, overlap, cutOff>>

------------------------------------------------------------------------------
(* The vendor's work at a site.                                              *)

\* A call on a site loads it with its job.
Load(r, op, s, how) ==
    /\ call[r].at = "idle"
    /\ Goes(r, "loaded", op, s, how)
    /\ overlap' = overlap \cup Meets(r, "decision", LAMBDA q : ActsOn(q, s))
         \cup IF op = "review" THEN Meets(r, "upload", LAMBDA q : UploadsTo(q, {s[2]})) ELSE {}
    /\ UNCHANGED <<job, site, issues, done, filed, repairing, cutOff>>

\* What is made at a property counts for every site there whose job is out.
Made(p, what) ==
    [s \in Sites |-> IF s[2] = p /\ Open(s[1]) /\ site[s] # None THEN done[s] \cup {what} ELSE done[s]]

\* submitConditionScores: the first ones start the site.
LoadScores(r, s) ==
    /\ Open(s[1]) /\ site[s] = "PENDING"
    /\ Load(r, "score", s, None)

StartSite(r) ==
    /\ call[r].at = "loaded" /\ call[r].op = "score"
    /\ site' = [site EXCEPT ![call[r].id] = "IN_PROGRESS"]
    /\ Ready(r)
    /\ UNCHANGED <<job, issues, done, filed, repairing, overlap, cutOff>>

\* Mutant of Delivered: the positions of the route are not asked for.
DeliveredOffRoute(s) == "photos" \in done[s]

\* outstandingDeliverables and outstandingShots: the site owes nothing.
Delivered(s) == Owed \subseteq done[s]

LoadSubmit(r, s) ==
    /\ Open(s[1]) /\ site[s] \notin {None, "ACCEPTED"} /\ Delivered(s)
    /\ Load(r, "submit", s, None)

SubmitCaptureSite(r) ==
    /\ call[r].at = "loaded" /\ call[r].op = "submit"
    /\ site' = [site EXCEPT ![call[r].id] = "SUBMITTED"]
    /\ Ready(r)
    /\ UNCHANGED <<job, issues, done, filed, repairing, overlap, cutOff>>

------------------------------------------------------------------------------
(* The review, in three statements: the decision, the count of the sites     *)
(* that remain, and the end of the job.                                      *)

LoadReview(r, s, decision) ==
    /\ site[s] = "SUBMITTED"
    /\ Load(r, "review", s, decision)

ReviewCaptureSite(r) ==
    /\ call[r].at = "loaded" /\ call[r].op = "review"
    /\ site' = [site EXCEPT ![call[r].id] = call[r].how]
    /\ Goes(r, "decided", "review", call[r].id, None)
    /\ UNCHANGED <<job, issues, done, filed, repairing, overlap, cutOff>>

\* Mutant of AllAccepted: sites nobody submitted do not count.
NoneSubmitted(j) == \A s \in SitesOf(j) : site[s] # "SUBMITTED"

AllAccepted(j) == \A s \in SitesOf(j) : site[s] = "ACCEPTED"

\* Mutant of CountRemaining: the count is of the sites as they were loaded,
\* one of which, at least, was not accepted.
CountLoaded(r) ==
    /\ call[r].at = "decided"
    /\ Ready(r)
    /\ UNCHANGED <<job, site, issues, done, filed, repairing, overlap, cutOff>>

CountRemaining(r) ==
    LET s == call[r].id IN
    /\ call[r].at = "decided"
    /\ IF AllAccepted(s[1]) THEN Goes(r, "closing", "review", s, None) ELSE Ready(r)
    /\ UNCHANGED <<job, site, issues, done, filed, repairing, overlap, cutOff>>

\* The job closes itself, which ends the vendor's access.
CloseJob(r) ==
    /\ call[r].at = "closing"
    /\ job' = [job EXCEPT ![call[r].id[1]] = "ACCEPTED"]
    /\ Ready(r)
    /\ UNCHANGED <<site, issues, done, filed, repairing, overlap, cutOff>>

------------------------------------------------------------------------------
(* Uploads.                                                                  *)

\* propertyScopeWhere: a vendor reaches the properties of its open work.
Reaches(p) == p \in repairing \/ \E s \in SitesAt(p) : Open(s[1])

\* An upload arrives, which may name the position of some site's route, and an
\* issue of the vendor's there, open or closed: then it is proof of a repair.
UploadArrives(r, p, s, about) ==
    /\ call[r].at = "idle" /\ Reaches(p)
    /\ s[2] = p /\ (s[1] # None => site[s] # None)
    /\ Goes(r, "arrived", "upload", s, about)
    /\ overlap' = overlap \cup
         Meets(r, "upload", LAMBDA q : \/ q.op = "review" /\ q.id[2] = p
                                       \/ q.op = "issue" /\ site[<<q.id[1], p>>] # None)
    /\ UNCHANGED <<job, site, issues, done, filed, repairing, cutOff>>

\* Mutant of Waiting: a site that was accepted takes work too.
WaitingOrNot(p) == {s \in SitesAt(p) : Open(s[1])}

\* The sites that take a vendor's work at a property.
Waiting(p) == {s \in SitesAt(p) : Open(s[1]) /\ site[s] # "ACCEPTED"}

\* reviewSiteIdForUpload: the one of the job issued last, if there is any.
ReviewSite(p) ==
    IF Waiting(p) = {} THEN NoSite
    ELSE <<issues[SelectLastInSeq(issues, LAMBDA j : <<j, p>> \in Waiting(p))], p>>

\* Proof of a repair belongs to the repair's own review.
Tag(c) == IF c.how = "proof" THEN NoSite ELSE ReviewSite(c.id[2])

UploadTagged(r) ==
    /\ call[r].at = "arrived"
    /\ call' = [call EXCEPT ![r].at = "tagged", ![r].tag = Tag(call[r])]
    /\ UNCHANGED <<job, site, issues, done, filed, repairing, overlap, cutOff>>

\* The work there is at property p with one more upload, which names the
\* position s.
WithUpload(p, s) ==
    [t \in Sites |-> Made(p, "photos")[t] \cup IF t = s THEN {"route"} ELSE {}]

\* The row is created.  It is due for a review if its site is not accepted
\* yet; none is owed where no site waits for work, nor of proof of a repair.
\* It counts for every site there, proof too.
CreateEvidence(r) ==
    LET s == call[r].id
        tag == call[r].tag
        open == {t \in SitesAt(s[2]) : Open(t[1]) /\ site[t] # "ACCEPTED"}
    IN  /\ call[r].at = "tagged"
        /\ filed' = [tag |-> tag, due |-> \/ call[r].how = "proof"
                                      \/ IF tag = NoSite THEN open = {} ELSE site[tag] # "ACCEPTED"]
        /\ done' = WithUpload(s[2], s)
        /\ Ready(r)
        /\ UNCHANGED <<job, site, issues, repairing, overlap, cutOff>>

\* The organization's own people upload too, and that counts as well.
OwnUpload(p, s) ==
    /\ s[2] = p /\ (s[1] # None => site[s] # None)
    /\ done' = WithUpload(p, s)
    /\ UNCHANGED <<job, site, issues, filed, repairing, call, overlap, cutOff>>

------------------------------------------------------------------------------
\* A call fails between two statements, or its server stops.
BreaksOff(r) ==
    /\ call[r].at # "idle"
    /\ cutOff' = IF call[r].at \in {"decided", "closing"} THEN cutOff \cup {call[r].id[1]} ELSE cutOff
    /\ Ready(r)
    /\ UNCHANGED <<job, site, issues, done, filed, repairing, overlap>>

Next ==
    \/ \E j \in Jobs, ps \in SUBSET Properties : CreateCaptureJob(j, ps)
    \/ \E p \in Properties, j \in Jobs \cup {None} : OwnUpload(p, <<j, p>>)
    \/ \E r \in Calls :
        \/ \E j \in Jobs : LoadIssue(r, j)
        \/ IssueCaptureJob(r)
        \/ \E s \in Sites : \/ LoadScores(r, s) \/ LoadSubmit(r, s)
                            \/ \E d \in {"ACCEPTED", "REJECTED"} : LoadReview(r, s, d)
        \/ StartSite(r)
        \/ SubmitCaptureSite(r)
        \/ ReviewCaptureSite(r) \/ CountRemaining(r) \/ CloseJob(r)
        \/ \E p \in Properties, j \in Jobs \cup {None}, about \in {None, "proof"} :
              UploadArrives(r, p, <<j, p>>, about)
        \/ UploadTagged(r) \/ CreateEvidence(r)
        \/ BreaksOff(r)

Spec == Init /\ [][Next]_captureVars

------------------------------------------------------------------------------
(* Properties.                                                               *)

Statuses == {None, "PENDING", "IN_PROGRESS", "SUBMITTED", "ACCEPTED", "REJECTED"}

\* Every variable holds a value of its type; a job that is out has been
\* issued, and only the sites of jobs have a status.
TypeOK ==
    /\ job \in [Jobs -> {None, "DRAFT", "ISSUED", "ACCEPTED"}]
    /\ site \in [Sites -> Statuses] /\ \A s \in Sites : site[s] # None => job[s[1]] # None
    /\ IsInjective(issues) /\ ToSet(issues) = {j \in Jobs : job[j] \in {"ISSUED", "ACCEPTED"}}
    /\ done \in [Sites -> SUBSET Owed]
    /\ filed # Nothing /\ filed.tag # NoSite => filed.tag \in Sites /\ site[filed.tag] # None
    /\ repairing \subseteq Properties /\ DOMAIN call = Calls
    /\ overlap \subseteq {"decision", "upload"} /\ cutOff \subseteq Jobs

\* A job is closed, and the vendor's access over, only when every one of its
\* sites is accepted, in whatever order sites are submitted, sent back and
\* reviewed, as long as no two calls decide about one site at a time
\* (capture-job-service.ts:577).
ClosedMeansAccepted ==
    "decision" \notin overlap =>
        \A j \in Jobs : job[j] = "ACCEPTED" => \A s \in SitesOf(j) : site[s] = "ACCEPTED"

\* Access ends by itself: once every site of a job is accepted, the job is
\* closed, also when the last reviews run at one time, unless the review
\* that would have closed it broke off (capture-job-service.ts:574).
AccessEnds ==
    "decision" \notin overlap =>
        \A j \in Jobs \ cutOff :
            (SitesOf(j) # {} /\ \A s \in SitesOf(j) : site[s] = "ACCEPTED") =>
                \/ job[j] = "ACCEPTED"
                \/ \E r \in Calls : call[r].at \in {"decided", "closing"} /\ call[r].id[1] = j

\* Nobody is paid for a site that owes something: a site that is waiting for
\* review or accepted had everything asked for made since its job was issued,
\* and its route walked (capture-job-service.ts:254).
DeliveredIsComplete ==
    "decision" \notin overlap =>
        \A s \in Sites : site[s] \in {"SUBMITTED", "ACCEPTED"} => Owed \subseteq done[s]

\* Where a site waits for a vendor's work, what the vendor uploads is filed for
\* a site whose review is still to come, and stays unseen until then, however
\* the vendor's jobs there follow each other - unless the job is issued or the
\* site reviewed while the file is registered, or calls on the site overlapped
\* (tenant-scope.ts:208).  Proof of a repair is not: it is filed for no site
\* and seen at once, although it counts for each (evidence-service.ts:204).
HeldForReview == overlap = {} => filed.due

\* What the comment on captureReviewWhere says of every upload of a vendor:
\* it is a draft until the capture-job site it was delivered against is accepted.
VendorWorkIsHeld == (overlap = {} /\ repairing = {}) => filed.tag # NoSite
=============================================================================
