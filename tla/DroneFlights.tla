---------------------------- MODULE DroneFlights ----------------------------
(* The drone captures of one property: a vendor's upload panel that has the  *)
(* server choose a capture (CaptureUploadPanel.tsx,                          *)
(* resolveDroneTargetForSite), the exterior tab where the organization's own *)
(* people start, fill and finish captures (ExteriorManager.tsx), and the     *)
(* service behind both (drone-service.ts).                                   *)
(*                                                                           *)
(* The property belongs to open capture jobs of different vendors, one site  *)
(* in each: accepting the site closes the job and ends the vendor's reach.   *)
(* An image is the upload it came with and its file: every upload gets keys  *)
(* of its own, so a file uploaded again is another image.                    *)
EXTENDS Integers, Sequences, FiniteSets

CONSTANTS Sites,         \* the job sites that are this property
          Uploads,       \* the presses of a button, here or there
          Files,         \* what a vendor may choose
          Chunk,         \* REGISTER_CHUNK
          MaxCaptures

VARIABLES accepted,   \* the sites whose work was accepted
          captures,   \* the capture rows, oldest first
          datasets,   \* the dataset rows, oldest first
          old,        \* how many captures are older than the jobs
          flight,     \* what each upload is doing
          raced       \* what has happened that the code does not look out for
flightVars == <<accepted, captures, datasets, old, flight, raced>>

Own == "own"        \* not for a job site: the organization's
Idle == [at |-> "idle", site |-> Own, capture |-> 0, dataset |-> 0, landed |-> {}, left |-> {}, batch |-> {}]
Races == {"overlap", "hidden", "retried", "late"}

Capture(site) == [site |-> site, status |-> "CREATED"]
Dataset(c) == [capture |-> c, job |-> "NONE", images |-> {}]

\* The property may have a capture of its own, begun before the jobs came.
FlightInit ==
    /\ accepted = {}
    /\ \/ captures = <<>> /\ datasets = <<>>
       \/ captures = <<[Capture(Own) EXCEPT !.status = "UPLOADING"]>>
          /\ datasets = <<[Dataset(1) EXCEPT !.job = "CREATED"]>>
    /\ old = Len(captures)
    /\ flight = [u \in Uploads |-> Idle]
    /\ raced = {}

InFlight == {c \in DOMAIN captures : captures[c].status \in {"CREATED", "UPLOADING", "PROCESSING"}}

DatasetsOf(c) == {d \in DOMAIN datasets : datasets[d].capture = c}
Newest(S) == {x \in S : \A y \in S : y <= x}

\* Who may still act for a site (siteForAction, propertyScopeWhere).
Reaches(site) == site \notin accepted

\* Whom captureReviewWhere shows a capture to: everybody, or reviewers and vendors.
Shown(c) == captures[c].site = Own \/ captures[c].site \in accepted

At(u, step) == flight[u].at = step
Goes(u, row) == flight' = [flight EXCEPT ![u] = row]
Notes(reason, when) == raced' = raced \cup (IF when THEN {reason} ELSE {})

\* What ends without success is forgotten, except where it was for.
Over(u) == Goes(u, [Idle EXCEPT !.at = "over", !.site = flight[u].site])

------------------------------------------------------------------------------
(* Where an upload goes.                                                     *)

\* upload() asks for a target, and the job is read.
StartUpload(u, s) ==
    /\ At(u, "idle") /\ Reaches(s)
    /\ Goes(u, [Idle EXCEPT !.at = "resolving", !.site = s])
    /\ UNCHANGED <<accepted, captures, datasets, old, raced>>

\* resolveDroneTargetForSite looks for a capture in flight, whoever's it is.
FindTarget(u) ==
    /\ At(u, "resolving")
    /\ \/ /\ InFlight = {}
          /\ Goes(u, [flight[u] EXCEPT !.at = "creating"])
          /\ Notes("overlap", \E v \in Uploads \ {u} : At(v, "creating"))
       \/ \E c \in Newest(InFlight) :
          /\ \/ DatasetsOf(c) = {} /\ Goes(u, [flight[u] EXCEPT !.at = "adding", !.capture = c])
             \/ \E d \in Newest(DatasetsOf(c)) :
                  Goes(u, [flight[u] EXCEPT !.at = "sending", !.capture = c, !.dataset = d])
          /\ UNCHANGED raced
    /\ UNCHANGED <<accepted, captures, datasets, old>>

\* startCapture, offered while the tab shows no capture at all.
StartCapture(u) ==
    /\ At(u, "idle") /\ \A c \in DOMAIN captures : ~Shown(c)
    /\ Goes(u, [Idle EXCEPT !.at = "creating"])
    /\ raced' = raced \cup (IF \E c \in DOMAIN captures : captures[c].status \notin {"READY", "FAILED"} THEN {"hidden"} ELSE {})
                      \cup (IF \E v \in Uploads \ {u} : At(v, "creating") THEN {"overlap"} ELSE {})
    /\ UNCHANGED <<accepted, captures, datasets, old>>

\* createDroneCapture.
CreateDroneCapture(u) ==
    /\ At(u, "creating")
    /\ IF Reaches(flight[u].site)
       THEN /\ Len(captures) < MaxCaptures
            /\ captures' = Append(captures, Capture(flight[u].site))
            /\ Goes(u, [flight[u] EXCEPT !.at = "adding", !.capture = Len(captures) + 1])
       ELSE Over(u) /\ UNCHANGED captures
    /\ UNCHANGED <<accepted, datasets, old, raced>>

\* createDroneDataset, whatever the capture has become meanwhile.
MarkUploading(u) ==
    /\ At(u, "adding")
    /\ IF Reaches(flight[u].site)
       THEN /\ captures' = [captures EXCEPT ![flight[u].capture].status = "UPLOADING"]
            /\ Goes(u, [flight[u] EXCEPT !.at = "marked"])
            /\ Notes("retried", captures[flight[u].capture].status \in {"READY", "FAILED"})
       ELSE Over(u) /\ UNCHANGED <<captures, raced>>
    /\ UNCHANGED <<accepted, datasets, old>>

AddDataset(u) ==
    /\ At(u, "marked")
    /\ datasets' = Append(datasets, Dataset(flight[u].capture))
    /\ Goes(u, [flight[u] EXCEPT !.at = "added", !.dataset = Len(datasets) + 1])
    /\ UNCHANGED <<accepted, captures, old, raced>>

\* The provider's job; a capture that starts here ends the press of its button.
CreateJob(u) ==
    /\ At(u, "added")
    /\ datasets' = [datasets EXCEPT ![flight[u].dataset].job = "CREATED"]
    /\ Goes(u, [flight[u] EXCEPT !.at = IF flight[u].site = Own THEN "done" ELSE "sending"])
    /\ Notes("late", captures[flight[u].capture].status = "READY"
                     \/ \E v \in Uploads : At(v, "readying") /\ flight[v].capture = flight[u].capture)
    /\ UNCHANGED <<accepted, captures, old>>

------------------------------------------------------------------------------
(* What an upload brings.                                                    *)

\* uploadFile of the exterior tab: one file, to a dataset the page shows.
PickDataset(u, d) ==
    /\ At(u, "idle") /\ Shown(datasets[d].capture)
    /\ Goes(u, [Idle EXCEPT !.at = "sending", !.capture = datasets[d].capture, !.dataset = d])
    /\ UNCHANGED <<accepted, captures, datasets, old, raced>>

\* The files that reached the store; with none the upload ends.
Land(u, some) ==
    /\ At(u, "sending") /\ some # {}
    /\ flight[u].site = Own => Cardinality(some) = 1
    /\ Goes(u, [flight[u] EXCEPT !.at = "landed", !.landed = some, !.left = some])
    /\ UNCHANGED <<accepted, captures, datasets, old, raced>>

Rest(u, some) == flight[u].left \ some

\* registerDroneImagesBatch loads the dataset once for its chunk.
BeginBatch(u, some) ==
    /\ At(u, "landed") /\ some # {} /\ some \subseteq flight[u].left
    /\ Cardinality(some) = Chunk \/ (Cardinality(some) < Chunk /\ some = flight[u].left)
    /\ IF Reaches(flight[u].site)
       THEN Goes(u, [flight[u] EXCEPT !.at = "registering", !.batch = some, !.left = Rest(u, some)])
       ELSE Over(u)
    /\ UNCHANGED <<accepted, captures, datasets, old, raced>>

\* One verified file becomes a row; a later one that fails leaves it there.
RegisterImage(u, f) ==
    /\ At(u, "registering") /\ f \in flight[u].batch
    /\ datasets' = [datasets EXCEPT ![flight[u].dataset].images = @ \cup {<<u, f>>}]
    /\ Goes(u, [flight[u] EXCEPT !.batch = @ \ {f},
                                 !.at = IF flight[u].batch # {f} THEN "registering"
                                        ELSE IF flight[u].left # {} THEN "landed" ELSE "done"])
    /\ UNCHANGED <<accepted, captures, old, raced>>

\* A refusal, a file that is not what was announced, or the server's time limit.
BreakOff(u) ==
    /\ flight[u].at \notin {"idle", "done", "over"}
    /\ Over(u)
    /\ UNCHANGED <<accepted, captures, datasets, old, raced>>

------------------------------------------------------------------------------
(* What becomes of a capture.                                                *)

\* Mutant of JobsOf: only the newest dataset's job is finished.
JobsOfNewest(c) == {d \in Newest(DatasetsOf(c)) : datasets[d].job # "NONE"}

JobsOf(c) == {d \in DatasetsOf(c) : datasets[d].job # "NONE"}

\* markCaptureReady reads the jobs, completes each, and then the capture.  The
\* organization's own people ask for it.
ReadJobs(u, c) ==
    /\ flight[u].at \in {"idle", "over"} /\ flight[u].site = Own /\ captures[c].status # "READY"
    /\ Goes(u, [Idle EXCEPT !.at = "readying", !.capture = c, !.left = JobsOf(c)])
    /\ UNCHANGED <<accepted, captures, datasets, old, raced>>

MarkCaptureReady(u) ==
    /\ At(u, "readying")
    /\ datasets' = [d \in DOMAIN datasets |->
                      IF d \in flight[u].left THEN [datasets[d] EXCEPT !.job = "READY"] ELSE datasets[d]]
    /\ captures' = [captures EXCEPT ![flight[u].capture].status = "READY"]
    /\ Over(u)
    /\ UNCHANGED <<accepted, old, raced>>

MarkCaptureFailed(c) ==
    /\ captures[c].status # "FAILED"
    /\ captures' = [captures EXCEPT ![c].status = "FAILED"]
    /\ UNCHANGED <<accepted, datasets, old, flight, raced>>

\* An administrator puts a capture back in flight, beside others.
RetryDroneCapture(c) ==
    /\ captures[c].status # "UPLOADING"
    /\ captures' = [captures EXCEPT ![c].status = "UPLOADING"]
    /\ raced' = raced \cup {"retried"}
    /\ UNCHANGED <<accepted, datasets, old, flight>>

\* A reviewer accepts a site whose drone capture is there.
AcceptSite(s) ==
    /\ s \notin accepted /\ Len(captures) > old
    /\ accepted' = accepted \cup {s}
    /\ UNCHANGED <<captures, datasets, old, flight, raced>>

FlightNext ==
    \/ \E u \in Uploads :
         \/ \E s \in Sites : StartUpload(u, s)
         \/ FindTarget(u) \/ StartCapture(u) \/ CreateDroneCapture(u)
         \/ MarkUploading(u) \/ AddDataset(u) \/ CreateJob(u)
         \/ \E d \in DOMAIN datasets : PickDataset(u, d)
         \/ \E some \in SUBSET Files : Land(u, some) \/ BeginBatch(u, some)
         \/ \E f \in Files : RegisterImage(u, f)
         \/ \E c \in DOMAIN captures : ReadJobs(u, c)
         \/ MarkCaptureReady(u) \/ BreakOff(u)
    \/ \E c \in DOMAIN captures : MarkCaptureFailed(c) \/ RetryDroneCapture(c)
    \/ \E s \in Sites : AcceptSite(s)

FlightSpec == FlightInit /\ [][FlightNext]_flightVars
------------------------------------------------------------------------------
\* Every variable holds a value of its type.
FlightTypeOK ==
    /\ accepted \subseteq Sites /\ raced \subseteq Races
    /\ Len(captures) <= MaxCaptures
    /\ \A c \in DOMAIN captures : captures[c].site \in Sites \cup {Own}
    /\ \A d \in DOMAIN datasets : /\ datasets[d].capture \in DOMAIN captures
                                  /\ datasets[d].job \in {"NONE", "CREATED", "READY"}
                                  /\ datasets[d].images \subseteq Uploads \X Files

\* Uploads in several sittings fill one capture: two are never in flight at
\* once (resolveDroneTargetForSite: "three captures of the same flight"),
\* unless two calls that found none overlapped, somebody started one whom the
\* vendor's is hidden from, or one came back from its end.
OneFlight ==
    raced \cap {"overlap", "hidden", "retried"} = {} =>
      Cardinality({c \in DOMAIN captures : captures[c].status \notin {"READY", "FAILED"}}) <= 1

\* What the panel calls uploaded is stored, every file of it, in one dataset
\* of the capture it was sent to.
UploadedIsStored ==
    \A u \in Uploads : At(u, "done") =>
      \A f \in flight[u].landed : <<u, f>> \in datasets[flight[u].dataset].images

\* A capture that is ready has no unfinished job, unless one was created
\* behind the back of the call that finished it or it was put back in flight.
ReadyIsProcessed ==
    raced \cap {"late", "retried"} = {} =>
      \A c \in DOMAIN captures : captures[c].status = "READY" =>
        \A d \in DatasetsOf(c) : datasets[d].job # "CREATED"

\* An image delivered for a job site is shown to the organization only when
\* that site is accepted (captureReviewWhere, tenant-scope.ts:178): what the
\* code does not keep, because an upload goes to any capture in flight.
VendorFlightsAreHeld ==
    \A d \in DOMAIN datasets : \A i \in datasets[d].images :
      flight[i[1]].site \in Sites \ accepted => ~Shown(datasets[d].capture)
=============================================================================
