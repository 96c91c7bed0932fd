# Verification of the property intelligence platform

TLA+ models of the parts of this repository whose correctness depends on what
runs at the same time, what fails halfway and what is cut off; TLC
configurations that check them on small instances; and proofs, checked by
TLAPS, of what holds for every value of their constants.

File names are relative to `src/src/` (so `lib/webhooks.ts` is
`src/src/lib/webhooks.ts`) unless they start with `prisma/`. `PROJECT.json`
holds the machine-readable side: runs, mutants, the source lines of every
definition, findings, hazards and theorems.

## 1. The system

A multi-tenant web application (Next.js route handlers over one Postgres
database through Prisma). All state that matters is in that database and in an
object store; nothing is kept in memory between requests. Statements run in
READ COMMITTED, mostly outside transactions, so every `await` of a database or
network call is a point where any other request, scheduled job or crash can
come in. Functions on the platform are killed after `maxDuration` (300 s on the
routes that run jobs). There is no queue service and no lock service: whatever
keeps two processes apart is a column and a WHERE clause.

What is scheduled is part of the reference, too: `vercel.json` starts the
photo analysis sweep once a day; the repository's README has an operator start
the DroneDeploy pass every 15 minutes; webhook delivery and due deletions
are only ever started by an administrator's POST, and nothing starts the purge
of idempotency keys.

### Components

| Component | State | Operations | What makes it hard | What makes it correct |
|---|---|---|---|---|
| **Photo analysis queue** `lib/ai/photo-analysis-queue.ts`, `photo-analysis.ts`, `start-auto-analysis.ts` | `PhotoAnalysisJob`, `AIFinding` | enqueue with the upload, sweep, claim, analyse, record, the button, review | upload runs and sweeps overlap, both are killed at any moment, the claim is a compare-and-set, the final write is not | one run per photo; attempts and bills bounded; settled is final; nothing queued is forgotten |
| **Idempotency keys** `lib/idempotency.ts`, `lib/api-utils.ts` | `IdempotencyKey` | claim by insert, replay, take-over of an expired key, complete, release, purge | two requests at every statement; failure after the work; expiry under a running request | work done once; the right response replayed; no key stuck |
| **Webhooks and events** `lib/webhooks.ts`, `lib/events.ts` | `Event`, `WebhookEndpoint`, `WebhookDelivery` | emit, fan out, run what is due, POST, record, disable, replay | no claim on a delivery, so runs overlap; attempt counts and streaks are read-modify-write; owners act meanwhile | nothing given up untried; attempts bounded; dead endpoints disabled; every endpoint hears of every event |
| **DroneDeploy import** `lib/dronedeploy-import-service.ts` | `DroneDeployImport`, one export row per layer, captures and outputs | discover, match, file, request exports, poll, copy, settle; assign, ignore, retry | overlapping passes over rows read long before; time budget; an outside service; property deleted meanwhile | one capture per map, one output per layer; an import that ends is complete; imports end |
| **Retention and deletion** `lib/retention.ts` | `DeletionRequest`, `LegalHold`, the property, files and their objects | request, cancel, hold, release, run due deletions | the purge spans two stores; holds, cancellations and uploads come in the middle; failures of single objects | holds and cancellations are honoured; no object outlives the row that names it; the record tells the truth |
| **Photo finding review and property health** `lib/ai/photo-analysis.ts`, `asset-condition.ts`, `scoring.ts`, `drone-service.ts` | `AIFinding`, asset condition and its history, `ConditionScore` snapshots | confirm, reject, rate by hand, recompute | the condition is read before the transaction that writes it; the snapshot is computed after it and stored by itself | a confirmation takes its hit once; the history leads to the score; the newest snapshot is of the present state |
| **Storage and its tiers** `lib/storage-tiering.ts`, `storage.ts` | `StorageObject` ledger, the store's own classes | register, pass, restore, delete, edit of the policy | a pass works from rows read earlier while restores are asked for, another pass runs, the policy changes | the ledger tells what the store holds; objects only move colder |
| **Metering** `lib/cost-metering.ts` | `UsageRecord`, `CostRate` | append usage, append a rate, sample storage, report | rates are set later than the rows they price; properties are deleted | each row at the rate of its own day; a report adds up |
| **Bulk import** `lib/import-service.ts`, `lib/import/*` | `ImportJob`, its rows, the records | preview, commit, roll back | two commits or rollbacks; edits in between; preview and commit judge rows by code of their own | no second record of an identity; what a job made is listed; a rollback undoes it; the preview tells what the commit does |
| **Capture jobs** `lib/capture-job-service.ts`, `evidence-service.ts`, `tenant-scope.ts` | jobs, sites, uploads and who sees them | create, issue, upload, submit, review, score, cancel | reviews count sites while others review; an upload is stored after it was decided which site it waits for | a closed job has only accepted sites; accepted sites are complete; uploads are held until their review |
| **Invitations and membership** `lib/invitation-service.ts`, `member-service.ts` | `Invitation`, memberships | invite, resend, revoke, accept, change role, remove | check-then-act on the last owner and on pending invitations | always an owner; one usable invitation; who was removed stays out |
| **Sign-in** `lib/password-reset-service.ts`, `auth.ts`, `session-context.ts`, `mfa-service.ts`, `impersonation.ts` | reset links, sessions, second factors, support sessions | request, use, sign in, enrol, confirm, challenge, disable, start and end support | two links; a sign-in that overlaps a reset; enrolment begun twice; a switch turned in two statements | a link works once; old passwords are out; a recovery code is accepted once; support ends with its permission |
| **Assessments** `lib/assessment-service.ts`, `assessment-sheet-service.ts`, `assessment-sheet.ts`, `components/assessment/AnswerSheetPanel.tsx`, `AssessmentRunner.tsx`, `components/tags/TagPicker.tsx` | the assessment, task responses, answers; a spreadsheet of them; the inputs of the page | answer, respond, complete, release, reopen; export, fill in, check and load a sheet; type, save and refresh the page | completion is decided from answers read earlier; a sheet is older than what it is loaded over; a page's saves arrive in any order | what is complete is answered; a locked assessment does not change; a sheet loads whole and as it was checked; a page at rest shows what is stored |
| **Assessment templates** `lib/template-service.ts`, `api/v1/assessments` | templates and their sections | create, replace in place, save as a new version, retire, schedule | uses are counted before the transaction that replaces; a version and the retirement of the old are two statements | assessments keep their questions; a template is what one writer wrote; a superseded one is not offered |
| **Tags** `lib/tag-service.ts` | tag types and tags, the tags of photos and responses | create, add the standard ones, delete, replace an item's tags, inherit | names and tags are compared before they are written; what is inherited is copied outside a transaction | one tag of a kind; only tags the property offers; no two of one name |
| **360 photo import** `components/media/Insta360ImportPanel.tsx`, `lib/capture/shot-matching.ts`, `lib/evidence-service.ts` | the panel's own plan, evidence rows, pins of the route | scan a card, match, register in chunks, learn pins | an import breaks off or loses an answer; the page is older than the route; photos are matched in the browser and filed by the server | a file is registered once and at the position it was matched with; a pin is learned once |
| **AI gateway and assistant** `lib/ai/gateway.ts`, `tools.ts`, `providers/*` | one question; `UsageRecord`, `AIQueryLog` | ask, reply with calls, run them, answer, meter, log | a loop that ends in four ways; what a call reads tells only afterwards which property it is of | scoped questions stay in their property; every call is answered; an answer names its sources and is metered |
| **Repairs** `lib/repair-service.ts`, `api/v1/issues/[id]` | the issue, its repair and proofs | assign, submit, verify, send back, edit | checks load and write by id; edits reach the same columns | somebody else checks; proof is from after it was sent back |
| Access rules `lib/tenant-scope.ts`, `permissions.ts` | none | scope clauses | pure functions over roles | the vendor's clause is modelled with capture jobs |
| Evidence and media `lib/evidence-service.ts`, `media-renditions.ts` | `Evidence`, objects | register, render previews | previews made after deletion | uploads are part of the queue, capture jobs and deletion |
| **Drone and interior capture** `lib/drone-service.ts`, `capture-job-service.ts`, `matterport-service.ts`, `components/capture/CaptureUploadPanel.tsx`, `components/exterior/ExteriorManager.tsx`, `components/interior/InteriorManager.tsx` | captures, datasets and their images; the connection, spaces and links | choose a capture, register in chunks, finish, retry; connect, link, paste, sync, unlink | uploads of several sittings and vendors choose a capture from what they find; the provider is asked between what a call reads and writes | a flight is one capture; what is called uploaded is stored; a tour waits for its review and claims nothing unconfirmed |
| **Overlays and embeds** `lib/overlay-service.ts`, `embed-service.ts` | `PropertyOverlay` and its file, `SpatialEmbed` | upload, add, move edges, change kind or link, delete | fields that must agree are checked with the row loaded before | edges and links agree; an overlay has its file |
| **Projects** `lib/project-service.ts` | `Project`, documents and assessments filed under it | create, update, file, schedule, delete | dates, filings and counts are checked with rows loaded before | dates in order; nothing filed under what is gone; a deletion tells what it unlinked |
| Others (clients of outside services, collections, dashboards, reports, maps, helpers, pages) | none of their own, or append-only | one call | none of these | not modelled |

The components meet in few places. An upload (evidence) creates a queue row
and starts a run after the response. Every handler that changes something goes
through the idempotency layer and may emit an event, which fans out to
webhooks. A property's deletion takes captures, findings and files with it
under the feet of every other component: the queue model has a deleted asset,
the import model a deleted property, and the deletion model the uploads that
come in the middle. The modules are therefore separate, each with the
other components as an environment that may do those things at any time; where
several small components are checked in one run, a variable `part` says which
of them a behavior follows (see `MCPeople`, `MCFieldWork`, `MCInspections`,
`MCRecords` below).

## 2. The modules

| Module | Models | Lines that carry it |
|---|---|---|
| `PhotoAnalysisQueue` | the queue, runs, sweeps, analysis, people | `photo-analysis-queue.ts:39-182`, `photo-analysis.ts:180-374,447-474` |
| `LeasedJobs` | the abstract contract of a table of leased jobs | (specification) |
| `PhotoQueueRefinement` | the refinement mapping of the first to the second | (specification) |
| `Idempotency` | one key under any number of requests | `idempotency.ts:31-174`, `api-utils.ts:86-179` |
| `WebhookDelivery` | events, endpoints, deliveries, runners | `webhooks.ts:131-527`, `events.ts:35-75` |
| `DroneDeployImport` | one map from discovery to finished capture | `dronedeploy-import-service.ts:254-742` |
| `Retention` | one property, its deletion requests, holds and files | `retention.ts:91-525` |
| `Team` | invitations and members of one organization | `invitation-service.ts`, `member-service.ts`, `membership-rules.ts` |
| `SignIn` | reset links and the sessions of one account | `password-reset-service.ts`, `auth.ts`, `session-context.ts` |
| `SecondFactor` | enrolment, recovery codes, the policy that requires a factor | `mfa-service.ts`, `api-utils.ts` |
| `SupportAccess` | support sessions and the customer's switch | `impersonation.ts` |
| `CaptureJobs` | jobs, sites, uploads, reviews and who sees what meanwhile | `capture-job-service.ts`, `evidence-service.ts`, `tenant-scope.ts` |
| `Repairs` | one issue and its repair | `repair-service.ts`, `api/v1/issues/[id]/route.ts` |
| `Assessments` | one assessment and one task of it | `assessment-service.ts` |
| `SurveyTemplates` | templates, their versions and their use | `template-service.ts`, `api/v1/assessments/route.ts` |
| `PhotoTags` | the tags of a response and of its photo | `tag-service.ts`, `assessment-service.ts:174-188` |
| `TagVocabulary` | tag types and tags | `tag-service.ts` |
| `PanoramaImport` | the import of a card of 360 photos | `Insta360ImportPanel.tsx`, `shot-matching.ts`, `evidence-service.ts` |
| `AskAi` | one question to the assistant | `ai/gateway.ts`, `ai/tools.ts`, `ai/providers/*` |
| `PropertyHealth` | the review of findings, an asset's condition, the property's snapshot | `photo-analysis.ts`, `asset-condition.ts`, `scoring.ts` |
| `ImportJobs` | preview, commit and rollback of imported files | `import-service.ts`, `import/dedup.ts` |
| `StorageTiering` | the tier ledger and the store | `storage-tiering.ts` |
| `CostMetering` | usage, rates and reports | `cost-metering.ts` |
| `DroneFlights` | the drone captures of one property, from the vendor's panel and the exterior tab | `capture-job-service.ts:635-658`, `drone-service.ts`, `CaptureUploadPanel.tsx:143-272` |
| `InteriorTours` | the organization's connection, the spaces and the property's links | `matterport-service.ts` |
| `SitePlans` | the overlays and embeds of one property | `overlay-service.ts`, `embed-service.ts` |
| `Projects` | projects and what is filed under them | `project-service.ts` |
| `AnswerSheets` | the spreadsheet of an assessment: exported, filled in, checked and loaded from the panel | `assessment-sheet.ts`, `assessment-sheet-service.ts`, `AnswerSheetPanel.tsx` |
| `AnswerForms` | the page an assessment is answered on | `AssessmentRunner.tsx`, `TagPicker.tsx` |
| `MCPeople` | `Team`, `SignIn`, `SecondFactor`, `SupportAccess` beside each other | |
| `MCFieldWork` | `CaptureJobs`, `Repairs`, `PanoramaImport`, `DroneFlights` and `InteriorTours` | |
| `MCInspections` | `PropertyHealth`, `Assessments`, `AnswerSheets`, `AnswerForms`, `SurveyTemplates`, `PhotoTags` and `TagVocabulary` | |
| `MCRecords` | `ImportJobs`, `StorageTiering`, `CostMetering`, `AskAi`, `SitePlans` and `Projects` | |
| other `MC*` | symmetry sets and the values of function constants for TLC | |
| `PhotoAnalysisQueueProofs`, `IdempotencyProofs`, `WebhookDeliveryProofs`, `RetentionProofs`, `PeopleProofs`, `FieldWorkProofs`, `InspectionsProofs`, `RecordsProofs` | theorems (section 5) | |

Common conventions. One action per database or network call, so that what a
process read is a variable of its own (`todo`, `snap`, `batch`, `keys`) and what
is in the row may differ by the time it is used. Statements whose failure the
code handles have an action for the failure. Processes are slots that can be
started again. `Crash`, `EmitCutOff` and `RequestCutOff` forget a process's
local state and leave rows alone. Variables that no row or local variable of
the program holds are history (what was POSTed, who was cut off, what was
cancelled in time) and are never read by a guard of the program's steps; bounds
(`MaxCrashes`, `MaxReplays`, ...) limit only what the environment does.

Much of this code reads, decides and writes without a claim, and a property
that it keeps as long as two calls do not overlap is worth as much as one it
keeps always. History variables name the exact overlap (`crossed`, `shared`,
`raced`, `overlaps`, `overlapped`, `behind`, `met`, `blind`, `lost`,
`unchecked`, `dropped`, `mixed`, `mingled`, `doubled`, `minted`, `races`,
`unseen`, `mishap`, `unsaved`, `strayed`) and
properties say what holds outside of it, so that every other interleaving is
still checked. Section 6 lists what happens inside.

Each `MC` module groups the named parts of a component's promise into
one property (`FindingsAreKept`, `KeyIsKept`, `TeamIsKept`, ...), which starts
with the component's type invariant; the parts are defined and explained
in the component's module.

### PhotoAnalysisQueue

`job[p]` is the row; `rev` stands for `updatedAt` (every write gives a new
value) and `age` for the time since `startedAt`. A run reads
candidates once (`ReadCandidates`), claims each by compare-and-set (`Claim`, or
`SkipTaken`), goes through `runPhotoAnalysis` in steps (`CheckPhoto`,
`CallProvider`, `CreateFinding`, `RefuseAnswer`) and writes the outcome by id
(`Record`), which throws if the row has gone (`AbortOnMissingRow`). The update to
DONE is inside the `try`: when it fails (`DoneFails`), the catch block queues or
fails a job whose finding exists, and `unsaved[p]` remembers it. `Tick`
moves the one clock; a run must have ended when `elapsed` reaches `RunLifetime`.
`RunLifetime <= StaleRunning` is the one assumption on timing: 300 s against
ten minutes. Left out: `take: limit`, the order of candidates (a
run may meet them in any order) and the content of a finding. `updatedAt` is
taken to differ between two writes of one row.

### Idempotency

`row` with a record id, the operation's hash, status and expiry; `claim[r]` is
the record id request r was given. Insert, its conflict, the read that follows,
the take-over, the handler, the store and the release are steps. `Store` may
take effect and still look like a failure to the caller. `slow` are the
requests whose `now` is older than the expiry. `Purge` exists although nothing
in the repository calls it (`Sweeping`).

### WebhookDelivery

Two ghosts carry the conditions under which its properties hold without a
claim on deliveries: `crossed` are the deliveries replayed while a runner was
attempting them, `shared` those two runs read as due at the same time. A
success whose transaction fails is assumed to have had no effect. Signing, URL
checks and event types are left out; an endpoint whose secret does not decrypt
(`Undecryptable`) is kept, because it changes the control flow.

### DroneDeployImport

Maps meet only in the budget of a pass, so one map is modelled: its row, its
layers' rows, its captures and outputs. DroneDeploy's answers are
nondeterministic. `trouble` is what keeps passes from their work: the account
disconnected or the feature off (`StartPass` returns early), the key refused
(`KeyRejected`), passes cut off at any point (`CutPass`). It comes and goes as it
likes (`Turn`), and is unbounded: passes may be cut off, or find the key refused,
for as long as one likes. Only the outputs whose row was never written are
counted (`cutOff`). `FileMatched` follows a discovery but may be cut
off from it; what is then left is a map no pass will file (see section 6).

### Retention

One property. A file is `Derived` if its row goes with the property (drone
imagery and outputs), `Overlays` are site maps and plans, the others keep
their rows without a property (evidence, documents). The runner's steps are the
check for a hold, the collection of keys, one deletion per object, the cascade
and the result. Left out: the policy's editor, the audit log, the per-surface
texts, and the surfaces that have no state here.

### Team, SignIn, SecondFactor, SupportAccess (`MCPeople`)

A request is a row of `task`/`job`/`call`: it resolves its session once,
reads what it checks and writes in a later step. In `Team`, links are not
values: the current one leads to its invitation. `TeamIsKept` has an owner
left unless two owners acted at once, of the invitations of an address only the
newest waiting unless two were made at once, and nobody who was removed a member again
without a new invitation; `JoinUsesInvitation` says that whoever joins uses up a
waiting invitation in that step. In `SignIn` passwords are numbered by
the resets that set them and sessions carry the time they were issued; a
session in use was opened with the present password unless the sign-in
overlapped a reset. In `SecondFactor` secrets are numbered; the secret a
sign-in asks for is one the user has proven, unless two enrolments
crossed. In `SupportAccess` a cookie names a row that every request resolves
again. A start reads the customer's switch (`StartReads`), ends what the
administrator has open (`StartEnds`), creates the row (`StartCreates`), writes
the customer's audit log (`StartAudits`) and sets the cookie with its answer
(`StartAnswers`), and may fail between any two (`Fails`). `strayed` are the
sessions whose start broke off after the row, or whose cookie was dropped:
`OneSession` says that every open session is its administrator's only one and
that their browser names it, is about to, or that it is one of those; `LoggedFirst`
that no browser names a session the audit log does not tell of.

### CaptureJobs, Repairs, PanoramaImport, DroneFlights, InteriorTours (`MCFieldWork`)

A site is named by its job and property. A call loads what it checks, and
writes by id; a review of the last site counts the others and then closes the
job in another statement. An upload is a record of its kind, the site it waits
for (`Tag`: the one of the job issued last, none for proof of a repair) and
whether it was due for a review when it was registered. `HeldForReview` says that what
a vendor delivers where a site waits for work is filed for a site whose review is
still to come, also where one job follows another at a property; proof of a
repair is filed for no site. `Repairs` follows one issue through assignment,
submission of proof, verification or return, beside edits that carry the
version of the page they were made on.

`PanoramaImport` follows one card through the panel: a photo is what is on it
(its checksum, where it was taken, how the panel classifies it), a route is
where its pins are. The panel matches once against the route its page was
rendered with (a photo near a pin goes to it, the rest in walking order), asks which files the server has, and registers
in chunks; the server then learns the pins of positions that have none. A
chunk may be refused, or be accepted and its answer lost, in which case it may
still be in flight when the card is scanned again.

`DroneFlights` keeps the captures of a property and their datasets in the order
they were made; `flight[u]` is one press of an upload button, from the choice of a capture
(`FindTarget`: the newest in flight, whoever's it is) over the files that
reached the store (`Land`) to the chunks the server registers (`BeginBatch`,
`RegisterImage`). The organization's own people start captures where the tab
shows none, add files to what it shows, and finish a capture, whose jobs are
read before they are completed (`ReadJobs`, `MarkCaptureReady`). The property is a
site of two jobs of different vendors.

In `InteriorTours` a call reads, asks the provider and writes; whether the
provider is configured is a property of the deployment. Linking by id asks
nobody and must not claim anything (`PasteSpace`, `Pasted`). `LinksAfter` is
the upsert that keeps the site of a link that is there.

### PropertyHealth, Assessments, AnswerSheets, AnswerForms, SurveyTemplates, PhotoTags, TagVocabulary (`MCInspections`)

`PropertyHealth` has one asset, its findings and one drone capture. A
confirmation reads the score, writes condition, history and finding in one
transaction, and then computes and stores a snapshot; what is kept of a snapshot is
whether its inputs are as they were. An import of assets or its rollback writes
the condition with no entry in its history and no snapshot (`ImportAssets`);
submitting a repair or sending it back reopens or resolves the issue with no snapshot
(`SubmitRepair`, `SendBackRepair`). `HistoryLeadsToScore` therefore says that an
entry continues from the score the asset has, whoever set it, and
`SnapshotIsCurrent` speaks of the changes that recalculate (`behind`). `Assessments` follows one task with one
required question through responses, answers and completion, of every kind of
task (completes itself or is marked, repeatable or not, photo or words).

`AnswerSheets` follows one sheet with a question of the site and one of a task,
both of one kind. What an answer is, is what its cell can tell of it: text with spaces
around it, a formula or a tab that the export guards, text that looks guarded, a note that reads as a
number, an option that contains the separator. `FormatAnswerCell` and
`ParseAnswerCell` are the two conversions: a cell is trimmed, and the guard before a
tab is not undone. `ofAssets` are answers about an asset: the export may show such an
answer in the row of its question (`Shown`), and a load writes it as one about none.
`RoundTrip` says, question by question, that an untouched sheet leaves an answer as it was if its
cell reads back as itself (`Exact`) and no asset has one, too.
A load checks every row, then writes responses, answers and the audit entry one by one
(`OpenResponse`, `SaveAnswer`, `LogImport`), and may break off between them. `LoadedIsWhole` says that what was
reported as loaded is stored, `LoadIsChecked` that the panel loads only a file
whose check it showed. In `AnswerForms` the note is an uncontrolled
input: it shows what was stored when the page was opened and what was typed
since, and is saved when it is left. Saves run at the same time and may be
served and answered in any order; `OthersStay` says that saving a note does not
wipe the number beside it, `ShownIsStored` that a page at rest without an error
shows what is stored.

In `SurveyTemplates` the sections of a template are named by the write they
come from, so that two writers' sections under one template can be told from
one's. A transaction is its DELETE's snapshot and its commit; the foreign key
of an answer to its question refuses a deletion (`Answered`). The builder page
decides between replacing and a new version from what it was rendered with,
so both calls may come at any time. In `PhotoTags` a replacement of tags is
the check, the DELETE's snapshot and the commit, which the primary key refuses
when somebody else has put one of the same tags there; defaults and
inheritance are single statements that skip what is there. `TagVocabulary`
keeps apart what the database refuses (two types of one name) and what only a
check refuses (two tags of one name).

### ImportJobs, StorageTiering, CostMetering, AskAi, SitePlans, Projects (`MCRecords`)

A row of a file is the identity it claims, the cells it fills and whether it
validates and resolves. `Matches` is the matcher of `dedup.ts`; the preview's
and the commit's decisions are separate operators, as they are separate code.
A commit applies a file row by row (`ApplyAll`, `ApplyNext`), a rollback undoes
the row results in any order (`Undo`, `Orders`).
`StorageTiering` keeps the ledger row and the store's class of each object; a
pass is a list of due objects read once, taken oldest first, with the object it
has in hand (`now`): `MoveObject` chooses it, `RecordMove` writes the row of
that object and no other. `CostMetering` prices rows when a
report is asked for (`CostOf`), and its properties compare the report's groups
with a direct sum over the rows. `AskAi` is one question from the check of its
property to its log row. The model is outside: any reply, an answer or any
calls with any arguments, may come, and the provider may fail or report no
usage; what is modelled is what the loop does with a reply, which records
reach the model, which are named as sources, and what is metered and logged.
The asker sees some of the buildings (`sees`); the functions for documents,
evidence and the exposure of one building look at all (`Matching`). A function
that fails keeps the sources it had noted (`ToolFails`). The request, the tokens in and the
tokens out are three rows, each of which may fail to be written (`RecordUsage`).

`SitePlans` has one axis for both pairs of an overlay's edges and two kinds of
embed; its one question is whether fields that are checked together agree when
calls name one of them each. `Projects` has the dates of a project and what is
filed under it; the foreign keys' ON DELETE SET NULL is part of `DeleteProject`.

## 3. The runs

Bounds are in the `.cfg` files; each row says why they suffice.

| Run | Bounds and why | Shows |
|---|---|---|
| `photo_queue_safety` | 1 photo (runs interact only through a photo's row), 2 sweeps, 1 upload run, 1 click, 2 attempts, a lifetime of 2 ticks equal to the stale threshold, 1 crash: two takers, a stale job and its successor all occur | exclusion, the validity of the unconditional write, limits on attempts and bills, findings accounted for (a second one needs a crash, a DONE that could not be written, or a click), settled rows final |
| `photo_queue_fair` | 2 photos, an upload run, a sweep, a budget that only lets a run begin, 1 attempt, 1 crash; no symmetry, because of liveness | `LeasedJobs` is implemented; a queued photo is settled or deleted in the end |
| `idempotency` | 3 copies of a request and a different one under the same key, 1 expiry, 1 crash, purge: insert, conflict, replay, mismatch, take-over and vanished row all occur | exclusion and faithful replay while the key lives; record ids keep tenures apart; no stuck key without a crash |
| `webhook_runners` | 2 runners, 1 endpoint and 1 event (deliveries meet only in an endpoint's streak; the theorems cover any number), 2 attempts, streak limit 2, 2 replays, 2 toggles, 2 crashes | deliveries are neither given up early nor POSTed beyond the limit; a dead endpoint is disabled; SUCCEEDED stays |
| `drone_one_pass` | passes that never overlap, 2 layers, 1 copy per pass, 2 attempts, 1 output whose row was not written, 1 retry, 1 ignore, any number of passes cut off or kept away: a pass never finishes both layers, so every import spans passes; a person files beside the pass | layers are accounted for (one capture per map, one output per layer), what is called landed is there, an ended import is complete; imports end once nothing keeps passes from their work |
| `retention_purge` | 2 requests, 2 runners, 1 person, 1 hold, a file of each kind, 1 fault or crash | holds and cancellations of the grace window; objects before rows; honest results |
| `people` | 3 users (2 founders, one of them perhaps not an owner, and an invitee), 2 requests, 2 invitations, 2 links, a clock of 4, 2 secrets and codes, 1 organization that requires a factor, 2 customers, 3 support sessions: two of everything that is meant to exist once | the team, the account and support access keep their promises outside the overlaps named |
| `field_work` | 2 jobs with 2 sites between them (2 properties of one job, or two jobs at one property), 2 calls, no further than the first two decisions about one site at a time or the first overlap on a repair (`OneAtATime`: no property but the types says anything beyond); 1 manager and 1 technician for the repair: two reviewers, the last site, a submit beside a review, an edit beside a check; cards of 2 photos, alike or not, with and without a location, on routes of 1 and 2 positions, one photo per chunk, 2 imports, 1 mishap: a second import after every way the first can end; captures: 1 job site beside the organization's own, 2 files in chunks of 1, 2 captures, with or without one of before; tours: 2 spaces, one known to the provider, 4 calls | sites accounted for, uploads held for review, repairs checked by another; captures: cards filed once, uploads fill one capture, tours wait for review; what is settled stays |
| `inspections` | 2 findings (one with a hand rating), 2 calls, scores 0 and 1; three kinds of task (marked by hand with a photo or with words and not repeatable, completed by its photo and repeatable), 2 instances, 2 answers; 2 templates, 2 writes; 4 tags, 2 choices, a response and its photo; 4 tags of 2 types in the vocabulary: two calls in every window the code leaves; sheets: 4 kinds of question, an answer of a site or task and perhaps one to the same question about an asset, 1 edit, 2 sends, 1 answer meanwhile: a check and a load, with or without a change between them (`NobodyBeside` stops where somebody has answered in the app beside the sheet: from there on `SheetsAreTrue` asks only that a load was shown first, which the other behaviours check, and the theorem has no such stop); page: 2 values, 2 labels, 2 saves, 1 change by others: two saves of one field or of two | confirmed once, history leads to the score, snapshot current; complete is answered; a locked assessment stays as it is; templates and tags are kept; what a sheet or a page showed is what is stored |
| `records` | imports: 2 jobs, 3 files of 2 or 3 rows (by id, by external id, by address, by name, invalid, unresolved), 5 records, 2 requests, 2 commits, 1 edit; tiers: 1 object, 2 passes, ages to 2, 4 schedules, 2 changes, 1 cut-off; metering: 2 metrics, 2 days, 2 usage rows, 2 rates; questions: 2 buildings, any of them seen, 7 functions, 2 requests of the loop, 2 calls per reply: a second request, a call beside another, one that fails half way, the limit of the loop; plans: 2 overlays, 1 embed, edges 0 to 2; projects: 2 projects, 2 days, 1 document, 1 assessment, 3 calls | identities stay single, the preview tells the commit, a rollback restores, the books are true (imports and reports), so is the ledger; answers are accounted for, edges and links agree, projects keep dates and filings |
| `webhook_event_lost` (violation) | 2 endpoints, one deleted in between | divergence: deliveries are not enqueued with their event |
| `repair_self_verified` (violation) | the bounds of `field_work` | divergence: an edit of the issue lets the technician who did a repair close it |

Deadlock is checked except where every request of a bounded environment comes to an
end and nothing is left to do: in `idempotency`, `people`, `field_work`,
`inspections` and `records`. Each property of a passing run has a
mutant, a small defect of the modelled code that the run detects.

The composed runs cost the sum of their parts, not the product: a behavior
follows one part and leaves the others' variables in their initial
state.

## 4. Fairness

- *Photo queue.* The cron route starts a sweep every day (`ReadCandidates`), a
  run that works goes on or is killed (`Analyse`, `Finish`, `Reach`: every
  outside call returns or times out) and time passes (`Tick`). Strong fairness
  says that a sweep that keeps reading a candidate reaches it some day: jobs
  are read oldest first and every run starts with a claim, so none is passed
  over for ever. No person is made to act, and crashes are not fair.
- *DroneDeploy.* A pass is started again and again (the `*/15` cron the
  repository's README sets up) and goes on while nothing keeps it from its work.
  That passes are able to work is not fairness but the hypothesis of
  `ImportSettles`, `<>[](trouble = "none")`: the account stays connected and
  entitled, the key is accepted and passes have the time they need, from some
  moment on. Without it the code guarantees nothing: such an import stays
  IMPORTING (section 6). Strong fairness of `Answer` is an assumption about
  DroneDeploy: an export that is asked about again and again is built, refused or
  fails in the end. No button has to be pressed.
- *Webhooks, retention, idempotency, tiers.* Nothing in the repository
  schedules them, so no fairness is assumed and no liveness claimed.
- *People, field work, inspections, records.* Every step is somebody's request;
  what nobody asks for need not happen.

## 5. The proofs

All theorems are about the specification a run checks (`Spec`, `PeopleSpec`,
`FieldSpec`, `InspectionSpec`, `RecordsSpec`). They hold for any finite or
infinite sets of processes and rows and any bounds, under the named `ASSUME` of
the module. Those assumptions say that the value for "none" is none of the
things it stands beside, that bounds are natural numbers, and:

- `QueueAssumption`: upload runs, sweeps and clickers are different processes,
  and `RunLifetime <= StaleRunning` (300 s against ten minutes). There are
  finitely many clickers, because a property counts findings against clicks.
- `IdempotencyAssumption`: finitely many requests, for the same reason.
- `TeamAssumption`: finitely many users, because owners are counted.
- `ImportAssumption`: finitely many records, because a commit needs a new id for
  every row; the columns that are no identity are others than those that are; no two of the
  records at first are one property; files are sequences of rows, and a valid
  row has a name and a city (`RowOK`: `import/fields.ts` requires both). A name or
  a city without a letter or a digit, which the normaliser makes empty, is left out.
- `RecordsAssumption`: quantities and costs of usage are natural numbers.

Each proof has the same shape: the invariant holds initially, each action
preserves each of its parts (one step per action, one below it per conjunct the
action can disturb), it implies the property, and the temporal step puts these
together. In the composed runs a behavior follows one part, so the invariant of
a run is the conjunction of those of its parts (`PeopleInv`, `InspectionInv`,
`RecordsInv`).

**PhotoAnalysisQueueProofs.** `ExclusiveAnalysis` is not inductive: nothing in
it keeps a stale job from being claimed while its run still works. `QInv` adds
that a run's photo carries the run's claim and that the claim is no older than
the run (`Holding`, from `RunLifetime <= StaleRunning`), and that a snapshot
with the row's present `rev` tells the truth (`Snapshots`). From it follow
`QueueTypeCorrect`, `AnalysisIsExclusive`, `ClaimStaysHeld` and
`SettledStaysFinal`. `LimitInv` adds that every attempt of a row that is
RUNNING without a run was lost to a crash, which gives `AttemptsStayBounded`
and `SpendStaysBounded`. `FindingInv` keeps the count of a photo's findings
against its crashes, its updates to DONE that failed and its clicks (`Kept`), for `FindingsStayKept`.
`QueueImplementsLease` is the refinement of `LeasedJobs`, step by step: a claim
takes a job, a record settles or gives it back, a crash forgets the holder, a
deletion withdraws, every other step leaves the contract's view alone. It
needs `QInv` and that the holder the mapping names is the run at work on the
row (`Held`).

**IdempotencyProofs.** `KeyInv` says that a claimant holds the row it was given
and that a stored response is genuine, as long as nothing has expired;
`UntilExpiry` is the invariant `expiries = 0 => KeyInv`. `LiveKeyIsExclusive`,
`LiveKeyReplaysFaithfully`, `LiveKeyIsReleased` and `LiveKeyKeepsResponse` stop
there for a reason: after an expiry exclusion is false (the finding).
`KeyStaysKept` goes on: `RecordInv` holds for ever and says that the response in
the row is that of a request that was given this very record and can get no
other; `WorkInv` says that work done under a living key and not failed is the
stored response or about to be it (`WorkIsKept`).

**WebhookDeliveryProofs.** `WebhookTypeCorrect`; `StreakInv` (types, enabled
endpoints are stored, `DeadIsDisabled`) is inductive for
`DeadEndpointIsDisabled`; `CountInv` relates every row and every number a
runner carries to the POSTs made, outside `crossed`, for
`GivenUpOnlyWhenTried` and `NoAttemptIsInvented`. `PostInv` says that, outside
`shared`, one runner has a delivery in its batch or in hand (`OneHolder`), and
that a POST not counted in the row is one a runner is about to count or one
lost to a crash (`Untold`, `Told`); it gives `PostingComesToAnEnd`. For
`SucceededStaysFinal` it needs beside it that nobody who is trying a delivery
finds it SUCCEEDED (`Undone`).

**RetentionProofs.** `RInv` says that a runner works on due requests only, that
a person who cancels has found a request and one cancelled in its grace window
is never pending again, and that between its collection and its last deletion a
runner still has every key that was not deleted, refused or registered since
(`CollectedAll`); without the last, an object missing from the list would not be
told from one already deleted. A failure that was met is in a request that says
so, or its runner still knows of it (`FailureIsKnown`). It gives `GraceWindowIsHonoured` and
`PurgeLeavesNothingUnsaid`.

The module's second half is about `DroneDeployImport`, which it extends, too. `ImportInv` holds however passes and people
overlap: whoever files a map finds it unfiled in the transaction that files it
(`OneFiling`), and whoever advances or retries one has found its capture. It gives
`MapIsFiledOnce`. `OnePassInv` adds what a pass takes for granted of the rows it
has read long before: a layer it has yet to reach, or is copying, still waits
(`LeftIsWaiting`), and an output more than there were faults is of a layer that
landed or is about to (`OutputsCounted`); it gives `LayersAreCopiedOnce`.
`SettledInv` adds that nothing finishes a map while a pass advances it
(`AdvancesOpen`) and that who retries finds it failed with no pass at it
(`RetriesFailed`), for `ImportEndsComplete`. The last two theorems have the
hypotheses that passes do not overlap (`OnePass`), as in the run, and the last
that no two people retry at once (`OneRetry`): without them the code does not keep what they
state (section 6), and TLC shows both.

**PeopleProofs.** `TeamInv`: what a request has in hand is of the kind its
operation needs, and as long as no two changes overlapped at most one is past
its checks and leaves an owner (`OneChange`); whoever is being invited is no
member, and what the transaction has not yet revoked does not wait
(`OneInvitation`). `SignInInv`: who revokes links has seen every one there is
(`OneAsks`); beside a reset nobody signs in and every session is older
(`OneResets`). `FactorInv`: who enrols is alone with the stored secret
(`OneEnrols`), a stored code has let nobody through (`CodesAreFresh`), and who
turns a factor off does so where it is not required (`OneDecides`).
`SupportInv`: what an administrator has open is what their browser names, is about
to be told of, or has strayed; a session that is answered with has been logged; and a
session is being started only where it is allowed. Each of these holds as long
as the calls of its history variable did not overlap. Theorems: `TeamStaysKept`, `AccountsStaySafe`,
`JoiningUsesAnInvitation` (an action property).

**FieldWorkProofs.** One invariant per part. `RepairInv`: a call that
loaded the issue is the only one and what let it through still holds, unless
calls `overlapped` (`LoadKept`). `TourInv`: a call that links has a space that is
stored. `FlightInv`: a call that makes a capture is alone and none is in flight
(`OneInFlight`), what has landed and is no longer to be registered is in the
dataset (`FlightKept`), and who finishes a capture knows every job there is to
finish (`JobsKnown`), outside `races`. `CaptureInv`: what a call loaded still
has the status that let it through (`CallKept`), calls that did not overlap
decide about different sites, and a job whose sites are all accepted is closed
or a review is about to close it (`JobsEnd`). `PanoramaInv`: the plan keeps the
walking order and gives no position twice (`PlanFits`), a row says of its photo
what the card does (`RowKept`), and no two rows, registered, in flight or still
to come, are of one photo (`OnceKept`). Minima and maxima over sets of naturals come from
`WellFoundedInduction`'s minimal elements, the match by walking order from
ranks (cardinalities of initial segments). Theorems: `RepairsStayChecked`,
`CapturesStayTrue`, `SitesStayAccountedFor` and the action property
`WhatIsSettledStays`.

**InspectionsProofs.** `TagInv`: what a request is about to write is offered,
one of a kind and beside none of that kind, if no other writer came between
(`TaggingKept`); `WordInv`: a word on its way was compared with those its request saw.
`SurveyInv`: outside the overlaps noted in `mixed`, a template has the sections of one
write and those it was first used with, and what a call is about to replace was
not used and is all that its DELETE saw (`SurveyKept`, `SavingKept`).
`AnswerInv`: a response whose completion is not that of its answers has a call
that will say so (`CompletionKept`), one call creates an answer (`OneCreates`),
and a locked assessment has none that loaded it before (`LockKept`).
`HealthInv`: one call has a finding in hand and the score it read is the present
one (`ReviewKept`), and a snapshot that is not of the present state is being
renewed (`SnapshotKept`). `SheetInv`: rows that a load has gone through, and all of a file that
the panel calls loaded, are stored as they were filled in, unless somebody answers
in the app (`LoadedSoFar`); only a checked file is written (`WritesPlanned`);
what the panel shows, and what is on its way, is of the file it has (`PanelKept`);
and cells nobody edited say what was stored at the export (`Unedited`), so that
loading them changes no answer whose cell reads back as itself. `PageInv`: a save is sent when those of its field have
been heard of (`InTurn`); while no error was met, the tags shown are those stored
or on their way (`LabelsKept`), the last note stored is the last note left
(`NoteKept`), and what was stored since the page was rendered is about to be heard
or rendered (`DrawnKept`). Theorems: `TagsStayFiled`,
`TemplatesStayKept`, `AnswersStayWhole`, `ReviewsCountOnce`, `SheetsStayTrue` and
the action property `LockedStaysLocked`.

**RecordsProofs.** `TierInv`: an object that two passes did not share and none
died over is on one list at most, and its row is that of the store unless its
pass is about to write it (`InOneHand`), with what is on its way of a restore
(`RestoreInHand`).
This proof showed an error of the model: a pass chose its object
again between the move and the row, which a run with one object
cannot tell; the object is now part of the pass. `AskInv`: what the conversation
still owes (`Conversation`), what it cost so far (`Metering`) and where its
sources come from (`Sources`). `PlanInv`: what a call is about to write fits, and
a key registered once has one owner, an overlay or the removal of it
(`KeysAreHeld`). `ProjectInv`: the dates an update would write are in order and
what a deletion has counted is there, as long as no such calls `crossed`.

`MeterInv`: a metric has one rate of its own and one of the platform a day
(`OneRateADay`), and no two usage rows are one. A report adds up its rows in three ways (by metric, by property, in one
sum), and the theorem says that they agree: sums over finite sets are unfolded
one element at a time (`SumUnfolds`), and the sum of a set is that of its
groups (`SumByGroups`). Induction over sets and numbers comes from minimal
elements of a set of counterexamples (`SmallestSet`, `UpTo`), which the library
has as a theorem without an operator parameter. `ImportInv`: as long as no two commits were under
way at once and none merged, a row that is to be created is no property there is, and no two
properties are one (`Apart`); what the only commit of a job created is in its
results (`MadeIsListed`); and the first row that updated a record keeps what
the table held before the commit (`ImagesKept`). `AppliedRows` says what n rows of a
commit have made of the table and is kept by each kind of row (`ApplyNextKeeps`);
`UndoneRows` says it of a rollback (`UndoUndoes`).

Theorems: `RecordsStaySound` (the
conjunction is invariant), `BooksStayTrue`, `LedgerStaysTrue`, `AnswersStayAccounted`,
`PlansStayFit` and `PastStaysKept` (an action property).

Only model-checked:

- `QueuedIsSettled` and `ImportSettles`: liveness under fairness, and with it
  ENABLED, is beyond these provers.

## 6. Known limits of the code

Besides the findings in `PROJECT.json`, the models show behaviours that
contradict no statement quoted there. The properties are worded so as not to
hide them. Where a module defines the statement that fails, its name is given;
TLC finds each of them violated when it is made an INVARIANT of the component's
specification.

- *Photo queue.* Two clicks on the button make two open suggestions for one
  photo (`OneOpenSuggestion`; `lib/ai/photo-analysis.ts:263-265`).
- *Idempotency.* Two requests that take over one expired key both proceed and hold the
  same record id (`ClaimExclusive`; `lib/idempotency.ts:59,112`), so the first
  to finish decides which response is replayed to the other's retry. A request
  that meets the unique violation and then finds the row deleted runs without
  a key.
- *Webhooks.* Of two runs on one delivery, the slower may write FAILED over
  SUCCEEDED. A replay during an attempt is forgotten: the attempt writes its
  own number and status. An endpoint re-enabled by its owner between the write
  of the streak and the test of it is disabled again. A deleted delivery ends
  a batch.
- *DroneDeploy.* Overlapping passes collect one export twice
  (`OneOutputPerLayer`; `lib/dronedeploy-import-service.ts:393,576`), and the
  slower may mark FAILED what the other collected. A map ignored while it is
  being filed ends IGNORED with a capture and can no longer be assigned
  (`crossed`). Two people who retry one failed import at once may both pass the check
  (`lib/dronedeploy-import-service.ts:355`); the later one asks again for layers that
  failed, after the pass has read that none waits, and the import ends IMPORTED with
  layers nobody will collect. An account that is disconnected, a key that is refused
  or a feature that is turned off leaves its imports IMPORTING for as long as that lasts
  (`lib/dronedeploy-import-service.ts:410-437`). A pass that ends between the creation of a matched map and its
  filing leaves it to a person.
- *Retention.* Objects of site maps and plans outlive the property
  (`NothingIsMissed`; `lib/retention.ts:395-400`). When objects fail, rows are
  deleted all the same: the objects are reported and lost. A run cut off after
  the cascade leaves a request the next run reports COMPLETED. A hold or a
  cancellation that comes during the execution is not seen, and the result
  overwrites a cancellation. BLOCKED and FAILED leave the property marked. Two
  pending requests are possible, and cancelling one shows the property as
  ACTIVE. The derived-files surface is COMPLETED whatever happened to the
  objects. Thumbnails of document versions and drone images are not collected
  either.
- *Reviews and health.* Two confirmations for one asset that overlap lose one
  hit (`RuleTakesItsHit`; `lib/ai/photo-analysis.ts:481-490`, `386-388`).
  An import of assets, and its rollback, write an asset's condition with no entry in
  its history and leave the snapshot as it was (`lib/import-service.ts:604,691,796-816`).
  Submitting a repair and sending it back (`lib/repair-service.ts:232`), a change of severity alone, a capture marked failed or created
  READY, and new evidence do not recompute the snapshot, and two recomputations may be
  stored in the wrong order.
- *Team.* Two owners who act at once may leave no owner (`AlwaysAnOwner`;
  `lib/member-service.ts:27`), two invitations at once both stay pending.
- *Second factor.* Where a member belongs to two organizations, a person
  of one may disable the factor the other requires, and nobody may be left who
  can change the policy back (`PolicyAlwaysReversible`;
  `lib/mfa-service.ts:262-268`).
- *Support access.* A start that breaks off after its row, in the audit write or
  before its answer, leaves a session open that no browser names and, before the
  audit write, the customer's log does not tell of (`lib/impersonation.ts:87-106`);
  so does a cookie that is deleted or expires while its row cannot be closed. It
  stays open until the administrator's next start; its row counts as active until it
  expires.
- *Capture jobs.* An upload stored after its site changed hands is visible or held wrongly
  (`VendorWorkIsHeld`; `lib/tenant-scope.ts:176-208`). Concurrent calls make two captures of
  one site (`lib/capture-job-service.ts:635-658`). A review that breaks off
  after accepting the last site leaves the job open. A submit or a score written
  late reopens an accepted site. Two issues reset `issuedAt`. Unlinking an
  interior scan after acceptance removes a deliverable. An upload that names an issue is filed for
  no site and shown at once, as proof of the repair
  (`lib/evidence-service.ts:204-205,423`), but counts toward a site's photos all the same.
- *Drone captures.* A vendor's images join the newest capture in flight, also one of
  the organization's own or of another vendor's accepted site, and are then shown
  before their review (`VendorFlightsAreHeld`; `lib/capture-job-service.ts:645`), although
  `lib/tenant-scope.ts:176` calls them a draft until then. Two calls that find no capture in flight make two, as does
  somebody on the tab from whom a vendor's capture is hidden. A job is created
  unfinished in a capture that is being finished (`late`), and an administrator's
  retry puts a finished one back in flight. A capture from before a job is not
  counted as its deliverable.
- *Tours.* Unlinking takes any link of the property, in no order and
  without the filter of reviews (`lib/matterport-service.ts:338`). A space the
  organization links itself stays hidden while a vendor's link of it waits for review.
  A connect answered after a disconnect connects again.
- *Overlays.* A key may be registered twice; deleting one of the overlays takes
  the other's file (`OverlaysHaveFiles`; `lib/overlay-service.ts:183` says
  nothing else points at it).
- *Projects.* Two updates, one of each date, may leave a project that ends before it
  starts (`DatesInOrder`; `lib/project-service.ts:44,187`).
- *Repairs.* `verifyRepair` records the asset's condition after the status, so a call that
  breaks off leaves a closed issue without it. Two edits made on one version both
  pass when their checks come before either write.
- *Templates.* An assessment scheduled between the count of a replacement and
  its commit gets other questions than it was scheduled with, although the
  transaction's comment takes for granted that no assessment uses the template;
  two replacements that overlap leave the sections of both
  (`lib/template-service.ts:182-189`). Two pages that save a version of one
  template, or a call that breaks off, leave two offered (`OneIsOffered`).
- *Tags.* Two writers of one item's tags that overlap leave two of a kind
  (`lib/tag-service.ts:210-213`). A tag deleted between the read and the copy
  of a new response's or photo's tags fails the call after the row was made. An organization-wide
  tag may take the name of a property's own (`NamesStayDistinct`;
  `lib/tag-service.ts:149-154`).
- *360 photo import.* A page older than the route fills a position by walking
  order that an earlier import filled (`NeverFilledTwice`;
  `components/media/Insta360ImportPanel.tsx:272`). A registration still in flight
  when its card is scanned again, and an import whose check for duplicates failed,
  file a photo twice.
- *Assistant.* A question about a property that is gone when it is looked up
  gets all functions instead of those of the property (`NeverUnscoped`;
  `lib/ai/gateway.ts:136-138` says otherwise). Portfolio summaries name no
  source, so the log calls their data insufficient; a link to a report names a source that was
  not read; an asset of another property is named although it was
  withheld, and so is a property whose details could not be read; a loop that fails is not
  metered, and a usage row that cannot be written is dropped. A question about no property in
  particular is told of documents, evidence and exposures of any property
  (`lib/ai/tools.ts:188-199,215-227,255-268`).
- *Assessments.* A call that loaded the assessment before it was completed or
  released still writes, and may reopen it. Two saves that find no answer
  make two. Completion is decided before another answer is written, and completing an
  assessment does not ask for its required tasks. A sheet of answers is not atomic:
  a load that breaks off, or finds the assessment locked halfway, leaves what it
  wrote, and so does one whose audit entry fails after the last answer, which reports
  an error with everything saved (`lib/assessment-sheet-service.ts:229-236`). An untouched
  sheet does not load back every answer: spaces around a text are trimmed, the apostrophe
  put before a tab stays (`lib/assessment-sheet.ts:48,84`), text that begins with an apostrophe and a sign loses
  it, an option with the separator in it is refused, a note of digits becomes a number, and a note beside a number is
  lost (47-72). An answer about an asset is exported in the row of its question, and
  loaded as another answer, about none (`lib/assessment-sheet-service.ts:29`). An error a
  save left on the page disappears with the next save.
- *Imports.* A preview of a job that was applied makes it committable
  again (`AppliedOnce`; `api/v1/imports/[id]/preview/route.ts:40` and
  `lib/import-service.ts:379`). When two rows of one file update one record, a
  rollback restores the first row's result. An earlier row that fails still claims its identity.
  Blank number cells clear a value under UPDATE. A commit fails as a whole
  for a portfolio that does not exist, of which the preview makes one row's error.
  Duplicates by name within a file are not found for assets and projects.
- *Tiers.* The tiering route replaces thresholds that a request leaves out,
  though its comment says they are left alone
  (`api/v1/organizations/storage-tiering/route.ts:10-12`). Two passes over one
  object may warm it or lose a restore; a pass that dies between a move and its row
  leaves the ledger behind for good. `restoreState` never leaves AVAILABLE.
- *Metering.* Rows of deleted objects are charged and a second sample of a day
  doubles it (`SampleIsWhatIsStored`; `lib/cost-metering.ts:180`). A rate may start in the
  past and changes earlier reports.

## 7. The plan

Done, in this order: `PhotoAnalysisQueue` with its contract and proofs,
`Idempotency` with proofs, `WebhookDelivery` with proofs, `DroneDeployImport`,
`Retention`, `ImportJobs` with `StorageTiering` and `CostMetering`, `Team`
with `SignIn`, `SecondFactor` and `SupportAccess`, `CaptureJobs` with
`Repairs`, `PropertyHealth` with `Assessments`, `PanoramaImport`, `AskAi`,
`SurveyTemplates` with `PhotoTags` and `TagVocabulary`, `DroneFlights` with
`InteriorTours`, `SitePlans` and `Projects`, `AnswerSheets` and
`AnswerForms`; then the proofs of section 5.

Next: the components that are modelled in part (section 1), and the abstract
contracts of the other queues, as `LeasedJobs` is that of the photo queue.

### Not modelled

- Most pages and components, about half of the code: they render what the server returns,
  and what of them keeps state of its own is repeated by the server's checks. Those
  that decide something alone are modelled: the 360 import panel, the vendor's
  upload panel, the panel of answer sheets and the page an assessment is answered on.
- Clients of outside services (AI providers, drone and interior scan
  services, geocoding, the object store's signer): one request and
  one answer each; the models of their callers let every call fail.
- Prompts, the wording of answers and document extraction: what the model makes of them
  is outside.
- Dashboards, analytics, notices and reports: queries over rows that other
  components write.
- Maps, geometry, media metadata and file parsing: arithmetic and decoding of
  one input, which unit tests reach.
- Collections: rows written by one statement after one check, without state
  that spans two calls.
- Seeds, scripts, configuration and tests.
