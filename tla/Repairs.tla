------------------------------- MODULE Repairs -------------------------------
(* One issue and its repair: who is sent, the proof that it is done, and the *)
(* check by somebody else (repair-service.ts), beside the edits of the issue *)
(* itself (issues/[id]/route.ts).                                            *)
(*                                                                           *)
(* A call loads the issue and decides, and writes later by id.  An edit      *)
(* carries the version of the page it was made on; what matters of a version *)
(* is whether it is still the issue's, so that is what is kept of it.        *)
(* TRIAGED is treated as OPEN everywhere and stands for it.  An edit of      *)
(* several fields is one that changes one of them here.                      *)
CONSTANTS Managers,   \* may edit, resolve and check (canVerifyRepairs)
          Staff,      \* may edit only (canCreateIssues)
          Calls       \* the requests the servers run at one time

None == "none"
Vendor == "vendor"    \* the people of the vendor company
Keep == "keep"

VARIABLES status, assignee, sent,   \* sent: the issue is assigned to the vendor
          proof,                    \* there is an after-photo since repairSentBackAt
          submittedBy,
          verifiedBy,               \* while it is verified; nothing reads it later
          call,                     \* what each request is doing
          via,                      \* the kind of call that set the status
          blind,                    \* an edit was written over a change it had not seen
          overlapped                \* two calls have overlapped
repairVars == <<status, assignee, sent, proof, submittedBy, verifiedBy, call, via, blind, overlapped>>

Members == Managers \cup Staff
Statuses == {"OPEN", "ASSIGNED", "IN_PROGRESS", "RESOLVED", "VERIFIED", "CLOSED"}
Finished == {"RESOLVED", "VERIFIED", "CLOSED"}
Closed == {"VERIFIED", "CLOSED"}
Resting == [at |-> "idle", op |-> None, by |-> None, set |-> Keep, who |-> Keep, to |-> Keep, new |-> TRUE]

Init ==
    /\ status \in {"OPEN", "ASSIGNED"}
    /\ assignee = None /\ sent = (status = "ASSIGNED")
    /\ proof = FALSE /\ submittedBy = None /\ verifiedBy = None
    /\ call = [r \in Calls |-> Resting]
    /\ via = "edit" /\ blind = FALSE /\ overlapped = FALSE

IsRepairer(u) == IF u = Vendor THEN sent ELSE assignee = u

\* A vendor sees the issues it is sent to; members see every issue.
Sees(u) == u # Vendor \/ sent

\* Every write ends its call and makes a new version, which no other call has.
Writes(r) ==
    call' = [q \in Calls |-> IF q = r \/ call[q].at = "idle" THEN Resting ELSE [call[q] EXCEPT !.new = FALSE]]

\* A call loads the issue while another is between its load and its write.
Loads(r, c) ==
    /\ call' = [call EXCEPT ![r] = c]
    /\ overlapped' = (overlapped \/ \E q \in Calls \ {r} : call[q].at = "loaded")
    /\ UNCHANGED <<status, assignee, sent, proof, submittedBy, verifiedBy, via, blind>>

\* A call of u for the repair; by is who it will write down.
LoadFor(r, op, u, by) ==
    /\ call[r].at = "idle" /\ Sees(u)
    /\ Loads(r, [Resting EXCEPT !.at = "loaded", !.op = op, !.by = by])

Loaded(r, op) == call[r].at = "loaded" /\ call[r].op = op

------------------------------------------------------------------------------
(* The repair.                                                               *)

\* Mutant of LoadStart: work may start on an issue that was closed.
LoadStartAnew(r, u) ==
    /\ IsRepairer(u) /\ status \notin {"IN_PROGRESS", "RESOLVED"}
    /\ LoadFor(r, "start", u, None)

LoadStart(r, u) ==
    /\ IsRepairer(u) /\ status \in {"OPEN", "ASSIGNED"}
    /\ LoadFor(r, "start", u, None)

StartRepair(r) ==
    /\ Loaded(r, "start")
    /\ status' = "IN_PROGRESS" /\ via' = "repair" /\ verifiedBy' = None
    /\ Writes(r)
    /\ UNCHANGED <<assignee, sent, proof, submittedBy, blind, overlapped>>

\* Whoever sees the issue may attach a photo of the finished repair.
AttachAfterPhoto(u) ==
    /\ Sees(u) /\ ~proof
    /\ proof' = TRUE
    /\ UNCHANGED <<status, assignee, sent, submittedBy, verifiedBy, call, via, blind, overlapped>>

\* Mutant of LoadSubmit: photos from before it was sent back count too.
LoadSubmitUnproven(r, u) ==
    /\ IsRepairer(u) /\ status \notin Finished
    /\ LoadFor(r, "submit", u, u)

LoadSubmit(r, u) ==
    /\ IsRepairer(u) /\ status \notin Finished /\ proof
    /\ LoadFor(r, "submit", u, u)

SubmitRepair(r) ==
    /\ Loaded(r, "submit")
    /\ status' = "RESOLVED" /\ via' = "repair" /\ submittedBy' = call[r].by /\ verifiedBy' = None
    /\ Writes(r)
    /\ UNCHANGED <<assignee, sent, proof, blind, overlapped>>

\* Mutant of MayCheck: it asks only who is assigned now.
MayCheckUnlessSent(u) == u \in Managers /\ ~IsRepairer(u)

\* requireVerifier: not whoever reported the work, nor whoever is sent now.
MayCheck(u) == u \in Managers /\ submittedBy # u /\ ~IsRepairer(u)

LoadCheck(r, op, u) ==
    /\ MayCheck(u) /\ status = "RESOLVED"
    /\ LoadFor(r, op, u, IF op = "verify" THEN u ELSE None)

VerifyRepair(r) ==
    /\ Loaded(r, "verify")
    /\ status' = "VERIFIED" /\ via' = "repair" /\ verifiedBy' = call[r].by
    /\ Writes(r)
    /\ UNCHANGED <<assignee, sent, proof, submittedBy, blind, overlapped>>

SendBackRepair(r) ==
    /\ Loaded(r, "send back")
    /\ status' = "IN_PROGRESS" /\ via' = "repair" /\ proof' = FALSE /\ verifiedBy' = None
    /\ Writes(r)
    /\ UNCHANGED <<assignee, sent, submittedBy, blind, overlapped>>

------------------------------------------------------------------------------
(* Edits.                                                                    *)

\* What an edit asks for: a status, an assignee, the vendor or nobody, or
\* nothing but words that nothing here depends on.
Nothing == [set |-> Keep, who |-> Keep, to |-> Keep]
Changes == {Nothing} \cup {[Nothing EXCEPT !.set = s] : s \in Statuses}
             \cup {[Nothing EXCEPT !.who = u] : u \in Members \cup {None}}
             \cup {[Nothing EXCEPT !.to = v] : v \in {None, Vendor}}

\* A member opens the issue.
OpenPage(r, u) ==
    /\ call[r].at = "idle"
    /\ call' = [call EXCEPT ![r] = [Resting EXCEPT !.at = "page", !.op = "edit", !.by = u]]
    /\ UNCHANGED <<status, assignee, sent, proof, submittedBy, verifiedBy, via, blind, overlapped>>

\* Mutant of VersionMatches: the version is not compared.
AnyVersion(c) == TRUE

\* The version the edit carries is the issue's.
VersionMatches(c) == c.new

\* The edit resolves an issue that was not finished, or verifies it: both ask
\* for a manager.
ForManagers(c) ==
    \/ c.set \in Finished /\ status \notin Finished
    \/ c.set = "VERIFIED" /\ status # "VERIFIED"

\* What it sets the status to: an untouched issue that gets somebody sent is
\* ASSIGNED.
Sends(c) == \/ c.to = Vendor /\ ~sent
            \/ c.who \notin {Keep, None} /\ c.who # assignee
NewStatus(c) == IF c.set = Keep /\ Sends(c) /\ status = "OPEN" THEN "ASSIGNED" ELSE c.set

\* The edit of a page arrives.
LoadEdit(r, c) ==
    /\ call[r].at = "page" /\ VersionMatches(call[r])
    /\ ForManagers(c) => call[r].by \in Managers
    /\ Loads(r, [at |-> "loaded", op |-> "edit", new |-> call[r].new, who |-> c.who, to |-> c.to,
                 by |-> IF c.set = "VERIFIED" /\ status # "VERIFIED" THEN call[r].by ELSE None,
                 set |-> NewStatus(c)])

WriteEdit(r) ==
    LET c == call[r]
        next == IF c.set = Keep THEN status ELSE c.set
    IN  /\ Loaded(r, "edit")
        /\ status' = next
        /\ via' = IF c.set = Keep THEN via ELSE "edit"
        /\ verifiedBy' = IF next # "VERIFIED" THEN None ELSE IF c.by # None THEN c.by ELSE verifiedBy
        /\ assignee' = IF c.who = Keep THEN assignee ELSE c.who
        /\ sent' = IF c.to = Keep THEN sent ELSE c.to = Vendor
        /\ blind' = (blind \/ ~c.new)
        /\ Writes(r)
        /\ UNCHANGED <<proof, submittedBy, overlapped>>

\* A page is left, a call refused or cut off: nothing is written.
GivesUp(r) ==
    /\ call[r].at # "idle"
    /\ call' = [call EXCEPT ![r] = Resting]
    /\ UNCHANGED <<status, assignee, sent, proof, submittedBy, verifiedBy, via, blind, overlapped>>

Next ==
    \/ \E u \in Members \cup {Vendor} : AttachAfterPhoto(u)
    \/ \E r \in Calls :
        \/ \E u \in Members \cup {Vendor} : \/ LoadStart(r, u) \/ LoadSubmit(r, u)
                                            \/ LoadCheck(r, "verify", u) \/ LoadCheck(r, "send back", u)
        \/ StartRepair(r) \/ SubmitRepair(r) \/ VerifyRepair(r) \/ SendBackRepair(r)
        \/ \E u \in Members : OpenPage(r, u)
        \/ \E c \in Changes : LoadEdit(r, c)
        \/ WriteEdit(r)
        \/ GivesUp(r)

Spec == Init /\ [][Next]_repairVars

------------------------------------------------------------------------------
(* Properties.                                                               *)

\* Every variable holds a value of its type.
TypeOK ==
    /\ status \in Statuses /\ assignee \in Members \cup {None}
    /\ sent \in BOOLEAN /\ proof \in BOOLEAN /\ blind \in BOOLEAN /\ overlapped \in BOOLEAN
    /\ submittedBy \in Members \cup {None, Vendor} /\ verifiedBy \in Managers \cup {None}
    /\ verifiedBy # None => status = "VERIFIED"
    /\ call \in [Calls -> [at : {"idle", "page", "loaded"},
                           op : {None, "start", "submit", "verify", "send back", "edit"},
                           by : Members \cup {None, Vendor}, set : Statuses \cup {Keep},
                           who : Members \cup {Keep, None}, to : {Keep, None, Vendor}, new : BOOLEAN]]
    /\ via \in {"edit", "repair"}

\* Whoever checks a repair is not whoever reported it done, through sending
\* back, resubmitting and reassigning it to others, unless calls overlapped
\* or the status was simply edited (repair-service.ts:151).
CheckedByAnother ==
    (~overlapped /\ status = "VERIFIED" /\ via = "repair") => verifiedBy # submittedBy

\* A repair that waits to be checked has proof from after it was last sent
\* back, unless calls overlapped (repair-service.ts:96).
ProofSinceSentBack ==
    (~overlapped /\ status = "RESOLVED" /\ via = "repair") => proof

\* No edit is written over a change its author has not seen, however long
\* the page was open and whatever the repair did meanwhile, unless calls
\* overlapped between load and write (issues/[id]/route.ts:49).
EditsSeeChanges == ~overlapped => ~blind

\* A verified or closed issue is opened again by an edit only, never by a
\* call of its repair, unless calls overlapped (repair-service.ts:73).
ClosedStays == (status \in Closed /\ status' \notin Closed) => (via' = "edit" \/ overlapped)

\* What repair-service.ts says of every repair: whoever reports the work
\* cannot mark their own work verified.
NobodyVerifiesOwnWork ==
    (~overlapped /\ status = "VERIFIED") => (verifiedBy # submittedBy)
=============================================================================
