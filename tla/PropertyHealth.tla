---------------------------- MODULE PropertyHealth ----------------------------
(* What an asset's condition, the findings of the AI on its photos and the   *)
(* captures of a property do to the property's health: the review of a       *)
(* finding (ai/photo-analysis.ts), the path by which an asset's condition    *)
(* changes with its history (asset-condition.ts), the imports that write it  *)
(* with none (import-service.ts), and the snapshot that everything reads,    *)
(* computed after the change and stored by itself (scoring.ts).              *)
(*                                                                           *)
(* One property with one asset and one drone capture.  A score stands for a  *)
(* band of condition.  The numbers of a snapshot are a function of the rows  *)
(* it was computed from: what is kept of it is whether they are as they were.*)
EXTENDS Integers, FiniteSetsExt

CONSTANTS Findings,   \* findings on photos of the asset
          Rated,      \* those of a defect a rule knows
          Suggestion, \* the score the AI suggests for the others
          Hit,        \* what the rule takes off
          MaxScore,
          Calls       \* the requests the servers run at one time

Unrated == -1
NoFinding == "no finding"
Scores == 0..MaxScore

ASSUME HealthAssumption ==
    /\ Rated \subseteq Findings /\ NoFinding \notin Findings
    /\ MaxScore \in Nat /\ Hit \in Nat /\ Suggestion \in Scores

VARIABLES score,      \* the asset's conditionScore
          active,     \* its status is ACTIVE
          finding,    \* the status of each finding
          made,       \* the issues made for each
          open,       \* the findings whose issue is open
          entries,    \* the entries of the condition history made for each
          lost,       \* the newest entry is by rule and its hit is lost
          capture,    \* the status of the drone capture
          fresh,      \* the newest snapshot is of the property as it is
          call,       \* what each request is doing
          crossed,    \* two transactions that write the condition have overlapped
          behind      \* the snapshot may be behind, and nobody is about to make a newer one
healthVars == <<score, active, finding, made, open, entries, lost, capture, fresh, call, crossed, behind>>

Resting == [at |-> "idle", on |-> NoFinding, to |-> Unrated, from |-> Unrated, rule |-> FALSE,
            fresh |-> FALSE, old |-> FALSE]

Init ==
    /\ score \in {Unrated, MaxScore} /\ active = TRUE
    /\ finding = [f \in Findings |-> "SUGGESTED"]
    /\ made = [f \in Findings |-> 0] /\ open = {}
    /\ entries = [f \in Findings |-> 0]
    /\ lost = FALSE
    /\ capture = "UPLOADING" /\ fresh = TRUE
    /\ call = [c \in Calls |-> Resting]
    /\ crossed = FALSE /\ behind = FALSE

Ends(c) == call' = [call EXCEPT ![c] = Resting]

\* Mutant of Commits: whoever changed the rows leaves it at that.
CommitsOnly(c) ==
    /\ fresh' = FALSE
    /\ call' = [q \in Calls |-> IF q = c THEN Resting ELSE [call[q] EXCEPT !.fresh = FALSE]]

\* A change is committed: no snapshot, stored or computed, is of the property
\* as it is; the call still recalculates the property.
Commits(c) ==
    /\ fresh' = FALSE
    /\ call' = [q \in Calls |-> IF q = c THEN [Resting EXCEPT !.at = "committed"]
                              ELSE [call[q] EXCEPT !.fresh = FALSE]]

------------------------------------------------------------------------------
(* The review of a finding.                                                  *)

\* planConfirmation: what the reviewer typed, else the rule, else the AI.
Less(s) == Max({0, s - Hit})
CanPlan(f, typed) == typed # Unrated \/ (f \in Rated => score # Unrated)
NewScore(f, typed) ==
    IF typed # Unrated THEN typed
    ELSE IF f \in Rated THEN Less(score) ELSE Suggestion

\* The finding and its asset are loaded and the confirmation is planned.
LoadReview(c, f, typed) ==
    /\ call[c].at = "idle"
    /\ finding[f] = "SUGGESTED" /\ active /\ CanPlan(f, typed)
    /\ call' = [call EXCEPT ![c] = [Resting EXCEPT
                  !.at = "planned", !.on = f, !.to = NewScore(f, typed), !.from = score,
                  !.rule = typed = Unrated /\ f \in Rated]]
    /\ UNCHANGED <<score, active, finding, made, open, entries, lost, capture, fresh, crossed, behind>>

\* The claim of a finding waits for another transaction that has claimed it.
Claiming(c, f) == call[c].at = "changing" /\ call[c].on = f
Free(f) == \A q \in Calls : ~Claiming(q, f)

Reject(f) ==
    /\ finding[f] = "SUGGESTED" /\ Free(f)
    /\ finding' = [finding EXCEPT ![f] = "REJECTED"]
    /\ UNCHANGED <<score, active, made, open, entries, lost, capture, fresh, call, crossed, behind>>

\* Mutant of Previous: the history continues from the score the call loaded.
PreviousLoaded(c) == call[c].from

\* applyConditionChangeInTx reads the score it writes down as the previous one.
Previous(c) == score

\* A transaction that changes the condition has read the score.
Changing(c) == call[c].at = "changing"
Enters(c, from) ==
    /\ call' = [call EXCEPT ![c].at = "changing", ![c].from = from]
    /\ crossed' = (crossed \/ \E q \in Calls \ {c} : Changing(q))

\* Mutant of MayClaim: the claim does not ask whether it was reviewed meanwhile.
MayClaimTwice(f) == TRUE

MayClaim(f) == finding[f] = "SUGGESTED"

BeginConfirm(c) ==
    /\ call[c].at = "planned" /\ Free(call[c].on)
    /\ IF MayClaim(call[c].on) THEN Enters(c, Previous(c)) ELSE Ends(c) /\ UNCHANGED crossed
    /\ UNCHANGED <<score, active, finding, made, open, entries, lost, capture, fresh, behind>>

\* A condition recorded by hand, by an assessment, a capture job or a repair.
BeginRecord(c, s) ==
    /\ call[c].at = "idle"
    /\ call' = [call EXCEPT ![c] = [Resting EXCEPT !.at = "changing", !.to = s, !.from = score]]
    /\ crossed' = (crossed \/ \E q \in Calls \ {c} : Changing(q))
    /\ UNCHANGED <<score, active, finding, made, open, entries, lost, capture, fresh, behind>>

\* The transaction: the finding is claimed, its issue exists, and the
\* condition and its history have changed.
CommitChange(c) ==
    /\ Changing(c)
    /\ score' = call[c].to
    /\ lost' = (call[c].rule /\ call[c].to # Less(call[c].from))
    /\ LET f == call[c].on
       IN IF f = NoFinding THEN UNCHANGED <<finding, made, open, entries>>
          ELSE /\ finding' = [finding EXCEPT ![f] = "HUMAN_VERIFIED"]
               /\ made' = [made EXCEPT ![f] = @ + 1] /\ open' = open \cup {f}
               /\ entries' = [entries EXCEPT ![f] = @ + 1]
    /\ Commits(c)
    /\ UNCHANGED <<active, capture, crossed, behind>>

------------------------------------------------------------------------------
(* What else a snapshot is made from.                                        *)

\* The asset is edited and set aside, or taken back.
EditAsset(c) ==
    /\ call[c].at = "idle"
    /\ active' = ~active
    /\ Commits(c)
    /\ UNCHANGED <<score, finding, made, open, entries, lost, capture, crossed, behind>>

\* An edit of an issue gives it another status.
EditIssue(c, f) ==
    /\ call[c].at = "idle" /\ made[f] > 0
    /\ open' = IF f \in open THEN open \ {f} ELSE open \cup {f}
    /\ Commits(c)
    /\ UNCHANGED <<score, active, finding, made, entries, lost, capture, crossed, behind>>

\* The capture's dataset is reviewed: it is the newest survey of the outside.
MarkCaptureReady(c) ==
    /\ call[c].at = "idle"
    /\ capture' = "READY"
    /\ Commits(c)
    /\ UNCHANGED <<score, active, finding, made, open, entries, lost, crossed, behind>>

\* A space is linked, synced or unlinked, an asset or an issue is added, an
\* assessment is completed or reopened: rows that nothing else here reads.
ChangeOther(c) ==
    /\ call[c].at = "idle"
    /\ Commits(c)
    /\ UNCHANGED <<score, active, finding, made, open, entries, lost, capture, crossed, behind>>

\* What a call has computed before now is not the newest any more.
Outdates == [q \in Calls |-> IF call[q].at = "computed" THEN [call[q] EXCEPT !.old = TRUE] ELSE call[q]]

\* Changes of what a snapshot is made from that do not recalculate it.
Forgets ==
    /\ fresh' = FALSE /\ behind' = TRUE
    /\ call' = [q \in Calls |-> [Outdates[q] EXCEPT !.fresh = FALSE]]
    /\ UNCHANGED <<active, finding, made, entries, lost>>

\* A capture fails, or takes another dataset, although it was READY.
LeaveReady(to) ==
    /\ capture = "READY" /\ capture' = to
    /\ Forgets
    /\ UNCHANGED <<score, open, crossed>>

\* The same of a capture that was not: no snapshot is made from it.
MoveCapture(to) ==
    /\ capture \notin {"READY", to} /\ capture' = to
    /\ UNCHANGED <<score, active, finding, made, open, entries, lost, fresh, call, crossed, behind>>

\* The repair of an open issue is submitted: the issue is RESOLVED.
SubmitRepair(f) ==
    /\ f \in open /\ open' = open \ {f}
    /\ Forgets
    /\ UNCHANGED <<score, capture, crossed>>

\* A repair marked done is sent back: its issue is open again.
SendBackRepair(f) ==
    /\ made[f] > 0 /\ f \notin open /\ open' = open \cup {f}
    /\ Forgets
    /\ UNCHANGED <<score, capture, crossed>>

\* An import of assets, or its rollback, commits: it may write the asset's
\* condition too, with no entry in its history.
ImportAssets(s) ==
    /\ score' = s
    /\ crossed' = (crossed \/ \E c \in Calls : Changing(c))
    /\ Forgets
    /\ UNCHANGED <<open, capture>>

------------------------------------------------------------------------------
(* recalculatePropertyHealth.                                                *)

\* computePropertyHealth reads the rows.
ComputeHealth(c) ==
    /\ call[c].at = "committed"
    /\ call' = [call EXCEPT ![c] = [Resting EXCEPT !.at = "computed", !.fresh = TRUE]]
    /\ UNCHANGED <<score, active, finding, made, open, entries, lost, capture, fresh, crossed, behind>>

\* Somebody asks for the health to be computed again: nothing has changed.
AskHealth(c) ==
    /\ call[c].at = "idle"
    /\ call' = [call EXCEPT ![c] = [Resting EXCEPT !.at = "computed", !.fresh = TRUE]]
    /\ UNCHANGED <<score, active, finding, made, open, entries, lost, capture, fresh, crossed, behind>>

\* The snapshot that is stored last is the newest.
StoreSnapshot(c) ==
    /\ call[c].at = "computed"
    /\ fresh' = call[c].fresh
    /\ behind' = call[c].old
    /\ call' = [Outdates EXCEPT ![c] = Resting]
    /\ UNCHANGED <<score, active, finding, made, open, entries, lost, capture, crossed>>

\* The server stops, or the database fails, before the snapshot is stored.
BreakOff(c) ==
    /\ call[c].at \in {"committed", "computed"}
    /\ call' = [Outdates EXCEPT ![c] = Resting]
    /\ behind' = TRUE
    /\ UNCHANGED <<score, active, finding, made, open, entries, lost, capture, fresh, crossed>>

Next ==
    \/ \E c \in Calls :
         \/ \E f \in Findings, typed \in Scores \cup {Unrated} : LoadReview(c, f, typed)
         \/ BeginConfirm(c) \/ CommitChange(c)
         \/ \E s \in Scores : BeginRecord(c, s)
         \/ EditAsset(c) \/ MarkCaptureReady(c) \/ ChangeOther(c) \/ AskHealth(c)
         \/ \E f \in Findings : EditIssue(c, f)
         \/ ComputeHealth(c) \/ StoreSnapshot(c) \/ BreakOff(c)
    \/ \E f \in Findings : Reject(f) \/ SubmitRepair(f) \/ SendBackRepair(f)
    \/ \E s \in Scores \cup {Unrated} : ImportAssets(s)
    \/ \E to \in {"UPLOADING", "FAILED"} : MoveCapture(to) \/ LeaveReady(to)

Spec == Init /\ [][Next]_healthVars
------------------------------------------------------------------------------
\* Every variable holds a value of its type.
TypeOK ==
    /\ score \in Scores \cup {Unrated} /\ active \in BOOLEAN
    /\ finding \in [Findings -> {"SUGGESTED", "REJECTED", "HUMAN_VERIFIED"}]
    /\ open \subseteq Findings /\ capture \in {"UPLOADING", "READY", "FAILED"}
    /\ fresh \in BOOLEAN
    /\ \A c \in Calls : call[c].at \in {"idle", "planned", "changing", "committed", "computed"}
    /\ crossed \in BOOLEAN /\ behind \in BOOLEAN

\* Everything that must be true together commits together: a confirmed finding
\* has its one issue and its one entry in the asset's history, any other has
\* neither, however many people review it at a time.
ConfirmedOnce ==
    \A f \in Findings :
      LET times == IF finding[f] = "HUMAN_VERIFIED" THEN 1 ELSE 0
      IN made[f] = times /\ entries[f] = times

\* An entry of an asset's history continues from the score the asset has when
\* it is written, which the entry before it left or an import has set without
\* one (import-service.ts:691), unless two transactions crossed.
HistoryLeadsToScore ==
    \A c \in Calls : Changing(c) /\ ~crossed => call[c].from = score

\* The snapshot that everything reads is of the property as it is, once no call
\* is about to store a newer one; unless one broke off, or stored what it had
\* computed before another's, or the change was one that does not recalculate:
\* of an import, of a repair that is submitted or sent back, of a capture.
SnapshotIsCurrent ==
    ~behind /\ (\A c \in Calls : call[c].at \notin {"committed", "computed"}) => fresh

\* A confirmation by rule takes the rule's hit off the score the asset has, as
\* the entry of its history says (the comment on planConfirmation).
RuleTakesItsHit == ~lost
=============================================================================
