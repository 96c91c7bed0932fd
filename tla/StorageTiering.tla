-------------------------- MODULE StorageTiering --------------------------
(***************************************************************************)
(* The tiers of stored objects: src/lib/storage-tiering.ts with the store  *)
(* behind src/lib/storage.ts, for one organization.                        *)
(*                                                                         *)
(* The LEDGER has a row per registered object with the tier it was last    *)
(* moved to.  A PASS (the admin route; nothing keeps two from overlapping) *)
(* reads the policy, then the ledger once, and moves each object that is   *)
(* due: a call to the store, then an update of its row by id.  People      *)
(* change the policy and ask for the restore of an archived object.        *)
(* Objects are deleted by others, who leave the ledger alone.              *)
(*                                                                         *)
(* Tiers are their ranks.  An object has the size 1.                       *)
(***************************************************************************)
EXTENDS Integers, FiniteSets

CONSTANTS
    Objects, Passes,
    OldestAge,      \* bound: objects grow no older
    Never,          \* a threshold that is not set
    Schedules,      \* thresholds people try: [1 .. 3 -> 0 .. OldestAge \cup {Never}]
    MaxCutOffs,     \* bound: passes that die
    MaxChanges      \* bound: changes of the policy

VARIABLES
    policy,     \* StorageTieringPolicy: [enabled, after]
    ledger,     \* ledger[o]: the StorageObject row
    store,      \* store[o]: the object, its class, and its thaw
    age,        \* age[o] in days
    pass,       \* pass[p]: what pass p has read, and where it is
    ask,        \* the restore a person is waiting for
    cutOffs, changes,
    behind      \* objects two passes had on their lists at once, or whose row
                \* a pass died before it wrote

vars == <<policy, ledger, store, age, pass, ask, cutOffs, changes, behind>>

Tiers == 0 .. 3
DEEP_ARCHIVE == 3

NoRow == [known |-> FALSE, tier |-> 0, restore |-> "NOT_REQUESTED"]
Idle == [at |-> "idle", after |-> [t \in 1 .. 3 |-> Never], todo |-> {}, now |-> {},
         target |-> [o \in Objects |-> 0]]
NoAsk == [at |-> "idle", obj |-> "none", outcome |-> "none"]

TypeOK ==
    /\ policy \in [enabled : BOOLEAN, after : Schedules \cup {Idle.after}]
    /\ \A o \in Objects :
        /\ ledger[o] \in [known : BOOLEAN, tier : Tiers,
                          restore : {"NOT_REQUESTED", "IN_PROGRESS", "AVAILABLE", "FAILED"}]
        /\ store[o] \in [here : BOOLEAN, tier : Tiers, thaw : {"none", "ongoing", "ready"}]
        /\ age[o] \in 0 .. OldestAge
    /\ \A p \in Passes :
        /\ pass[p].at \in {"idle", "policy", "move", "record"}
        /\ pass[p].todo \subseteq Objects /\ pass[p].now \subseteq pass[p].todo
        /\ pass[p].target \in [Objects -> Tiers]
    /\ ask.at \in {"idle", "asked", "answered"}
    /\ behind \subseteq Objects

Init ==
    /\ policy = [enabled |-> FALSE, after |-> Idle.after]
    /\ ledger = [o \in Objects |-> NoRow]
    /\ store = [o \in Objects |-> [here |-> FALSE, tier |-> 0, thaw |-> "none"]]
    /\ age = [o \in Objects |-> 0]
    /\ pass = [p \in Passes |-> Idle]
    /\ ask = NoAsk
    /\ cutOffs = 0 /\ changes = 0 /\ behind = {}

---------------------------------------------------------------------------
(* Uploads, the ledger, the policy, time.                                  *)

\* Mutant: a registration that resets the row.
RegisterAnew(row) == [NoRow EXCEPT !.known = TRUE]

\* registerStorageObject: a registered object keeps its tier.
Registered(row) == IF row.known THEN row ELSE [NoRow EXCEPT !.known = TRUE]

Upload(o) ==
    /\ ~store[o].here /\ ~ledger[o].known /\ age[o] = 0
    /\ store' = [store EXCEPT ![o].here = TRUE]
    /\ UNCHANGED <<policy, ledger, age, pass, ask, cutOffs, changes, behind>>

\* Best effort: an upload may stay without a row, or be registered again.
Register(o) ==
    /\ store[o].here
    /\ ledger' = [ledger EXCEPT ![o] = Registered(@)]
    /\ UNCHANGED <<policy, store, age, pass, ask, cutOffs, changes, behind>>

\* External: a deletion of the object, which knows no ledger.
DeleteObject(o) ==
    /\ store[o].here
    /\ store' = [store EXCEPT ![o].here = FALSE, ![o].thaw = "none"]
    /\ UNCHANGED <<policy, ledger, age, pass, ask, cutOffs, changes, behind>>

\* The age of an object counts from its upload, also in the row it leaves.
Ages(o) == (store[o].here \/ ledger[o].known) /\ age[o] < OldestAge

DayPasses ==
    /\ \E o \in Objects : Ages(o)
    /\ age' = [o \in Objects |-> IF Ages(o) THEN age[o] + 1 ELSE age[o]]
    /\ UNCHANGED <<policy, ledger, store, pass, ask, cutOffs, changes, behind>>

\* The thresholds that are set increase with coldness.
Increasing(after) ==
    \A s, t \in 1 .. 3 :
        s < t /\ after[s] /= Never /\ after[t] /= Never => after[s] < after[t]

\* updateTieringPolicy writes every field, also those the caller left out.
UpdatePolicy(on, after) ==
    /\ changes < MaxChanges
    /\ Increasing(after)
    /\ policy' = [enabled |-> on, after |-> after]
    /\ changes' = changes + 1
    /\ UNCHANGED <<ledger, store, age, pass, ask, cutOffs, behind>>

---------------------------------------------------------------------------
(* A pass.                                                                 *)

\* targetTierFor; 0 where nothing is due.
Target(days, after) ==
    LET due == {t \in 1 .. 3 : after[t] /= Never /\ days >= after[t]}
    IN  IF due = {} THEN 0 ELSE CHOOSE t \in due : \A s \in due : s <= t

\* Mutant: what is due moves, whichever way.
AnyMove(target, tier) == target /= 0 /\ target /= tier

\* Only ever colder.
Colder(target, tier) == target > tier

StartPass(p) ==
    /\ pass[p].at = "idle" /\ policy.enabled
    /\ pass' = [pass EXCEPT ![p] = [Idle EXCEPT !.at = "policy", !.after = policy.after]]
    /\ UNCHANGED <<policy, ledger, store, age, ask, cutOffs, changes, behind>>

ReadLedger(p) ==
    /\ pass[p].at = "policy"
    /\ LET target == [o \in Objects |-> Target(age[o], pass[p].after)]
           todo == {o \in Objects : ledger[o].known /\ Colder(target[o], ledger[o].tier)}
       IN  /\ pass' = [pass EXCEPT ![p] =
             IF todo = {} THEN Idle
             ELSE [Idle EXCEPT !.at = "move", !.todo = todo,
                               !.target = [o \in Objects |-> IF o \in todo THEN target[o] ELSE 0]]]
           /\ behind' = behind \cup {o \in todo : \E q \in Passes \ {p} : o \in pass[q].todo}
    /\ UNCHANGED <<policy, ledger, store, age, ask, cutOffs, changes>>

\* Oldest first; objects of one day in any order.
Oldest(p) == {o \in pass[p].todo : \A x \in pass[p].todo : age[x] <= age[o]}

\* What pass p is after it is done with o.
Done(p, o) ==
    IF pass[p].todo = {o} THEN Idle
    ELSE [pass[p] EXCEPT !.at = "move", !.todo = @ \ {o}, !.now = {}, !.target[o] = 0]

Move(p, o) ==
    /\ pass[p].at = "move" /\ o \in Oldest(p)
    /\ store[o].here
    /\ store' = [store EXCEPT ![o].tier = pass[p].target[o], ![o].thaw = "none"]
    /\ pass' = [pass EXCEPT ![p].at = "record", ![p].now = {o}]
    /\ UNCHANGED <<policy, ledger, age, ask, cutOffs, changes, behind>>

\* The store refuses the move: the object is gone, or the call fails.
MoveFails(p, o) ==
    /\ pass[p].at = "move" /\ o \in Oldest(p)
    /\ pass' = [pass EXCEPT ![p] = Done(p, o)]
    /\ UNCHANGED <<policy, ledger, store, age, ask, cutOffs, changes, behind>>

\* A colder tier makes an earlier restore void.
Recorded(row, tier) == [row EXCEPT !.tier = tier, !.restore = "NOT_REQUESTED"]

RecordMove(p, o) ==
    /\ pass[p].at = "record" /\ o \in pass[p].now
    /\ ledger' = [ledger EXCEPT ![o] = Recorded(@, pass[p].target[o])]
    /\ pass' = [pass EXCEPT ![p] = Done(p, o)]
    /\ UNCHANGED <<policy, store, age, ask, cutOffs, changes, behind>>

\* The pass dies, or the store says that it has no tiers (then nothing was moved).
CutOff(p) ==
    /\ pass[p].at /= "idle" /\ cutOffs < MaxCutOffs
    /\ behind' = behind \cup pass[p].now
    /\ pass' = [pass EXCEPT ![p] = Idle]
    /\ cutOffs' = cutOffs + 1
    /\ UNCHANGED <<policy, ledger, store, age, ask, changes>>

---------------------------------------------------------------------------
(* A restore.                                                              *)

AskRestore(o) ==
    /\ ask.at = "idle" /\ ledger[o].known
    /\ ledger[o].tier = DEEP_ARCHIVE
    /\ ask' = [at |-> "asked", obj |-> o, outcome |-> "none"]
    /\ UNCHANGED <<policy, ledger, store, age, pass, cutOffs, changes, behind>>

\* restoreObject: a restore that is under way counts as asked for.
CallStore ==
    /\ ask.at = "asked"
    /\ LET o == ask.obj
       IN  \/ /\ store[o].here /\ store[o].tier = DEEP_ARCHIVE /\ store[o].thaw /= "ready"
              /\ store' = [store EXCEPT ![o].thaw = "ongoing"]
              /\ ask' = [ask EXCEPT !.at = "answered", !.outcome = "IN_PROGRESS"]
           \/ /\ store[o].thaw = "ready"
              /\ ask' = [ask EXCEPT !.at = "answered", !.outcome = "AVAILABLE"]
              /\ UNCHANGED store
           \/ /\ ask' = [ask EXCEPT !.at = "answered", !.outcome = "FAILED"]
              /\ UNCHANGED store
    /\ UNCHANGED <<policy, ledger, age, pass, cutOffs, changes, behind>>

RecordRestore ==
    /\ ask.at = "answered"
    /\ ledger' = [ledger EXCEPT ![ask.obj].restore = ask.outcome]
    /\ ask' = NoAsk
    /\ UNCHANGED <<policy, store, age, pass, cutOffs, changes, behind>>

\* External: the store thaws the object, and freezes it again later.
Thaw(o) ==
    /\ store[o].thaw /= "none"
    /\ store' = [store EXCEPT ![o].thaw = IF @ = "ongoing" THEN "ready" ELSE "none"]
    /\ UNCHANGED <<policy, ledger, age, pass, ask, cutOffs, changes, behind>>

Next ==
    \/ \E o \in Objects : Upload(o) \/ Register(o) \/ DeleteObject(o) \/ AskRestore(o) \/ Thaw(o)
    \/ \E on \in BOOLEAN, after \in Schedules : UpdatePolicy(on, after)
    \/ \E p \in Passes :
        \/ StartPass(p) \/ ReadLedger(p) \/ CutOff(p)
        \/ \E o \in Objects : Move(p, o) \/ MoveFails(p, o) \/ RecordMove(p, o)
    \/ DayPasses \/ CallStore \/ RecordRestore

Spec == Init /\ [][Next]_vars

---------------------------------------------------------------------------

\* sampleStorageUsage: what a sample charges per tier (cost-metering.ts).
Sampled == [t \in Tiers |-> Cardinality({o \in Objects : ledger[o].known /\ ledger[o].tier = t})]

Stored == [t \in Tiers |-> Cardinality({o \in Objects : store[o].here /\ store[o].tier = t})]

\* Between a move and its row.
Recording(o) == \E p \in Passes : o \in pass[p].now

\* "The ledger records what happened, never what was intended": a row names the
\* class its object is in, except while a pass is about to write it, after one
\* died there, and where two passes worked on the object at once.
LedgerTellsStore ==
    \A o \in Objects :
        ledger[o].known /\ store[o].here /\ ~Recording(o) /\ o \notin behind
            => ledger[o].tier = store[o].tier

\* A pass never moves an object to a warmer class, whatever became of the policy
\* meanwhile: such a move multiplies the bill.
MovesColder == \A o \in Objects \ behind' : store'[o].tier >= store[o].tier

NeverWarmer == [][MovesColder]_vars

\* A restore the store is working on is on record, unless its answer is about to
\* be written or two passes worked on the object; and what is on record as
\* restored is in the deep archive.
RestoreOnRecord ==
    \A o \in Objects \ behind :
        /\ store[o].thaw = "ongoing" => ledger[o].restore \in {"IN_PROGRESS", "FAILED"} \/ (ask.at = "answered" /\ ask.obj = o)
        /\ ledger[o].restore /= "NOT_REQUESTED" => ledger[o].tier = DEEP_ARCHIVE

\* What a sample charges is what is stored, by class, when no pass is at work and
\* none lost a row.  (cost-metering.ts:180: "a point-in-time sample of stored
\* bytes".)
SampleIsWhatIsStored ==
    behind = {} /\ (\A p \in Passes : pass[p].at = "idle")
        /\ (\A o \in Objects : store[o].here => ledger[o].known)
            => Sampled = Stored
=============================================================================
