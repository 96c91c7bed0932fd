--------------------------- MODULE FieldWorkProofs ---------------------------
(* Proofs about the work that others do on a property, for any number of      *)
(* people and of requests at one time: the repair of an issue (Repairs.tla),  *)
(* 3D tours (InteriorTours.tla), drone captures (DroneFlights.tla), the       *)
(* capture jobs of a vendor (CaptureJobs.tla) and the import of a card of 360 *)
(* photos (PanoramaImport.tla), each by an inductive invariant of its own     *)
(* (RepairInv, TourInv, FlightInv, CaptureInv, PanoramaInv); and what of it   *)
(* stays once it is settled.  Least and greatest numbers are those that the   *)
(* order on the naturals, which is well founded, has.                         *)
EXTENDS MCFieldWork, SequenceTheorems, FiniteSetTheorems, WellFoundedInduction, TLAPS

(* Repairs *)

RepairCall == [at : {"idle", "page", "loaded"},
               op : {R!None, "start", "submit", "verify", "send back", "edit"},
               by : R!Members \cup {R!None, R!Vendor}, set : R!Statuses \cup {R!Keep},
               who : R!Members \cup {R!Keep, R!None}, to : {R!Keep, R!None, R!Vendor},
               new : BOOLEAN]

RepairTypes ==
    /\ status \in R!Statuses /\ assignee \in R!Members \cup {R!None}
    /\ sent \in BOOLEAN /\ proof \in BOOLEAN /\ blind \in BOOLEAN /\ overlapped \in BOOLEAN
    /\ submittedBy \in R!Members \cup {R!None, R!Vendor} /\ verifiedBy \in Managers \cup {R!None}
    /\ verifiedBy # R!None => status = "VERIFIED"
    /\ repairCall \in [Calls -> RepairCall]
    /\ via \in {"edit", "repair"}

\* The type of the repair, with its record named.
LEMMA RepairCallType == (R!TypeOK <=> RepairTypes) /\ (R!TypeOK' <=> RepairTypes')
  BY Zenon DEF R!TypeOK, RepairTypes, RepairCall

\* What a request has decided holds until it writes, if no other has loaded the
\* issue meanwhile: it is the only one, nothing was written since, and what it
\* asked of the status, of the proof and of the checker is still so.
LoadKept(r) ==
    LET c == repairCall[r]
    IN c.at = "loaded" =>
        /\ c.op = "verify" => c.by \in Managers
        /\ c.op = "edit" => /\ c.by \in Managers \cup {R!None}
                            /\ c.set = R!Keep => c.by = R!None
        /\ ~overlapped =>
            /\ c.new
            /\ \A q \in Calls : repairCall[q].at = "loaded" => q = r
            /\ c.op = "submit" => proof
            /\ c.op = "verify" => c.by # submittedBy
            /\ c.op \in {"start", "submit", "send back"} => status \notin R!Closed

RepairInv ==
    /\ R!TypeOK
    /\ \A r \in Calls : LoadKept(r)
    /\ R!CheckedByAnother
    /\ R!ProofSinceSentBack
    /\ R!EditsSeeChanges

\* The request at rest.
LEMMA RestingCall == R!Resting \in RepairCall /\ R!Resting.at = "idle" /\ R!Resting.new = TRUE
                     /\ R!Resting.set = R!Keep
  <1>1. /\ "idle" \in {"idle", "page", "loaded"}
        /\ R!None \in {R!None, "start", "submit", "verify", "send back", "edit"}
        /\ R!None \in R!Members \cup {R!None, R!Vendor} /\ R!Keep \in R!Statuses \cup {R!Keep}
        /\ R!Keep \in R!Members \cup {R!Keep, R!None} /\ R!Keep \in {R!Keep, R!None, R!Vendor}
        /\ TRUE \in BOOLEAN
    OBVIOUS
  <1>2. R!Resting \in RepairCall
    BY <1>1, Zenon DEF R!Resting, RepairCall
  <1> QED
    BY <1>2 DEF R!Resting

\* A write makes every other page and load stale, and changes nothing else in it.
LEMMA StaleCall ==
    ASSUME NEW c \in RepairCall
    PROVE  LET o == [c EXCEPT !.new = FALSE]
           IN /\ o \in RepairCall
              /\ o.at = c.at /\ o.op = c.op /\ o.by = c.by /\ o.set = c.set
  <1>1. [c EXCEPT !.new = FALSE] \in RepairCall
    BY Zenon DEF RepairCall
  <1> QED
    BY <1>1 DEF RepairCall

LEMMA InitRepairInv == R!Init => RepairInv
  <1> SUFFICES ASSUME R!Init PROVE RepairInv
    OBVIOUS
  <1>1. repairCall \in [Calls -> RepairCall] /\ \A r \in Calls : repairCall[r].at = "idle"
    BY RestingCall DEF R!Init
  <1>2. R!TypeOK
    <2>1. /\ sent \in BOOLEAN /\ proof \in BOOLEAN /\ blind \in BOOLEAN /\ overlapped \in BOOLEAN
      BY DEF R!Init
    <2>2. /\ status \in R!Statuses /\ assignee \in R!Members \cup {R!None}
          /\ submittedBy \in R!Members \cup {R!None, R!Vendor}
          /\ verifiedBy \in Managers \cup {R!None} /\ verifiedBy = R!None
          /\ via \in {"edit", "repair"}
      BY DEF R!Init, R!Statuses
    <2> QED
      BY <1>1, <2>1, <2>2, RepairCallType DEF RepairTypes
  <1>3. \A r \in Calls : LoadKept(r)
    BY <1>1 DEF LoadKept
  <1> QED
    BY <1>2, <1>3 DEF RepairInv, R!Init, R!CheckedByAnother, R!ProofSinceSentBack, R!EditsSeeChanges

------------------------------------------------------------------------------
(* Loading.                                                                  *)

\* The state of the issue is left alone; one call changes, and if it loads
\* beside another the two overlap.
LEMMA LoadRepairInv ==
    ASSUME RepairInv, NEW r \in Calls, NEW c \in RepairCall,
           repairCall' = [repairCall EXCEPT ![r] = c],
           UNCHANGED <<status, assignee, sent, proof, submittedBy, verifiedBy, via, blind>>,
           overlapped' \in BOOLEAN, overlapped => overlapped',
           c.at = "loaded" =>
              /\ c.op = "verify" => c.by \in Managers
              /\ c.op = "edit" => /\ c.by \in Managers \cup {R!None}
                                  /\ c.set = R!Keep => c.by = R!None
              /\ ~overlapped' =>
                  /\ c.new
                  /\ \A q \in Calls \ {r} : repairCall[q].at # "loaded"
                  /\ c.op = "submit" => proof
                  /\ c.op = "verify" => c.by # submittedBy
                  /\ c.op \in {"start", "submit", "send back"} => status \notin R!Closed
    PROVE  RepairInv'
  <1> USE DEF RepairInv
  <1>1. /\ repairCall \in [Calls -> RepairCall]
        /\ repairCall' \in [Calls -> RepairCall]
        /\ repairCall'[r] = c
        /\ \A q \in Calls : q # r => repairCall'[q] = repairCall[q]
    BY RepairCallType DEF RepairTypes
  <1>2. R!TypeOK'
    BY <1>1, RepairCallType DEF RepairTypes
  <1>3. ASSUME NEW q \in Calls PROVE LoadKept(q)'
    <2>1. CASE q = r
      BY <1>1, <2>1 DEF LoadKept
    <2>2. CASE q # r
      <3>1. LoadKept(q) /\ repairCall'[q] = repairCall[q]
        BY <1>1, <2>2
      <3>2. ~overlapped' /\ repairCall[q].at = "loaded" => c.at # "loaded"
        BY <2>2
      <3> QED
        BY <1>1, <3>1, <3>2 DEF LoadKept
    <2> QED
      BY <2>1, <2>2
  <1>4. R!CheckedByAnother' /\ R!ProofSinceSentBack' /\ R!EditsSeeChanges'
    BY DEF R!CheckedByAnother, R!ProofSinceSentBack, R!EditsSeeChanges
  <1> QED
    BY <1>2, <1>3, <1>4

LEMMA LoadForRepairInv ==
    ASSUME RepairInv, NEW r \in Calls, NEW op \in {"start", "submit", "verify", "send back"},
           NEW u, NEW by \in R!Members \cup {R!None, R!Vendor}, R!LoadFor(r, op, u, by),
           op = "verify" => by \in Managers /\ by # submittedBy,
           op = "submit" => proof,
           op # "verify" => status \notin R!Closed
    PROVE  RepairInv'
  <1> DEFINE c == [R!Resting EXCEPT !.at = "loaded", !.op = op, !.by = by]
  <1>1. c \in RepairCall /\ c.at = "loaded" /\ c.op = op /\ c.by = by /\ c.new = TRUE
    <2>1. /\ "loaded" \in {"idle", "page", "loaded"}
          /\ op \in {R!None, "start", "submit", "verify", "send back", "edit"}
      OBVIOUS
    <2>2. c \in RepairCall
      BY <2>1, RestingCall, Zenon DEF RepairCall
    <2> QED
      BY <2>2, RestingCall DEF RepairCall
  <1>2. /\ repairCall' = [repairCall EXCEPT ![r] = c]
        /\ overlapped' = (overlapped \/ \E q \in Calls \ {r} : repairCall[q].at = "loaded")
        /\ UNCHANGED <<status, assignee, sent, proof, submittedBy, verifiedBy, via, blind>>
    BY DEF R!LoadFor, R!Loads
  <1> HIDE DEF c
  <1>3. overlapped \in BOOLEAN
    BY RepairCallType DEF RepairInv, RepairTypes
  <1>4. /\ overlapped' \in BOOLEAN
        /\ overlapped => overlapped'
        /\ ~overlapped' => \A q \in Calls \ {r} : repairCall[q].at # "loaded"
    BY <1>2, <1>3
  <1> QED
    BY <1>1, <1>2, <1>4, LoadRepairInv

\* Nobody has decided the edit yet, or nothing comes of the call.
LEMMA PageRepairInv ==
    ASSUME RepairInv, NEW r \in Calls,
           R!GivesUp(r) \/ \E u \in R!Members : R!OpenPage(r, u)
    PROVE  RepairInv'
  <1>1. /\ UNCHANGED <<status, assignee, sent, proof, submittedBy, verifiedBy, via, blind, overlapped>>
        /\ overlapped \in BOOLEAN
    BY RepairCallType DEF R!GivesUp, R!OpenPage, RepairInv, RepairTypes
  <1>2. CASE R!GivesUp(r)
    <2>1. repairCall' = [repairCall EXCEPT ![r] = R!Resting]
      BY <1>2 DEF R!GivesUp
    <2> QED
      BY <1>1, <2>1, RestingCall, LoadRepairInv
  <1>3. ASSUME NEW u \in R!Members, R!OpenPage(r, u) PROVE RepairInv'
    <2> DEFINE c == [R!Resting EXCEPT !.at = "page", !.op = "edit", !.by = u]
    <2>1. repairCall' = [repairCall EXCEPT ![r] = c]
      BY <1>3 DEF R!OpenPage
    <2>2. /\ "page" \in {"idle", "page", "loaded"}
          /\ "edit" \in {R!None, "start", "submit", "verify", "send back", "edit"}
          /\ u \in R!Members \cup {R!None, R!Vendor}
      OBVIOUS
    <2>3. c \in RepairCall
      BY <2>2, RestingCall, Zenon DEF RepairCall
    <2>4. c.at # "loaded"
      BY RestingCall DEF RepairCall
    <2> HIDE DEF c
    <2> QED
      BY <1>1, <2>1, <2>3, <2>4, LoadRepairInv
  <1> QED
    BY <1>2, <1>3

\* The edit of a page carries the version of the issue it was made on.
LEMMA EditRepairInv ==
    ASSUME RepairInv, NEW r \in Calls, NEW e \in R!Changes, R!LoadEdit(r, e)
    PROVE  RepairInv'
  <1> DEFINE c == [at |-> "loaded", op |-> "edit", new |-> repairCall[r].new, who |-> e.who,
                   to |-> e.to,
                   by |-> IF e.set = "VERIFIED" /\ status # "VERIFIED" THEN repairCall[r].by
                          ELSE R!None,
                   set |-> R!NewStatus(e)]
  <1>1. /\ repairCall' = [repairCall EXCEPT ![r] = c]
        /\ overlapped' = (overlapped \/ \E q \in Calls \ {r} : repairCall[q].at = "loaded")
        /\ UNCHANGED <<status, assignee, sent, proof, submittedBy, verifiedBy, via, blind>>
        /\ repairCall[r].new
        /\ R!ForManagers(e) => repairCall[r].by \in Managers
    BY DEF R!LoadEdit, R!Loads, R!VersionMatches
  <1>2. /\ overlapped \in BOOLEAN /\ repairCall[r] \in RepairCall
        /\ repairCall[r].by \in R!Members \cup {R!None, R!Vendor}
        /\ repairCall[r].new \in BOOLEAN
    BY RepairCallType DEF RepairInv, RepairTypes, RepairCall
  <1>3. /\ e.set \in R!Statuses \cup {R!Keep}
        /\ e.who \in R!Members \cup {R!Keep, R!None}
        /\ e.to \in {R!Keep, R!None, R!Vendor}
    BY DEF R!Changes, R!Nothing
  <1>4. R!NewStatus(e) \in R!Statuses \cup {R!Keep}
    BY <1>3 DEF R!NewStatus, R!Statuses
  <1>5. e.set = "VERIFIED" => R!NewStatus(e) = "VERIFIED"
    BY DEF R!NewStatus, R!Keep
  <1> DEFINE by == IF e.set = "VERIFIED" /\ status # "VERIFIED" THEN repairCall[r].by ELSE R!None
  <1>6. /\ by \in R!Members \cup {R!None, R!Vendor}
        /\ by \in Managers \cup {R!None}
        /\ R!NewStatus(e) = R!Keep => by = R!None
    <2>1. e.set = "VERIFIED" /\ status # "VERIFIED" => R!ForManagers(e)
      BY DEF R!ForManagers
    <2> QED
      BY <1>1, <1>2, <1>5, <2>1 DEF R!Keep
  <1>7. c \in RepairCall
    <2>1. "loaded" \in {"idle", "page", "loaded"}
          /\ "edit" \in {R!None, "start", "submit", "verify", "send back", "edit"}
      OBVIOUS
    <2> QED
      BY <1>2, <1>3, <1>4, <1>6, <2>1, Zenon DEF RepairCall
  <1>8. /\ c.at = "loaded" /\ c.op = "edit" /\ c.by = by /\ c.set = R!NewStatus(e)
        /\ c.new = repairCall[r].new
    OBVIOUS
  <1> HIDE DEF c, by
  <1>9. /\ overlapped' \in BOOLEAN
        /\ overlapped => overlapped'
        /\ ~overlapped' => \A q \in Calls \ {r} : repairCall[q].at # "loaded"
    BY <1>1, <1>2
  <1>10. c.new
    BY <1>1, <1>8
  <1>11. c.op \notin {"verify", "start", "submit", "send back"}
    BY <1>8
  <1> QED
    BY <1>1, <1>6, <1>7, <1>8, <1>9, <1>10, <1>11, LoadRepairInv

------------------------------------------------------------------------------
(* Writing.                                                                  *)

\* A write leaves its call at rest and every other stale.
LEMMA WritesCalls ==
    ASSUME RepairInv, NEW r \in Calls, R!Writes(r)
    PROVE  /\ repairCall' \in [Calls -> RepairCall]
           /\ repairCall'[r].at = "idle"
           /\ \A q \in Calls : repairCall'[q].at = "loaded" =>
                 /\ q # r /\ repairCall[q].at = "loaded"
                 /\ repairCall'[q].op = repairCall[q].op /\ repairCall'[q].by = repairCall[q].by
                 /\ repairCall'[q].set = repairCall[q].set
  <1>1. \A q \in Calls : repairCall[q] \in RepairCall
    BY RepairCallType DEF RepairInv, RepairTypes
  <1>2. repairCall' = [q \in Calls |-> IF q = r \/ repairCall[q].at = "idle" THEN R!Resting
                                       ELSE [repairCall[q] EXCEPT !.new = FALSE]]
    BY DEF R!Writes
  <1>3. ASSUME NEW q \in Calls
        PROVE  /\ repairCall'[q] \in RepairCall
               /\ q = r => repairCall'[q].at = "idle"
               /\ repairCall'[q].at = "loaded" =>
                    /\ q # r /\ repairCall[q].at = "loaded"
                    /\ repairCall'[q].op = repairCall[q].op /\ repairCall'[q].by = repairCall[q].by
                    /\ repairCall'[q].set = repairCall[q].set
    <2>1. CASE q = r \/ repairCall[q].at = "idle"
      <3>1. repairCall'[q] = R!Resting
        BY <1>2, <2>1
      <3> QED
        BY <2>1, <3>1, RestingCall
    <2>2. CASE ~(q = r \/ repairCall[q].at = "idle")
      <3>1. repairCall'[q] = [repairCall[q] EXCEPT !.new = FALSE]
        BY <1>2, <2>2
      <3>2. repairCall[q] \in RepairCall
        BY <1>1
      <3> QED
        BY <2>2, <3>1, <3>2, StaleCall
    <2> QED
      BY <2>1, <2>2
  <1>4. repairCall' \in [Calls -> RepairCall]
    BY <1>2, <1>3
  <1> QED
    BY <1>3, <1>4

\* If calls have not overlapped, the one that writes was the only one.
LEMMA WriteRepairInv ==
    ASSUME RepairInv, NEW r \in Calls, repairCall[r].at = "loaded", R!Writes(r),
           overlapped' = overlapped,
           R!TypeOK',
           ~overlapped => R!CheckedByAnother' /\ R!ProofSinceSentBack' /\ R!EditsSeeChanges'
    PROVE  RepairInv'
  <1>1. overlapped \in BOOLEAN
    BY RepairCallType DEF RepairInv, RepairTypes
  <1>2. ASSUME NEW q \in Calls PROVE LoadKept(q)'
    <2>1. CASE repairCall'[q].at # "loaded"
      BY <2>1 DEF LoadKept
    <2>2. CASE repairCall'[q].at = "loaded"
      <3>1. /\ q # r /\ repairCall[q].at = "loaded"
            /\ repairCall'[q].op = repairCall[q].op /\ repairCall'[q].by = repairCall[q].by
            /\ repairCall'[q].set = repairCall[q].set
        BY <2>2, WritesCalls
      <3>2. LoadKept(q)
        BY DEF RepairInv
      <3>3. overlapped
        BY <3>1, <3>2 DEF LoadKept
      <3> QED
        BY <1>1, <2>2, <3>1, <3>2, <3>3 DEF LoadKept
    <2> QED
      BY <2>1, <2>2
  <1>3. overlapped => R!CheckedByAnother' /\ R!ProofSinceSentBack' /\ R!EditsSeeChanges'
    BY DEF R!CheckedByAnother, R!ProofSinceSentBack, R!EditsSeeChanges
  <1> QED
    BY <1>2, <1>3 DEF RepairInv

\* The four writes of a repair.
LEMMA RepairWritesInv ==
    ASSUME RepairInv, NEW r \in Calls,
           R!StartRepair(r) \/ R!SubmitRepair(r) \/ R!VerifyRepair(r) \/ R!SendBackRepair(r)
    PROVE  RepairInv'
  <1>1. /\ repairCall[r].at = "loaded" /\ R!Writes(r) /\ overlapped' = overlapped
        /\ UNCHANGED <<assignee, sent, blind>> /\ via' = "repair"
    BY DEF R!StartRepair, R!SubmitRepair, R!VerifyRepair, R!SendBackRepair, R!Loaded
  <1>2. LoadKept(r) /\ RepairTypes /\ repairCall[r] \in RepairCall
    BY RepairCallType DEF RepairInv, RepairTypes
  <1>3. repairCall[r].by \in R!Members \cup {R!None, R!Vendor}
    BY <1>2 DEF RepairCall
  <1>4. repairCall' \in [Calls -> RepairCall]
    BY <1>1, WritesCalls
  <1>5. R!TypeOK'
    <2>1. /\ status' \in R!Statuses /\ proof' \in BOOLEAN
          /\ submittedBy' \in R!Members \cup {R!None, R!Vendor}
      BY <1>2, <1>3 DEF R!StartRepair, R!SubmitRepair, R!VerifyRepair, R!SendBackRepair,
         RepairTypes, R!Statuses
    <2>2. verifiedBy' \in Managers \cup {R!None} /\ (verifiedBy' # R!None => status' = "VERIFIED")
      BY <1>2 DEF R!StartRepair, R!SubmitRepair, R!VerifyRepair, R!SendBackRepair, R!Loaded, LoadKept
    <2> QED
      BY <1>1, <1>2, <1>4, <2>1, <2>2, RepairCallType DEF RepairTypes
  <1>6. ASSUME ~overlapped
        PROVE  R!CheckedByAnother' /\ R!ProofSinceSentBack' /\ R!EditsSeeChanges'
    <2>1. R!CheckedByAnother'
      BY <1>1, <1>2, <1>6 DEF R!CheckedByAnother, R!StartRepair, R!SubmitRepair, R!VerifyRepair,
         R!SendBackRepair, R!Loaded, LoadKept
    <2>2. R!ProofSinceSentBack'
      BY <1>1, <1>2, <1>6 DEF R!ProofSinceSentBack, R!StartRepair, R!SubmitRepair, R!VerifyRepair,
         R!SendBackRepair, R!Loaded, LoadKept
    <2>3. R!EditsSeeChanges'
      BY <1>1 DEF R!EditsSeeChanges, RepairInv
    <2> QED
      BY <2>1, <2>2, <2>3
  <1> QED
    BY <1>1, <1>5, <1>6, WriteRepairInv

\* The write of an edit, which may keep the status and what it stands for.
LEMMA EditWriteInv ==
    ASSUME RepairInv, NEW r \in Calls, R!WriteEdit(r) PROVE RepairInv'
  <1> DEFINE c == repairCall[r]
             next == IF c.set = R!Keep THEN status ELSE c.set
  <1>1. /\ repairCall[r].at = "loaded" /\ R!Writes(r)
        /\ UNCHANGED <<proof, submittedBy, overlapped>>
        /\ c.op = "edit" /\ c.at = "loaded"
        /\ status' = next
        /\ via' = IF c.set = R!Keep THEN via ELSE "edit"
        /\ verifiedBy' = IF next # "VERIFIED" THEN R!None ELSE IF c.by # R!None THEN c.by ELSE verifiedBy
        /\ assignee' = IF c.who = R!Keep THEN assignee ELSE c.who
        /\ sent' = IF c.to = R!Keep THEN sent ELSE c.to = R!Vendor
        /\ blind' = (blind \/ ~c.new)
    BY DEF R!WriteEdit, R!Loaded
  <1>2. LoadKept(r) /\ RepairTypes /\ c \in RepairCall /\ repairCall[r] = c
    BY RepairCallType DEF RepairInv, RepairTypes
  <1> HIDE DEF c
  <1>3. /\ c.set \in R!Statuses \cup {R!Keep} /\ c.who \in R!Members \cup {R!Keep, R!None}
        /\ c.new \in BOOLEAN
    BY <1>2 DEF RepairCall
  <1>4. repairCall' \in [Calls -> RepairCall]
    BY <1>1, WritesCalls
  <1>5. R!TypeOK'
    <2>1. status' \in R!Statuses
      BY <1>1, <1>2, <1>3 DEF RepairTypes
    <2>2. assignee' \in R!Members \cup {R!None}
      BY <1>1, <1>2, <1>3 DEF RepairTypes
    <2>3. sent' \in BOOLEAN /\ blind' \in BOOLEAN
      BY <1>1, <1>2 DEF RepairTypes
    <2>4. c.by \in Managers \cup {R!None}
      BY <1>1, <1>2 DEF LoadKept
    <2>5. verifiedBy' \in Managers \cup {R!None} /\ (verifiedBy' # R!None => status' = "VERIFIED")
      BY <1>1, <1>2, <2>4 DEF RepairTypes
    <2>6. via' \in {"edit", "repair"}
      BY <1>1, <1>2 DEF RepairTypes
    <2> QED
      BY <1>1, <1>2, <1>4, <2>1, <2>2, <2>3, <2>5, <2>6, RepairCallType DEF RepairTypes
  <1>6. ASSUME ~overlapped
        PROVE  R!CheckedByAnother' /\ R!ProofSinceSentBack' /\ R!EditsSeeChanges'
    <2>1. c.new /\ (c.set = R!Keep => c.by = R!None)
      BY <1>1, <1>2, <1>6 DEF LoadKept
    <2>2. CASE c.set = R!Keep
      BY <1>1, <1>6, <2>1, <2>2 DEF R!CheckedByAnother, R!ProofSinceSentBack, R!EditsSeeChanges,
         RepairInv
    <2>3. CASE c.set # R!Keep
      BY <1>1, <1>6, <2>1, <2>3 DEF R!CheckedByAnother, R!ProofSinceSentBack, R!EditsSeeChanges,
         RepairInv
    <2> QED
      BY <2>2, <2>3
  <1> QED
    BY <1>1, <1>5, <1>6, WriteRepairInv

\* A photo is proof, and is none of anything else.
LEMMA PhotoRepairInv ==
    ASSUME RepairInv, NEW u, R!AttachAfterPhoto(u) PROVE RepairInv'
  <1>1. /\ proof' = TRUE
        /\ UNCHANGED <<status, assignee, sent, submittedBy, verifiedBy, repairCall, via, blind, overlapped>>
    BY DEF R!AttachAfterPhoto
  <1>2. R!TypeOK'
    BY <1>1, RepairCallType DEF RepairInv, RepairTypes
  <1>3. ASSUME NEW q \in Calls PROVE LoadKept(q)'
    BY <1>1 DEF LoadKept, RepairInv
  <1> QED
    BY <1>1, <1>2, <1>3 DEF RepairInv, R!CheckedByAnother, R!ProofSinceSentBack, R!EditsSeeChanges

LEMMA LoadsRepairInv ==
    ASSUME RepairInv, NEW r \in Calls, NEW u \in R!Members \cup {R!Vendor},
           \/ R!LoadStart(r, u) \/ R!LoadSubmit(r, u)
           \/ R!LoadCheck(r, "verify", u) \/ R!LoadCheck(r, "send back", u)
    PROVE  RepairInv'
  <1>1. u \in R!Members \cup {R!None, R!Vendor} /\ R!None \in R!Members \cup {R!None, R!Vendor}
    OBVIOUS
  <1> DEFINE start == "start"
             submit == "submit"
             verify == "verify"
             back == "send back"
             ops == {"start", "submit", "verify", "send back"}
  <1>2. start \in ops /\ submit \in ops /\ verify \in ops /\ back \in ops
        /\ start # verify /\ start # submit /\ submit # verify /\ back # verify /\ back # submit
    OBVIOUS
  <1>3. CASE R!LoadStart(r, u)
    <2>1. R!LoadFor(r, start, u, R!None) /\ status \notin R!Closed
      BY <1>3 DEF R!LoadStart, R!Closed
    <2>2. start = "verify" <=> start = verify
      OBVIOUS
    <2>3. start = "submit" <=> start = submit
      OBVIOUS
    <2> HIDE DEF start
    <2> QED
      BY <1>1, <1>2, <2>1, <2>2, <2>3, LoadForRepairInv
  <1>4. CASE R!LoadSubmit(r, u)
    <2>1. R!LoadFor(r, submit, u, u) /\ status \notin R!Closed /\ proof
      BY <1>4 DEF R!LoadSubmit, R!Closed, R!Finished
    <2>2. submit # "verify"
      OBVIOUS
    <2> HIDE DEF submit
    <2> QED
      BY <1>1, <1>2, <2>1, <2>2, LoadForRepairInv
  <1>5. CASE R!LoadCheck(r, "verify", u)
    <2>1. R!LoadFor(r, verify, u, u) /\ u \in Managers /\ u # submittedBy
      BY <1>5 DEF R!LoadCheck, R!MayCheck
    <2>2. verify = "verify" /\ verify # "submit"
      OBVIOUS
    <2> HIDE DEF verify
    <2> QED
      BY <1>1, <1>2, <2>1, <2>2, LoadForRepairInv
  <1>6. CASE R!LoadCheck(r, "send back", u)
    <2>1. R!LoadFor(r, back, u, R!None) /\ status \notin R!Closed
      BY <1>6 DEF R!LoadCheck, R!Closed
    <2>2. back # "verify" /\ back # "submit"
      OBVIOUS
    <2> HIDE DEF back
    <2> QED
      BY <1>1, <1>2, <2>1, <2>2, LoadForRepairInv
  <1> QED
    BY <1>3, <1>4, <1>5, <1>6

LEMMA NextRepairInv == RepairInv /\ R!Next => RepairInv'
  <1> SUFFICES ASSUME RepairInv, R!Next PROVE RepairInv'
    OBVIOUS
  <1> QED
    BY PhotoRepairInv, LoadsRepairInv, RepairWritesInv, PageRepairInv, EditRepairInv, EditWriteInv
       DEF R!Next

LEMMA SameRepairInv == RepairInv /\ UNCHANGED repair => RepairInv'
  <1> SUFFICES ASSUME RepairInv, UNCHANGED repair PROVE RepairInv'
    OBVIOUS
  <1>1. R!TypeOK'
    BY RepairCallType DEF RepairInv, RepairTypes, repair
  <1>2. ASSUME NEW r \in Calls PROVE LoadKept(r)'
    BY DEF RepairInv, LoadKept, repair
  <1> QED
    BY <1>1, <1>2 DEF RepairInv, repair, R!CheckedByAnother, R!ProofSinceSentBack,
       R!EditsSeeChanges

LEMMA SpecRepairInv == FieldSpec => []RepairInv
  <1>1. FieldInit => RepairInv
    BY InitRepairInv DEF FieldInit
  <1>2. RepairInv /\ [CaptureStep \/ RepairStep \/ PanoramaStep \/ FlightStep \/ TourStep]_all
          => RepairInv'
    BY NextRepairInv, SameRepairInv DEF CaptureStep, RepairStep, PanoramaStep, FlightStep,
       TourStep, all
  <1> QED
    BY <1>1, <1>2, PTL DEF FieldSpec

\* Unless calls overlapped, a repair is checked by somebody else than reported
\* it done, on proof from after it was last sent back, and no edit is written
\* over a change it has not seen, for any number of people and requests.
THEOREM RepairsStayChecked == FieldSpec => []RepairsAreChecked
  <1>1. RepairInv => RepairsAreChecked
    BY DEF RepairInv, RepairsAreChecked
  <1> QED
    BY <1>1, SpecRepairInv, PTL

------------------------------------------------------------------------------
(* 3D tours *)

Touring == [at : {"idle", "connecting", "asking", "pasting", "linking", "syncing", "unlinking"},
            for : TourSites \cup {T!Own}, space : Spaces \cup {T!NoRow}]
TourLink == [space : Spaces, for : TourSites \cup {T!Own}, by : TourSites \cup {T!Own}]

\* What a call that asks the provider has read: it has credentials to ask
\* with, and a space that is to be linked has its row.
TourKept(c) ==
    LET t == touring[c]
    IN  /\ t.at = "connecting" => configured
        /\ t.at \in {"asking", "pasting", "linking", "syncing"} => t.space \in Spaces
        /\ t.at = "linking" => spaces[t.space] # T!NoRow

TourInv ==
    /\ configured \in BOOLEAN /\ connection \in T!Connections
    /\ spaces \in [Spaces -> T!Statuses]
    /\ links \in Seq(TourLink) /\ viewed \subseteq TourSites
    /\ touring \in [Calls -> Touring]
    /\ \A c \in Calls : TourKept(c)
    /\ T!LinkedOnce
    /\ \A i \in DOMAIN links : links[i].by = links[i].for
    /\ T!NothingIsClaimed

LEMMA AwayIsTouring ==
    /\ T!Away \in Touring /\ T!Away.at = "idle"
    /\ T!Away.for = T!Own /\ T!Away.space = T!NoRow
  BY DEF T!Away, Touring

LEMMA InitTourInv == T!TourInit => TourInv
  <1> SUFFICES ASSUME T!TourInit PROVE TourInv
    OBVIOUS
  <1>1. /\ touring \in [Calls -> Touring]
        /\ \A c \in Calls : TourKept(c)
    BY AwayIsTouring DEF T!TourInit, TourKept
  <1>2. links = <<>> /\ links \in Seq(TourLink) /\ DOMAIN links = {}
    BY DEF T!TourInit
  <1>3. /\ connection \in T!Connections /\ spaces \in [Spaces -> T!Statuses]
        /\ configured \in BOOLEAN /\ viewed \subseteq TourSites
    BY DEF T!TourInit, T!Connections, T!Statuses
  <1>4. T!NothingIsClaimed
    BY DEF T!TourInit, T!NothingIsClaimed, T!NoRow
  <1> QED
    BY <1>1, <1>2, <1>3, <1>4 DEF TourInv, T!LinkedOnce

\* A call goes on, and what it does not touch stays: it keeps what the next
\* step needs, a space that has a row does not lose it, and nothing is claimed.
LEMMA TurnTourInv ==
    ASSUME TourInv, NEW c \in Calls, NEW t \in Touring,
           touring' = [touring EXCEPT ![c] = t],
           UNCHANGED <<configured, links, viewed>>,
           connection' \in T!Connections, spaces' \in [Spaces -> T!Statuses],
           \A s \in Spaces : spaces[s] # T!NoRow => spaces'[s] # T!NoRow,
           T!NothingIsClaimed',
           t.at = "connecting" => configured,
           t.at \in {"asking", "pasting", "linking", "syncing"} => t.space \in Spaces,
           t.at = "linking" => spaces'[t.space] # T!NoRow
    PROVE  TourInv'
  <1> USE DEF TourInv
  <1>1. touring' \in [Calls -> Touring]
    OBVIOUS
  <1>2. ASSUME NEW d \in Calls PROVE TourKept(d)'
    <2>1. CASE d = c
      BY <2>1 DEF TourKept
    <2>2. CASE d # c
      <3>1. touring'[d] = touring[d] /\ TourKept(d)
        BY <2>2
      <3> QED
        BY <3>1 DEF TourKept
    <2> QED
      BY <2>1, <2>2
  <1>3. T!LinkedOnce'
    <2>1. \A i \in DOMAIN links : links[i] \in TourLink
      OBVIOUS
    <2>2. \A i \in DOMAIN links : links[i].space \in Spaces
      BY <2>1 DEF TourLink
    <2> QED
      BY <2>2 DEF T!LinkedOnce
  <1> QED
    BY <1>1, <1>2, <1>3

\* The rows of spaces stay as they are.
LEMMA QuietTourInv ==
    ASSUME TourInv, NEW c \in Calls, NEW t \in Touring,
           touring' = [touring EXCEPT ![c] = t],
           UNCHANGED <<configured, spaces, links, viewed>>,
           connection' \in T!Connections,
           ~configured => connection' \notin {"CONNECTED", "ERROR"},
           t.at = "connecting" => configured,
           t.at \in {"asking", "pasting", "syncing"} => t.space \in Spaces,
           t.at # "linking"
    PROVE  TourInv'
  <1>1. T!NothingIsClaimed'
    BY DEF TourInv, T!NothingIsClaimed
  <1>2. spaces' \in [Spaces -> T!Statuses]
    BY DEF TourInv
  <1> QED
    BY <1>1, <1>2, TurnTourInv

LEMMA ConnectionTourInv ==
    ASSUME TourInv, NEW c \in Calls,
           \/ T!AskToConnect(c) \/ T!ConnectUnconfigured(c) \/ T!DisconnectOrg(c)
           \/ T!GiveUp(c) \/ \E works \in BOOLEAN : T!Connect(c, works)
    PROVE  TourInv'
  <1>1. CASE T!AskToConnect(c)
    <2> DEFINE t == [T!Away EXCEPT !.at = "connecting"]
    <2>1. t \in Touring /\ t.at = "connecting"
      BY AwayIsTouring DEF Touring
    <2>2. /\ touring' = [touring EXCEPT ![c] = t]
          /\ UNCHANGED <<configured, connection, spaces, links, viewed>>
          /\ configured
      BY <1>1 DEF T!AskToConnect, T!Begins
    <2> HIDE DEF t
    <2> QED
      BY <2>1, <2>2, QuietTourInv DEF TourInv, T!NothingIsClaimed
  <1>2. CASE \/ T!ConnectUnconfigured(c) \/ T!DisconnectOrg(c) \/ T!GiveUp(c)
             \/ \E works \in BOOLEAN : T!Connect(c, works)
    <2>1. /\ touring' = [touring EXCEPT ![c] = T!Away]
          /\ UNCHANGED <<configured, spaces, links, viewed>>
      BY <1>2 DEF T!ConnectUnconfigured, T!DisconnectOrg, T!GiveUp, T!Connect, T!Begins, T!Turn
    <2>2. /\ connection' \in T!Connections
          /\ ~configured => connection' \notin {"CONNECTED", "ERROR"}
      BY <1>2 DEF T!ConnectUnconfigured, T!DisconnectOrg, T!GiveUp, T!Connect, T!Step, T!Connections,
         TourInv, TourKept, T!NothingIsClaimed
    <2> QED
      BY <2>1, <2>2, AwayIsTouring, QuietTourInv
  <1> QED
    BY <1>1, <1>2

\* A call asks for a space, or for one of the links.
LEMMA AskedTourInv ==
    ASSUME TourInv, NEW c \in Calls, NEW who \in TourSites \cup {T!Own}, NEW s \in Spaces,
           NEW at \in {"asking", "pasting", "syncing", "unlinking"},
           touring' = [touring EXCEPT ![c] = [T!Away EXCEPT !.at = at, !.for = who, !.space = s]],
           UNCHANGED <<configured, spaces, links, viewed>>,
           connection' \in {connection, "VIEWER_ONLY"}
    PROVE  TourInv'
  <1> DEFINE t == [T!Away EXCEPT !.at = at, !.for = who, !.space = s]
  <1>1. t \in Touring /\ t.at = at /\ t.space = s
    <2>1. /\ at \in {"idle", "connecting", "asking", "pasting", "linking", "syncing", "unlinking"}
          /\ s \in Spaces \cup {T!NoRow}
      OBVIOUS
    <2>2. t \in Touring
      BY <2>1, AwayIsTouring, Zenon DEF Touring
    <2> QED
      BY <2>2, AwayIsTouring DEF Touring
  <1>2. /\ connection' \in T!Connections
        /\ ~configured => connection' \notin {"CONNECTED", "ERROR"}
    BY DEF TourInv, T!NothingIsClaimed, T!Connections
  <1> HIDE DEF t
  <1>3. touring' = [touring EXCEPT ![c] = t]
    BY DEF t
  <1> QED
    BY <1>1, <1>2, <1>3, QuietTourInv

LEMMA AskingTourInv ==
    ASSUME TourInv, NEW c \in Calls, NEW who \in TourSites \cup {T!Own},
           \/ \E s \in Spaces : T!AskSpace(c, who, s) \/ T!PasteSpace(c, who, s)
           \/ T!AskSync(c, who)
           \/ \E i \in DOMAIN links : T!AskUnlink(c, who, i)
    PROVE  TourInv'
  <1> DEFINE ways == {"asking", "pasting", "syncing", "unlinking"}
             asking == "asking"
             pasting == "pasting"
             syncing == "syncing"
             unlinking == "unlinking"
             Asks(at, s) == touring' = [touring EXCEPT ![c] = [T!Away EXCEPT !.at = at, !.for = who, !.space = s]]
  <1>1. asking \in ways /\ pasting \in ways /\ syncing \in ways /\ unlinking \in ways
    OBVIOUS
  <1>2. \A i \in DOMAIN links : links[i].space \in Spaces
    <2>1. \A i \in DOMAIN links : links[i] \in TourLink
      BY DEF TourInv
    <2> QED
      BY <2>1 DEF TourLink
  <1>3. UNCHANGED <<configured, spaces, links, viewed>> /\ connection' \in {connection, "VIEWER_ONLY"}
    BY Zenon DEF T!AskSpace, T!PasteSpace, T!AskSync, T!AskUnlink
  <1>4. ASSUME NEW s \in Spaces, T!AskSpace(c, who, s) PROVE Asks(asking, s)
    BY <1>4, Zenon DEF T!AskSpace, T!Begins
  <1>5. ASSUME NEW s \in Spaces, T!PasteSpace(c, who, s) PROVE Asks(pasting, s)
    BY <1>5, Zenon DEF T!PasteSpace, T!Begins
  <1>6. ASSUME T!AskSync(c, who)
        PROVE  Asks(syncing, links[Len(links)].space) /\ Len(links) \in DOMAIN links
    <2>1. Len(links) \in DOMAIN links
      BY <1>6, LenProperties DEF T!AskSync, TourInv
    <2> QED
      BY <1>6, <2>1 DEF T!AskSync, T!Begins, T!Last
  <1>7. ASSUME NEW i \in DOMAIN links, T!AskUnlink(c, who, i) PROVE Asks(unlinking, links[i].space)
    BY <1>7, Zenon DEF T!AskUnlink, T!Begins
  <1> HIDE DEF asking, pasting, syncing, unlinking
  <1>8. ASSUME NEW at \in ways, NEW s \in Spaces, Asks(at, s) PROVE TourInv'
    BY <1>3, <1>8, AskedTourInv, Zenon
  <1> HIDE DEF ways, Asks
  <1> QED
    BY <1>1, <1>2, <1>4, <1>5, <1>6, <1>7, <1>8

\* What the provider knows, or what was pasted, gets its row.
LEMMA PutTourInv ==
    ASSUME TourInv, NEW c \in Calls, T!PutAsked(c) \/ T!PutPasted(c) \/ T!Sync(c)
    PROVE  TourInv'
  <1> DEFINE s == touring[c].space
             t == [touring[c] EXCEPT !.at = "linking"]
  <1>1. touring[c] \in Touring /\ TourKept(c)
    BY DEF TourInv
  <1>2. /\ t \in Touring /\ t.at = "linking" /\ t.space = s
    <2>1. "linking" \in {"idle", "connecting", "asking", "pasting", "linking", "syncing", "unlinking"}
      OBVIOUS
    <2>2. t \in Touring
      BY <1>1, <2>1, Zenon DEF Touring
    <2> QED
      BY <1>1, <2>2 DEF Touring
  <1>3. s \in Spaces
    BY <1>1 DEF TourKept, T!PutAsked, T!PutPasted, T!Sync, T!Step
  <1>4. UNCHANGED <<configured, connection, links, viewed>>
    BY DEF T!PutAsked, T!PutPasted, T!Sync
  <1>5. /\ \/ touring' = [touring EXCEPT ![c] = t] /\ spaces'[s] # T!NoRow
           \/ touring' = [touring EXCEPT ![c] = T!Away]
        /\ \/ spaces' = spaces
           \/ /\ \/ spaces' = [spaces EXCEPT ![s] = "READY"] /\ s \in Real /\ configured
                 \/ spaces' = [spaces EXCEPT ![s] = "ERROR"]
                 \/ spaces' = [spaces EXCEPT ![s] = "UNVERIFIED"]
    <2>1. CASE T!PutAsked(c)
      BY <1>3, <2>1 DEF T!PutAsked, T!Turn, TourInv, T!NoRow
    <2>2. CASE T!PutPasted(c)
      <3>1. /\ spaces' = [spaces EXCEPT ![s] = T!Pasted(@)]
            /\ touring' = [touring EXCEPT ![c] = t]
        BY <2>2 DEF T!PutPasted, T!Turn
      <3>2. spaces \in [Spaces -> T!Statuses]
        BY DEF TourInv
      <3>3. CASE spaces[s] = T!NoRow
        BY <1>3, <3>1, <3>2, <3>3 DEF T!Pasted, T!NoRow
      <3>4. CASE spaces[s] # T!NoRow
        BY <1>3, <3>1, <3>2, <3>4 DEF T!Pasted
      <3> QED
        BY <3>3, <3>4
    <2>3. CASE T!Sync(c)
      BY <1>3, <2>3 DEF T!Sync, T!Turn
    <2> QED
      BY <2>1, <2>2, <2>3
  <1> HIDE DEF s, t
  <1>6. /\ spaces' \in [Spaces -> T!Statuses]
        /\ \A x \in Spaces : spaces[x] # T!NoRow => spaces'[x] # T!NoRow
    BY <1>3, <1>5 DEF TourInv, T!Statuses, T!NoRow
  <1>7. T!NothingIsClaimed'
    BY <1>3, <1>4, <1>5 DEF TourInv, T!NothingIsClaimed
  <1>8. connection' \in T!Connections
    BY <1>4 DEF TourInv
  <1>9. CASE touring' = [touring EXCEPT ![c] = t] /\ spaces'[s] # T!NoRow
    BY <1>2, <1>3, <1>4, <1>6, <1>7, <1>8, <1>9, TurnTourInv
  <1>10. CASE touring' = [touring EXCEPT ![c] = T!Away]
    BY <1>4, <1>6, <1>7, <1>8, <1>10, AwayIsTouring, TurnTourInv
  <1> QED
    BY <1>5, <1>9, <1>10

\* A sequence without one of its elements.
LEMMA RemoveAtProperties ==
    ASSUME NEW S, NEW s \in Seq(S), NEW k \in DOMAIN s
    PROVE  /\ T!RemoveAt(s, k) \in Seq(S)
           /\ \A i \in DOMAIN T!RemoveAt(s, k) :
                T!RemoveAt(s, k)[i] = s[IF i < k THEN i ELSE i + 1]
           /\ DOMAIN T!RemoveAt(s, k) = 1 .. (Len(s) - 1)
  <1> DEFINE front == SubSeq(s, 1, k - 1)
             back == SubSeq(s, k + 1, Len(s))
  <1>1. /\ k \in 1 .. Len(s) /\ Len(s) \in Nat /\ DOMAIN s = 1 .. Len(s)
    BY LenProperties
  <1>2. /\ front \in Seq(S) /\ Len(front) = k - 1
        /\ \A i \in 1 .. (k - 1) : front[i] = s[i]
    <2>1. /\ 1 \in Int /\ k - 1 \in Int
          /\ \A i \in 1 .. (k - 1) : i \in DOMAIN s
      BY <1>1
    <2> QED
      BY <1>1, <2>1, SubSeqProperties
  <1>3. /\ back \in Seq(S) /\ Len(back) = Len(s) - k
        /\ \A i \in 1 .. (Len(s) - k) : back[i] = s[i + k]
    <2>1. /\ k + 1 \in Int /\ Len(s) \in Int
          /\ \A i \in (k + 1) .. Len(s) : i \in DOMAIN s
      BY <1>1
    <2> QED
      BY <1>1, <2>1, SubSeqProperties, SMTT(20)
  <1>4. T!RemoveAt(s, k) = front \o back
    BY DEF T!RemoveAt
  <1> HIDE DEF front, back
  <1>5. /\ front \o back \in Seq(S) /\ Len(front \o back) = Len(s) - 1
        /\ \A i \in 1 .. (Len(s) - 1) : (front \o back)[i] = IF i < k THEN front[i] ELSE back[i - (k - 1)]
    <2>1. /\ front \o back \in Seq(S)
          /\ Len(front \o back) = Len(front) + Len(back)
          /\ \A i \in 1 .. Len(front) + Len(back) :
               (front \o back)[i] = IF i <= Len(front) THEN front[i] ELSE back[i - Len(front)]
      BY <1>2, <1>3, ConcatProperties
    <2>2. Len(front) + Len(back) = Len(s) - 1
      BY <1>1, <1>2, <1>3
    <2>3. \A i \in 1 .. (Len(s) - 1) : i <= Len(front) <=> i < k
      BY <1>1, <1>2
    <2> QED
      BY <1>2, <2>1, <2>2, <2>3
  <1>6. ASSUME NEW i \in 1 .. (Len(s) - 1)
        PROVE  (front \o back)[i] = s[IF i < k THEN i ELSE i + 1]
    <2>1. CASE i < k
      <3>1. i \in 1 .. (k - 1)
        BY <1>1, <2>1
      <3> QED
        BY <1>2, <1>5, <2>1, <3>1
    <2>2. CASE ~(i < k)
      <3>1. i - (k - 1) \in 1 .. (Len(s) - k) /\ (i - (k - 1)) + k = i + 1
        BY <1>1, <2>2
      <3>2. back[i - (k - 1)] = s[(i - (k - 1)) + k]
        BY <1>3, <3>1
      <3> QED
        BY <1>5, <2>2, <3>1, <3>2
    <2> QED
      BY <2>1, <2>2
  <1> QED
    BY <1>4, <1>5, <1>6, LenProperties

\* A space is linked where it is not yet, and one link is taken away.
LEMMA LinksTourInv ==
    ASSUME TourInv, NEW c \in Calls, T!PutLink(c) \/ T!Unlink(c)
    PROVE  TourInv'
  <1> DEFINE s == touring[c].space
             who == IF T!Reaches(touring[c].for) THEN touring[c].for ELSE T!Own
  <1>1. touring[c] \in Touring /\ TourKept(c)
    BY DEF TourInv
  <1>2. /\ touring' = [touring EXCEPT ![c] = T!Away]
        /\ UNCHANGED <<configured, connection, spaces, viewed>>
    BY DEF T!PutLink, T!Unlink, T!Turn
  <1>3. /\ links' \in Seq(TourLink)
        /\ \A i \in DOMAIN links' : links'[i].by = links'[i].for
        /\ \A i, j \in DOMAIN links' : links'[i].space = links'[j].space => i = j
        /\ \A i \in DOMAIN links' : spaces[links'[i].space] # T!NoRow
    <2>1. CASE T!PutLink(c)
      <3>1. s \in Spaces /\ spaces[s] # T!NoRow /\ links' = T!LinksAfter(s, who)
        BY <1>1, <2>1, Zenon DEF TourKept, T!PutLink, T!Step
      <3>2. who \in TourSites \cup {T!Own}
        BY <1>1 DEF Touring
      <3> HIDE DEF s, who
      <3> DEFINE new == [space |-> s, for |-> who, by |-> who]
      <3>3. new \in TourLink /\ new.space = s /\ new.for = who /\ new.by = who
        BY <3>1, <3>2, Zenon DEF TourLink
      <3>4. links' = links \/ (T!LinksOf(s) = {} /\ links' = Append(links, new))
        BY <3>1, Zenon DEF T!LinksAfter
      <3> HIDE DEF new
      <3>5. CASE links' = links
        BY <3>5, Zenon DEF TourInv, T!LinkedOnce
      <3>6. CASE T!LinksOf(s) = {} /\ links' = Append(links, new)
        <4>1. \A i \in DOMAIN links : links[i].space # s
          BY <3>6 DEF T!LinksOf
        <4>2. /\ links \in Seq(TourLink) /\ DOMAIN links = 1 .. Len(links) /\ Len(links) \in Nat
          BY LenProperties DEF TourInv
        <4>3. /\ links' \in Seq(TourLink) /\ DOMAIN links' = 1 .. (Len(links) + 1)
              /\ links'[Len(links) + 1] = new
              /\ \A i \in DOMAIN links : links'[i] = links[i]
          BY <3>3, <3>6, <4>2, AppendProperties, LenProperties
        <4>4. \A i \in DOMAIN links' : i \in DOMAIN links \/ i = Len(links) + 1
          BY <4>2, <4>3
        <4> QED
          BY <3>1, <3>3, <4>1, <4>3, <4>4, SMTT(30) DEF TourInv, T!LinkedOnce
      <3> QED
        BY <3>4, <3>5, <3>6
    <2>2. CASE T!Unlink(c)
      <3>1. PICK k \in DOMAIN links : links' = T!RemoveAt(links, k)
        BY <2>2 DEF T!Unlink, T!LinksOf
      <3>2. links \in Seq(TourLink) /\ DOMAIN links = 1 .. Len(links) /\ Len(links) \in Nat
        BY LenProperties DEF TourInv
      <3> DEFINE was(i) == IF i < k THEN i ELSE i + 1
      <3>3. /\ links' \in Seq(TourLink) /\ DOMAIN links' = 1 .. (Len(links) - 1)
            /\ \A i \in DOMAIN links' : links'[i] = links[was(i)]
        BY <3>1, <3>2, RemoveAtProperties
      <3>4. /\ \A i \in DOMAIN links' : was(i) \in DOMAIN links
            /\ \A i, j \in DOMAIN links' : was(i) = was(j) => i = j
        BY <3>1, <3>2, <3>3
      <3> HIDE DEF was
      <3> QED
        BY <3>3, <3>4 DEF TourInv, T!LinkedOnce
    <2> QED
      BY <2>1, <2>2
  <1>4. T!LinkedOnce'
    BY <1>2, <1>3 DEF T!LinkedOnce
  <1>5. /\ touring' \in [Calls -> Touring]
        /\ \A d \in Calls : TourKept(d)'
    BY <1>2, AwayIsTouring DEF TourInv, TourKept
  <1> QED
    BY <1>2, <1>3, <1>4, <1>5 DEF TourInv, T!NothingIsClaimed

LEMMA NextTourInv == TourInv /\ T!TourNext => TourInv'
  <1> SUFFICES ASSUME TourInv, T!TourNext PROVE TourInv'
    OBVIOUS
  <1>1. ASSUME NEW s \in TourSites, T!AcceptTour(s) PROVE TourInv'
    <2>1. /\ viewed' = viewed \cup {s}
          /\ UNCHANGED <<configured, connection, spaces, links, touring>>
      BY <1>1 DEF T!AcceptTour
    <2>2. \A c \in Calls : TourKept(c)'
      BY <2>1 DEF TourInv, TourKept
    <2> QED
      BY <2>1, <2>2 DEF TourInv, T!LinkedOnce, T!NothingIsClaimed
  <1> QED
    BY <1>1, ConnectionTourInv, AskingTourInv, PutTourInv, LinksTourInv DEF T!TourNext

LEMMA SameTourInv == TourInv /\ UNCHANGED tours => TourInv'
  <1> SUFFICES ASSUME TourInv, UNCHANGED tours PROVE TourInv'
    OBVIOUS
  <1>1. \A c \in Calls : TourKept(c)'
    BY DEF TourInv, TourKept, tours
  <1> QED
    BY <1>1 DEF TourInv, tours, T!LinkedOnce, T!NothingIsClaimed

LEMMA SpecTourInv == FieldSpec => []TourInv
  <1>1. FieldInit => TourInv
    BY InitTourInv DEF FieldInit
  <1>2. TourInv /\ [CaptureStep \/ RepairStep \/ PanoramaStep \/ FlightStep \/ TourStep]_all
          => TourInv'
    BY NextTourInv, SameTourInv DEF CaptureStep, RepairStep, PanoramaStep, FlightStep, TourStep, all
  <1> QED
    BY <1>1, <1>2, PTL DEF FieldSpec

\* What the tours promise follows.
LEMMA ToursAreTrue == TourInv => T!TourTypeOK /\ T!LinkedOnce /\ T!HeldUntilAccepted /\ T!NothingIsClaimed
  <1> SUFFICES ASSUME TourInv
               PROVE  T!TourTypeOK /\ T!HeldUntilAccepted
    BY DEF TourInv
  <1>1. \A i \in DOMAIN links : links[i] \in TourLink
    BY DEF TourInv
  <1>2. \A i \in DOMAIN links : /\ links[i].space \in Spaces /\ links[i].for \in TourSites \cup {T!Own}
                                /\ links[i].by = links[i].for
    BY <1>1 DEF TourInv, TourLink
  <1>3. T!TourTypeOK
    BY <1>2, Zenon DEF T!TourTypeOK, TourInv
  <1>4. T!HeldUntilAccepted
    <2>1. T!Own \notin TourSites
      BY FieldAssumption
    <2> QED
      BY <1>2, <2>1 DEF T!HeldUntilAccepted, T!Shown
  <1> QED
    BY <1>3, <1>4

------------------------------------------------------------------------------
(* Drone flights *)

FlightPlaces == {"idle", "resolving", "creating", "adding", "marked", "added", "sending",
                 "landed", "registering", "done", "over", "readying"}
Flight == [at : FlightPlaces,
           site : JobSites \cup {D!Own}, capture : Nat, dataset : Nat,
           landed : SUBSET Images, left : SUBSET (Images \cup Nat), batch : SUBSET Images]
DroneCapture == [site : JobSites \cup {D!Own}, status : {"CREATED", "UPLOADING", "READY", "FAILED"}]
DroneDataset == [capture : Nat, job : {"NONE", "CREATED", "READY"}, images : SUBSET (Calls \X Images)]

FlightTypes ==
    /\ released \subseteq JobSites /\ races \subseteq D!Races
    /\ captures \in Seq(DroneCapture) /\ Len(captures) <= MaxCaptures
    /\ datasets \in Seq(DroneDataset)
    /\ \A d \in DOMAIN datasets : datasets[d].capture \in DOMAIN captures
    /\ flight \in [Calls -> Flight]

\* Where an upload goes is there, and what it has brought is stored, but for
\* what it still has to register.
FlightKept(u) ==
    LET f == flight[u]
    IN  /\ f.at \in {"adding", "marked", "added", "sending", "landed", "registering", "readying"}
             => f.capture \in DOMAIN captures
        /\ f.at \in {"added", "sending", "landed", "registering", "done"} => f.dataset \in DOMAIN datasets
        /\ f.at = "added" => datasets[f.dataset].capture = f.capture
        /\ f.at \in {"landed", "registering", "done"} =>
             \A file \in f.landed \ (f.left \cup f.batch) : <<u, file>> \in datasets[f.dataset].images
        /\ f.at \notin {"landed", "registering", "done"} => f.landed = {}
        /\ f.at # "registering" => f.batch = {}
        /\ f.at \notin {"landed", "registering", "readying"} => f.left = {}

\* Unless something raced, a call that creates a capture is the only one, at a
\* time when none is in flight.
OneInFlight ==
    races \cap {"overlap", "hidden", "retried"} = {} =>
      /\ \A c, d \in D!InFlight : c = d
      /\ \A u, v \in Calls : D!At(u, "creating") /\ D!At(v, "creating") => u = v
      /\ \A u \in Calls : D!At(u, "creating") => D!InFlight = {}

\* The call that finishes a capture knows of every job there is to finish.
JobsKnown(u) ==
    races \cap {"late", "retried"} = {} /\ D!At(u, "readying") =>
      \A d \in DOMAIN datasets : datasets[d].capture = flight[u].capture /\ datasets[d].job = "CREATED"
                                   => d \in flight[u].left

FlightInv ==
    /\ FlightTypes
    /\ \A u \in Calls : FlightKept(u)
    /\ OneInFlight
    /\ \A u \in Calls : JobsKnown(u)
    /\ D!ReadyIsProcessed

LEMMA IdleIsFlight ==
    /\ D!Idle \in Flight /\ D!Idle.at = "idle" /\ D!Idle.site = D!Own
    /\ D!Idle.capture = 0 /\ D!Idle.dataset = 0
    /\ D!Idle.landed = {} /\ D!Idle.left = {} /\ D!Idle.batch = {}
  <1>1. /\ "idle" \in FlightPlaces
        /\ D!Own \in JobSites \cup {D!Own} /\ 0 \in Nat
        /\ {} \in SUBSET Images /\ {} \in SUBSET (Images \cup Nat)
    BY DEF FlightPlaces
  <1>2. D!Idle \in Flight
    BY <1>1, Zenon DEF D!Idle, Flight
  <1> QED
    BY <1>2 DEF D!Idle

\* What others have under way is kept by whatever takes nothing away.
LEMMA OtherFlightKept ==
    ASSUME FlightInv, NEW v \in Calls, flight'[v] = flight[v],
           DOMAIN captures \subseteq DOMAIN captures', DOMAIN datasets \subseteq DOMAIN datasets',
           \A d \in DOMAIN datasets : /\ datasets'[d].capture = datasets[d].capture
                                      /\ datasets[d].images \subseteq datasets'[d].images
    PROVE  FlightKept(v)'
  <1>1. FlightKept(v)
    BY DEF FlightInv
  <1> QED
    BY <1>1 DEF FlightKept

\* A step that changes one request and no row.
LEMMA QuietFlightInv ==
    ASSUME FlightInv, NEW u \in Calls, NEW f \in Flight,
           flight' = [flight EXCEPT ![u] = f],
           UNCHANGED <<released, captures, datasets>>,
           races \subseteq races', races' \subseteq D!Races,
           FlightKept(u)',
           f.at = "creating" /\ races' \cap {"overlap", "hidden", "retried"} = {} =>
              D!InFlight = {} /\ \A v \in Calls \ {u} : ~D!At(v, "creating"),
           f.at = "readying" =>
              \A d \in DOMAIN datasets : datasets[d].capture = f.capture /\ datasets[d].job = "CREATED"
                                           => d \in f.left
    PROVE  FlightInv'
  <1>1. flight \in [Calls -> Flight] /\ flight' \in [Calls -> Flight]
    BY DEF FlightInv, FlightTypes
  <1>2. FlightTypes'
    BY <1>1 DEF FlightInv, FlightTypes
  <1>3. ASSUME NEW v \in Calls PROVE FlightKept(v)'
    <2>1. CASE v = u
      BY <2>1
    <2>2. CASE v # u
      BY <1>1, <2>2, OtherFlightKept
    <2> QED
      BY <2>1, <2>2
  <1>4. D!InFlight' = D!InFlight
    BY DEF D!InFlight
  <1>5. /\ flight'[u] = f
        /\ \A v \in Calls \ {u} : flight'[v] = flight[v]
    BY <1>1
  <1>6. OneInFlight'
    BY <1>4, <1>5 DEF FlightInv, OneInFlight, D!At
  <1>7. ASSUME NEW v \in Calls PROVE JobsKnown(v)'
    <2>1. CASE v = u
      BY <1>5, <2>1 DEF JobsKnown, D!At
    <2>2. CASE v # u
      <3>1. flight'[v] = flight[v] /\ JobsKnown(v)
        BY <1>5, <2>2 DEF FlightInv
      <3> QED
        BY <3>1 DEF JobsKnown, D!At
    <2> QED
      BY <2>1, <2>2
  <1>8. D!ReadyIsProcessed'
    BY DEF FlightInv, D!ReadyIsProcessed, D!DatasetsOf
  <1> QED
    BY <1>2, <1>3, <1>6, <1>7, <1>8 DEF FlightInv

LEMMA InitFlightInv == D!FlightInit => FlightInv
  <1> SUFFICES ASSUME D!FlightInit PROVE FlightInv
    OBVIOUS
  <1> DEFINE first == [D!Capture(D!Own) EXCEPT !.status = "UPLOADING"]
             set == [D!Dataset(1) EXCEPT !.job = "CREATED"]
  <1>1. /\ flight \in [Calls -> Flight] /\ races = {}
        /\ \A u \in Calls : flight[u] = D!Idle
    BY IdleIsFlight DEF D!FlightInit
  <1>2. first \in DroneCapture /\ first.status = "UPLOADING"
    <2>1. D!Own \in JobSites \cup {D!Own} /\ "UPLOADING" \in {"CREATED", "UPLOADING", "READY", "FAILED"}
      OBVIOUS
    <2>2. D!Capture(D!Own) = [site |-> D!Own, status |-> "CREATED"]
      BY DEF D!Capture
    <2> QED
      BY <2>1, <2>2 DEF DroneCapture
  <1>3. set \in DroneDataset /\ set.capture = 1
    <2>1. D!Dataset(1) = [capture |-> 1, job |-> "NONE", images |-> {}]
      BY DEF D!Dataset
    <2>2. {} \in SUBSET (Calls \X Images)
      OBVIOUS
    <2> QED
      BY <2>1, <2>2 DEF DroneDataset
  <1> HIDE DEF first, set
  <1>4. \/ captures = <<>> /\ datasets = <<>>
        \/ captures = <<first>> /\ datasets = <<set>>
    BY DEF D!FlightInit, first, set
  <1>5. FlightTypes
    <2>1. released \subseteq JobSites /\ races \subseteq D!Races /\ MaxCaptures \in Nat \ {0}
      BY <1>1, FieldAssumption DEF D!FlightInit
    <2>2. /\ captures \in Seq(DroneCapture) /\ Len(captures) <= MaxCaptures
          /\ datasets \in Seq(DroneDataset)
          /\ \A d \in DOMAIN datasets : datasets[d].capture \in DOMAIN captures
      <3>1. CASE captures = <<>> /\ datasets = <<>>
        BY <2>1, <3>1
      <3>2. CASE captures = <<first>> /\ datasets = <<set>>
        <4>1. /\ captures \in Seq(DroneCapture) /\ datasets \in Seq(DroneDataset)
              /\ DOMAIN captures = {1} /\ DOMAIN datasets = {1} /\ Len(captures) = 1
          BY <1>2, <1>3, <3>2
        <4>2. 1 <= MaxCaptures
          BY <2>1
        <4>3. datasets[1].capture = 1
          BY <1>3, <3>2
        <4> QED
          BY <4>1, <4>2, <4>3
      <3> QED
        BY <1>4, <3>1, <3>2
    <2> QED
      BY <1>1, <2>1, <2>2 DEF FlightTypes
  <1>6. \A c, d \in D!InFlight : c = d
    BY <1>4 DEF D!InFlight
  <1>7. D!ReadyIsProcessed
    BY <1>2, <1>4 DEF D!ReadyIsProcessed
  <1>8. \A u \in Calls : FlightKept(u) /\ JobsKnown(u) /\ ~D!At(u, "creating")
    BY <1>1, IdleIsFlight DEF FlightKept, JobsKnown, D!At
  <1> QED
    BY <1>5, <1>6, <1>7, <1>8 DEF FlightInv, OneInFlight

\* A request that begins, or ends without success, has nothing under way.
LEMMA BareRow ==
    ASSUME NEW at \in FlightPlaces,
           NEW where \in JobSites \cup {D!Own}
    PROVE  LET f == [D!Idle EXCEPT !.at = at, !.site = where]
           IN f \in Flight /\ f.at = at /\ f.landed = {} /\ f.left = {} /\ f.batch = {}
  <1> DEFINE f == [D!Idle EXCEPT !.at = at, !.site = where]
  <1>1. f \in Flight
    BY IdleIsFlight, Zenon DEF Flight
  <1> QED
    BY <1>1, IdleIsFlight DEF Flight

LEMMA BareFlightInv ==
    ASSUME FlightInv, NEW u \in Calls, NEW f \in Flight,
           f.at \in {"resolving", "creating", "over"}, f.landed = {}, f.left = {}, f.batch = {},
           flight' = [flight EXCEPT ![u] = f],
           UNCHANGED <<released, captures, datasets>>,
           races \subseteq races', races' \subseteq D!Races,
           f.at = "creating" /\ races' \cap {"overlap", "hidden", "retried"} = {} =>
              D!InFlight = {} /\ \A v \in Calls \ {u} : ~D!At(v, "creating")
    PROVE  FlightInv'
  <1>1. flight'[u] = f
    BY DEF FlightInv, FlightTypes
  <1>2. FlightKept(u)'
    BY <1>1 DEF FlightKept
  <1> QED
    BY <1>2, QuietFlightInv

LEMMA OverFlightInv ==
    ASSUME FlightInv, NEW u \in Calls, D!Over(u),
           UNCHANGED <<released, captures, datasets, races>>
    PROVE  FlightInv'
  <1> DEFINE over == "over"
             f == [D!Idle EXCEPT !.at = over, !.site = flight[u].site]
  <1>1. flight' = [flight EXCEPT ![u] = f] /\ races \subseteq D!Races
    BY DEF D!Over, D!Goes, FlightInv, FlightTypes
  <1>2. flight[u].site \in JobSites \cup {D!Own}
    <2>1. flight[u] \in Flight
      BY DEF FlightInv, FlightTypes
    <2> QED
      BY <2>1 DEF Flight
  <1>3. over \in FlightPlaces
    BY DEF FlightPlaces
  <1>4. f \in Flight /\ f.at = over /\ f.landed = {} /\ f.left = {} /\ f.batch = {}
    BY <1>2, <1>3, BareRow, Zenon
  <1> HIDE DEF f
  <1> QED
    BY <1>1, <1>4, BareFlightInv

LEMMA StartFlightInv ==
    ASSUME FlightInv, NEW u \in Calls,
           D!StartCapture(u) \/ \E s \in JobSites : D!StartUpload(u, s)
    PROVE  FlightInv'
  <1>1. CASE D!StartCapture(u)
    <2> DEFINE f == [D!Idle EXCEPT !.at = "creating"]
    <2>1. /\ flight' = [flight EXCEPT ![u] = f]
          /\ UNCHANGED <<released, captures, datasets>>
      BY <1>1, Zenon DEF D!StartCapture, D!Goes
    <2>2. /\ races \subseteq D!Races
          /\ races' = races \cup (IF \E c \in DOMAIN captures : captures[c].status \notin {"READY", "FAILED"}
                                  THEN {"hidden"} ELSE {})
                            \cup (IF \E v \in Calls \ {u} : D!At(v, "creating") THEN {"overlap"} ELSE {})
      BY <1>1, Zenon DEF D!StartCapture, FlightInv, FlightTypes
    <2>3. races \subseteq races' /\ races' \subseteq D!Races
      BY <2>2 DEF D!Races
    <2>4. races' \cap {"overlap", "hidden", "retried"} = {} =>
              D!InFlight = {} /\ \A v \in Calls \ {u} : ~D!At(v, "creating")
      BY <2>2 DEF D!InFlight
    <2>5. f \in Flight
      <3>1. "creating" \in FlightPlaces
        BY DEF FlightPlaces
      <3> QED
        BY <3>1, IdleIsFlight, Zenon DEF Flight
    <2>6. f.at = "creating" /\ f.landed = {} /\ f.left = {} /\ f.batch = {}
      BY <2>5, IdleIsFlight DEF Flight
    <2> HIDE DEF f
    <2> QED
      BY <2>1, <2>3, <2>4, <2>5, <2>6, BareFlightInv
  <1>2. ASSUME NEW s \in JobSites, D!StartUpload(u, s) PROVE FlightInv'
    <2> DEFINE resolving == "resolving"
               f == [D!Idle EXCEPT !.at = resolving, !.site = s]
    <2>1. /\ flight' = [flight EXCEPT ![u] = f]
          /\ UNCHANGED <<released, captures, datasets, races>>
          /\ races \subseteq D!Races
      BY <1>2, Zenon DEF D!StartUpload, D!Goes, FlightInv, FlightTypes
    <2>2. resolving \in FlightPlaces
      BY DEF FlightPlaces
    <2>3. f \in Flight /\ f.at = resolving /\ f.landed = {} /\ f.left = {} /\ f.batch = {}
      BY <2>2, BareRow, Zenon
    <2> HIDE DEF f
    <2> QED
      BY <2>1, <2>3, BareFlightInv
  <1> QED
    BY <1>1, <1>2

\* An upload is told where to go: a capture in flight, or a new one if there is
\* none.
LEMMA FindTargetInv ==
    ASSUME FlightInv, NEW u \in Calls, D!FindTarget(u)
    PROVE  FlightInv'
  <1>1. /\ flight[u] \in Flight /\ FlightKept(u) /\ flight[u].at = "resolving"
        /\ races \subseteq D!Races /\ UNCHANGED <<released, captures, datasets>>
    BY Zenon DEF D!FindTarget, D!At, FlightInv, FlightTypes
  <1>2. /\ flight[u].landed = {} /\ flight[u].left = {} /\ flight[u].batch = {}
        /\ flight[u].capture \in Nat /\ flight[u].dataset \in Nat
    BY <1>1 DEF FlightKept, Flight
  <1>3. DOMAIN captures \subseteq Nat /\ DOMAIN datasets \subseteq Nat
    BY LenProperties DEF FlightInv, FlightTypes
  <1>4. CASE D!InFlight = {} /\ D!Goes(u, [flight[u] EXCEPT !.at = "creating"])
             /\ D!Notes("overlap", \E v \in Calls \ {u} : D!At(v, "creating"))
    <2> DEFINE f == [flight[u] EXCEPT !.at = "creating"]
    <2>1. flight' = [flight EXCEPT ![u] = f]
      BY <1>4, Zenon DEF D!Goes
    <2>2. races' = races \cup (IF \E v \in Calls \ {u} : D!At(v, "creating") THEN {"overlap"} ELSE {})
      BY <1>4 DEF D!Notes
    <2>3. /\ races \subseteq races' /\ races' \subseteq D!Races
          /\ races' \cap {"overlap", "hidden", "retried"} = {} =>
              D!InFlight = {} /\ \A v \in Calls \ {u} : ~D!At(v, "creating")
      BY <1>1, <1>4, <2>2 DEF D!Races
    <2>4. f \in Flight
      <3>1. "creating" \in FlightPlaces
        BY DEF FlightPlaces
      <3> QED
        BY <1>1, <3>1, Zenon DEF Flight
    <2>5. f.at = "creating" /\ f.landed = {} /\ f.left = {} /\ f.batch = {}
      BY <1>1, <1>2, <2>4 DEF Flight
    <2> HIDE DEF f
    <2> QED
      BY <1>1, <2>1, <2>3, <2>4, <2>5, BareFlightInv
  <1>5. ASSUME NEW c \in D!Newest(D!InFlight), UNCHANGED races,
               \/ D!Goes(u, [flight[u] EXCEPT !.at = "adding", !.capture = c])
               \/ \E d \in D!Newest(D!DatasetsOf(c)) :
                    D!Goes(u, [flight[u] EXCEPT !.at = "sending", !.capture = c, !.dataset = d])
        PROVE  FlightInv'
    <2>1. c \in DOMAIN captures
      BY Zenon DEF D!Newest, D!InFlight
    <2>2. PICK at \in {"adding", "sending"}, d \in Nat :
            /\ flight' = [flight EXCEPT ![u] = [flight[u] EXCEPT !.at = at, !.capture = c, !.dataset = d]]
            /\ at = "sending" => d \in DOMAIN datasets
      <3>1. CASE D!Goes(u, [flight[u] EXCEPT !.at = "adding", !.capture = c])
        <4>1. [flight[u] EXCEPT !.at = "adding", !.capture = c]
                = [flight[u] EXCEPT !.at = "adding", !.capture = c, !.dataset = flight[u].dataset]
          BY <1>1 DEF Flight
        <4> QED
          BY <1>2, <3>1, <4>1, Zenon DEF D!Goes
      <3>2. ASSUME NEW d \in D!Newest(D!DatasetsOf(c)),
                   D!Goes(u, [flight[u] EXCEPT !.at = "sending", !.capture = c, !.dataset = d])
            PROVE  /\ flight' = [flight EXCEPT ![u] = [flight[u] EXCEPT !.at = "sending", !.capture = c, !.dataset = d]]
                   /\ d \in DOMAIN datasets /\ d \in Nat
        BY <1>3, <3>2, Zenon DEF D!Goes, D!Newest, D!DatasetsOf
      <3> QED
        BY <1>5, <3>1, <3>2, Zenon
    <2> DEFINE f == [flight[u] EXCEPT !.at = at, !.capture = c, !.dataset = d]
    <2>3. at \in FlightPlaces /\ c \in Nat
      BY <1>3, <2>1, <2>2 DEF FlightPlaces
    <2>4. /\ f \in Flight /\ f.at = at /\ f.capture = c /\ f.dataset = d
          /\ f.landed = flight[u].landed /\ f.left = flight[u].left /\ f.batch = flight[u].batch
      <3>1. d \in Nat
        BY <2>2
      <3>2. f \in Flight
        BY <1>1, <2>3, <3>1, Zenon DEF Flight
      <3> QED
        BY <1>1, <3>2 DEF Flight
    <2> HIDE DEF f
    <2>5. flight' = [flight EXCEPT ![u] = f] /\ flight'[u] = f
      BY <2>2 DEF f, FlightInv, FlightTypes
    <2>6. FlightKept(u)'
      BY <1>1, <1>2, <2>1, <2>2, <2>4, <2>5 DEF FlightKept
    <2>7. f.at # "creating" /\ f.at # "readying"
      BY <2>2, <2>4
    <2>8. races \subseteq races' /\ races' \subseteq D!Races
      BY <1>1, <1>5, Zenon
    <2> QED
      BY <1>1, <2>4, <2>5, <2>6, <2>7, <2>8, QuietFlightInv
  <1> QED
    BY <1>4, <1>5, Zenon DEF D!FindTarget

LEMMA PickFlightInv ==
    ASSUME FlightInv, NEW u \in Calls,
           \/ \E d \in DOMAIN datasets : D!PickDataset(u, d)
           \/ \E c \in DOMAIN captures : D!ReadJobs(u, c)
    PROVE  FlightInv'
  <1>1. /\ UNCHANGED <<released, captures, datasets>>
        /\ races \subseteq races' /\ races' \subseteq D!Races
    BY Zenon DEF D!PickDataset, D!ReadJobs, FlightInv, FlightTypes
  <1>2. DOMAIN captures \subseteq Nat /\ DOMAIN datasets \subseteq Nat
    BY LenProperties DEF FlightInv, FlightTypes
  <1>3. ASSUME NEW d \in DOMAIN datasets, D!PickDataset(u, d) PROVE FlightInv'
    <2> DEFINE f == [D!Idle EXCEPT !.at = "sending", !.capture = datasets[d].capture, !.dataset = d]
    <2>1. flight' = [flight EXCEPT ![u] = f]
      BY <1>3, Zenon DEF D!PickDataset, D!Goes
    <2>2. datasets[d].capture \in DOMAIN captures /\ datasets[d].capture \in Nat /\ d \in Nat
      BY <1>2 DEF FlightInv, FlightTypes
    <2>3. f \in Flight
      <3>1. "sending" \in FlightPlaces
        BY DEF FlightPlaces
      <3> QED
        BY <2>2, <3>1, IdleIsFlight, Zenon DEF Flight
    <2>4. /\ f.at = "sending" /\ f.capture = datasets[d].capture /\ f.dataset = d
          /\ f.landed = {} /\ f.left = {} /\ f.batch = {}
      BY <2>3, IdleIsFlight DEF Flight
    <2> HIDE DEF f
    <2>5. flight'[u] = f
      BY <2>1 DEF FlightInv, FlightTypes
    <2>6. FlightKept(u)'
      BY <1>1, <2>2, <2>4, <2>5 DEF FlightKept
    <2> QED
      BY <1>1, <2>1, <2>3, <2>4, <2>6, QuietFlightInv
  <1>4. ASSUME NEW c \in DOMAIN captures, D!ReadJobs(u, c) PROVE FlightInv'
    <2> DEFINE f == [D!Idle EXCEPT !.at = "readying", !.capture = c, !.left = D!JobsOf(c)]
    <2>1. flight' = [flight EXCEPT ![u] = f]
      BY <1>4, Zenon DEF D!ReadJobs, D!Goes
    <2>2. D!JobsOf(c) \in SUBSET (Images \cup Nat) /\ c \in Nat
      BY <1>2 DEF D!JobsOf, D!DatasetsOf
    <2>3. f \in Flight
      <3>1. "readying" \in FlightPlaces
        BY DEF FlightPlaces
      <3> QED
        BY <2>2, <3>1, IdleIsFlight, Zenon DEF Flight
    <2>4. /\ f.at = "readying" /\ f.capture = c /\ f.left = D!JobsOf(c)
          /\ f.landed = {} /\ f.batch = {}
      BY <2>3, IdleIsFlight DEF Flight
    <2> HIDE DEF f
    <2>5. flight'[u] = f
      BY <2>1 DEF FlightInv, FlightTypes
    <2>6. FlightKept(u)'
      BY <1>1, <2>4, <2>5 DEF FlightKept
    <2>7. \A d \in DOMAIN datasets : datasets[d].capture = c /\ datasets[d].job = "CREATED"
                                       => d \in D!JobsOf(c)
      BY DEF D!JobsOf, D!DatasetsOf
    <2> QED
      BY <1>1, <2>1, <2>3, <2>4, <2>6, <2>7, QuietFlightInv
  <1> QED
    BY <1>3, <1>4

\* Files land, and their registration is cut into chunks.
LEMMA BatchFlightInv ==
    ASSUME FlightInv, NEW u \in Calls, NEW some \in SUBSET Images,
           D!Land(u, some) \/ D!BeginBatch(u, some)
    PROVE  FlightInv'
  <1>1. /\ UNCHANGED <<released, captures, datasets>> /\ UNCHANGED races
        /\ races \subseteq races' /\ races' \subseteq D!Races
        /\ flight[u] \in Flight /\ FlightKept(u)
    BY Zenon DEF D!Land, D!BeginBatch, FlightInv, FlightTypes
  <1>2. "landed" \in FlightPlaces /\ "registering" \in FlightPlaces
        /\ some \in SUBSET (Images \cup Nat)
    BY DEF FlightPlaces
  <1>3. CASE D!Land(u, some)
    <2> DEFINE f == [flight[u] EXCEPT !.at = "landed", !.landed = some, !.left = some]
    <2>1. flight' = [flight EXCEPT ![u] = f] /\ flight[u].at = "sending"
      BY <1>3, Zenon DEF D!Land, D!Goes, D!At
    <2>2. f \in Flight
      BY <1>1, <1>2, Zenon DEF Flight
    <2>3. /\ f.at = "landed" /\ f.capture = flight[u].capture /\ f.dataset = flight[u].dataset
          /\ f.landed = some /\ f.left = some /\ f.batch = flight[u].batch
      BY <1>1, <2>2 DEF Flight
    <2> HIDE DEF f
    <2>4. flight'[u] = f
      BY <2>1 DEF FlightInv, FlightTypes
    <2>5. FlightKept(u)'
      BY <1>1, <2>1, <2>3, <2>4 DEF FlightKept
    <2> QED
      BY <1>1, <2>1, <2>2, <2>3, <2>5, QuietFlightInv
  <1>4. CASE D!BeginBatch(u, some) /\ D!Reaches(flight[u].site)
    <2> DEFINE f == [flight[u] EXCEPT !.at = "registering", !.batch = some, !.left = D!Rest(u, some)]
    <2>1. /\ flight' = [flight EXCEPT ![u] = f] /\ flight[u].at = "landed"
          /\ some \subseteq flight[u].left
      BY <1>4, Zenon DEF D!BeginBatch, D!Goes, D!At
    <2>2. f \in Flight
      <3>1. D!Rest(u, some) \in SUBSET (Images \cup Nat)
        BY <1>1 DEF D!Rest, Flight
      <3> QED
        BY <1>1, <1>2, <3>1, Zenon DEF Flight
    <2>3. /\ f.at = "registering" /\ f.capture = flight[u].capture /\ f.dataset = flight[u].dataset
          /\ f.landed = flight[u].landed /\ f.left = flight[u].left \ some /\ f.batch = some
      BY <1>1, <2>2 DEF Flight, D!Rest
    <2> HIDE DEF f
    <2>4. flight'[u] = f
      BY <2>1 DEF FlightInv, FlightTypes
    <2>5. FlightKept(u)'
      BY <1>1, <2>1, <2>3, <2>4 DEF FlightKept
    <2> QED
      BY <1>1, <2>1, <2>2, <2>3, <2>5, QuietFlightInv
  <1>5. CASE D!BeginBatch(u, some) /\ ~D!Reaches(flight[u].site)
    <2>1. D!Over(u)
      BY <1>5, Zenon DEF D!BeginBatch
    <2> QED
      BY <1>1, <2>1, OverFlightInv
  <1> QED
    BY <1>3, <1>4, <1>5

------------------------------------------------------------------------------
(* Steps that write. *)

\* Rows are added, or change their status, and one request goes on.
LEMMA RowsFlightInv ==
    ASSUME FlightInv, NEW u \in Calls, NEW f \in Flight, flight' = [flight EXCEPT ![u] = f],
           released' = released, races \subseteq races', races' \subseteq D!Races,
           captures' \in Seq(DroneCapture), Len(captures') <= MaxCaptures,
           datasets' \in Seq(DroneDataset),
           DOMAIN captures \subseteq DOMAIN captures', DOMAIN datasets \subseteq DOMAIN datasets',
           \A d \in DOMAIN datasets' : datasets'[d].capture \in DOMAIN captures',
           \A d \in DOMAIN datasets : /\ datasets'[d].capture = datasets[d].capture
                                      /\ datasets[d].images \subseteq datasets'[d].images,
           FlightKept(u)', OneInFlight', D!ReadyIsProcessed',
           \A v \in Calls : JobsKnown(v)'
    PROVE  FlightInv'
  <1>1. flight' \in [Calls -> Flight] /\ \A v \in Calls \ {u} : flight'[v] = flight[v]
    BY DEF FlightInv, FlightTypes
  <1>2. FlightTypes'
    BY <1>1 DEF FlightInv, FlightTypes
  <1>3. ASSUME NEW v \in Calls PROVE FlightKept(v)'
    <2>1. CASE v = u
      BY <2>1
    <2>2. CASE v # u
      BY <1>1, <2>2, OtherFlightKept
    <2> QED
      BY <2>1, <2>2
  <1> QED
    BY <1>2, <1>3 DEF FlightInv

\* The status of one capture changes.
LEMMA CaptureChanges ==
    ASSUME FlightInv, NEW c \in DOMAIN captures, NEW now \in {"CREATED", "UPLOADING", "READY", "FAILED"},
           captures' = [captures EXCEPT ![c].status = now]
    PROVE  /\ captures' \in Seq(DroneCapture) /\ DOMAIN captures' = DOMAIN captures
           /\ Len(captures') <= MaxCaptures
           /\ captures'[c].status = now
           /\ \A b \in DOMAIN captures \ {c} : captures'[b] = captures[b]
  <1>1. /\ captures \in Seq(DroneCapture) /\ Len(captures) <= MaxCaptures
        /\ captures[c] \in DroneCapture
    BY DEF FlightInv, FlightTypes
  <1>2. [captures[c] EXCEPT !.status = now] \in DroneCapture
    BY <1>1, Zenon DEF DroneCapture
  <1>3. captures' = [captures EXCEPT ![c] = [captures[c] EXCEPT !.status = now]]
    OBVIOUS
  <1>4. [captures[c] EXCEPT !.status = now].status = now
    BY <1>1 DEF DroneCapture
  <1> DEFINE row == [captures[c] EXCEPT !.status = now]
  <1> HIDE DEF row
  <1>5. captures' = [captures EXCEPT ![c] = row] /\ row \in DroneCapture /\ row.status = now
    BY <1>2, <1>3, <1>4 DEF row
  <1>6. captures' \in Seq(DroneCapture) /\ Len(captures') = Len(captures)
    BY <1>1, <1>5, ExceptSeq
  <1> QED
    BY <1>1, <1>5, <1>6, LenProperties

\* A dataset gets a job, or an image.
LEMMA DatasetChanges ==
    ASSUME FlightInv, NEW d \in DOMAIN datasets, NEW set \in DroneDataset,
           set.capture = datasets[d].capture,
           datasets' = [datasets EXCEPT ![d] = set]
    PROVE  /\ datasets' \in Seq(DroneDataset) /\ DOMAIN datasets' = DOMAIN datasets
           /\ datasets'[d] = set
           /\ \A e \in DOMAIN datasets \ {d} : datasets'[e] = datasets[e]
           /\ \A e \in DOMAIN datasets' : datasets'[e].capture = datasets[e].capture
           /\ \A e \in DOMAIN datasets' : datasets'[e].capture \in DOMAIN captures
  <1>1. /\ datasets \in Seq(DroneDataset)
        /\ \A e \in DOMAIN datasets : datasets[e].capture \in DOMAIN captures
    BY DEF FlightInv, FlightTypes
  <1>2. datasets' \in Seq(DroneDataset) /\ Len(datasets') = Len(datasets)
    BY <1>1, ExceptSeq
  <1> QED
    BY <1>1, <1>2, LenProperties

LEMMA CreateCaptureInv ==
    ASSUME FlightInv, NEW u \in Calls, D!CreateDroneCapture(u)
    PROVE  FlightInv'
  <1>1. /\ flight[u] \in Flight /\ FlightKept(u) /\ flight[u].at = "creating"
        /\ captures \in Seq(DroneCapture) /\ datasets \in Seq(DroneDataset)
        /\ races \subseteq D!Races
        /\ UNCHANGED <<released, datasets>> /\ UNCHANGED races
    BY Zenon DEF D!CreateDroneCapture, D!At, FlightInv, FlightTypes
  <1>2. CASE ~D!Reaches(flight[u].site)
    <2>1. D!Over(u) /\ UNCHANGED captures
      BY <1>2, Zenon DEF D!CreateDroneCapture
    <2> QED
      BY <1>1, <2>1, OverFlightInv
  <1>3. CASE D!Reaches(flight[u].site)
    <2> DEFINE f == [flight[u] EXCEPT !.at = "adding", !.capture = Len(captures) + 1]
               new == D!Capture(flight[u].site)
    <2>1. /\ flight' = [flight EXCEPT ![u] = f] /\ captures' = Append(captures, new)
          /\ Len(captures) < MaxCaptures
      BY <1>3, Zenon DEF D!CreateDroneCapture, D!Goes
    <2>2. /\ Len(captures) + 1 \in Nat /\ DOMAIN captures = 1 .. Len(captures) /\ Len(captures) \in Nat
          /\ MaxCaptures \in Nat
      BY <1>1, LenProperties, FieldAssumption
    <2>3. f \in Flight
      <3>1. "adding" \in FlightPlaces
        BY DEF FlightPlaces
      <3> QED
        BY <1>1, <2>2, <3>1, Zenon DEF Flight
    <2>4. /\ f.at = "adding" /\ f.capture = Len(captures) + 1
          /\ f.landed = flight[u].landed /\ f.left = flight[u].left /\ f.batch = flight[u].batch
      BY <1>1, <2>3 DEF Flight
    <2>5. new \in DroneCapture /\ new.status = "CREATED"
      BY <1>1 DEF D!Capture, DroneCapture, Flight
    <2> HIDE DEF f, new
    <2>6. /\ captures' \in Seq(DroneCapture) /\ DOMAIN captures' = 1 .. (Len(captures) + 1)
          /\ Len(captures') = Len(captures) + 1
          /\ captures'[Len(captures) + 1] = new
          /\ \A c \in DOMAIN captures : captures'[c] = captures[c]
      BY <1>1, <2>1, <2>2, <2>5, AppendProperties, LenProperties
    <2>7. /\ DOMAIN captures \subseteq DOMAIN captures' /\ Len(captures) + 1 \in DOMAIN captures'
          /\ \A c \in DOMAIN captures' : c \in DOMAIN captures \/ c = Len(captures) + 1
          /\ Len(captures') <= MaxCaptures
      BY <2>1, <2>2, <2>6
    <2>8. flight'[u] = f /\ \A v \in Calls \ {u} : flight'[v] = flight[v]
      BY <2>1 DEF FlightInv, FlightTypes
    <2>9. FlightKept(u)'
      BY <1>1, <2>4, <2>7, <2>8 DEF FlightKept
    <2>10. OneInFlight'
      <3> SUFFICES ASSUME races \cap {"overlap", "hidden", "retried"} = {}
                   PROVE  /\ \A c, d \in D!InFlight' : c = d
                          /\ \A v \in Calls : ~D!At(v, "creating")'
        BY <1>1 DEF OneInFlight
      <3>1. D!InFlight = {} /\ \A v \in Calls \ {u} : ~D!At(v, "creating")
        BY <1>1 DEF FlightInv, OneInFlight, D!At
      <3>2. \A c \in D!InFlight' : c = Len(captures) + 1
        BY <2>6, <2>7, <3>1 DEF D!InFlight
      <3> QED
        BY <2>4, <2>8, <3>1, <3>2 DEF D!At
    <2>11. \A d \in DOMAIN datasets : datasets[d].capture \in DOMAIN captures
      BY DEF FlightInv, FlightTypes
    <2>12. D!ReadyIsProcessed'
      <3> SUFFICES ASSUME races \cap {"late", "retried"} = {},
                          NEW c \in DOMAIN captures', captures'[c].status = "READY",
                          NEW d \in DOMAIN datasets, datasets[d].capture = c
                   PROVE  datasets[d].job # "CREATED"
        BY <1>1 DEF D!ReadyIsProcessed, D!DatasetsOf
      <3>1. c \in DOMAIN captures /\ captures[c].status = "READY"
        BY <2>6, <2>11
      <3> QED
        BY <3>1 DEF FlightInv, D!ReadyIsProcessed, D!DatasetsOf
    <2>13. \A v \in Calls : JobsKnown(v)'
      BY <1>1, <2>4, <2>8 DEF FlightInv, JobsKnown, D!At
    <2>14. \A d \in DOMAIN datasets' : datasets'[d].capture \in DOMAIN captures'
      BY <1>1, <2>7, <2>11
    <2>15. \A d \in DOMAIN datasets : /\ datasets'[d].capture = datasets[d].capture
                                      /\ datasets[d].images \subseteq datasets'[d].images
      BY <1>1
    <2> QED
      BY <1>1, <2>1, <2>3, <2>6, <2>7, <2>9, <2>10, <2>12, <2>13, <2>14, <2>15, RowsFlightInv
  <1> QED
    BY <1>2, <1>3

\* A capture that is at its end and comes back is noted.
LEMMA MarkUploadingInv ==
    ASSUME FlightInv, NEW u \in Calls, D!MarkUploading(u)
    PROVE  FlightInv'
  <1>1. /\ flight[u] \in Flight /\ FlightKept(u) /\ flight[u].at = "adding"
        /\ datasets \in Seq(DroneDataset) /\ races \subseteq D!Races
        /\ UNCHANGED <<released, datasets>>
    BY Zenon DEF D!MarkUploading, D!At, FlightInv, FlightTypes
  <1>2. CASE ~D!Reaches(flight[u].site)
    <2>1. D!Over(u) /\ UNCHANGED <<captures, races>>
      BY <1>2, Zenon DEF D!MarkUploading
    <2> QED
      BY <1>1, <2>1, OverFlightInv
  <1>3. CASE D!Reaches(flight[u].site)
    <2> DEFINE f == [flight[u] EXCEPT !.at = "marked"]
               c == flight[u].capture
    <2>1. /\ flight' = [flight EXCEPT ![u] = f] /\ captures' = [captures EXCEPT ![c].status = "UPLOADING"]
          /\ races' = races \cup (IF captures[c].status \in {"READY", "FAILED"} THEN {"retried"} ELSE {})
      BY <1>3, Zenon DEF D!MarkUploading, D!Goes, D!Notes
    <2>2. c \in DOMAIN captures
      BY <1>1 DEF FlightKept
    <2>3. races \subseteq races' /\ races' \subseteq D!Races
      BY <1>1, <2>1 DEF D!Races
    <2>4. f \in Flight
      <3>1. "marked" \in FlightPlaces
        BY DEF FlightPlaces
      <3> QED
        BY <1>1, <3>1, Zenon DEF Flight
    <2>5. /\ f.at = "marked" /\ f.capture = c
          /\ f.landed = flight[u].landed /\ f.left = flight[u].left /\ f.batch = flight[u].batch
      BY <1>1, <2>4 DEF Flight
    <2>6. /\ captures' \in Seq(DroneCapture) /\ DOMAIN captures' = DOMAIN captures
          /\ Len(captures') <= MaxCaptures
          /\ captures'[c].status = "UPLOADING"
          /\ \A b \in DOMAIN captures \ {c} : captures'[b] = captures[b]
      BY <2>1, <2>2, CaptureChanges
    <2>7. captures[c].status \in {"CREATED", "UPLOADING", "READY", "FAILED"}
      <3>1. captures[c] \in DroneCapture
        BY <2>2 DEF FlightInv, FlightTypes
      <3> QED
        BY <3>1 DEF DroneCapture
    <2> HIDE DEF f, c
    <2>8. flight'[u] = f /\ \A v \in Calls \ {u} : flight'[v] = flight[v]
      BY <2>1 DEF FlightInv, FlightTypes
    <2>9. FlightKept(u)'
      BY <1>1, <2>2, <2>5, <2>6, <2>8 DEF FlightKept
    <2>10. OneInFlight'
      <3> SUFFICES ASSUME races' \cap {"overlap", "hidden", "retried"} = {}
                   PROVE  /\ D!InFlight' = D!InFlight
                          /\ \A v \in Calls : D!At(v, "creating")' => D!At(v, "creating")
        <4> SUFFICES ASSUME races' \cap {"overlap", "hidden", "retried"} = {}
                     PROVE  /\ \A x, y \in D!InFlight' : x = y
                            /\ \A x, y \in Calls : D!At(x, "creating")' /\ D!At(y, "creating")' => x = y
                            /\ \A x \in Calls : D!At(x, "creating")' => D!InFlight' = {}
          BY DEF OneInFlight
        <4>1. races \cap {"overlap", "hidden", "retried"} = {}
          BY <2>3
        <4> QED
          BY <4>1 DEF FlightInv, OneInFlight
      <3>1. captures[c].status \notin {"READY", "FAILED"}
        BY <2>1
      <3>2. D!InFlight' = D!InFlight
        BY <2>2, <2>6, <2>7, <3>1 DEF D!InFlight
      <3> QED
        BY <2>5, <2>8, <3>2 DEF D!At
    <2>11. D!ReadyIsProcessed'
      BY <1>1, <2>3, <2>6 DEF FlightInv, D!ReadyIsProcessed, D!DatasetsOf
    <2>12. \A v \in Calls : JobsKnown(v)'
      BY <1>1, <2>3, <2>5, <2>8 DEF FlightInv, JobsKnown, D!At
    <2>13. \A d \in DOMAIN datasets' : datasets'[d].capture \in DOMAIN captures'
      BY <1>1, <2>6 DEF FlightInv, FlightTypes
    <2>14. \A d \in DOMAIN datasets : /\ datasets'[d].capture = datasets[d].capture
                                      /\ datasets[d].images \subseteq datasets'[d].images
      BY <1>1
    <2> QED
      BY <1>1, <2>1, <2>3, <2>4, <2>6, <2>9, <2>10, <2>11, <2>12, <2>13, <2>14, RowsFlightInv
  <1> QED
    BY <1>2, <1>3

\* A dataset has no job at first.
LEMMA AddDatasetInv ==
    ASSUME FlightInv, NEW u \in Calls, D!AddDataset(u)
    PROVE  FlightInv'
  <1> DEFINE c == flight[u].capture
             new == D!Dataset(c)
             n == Len(datasets) + 1
             f == [flight[u] EXCEPT !.at = "added", !.dataset = n]
  <1>1. /\ flight[u] \in Flight /\ FlightKept(u) /\ flight[u].at = "marked"
        /\ captures \in Seq(DroneCapture) /\ Len(captures) <= MaxCaptures
        /\ datasets \in Seq(DroneDataset) /\ races \subseteq D!Races
        /\ UNCHANGED <<released, captures>> /\ UNCHANGED races
        /\ flight' = [flight EXCEPT ![u] = f] /\ datasets' = Append(datasets, new)
    BY Zenon DEF D!AddDataset, D!At, D!Goes, FlightInv, FlightTypes
  <1>2. n \in Nat /\ DOMAIN datasets = 1 .. Len(datasets) /\ Len(datasets) \in Nat
    BY <1>1, LenProperties
  <1>3. c \in DOMAIN captures /\ c \in Nat
    BY <1>1 DEF FlightKept, Flight
  <1>4. f \in Flight
    <2>1. "added" \in FlightPlaces
      BY DEF FlightPlaces
    <2> QED
      BY <1>1, <1>2, <2>1, Zenon DEF Flight
  <1>5. /\ f.at = "added" /\ f.capture = c /\ f.dataset = n
        /\ f.landed = flight[u].landed /\ f.left = flight[u].left /\ f.batch = flight[u].batch
    BY <1>1, <1>4 DEF Flight
  <1>6. new \in DroneDataset /\ new.capture = c /\ new.job = "NONE"
    BY <1>3 DEF D!Dataset, DroneDataset
  <1> HIDE DEF f, new
  <1>7. /\ datasets' \in Seq(DroneDataset) /\ DOMAIN datasets' = 1 .. n /\ datasets'[n] = new
        /\ \A d \in DOMAIN datasets : datasets'[d] = datasets[d]
    BY <1>1, <1>2, <1>6, AppendProperties, LenProperties
  <1>8. /\ DOMAIN datasets \subseteq DOMAIN datasets' /\ n \in DOMAIN datasets'
        /\ \A d \in DOMAIN datasets' : d \in DOMAIN datasets \/ d = n
    BY <1>2, <1>7
  <1> HIDE DEF n, c
  <1>9. flight'[u] = f /\ \A v \in Calls \ {u} : flight'[v] = flight[v]
    BY <1>1 DEF FlightInv, FlightTypes
  <1>10. FlightKept(u)'
    BY <1>1, <1>3, <1>5, <1>6, <1>7, <1>8, <1>9 DEF FlightKept
  <1>11. OneInFlight'
    <2>1. D!InFlight' = D!InFlight
      BY <1>1 DEF D!InFlight
    <2> QED
      BY <1>1, <1>5, <1>9, <2>1 DEF FlightInv, OneInFlight, D!At
  <1>12. D!ReadyIsProcessed'
    BY <1>1, <1>6, <1>7, <1>8 DEF FlightInv, D!ReadyIsProcessed, D!DatasetsOf
  <1>13. \A v \in Calls : JobsKnown(v)'
    BY <1>1, <1>5, <1>6, <1>7, <1>8, <1>9 DEF FlightInv, JobsKnown, D!At
  <1>14. \A d \in DOMAIN datasets' : datasets'[d].capture \in DOMAIN captures'
    BY <1>1, <1>3, <1>6, <1>7, <1>8 DEF FlightInv, FlightTypes
  <1>15. \A d \in DOMAIN datasets : /\ datasets'[d].capture = datasets[d].capture
                                    /\ datasets[d].images \subseteq datasets'[d].images
    BY <1>7
  <1> QED
    BY <1>1, <1>4, <1>7, <1>8, <1>10, <1>11, <1>12, <1>13, <1>14, <1>15, RowsFlightInv

\* A job made behind the back of a call that finishes its capture is noted.
LEMMA CreateJobInv ==
    ASSUME FlightInv, NEW u \in Calls, D!CreateJob(u)
    PROVE  FlightInv'
  <1> DEFINE c == flight[u].capture
             d == flight[u].dataset
             set == [datasets[d] EXCEPT !.job = "CREATED"]
             after == IF flight[u].site = D!Own THEN "done" ELSE "sending"
             f == [flight[u] EXCEPT !.at = after]
             behind == \/ captures[c].status = "READY"
                       \/ \E v \in Calls : D!At(v, "readying") /\ flight[v].capture = c
  <1>1. /\ flight[u] \in Flight /\ FlightKept(u) /\ flight[u].at = "added"
        /\ captures \in Seq(DroneCapture) /\ Len(captures) <= MaxCaptures
        /\ datasets \in Seq(DroneDataset) /\ races \subseteq D!Races
        /\ UNCHANGED <<released, captures>>
        /\ flight' = [flight EXCEPT ![u] = f]
        /\ datasets' = [datasets EXCEPT ![d].job = "CREATED"]
        /\ races' = races \cup (IF behind THEN {"late"} ELSE {})
    BY Zenon DEF D!CreateJob, D!At, D!Goes, D!Notes, FlightInv, FlightTypes
  <1>2. c \in DOMAIN captures /\ d \in DOMAIN datasets /\ datasets[d].capture = c
    BY <1>1 DEF FlightKept
  <1>3. f \in Flight
    <2>1. after \in FlightPlaces
      BY DEF FlightPlaces
    <2> QED
      BY <1>1, <2>1, Zenon DEF Flight
  <1>4. /\ f.at = after /\ f.capture = c /\ f.dataset = d /\ after \in {"done", "sending"}
        /\ f.landed = flight[u].landed /\ f.left = flight[u].left /\ f.batch = flight[u].batch
    BY <1>1, <1>3 DEF Flight
  <1>5. /\ set \in DroneDataset /\ set.capture = c /\ set.job = "CREATED"
        /\ set.images = datasets[d].images
    <2>1. datasets[d] \in DroneDataset
      BY <1>1, <1>2
    <2>2. set \in DroneDataset
      BY <2>1, Zenon DEF DroneDataset
    <2> QED
      BY <1>2, <2>1, <2>2 DEF DroneDataset
  <1>6. datasets' = [datasets EXCEPT ![d] = set]
    BY <1>1
  <1> HIDE DEF f, set, after
  <1>7. /\ datasets' \in Seq(DroneDataset) /\ DOMAIN datasets' = DOMAIN datasets
        /\ datasets'[d] = set
        /\ \A e \in DOMAIN datasets \ {d} : datasets'[e] = datasets[e]
        /\ \A e \in DOMAIN datasets' : datasets'[e].capture = datasets[e].capture
        /\ \A e \in DOMAIN datasets' : datasets'[e].capture \in DOMAIN captures
    BY <1>2, <1>5, <1>6, DatasetChanges
  <1>8. races \subseteq races' /\ races' \subseteq D!Races /\ ("late" \notin races' => ~behind)
    BY <1>1 DEF D!Races
  <1>9. flight'[u] = f /\ \A v \in Calls \ {u} : flight'[v] = flight[v]
    BY <1>1 DEF FlightInv, FlightTypes
  <1> HIDE DEF c, d
  <1>10. FlightKept(u)'
    BY <1>1, <1>2, <1>4, <1>7, <1>9 DEF FlightKept
  <1>11. OneInFlight'
    <2>1. D!InFlight' = D!InFlight
      BY <1>1 DEF D!InFlight
    <2>2. \A v \in Calls : D!At(v, "creating")' => D!At(v, "creating")
      BY <1>4, <1>9 DEF D!At
    <2>3. races' \cap {"overlap", "hidden", "retried"} = {} => races \cap {"overlap", "hidden", "retried"} = {}
      BY <1>8
    <2> QED
      BY <2>1, <2>2, <2>3 DEF FlightInv, OneInFlight
  <1>12. D!ReadyIsProcessed'
    <2> SUFFICES ASSUME races' \cap {"late", "retried"} = {},
                        NEW b \in DOMAIN captures, captures[b].status = "READY",
                        NEW e \in DOMAIN datasets', datasets'[e].capture = b
                 PROVE  datasets'[e].job # "CREATED"
      BY <1>1 DEF D!ReadyIsProcessed, D!DatasetsOf
    <2>1. races \cap {"late", "retried"} = {} /\ ~behind
      BY <1>8
    <2>2. b # c /\ e # d
      BY <1>2, <1>7, <2>1
    <2> QED
      BY <1>7, <2>1, <2>2 DEF FlightInv, D!ReadyIsProcessed, D!DatasetsOf
  <1>13. ASSUME NEW v \in Calls PROVE JobsKnown(v)'
    <2> SUFFICES ASSUME races' \cap {"late", "retried"} = {}, D!At(v, "readying")',
                        NEW e \in DOMAIN datasets', datasets'[e].capture = flight'[v].capture,
                        datasets'[e].job = "CREATED"
                 PROVE  e \in flight'[v].left
      BY DEF JobsKnown
    <2>1. races \cap {"late", "retried"} = {} /\ ~behind
      BY <1>8
    <2>2. v # u /\ flight'[v] = flight[v] /\ D!At(v, "readying")
      BY <1>4, <1>9 DEF D!At
    <2>3. flight[v].capture # c
      BY <2>1, <2>2
    <2>4. e # d
      BY <1>2, <1>7, <2>2, <2>3
    <2> QED
      BY <1>7, <2>1, <2>2, <2>4 DEF FlightInv, JobsKnown
  <1>14. \A e \in DOMAIN datasets : /\ datasets'[e].capture = datasets[e].capture
                                    /\ datasets[e].images \subseteq datasets'[e].images
    BY <1>5, <1>7
  <1>15. \A e \in DOMAIN datasets' : datasets'[e].capture \in DOMAIN captures'
    BY <1>1, <1>7
  <1> QED
    BY <1>1, <1>3, <1>7, <1>8, <1>10, <1>11, <1>12, <1>13, <1>14, <1>15, RowsFlightInv

\* An image that is registered is there, and only then is it off the list.
LEMMA RegisterImageInv ==
    ASSUME FlightInv, NEW u \in Calls, NEW file \in Images, D!RegisterImage(u, file)
    PROVE  FlightInv'
  <1> DEFINE d == flight[u].dataset
             set == [datasets[d] EXCEPT !.images = @ \cup {<<u, file>>}]
             rest == flight[u].batch \ {file}
             after == IF flight[u].batch # {file} THEN "registering"
                      ELSE IF flight[u].left # {} THEN "landed" ELSE "done"
             f == [flight[u] EXCEPT !.batch = @ \ {file}, !.at = after]
  <1>1. /\ flight[u] \in Flight /\ FlightKept(u) /\ flight[u].at = "registering"
        /\ file \in flight[u].batch
        /\ captures \in Seq(DroneCapture) /\ Len(captures) <= MaxCaptures
        /\ datasets \in Seq(DroneDataset) /\ races \subseteq D!Races
        /\ UNCHANGED <<released, captures>> /\ UNCHANGED races
        /\ flight' = [flight EXCEPT ![u] = f]
        /\ datasets' = [datasets EXCEPT ![d].images = @ \cup {<<u, file>>}]
    BY Zenon DEF D!RegisterImage, D!At, D!Goes, FlightInv, FlightTypes
  <1>2. d \in DOMAIN datasets
    BY <1>1 DEF FlightKept
  <1>5. /\ after \in {"registering", "landed", "done"}
        /\ after # "registering" => rest = {}
        /\ after = "done" => flight[u].left = {}
    OBVIOUS
  <1> HIDE DEF after
  <1>3. f \in Flight
    <2>1. after \in FlightPlaces
      BY <1>5 DEF FlightPlaces
    <2>2. rest \in SUBSET Images
      BY <1>1 DEF Flight
    <2> QED
      BY <1>1, <2>1, <2>2, Zenon DEF Flight
  <1>4. /\ f.at = after /\ f.capture = flight[u].capture /\ f.dataset = d
        /\ f.landed = flight[u].landed /\ f.left = flight[u].left /\ f.batch = rest
    BY <1>1, <1>3 DEF Flight
  <1>6. /\ set \in DroneDataset /\ set.capture = datasets[d].capture /\ set.job = datasets[d].job
        /\ set.images = datasets[d].images \cup {<<u, file>>}
    <2>1. datasets[d] \in DroneDataset
      BY <1>1, <1>2
    <2>2. datasets[d].images \cup {<<u, file>>} \in SUBSET (Calls \X Images)
      BY <2>1 DEF DroneDataset
    <2>3. set \in DroneDataset
      BY <2>1, <2>2, Zenon DEF DroneDataset
    <2> QED
      BY <2>1, <2>3 DEF DroneDataset
  <1>7. datasets' = [datasets EXCEPT ![d] = set]
    BY <1>1
  <1> HIDE DEF f, set
  <1>8. /\ datasets' \in Seq(DroneDataset) /\ DOMAIN datasets' = DOMAIN datasets
        /\ datasets'[d] = set
        /\ \A e \in DOMAIN datasets \ {d} : datasets'[e] = datasets[e]
        /\ \A e \in DOMAIN datasets' : datasets'[e].capture = datasets[e].capture
        /\ \A e \in DOMAIN datasets' : datasets'[e].capture \in DOMAIN captures
    BY <1>2, <1>6, <1>7, DatasetChanges
  <1>9. flight'[u] = f /\ \A v \in Calls \ {u} : flight'[v] = flight[v]
    BY <1>1 DEF FlightInv, FlightTypes
  <1> HIDE DEF d, rest
  <1>10. \A e \in DOMAIN datasets : /\ datasets'[e].capture = datasets[e].capture
                                    /\ datasets[e].images \subseteq datasets'[e].images
                                    /\ datasets'[e].job = datasets[e].job
    BY <1>6, <1>8
  <1>11. FlightKept(u)'
    <2>1. \A x \in f.landed \ (f.left \cup f.batch) : <<u, x>> \in datasets'[d].images
      <3> SUFFICES ASSUME NEW x \in f.landed \ (f.left \cup f.batch)
                   PROVE  <<u, x>> \in datasets'[d].images
        OBVIOUS
      <3>1. CASE x = file
        BY <1>6, <1>8, <3>1
      <3>2. CASE x # file
        <4>1. x \in flight[u].landed \ (flight[u].left \cup flight[u].batch)
          BY <1>4, <3>2 DEF rest
        <4>2. <<u, x>> \in datasets[d].images
          BY <1>1, <4>1 DEF FlightKept, d
        <4> QED
          BY <1>2, <1>10, <4>2
      <3> QED
        BY <3>1, <3>2
    <2> QED
      BY <1>1, <1>2, <1>4, <1>5, <1>8, <1>9, <2>1 DEF FlightKept
  <1>12. OneInFlight'
    <2>1. D!InFlight' = D!InFlight
      BY <1>1 DEF D!InFlight
    <2> QED
      BY <1>1, <1>4, <1>5, <1>9, <2>1 DEF FlightInv, OneInFlight, D!At
  <1>13. D!ReadyIsProcessed'
    BY <1>1, <1>8, <1>10 DEF FlightInv, D!ReadyIsProcessed, D!DatasetsOf
  <1>14. ASSUME NEW v \in Calls PROVE JobsKnown(v)'
    <2> SUFFICES ASSUME races \cap {"late", "retried"} = {}, D!At(v, "readying")',
                        NEW e \in DOMAIN datasets, datasets'[e].capture = flight'[v].capture,
                        datasets'[e].job = "CREATED"
                 PROVE  e \in flight'[v].left
      BY <1>1, <1>8 DEF JobsKnown
    <2>1. v # u /\ flight'[v] = flight[v] /\ D!At(v, "readying")
      BY <1>4, <1>5, <1>9 DEF D!At
    <2>2. datasets[e].capture = flight[v].capture /\ datasets[e].job = "CREATED"
      BY <1>10, <2>1
    <2> QED
      BY <2>1, <2>2 DEF FlightInv, JobsKnown
  <1>15. \A e \in DOMAIN datasets' : datasets'[e].capture \in DOMAIN captures'
    BY <1>1, <1>8
  <1>16. races \subseteq races' /\ races' \subseteq D!Races
    BY <1>1
  <1> QED
    BY <1>1, <1>3, <1>8, <1>10, <1>11, <1>12, <1>13, <1>14, <1>15, <1>16, RowsFlightInv

\* The call knows of every job there is, and finishes them with its capture.
LEMMA MarkReadyInv ==
    ASSUME FlightInv, NEW u \in Calls, D!MarkCaptureReady(u)
    PROVE  FlightInv'
  <1> DEFINE c == flight[u].capture
             f == [D!Idle EXCEPT !.at = "over", !.site = flight[u].site]
             Finished(d) == [datasets[d] EXCEPT !.job = "READY"]
  <1>1. /\ flight[u] \in Flight /\ FlightKept(u) /\ D!At(u, "readying")
        /\ captures \in Seq(DroneCapture) /\ Len(captures) <= MaxCaptures
        /\ datasets \in Seq(DroneDataset) /\ races \subseteq D!Races
        /\ UNCHANGED released /\ UNCHANGED races
        /\ flight' = [flight EXCEPT ![u] = f]
        /\ datasets' = [d \in DOMAIN datasets |->
                          IF d \in flight[u].left THEN Finished(d) ELSE datasets[d]]
        /\ captures' = [captures EXCEPT ![c].status = "READY"]
    BY Zenon DEF D!MarkCaptureReady, D!Over, D!Goes, FlightInv, FlightTypes
  <1>2. c \in DOMAIN captures
    BY <1>1 DEF FlightKept, D!At
  <1>3. flight[u].site \in JobSites \cup {D!Own} /\ "over" \in FlightPlaces
    BY <1>1 DEF Flight, FlightPlaces
  <1>4. f \in Flight
    BY <1>3, IdleIsFlight, Zenon DEF Flight
  <1>5. f.at = "over" /\ f.landed = {} /\ f.left = {} /\ f.batch = {}
    BY <1>4, IdleIsFlight DEF Flight
  <1>6. ASSUME NEW d \in DOMAIN datasets
        PROVE  /\ Finished(d) \in DroneDataset /\ Finished(d).job = "READY"
               /\ Finished(d).capture = datasets[d].capture /\ Finished(d).images = datasets[d].images
    <2>1. datasets[d] \in DroneDataset
      BY <1>1
    <2>2. Finished(d) \in DroneDataset
      BY <2>1, Zenon DEF DroneDataset
    <2> QED
      BY <2>1, <2>2 DEF DroneDataset
  <1> HIDE DEF f, Finished
  <1>7. /\ captures' \in Seq(DroneCapture) /\ DOMAIN captures' = DOMAIN captures
        /\ Len(captures') <= MaxCaptures
        /\ captures'[c].status = "READY"
        /\ \A b \in DOMAIN captures \ {c} : captures'[b] = captures[b]
    BY <1>1, <1>2, CaptureChanges
  <1>8. ASSUME NEW d \in DOMAIN datasets
        PROVE  /\ datasets'[d] \in DroneDataset
               /\ datasets'[d].capture = datasets[d].capture
               /\ datasets'[d].images = datasets[d].images
               /\ d \in flight[u].left => datasets'[d].job = "READY"
               /\ d \notin flight[u].left => datasets'[d].job = datasets[d].job
    BY <1>1, <1>6
  <1>9. datasets' \in Seq(DroneDataset) /\ DOMAIN datasets' = DOMAIN datasets
    <2>1. /\ DOMAIN datasets' = 1 .. Len(datasets) /\ DOMAIN datasets = 1 .. Len(datasets)
          /\ Len(datasets) \in Nat
      BY <1>1, LenProperties
    <2>2. datasets' \in [1 .. Len(datasets) -> DroneDataset]
      BY <1>1, <1>8, <2>1
    <2> QED
      BY <2>1, <2>2, SeqDef
  <1>10. flight'[u] = f /\ \A v \in Calls \ {u} : flight'[v] = flight[v]
    BY <1>1 DEF FlightInv, FlightTypes
  <1> HIDE DEF c
  <1>11. FlightKept(u)'
    BY <1>5, <1>10 DEF FlightKept
  <1>12. OneInFlight'
    <2>1. \A b \in D!InFlight' : b \in D!InFlight
      BY <1>7 DEF D!InFlight
    <2>2. \A v \in Calls : D!At(v, "creating")' => D!At(v, "creating")
      BY <1>5, <1>10 DEF D!At
    <2>3. \A v \in Calls : D!At(v, "creating") /\ races \cap {"overlap", "hidden", "retried"} = {} => D!InFlight' = {}
      BY <2>1 DEF FlightInv, OneInFlight
    <2> QED
      BY <1>1, <2>1, <2>2, <2>3 DEF FlightInv, OneInFlight
  <1>13. D!ReadyIsProcessed'
    <2> SUFFICES ASSUME races \cap {"late", "retried"} = {},
                        NEW b \in DOMAIN captures, captures'[b].status = "READY",
                        NEW d \in DOMAIN datasets, datasets[d].capture = b,
                        datasets'[d].job = "CREATED"
                 PROVE  FALSE
      BY <1>1, <1>7, <1>8, <1>9 DEF D!ReadyIsProcessed, D!DatasetsOf
    <2>1. d \notin flight[u].left /\ datasets[d].job = "CREATED"
      BY <1>8
    <2>2. b # c
      BY <1>1, <2>1 DEF FlightInv, JobsKnown, c
    <2> QED
      BY <1>7, <2>1, <2>2 DEF FlightInv, D!ReadyIsProcessed, D!DatasetsOf
  <1>14. ASSUME NEW v \in Calls PROVE JobsKnown(v)'
    <2> SUFFICES ASSUME races \cap {"late", "retried"} = {}, D!At(v, "readying")',
                        NEW d \in DOMAIN datasets, datasets'[d].capture = flight'[v].capture,
                        datasets'[d].job = "CREATED"
                 PROVE  d \in flight'[v].left
      BY <1>1, <1>9 DEF JobsKnown
    <2>1. v # u /\ flight'[v] = flight[v] /\ D!At(v, "readying")
      BY <1>5, <1>10 DEF D!At
    <2>2. datasets[d].capture = flight[v].capture /\ datasets[d].job = "CREATED"
      BY <1>8, <2>1
    <2> QED
      BY <2>1, <2>2 DEF FlightInv, JobsKnown
  <1>15. \A d \in DOMAIN datasets' : datasets'[d].capture \in DOMAIN captures'
    BY <1>7, <1>8, <1>9 DEF FlightInv, FlightTypes
  <1>16. races \subseteq races' /\ races' \subseteq D!Races
    BY <1>1
  <1>17. \A d \in DOMAIN datasets : /\ datasets'[d].capture = datasets[d].capture
                                    /\ datasets[d].images \subseteq datasets'[d].images
    BY <1>8
  <1> QED
    BY <1>1, <1>4, <1>7, <1>9, <1>11, <1>12, <1>13, <1>14, <1>15, <1>16, <1>17, RowsFlightInv

\* The status of a capture is set by hand; putting it back in flight is noted.
LEMMA MarkCaptureInv ==
    ASSUME FlightInv, NEW c \in DOMAIN captures, D!MarkCaptureFailed(c) \/ D!RetryDroneCapture(c)
    PROVE  FlightInv'
  <1>1. /\ UNCHANGED <<released, datasets, flight>> /\ races \subseteq D!Races
        /\ flight \in [Calls -> Flight] /\ datasets \in Seq(DroneDataset)
    BY Zenon DEF D!MarkCaptureFailed, D!RetryDroneCapture, FlightInv, FlightTypes
  <1>2. PICK now \in {"UPLOADING", "FAILED"} :
          /\ captures' = [captures EXCEPT ![c].status = now]
          /\ races' = races \cup (IF now = "UPLOADING" THEN {"retried"} ELSE {})
    <2>1. CASE D!MarkCaptureFailed(c)
      BY <2>1 DEF D!MarkCaptureFailed
    <2>2. CASE D!RetryDroneCapture(c)
      BY <2>2 DEF D!RetryDroneCapture
    <2> QED
      BY <2>1, <2>2
  <1>3. /\ captures' \in Seq(DroneCapture) /\ DOMAIN captures' = DOMAIN captures
        /\ Len(captures') <= MaxCaptures
        /\ captures'[c].status = now
        /\ \A b \in DOMAIN captures \ {c} : captures'[b] = captures[b]
    <2>1. now \in {"CREATED", "UPLOADING", "READY", "FAILED"}
      BY <1>2
    <2> QED
      BY <1>2, <2>1, CaptureChanges
  <1>4. races' \subseteq D!Races /\ races \subseteq races' /\ (now = "UPLOADING" => "retried" \in races')
    BY <1>1, <1>2 DEF D!Races
  <1>5. FlightTypes'
    BY <1>1, <1>3, <1>4 DEF FlightInv, FlightTypes
  <1>6. \A u \in Calls : FlightKept(u)'
    BY <1>1, <1>3 DEF FlightInv, FlightKept
  <1>7. OneInFlight'
    <2> SUFFICES ASSUME races' \cap {"overlap", "hidden", "retried"} = {}
                 PROVE  /\ \A b \in D!InFlight' : b \in D!InFlight
                        /\ \A v \in Calls : D!At(v, "creating")' => D!At(v, "creating")
      <3>1. races \cap {"overlap", "hidden", "retried"} = {}
              \/ races' \cap {"overlap", "hidden", "retried"} # {}
        BY <1>4
      <3> QED
        BY <3>1 DEF FlightInv, OneInFlight
    <2>1. now = "FAILED"
      BY <1>2, <1>4
    <2> QED
      BY <1>1, <1>3, <2>1 DEF D!InFlight, D!At
  <1>8. D!ReadyIsProcessed'
    BY <1>1, <1>2, <1>3, <1>4 DEF FlightInv, D!ReadyIsProcessed, D!DatasetsOf
  <1>9. \A u \in Calls : JobsKnown(u)'
    BY <1>1, <1>4 DEF FlightInv, JobsKnown, D!At
  <1> QED
    BY <1>5, <1>6, <1>7, <1>8, <1>9 DEF FlightInv

\* What does not touch captures, datasets or requests.
LEMMA StillFlightInv ==
    ASSUME FlightInv, UNCHANGED <<captures, datasets, flight, races>>, released' \subseteq JobSites
    PROVE  FlightInv'
  <1>1. FlightTypes'
    BY DEF FlightInv, FlightTypes
  <1>2. \A u \in Calls : FlightKept(u)' /\ JobsKnown(u)'
    BY DEF FlightInv, FlightKept, JobsKnown, D!At
  <1>3. OneInFlight'
    BY DEF FlightInv, OneInFlight, D!InFlight, D!At
  <1>4. D!ReadyIsProcessed'
    BY DEF FlightInv, D!ReadyIsProcessed, D!DatasetsOf
  <1> QED
    BY <1>1, <1>2, <1>3, <1>4 DEF FlightInv

LEMMA NextFlightInv == FlightInv /\ D!FlightNext => FlightInv'
  <1> SUFFICES ASSUME FlightInv, D!FlightNext PROVE FlightInv'
    OBVIOUS
  <1>1. ASSUME NEW u \in Calls, D!BreakOff(u) PROVE FlightInv'
    <2>1. D!Over(u) /\ UNCHANGED <<released, captures, datasets, races>>
      BY <1>1, Zenon DEF D!BreakOff
    <2> QED
      BY <2>1, OverFlightInv
  <1>2. ASSUME NEW s \in JobSites, D!AcceptSite(s) PROVE FlightInv'
    <2>1. UNCHANGED <<captures, datasets, flight, races>> /\ released' = released \cup {s}
      BY <1>2 DEF D!AcceptSite
    <2>2. released' \subseteq JobSites
      BY <2>1 DEF FlightInv, FlightTypes
    <2> QED
      BY <2>1, <2>2, StillFlightInv
  <1> QED
    BY <1>1, <1>2, StartFlightInv, FindTargetInv, PickFlightInv, BatchFlightInv, CreateCaptureInv,
       MarkUploadingInv, AddDatasetInv, CreateJobInv, RegisterImageInv, MarkReadyInv, MarkCaptureInv
       DEF D!FlightNext

LEMMA SpecFlightInv == FieldSpec => []FlightInv
  <1>1. FieldInit => FlightInv
    BY InitFlightInv DEF FieldInit
  <1>2. FlightInv /\ UNCHANGED flights => FlightInv'
    <2> SUFFICES ASSUME FlightInv, UNCHANGED flights PROVE FlightInv'
      OBVIOUS
    <2>1. UNCHANGED <<captures, datasets, flight, races>> /\ released' \subseteq JobSites
      BY DEF FlightInv, FlightTypes, flights
    <2> QED
      BY <2>1, StillFlightInv
  <1>3. FlightInv /\ [CaptureStep \/ RepairStep \/ PanoramaStep \/ FlightStep \/ TourStep]_all
          => FlightInv'
    BY <1>2, NextFlightInv DEF CaptureStep, RepairStep, PanoramaStep, FlightStep, TourStep, all
  <1> QED
    BY <1>1, <1>3, PTL DEF FieldSpec

\* What the flights promise follows.
LEMMA FlightsAreTrue == FlightInv => D!FlightTypeOK /\ D!OneFlight /\ D!UploadedIsStored /\ D!ReadyIsProcessed
  <1> SUFFICES ASSUME FlightInv
               PROVE  D!FlightTypeOK /\ D!OneFlight /\ D!UploadedIsStored
    BY DEF FlightInv
  <1>1. \A c \in DOMAIN captures : /\ captures[c].site \in JobSites \cup {D!Own}
                                   /\ captures[c].status \in {"CREATED", "UPLOADING", "READY", "FAILED"}
    <2>1. \A c \in DOMAIN captures : captures[c] \in DroneCapture
      BY DEF FlightInv, FlightTypes
    <2> QED
      BY <2>1 DEF DroneCapture
  <1>2. \A d \in DOMAIN datasets : /\ datasets[d].job \in {"NONE", "CREATED", "READY"}
                                   /\ datasets[d].images \subseteq Calls \X Images
    <2>1. \A d \in DOMAIN datasets : datasets[d] \in DroneDataset
      BY DEF FlightInv, FlightTypes
    <2> QED
      BY <2>1 DEF DroneDataset
  <1>3. D!FlightTypeOK
    BY <1>1, <1>2 DEF D!FlightTypeOK, FlightInv, FlightTypes
  <1>4. D!UploadedIsStored
    <2> SUFFICES ASSUME NEW u \in Calls, D!At(u, "done"), NEW x \in flight[u].landed
                 PROVE  <<u, x>> \in datasets[flight[u].dataset].images
      BY DEF D!UploadedIsStored
    <2> QED
      BY DEF FlightInv, FlightKept, D!At
  <1>5. D!OneFlight
    <2> SUFFICES ASSUME races \cap {"overlap", "hidden", "retried"} = {}
                 PROVE  D!Cardinality({c \in DOMAIN captures : captures[c].status \notin {"READY", "FAILED"}}) <= 1
      BY DEF D!OneFlight
    <2> DEFINE S == {c \in DOMAIN captures : captures[c].status \notin {"READY", "FAILED"}}
    <2>1. \A c, d \in S : c = d
      BY <1>1 DEF FlightInv, OneInFlight, D!InFlight
    <2>2. S = {} \/ \E c : S = {c}
      BY <2>1
    <2> HIDE DEF S
    <2>3. D!Cardinality(S) = Cardinality(S)
      BY DEF D!Cardinality, Cardinality
    <2>4. Cardinality(S) = 0 \/ Cardinality(S) = 1
      BY <2>2, FS_EmptySet, FS_Singleton
    <2> QED
      BY <2>3, <2>4 DEF S
  <1> QED
    BY <1>3, <1>4, <1>5

------------------------------------------------------------------------------
(* What is settled stays. *)

LEMMA ClosedStaysClosed == RepairInv /\ R!Next => R!ClosedStays
  <1> SUFFICES ASSUME RepairInv, R!Next PROVE R!ClosedStays
    OBVIOUS
  <1>1. ASSUME NEW r \in Calls, R!WriteEdit(r) PROVE R!ClosedStays
    BY <1>1, Zenon DEF R!WriteEdit, R!ClosedStays
  <1>2. ASSUME NEW r \in Calls, R!StartRepair(r) \/ R!SubmitRepair(r) \/ R!SendBackRepair(r)
        PROVE  R!ClosedStays
    <2>1. LoadKept(r)
      BY DEF RepairInv
    <2>2. ~overlapped => status \notin R!Closed
      <3>1. repairCall[r].at = "loaded" /\ repairCall[r].op \in {"start", "submit", "send back"}
        BY <1>2, Zenon DEF R!StartRepair, R!SubmitRepair, R!SendBackRepair, R!Loaded
      <3> QED
        BY <2>1, <3>1, Zenon DEF LoadKept
    <2>3. overlapped' = overlapped
      BY <1>2, Zenon DEF R!StartRepair, R!SubmitRepair, R!SendBackRepair
    <2> QED
      BY <2>2, <2>3 DEF R!ClosedStays
  <1>3. ASSUME NEW r \in Calls, R!VerifyRepair(r) PROVE R!ClosedStays
    BY <1>3 DEF R!VerifyRepair, R!ClosedStays, R!Closed
  <1>4. ASSUME status' = status PROVE R!ClosedStays
    BY <1>4 DEF R!ClosedStays
  <1>5. ASSUME NEW r \in Calls, NEW u, NEW op, R!LoadFor(r, op, u, R!None) \/ R!LoadFor(r, op, u, u)
        PROVE  status' = status
    BY <1>5 DEF R!LoadFor, R!Loads
  <1>6. ASSUME NEW r \in Calls, NEW u,
               \/ R!LoadStart(r, u) \/ R!LoadSubmit(r, u)
               \/ R!LoadCheck(r, "verify", u) \/ R!LoadCheck(r, "send back", u)
        PROVE  status' = status
    BY <1>6, Zenon DEF R!LoadStart, R!LoadSubmit, R!LoadCheck, R!LoadFor, R!Loads
  <1>7. ASSUME NEW r \in Calls, R!GivesUp(r) \/ \E u \in R!Members : R!OpenPage(r, u)
        PROVE  status' = status
    BY <1>7, Zenon DEF R!GivesUp, R!OpenPage
  <1>8. ASSUME NEW r \in Calls, NEW e \in R!Changes, R!LoadEdit(r, e) PROVE status' = status
    BY <1>8, Zenon DEF R!LoadEdit, R!Loads
  <1>9. ASSUME NEW u, R!AttachAfterPhoto(u) PROVE status' = status
    BY <1>9, Zenon DEF R!AttachAfterPhoto
  <1> QED
    BY <1>1, <1>2, <1>3, <1>4, <1>6, <1>7, <1>8, <1>9, Zenon DEF R!Next

\* Whatever is registered, a pin that is there is learnt again as it is.
LEMMA PinsStay == P!Next => P!PinsStayPut
  <1> SUFFICES ASSUME P!Next PROVE P!PinsStayPut
    OBVIOUS
  <1>1. ASSUME NEW rows, P!Registers(rows) PROVE P!PinsStayPut
    BY <1>1, Zenon DEF P!Registers, P!Learnt, P!PinsStayPut
  <1>2. ASSUME pins' = pins PROVE P!PinsStayPut
    BY <1>2 DEF P!PinsStayPut
  <1>3. ASSUME P!Register \/ P!LateRegister \/ \E f \in P!Photos, s \in P!Shots \cup {P!Nowhere} : P!ImportElsewhere(f, s)
        PROVE  \E rows : P!Registers(rows)
    BY <1>3, Zenon DEF P!Register, P!LateRegister, P!ImportElsewhere
  <1>4. ASSUME \/ \E S \in (SUBSET P!Photos) \ {{}}, checked \in BOOLEAN : P!Scan(S, checked)
               \/ P!ToggleFar \/ \E f \in P!Photos, s \in P!Shots \cup {P!Nowhere} : P!PickByHand(f, s)
               \/ P!Import \/ P!UrlsRefused \/ \E landed \in SUBSET P!TheChunk : P!PutChunk(landed)
               \/ P!RegisterRefused \/ P!RegisterLost \/ P!Finish \/ P!Refresh \/ P!Revisit
               \/ P!NeverRegistered
        PROVE  pins' = pins
    BY <1>4, Zenon DEF P!Scan, P!ToggleFar, P!PickByHand, P!Import, P!UrlsRefused, P!PutChunk,
       P!RegisterRefused, P!RegisterLost, P!Finish, P!Refresh, P!Revisit, P!NeverRegistered
  <1> QED
    BY <1>1, <1>2, <1>3, <1>4, Zenon DEF P!Next

\* Pasting is the only step that calls a space unverified, and it does so where
\* there is no row.
LEMMA VerifiedStaysVerified == TourInv /\ T!TourNext => T!VerifiedStays
  <1> SUFFICES ASSUME TourInv, T!TourNext PROVE T!VerifiedStays
    OBVIOUS
  <1>1. spaces \in [Spaces -> T!Statuses]
    BY DEF TourInv
  <1>2. ASSUME NEW c \in Calls, T!PutAsked(c) \/ T!Sync(c) PROVE T!VerifiedStays
    BY <1>1, <1>2 DEF T!PutAsked, T!Sync, T!VerifiedStays
  <1>3. ASSUME NEW c \in Calls, T!PutPasted(c) PROVE T!VerifiedStays
    <2>1. spaces' = [spaces EXCEPT ![touring[c].space] = T!Pasted(@)]
      BY <1>3 DEF T!PutPasted
    <2> QED
      BY <1>1, <2>1 DEF T!Pasted, T!VerifiedStays, T!NoRow
  <1>4. ASSUME spaces' = spaces PROVE T!VerifiedStays
    BY <1>4 DEF T!VerifiedStays
  <1>5. ASSUME NEW c \in Calls,
               \/ T!AskToConnect(c) \/ T!ConnectUnconfigured(c) \/ T!DisconnectOrg(c)
               \/ \E works \in BOOLEAN : T!Connect(c, works)
               \/ T!PutLink(c) \/ T!Unlink(c) \/ T!GiveUp(c)
        PROVE  spaces' = spaces
    BY <1>5, Zenon DEF T!AskToConnect, T!ConnectUnconfigured, T!DisconnectOrg, T!Connect, T!PutLink,
       T!Unlink, T!GiveUp
  <1>6. ASSUME NEW c \in Calls, NEW who \in TourSites \cup {T!Own},
               \/ \E s \in Spaces : T!AskSpace(c, who, s) \/ T!PasteSpace(c, who, s)
               \/ T!AskSync(c, who) \/ \E i \in DOMAIN links : T!AskUnlink(c, who, i)
        PROVE  spaces' = spaces
    BY <1>6, Zenon DEF T!AskSpace, T!PasteSpace, T!AskSync, T!AskUnlink
  <1>7. ASSUME NEW s, T!AcceptTour(s) PROVE spaces' = spaces
    BY <1>7, Zenon DEF T!AcceptTour
  <1> QED
    BY <1>2, <1>3, <1>4, <1>5, <1>6, <1>7 DEF T!TourNext

\* Unless calls overlapped, no call of a repair opens a closed issue; photos
\* never move a pin; and a space the provider has answered for is not called
\* unverified again.
THEOREM WhatIsSettledStays == FieldSpec => SettledStays
  <1>1. /\ UNCHANGED repair => R!ClosedStays
        /\ UNCHANGED panorama => P!PinsStayPut
        /\ UNCHANGED tours => T!VerifiedStays
    BY DEF repair, panorama, tours, R!ClosedStays, P!PinsStayPut, T!VerifiedStays
  <1>2. /\ RepairInv /\ TourInv
        /\ [CaptureStep \/ RepairStep \/ PanoramaStep \/ FlightStep \/ TourStep]_all
        => [SettledStep]_all
    BY <1>1, ClosedStaysClosed, PinsStay, VerifiedStaysVerified
       DEF CaptureStep, RepairStep, PanoramaStep, FlightStep, TourStep, SettledStep
  <1> QED
    BY <1>2, SpecRepairInv, SpecTourInv, PTL DEF FieldSpec, SettledStays

------------------------------------------------------------------------------
(* Capture jobs *)

\* A set of numbers has a least one, and a bounded one a greatest.
LEMMA LeastNumber ==
    ASSUME NEW Some \in SUBSET Nat, Some # {}
    PROVE  \E x \in Some : \A y \in Some : x =< y
  <1> DEFINE Less == {p \in Nat \X Nat : p[1] < p[2]}
  <1>1. IsWellFoundedOn(Less, Nat)
    BY NatLessThanWellFounded DEF OpToRel
  <1>2. ASSUME NEW x \in Nat, NEW y \in Nat, ~ (<<y, x>> \in Less)
        PROVE  x =< y
    <2>1. <<y, x>> \in Nat \X Nat /\ <<y, x>>[1] = y /\ <<y, x>>[2] = x
      OBVIOUS
    <2>2. ~ (y < x)
      BY <1>2, <2>1, Zenon
    <2> QED
      BY <2>2
  <1> HIDE DEF Less
  <1>3. \E x \in Some : \A y \in Some : ~ (<<y, x>> \in Less)
    BY <1>1, WFMin, Zenon
  <1> QED
    BY <1>2, <1>3, Zenon

LEMMA MinOfNumbers ==
    ASSUME NEW Some \in SUBSET Nat, Some # {}
    PROVE  Min(Some) \in Some
  BY LeastNumber, Zenon DEF Min

LEMMA MaxOfNumbers ==
    ASSUME NEW n \in Nat, NEW Some \in SUBSET (1 .. n), Some # {}
    PROVE  Max(Some) \in Some
  <1> DEFINE Below == {n - i : i \in Some}
  <1>1. Below \in SUBSET Nat /\ Below # {}
    OBVIOUS
  <1>2. PICK x \in Below : \A y \in Below : x =< y
    BY <1>1, LeastNumber
  <1>3. PICK i \in Some : x = n - i
    BY <1>2
  <1>4. ASSUME NEW j \in Some PROVE i >= j
    <2>1. x =< n - j
      BY <1>2
    <2> QED
      BY <1>3, <2>1
  <1> QED
    BY <1>4, Zenon DEF Max

\* A job that is issued again goes to the end of the issues.
LEMMA IssuedLast ==
    ASSUME NEW S, NEW s \in Seq(S), IsInjective(s), NEW e \in S
    PROVE  LET t == Append(RemoveFirst(s, e), e)
           IN  t \in Seq(S) /\ IsInjective(t) /\ ToSet(t) = ToSet(s) \cup {e}
  <1> DEFINE I == {i \in 1 .. Len(s) : s[i] = e}
             rest == RemoveFirst(s, e)
  <1>1. DOMAIN s = 1 .. Len(s) /\ Len(s) \in Nat
    BY LenProperties
  <1>2. rest \in Seq(S) /\ IsInjective(rest) /\ ToSet(rest) = ToSet(s) \ {e}
    <2>1. CASE I = {}
      <3>1. rest = s
        BY <2>1 DEF RemoveFirst
      <3> QED
        BY <1>1, <2>1, <3>1 DEF ToSet
    <2>2. CASE I # {}
      <3>1. PICK k : k = Min(I)
        OBVIOUS
      <3>2. k \in I
        <4>1. I \in SUBSET Nat
          OBVIOUS
        <4> QED
          BY <2>2, <3>1, <4>1, MinOfNumbers, Zenon
      <3>3. rest = RemoveAt(s, k)
        BY <2>2, <3>1, Zenon DEF RemoveFirst, SelectInSeq
      <3>4. rest = T!RemoveAt(s, k)
        BY <3>3 DEF RemoveAt, T!RemoveAt
      <3> HIDE DEF rest
      <3>5. /\ rest \in Seq(S) /\ DOMAIN rest = 1 .. (Len(s) - 1)
            /\ \A i \in DOMAIN rest : rest[i] = s[IF i < k THEN i ELSE i + 1]
        BY <1>1, <3>2, <3>4, RemoveAtProperties
      <3>6. IsInjective(rest)
        BY <1>1, <3>2, <3>5, SMTT(30) DEF IsInjective
      <3>7. ToSet(rest) \subseteq ToSet(s) \ {e}
        BY <1>1, <3>2, <3>5 DEF IsInjective, ToSet
      <3>8. ASSUME NEW i \in 1 .. Len(s), s[i] # e PROVE s[i] \in ToSet(rest)
        <4>1. CASE i < k
          BY <1>1, <3>2, <3>5, <4>1 DEF ToSet
        <4>2. CASE i > k
          <5>0. i - 1 \in 1 .. (Len(s) - 1) /\ ~ (i - 1 < k) /\ (i - 1) + 1 = i
            BY <1>1, <3>2, <4>2
          <5>1. i - 1 \in DOMAIN rest /\ rest[i - 1] = s[i]
            BY <3>5, <5>0
          <5> QED
            BY <5>1 DEF ToSet
        <4> QED
          BY <1>1, <3>2, <3>8, <4>1, <4>2
      <3>9. ToSet(s) \ {e} \subseteq ToSet(rest)
        BY <1>1, <3>8 DEF ToSet
      <3> QED
        BY <3>5, <3>6, <3>7, <3>9
    <2> QED
      BY <2>1, <2>2
  <1> HIDE DEF rest
  <1>3. PICK t : t = Append(rest, e)
    OBVIOUS
  <1>4. /\ DOMAIN rest = 1 .. Len(rest) /\ Len(rest) \in Nat
        /\ t \in Seq(S) /\ DOMAIN t = 1 .. Len(rest) + 1
        /\ \A i \in 1 .. Len(rest) : t[i] = rest[i]
        /\ t[Len(rest) + 1] = e
    BY <1>2, <1>3, AppendProperties, LenProperties
  <1>5. \A i \in 1 .. Len(rest) : rest[i] # e
    BY <1>2, <1>4 DEF ToSet
  <1>6. IsInjective(t)
    BY <1>2, <1>4, <1>5 DEF IsInjective
  <1>7. ToSet(t) = ToSet(rest) \cup {e}
    BY <1>4 DEF ToSet
  <1> QED
    BY <1>2, <1>3, <1>4, <1>6, <1>7 DEF rest

Deciding == {"score", "submit", "review"}

CaptureCall ==
    [at : {"idle", "loaded", "decided", "closing", "arrived", "tagged"},
     op : {None, "issue", "upload"} \cup Deciding,
     id : (Jobs \cup {None}) \X (Properties \cup {None}),
     how : {None, "ACCEPTED", "REJECTED", "proof"}, tag : Sites \cup {NoSite}]

\* What a request does goes with where it is, and names what it acts on.
CallShape(c) ==
    /\ c.at = "idle" <=> c.op = None
    /\ c.at = "loaded" => c.op \in {"issue"} \cup Deciding
    /\ c.at \in {"decided", "closing"} => c.op = "review"
    /\ c.at \in {"arrived", "tagged"} => c.op = "upload"
    /\ c.op = "issue" => c.id[1] \in Jobs
    /\ c.op \in Deciding => c.id \in Sites
    /\ c.op = "upload" => c.id[2] \in Properties
    /\ c.op = "review" /\ c.at = "loaded" => c.how \in {"ACCEPTED", "REJECTED"}

\* No open job waits for work at a property.
NoneWaits(p) ==
    \A s \in Sites : s[2] = p /\ job[s[1]] = "ISSUED" /\ site[s] # None => site[s] = "ACCEPTED"

\* What a call has loaded is there when it writes; where no other call decided
\* about the same meanwhile, it still has the status that let the call through.
CallKept(c) ==
    LET s == c.id
    IN  /\ c.op = "issue" => job[s[1]] # None
        /\ c.op \in Deciding => site[s] # None /\ job[s[1]] \in {"ISSUED", "ACCEPTED"}
        /\ c.tag # NoSite => c.tag \in Sites /\ c.tag[2] = s[2] /\ site[c.tag] # None
        /\ "decision" \notin overlap =>
             /\ c.op = "issue" => job[s[1]] = "DRAFT"
             /\ c.op = "score" => site[s] = "PENDING"
             /\ c.op = "submit" => site[s] # "ACCEPTED" /\ Owed \subseteq done[s]
             /\ c.op = "review" /\ c.at = "loaded" => site[s] = "SUBMITTED"
             /\ c.at = "closing" =>
                  \A t \in Sites : t[1] = s[1] /\ site[t] # None => site[t] = "ACCEPTED"
        /\ overlap = {} /\ c.at = "tagged" /\ c.how # "proof" =>
             IF c.tag = NoSite THEN NoneWaits(s[2]) ELSE site[c.tag] # "ACCEPTED"

\* Two calls that have not overlapped decide about different sites, and a site
\* is not reviewed, nor its job issued, while something is uploaded there.
Apart(a, b) ==
    /\ a.op = "issue" /\ b.op = "issue" => a.id[1] # b.id[1]
    /\ a.op \in Deciding /\ b.op \in Deciding => a.id # b.id
Alone(a, b) ==
    a.op = "upload" =>
        /\ b.op = "review" => b.id[2] # a.id[2]
        /\ b.op = "issue" => site[<<b.id[1], a.id[2]>>] = None

CaptureCalls ==
    /\ call \in [Calls -> CaptureCall]
    /\ \A r \in Calls : CallShape(call[r]) /\ CallKept(call[r])
    /\ "decision" \notin overlap => \A r, q \in Calls : r # q => Apart(call[r], call[q])
    /\ overlap = {} => \A r, q \in Calls : Alone(call[r], call[q])

CaptureTypes ==
    /\ job \in [Jobs -> {None, "DRAFT", "ISSUED", "ACCEPTED"}]
    /\ site \in [Sites -> Statuses] /\ done \in [Sites -> SUBSET Owed]
    /\ repairing \subseteq Properties /\ overlap \subseteq {"decision", "upload"} /\ cutOff \subseteq Jobs

JobsIssued ==
    /\ issues \in Seq(Jobs) /\ IsInjective(issues)
    /\ ToSet(issues) = {j \in Jobs : job[j] \in {"ISSUED", "ACCEPTED"}}

UploadFiled ==
    /\ filed # Nothing /\ filed.tag # NoSite => filed.tag \in Sites /\ site[filed.tag] # None
    /\ overlap = {} => filed.due

\* A site has a job, which was out before anything was made there.
SiteKept(s) ==
    /\ site[s] # None => job[s[1]] # None
    /\ site[s] \notin {None, "PENDING"} => job[s[1]] \in {"ISSUED", "ACCEPTED"}
    /\ "decision" \notin overlap =>
         /\ site[s] # None /\ job[s[1]] = "ACCEPTED" => site[s] = "ACCEPTED"
         /\ site[s] \in {"SUBMITTED", "ACCEPTED"} => Owed \subseteq done[s]

\* A job whose sites are all accepted is closed, or a review is about to.
Unfinished(j) ==
    \/ \A s \in Sites : s[1] = j => site[s] = None
    \/ \E s \in Sites : s[1] = j /\ site[s] \notin {None, "ACCEPTED"}
Finishing(c, j) == c.at \in {"decided", "closing"} /\ c.id[1] = j
JobsEnd ==
    "decision" \notin overlap =>
        \A j \in Jobs \ cutOff :
            job[j] = "ACCEPTED" \/ Unfinished(j) \/ \E r \in Calls : Finishing(call[r], j)

CaptureInv ==
    /\ CaptureTypes /\ JobsIssued /\ UploadFiled /\ CaptureCalls /\ JobsEnd
    /\ \A s \in Sites : SiteKept(s)

LEMMA RestingIsShaped == Resting \in CaptureCall /\ CallShape(Resting) /\ CallKept(Resting)
  <1>1. Resting = [at |-> "idle", op |-> None, id |-> NoSite, how |-> None, tag |-> NoSite]
    BY DEF Resting
  <1>2. NoSite \in (Jobs \cup {None}) \X (Properties \cup {None})
    BY DEF NoSite
  <1>3. Resting \in CaptureCall
    BY <1>1, <1>2 DEF CaptureCall
  <1> QED
    BY <1>1, <1>3 DEF CallShape, CallKept, Deciding, None

LEMMA InitCaptureInv == Init => CaptureInv
  <1> SUFFICES ASSUME Init PROVE CaptureInv
    OBVIOUS
  <1>1. CaptureTypes
    BY DEF Init, CaptureTypes, Statuses
  <1>2. JobsIssued
    <2>1. issues = <<>> /\ \A j \in Jobs : job[j] = None
      BY DEF Init
    <2>2. issues \in Seq(Jobs) /\ DOMAIN issues = {}
      BY <2>1, EmptySeq
    <2> QED
      BY <2>1, <2>2 DEF JobsIssued, IsInjective, ToSet, None
  <1>3. UploadFiled
    BY DEF Init, UploadFiled, Nothing
  <1>4. \A r \in Calls : call[r] = Resting
    BY DEF Init
  <1>5. CaptureCalls
    <2>1. call \in [Calls -> CaptureCall]
      BY RestingIsShaped, Zenon DEF Init
    <2>2. \A r, q \in Calls : Apart(call[r], call[q]) /\ Alone(call[r], call[q])
      BY <1>4 DEF Apart, Alone, Resting, Deciding, None
    <2> QED
      BY <1>4, <2>1, <2>2, RestingIsShaped DEF CaptureCalls
  <1>6. JobsEnd /\ \A s \in Sites : SiteKept(s)
    BY DEF Init, JobsEnd, Unfinished, SiteKept, None
  <1> QED
    BY <1>1, <1>2, <1>3, <1>5, <1>6 DEF CaptureInv

\* A call that only goes on keeps the invariant, if it keeps apart from the
\* others and does not drop what it was to finish.
LEMMA TurnCaptureInv ==
    ASSUME CaptureInv, NEW r \in Calls, NEW c \in CaptureCall,
           CallShape(c), CallKept(c),
           call' = [call EXCEPT ![r] = c],
           UNCHANGED <<job, site, issues, done, filed, repairing>>,
           overlap \subseteq overlap', overlap' \subseteq {"decision", "upload"},
           cutOff \subseteq cutOff', cutOff' \subseteq Jobs,
           \A q \in Calls \ {r} :
               /\ "decision" \notin overlap' => Apart(c, call[q]) /\ Apart(call[q], c)
               /\ overlap' = {} => Alone(c, call[q]) /\ Alone(call[q], c),
           \A j \in Jobs \ cutOff' :
               Finishing(call[r], j) => Finishing(c, j) \/ Unfinished(j)
    PROVE  CaptureInv'
  <1>1. CaptureTypes'
    BY DEF CaptureInv, CaptureTypes
  <1>2. JobsIssued'
    BY DEF CaptureInv, JobsIssued
  <1>3. UploadFiled'
    BY DEF CaptureInv, UploadFiled
  <1>4. \A s \in Sites : SiteKept(s)'
    BY DEF CaptureInv, SiteKept
  <1>5. call'[r] = c /\ \A q \in Calls : q # r => call'[q] = call[q]
    BY DEF CaptureInv, CaptureCalls
  <1>6. JobsEnd'
    <2>1. \A j : Unfinished(j)' = Unfinished(j)
      BY DEF Unfinished
    <2> QED
      BY <1>5, <2>1 DEF CaptureInv, JobsEnd, Finishing
  <1>7. ASSUME NEW d, CallKept(d) PROVE CallKept(d)'
    <2>1. \A p : NoneWaits(p)' = NoneWaits(p)
      BY DEF NoneWaits
    <2> QED
      BY <1>7, <2>1 DEF CallKept
  <1>8. CaptureCalls'
    <2>1. call' \in [Calls -> CaptureCall]
      BY DEF CaptureInv, CaptureCalls
    <2>2. ASSUME NEW q \in Calls PROVE (CallShape(call[q]) /\ CallKept(call[q]))'
      <3>1. PICK d : d = call'[q]
        OBVIOUS
      <3>2. CallShape(d) /\ CallKept(d)
        BY <1>5, <3>1 DEF CaptureInv, CaptureCalls
      <3>3. CallKept(d)'
        BY <1>7, <3>2
      <3> QED
        BY <3>1, <3>2, <3>3 DEF CallShape, CallKept, NoneWaits
    <2>3. ASSUME "decision" \notin overlap', NEW q \in Calls, NEW t \in Calls, q # t
          PROVE  Apart(call[q], call[t])'
      BY <1>5, <2>3 DEF CaptureInv, CaptureCalls
    <2>4. ASSUME overlap' = {}, NEW q \in Calls, NEW t \in Calls
          PROVE  Alone(call[q], call[t])'
      <3>1. Alone(call'[q], call'[t])
        <4>1. CASE q = r /\ t = r
          BY <1>5, <4>1 DEF Alone, Deciding
        <4>2. CASE ~ (q = r /\ t = r)
          BY <1>5, <2>4, <4>2 DEF CaptureInv, CaptureCalls
        <4> QED
          BY <4>1, <4>2
      <3> QED
        BY <3>1 DEF Alone
    <2> QED
      BY <2>1, <2>2, <2>3, <2>4 DEF CaptureCalls
  <1> QED
    BY <1>1, <1>2, <1>3, <1>4, <1>6, <1>8 DEF CaptureInv

\* What a call has loaded.
LEMMA LoadedIsShaped ==
    ASSUME NEW at \in {"loaded", "decided", "closing", "arrived"}, NEW op \in {"issue", "upload"} \cup Deciding,
           NEW s \in (Jobs \cup {None}) \X (Properties \cup {None}), NEW how \in {None, "ACCEPTED", "REJECTED", "proof"},
           at = "loaded" => op # "upload", at \in {"decided", "closing"} => op = "review",
           at = "arrived" => op = "upload",
           op = "issue" => s[1] \in Jobs, op \in Deciding => s \in Sites,
           op = "upload" => s[2] \in Properties,
           op = "review" /\ at = "loaded" => how \in {"ACCEPTED", "REJECTED"},
           NEW c, c = [at |-> at, op |-> op, id |-> s, how |-> how, tag |-> NoSite]
    PROVE  c \in CaptureCall /\ CallShape(c)
  <1>1. c \in CaptureCall
    BY DEF CaptureCall
  <1>2. CallShape(c)
    BY DEF CallShape, Deciding, None
  <1> QED
    BY <1>1, <1>2

LEMMA GoesIs ==
    ASSUME NEW r, NEW at, NEW op, NEW s, NEW how, Goes(r, at, op, s, how)
    PROVE  call' = [call EXCEPT ![r] = [at |-> at, op |-> op, id |-> s, how |-> how, tag |-> NoSite]]
  <1> DEFINE Like == [at : {at, "idle"}, op : {op, None}, id : {s, NoSite}, how : {how, None}, tag : {NoSite}]
  <1>1. PICK c : c = [Resting EXCEPT !.at = at, !.op = op, !.id = s, !.how = how]
    OBVIOUS
  <1>2. Resting \in Like
    BY DEF Resting
  <1>3. c \in Like
    BY <1>1, <1>2, Zenon
  <1>4. c.at = at /\ c.op = op /\ c.id = s /\ c.how = how /\ c.tag = NoSite
    BY <1>1, <1>2
  <1>5. c = [at |-> at, op |-> op, id |-> s, how |-> how, tag |-> NoSite]
    BY <1>3, <1>4
  <1> QED
    BY <1>1, <1>5, Zenon DEF Goes

LEMMA LoadIssueInv ==
    ASSUME CaptureInv, NEW r \in Calls, NEW j \in Jobs, LoadIssue(r, j)
    PROVE  CaptureInv'
  <1>1. PICK c : c = [at |-> "loaded", op |-> "issue", id |-> <<j, None>>, how |-> None, tag |-> NoSite]
    OBVIOUS
  <1>2. /\ call[r].at = "idle" /\ job[j] = "DRAFT" /\ call' = [call EXCEPT ![r] = c]
        /\ UNCHANGED <<job, site, issues, done, filed, repairing, cutOff>>
    BY <1>1, GoesIs DEF LoadIssue
  <1>3. c \in CaptureCall /\ CallShape(c)
    BY <1>1, LoadedIsShaped DEF Deciding
  <1>4. CallKept(c)
    BY <1>1, <1>2 DEF CallKept, None, Deciding
  <1>5. /\ overlap \subseteq overlap' /\ overlap' \subseteq {"decision", "upload"}
        /\ \A q \in Calls \ {r} : call[q].at # "idle" =>
             /\ call[q].op = "issue" /\ call[q].id[1] = j => "decision" \in overlap'
             /\ call[q].op = "upload" /\ call[q].id[2] \in {s[2] : s \in SitesOf(j)} => "upload" \in overlap'
    BY DEF LoadIssue, Meets, UploadsTo, CaptureInv, CaptureTypes
  <1>6. ASSUME NEW q \in Calls \ {r}
        PROVE  /\ "decision" \notin overlap' => Apart(c, call[q]) /\ Apart(call[q], c)
               /\ overlap' = {} => Alone(c, call[q]) /\ Alone(call[q], c)
    <2>1. CallShape(call[q])
      BY DEF CaptureInv, CaptureCalls
    <2>2. "decision" \notin overlap' => Apart(c, call[q]) /\ Apart(call[q], c)
      BY <1>1, <1>5, <2>1 DEF Apart, CallShape, Deciding, None
    <2>3. ASSUME overlap' = {}, call[q].op = "upload" PROVE site[<<j, call[q].id[2]>>] = None
      <3>1. call[q].id[2] \in Properties /\ call[q].at # "idle"
        BY <2>1, <2>3 DEF CallShape, None
      <3>2. call[q].id[2] \notin {s[2] : s \in SitesOf(j)}
        BY <1>5, <2>3, <3>1
      <3>3. PICK p \in Properties : p = call[q].id[2]
        BY <3>1
      <3>4. <<j, p>> \in Sites /\ <<j, p>>[1] = j /\ <<j, p>>[2] = p
        BY DEF Sites
      <3>5. <<j, p>> \notin SitesOf(j)
        BY <3>2, <3>3, <3>4
      <3> QED
        BY <3>3, <3>4, <3>5 DEF SitesOf
    <2>4. overlap' = {} => Alone(c, call[q]) /\ Alone(call[q], c)
      BY <1>1, <2>3 DEF Alone
    <2> QED
      BY <2>2, <2>4
  <1>7. \A k \in Jobs : ~ Finishing(call[r], k)
    BY <1>2 DEF Finishing
  <1>8. cutOff' \subseteq Jobs
    BY <1>2 DEF CaptureInv, CaptureTypes
  <1> QED
    BY <1>2, <1>3, <1>4, <1>5, <1>6, <1>7, <1>8, TurnCaptureInv

\* A call loads the site it will decide about.
LEMMA LoadSiteInv ==
    ASSUME CaptureInv, NEW r \in Calls, NEW s \in Sites,
           \/ LoadScores(r, s) \/ LoadSubmit(r, s)
           \/ \E d \in {"ACCEPTED", "REJECTED"} : LoadReview(r, s, d)
    PROVE  CaptureInv'
  <1>1. PICK op \in Deciding, how \in {None, "ACCEPTED", "REJECTED"} :
            /\ Load(r, op, s, how)
            /\ op = "review" => how # None
            /\ op = "score" => job[s[1]] = "ISSUED" /\ site[s] = "PENDING"
            /\ op = "submit" => job[s[1]] = "ISSUED" /\ site[s] \notin {None, "ACCEPTED"} /\ Owed \subseteq done[s]
            /\ op = "review" => site[s] = "SUBMITTED"
    <2>1. CASE LoadScores(r, s)
      BY <2>1 DEF LoadScores, Open, Deciding
    <2>2. CASE LoadSubmit(r, s)
      BY <2>2 DEF LoadSubmit, Open, Delivered, Deciding
    <2>3. CASE \E d \in {"ACCEPTED", "REJECTED"} : LoadReview(r, s, d)
      BY <2>3 DEF LoadReview, Deciding, None
    <2> QED
      BY <2>1, <2>2, <2>3
  <1>2. PICK c : c = [at |-> "loaded", op |-> op, id |-> s, how |-> how, tag |-> NoSite]
    OBVIOUS
  <1>3. /\ call[r].at = "idle" /\ call' = [call EXCEPT ![r] = c]
        /\ UNCHANGED <<job, site, issues, done, filed, repairing, cutOff>>
    BY <1>1, <1>2, GoesIs DEF Load
  <1>4. c \in CaptureCall /\ CallShape(c)
    <2>1. s \in (Jobs \cup {None}) \X (Properties \cup {None})
      BY DEF Sites
    <2> QED
      BY <1>1, <1>2, <2>1, LoadedIsShaped DEF Deciding
  <1>5. CallKept(c)
    <2>1. SiteKept(s)
      BY DEF CaptureInv
    <2> QED
      BY <1>1, <1>2, <2>1 DEF CallKept, SiteKept, None, Deciding
  <1>6. /\ overlap \subseteq overlap' /\ overlap' \subseteq {"decision", "upload"}
        /\ \A q \in Calls \ {r} : call[q].at # "idle" =>
             /\ call[q].op \in Deciding /\ call[q].id = s => "decision" \in overlap'
             /\ op = "review" /\ call[q].op = "upload" /\ call[q].id[2] = s[2] => "upload" \in overlap'
    BY <1>1 DEF Load, Meets, ActsOn, UploadsTo, CaptureInv, CaptureTypes, Deciding
  <1>7. ASSUME NEW q \in Calls \ {r}
        PROVE  /\ "decision" \notin overlap' => Apart(c, call[q]) /\ Apart(call[q], c)
               /\ overlap' = {} => Alone(c, call[q]) /\ Alone(call[q], c)
    <2>1. CallShape(call[q])
      BY DEF CaptureInv, CaptureCalls
    <2>2. "decision" \notin overlap' => Apart(c, call[q]) /\ Apart(call[q], c)
      BY <1>2, <1>6, <2>1 DEF Apart, CallShape, Deciding, None
    <2>3. overlap' = {} => Alone(c, call[q]) /\ Alone(call[q], c)
      BY <1>2, <1>6, <2>1 DEF Alone, CallShape, Deciding, None
    <2> QED
      BY <2>2, <2>3
  <1>8. \A k \in Jobs : ~ Finishing(call[r], k)
    BY <1>3 DEF Finishing
  <1>9. cutOff' \subseteq Jobs
    BY <1>3 DEF CaptureInv, CaptureTypes
  <1> QED
    BY <1>3, <1>4, <1>5, <1>6, <1>7, <1>8, <1>9, TurnCaptureInv

LEMMA UploadArrivesInv ==
    ASSUME CaptureInv, NEW r \in Calls, NEW p \in Properties, NEW j \in Jobs \cup {None},
           NEW about \in {None, "proof"}, UploadArrives(r, p, <<j, p>>, about)
    PROVE  CaptureInv'
  <1>1. PICK c : c = [at |-> "arrived", op |-> "upload", id |-> <<j, p>>, how |-> about, tag |-> NoSite]
    OBVIOUS
  <1>2. /\ call[r].at = "idle" /\ call' = [call EXCEPT ![r] = c]
        /\ UNCHANGED <<job, site, issues, done, filed, repairing, cutOff>>
    BY <1>1, GoesIs DEF UploadArrives
  <1>3. c \in CaptureCall /\ CallShape(c)
    BY <1>1, LoadedIsShaped DEF Deciding
  <1>4. CallKept(c)
    BY <1>1, <1>2 DEF CallKept, None, Deciding
  <1>5. /\ overlap \subseteq overlap' /\ overlap' \subseteq {"decision", "upload"}
        /\ \A q \in Calls \ {r} : call[q].at # "idle" =>
             /\ call[q].op = "review" /\ call[q].id[2] = p => "upload" \in overlap'
             /\ call[q].op = "issue" /\ site[<<call[q].id[1], p>>] # None => "upload" \in overlap'
    BY DEF UploadArrives, Meets, CaptureInv, CaptureTypes
  <1>6. ASSUME NEW q \in Calls \ {r}
        PROVE  /\ "decision" \notin overlap' => Apart(c, call[q]) /\ Apart(call[q], c)
               /\ overlap' = {} => Alone(c, call[q]) /\ Alone(call[q], c)
    <2>1. CallShape(call[q])
      BY DEF CaptureInv, CaptureCalls
    <2>2. Apart(c, call[q]) /\ Apart(call[q], c)
      BY <1>1 DEF Apart, Deciding
    <2>3. c.op = "upload" /\ c.id[2] = p
      BY <1>1
    <2>4. overlap' = {} => Alone(c, call[q]) /\ Alone(call[q], c)
      BY <1>5, <2>1, <2>3 DEF Alone, CallShape, Deciding, None
    <2> QED
      BY <2>2, <2>4
  <1>7. \A k \in Jobs : ~ Finishing(call[r], k)
    BY <1>2 DEF Finishing
  <1>8. cutOff' \subseteq Jobs
    BY <1>2 DEF CaptureInv, CaptureTypes
  <1> QED
    BY <1>2, <1>3, <1>4, <1>5, <1>6, <1>7, <1>8, TurnCaptureInv

\* What a call can turn into without regard to the others.
LEMMA SameWorkInv ==
    ASSUME CaptureInv, NEW r \in Calls, NEW c \in CaptureCall,
           CallShape(c), CallKept(c), call' = [call EXCEPT ![r] = c],
           UNCHANGED <<job, site, issues, done, filed, repairing, overlap>>,
           cutOff \subseteq cutOff', cutOff' \subseteq Jobs,
           c.op = None \/ (c.op = call[r].op /\ c.id = call[r].id),
           \A j \in Jobs \ cutOff' :
               Finishing(call[r], j) => Finishing(c, j) \/ Unfinished(j)
    PROVE  CaptureInv'
  <1>1. ASSUME NEW q \in Calls \ {r}
        PROVE  /\ "decision" \notin overlap' => Apart(c, call[q]) /\ Apart(call[q], c)
               /\ overlap' = {} => Alone(c, call[q]) /\ Alone(call[q], c)
    <2>1. /\ "decision" \notin overlap => Apart(call[r], call[q]) /\ Apart(call[q], call[r])
          /\ overlap = {} => Alone(call[r], call[q]) /\ Alone(call[q], call[r])
      BY DEF CaptureInv, CaptureCalls
    <2> QED
      BY <2>1 DEF Apart, Alone, Deciding, None
  <1>2. overlap \subseteq overlap' /\ overlap' \subseteq {"decision", "upload"}
    BY DEF CaptureInv, CaptureTypes
  <1> QED
    BY <1>1, <1>2, TurnCaptureInv

\* The site an upload is filed for is one that waits for work.
LEMMA ReviewSiteWaits ==
    ASSUME CaptureInv, NEW p \in Properties
    PROVE  \/ ReviewSite(p) = NoSite /\ NoneWaits(p)
           \/ /\ ReviewSite(p) \in Sites /\ ReviewSite(p)[2] = p
              /\ site[ReviewSite(p)] # None /\ site[ReviewSite(p)] # "ACCEPTED"
  <1>1. CASE Waiting(p) = {}
    BY <1>1 DEF ReviewSite, NoneWaits, Waiting, SitesAt, Open
  <1>2. CASE Waiting(p) # {}
    <2> DEFINE I == {i \in 1 .. Len(issues) : <<issues[i], p>> \in Waiting(p)}
    <2>1. DOMAIN issues = 1 .. Len(issues) /\ Len(issues) \in Nat
      BY LenProperties DEF CaptureInv, JobsIssued
    <2>2. I # {}
      <3>1. PICK s \in Waiting(p) : TRUE
        BY <1>2
      <3>2. s \in Sites /\ s[2] = p /\ job[s[1]] = "ISSUED"
        BY <3>1 DEF Waiting, SitesAt, Open
      <3>3. s = <<s[1], p>> /\ s[1] \in Jobs
        BY <3>2 DEF Sites
      <3>4. s[1] \in ToSet(issues)
        BY <3>2, <3>3 DEF CaptureInv, JobsIssued
      <3>5. PICK i \in 1 .. Len(issues) : issues[i] = s[1]
        BY <2>1, <3>4 DEF ToSet
      <3> QED
        BY <3>1, <3>3, <3>5
    <2>3. PICK k : k = Max(I)
      OBVIOUS
    <2>4. k \in I
      BY <2>1, <2>2, <2>3, MaxOfNumbers
    <2>5. ReviewSite(p) = <<issues[k], p>>
      BY <1>2, <2>2, <2>3, Zenon DEF ReviewSite, SelectLastInSeq
    <2>6. ReviewSite(p) \in Waiting(p)
      BY <2>4, <2>5
    <2> QED
      BY <2>6 DEF Waiting, SitesAt
  <1> QED
    BY <1>1, <1>2

LEMMA UploadTaggedInv ==
    ASSUME CaptureInv, NEW r \in Calls, UploadTagged(r)
    PROVE  CaptureInv'
  <1>1. PICK t : t = Tag(call[r])
    OBVIOUS
  <1>2. PICK c : c = [call[r] EXCEPT !.at = "tagged", !.tag = t]
    OBVIOUS
  <1>3. call[r] \in CaptureCall /\ CallShape(call[r]) /\ CallKept(call[r])
    BY DEF CaptureInv, CaptureCalls
  <1>4. call[r].at = "arrived" /\ call[r].op = "upload" /\ call[r].id[2] \in Properties
    BY <1>3 DEF UploadTagged, CallShape
  <1>5. \/ t = NoSite /\ (call[r].how = "proof" \/ NoneWaits(call[r].id[2]))
        \/ t \in Sites /\ t[2] = call[r].id[2] /\ site[t] # None /\ site[t] # "ACCEPTED"
    BY <1>1, <1>4, ReviewSiteWaits DEF Tag
  <1>6. c \in CaptureCall /\ c.at = "tagged" /\ c.op = "upload" /\ c.id = call[r].id /\ c.tag = t
        /\ c.how = call[r].how
    BY <1>2, <1>3, <1>4, <1>5 DEF CaptureCall
  <1>7. CallShape(c)
    BY <1>4, <1>6 DEF CallShape, Deciding, None
  <1>8. CallKept(c)
    <2>1. NoSite \notin Sites
      BY FieldAssumption DEF NoSite, Sites
    <2> QED
      BY <1>5, <1>6, <2>1 DEF CallKept, Deciding, None
  <1>9. /\ call' = [call EXCEPT ![r] = c]
        /\ UNCHANGED <<job, site, issues, done, filed, repairing, overlap, cutOff>>
    BY <1>1, <1>2, <1>3 DEF UploadTagged, CaptureInv, CaptureCalls
  <1>10. cutOff' \subseteq Jobs
    BY <1>9 DEF CaptureInv, CaptureTypes
  <1>11. \A j \in Jobs : ~ Finishing(call[r], j)
    BY <1>4 DEF Finishing
  <1> QED
    BY <1>4, <1>6, <1>7, <1>8, <1>9, <1>10, <1>11, SameWorkInv

LEMMA CountRemainingInv ==
    ASSUME CaptureInv, NEW r \in Calls, CountRemaining(r)
    PROVE  CaptureInv'
  <1>1. PICK s : s = call[r].id
    OBVIOUS
  <1>2. call[r] \in CaptureCall /\ CallShape(call[r]) /\ CallKept(call[r])
    BY DEF CaptureInv, CaptureCalls
  <1>3. call[r].at = "decided" /\ call[r].op = "review" /\ s \in Sites
    BY <1>1, <1>2 DEF CountRemaining, CallShape, Deciding
  <1>4. /\ UNCHANGED <<job, site, issues, done, filed, repairing, overlap, cutOff>>
        /\ cutOff' \subseteq Jobs
    BY DEF CountRemaining, CaptureInv, CaptureTypes
  <1>5. AllAccepted(s[1]) \/ Unfinished(s[1])
    BY DEF AllAccepted, Unfinished, SitesOf
  <1>6. CASE AllAccepted(s[1])
    <2>1. PICK c : c = [at |-> "closing", op |-> "review", id |-> s, how |-> None, tag |-> NoSite]
      OBVIOUS
    <2>2. call' = [call EXCEPT ![r] = c]
      BY <1>1, <1>6, <2>1, GoesIs DEF CountRemaining
    <2>3. c \in CaptureCall /\ CallShape(c)
      <3>1. s \in (Jobs \cup {None}) \X (Properties \cup {None})
        BY <1>3 DEF Sites
      <3> QED
        BY <1>3, <2>1, <3>1, LoadedIsShaped DEF Deciding
    <2>4. CallKept(c)
      BY <1>1, <1>2, <1>3, <1>6, <2>1 DEF CallKept, AllAccepted, SitesOf, Deciding, None
    <2>5. \A j \in Jobs : Finishing(call[r], j) => Finishing(c, j)
      BY <1>1, <2>1 DEF Finishing
    <2> QED
      BY <1>1, <1>3, <1>4, <2>1, <2>2, <2>3, <2>4, <2>5, SameWorkInv
  <1>7. CASE ~ AllAccepted(s[1])
    <2>1. call' = [call EXCEPT ![r] = Resting]
      BY <1>1, <1>7 DEF CountRemaining, Ready
    <2>2. \A j \in Jobs : Finishing(call[r], j) => Unfinished(j)
      BY <1>1, <1>5, <1>7 DEF Finishing
    <2>3. Resting.op = None
      BY DEF Resting
    <2> QED
      BY <1>4, <2>1, <2>2, <2>3, RestingIsShaped, SameWorkInv
  <1> QED
    BY <1>6, <1>7

LEMMA BreaksOffInv ==
    ASSUME CaptureInv, NEW r \in Calls, BreaksOff(r)
    PROVE  CaptureInv'
  <1>1. call[r] \in CaptureCall /\ CallShape(call[r])
    BY DEF CaptureInv, CaptureCalls
  <1>2. /\ call' = [call EXCEPT ![r] = Resting] /\ Resting.op = None
        /\ UNCHANGED <<job, site, issues, done, filed, repairing, overlap>>
    BY DEF BreaksOff, Ready, Resting
  <1>3. cutOff \subseteq cutOff' /\ cutOff' \subseteq Jobs
    <2>1. cutOff \subseteq Jobs
      BY DEF CaptureInv, CaptureTypes
    <2>2. call[r].at \in {"decided", "closing"} => call[r].id[1] \in Jobs
      BY <1>1 DEF CallShape, Deciding, Sites
    <2> QED
      BY <2>1, <2>2 DEF BreaksOff
  <1>4. \A j \in Jobs \ cutOff' : ~ Finishing(call[r], j)
    BY DEF BreaksOff, Finishing
  <1> QED
    BY <1>2, <1>3, <1>4, RestingIsShaped, SameWorkInv

\* When one call writes and is done with it, or goes on with the same, the
\* calls stay as they should be if what the write changes spares the others.
LEMMA WriteCaptureCalls ==
    ASSUME CaptureInv, NEW r \in Calls, NEW c \in CaptureCall,
           CallShape(c), CallKept(c)', call' = [call EXCEPT ![r] = c], overlap' = overlap,
           c.op = None \/ (c.op = call[r].op /\ c.id = call[r].id),
           \A s \in Sites : site[s] = None => site'[s] = None,
           \A q \in Calls \ {r} : CallKept(call[q])'
    PROVE  CaptureCalls'
  <1>1. call'[r] = c /\ \A q \in Calls : q # r => call'[q] = call[q]
    BY DEF CaptureInv, CaptureCalls
  <1>2. call' \in [Calls -> CaptureCall]
    BY DEF CaptureInv, CaptureCalls
  <1>3. ASSUME NEW q \in Calls PROVE (CallShape(call[q]) /\ CallKept(call[q]))'
    <2>1. CASE q = r
      <3>1. CallShape(call'[q])
        BY <1>1, <2>1
      <3>2. PICK d : d = call'[q]
        OBVIOUS
      <3>3. d = c
        BY <1>1, <2>1, <3>2
      <3>4. CallKept(d)'
        BY <3>3
      <3> QED
        BY <3>1, <3>2, <3>4 DEF CallShape, CallKept
    <2>2. CASE q # r
      <3>1. CallShape(call[q]) /\ CallKept(call[q])'
        BY <2>2 DEF CaptureInv, CaptureCalls
      <3> QED
        BY <1>1, <2>2, <3>1 DEF CallShape
    <2> QED
      BY <2>1, <2>2
  <1>4. ASSUME "decision" \notin overlap', NEW q \in Calls, NEW t \in Calls, q # t
        PROVE  Apart(call[q], call[t])'
    <2>1. Apart(call[q], call[t])
      BY <1>4 DEF CaptureInv, CaptureCalls
    <2> QED
      BY <1>1, <1>4, <2>1 DEF Apart, Deciding, None
  <1>5. ASSUME overlap' = {}, NEW q \in Calls, NEW t \in Calls
        PROVE  Alone(call[q], call[t])'
    <2>1. Alone(call[q], call[t])
      BY <1>5 DEF CaptureInv, CaptureCalls
    <2>2. CallShape(call[q]) /\ CallShape(call[t])
      BY DEF CaptureInv, CaptureCalls
    <2>3. call[q].op = "upload" /\ call[t].op = "issue" => <<call[t].id[1], call[q].id[2]>> \in Sites
      BY <2>2 DEF CallShape, Sites
    <2>4. /\ call'[q].op = "upload" => call[q].op = "upload" /\ call'[q].id = call[q].id
          /\ call'[t].op \in {"issue", "review"} => call[t].op = call'[t].op /\ call'[t].id = call[t].id
      BY <1>1 DEF None
    <2> QED
      BY <2>1, <2>3, <2>4 DEF Alone
  <1> QED
    BY <1>2, <1>3, <1>4, <1>5 DEF CaptureCalls

\* A call writes what it has decided about a site.
LEMMA DecideInv ==
    ASSUME CaptureInv, NEW r \in Calls,
           StartSite(r) \/ SubmitCaptureSite(r) \/ ReviewCaptureSite(r)
    PROVE  CaptureInv'
  <1>1. PICK s : s = call[r].id
    OBVIOUS
  <1>2. call[r] \in CaptureCall /\ CallShape(call[r]) /\ CallKept(call[r])
    BY DEF CaptureInv, CaptureCalls
  <1>3. call[r].at = "loaded" /\ call[r].op \in Deciding /\ s \in Sites
    <2>1. call[r].at = "loaded" /\ call[r].op \in Deciding
      BY DEF StartSite, SubmitCaptureSite, ReviewCaptureSite, Deciding
    <2> QED
      BY <1>1, <1>2, <2>1 DEF CallShape
  <1> DEFINE Decided(v, c) ==
            /\ v \in {"IN_PROGRESS", "SUBMITTED", "ACCEPTED", "REJECTED"}
            /\ site' = [site EXCEPT ![s] = v] /\ call' = [call EXCEPT ![r] = c]
            /\ \/ c = Resting /\ v # "ACCEPTED"
               \/ /\ c = [at |-> "decided", op |-> "review", id |-> s, how |-> None, tag |-> NoSite]
                  /\ call[r].op = "review"
            /\ v = "ACCEPTED" => call[r].op = "review"
            /\ v = "SUBMITTED" => call[r].op = "submit"
  <1>4. PICK v, c : Decided(v, c)
    <2>1. CASE StartSite(r)
      <3>1. Decided("IN_PROGRESS", Resting)
        BY <1>1, <2>1 DEF StartSite, Ready
      <3> HIDE DEF Decided
      <3> QED
        BY <3>1
    <2>2. CASE SubmitCaptureSite(r)
      <3>1. Decided("SUBMITTED", Resting)
        BY <1>1, <2>2 DEF SubmitCaptureSite, Ready
      <3> HIDE DEF Decided
      <3> QED
        BY <3>1
    <2>3. CASE ReviewCaptureSite(r)
      <3>1. /\ call' = [call EXCEPT ![r] = [at |-> "decided", op |-> "review", id |-> s, how |-> None, tag |-> NoSite]]
            /\ site' = [site EXCEPT ![s] = call[r].how] /\ call[r].op = "review"
        BY <1>1, <2>3, GoesIs DEF ReviewCaptureSite
      <3>2. call[r].how \in {"ACCEPTED", "REJECTED"}
        BY <1>2, <1>3, <3>1 DEF CaptureCall, CallShape
      <3>3. Decided(call[r].how, [at |-> "decided", op |-> "review", id |-> s, how |-> None, tag |-> NoSite])
        BY <3>1, <3>2
      <3> HIDE DEF Decided
      <3> QED
        BY <3>3
    <2> QED
      BY <2>1, <2>2, <2>3
  <1>5. UNCHANGED <<job, issues, done, filed, repairing, overlap, cutOff>>
    BY DEF StartSite, SubmitCaptureSite, ReviewCaptureSite
  <1>6. /\ site[s] # None /\ job[s[1]] \in {"ISSUED", "ACCEPTED"}
        /\ "decision" \notin overlap =>
             /\ site[s] # "ACCEPTED" /\ job[s[1]] # "ACCEPTED"
             /\ call[r].op \in {"submit", "review"} => Owed \subseteq done[s]
    <2>1. SiteKept(s)
      BY <1>3 DEF CaptureInv
    <2> QED
      BY <1>1, <1>2, <1>3, <2>1 DEF CallKept, SiteKept, Deciding, None
  <1>7. site'[s] = v /\ v # None /\ \A t \in Sites : t # s => site'[t] = site[t]
    BY <1>3, <1>4 DEF CaptureInv, CaptureTypes, None
  <1>8. CaptureTypes'
    BY <1>4, <1>5 DEF CaptureInv, CaptureTypes, Statuses
  <1>9. JobsIssued'
    BY <1>5 DEF CaptureInv, JobsIssued
  <1>10. UploadFiled'
    BY <1>5, <1>6, <1>7 DEF CaptureInv, UploadFiled
  <1>11. ASSUME NEW t \in Sites PROVE SiteKept(t)'
    <2>1. SiteKept(t)
      BY DEF CaptureInv
    <2> QED
      BY <1>4, <1>5, <1>6, <1>7, <2>1 DEF SiteKept
  <1>12. JobsEnd'
    <2> SUFFICES ASSUME "decision" \notin overlap, NEW j \in Jobs \ cutOff, job[j] # "ACCEPTED"
                 PROVE  Unfinished(j)' \/ \E q \in Calls : Finishing(call'[q], j)
      BY <1>5 DEF JobsEnd, Finishing
    <2>1. call'[r] = c /\ \A q \in Calls : q # r => call'[q] = call[q]
      BY <1>4 DEF CaptureInv, CaptureCalls
    <2>2. CASE j = s[1]
      <3>1. CASE c = Resting
        BY <1>3, <1>4, <1>7, <2>2, <3>1 DEF Unfinished, Resting
      <3>2. CASE c # Resting
        <4>1. Finishing(call'[r], j)
          BY <1>4, <2>1, <2>2, <3>2 DEF Finishing
        <4> QED
          BY <4>1
      <3> QED
        BY <3>1, <3>2
    <2>3. CASE j # s[1]
      <3>1. \A t \in Sites : t[1] = j => site'[t] = site[t]
        BY <1>7, <2>3
      <3>2. Unfinished(j) => Unfinished(j)'
        BY <3>1 DEF Unfinished
      <3>3. \A q \in Calls : Finishing(call[q], j) => Finishing(call'[q], j)
        BY <1>3, <2>1 DEF Finishing
      <3> QED
        BY <3>2, <3>3 DEF CaptureInv, JobsEnd
    <2> QED
      BY <2>2, <2>3
  <1>13. CaptureCalls'
    <2>1. c \in CaptureCall /\ CallShape(c) /\ (c.op = None \/ (c.op = call[r].op /\ c.id = call[r].id))
      <3>1. CASE c = Resting
        BY <3>1, RestingIsShaped DEF Resting
      <3>2. CASE c # Resting
        <4>1. s \in (Jobs \cup {None}) \X (Properties \cup {None})
          BY <1>3 DEF Sites
        <4>2. c \in CaptureCall /\ CallShape(c)
          BY <1>3, <1>4, <3>2, <4>1, LoadedIsShaped DEF Deciding
        <4> QED
          BY <1>1, <1>4, <3>2, <4>2
      <3> QED
        BY <3>1, <3>2
    <2>2. CallKept(c)'
      <3>1. CASE c = Resting
        BY <3>1 DEF Resting, CallKept, Deciding, None
      <3>2. CASE c # Resting
        BY <1>4, <1>5, <1>6, <1>7, <3>2 DEF CallKept, Deciding, None
      <3> QED
        BY <3>1, <3>2
    <2>3. \A t \in Sites : site[t] = None => site'[t] = None
      BY <1>6, <1>7
    <2>4. ASSUME NEW q \in Calls \ {r} PROVE CallKept(call[q])'
      <3>1. PICK d : d = call[q]
        OBVIOUS
      <3>2. CallShape(d) /\ CallKept(d)
        BY <3>1 DEF CaptureInv, CaptureCalls
      <3>3. /\ "decision" \notin overlap => Apart(call[r], d)
            /\ overlap = {} => Alone(d, call[r])
        BY <3>1 DEF CaptureInv, CaptureCalls
      <3>4. call'[q] = d
        BY <1>4, <3>1 DEF CaptureInv, CaptureCalls
      <3>5. d.op \in Deciding => d.id \in Sites /\ site'[d.id] # None
        BY <1>6, <1>7, <3>2 DEF CallShape, CallKept
      <3>6. d.tag # NoSite => d.tag \in Sites /\ site'[d.tag] # None
        BY <1>6, <1>7, <3>2 DEF CallKept
      <3>7. "decision" \notin overlap /\ d.op \in Deciding => site'[d.id] = site[d.id]
        BY <1>1, <1>3, <1>7, <3>2, <3>3, <3>5 DEF Apart
      <3>8. "decision" \notin overlap /\ d.at = "closing" =>
              \A t \in Sites : t[1] = d.id[1] /\ site'[t] # None => site'[t] = "ACCEPTED"
        BY <1>3, <1>6, <1>7, <3>2 DEF CallKept
      <3>9. ASSUME overlap = {}, d.at = "tagged", d.how # "proof"
            PROVE  IF d.tag = NoSite THEN NoneWaits(d.id[2])' ELSE site'[d.tag] # "ACCEPTED"
        <4>1. CASE d.tag = NoSite
          <5>1. NoneWaits(d.id[2])
            BY <3>2, <3>9, <4>1 DEF CallKept
          <5>2. NoneWaits(d.id[2])'
            BY <1>3, <1>5, <1>6, <1>7, <3>9, <5>1 DEF NoneWaits
          <5> QED
            BY <4>1, <5>2
        <4>2. CASE d.tag # NoSite
          <5>1. site[d.tag] # "ACCEPTED" /\ d.tag[2] = d.id[2] /\ d.tag \in Sites /\ d.op = "upload"
            BY <3>2, <3>9, <4>2 DEF CallKept, CallShape
          <5>2. call[r].op = "review" => s # d.tag
            BY <1>1, <3>3, <3>9, <5>1 DEF Alone
          <5> QED
            BY <1>4, <1>7, <4>2, <5>1, <5>2
        <4> QED
          BY <4>1, <4>2
      <3>10. CallKept(d)'
        BY <1>5, <3>2, <3>5, <3>6, <3>7, <3>8, <3>9 DEF CallKept, Deciding, None
      <3> QED
        BY <3>4, <3>10 DEF CallKept
    <2> QED
      BY <1>4, <1>5, <2>1, <2>2, <2>3, <2>4, WriteCaptureCalls
  <1> QED
    BY <1>8, <1>9, <1>10, <1>11, <1>12, <1>13 DEF CaptureInv

\* The vendor's access starts.
LEMMA IssueInv ==
    ASSUME CaptureInv, NEW r \in Calls, IssueCaptureJob(r)
    PROVE  CaptureInv'
  <1>1. PICK j : j = call[r].id[1]
    OBVIOUS
  <1>2. call[r] \in CaptureCall /\ CallShape(call[r]) /\ CallKept(call[r])
    BY DEF CaptureInv, CaptureCalls
  <1>3. /\ call[r].at = "loaded" /\ call[r].op = "issue" /\ j \in Jobs /\ job[j] # None
        /\ "decision" \notin overlap => job[j] = "DRAFT"
    BY <1>1, <1>2 DEF IssueCaptureJob, CallShape, CallKept
  <1>4. /\ job' = [job EXCEPT ![j] = "ISSUED"]
        /\ issues' = Append(RemoveFirst(issues, j), j)
        /\ done' = [s \in Sites |-> IF s[1] = j THEN done[s] \cap {"route"} ELSE done[s]]
        /\ call' = [call EXCEPT ![r] = Resting] /\ Resting.op = None
        /\ UNCHANGED <<site, filed, repairing, overlap, cutOff>>
    BY <1>1 DEF IssueCaptureJob, Ready, Resting
  <1>5. job'[j] = "ISSUED" /\ \A k \in Jobs : k # j => job'[k] = job[k]
    BY <1>3, <1>4 DEF CaptureInv, CaptureTypes
  <1>6. \A s \in Sites : s[1] \in Jobs /\ (s[1] # j => done'[s] = done[s])
    BY <1>4 DEF Sites
  <1>7. CaptureTypes'
    BY <1>3, <1>4 DEF CaptureInv, CaptureTypes
  <1>8. JobsIssued'
    <2>1. /\ issues' \in Seq(Jobs) /\ IsInjective(issues')
          /\ ToSet(issues') = ToSet(issues) \cup {j}
      BY <1>3, <1>4, IssuedLast DEF CaptureInv, JobsIssued
    <2> QED
      BY <1>3, <1>5, <2>1 DEF CaptureInv, JobsIssued
  <1>9. UploadFiled'
    BY <1>4 DEF CaptureInv, UploadFiled
  <1>10. ASSUME NEW s \in Sites PROVE SiteKept(s)'
    <2>1. SiteKept(s)
      BY DEF CaptureInv
    <2> QED
      BY <1>3, <1>4, <1>5, <1>6, <2>1 DEF SiteKept, None
  <1>11. JobsEnd'
    <2> SUFFICES ASSUME "decision" \notin overlap, NEW k \in Jobs \ cutOff, job'[k] # "ACCEPTED"
                 PROVE  Unfinished(k)' \/ \E q \in Calls : Finishing(call'[q], k)
      BY <1>4 DEF JobsEnd, Finishing
    <2>1. Unfinished(k)' = Unfinished(k)
      BY <1>4 DEF Unfinished
    <2>2. \A q \in Calls : Finishing(call[q], k) => Finishing(call'[q], k)
      BY <1>3, <1>4 DEF CaptureInv, CaptureCalls, Finishing
    <2>3. CASE k = j
      <3>1. \A s \in Sites : s[1] = j => site[s] \in {None, "PENDING"}
        BY <1>3 DEF CaptureInv, SiteKept
      <3> QED
        BY <2>1, <2>3, <3>1 DEF Unfinished, None
    <2>4. CASE k # j
      BY <1>5, <2>1, <2>2, <2>4 DEF CaptureInv, JobsEnd
    <2> QED
      BY <2>3, <2>4
  <1>12. CaptureCalls'
    <2>1. CallKept(Resting)'
      BY DEF Resting, CallKept, Deciding, None
    <2>2. ASSUME NEW q \in Calls \ {r} PROVE CallKept(call[q])'
      <3>1. PICK d : d = call[q]
        OBVIOUS
      <3>2. CallShape(d) /\ CallKept(d)
        BY <3>1 DEF CaptureInv, CaptureCalls
      <3>3. /\ "decision" \notin overlap => Apart(call[r], d)
            /\ overlap = {} => Alone(d, call[r])
        BY <3>1 DEF CaptureInv, CaptureCalls
      <3>4. call'[q] = d
        BY <1>4, <3>1 DEF CaptureInv, CaptureCalls
      <3>5. d.op \in Deciding => d.id \in Sites
        BY <3>2 DEF CallShape
      <3>6. ASSUME "decision" \notin overlap PROVE d.op \in Deciding => d.id[1] # j
        BY <1>3, <3>2, <3>6 DEF CallKept
      <3>7. d.op = "issue" => job'[d.id[1]] # None
        BY <1>5, <3>2 DEF CallKept, CallShape, None
      <3>8. d.op \in Deciding => job'[d.id[1]] \in {"ISSUED", "ACCEPTED"}
        BY <1>5, <1>6, <3>2, <3>5 DEF CallKept
      <3>9. "decision" \notin overlap /\ d.op = "issue" => job'[d.id[1]] = "DRAFT"
        BY <1>1, <1>3, <1>5, <3>2, <3>3 DEF CallKept, CallShape, Apart
      <3>10. ASSUME overlap = {}, d.at = "tagged", d.tag = NoSite, NoneWaits(d.id[2])
             PROVE  NoneWaits(d.id[2])'
        <4>1. d.op = "upload" /\ d.id[2] \in Properties /\ site[<<j, d.id[2]>>] = None
          BY <1>1, <1>3, <3>2, <3>3, <3>10 DEF CallShape, Alone
        <4>2. \A s \in Sites : s[1] = j /\ s[2] = d.id[2] => s = <<j, d.id[2]>>
          BY DEF Sites
        <4> QED
          BY <1>4, <1>5, <1>6, <3>10, <4>1, <4>2 DEF NoneWaits
      <3>11. CallKept(d)'
        BY <1>4, <1>6, <3>2, <3>5, <3>6, <3>7, <3>8, <3>9, <3>10 DEF CallKept, Deciding, None
      <3> QED
        BY <3>4, <3>11 DEF CallKept
    <2> QED
      BY <1>4, <2>1, <2>2, RestingIsShaped, WriteCaptureCalls
  <1> QED
    BY <1>7, <1>8, <1>9, <1>10, <1>11, <1>12 DEF CaptureInv

\* The vendor's access ends.
LEMMA CloseInv ==
    ASSUME CaptureInv, NEW r \in Calls, CloseJob(r)
    PROVE  CaptureInv'
  <1>1. PICK j : j = call[r].id[1]
    OBVIOUS
  <1>2. call[r] \in CaptureCall /\ CallShape(call[r]) /\ CallKept(call[r])
    BY DEF CaptureInv, CaptureCalls
  <1>3. /\ call[r].at = "closing" /\ call[r].op = "review" /\ j \in Jobs
        /\ job[j] \in {"ISSUED", "ACCEPTED"}
        /\ "decision" \notin overlap => \A s \in Sites : s[1] = j /\ site[s] # None => site[s] = "ACCEPTED"
    BY <1>1, <1>2 DEF CloseJob, CallShape, CallKept, Deciding, Sites
  <1>4. /\ job' = [job EXCEPT ![j] = "ACCEPTED"]
        /\ call' = [call EXCEPT ![r] = Resting] /\ Resting.op = None
        /\ UNCHANGED <<site, issues, done, filed, repairing, overlap, cutOff>>
    BY <1>1 DEF CloseJob, Ready, Resting
  <1>5. job'[j] = "ACCEPTED" /\ \A k \in Jobs : k # j => job'[k] = job[k]
    BY <1>3, <1>4 DEF CaptureInv, CaptureTypes
  <1>6. \A s \in Sites : s[1] \in Jobs
    BY DEF Sites
  <1>7. CaptureTypes'
    BY <1>3, <1>4 DEF CaptureInv, CaptureTypes
  <1>8. JobsIssued'
    BY <1>3, <1>4, <1>5 DEF CaptureInv, JobsIssued
  <1>9. UploadFiled'
    BY <1>4 DEF CaptureInv, UploadFiled
  <1>10. ASSUME NEW s \in Sites PROVE SiteKept(s)'
    <2>1. SiteKept(s)
      BY DEF CaptureInv
    <2> QED
      BY <1>3, <1>4, <1>5, <1>6, <2>1 DEF SiteKept, None
  <1>11. JobsEnd'
    <2> SUFFICES ASSUME "decision" \notin overlap, NEW k \in Jobs \ cutOff, job'[k] # "ACCEPTED"
                 PROVE  Unfinished(k)' \/ \E q \in Calls : Finishing(call'[q], k)
      BY <1>4 DEF JobsEnd, Finishing
    <2>1. k # j
      BY <1>5
    <2>2. Unfinished(k)' = Unfinished(k)
      BY <1>4 DEF Unfinished
    <2>3. \A q \in Calls : Finishing(call[q], k) => Finishing(call'[q], k)
      BY <1>1, <1>4, <2>1 DEF CaptureInv, CaptureCalls, Finishing
    <2> QED
      BY <1>5, <2>1, <2>2, <2>3 DEF CaptureInv, JobsEnd
  <1>12. CaptureCalls'
    <2>1. CallKept(Resting)'
      BY DEF Resting, CallKept, Deciding, None
    <2>2. ASSUME NEW q \in Calls \ {r} PROVE CallKept(call[q])'
      <3>1. PICK d : d = call[q]
        OBVIOUS
      <3>2. CallShape(d) /\ CallKept(d)
        BY <3>1 DEF CaptureInv, CaptureCalls
      <3>3. call'[q] = d
        BY <1>4, <3>1 DEF CaptureInv, CaptureCalls
      <3>4. d.op \in Deciding => d.id \in Sites
        BY <3>2 DEF CallShape
      <3>5. d.op = "issue" => /\ job'[d.id[1]] # None
                              /\ "decision" \notin overlap => job'[d.id[1]] = "DRAFT"
        BY <1>3, <1>5, <3>2 DEF CallKept, CallShape, None
      <3>6. d.op \in Deciding => job'[d.id[1]] \in {"ISSUED", "ACCEPTED"}
        BY <1>5, <1>6, <3>2, <3>4 DEF CallKept
      <3>7. NoneWaits(d.id[2]) => NoneWaits(d.id[2])'
        BY <1>4, <1>5, <1>6 DEF NoneWaits
      <3>8. CallKept(d)'
        BY <1>4, <3>2, <3>5, <3>6, <3>7 DEF CallKept, Deciding, None
      <3> QED
        BY <3>3, <3>8 DEF CallKept
    <2> QED
      BY <1>4, <2>1, <2>2, RestingIsShaped, WriteCaptureCalls
  <1> QED
    BY <1>7, <1>8, <1>9, <1>10, <1>11, <1>12 DEF CaptureInv

LEMMA OrderJobInv ==
    ASSUME CaptureInv, NEW j \in Jobs, NEW ps \in SUBSET Properties, CreateCaptureJob(j, ps)
    PROVE  CaptureInv'
  <1>1. /\ job[j] = None /\ job' = [job EXCEPT ![j] = "DRAFT"]
        /\ site' = [s \in Sites |-> IF s[1] = j /\ s[2] \in ps THEN "PENDING" ELSE site[s]]
        /\ UNCHANGED issues /\ UNCHANGED done /\ UNCHANGED filed /\ UNCHANGED repairing
        /\ UNCHANGED call /\ UNCHANGED overlap /\ UNCHANGED cutOff
    BY Zenon DEF CreateCaptureJob
  <1>2. job'[j] = "DRAFT" /\ \A k \in Jobs : k # j => job'[k] = job[k]
    BY <1>1 DEF CaptureInv, CaptureTypes
  <1>3. \A s \in Sites : /\ s[1] \in Jobs
                         /\ s[1] # j => site'[s] = site[s]
                         /\ s[1] = j => site[s] = None /\ site'[s] \in {None, "PENDING"}
    BY <1>1 DEF CaptureInv, SiteKept, Sites
  <1>4. CaptureTypes'
    BY <1>1 DEF CaptureInv, CaptureTypes, Statuses
  <1>5. JobsIssued'
    BY <1>1, <1>2 DEF CaptureInv, JobsIssued, None
  <1>6. UploadFiled'
    BY <1>1, <1>3 DEF CaptureInv, UploadFiled
  <1>7. ASSUME NEW s \in Sites PROVE SiteKept(s)'
    <2>1. SiteKept(s)
      BY DEF CaptureInv
    <2> QED
      BY <1>1, <1>2, <1>3, <2>1 DEF SiteKept, None
  <1>8. JobsEnd'
    <2> SUFFICES ASSUME "decision" \notin overlap, NEW k \in Jobs \ cutOff, job'[k] # "ACCEPTED"
                 PROVE  Unfinished(k)' \/ \E q \in Calls : Finishing(call[q], k)
      BY <1>1 DEF JobsEnd, Finishing
    <2>1. CASE k = j
      BY <1>3, <2>1 DEF Unfinished, None
    <2>2. CASE k # j
      <3>1. Unfinished(k) => Unfinished(k)'
        BY <1>3, <2>2 DEF Unfinished
      <3> QED
        BY <1>2, <2>2, <3>1 DEF CaptureInv, JobsEnd
    <2> QED
      BY <2>1, <2>2
  <1>9. CaptureCalls'
    <2>1. ASSUME NEW q \in Calls PROVE (CallShape(call[q]) /\ CallKept(call[q]))'
      <3>1. PICK d : d = call[q]
        OBVIOUS
      <3>2. CallShape(d) /\ CallKept(d)
        BY <3>1 DEF CaptureInv, CaptureCalls
      <3>3. call'[q] = d
        BY <1>1, <3>1
      <3>4. d.op \in Deciding => d.id \in Sites /\ d.id[1] # j
        BY <1>1, <3>2 DEF CallShape, CallKept, None
      <3>5. d.op = "issue" => d.id[1] \in Jobs /\ d.id[1] # j
        BY <1>1, <3>2 DEF CallShape, CallKept
      <3>6. d.tag # NoSite => d.tag \in Sites /\ d.tag[1] # j
        BY <1>3, <3>2 DEF CallKept
      <3>7. NoneWaits(d.id[2]) => NoneWaits(d.id[2])'
        BY <1>2, <1>3 DEF NoneWaits
      <3>8. d.at = "closing" => d.op = "review"
        BY <3>2 DEF CallShape
      <3>9. CallKept(d)'
        BY <1>1, <1>2, <1>3, <3>2, <3>4, <3>5, <3>6, <3>7, <3>8 DEF CallKept, Deciding
      <3> QED
        BY <3>2, <3>3, <3>9 DEF CallKept, CallShape
    <2>2. ASSUME overlap = {}, NEW q \in Calls, NEW t \in Calls PROVE Alone(call[q], call[t])'
      <3>1. Alone(call[q], call[t])
        BY <2>2 DEF CaptureInv, CaptureCalls
      <3>2. /\ CallShape(call[q]) /\ CallShape(call[t])
            /\ call[t].op = "issue" => job[call[t].id[1]] # None
        BY DEF CaptureInv, CaptureCalls, CallKept
      <3>3. call[q].op = "upload" /\ call[t].op = "issue" =>
              /\ <<call[t].id[1], call[q].id[2]>> \in Sites
              /\ <<call[t].id[1], call[q].id[2]>>[1] # j
        BY <1>1, <3>2 DEF CallShape, Sites
      <3> QED
        BY <1>1, <1>3, <3>1, <3>3 DEF Alone
    <2>3. ASSUME "decision" \notin overlap, NEW q \in Calls, NEW t \in Calls, q # t
          PROVE  Apart(call[q], call[t])'
      BY <1>1, <2>3 DEF CaptureInv, CaptureCalls, Apart
    <2> QED
      BY <1>1, <2>1, <2>2, <2>3 DEF CaptureCalls, CaptureInv
  <1> QED
    BY <1>4, <1>5, <1>6, <1>7, <1>8, <1>9 DEF CaptureInv

\* What is uploaded is added to what was made.
LEMMA UploadAdds ==
    ASSUME CaptureInv, NEW p, NEW s
    PROVE  /\ WithUpload(p, s) \in [Sites -> SUBSET Owed]
           /\ \A t \in Sites : done[t] \subseteq WithUpload(p, s)[t]
  <1>1. \A t \in Sites : done[t] \subseteq Made(p, "photos")[t] /\ Made(p, "photos")[t] \subseteq Owed
    BY DEF Made, CaptureInv, CaptureTypes, Owed
  <1> QED
    BY <1>1 DEF WithUpload, Owed

\* More is made, and perhaps a row is filed.
LEMMA MadeCaptureInv ==
    ASSUME CaptureInv, NEW p, NEW s, done' = WithUpload(p, s),
           UNCHANGED <<job, site, issues, repairing, overlap, cutOff>>
    PROVE  /\ CaptureTypes' /\ JobsIssued' /\ \A t \in Sites : SiteKept(t)'
           /\ \A c : CallShape(c) /\ CallKept(c) => CallKept(c)'
  <1>1. done' \in [Sites -> SUBSET Owed] /\ \A t \in Sites : done[t] \subseteq done'[t]
    BY UploadAdds
  <1>2. CaptureTypes'
    BY <1>1 DEF CaptureInv, CaptureTypes
  <1>3. JobsIssued'
    BY DEF CaptureInv, JobsIssued
  <1>4. \A t \in Sites : SiteKept(t)'
    BY <1>1 DEF CaptureInv, SiteKept
  <1>5. ASSUME NEW c, CallShape(c), CallKept(c) PROVE CallKept(c)'
    <2>1. \A x : NoneWaits(x)' = NoneWaits(x)
      BY DEF NoneWaits
    <2>2. c.op = "submit" => c.id \in Sites
      BY <1>5 DEF CallShape, Deciding
    <2> QED
      BY <1>1, <1>5, <2>1, <2>2 DEF CallKept
  <1> QED
    BY <1>2, <1>3, <1>4, <1>5

LEMMA OwnUploadInv ==
    ASSUME CaptureInv, NEW p \in Properties, NEW s, OwnUpload(p, s)
    PROVE  CaptureInv'
  <1>1. /\ done' = WithUpload(p, s)
        /\ UNCHANGED <<job, site, issues, filed, repairing, call, overlap, cutOff>>
    BY DEF OwnUpload
  <1>2. /\ CaptureTypes' /\ JobsIssued' /\ \A t \in Sites : SiteKept(t)'
        /\ \A c : CallShape(c) /\ CallKept(c) => CallKept(c)'
    BY <1>1, MadeCaptureInv
  <1>3. UploadFiled' /\ JobsEnd'
    BY <1>1 DEF CaptureInv, UploadFiled, JobsEnd, Unfinished, Finishing
  <1>4. CaptureCalls'
    <2>1. ASSUME NEW q \in Calls PROVE (CallShape(call[q]) /\ CallKept(call[q]))'
      <3>1. PICK d : d = call[q]
        OBVIOUS
      <3>2. CallShape(d) /\ CallKept(d)'
        BY <1>2, <3>1 DEF CaptureInv, CaptureCalls
      <3> QED
        BY <1>1, <3>1, <3>2 DEF CallShape, CallKept
    <2> QED
      BY <1>1, <2>1 DEF CaptureInv, CaptureCalls, Apart, Alone
  <1> QED
    BY <1>2, <1>3, <1>4 DEF CaptureInv

LEMMA CreateEvidenceInv ==
    ASSUME CaptureInv, NEW r \in Calls, CreateEvidence(r)
    PROVE  CaptureInv'
  <1>1. PICK p, s, tag : p = call[r].id[2] /\ s = call[r].id /\ tag = call[r].tag
    OBVIOUS
  <1>2. call[r] \in CaptureCall /\ CallShape(call[r]) /\ CallKept(call[r])
    BY DEF CaptureInv, CaptureCalls
  <1>3. /\ call[r].at = "tagged" /\ call[r].op = "upload" /\ done' = WithUpload(p, s)
        /\ call' = [call EXCEPT ![r] = Resting] /\ Resting.op = None
        /\ UNCHANGED <<job, site, issues, repairing, overlap, cutOff>>
    BY <1>1, <1>2 DEF CreateEvidence, Ready, Resting, CallShape
  <1>4. /\ CaptureTypes' /\ JobsIssued' /\ \A t \in Sites : SiteKept(t)'
        /\ \A c : CallShape(c) /\ CallKept(c) => CallKept(c)'
    BY <1>3, MadeCaptureInv
  <1>5. UploadFiled'
    <2>1. PICK open : open = {t \in SitesAt(p) : Open(t[1]) /\ site[t] # "ACCEPTED"}
      OBVIOUS
    <2>2. filed' = [tag |-> tag, due |-> \/ call[r].how = "proof"
                                         \/ IF tag = NoSite THEN open = {} ELSE site[tag] # "ACCEPTED"]
      BY <1>1, <2>1, Zenon DEF CreateEvidence
    <2>3. tag # NoSite => tag \in Sites /\ site[tag] # None
      BY <1>1, <1>2 DEF CallKept
    <2>4. ASSUME overlap = {}, call[r].how # "proof" PROVE IF tag = NoSite THEN open = {} ELSE site[tag] # "ACCEPTED"
      <3>1. IF tag = NoSite THEN NoneWaits(p) ELSE site[tag] # "ACCEPTED"
        BY <1>1, <1>2, <1>3, <2>4 DEF CallKept
      <3>2. NoneWaits(p) => open = {}
        BY <2>1 DEF NoneWaits, SitesAt, Open
      <3> QED
        BY <3>1, <3>2
    <2>5. filed'.tag = tag /\ (overlap = {} => filed'.due)
      BY <2>2, <2>4, Zenon
    <2> QED
      BY <1>3, <2>3, <2>5 DEF UploadFiled
  <1>6. JobsEnd'
    <2>1. \A k : Unfinished(k)' = Unfinished(k)
      BY <1>3 DEF Unfinished
    <2>2. \A q \in Calls, k \in Jobs : Finishing(call[q], k) => Finishing(call'[q], k)
      BY <1>3 DEF CaptureInv, CaptureCalls, Finishing
    <2> QED
      BY <1>3, <2>1, <2>2 DEF CaptureInv, JobsEnd
  <1>7. CaptureCalls'
    <2>1. CallKept(Resting)'
      BY <1>4, RestingIsShaped
    <2>2. ASSUME NEW q \in Calls \ {r} PROVE CallKept(call[q])'
      <3>1. PICK d : d = call[q]
        OBVIOUS
      <3>2. CallKept(d)' /\ call'[q] = d
        BY <1>3, <1>4, <3>1 DEF CaptureInv, CaptureCalls
      <3> QED
        BY <3>2 DEF CallKept
    <2> QED
      BY <1>3, <2>1, <2>2, RestingIsShaped, WriteCaptureCalls
  <1> QED
    BY <1>4, <1>5, <1>6, <1>7 DEF CaptureInv

LEMMA NextCaptureInv == CaptureInv /\ Next => CaptureInv'
  <1> SUFFICES ASSUME CaptureInv, Next PROVE CaptureInv'
    OBVIOUS
  <1>1. ASSUME NEW j \in Jobs, NEW ps \in SUBSET Properties, CreateCaptureJob(j, ps) PROVE CaptureInv'
    BY <1>1, OrderJobInv, Zenon
  <1>2. ASSUME NEW p \in Properties, NEW j \in Jobs \cup {None}, OwnUpload(p, <<j, p>>) PROVE CaptureInv'
    BY <1>2, OwnUploadInv
  <1>3. ASSUME NEW r \in Calls, NEW j \in Jobs, LoadIssue(r, j) PROVE CaptureInv'
    BY <1>3, LoadIssueInv
  <1>4. ASSUME NEW r \in Calls, NEW s \in Sites,
               \/ LoadScores(r, s) \/ LoadSubmit(r, s)
               \/ \E d \in {"ACCEPTED", "REJECTED"} : LoadReview(r, s, d)
        PROVE  CaptureInv'
    BY <1>4, LoadSiteInv
  <1>5. ASSUME NEW r \in Calls, StartSite(r) \/ SubmitCaptureSite(r) \/ ReviewCaptureSite(r)
        PROVE  CaptureInv'
    BY <1>5, DecideInv
  <1>6. ASSUME NEW r \in Calls, NEW p \in Properties, NEW j \in Jobs \cup {None},
               NEW about \in {None, "proof"}, UploadArrives(r, p, <<j, p>>, about)
        PROVE  CaptureInv'
    BY <1>6, UploadArrivesInv
  <1>7. ASSUME NEW r \in Calls,
               \/ IssueCaptureJob(r) \/ CountRemaining(r) \/ CloseJob(r)
               \/ UploadTagged(r) \/ CreateEvidence(r) \/ BreaksOff(r)
        PROVE  CaptureInv'
    BY <1>7, IssueInv, CountRemainingInv, CloseInv, UploadTaggedInv, CreateEvidenceInv, BreaksOffInv
  <1> QED
    BY <1>1, <1>2, <1>3, <1>4, <1>5, <1>6, <1>7, Zenon DEF Next

LEMMA SameCaptureInv == CaptureInv /\ UNCHANGED captureVars => CaptureInv'
  <1> SUFFICES ASSUME CaptureInv, UNCHANGED captureVars PROVE CaptureInv'
    OBVIOUS
  <1>1. UNCHANGED <<job, site, issues, done, filed, repairing, call, overlap, cutOff>>
    BY DEF captureVars
  <1>2. CaptureTypes' /\ JobsIssued' /\ UploadFiled'
    BY <1>1 DEF CaptureInv, CaptureTypes, JobsIssued, UploadFiled
  <1>3. JobsEnd' /\ \A s \in Sites : SiteKept(s)'
    BY <1>1 DEF CaptureInv, JobsEnd, Unfinished, Finishing, SiteKept
  <1>4. CaptureCalls'
    BY <1>1 DEF CaptureInv, CaptureCalls, CallShape, CallKept, NoneWaits, Apart, Alone
  <1> QED
    BY <1>2, <1>3, <1>4 DEF CaptureInv

LEMMA SpecCaptureInv == FieldSpec => []CaptureInv
  <1>1. FieldInit => CaptureInv
    BY InitCaptureInv DEF FieldInit
  <1>2. CaptureInv /\ [CaptureStep \/ RepairStep \/ PanoramaStep \/ FlightStep \/ TourStep]_all
          => CaptureInv'
    BY NextCaptureInv, SameCaptureInv DEF CaptureStep, RepairStep, PanoramaStep, FlightStep, TourStep, all
  <1> QED
    BY <1>1, <1>2, PTL DEF FieldSpec

\* As long as no two calls decided about one site at a time: a capture job is
\* closed exactly when all its sites are accepted, unless a review broke off,
\* and no site is waiting or accepted with something owed; and where no calls
\* overlapped an upload is held for a review that is still to come.  For any
\* number of jobs, properties and requests.
THEOREM SitesStayAccountedFor == FieldSpec => []SitesAreAccountedFor
  <1>1. ASSUME CaptureInv PROVE SitesAreAccountedFor
    <2>1. TypeOK
      BY <1>1 DEF TypeOK, CaptureInv, CaptureTypes, JobsIssued, UploadFiled, CaptureCalls, SiteKept
    <2>2. ClosedMeansAccepted
      BY <1>1 DEF ClosedMeansAccepted, SitesOf, CaptureInv, SiteKept
    <2>3. DeliveredIsComplete
      BY <1>1 DEF DeliveredIsComplete, CaptureInv, SiteKept
    <2>4. HeldForReview
      BY <1>1 DEF HeldForReview, CaptureInv, UploadFiled
    <2>5. AccessEnds
      <3> SUFFICES ASSUME "decision" \notin overlap, NEW j \in Jobs \ cutOff, SitesOf(j) # {},
                          \A s \in SitesOf(j) : site[s] = "ACCEPTED", job[j] # "ACCEPTED"
                   PROVE  \E r \in Calls : call[r].at \in {"decided", "closing"} /\ call[r].id[1] = j
        BY DEF AccessEnds
      <3>1. ~ Unfinished(j)
        BY DEF Unfinished, SitesOf
      <3> QED
        BY <1>1, <3>1 DEF CaptureInv, JobsEnd, Finishing
    <2> QED
      BY <2>1, <2>2, <2>3, <2>4, <2>5 DEF SitesAreAccountedFor
  <1> QED
    BY <1>1, SpecCaptureInv, PTL

------------------------------------------------------------------------------
(* 360 photos *)

LEMMA CardinalityInPanoramas == \A S : P!Cardinality(S) = Cardinality(S)
  BY DEF P!Cardinality, Cardinality

\* The rank of a number in a finite set says how many are before it: ranks keep
\* the order, and every place is taken.
LEMMA RankKeepsOrder ==
    ASSUME NEW S \in SUBSET Nat, IsFiniteSet(S), NEW x \in S, NEW y \in Nat
    PROVE  /\ P!Rank(x, S) \in Nat /\ P!Rank(y, S) \in Nat
           /\ x < y => P!Rank(x, S) < P!Rank(y, S)
  <1> DEFINE Below(z) == {w \in S : w < z}
  <1>1. \A z : Below(z) \in SUBSET S
    OBVIOUS
  <1>2. \A z : IsFiniteSet(Below(z)) /\ Cardinality(Below(z)) \in Nat
    BY <1>1, FS_Subset, FS_CardinalityType
  <1>3. \A z : P!Rank(z, S) = Cardinality(Below(z))
    BY CardinalityInPanoramas DEF P!Rank
  <1>4. ASSUME x < y PROVE Cardinality(Below(x)) < Cardinality(Below(y))
    <2>0. ASSUME NEW w \in S, w < x PROVE w < y
      <3>1. w \in Nat /\ x \in Nat
        OBVIOUS
      <3> QED
        BY <1>4, <2>0, <3>1
    <2>1. Below(x) \cup {x} \in SUBSET Below(y) /\ x \notin Below(x)
      <3>1. \A w \in Below(x) : w \in Below(y)
        BY <2>0
      <3>2. x \in Below(y) /\ x \notin Below(x)
        BY <1>4
      <3> QED
        BY <3>1, <3>2
    <2> HIDE DEF Below
    <2>2. Cardinality(Below(x) \cup {x}) = Cardinality(Below(x)) + 1
      BY <1>2, <2>1, FS_AddElement
    <2>3. Cardinality(Below(x) \cup {x}) <= Cardinality(Below(y))
      BY <1>2, <2>1, FS_Subset
    <2> QED
      BY <1>2, <2>2, <2>3
  <1> QED
    BY <1>2, <1>3, <1>4

LEMMA RankInRange ==
    ASSUME NEW S \in SUBSET Nat, IsFiniteSet(S), NEW x \in S
    PROVE  P!Rank(x, S) \in 0 .. (Cardinality(S) - 1)
  <1> DEFINE Below == {w \in S : w < x}
  <1>1. Below \in SUBSET (S \ {x})
    OBVIOUS
  <1>2. P!Rank(x, S) = Cardinality(Below)
    BY CardinalityInPanoramas DEF P!Rank
  <1> HIDE DEF Below
  <1>3. IsFiniteSet(S \ {x}) /\ Cardinality(S \ {x}) = Cardinality(S) - 1
    BY FS_RemoveElement
  <1>4. IsFiniteSet(Below) /\ Cardinality(Below) <= Cardinality(S) - 1
    BY <1>1, <1>3, FS_Subset
  <1> QED
    BY <1>2, <1>4, FS_CardinalityType

LEMMA RankIsTaken ==
    ASSUME NEW S \in SUBSET Nat, IsFiniteSet(S), NEW r \in 0 .. (Cardinality(S) - 1)
    PROVE  \E s \in S : P!Rank(s, S) = r
  <1> DEFINE ranks == 0 .. (Cardinality(S) - 1)
             rank == [s \in S |-> P!Rank(s, S)]
  <1>1. Cardinality(S) \in Nat
    BY FS_CardinalityType
  <1>2. IsFiniteSet(ranks) /\ Cardinality(ranks) = Cardinality(S)
    BY <1>1, FS_Interval
  <1>3. rank \in [S -> ranks]
    BY RankInRange
  <1>4. ASSUME NEW x \in S, NEW y \in S, rank[x] = rank[y] PROVE x = y
    <2>1. P!Rank(x, S) = P!Rank(y, S)
      BY <1>4
    <2>2. ~ (x < y) /\ ~ (y < x)
      BY <2>1, RankKeepsOrder
    <2> QED
      BY <2>2
  <1>5. rank \in Injection(S, ranks)
    BY <1>3, <1>4 DEF Injection, IsInjective
  <1> HIDE DEF ranks
  <1>6. rank \in Surjection(S, ranks)
    BY <1>2, <1>5, FS_Injection
  <1> QED
    BY <1>6 DEF Surjection, ranks

LEMMA SameOrder ==
    ASSUME NEW a \in Nat, NEW b \in Nat, NEW c \in Nat, NEW d \in Nat,
           a < b => c < d, b < a => d < c, a = b => c = d
    PROVE  (a < b <=> c < d) /\ (a # b => c # d)
  OBVIOUS

\* Photos of a finite set are paired in order with as many positions.
LEMMA PairIsTaken ==
    ASSUME NEW photos \in SUBSET Nat, IsFiniteSet(photos),
           NEW open \in SUBSET Nat, IsFiniteSet(open),
           Cardinality(photos) = Cardinality(open), NEW f \in photos
    PROVE  \E t \in open : P!Rank(t, open) = P!Rank(f, photos)
  BY RankInRange, RankIsTaken

LEMMA PairsInOrder ==
    ASSUME NEW photos \in SUBSET Nat, IsFiniteSet(photos),
           NEW open \in SUBSET Nat, IsFiniteSet(open),
           NEW f \in photos, NEW g \in photos, NEW s \in open, NEW u \in open,
           P!Rank(s, open) = P!Rank(f, photos), P!Rank(u, open) = P!Rank(g, photos)
    PROVE  (f < g <=> s < u) /\ (f # g => s # u)
  <1>4. ASSUME NEW a \in photos, NEW b \in photos, NEW c \in open, NEW d \in open, a < b,
               P!Rank(c, open) = P!Rank(a, photos), P!Rank(d, open) = P!Rank(b, photos)
        PROVE  c < d
    <2>1. P!Rank(c, open) < P!Rank(d, open) /\ P!Rank(c, open) \in Nat
      <3>1. b \in Nat
        OBVIOUS
      <3> QED
        BY <1>4, <3>1, RankKeepsOrder
    <2>2. c \in Nat /\ d \in Nat
      OBVIOUS
    <2>3. c # d
      BY <2>1
    <2>4. ~ (d < c)
      <3>1. d < c => P!Rank(d, open) < P!Rank(c, open) /\ P!Rank(d, open) \in Nat
        BY <2>2, RankKeepsOrder
      <3> QED
        BY <2>1, <3>1
    <2> QED
      BY <2>2, <2>3, <2>4
  <1>5. /\ f \in Nat /\ g \in Nat /\ s \in Nat /\ u \in Nat
        /\ f < g => s < u
        /\ g < f => u < s
    BY <1>4
  <1>6. ASSUME f = g PROVE s = u
    <2>1. P!Rank(s, open) = P!Rank(u, open)
      BY <1>6
    <2>2. /\ s < u => P!Rank(s, open) < P!Rank(u, open)
          /\ u < s => P!Rank(u, open) < P!Rank(s, open)
          /\ P!Rank(s, open) \in Nat
      BY <1>5, RankKeepsOrder
    <2> QED
      BY <1>5, <2>1, <2>2
  <1> QED
    BY <1>5, <1>6, SameOrder

Importing == run.at \in {"upload", "register"}

\* Where a photo is to go, and a photo as registered.
PlanTarget == [shot : P!Shots \cup {P!Nowhere}, how : {"GPS", "ORDER", "hand", "none"}, pin : Nat]
PhotoRow == [file : P!Photos, sum : STRING, place : Nat, shot : P!Shots \cup {P!Nowhere},
             how : {"GPS", "ORDER", "hand", "none"}, pin : Nat, fresh : BOOLEAN, import : Nat]
Verdicts == {"absent", "ready", "duplicate", "far", "other", "uploading", "uploaded", "failed"}

\* Every row of a photo, registered or on its way.
CardRows == {evidence[i] : i \in DOMAIN evidence} \cup {flying[i] : i \in DOMAIN flying}

Plans == UNION {[S -> PlanTarget] : S \in SUBSET P!Photos}
ImportRun == [at : {"idle", "scanned", "upload", "register", "done"}, todo : SUBSET P!Photos,
              plan : Plans, fresh : BOOLEAN, checked : BOOLEAN, n : Nat]

CardTypes ==
    /\ card \in Seq([sum : STRING, place : Nat, class : {"ready", "far", "other"}])
    /\ IsFiniteSet(P!Shots) /\ P!Shots \subseteq Nat \ {0}
    /\ pins \in [P!Shots -> Nat]
    /\ page.pins \in [P!Shots -> Nat] /\ page.captured \subseteq P!Shots
    /\ panel \in [P!Photos -> [verdict : Verdicts, hand : P!Shots \cup {P!Nowhere, P!Auto}]]
    /\ run \in ImportRun
    /\ evidence \in Seq(PhotoRow) /\ flying \in Seq(PhotoRow)

\* No photo goes automatically to a pin that is elsewhere.
Heeded(how, place, pin) ==
    how \in {"GPS", "ORDER"} /\ place # P!Nowhere => pin \in {P!Nowhere, place}

\* What an import is to do: a photo placed by walking order has a position that
\* no other photo is to go to, and these photos keep their order.
PlanFits(plan) ==
    /\ DOMAIN plan \subseteq P!Photos
    /\ \A f \in DOMAIN plan : plan[f] \in PlanTarget /\ Heeded(plan[f].how, card[f].place, plan[f].pin)
    /\ \A f, g \in DOMAIN plan : plan[f].how = "ORDER" =>
         /\ g # f => plan[g].shot # plan[f].shot
         /\ plan[g].how = "ORDER" => (f < g <=> plan[f].shot < plan[g].shot)

PlanKept == Importing => PlanFits(run.plan) /\ run.todo \subseteq DOMAIN run.plan /\ run.n # 0

\* A row says of its photo what the card does; one of the import under way
\* says what its plan does.
RowKept(row) ==
    /\ row.sum = card[row.file].sum /\ row.place = card[row.file].place
    /\ Heeded(row.how, row.place, row.pin)
    /\ row.import <= run.n
    /\ Importing /\ row.import = run.n =>
         row.file \in DOMAIN run.plan /\ row.shot = run.plan[row.file].shot /\ row.how = run.plan[row.file].how
    /\ row.import = 0 => row.how = "hand"

InOrder(a, b) == a.how = "ORDER" /\ b.how = "ORDER" /\ a.import = b.import =>
                   (a.file < b.file <=> a.shot < b.shot)

RowsKept == /\ \A row \in CardRows : RowKept(row)
            /\ \A a, b \in CardRows : InOrder(a, b)

\* A position filled by walking order under a page that showed every photo had
\* no photo before, and the rest of such an import keeps off what is taken.
FreshKept ==
    /\ \A j \in DOMAIN evidence : evidence[j].how = "ORDER" /\ evidence[j].fresh =>
         \A i \in DOMAIN evidence : i < j => evidence[i].shot # evidence[j].shot
    /\ Importing /\ run.fresh => \A i \in DOMAIN evidence, f \in run.todo :
         run.plan[f].how = "ORDER" => evidence[i].shot # run.plan[f].shot
    /\ \A k \in DOMAIN flying : ~flying[k].fresh

\* The photos the panel may still upload.
Pending == {f \in P!Photos : run.at \in {"scanned", "upload", "register"}
                               /\ (panel[f].verdict \in {"ready", "far"} \/ f \in run.todo)}

\* Unless duplicates went unchecked or rows came in meanwhile, no two rows,
\* registered or on their way, are of one photo, and what may still be uploaded
\* are different photos that no row is of.
OnceKept ==
    ~unchecked /\ ~raced =>
      /\ \A i, j \in DOMAIN evidence : evidence[i].sum = evidence[j].sum => i = j
      /\ \A i, j \in DOMAIN flying : flying[i].sum = flying[j].sum => i = j
      /\ \A i \in DOMAIN evidence, j \in DOMAIN flying : evidence[i].sum # flying[j].sum
      /\ Importing => run.checked
      /\ run.checked => /\ \A f, g \in Pending : card[f].sum = card[g].sum => f = g
                        /\ \A f \in Pending, row \in CardRows : card[f].sum # row.sum

PanoramaInv ==
    /\ CardTypes /\ PlanKept /\ RowsKept /\ FreshKept /\ OnceKept /\ P!ImportedIsStored

\* Photos and positions are numbered, and there are finitely many of each.
LEMMA CardNumbers ==
    ASSUME CardTypes
    PROVE  /\ P!Photos \subseteq Nat \ {0} /\ IsFiniteSet(P!Photos)
           /\ \A f \in P!Photos : card[f].place \in Nat /\ card[f].sum \in STRING
  <1>1. P!Photos = 1..Len(card) /\ Len(card) \in Nat
    BY LenProperties DEF CardTypes, P!Photos
  <1>2. IsFiniteSet(1..Len(card))
    BY <1>1, FS_Interval
  <1>3. \A f \in P!Photos : card[f] \in [sum : STRING, place : Nat, class : {"ready", "far", "other"}]
    BY ElementOfSeq, <1>1 DEF CardTypes
  <1> QED
    BY <1>1, <1>2, <1>3

LEMMA LeastPosition ==
    ASSUME NEW S \in SUBSET Nat, S # {}
    PROVE  P!Min(S) \in S /\ \A n \in S : P!Min(S) <= n
  BY LeastNumber DEF P!Min

\* What a match of photos does that keeps off the positions captured.
MatchKeeps(m, photos, captured) ==
    /\ \A f \in photos : /\ m[f] \in PlanTarget /\ m[f].how \in {"GPS", "ORDER", "none"}
                         /\ Heeded(m[f].how, card[f].place, m[f].pin)
                         /\ m[f].how = "ORDER" => m[f].shot \in P!Shots \ captured
    /\ \A f, g \in photos : m[f].how = "ORDER" =>
         /\ g # f => m[g].shot # m[f].shot
         /\ m[g].how = "ORDER" => (f < g <=> m[f].shot < m[g].shot)

\* The match: what goes by its location goes to a pin of its place, and what
\* goes by its order goes to an open position that no other photo goes to.
LEMMA MatchFits ==
    ASSUME CardTypes, NEW photos \in SUBSET P!Photos, NEW captured \in SUBSET P!Shots,
           NEW pin \in [P!Shots -> Nat]
    PROVE  MatchKeeps(P!Match(photos, captured, pin), photos, captured)
  <1>0. PICK m : m = P!Match(photos, captured, pin)
    BY SMTT(20)
  <1> DEFINE pinned == {s \in P!Shots : pin[s] # P!Nowhere}
             Near(f) == {s \in pinned : pin[s] = card[f].place}
             byGps == {f \in photos : Near(f) # {}}
             leftover == {f \in photos \ byGps : card[f].place = P!Nowhere \/ pinned # P!Shots}
             claimed == {P!Min(Near(f)) : f \in byGps}
             open == P!Open(P!Shots, captured, claimed)
             Pair(f) == CHOOSE s \in open : P!Rank(s, open) = P!Rank(f, leftover)
             Agrees(f) == card[f].place = P!Nowhere \/ pin[Pair(f)] \in {P!Nowhere, card[f].place}
             inOrder == P!Cardinality(leftover) = P!Cardinality(open) /\ \A f \in leftover : Agrees(f)
             Sent(s, how) == [shot |-> s, how |-> how, pin |-> IF s = P!Nowhere THEN P!Nowhere ELSE pin[s]]
  <1>1. m = [f \in photos |->
               IF f \in byGps THEN Sent(P!Min(Near(f)), "GPS")
               ELSE IF f \in leftover /\ inOrder THEN Sent(Pair(f), "ORDER") ELSE Sent(P!Nowhere, "none")]
    BY <1>0 DEF P!Match
  <1>2. /\ P!Shots \subseteq Nat \ {0} /\ IsFiniteSet(P!Shots)
        /\ photos \subseteq Nat /\ IsFiniteSet(photos)
        /\ \A f \in photos : card[f].place \in Nat
    <2>1. IsFiniteSet(photos)
      BY CardNumbers, FS_Subset
    <2> QED
      BY <2>1, CardNumbers DEF CardTypes
  <1>3. /\ open \in SUBSET (P!Shots \ captured) /\ open \in SUBSET Nat /\ IsFiniteSet(open)
        /\ leftover \in SUBSET photos /\ leftover \in SUBSET Nat /\ IsFiniteSet(leftover)
        /\ \A f \in leftover : f \notin byGps
        /\ open \cap claimed = {}
    <2>1. open \in SUBSET (P!Shots \ captured) /\ open \cap claimed = {}
      BY DEF P!Open
    <2>2. leftover \in SUBSET photos /\ \A f \in leftover : f \notin byGps
      OBVIOUS
    <2> HIDE DEF open, leftover
    <2> QED
      BY <1>2, <2>1, <2>2, FS_Subset
  <1>4. ASSUME NEW f \in byGps
        PROVE  P!Min(Near(f)) \in P!Shots /\ pin[P!Min(Near(f))] = card[f].place /\ P!Min(Near(f)) \in claimed
    <2>1. Near(f) \in SUBSET Nat /\ Near(f) # {}
      BY <1>2
    <2>2. P!Min(Near(f)) \in Near(f)
      <3> HIDE DEF Near
      <3> QED
        BY <2>1, LeastPosition
    <2> QED
      BY <2>2
  <1>5. ASSUME inOrder, NEW f \in leftover
        PROVE  Pair(f) \in open /\ P!Rank(Pair(f), open) = P!Rank(f, leftover) /\ Agrees(f)
    <2>1. Cardinality(leftover) = Cardinality(open) /\ Agrees(f)
      BY <1>5, CardinalityInPanoramas
    <2> HIDE DEF open, leftover, Agrees
    <2>2. \E t \in open : P!Rank(t, open) = P!Rank(f, leftover)
      BY <1>3, <2>1, PairIsTaken
    <2> QED
      BY <2>1, <2>2, Zenon
  <1>6. \A f \in photos :
          \/ /\ f \in byGps /\ m[f] = Sent(P!Min(Near(f)), "GPS")
          \/ /\ f \in leftover /\ inOrder /\ m[f] = Sent(Pair(f), "ORDER")
          \/ m[f] = Sent(P!Nowhere, "none")
    BY <1>1, Zenon
  <1> HIDE DEF open, leftover, byGps, claimed, inOrder, pinned, Near, Pair
  <1>7. \A f \in photos : 
          \/ /\ f \in byGps /\ m[f].shot \in P!Shots /\ m[f].how = "GPS" /\ m[f].pin = card[f].place
             /\ m[f].shot \in claimed /\ m[f] \in PlanTarget
          \/ /\ f \in leftover /\ inOrder /\ m[f].shot = Pair(f) /\ m[f].how = "ORDER" /\ m[f].shot \in open
             /\ m[f].pin = pin[Pair(f)] /\ m[f] \in PlanTarget
          \/ /\ m[f].shot = P!Nowhere /\ m[f].how = "none" /\ m[f].pin = P!Nowhere /\ m[f] \in PlanTarget
    <2>1. /\ \A s \in P!Shots : pin[s] \in Nat
          /\ {"GPS", "ORDER", "none"} \subseteq {"GPS", "ORDER", "hand", "none"}
      OBVIOUS
    <2>2. \A s \in P!Shots, how \in {"GPS", "ORDER", "none"} : Sent(s, how) \in PlanTarget
      BY <2>1 DEF PlanTarget, P!Nowhere
    <2>3. Sent(P!Nowhere, "none") \in PlanTarget
      BY <2>1 DEF PlanTarget, P!Nowhere
    <2>4. \A s \in P!Shots : \A how : Sent(s, how).shot = s /\ Sent(s, how).how = how /\ Sent(s, how).pin = pin[s]
      BY <1>2 DEF P!Nowhere
    <2>5. Sent(P!Nowhere, "none").shot = P!Nowhere /\ Sent(P!Nowhere, "none").how = "none"
          /\ Sent(P!Nowhere, "none").pin = P!Nowhere
      OBVIOUS
    <2> HIDE DEF Sent
    <2> SUFFICES ASSUME NEW f \in photos PROVE
          \/ /\ f \in byGps /\ m[f].shot \in P!Shots /\ m[f].how = "GPS" /\ m[f].pin = card[f].place
             /\ m[f].shot \in claimed /\ m[f] \in PlanTarget
          \/ /\ f \in leftover /\ inOrder /\ m[f].shot = Pair(f) /\ m[f].how = "ORDER" /\ m[f].shot \in open
             /\ m[f].pin = pin[Pair(f)] /\ m[f] \in PlanTarget
          \/ /\ m[f].shot = P!Nowhere /\ m[f].how = "none" /\ m[f].pin = P!Nowhere /\ m[f] \in PlanTarget
      OBVIOUS
    <2>6. CASE f \in byGps /\ m[f] = Sent(P!Min(Near(f)), "GPS")
      BY <1>4, <2>2, <2>4, <2>6
    <2>7. CASE f \in leftover /\ inOrder /\ m[f] = Sent(Pair(f), "ORDER")
      <3>1. Pair(f) \in open /\ Pair(f) \in P!Shots
        BY <1>3, <1>5, <2>7
      <3>2. Sent(Pair(f), "ORDER") \in PlanTarget
        BY <2>2, <3>1
      <3>3. /\ Sent(Pair(f), "ORDER").shot = Pair(f) /\ Sent(Pair(f), "ORDER").how = "ORDER"
            /\ Sent(Pair(f), "ORDER").pin = pin[Pair(f)]
        BY <2>4, <3>1, Zenon
      <3> QED
        BY <2>7, <3>1, <3>2, <3>3
    <2>8. CASE m[f] = Sent(P!Nowhere, "none")
      BY <2>3, <2>5, <2>8
    <2> QED
      BY <1>6, <2>6, <2>7, <2>8
  <1>8. ASSUME NEW f \in photos
        PROVE  /\ m[f] \in PlanTarget /\ m[f].how \in {"GPS", "ORDER", "none"}
               /\ Heeded(m[f].how, card[f].place, m[f].pin)
               /\ m[f].how = "ORDER" => m[f].shot \in P!Shots \ captured
    BY <1>3, <1>5, <1>7 DEF Heeded
  <1>9. ASSUME NEW f \in photos, NEW g \in photos, m[f].how = "ORDER"
        PROVE  /\ g # f => m[g].shot # m[f].shot
               /\ m[g].how = "ORDER" => (f < g <=> m[f].shot < m[g].shot)
    <2>1. f \in leftover /\ inOrder /\ m[f].shot = Pair(f) /\ m[f].shot \in open
      BY <1>7, <1>9
    <2>2. CASE m[g].how = "ORDER"
      <3>1. g \in leftover /\ m[g].shot = Pair(g) /\ m[g].shot \in open
        BY <1>7, <2>2
      <3>2. /\ P!Rank(m[f].shot, open) = P!Rank(f, leftover)
            /\ P!Rank(m[g].shot, open) = P!Rank(g, leftover)
        BY <1>5, <2>1, <3>1
      <3>3. PICK s \in open, u \in open : s = m[f].shot /\ u = m[g].shot
        BY <2>1, <3>1
      <3>4. P!Rank(s, open) = P!Rank(f, leftover) /\ P!Rank(u, open) = P!Rank(g, leftover)
        BY <3>2, <3>3
      <3>5. (f < g <=> s < u) /\ (f # g => s # u)
        <4> HIDE <1>1
        <4> QED
          BY <1>3, <2>1, <3>1, <3>4, PairsInOrder
      <3> QED
        BY <3>3, <3>5
    <2>3. CASE m[g].how # "ORDER"
      <3>1. m[g].shot \in claimed \/ m[g].shot = P!Nowhere
        BY <1>7, <2>3
      <3> QED
        BY <1>2, <1>3, <2>1, <2>3, <3>1 DEF P!Nowhere
    <2> QED
      BY <2>2, <2>3
  <1> QED
    BY <1>0, <1>8, <1>9 DEF MatchKeeps

\* What the panel proposes: the match keeps off the positions chosen by hand.
LEMMA ProposalFits ==
    ASSUME CardTypes, NEW plan, plan = P!Proposal
    PROVE  /\ DOMAIN plan = {f \in P!Photos : P!Included(f)}
           /\ PlanFits(plan)
           /\ \A f \in DOMAIN plan : plan[f].how = "ORDER" => plan[f].shot \in P!Shots \ page.captured
  <1> DEFINE selected == {f \in P!Photos : P!Included(f)}
             byHand == {f \in selected : panel[f].hand # P!Auto}
             taken == {panel[f].hand : f \in byHand} \ {P!Nowhere}
             match == P!Match(selected \ byHand, page.captured \cup taken, page.pins)
             Hand(f) == [shot |-> panel[f].hand, how |-> "hand", pin |-> P!Nowhere]
  <1>1. plan = [f \in selected |-> IF f \in byHand THEN Hand(f) ELSE match[f]]
    BY DEF P!Proposal
  <1>2. /\ P!Shots \subseteq Nat \ {0}
        /\ page.pins \in [P!Shots -> Nat] /\ page.captured \subseteq P!Shots
        /\ \A f \in P!Photos : panel[f].hand \in P!Shots \cup {P!Nowhere, P!Auto}
    BY DEF CardTypes
  <1>3. taken \in SUBSET P!Shots /\ \A f \in byHand : panel[f].hand \in P!Shots \cup {P!Nowhere}
    BY <1>2
  <1>4. selected \ byHand \in SUBSET P!Photos /\ page.captured \cup taken \in SUBSET P!Shots
    BY <1>2, <1>3
  <1>5. PICK m : m = match
    OBVIOUS
  <1> HIDE DEF byHand, taken
  <1>6. /\ \A f \in selected \ byHand :
             /\ m[f] \in PlanTarget /\ m[f].how \in {"GPS", "ORDER", "none"}
             /\ Heeded(m[f].how, card[f].place, m[f].pin)
             /\ m[f].how = "ORDER" => m[f].shot \in P!Shots \ (page.captured \cup taken)
        /\ \A f, g \in selected \ byHand : m[f].how = "ORDER" =>
             /\ g # f => m[g].shot # m[f].shot
             /\ m[g].how = "ORDER" => (f < g <=> m[f].shot < m[g].shot)
    <2>1. PICK photos \in SUBSET P!Photos : photos = selected \ byHand
      BY <1>4
    <2>2. PICK captured \in SUBSET P!Shots : captured = page.captured \cup taken
      BY <1>4
    <2>3. PICK pin \in [P!Shots -> Nat] : pin = page.pins
      BY <1>2
    <2>4. MatchKeeps(P!Match(photos, captured, pin), photos, captured)
      BY MatchFits
    <2>5. P!Match(photos, captured, pin) = m
      BY <1>5, <2>1, <2>2, <2>3
    <2> HIDE DEF selected, match
    <2> QED
      BY <2>1, <2>2, <2>4, <2>5 DEF MatchKeeps
  <1>7. \A f \in selected : plan[f] = IF f \in byHand THEN Hand(f) ELSE m[f]
    BY <1>1, <1>5
  <1>8. ASSUME NEW f \in selected, f \in byHand
        PROVE  plan[f] \in PlanTarget /\ plan[f].how = "hand" /\ plan[f].shot \in taken \cup {P!Nowhere}
    <2>1. panel[f].hand \in taken \cup {P!Nowhere}
      BY <1>8 DEF taken
    <2>2. Hand(f) \in PlanTarget
      <3>1. /\ panel[f].hand \in P!Shots \cup {P!Nowhere} /\ "hand" \in {"GPS", "ORDER", "hand", "none"}
            /\ P!Nowhere \in Nat
        BY <1>3, <1>8 DEF P!Nowhere
      <3> QED
        BY <3>1, Zenon DEF PlanTarget
    <2> QED
      BY <1>7, <1>8, <2>1, <2>2
  <1>9. ASSUME NEW f \in selected, f \notin byHand PROVE plan[f] = m[f] /\ f \in selected \ byHand
    BY <1>7, <1>9
  <1>10. DOMAIN plan = selected
    BY <1>1
  <1> HIDE DEF selected
  <1>11. ASSUME NEW f \in selected
         PROVE  /\ plan[f] \in PlanTarget /\ Heeded(plan[f].how, card[f].place, plan[f].pin)
                /\ plan[f].how = "ORDER" => plan[f].shot \in P!Shots \ page.captured
    BY <1>6, <1>8, <1>9 DEF Heeded
  <1>12. ASSUME NEW f \in selected, NEW g \in selected, plan[f].how = "ORDER"
         PROVE  /\ g # f => plan[g].shot # plan[f].shot
                /\ plan[g].how = "ORDER" => (f < g <=> plan[f].shot < plan[g].shot)
    <2>1. f \in selected \ byHand /\ plan[f] = m[f] /\ plan[f].shot \in P!Shots \ taken
      BY <1>6, <1>8, <1>9, <1>12
    <2>2. CASE g \in byHand
      BY <1>2, <1>8, <2>1, <2>2 DEF P!Nowhere
    <2>3. CASE g \notin byHand
      BY <1>6, <1>9, <1>12, <2>1, <2>3
    <2> QED
      BY <2>2, <2>3
  <1>13. selected \subseteq P!Photos
    BY DEF selected
  <1> QED
    BY <1>10, <1>11, <1>12, <1>13 DEF PlanFits, selected

\* No import: it has nothing to do.
LEMMA NoRunYet == P!Resting \in ImportRun /\ <<>> \in Plans /\ {} \in SUBSET P!Photos
  <1>1. <<>> \in [{} -> PlanTarget] /\ {} \in SUBSET P!Photos
    OBVIOUS
  <1>2. <<>> \in Plans
    BY <1>1 DEF Plans
  <1>3. "idle" \in {"idle", "scanned", "upload", "register", "done"} /\ 0 \in Nat
        /\ FALSE \in BOOLEAN /\ TRUE \in BOOLEAN
    OBVIOUS
  <1>4. P!Resting \in ImportRun
    BY <1>1, <1>2, <1>3, Zenon DEF P!Resting, ImportRun
  <1> QED
    BY <1>1, <1>2, <1>4

LEMMA InitPanoramaInv == P!Init => PanoramaInv
  <1> SUFFICES ASSUME P!Init PROVE PanoramaInv
    OBVIOUS
  <1>1. /\ card \in Seq([sum : STRING, place : Nat, class : {"ready", "far", "other"}])
        /\ pins \in Seq(Nat)
    BY FieldAssumption DEF P!Init
  <1>2. P!Shots = 1..Len(pins) /\ Len(pins) \in Nat /\ pins \in [P!Shots -> Nat]
    BY <1>1, LenProperties DEF P!Shots
  <1>3. IsFiniteSet(P!Shots) /\ P!Shots \subseteq Nat \ {0}
    <2>1. IsFiniteSet(1..Len(pins))
      BY <1>2, FS_Interval
    <2> QED
      BY <1>2, <2>1
  <1>4. /\ run = P!Resting /\ evidence = <<>> /\ flying = <<>> /\ page.pins = pins /\ page.captured = {}
        /\ panel = [f \in P!Photos |-> P!Absent]
    BY DEF P!Init
  <1>5. run.at = "idle" /\ run.todo = {} /\ run.n = 0 /\ run.fresh = FALSE
    BY <1>4 DEF P!Resting
  <1>6. panel \in [P!Photos -> [verdict : Verdicts, hand : P!Shots \cup {P!Nowhere, P!Auto}]]
    BY <1>4 DEF P!Absent, Verdicts
  <1>7. evidence \in Seq(PhotoRow) /\ flying \in Seq(PhotoRow)
    BY <1>4
  <1>8. CardTypes
    <2>1. page.pins \in [P!Shots -> Nat] /\ page.captured \subseteq P!Shots
      BY <1>2, <1>4
    <2>2. run \in ImportRun
      BY <1>4, NoRunYet
    <2> QED
      BY <1>1, <1>2, <1>3, <1>6, <1>7, <2>1, <2>2, Zenon DEF CardTypes
  <1>9. RowsKept /\ FreshKept /\ PlanKept /\ OnceKept
    BY <1>4, <1>5 DEF RowsKept, CardRows, FreshKept, PlanKept, OnceKept, Importing, Pending
  <1>10. P!ImportedIsStored
    BY <1>4 DEF P!ImportedIsStored, P!Absent
  <1> QED
    BY <1>8, <1>9, <1>10 DEF PanoramaInv

\* A step of the panel that starts no import and registers nothing.
LEMMA QuietRows ==
    ASSUME RowsKept, FreshKept, PlanKept, UNCHANGED <<card, pins, evidence>>,
           flying' = flying \/ flying' = <<>>, run'.n = run.n,
           Importing' => /\ Importing /\ run'.plan = run.plan
                         /\ run'.todo \subseteq run.todo /\ (run'.fresh => run.fresh)
    PROVE  RowsKept' /\ FreshKept' /\ PlanKept'
  <1>1. CardRows' \subseteq CardRows
    BY DEF CardRows
  <1>2. \A row \in CardRows : RowKept(row)'
    BY DEF RowsKept, RowKept, Heeded
  <1>3. RowsKept'
    BY <1>1, <1>2 DEF RowsKept, InOrder
  <1>4. FreshKept'
    BY DEF FreshKept
  <1>5. PlanKept'
    BY DEF PlanKept, PlanFits, PlanTarget, P!Photos, P!Shots, Heeded
  <1> QED
    BY <1>3, <1>4, <1>5

LEMMA QuietOnce ==
    ASSUME OnceKept, UNCHANGED <<card, pins, evidence>>, flying' = flying \/ flying' = <<>>,
           unchecked => unchecked', raced => raced',
           run'.checked => Pending' = {} \/ (run.checked /\ Pending' \subseteq Pending),
           Importing' => Importing /\ run'.checked = run.checked
    PROVE  OnceKept'
  <1>1. CardRows' \subseteq CardRows
    BY DEF CardRows
  <1>2. SUFFICES ASSUME ~unchecked', ~raced'
                 PROVE  /\ \A i, j \in DOMAIN evidence : evidence[i].sum = evidence[j].sum => i = j
                        /\ \A i, j \in DOMAIN flying' : flying'[i].sum = flying'[j].sum => i = j
                        /\ \A i \in DOMAIN evidence, j \in DOMAIN flying' : evidence[i].sum # flying'[j].sum
                        /\ Importing' => run'.checked
                        /\ run'.checked => /\ \A f, g \in Pending' : card[f].sum = card[g].sum => f = g
                                           /\ \A f \in Pending', row \in CardRows' : card[f].sum # row.sum
    BY DEF OnceKept
  <1>3. ~unchecked /\ ~raced
    BY <1>2
  <1>4. Importing' => run'.checked
    BY <1>3 DEF OnceKept
  <1>5. /\ \A i, j \in DOMAIN flying' : flying'[i].sum = flying'[j].sum => i = j
        /\ \A i \in DOMAIN evidence, j \in DOMAIN flying' : evidence[i].sum # flying'[j].sum
        /\ \A i, j \in DOMAIN evidence : evidence[i].sum = evidence[j].sum => i = j
    BY <1>3 DEF OnceKept
  <1>6. run'.checked => /\ \A f, g \in Pending' : card[f].sum = card[g].sum => f = g
                        /\ \A f \in Pending', row \in CardRows' : card[f].sum # row.sum
    BY <1>1, <1>3 DEF OnceKept
  <1> QED
    BY <1>4, <1>5, <1>6

PhotoPanel == [verdict : Verdicts, hand : P!Shots \cup {P!Nowhere, P!Auto}]

\* What keeps its type: the sets of photos and of positions do not change.
LEMMA TypesStay ==
    ASSUME CardTypes, UNCHANGED card, pins' \in [P!Shots -> Nat]
    PROVE  /\ P!Photos' = P!Photos /\ P!Shots' = P!Shots
           /\ PhotoRow' = PhotoRow /\ ImportRun' = ImportRun /\ PhotoPanel' = PhotoPanel
           /\ PlanTarget' = PlanTarget
           /\ (CardTypes' <=> /\ page'.pins \in [P!Shots -> Nat] /\ page'.captured \subseteq P!Shots
                              /\ panel' \in [P!Photos -> PhotoPanel]
                              /\ run' \in ImportRun
                              /\ evidence' \in Seq(PhotoRow) /\ flying' \in Seq(PhotoRow))
  <1>1. P!Photos' = P!Photos /\ P!Shots' = P!Shots
    BY DEF P!Photos, P!Shots, CardTypes
  <1>2. /\ PhotoRow' = PhotoRow /\ PhotoPanel' = PhotoPanel
        /\ PlanTarget' = PlanTarget
    BY <1>1, Zenon DEF PhotoRow, PhotoPanel, PlanTarget
  <1>3. ImportRun' = ImportRun
    BY <1>1, <1>2, ZenonT(40) DEF ImportRun, Plans
  <1> QED
    BY <1>1, <1>2, <1>3, Zenon DEF CardTypes, PhotoPanel

LEMMA RowsAreRows ==
    ASSUME CardTypes
    PROVE  /\ \A row \in CardRows : row \in PhotoRow
           /\ \A i \in DOMAIN evidence : evidence[i] \in PhotoRow /\ i \in Nat
           /\ \A i \in DOMAIN flying : flying[i] \in PhotoRow /\ i \in Nat
  <1>1. /\ \A i \in DOMAIN evidence : evidence[i] \in PhotoRow /\ i \in Nat
        /\ \A i \in DOMAIN flying : flying[i] \in PhotoRow /\ i \in Nat
    BY ElementOfSeq, LenProperties DEF CardTypes
  <1> QED
    BY <1>1 DEF CardRows

\* What a row says of its position is one of the route's.
LEMMA CapturedIsListed ==
    ASSUME CardTypes
    PROVE  P!Captured(evidence) \subseteq P!Shots
  <1>1. \A i \in DOMAIN evidence : evidence[i] \in PhotoRow
    BY ElementOfSeq, LenProperties DEF CardTypes
  <1>2. \A i \in DOMAIN evidence : evidence[i].shot \in P!Shots \cup {P!Nowhere}
    BY <1>1 DEF PhotoRow
  <1> QED
    BY <1>2 DEF P!Captured

LEMMA QuietPanoramaInv ==
    ASSUME PanoramaInv, UNCHANGED <<card, pins, evidence>>, flying' = flying \/ flying' = <<>>,
           page' = page \/ page' = [captured |-> P!Captured(evidence), pins |-> pins],
           panel' \in [P!Photos -> PhotoPanel],
           \A f \in P!Photos : panel'[f].verdict = "uploaded" => panel[f].verdict = "uploaded",
           run' \in ImportRun, run'.n = run.n,
           unchecked => unchecked', raced => raced',
           run'.checked => Pending' = {} \/ (run.checked /\ Pending' \subseteq Pending),
           Importing' => /\ Importing /\ run'.plan = run.plan /\ run'.checked = run.checked
                         /\ run'.todo \subseteq run.todo /\ (run'.fresh => run.fresh)
    PROVE  PanoramaInv'
  <1>1. RowsKept' /\ FreshKept' /\ PlanKept'
    BY QuietRows DEF PanoramaInv
  <1>2. OnceKept'
    BY QuietOnce DEF PanoramaInv
  <1>3. CardTypes'
    <2>1. CardTypes
      BY DEF PanoramaInv
    <2>2. pins' \in [P!Shots -> Nat] /\ pins \in [P!Shots -> Nat] /\ page.pins \in [P!Shots -> Nat]
          /\ page.captured \subseteq P!Shots
      BY <2>1 DEF CardTypes
    <2>3. page'.pins \in [P!Shots -> Nat] /\ page'.captured \subseteq P!Shots
      BY <2>1, <2>2, CapturedIsListed
    <2>4. evidence' \in Seq(PhotoRow) /\ flying' \in Seq(PhotoRow)
      <3>1. evidence \in Seq(PhotoRow) /\ flying \in Seq(PhotoRow)
        BY <2>1, Zenon DEF CardTypes
      <3>2. <<>> \in Seq(PhotoRow) /\ evidence' = evidence /\ (flying' = flying \/ flying' = <<>>)
        OBVIOUS
      <3> QED
        BY <3>1, <3>2, Zenon
    <2> QED
      BY <2>1, <2>2, <2>3, <2>4, TypesStay
  <1>4. P!ImportedIsStored'
    BY DEF PanoramaInv, P!ImportedIsStored, P!Photos
  <1> QED
    BY <1>1, <1>2, <1>3, <1>4 DEF PanoramaInv

\* The page is looked at, or rendered again.
LEMMA LookPanoramaInv ==
    ASSUME PanoramaInv, P!ToggleFar \/ P!Refresh \/ P!Revisit \/ P!NeverRegistered
    PROVE  PanoramaInv'
  <1>1. CardTypes /\ panel \in [P!Photos -> PhotoPanel] /\ run \in ImportRun
    BY DEF PanoramaInv, CardTypes, PhotoPanel
  <1>2. /\ UNCHANGED <<card, pins, evidence, unchecked, raced>>
        /\ flying' = flying \/ flying' = <<>>
        /\ page' = page \/ page' = [captured |-> P!Captured(evidence), pins |-> pins]
    BY DEF P!ToggleFar, P!Refresh, P!Revisit, P!NeverRegistered
  <1>3. CASE UNCHANGED <<panel, run>>
    <2>1. Pending' = Pending /\ (Importing' <=> Importing)
      BY <1>2, <1>3 DEF Pending, Importing, P!Photos
    <2>2. run'.checked => Pending' = {} \/ (run.checked /\ Pending' \subseteq Pending)
      BY <1>3, <2>1
    <2> QED
      BY <1>1, <1>2, <1>3, <2>1, <2>2, QuietPanoramaInv
  <1>4. CASE P!Revisit
    <2>1. run' = [P!Resting EXCEPT !.n = run.n] /\ panel' = [f \in P!Photos |-> P!Absent]
      BY <1>4 DEF P!Revisit
    <2>2. run.n \in Nat /\ P!Resting \in ImportRun /\ P!Resting.at = "idle"
      BY <1>1, NoRunYet DEF ImportRun, P!Resting
    <2>3. run' \in ImportRun
      BY <2>1, <2>2, Zenon DEF ImportRun
    <2>4. run'.n = run.n /\ run'.at = "idle"
      BY <2>1, <2>2 DEF ImportRun
    <2>5. P!Absent \in PhotoPanel /\ P!Absent.verdict = "absent"
      BY DEF P!Absent, PhotoPanel, Verdicts
    <2>6. panel' \in [P!Photos -> PhotoPanel] /\ \A f \in P!Photos : panel'[f].verdict = "absent"
      BY <2>1, <2>5
    <2>7. Pending' = {} /\ ~Importing'
      BY <2>4 DEF Pending, Importing
    <2> QED
      BY <1>1, <1>2, <2>3, <2>4, <2>6, <2>7, QuietPanoramaInv
  <1>5. P!Revisit \/ UNCHANGED <<panel, run>>
    BY DEF P!ToggleFar, P!Refresh, P!NeverRegistered
  <1> QED
    BY <1>3, <1>4, <1>5

\* The import stops, and may be started again for what is ready.
LEMMA GivesUp ==
    ASSUME CardTypes, P!GiveUp
    PROVE  /\ run' \in ImportRun /\ run'.n = run.n /\ run'.checked = run.checked
           /\ run'.at = "scanned" /\ run'.todo = {} /\ ~Importing'
  <1>1. run' = [run EXCEPT !.at = "scanned", !.todo = {}, !.plan = <<>>, !.fresh = FALSE]
    BY DEF P!GiveUp
  <1>2. run \in ImportRun /\ "scanned" \in {"idle", "scanned", "upload", "register", "done"} /\ FALSE \in BOOLEAN
    BY DEF CardTypes
  <1>3. run' \in ImportRun
    BY <1>1, <1>2, NoRunYet, Zenon DEF ImportRun
  <1>4. run'.n = run.n /\ run'.checked = run.checked /\ run'.at = "scanned" /\ run'.todo = {}
    BY <1>1, <1>2 DEF ImportRun
  <1> QED
    BY <1>3, <1>4 DEF Importing

LEMMA RefusedPanoramaInv ==
    ASSUME PanoramaInv, P!UrlsRefused \/ P!RegisterRefused
    PROVE  PanoramaInv'
  <1>1. CardTypes /\ panel \in [P!Photos -> PhotoPanel]
    BY DEF PanoramaInv, CardTypes, PhotoPanel
  <1>2. /\ UNCHANGED <<card, pins, evidence, page, panel, flying, unchecked, raced>>
        /\ P!GiveUp /\ Importing
    BY DEF P!UrlsRefused, P!RegisterRefused, Importing
  <1>3. /\ run' \in ImportRun /\ run'.n = run.n /\ run'.checked = run.checked
        /\ run'.at = "scanned" /\ run'.todo = {} /\ ~Importing'
    BY <1>1, <1>2, GivesUp
  <1>4. Pending' \subseteq Pending
    BY <1>2, <1>3 DEF Pending, Importing, P!Photos
  <1>5. run'.checked => Pending' = {} \/ (run.checked /\ Pending' \subseteq Pending)
    BY <1>3, <1>4
  <1> QED
    BY <1>1, <1>2, <1>3, <1>5, QuietPanoramaInv

LEMMA PickPanoramaInv ==
    ASSUME PanoramaInv, NEW f \in P!Photos, NEW s \in P!Shots \cup {P!Nowhere}, P!PickByHand(f, s)
    PROVE  PanoramaInv'
  <1>1. CardTypes /\ panel \in [P!Photos -> PhotoPanel] /\ run \in ImportRun
    BY DEF PanoramaInv, CardTypes, PhotoPanel
  <1>2. /\ UNCHANGED <<card, pins, evidence, page, run, flying, unchecked, raced>>
        /\ panel' = [panel EXCEPT ![f].hand = s]
    BY DEF P!PickByHand
  <1>3. [panel[f] EXCEPT !.hand = s] \in PhotoPanel
    BY <1>1, Zenon DEF PhotoPanel
  <1>4. panel' \in [P!Photos -> PhotoPanel]
    BY <1>1, <1>2, <1>3
  <1>5. \A g \in P!Photos : panel'[g].verdict = panel[g].verdict
    BY <1>1, <1>2 DEF PhotoPanel
  <1>6. Pending' = Pending /\ (Importing' <=> Importing)
    BY <1>2, <1>5 DEF Pending, Importing, P!Photos
  <1>7. run'.checked => Pending' = {} \/ (run.checked /\ Pending' \subseteq Pending)
    BY <1>2, <1>6
  <1> QED
    BY <1>1, <1>2, <1>4, <1>5, <1>6, <1>7, QuietPanoramaInv

LEMMA FinishPanoramaInv ==
    ASSUME PanoramaInv, P!Finish
    PROVE  PanoramaInv'
  <1>1. CardTypes /\ panel \in [P!Photos -> PhotoPanel] /\ run \in ImportRun
    BY DEF PanoramaInv, CardTypes, PhotoPanel
  <1>2. /\ UNCHANGED <<card, pins, evidence, page, panel, flying, unchecked, raced>>
        /\ run' = [P!Resting EXCEPT !.at = "done", !.n = run.n]
    BY DEF P!Finish
  <1>3. /\ run.n \in Nat /\ P!Resting \in ImportRun
        /\ "done" \in {"idle", "scanned", "upload", "register", "done"}
    BY <1>1, NoRunYet DEF ImportRun
  <1>4. run' \in ImportRun
    BY <1>2, <1>3, Zenon DEF ImportRun
  <1>5. run'.n = run.n /\ run'.at = "done"
    BY <1>2, <1>3 DEF ImportRun
  <1>6. Pending' = {} /\ ~Importing'
    BY <1>5 DEF Pending, Importing
  <1> QED
    BY <1>1, <1>2, <1>4, <1>5, <1>6, QuietPanoramaInv

LEMMA PutPanoramaInv ==
    ASSUME PanoramaInv, NEW landed \in SUBSET P!TheChunk, P!PutChunk(landed)
    PROVE  PanoramaInv'
  <1>1. CardTypes /\ panel \in [P!Photos -> PhotoPanel] /\ run \in ImportRun
    BY DEF PanoramaInv, CardTypes, PhotoPanel
  <1>2. /\ UNCHANGED <<card, pins, evidence, page, flying, unchecked, raced>>
        /\ panel' = [f \in P!Photos |-> IF f \notin P!TheChunk THEN panel[f]
                       ELSE [panel[f] EXCEPT !.verdict = IF f \in landed THEN "uploading" ELSE "failed"]]
        /\ run.at = "upload"
        /\ \/ run' = [run EXCEPT !.todo = @ \ P!TheChunk]
           \/ run' = [run EXCEPT !.at = "register"]
    BY DEF P!PutChunk
  <1>3. \A f \in P!Photos, v \in {"uploading", "failed"} : [panel[f] EXCEPT !.verdict = v] \in PhotoPanel
    <2>1. {"uploading", "failed"} \subseteq Verdicts
      BY DEF Verdicts
    <2> QED
      BY <1>1, <2>1, Zenon DEF PhotoPanel
  <1>4. panel' \in [P!Photos -> PhotoPanel]
    BY <1>1, <1>2, <1>3
  <1>5. \A f \in P!Photos : panel'[f].verdict = panel[f].verdict \/ panel'[f].verdict \in {"uploading", "failed"}
    BY <1>1, <1>2 DEF PhotoPanel
  <1>6. run' \in ImportRun
    <2>1. run.todo \ P!TheChunk \in SUBSET P!Photos
          /\ "register" \in {"idle", "scanned", "upload", "register", "done"}
      BY <1>1 DEF ImportRun
    <2> QED
      BY <1>1, <1>2, <2>1, Zenon DEF ImportRun
  <1>7. /\ run'.n = run.n /\ run'.plan = run.plan /\ run'.checked = run.checked /\ run'.fresh = run.fresh
        /\ run'.todo \subseteq run.todo /\ Importing /\ Importing'
    BY <1>1, <1>2 DEF ImportRun, Importing
  <1>8. Pending' \subseteq Pending
    BY <1>2, <1>5, <1>7 DEF Pending, Importing, P!Photos
  <1>9. run'.checked => Pending' = {} \/ (run.checked /\ Pending' \subseteq Pending)
    BY <1>7, <1>8
  <1> QED
    BY <1>1, <1>2, <1>4, <1>5, <1>6, <1>7, <1>9, QuietPanoramaInv

\* A scan whose duplicates were looked up leaves the first copies, which no row
\* is of.
LEMMA ScanPanoramaInv ==
    ASSUME PanoramaInv, NEW S \in SUBSET P!Photos, NEW checked \in BOOLEAN, P!Scan(S, checked)
    PROVE  PanoramaInv'
  <1>1. CardTypes /\ panel \in [P!Photos -> PhotoPanel] /\ run \in ImportRun
    BY DEF PanoramaInv, CardTypes, PhotoPanel
  <1> DEFINE hashed == {f \in S : card[f].class \in {"ready", "far"}}
             Verdict(f) == IF checked /\ f \in P!Duplicates(hashed) THEN "duplicate" ELSE card[f].class
  <1>2. /\ UNCHANGED <<card, pins, evidence, page, flying, unchecked>>
        /\ panel' = [f \in P!Photos |-> IF f \notin S THEN P!Absent
                                        ELSE [P!Absent EXCEPT !.verdict = Verdict(f)]]
        /\ run' = [P!Resting EXCEPT !.at = "scanned", !.checked = checked, !.n = run.n]
        /\ raced' = (raced \/ flying # <<>>)
    BY DEF P!Scan
  <1>3. \A f \in P!Photos : card[f].class \in {"ready", "far", "other"}
    <2>1. P!Photos = 1..Len(card) /\ Len(card) \in Nat
      BY <1>1, LenProperties DEF CardTypes, P!Photos
    <2>2. \A f \in P!Photos : card[f] \in [sum : STRING, place : Nat, class : {"ready", "far", "other"}]
      BY ElementOfSeq, <1>1, <2>1 DEF CardTypes
    <2> QED
      BY <2>2
  <1>4. /\ P!Absent \in PhotoPanel /\ P!Absent.verdict = "absent"
        /\ \A v \in {"ready", "far", "other", "duplicate"} :
             [P!Absent EXCEPT !.verdict = v] \in PhotoPanel /\ [P!Absent EXCEPT !.verdict = v].verdict = v
    BY DEF P!Absent, PhotoPanel, Verdicts
  <1>5. \A f \in S : Verdict(f) \in {"ready", "far", "other", "duplicate"}
    BY <1>3
  <1> HIDE DEF Verdict
  <1>6. panel' \in [P!Photos -> PhotoPanel]
    BY <1>2, <1>4, <1>5
  <1>7. \A f \in P!Photos : panel'[f].verdict = IF f \in S THEN Verdict(f) ELSE "absent"
    BY <1>2, <1>4, <1>5
  <1>8. /\ run.n \in Nat /\ P!Resting \in ImportRun
        /\ "scanned" \in {"idle", "scanned", "upload", "register", "done"}
    BY <1>1, NoRunYet DEF ImportRun
  <1>9. run' \in ImportRun
    BY <1>2, <1>8, Zenon DEF ImportRun
  <1>10. run'.n = run.n /\ run'.at = "scanned" /\ run'.checked = checked /\ run'.todo = {} /\ ~Importing'
    BY <1>2, <1>8 DEF ImportRun, Importing, P!Resting
  <1>11. RowsKept' /\ FreshKept' /\ PlanKept'
    BY <1>2, <1>10, QuietRows DEF PanoramaInv
  <1>12. CardTypes'
    <2>1. /\ pins' \in [P!Shots -> Nat] /\ page'.pins \in [P!Shots -> Nat] /\ page'.captured \subseteq P!Shots
          /\ evidence' \in Seq(PhotoRow) /\ flying' \in Seq(PhotoRow)
      BY <1>1, <1>2, Zenon DEF CardTypes
    <2> QED
      BY <1>1, <1>2, <1>6, <1>9, <2>1, TypesStay
  <1>13. P!ImportedIsStored'
    BY <1>2, <1>5, <1>7 DEF P!ImportedIsStored, P!Photos
  <1>14. ASSUME checked, NEW f \in Pending'
         PROVE  f \in hashed /\ f \notin P!Duplicates(hashed)
    <2>1. f \in P!Photos /\ panel'[f].verdict \in {"ready", "far"}
      BY <1>2, <1>10, <1>14 DEF Pending, P!Photos
    <2>2. f \in S /\ Verdict(f) \in {"ready", "far"}
      BY <1>7, <2>1
    <2> QED
      BY <1>3, <1>14, <2>2 DEF Verdict
  <1>15. OnceKept'
    <2>1. SUFFICES ASSUME ~unchecked, ~raced, flying = <<>>
                   PROVE  /\ \A i, j \in DOMAIN evidence : evidence[i].sum = evidence[j].sum => i = j
                          /\ checked => /\ \A f, g \in Pending' : card[f].sum = card[g].sum => f = g
                                        /\ \A f \in Pending', i \in DOMAIN evidence : card[f].sum # evidence[i].sum
      <3>1. flying = <<>> => CardRows' = {evidence[i] : i \in DOMAIN evidence} /\ DOMAIN flying' = {}
        BY <1>2 DEF CardRows
      <3>2. ~raced' => ~raced /\ flying = <<>>
        BY <1>2
      <3>3. (\A i, j \in DOMAIN evidence : evidence[i].sum = evidence[j].sum => i = j)'
              <=> \A i, j \in DOMAIN evidence : evidence[i].sum = evidence[j].sum => i = j
        BY <1>2
      <3> QED
        BY <1>2, <1>10, <3>1, <3>2, <3>3 DEF OnceKept
    <2>2. ASSUME checked, NEW f \in Pending', NEW g \in Pending', card[f].sum = card[g].sum PROVE f = g
      <3>1. f \in hashed /\ g \in hashed /\ f \in Nat /\ g \in Nat
        BY <1>1, <1>14, <2>2, CardNumbers
      <3>2. ~ (f < g) /\ ~ (g < f)
        BY <1>14, <2>2, <3>1 DEF P!Duplicates
      <3> QED
        BY <3>1, <3>2
    <2>3. ASSUME checked, NEW f \in Pending', NEW i \in DOMAIN evidence PROVE card[f].sum # evidence[i].sum
      BY <1>14, <2>3 DEF P!Duplicates, P!Sums
    <2> QED
      BY <2>1, <2>2, <2>3 DEF PanoramaInv, OnceKept
  <1> QED
    BY <1>11, <1>12, <1>13, <1>15 DEF PanoramaInv

\* An import begins: its plan fits, and keeps off every photo the page shows.
LEMMA ImportPanoramaInv ==
    ASSUME PanoramaInv, P!Import
    PROVE  PanoramaInv'
  <1>1. CardTypes /\ panel \in [P!Photos -> PhotoPanel] /\ run \in ImportRun
    BY DEF PanoramaInv, CardTypes, PhotoPanel
  <1>2. PICK plan : plan = P!Proposal
    OBVIOUS
  <1>3. PICK todo : todo = {f \in P!Photos : P!Included(f)}
    OBVIOUS
  <1>4. PICK fresh \in BOOLEAN : fresh = (page.captured = P!Captured(evidence))
    OBVIOUS
  <1>5. /\ UNCHANGED <<card, pins, evidence, page, panel, flying, raced>>
        /\ unchecked' = (unchecked \/ ~run.checked) /\ run.at = "scanned"
        /\ run' = [run EXCEPT !.at = "upload", !.n = @ + 1, !.plan = plan, !.todo = todo, !.fresh = fresh]
    BY <1>2, <1>3, <1>4 DEF P!Import
  <1>6. /\ DOMAIN plan = todo /\ todo \in SUBSET P!Photos
        /\ PlanFits(plan)
        /\ \A f \in DOMAIN plan : plan[f].how = "ORDER" => plan[f].shot \in P!Shots \ page.captured
    BY <1>1, <1>2, <1>3, ProposalFits
  <1>7. plan \in Plans
    <2>1. plan = [f \in todo |-> plan[f]]
      BY <1>2, <1>3 DEF P!Proposal
    <2>2. plan \in [todo -> PlanTarget]
      BY <1>6, <2>1 DEF PlanFits
    <2> QED
      BY <1>6, <2>2 DEF Plans
  <1>8. run.n \in Nat /\ run.n + 1 \in Nat /\ "upload" \in {"idle", "scanned", "upload", "register", "done"}
    BY <1>1 DEF ImportRun
  <1>9. run' \in ImportRun
    BY <1>1, <1>5, <1>6, <1>7, <1>8, Zenon DEF ImportRun
  <1>10. /\ run'.at = "upload" /\ run'.n = run.n + 1 /\ run'.plan = plan /\ run'.todo = todo
         /\ run'.fresh = fresh /\ run'.checked = run.checked /\ Importing' /\ ~Importing
    BY <1>1, <1>5 DEF ImportRun, Importing
  <1>11. CardTypes'
    <2>1. /\ pins' \in [P!Shots -> Nat] /\ page'.pins \in [P!Shots -> Nat] /\ page'.captured \subseteq P!Shots
          /\ evidence' \in Seq(PhotoRow) /\ flying' \in Seq(PhotoRow)
      BY <1>1, <1>5, Zenon DEF CardTypes
    <2> QED
      BY <1>1, <1>5, <1>9, <2>1, TypesStay
  <1>12. PlanKept'
    <2>1. PlanFits(plan)'
      BY <1>5, <1>6 DEF PlanFits, PlanTarget, P!Photos, P!Shots, Heeded
    <2> QED
      BY <1>6, <1>8, <1>10, <2>1 DEF PlanKept
  <1>13. RowsKept'
    <2>1. CardRows' = CardRows
      BY <1>5 DEF CardRows
    <2>2. ASSUME NEW row \in CardRows PROVE RowKept(row)'
      <3>1. RowKept(row) /\ row.import \in Nat
        BY <1>1, RowsAreRows DEF PanoramaInv, RowsKept, PhotoRow
      <3> QED
        BY <1>5, <1>8, <1>10, <3>1 DEF RowKept, Heeded
    <2> QED
      BY <2>1, <2>2 DEF PanoramaInv, RowsKept, InOrder
  <1>14. FreshKept'
    <2>1. ASSUME fresh, NEW i \in DOMAIN evidence, NEW f \in todo, plan[f].how = "ORDER"
          PROVE  evidence[i].shot # plan[f].shot
      <3>1. plan[f].shot \in P!Shots /\ plan[f].shot \notin P!Captured(evidence)
        BY <1>4, <1>6, <2>1
      <3>2. plan[f].shot # P!Nowhere
        BY <1>1, <3>1 DEF CardTypes, P!Nowhere
      <3> QED
        BY <3>1, <3>2 DEF P!Captured
    <2> QED
      BY <1>5, <1>10, <2>1 DEF PanoramaInv, FreshKept
  <1>15. OnceKept'
    <2>1. Pending' \subseteq Pending
      BY <1>1, <1>3, <1>5, <1>10 DEF Pending, P!Included, P!Photos
    <2>2. CardRows' = CardRows
      BY <1>5 DEF CardRows
    <2> QED
      BY <1>5, <1>10, <2>1, <2>2 DEF PanoramaInv, OnceKept
  <1>16. P!ImportedIsStored'
    BY <1>5 DEF PanoramaInv, P!ImportedIsStored, P!Photos
  <1> QED
    BY <1>11, <1>12, <1>13, <1>14, <1>15, <1>16 DEF PanoramaInv

\* Where each row is when rows are appended.
LEMMA RowsAdded ==
    ASSUME NEW Rows, NEW s \in Seq(Rows), NEW t \in Seq(Rows), NEW e, e = s \o t
    PROVE  /\ e \in Seq(Rows)
           /\ Len(s) \in Nat /\ DOMAIN s = 1..Len(s) /\ DOMAIN t = 1..Len(t) /\ Len(t) \in Nat
           /\ \A i \in DOMAIN s : i \in DOMAIN e /\ e[i] = s[i]
           /\ \A k \in DOMAIN t : Len(s) + k \in DOMAIN e /\ e[Len(s) + k] = t[k]
           /\ \A i \in DOMAIN e : \/ i \in DOMAIN s /\ e[i] = s[i]
                                  \/ \E k \in DOMAIN t : i = Len(s) + k /\ e[i] = t[k]
  <1>1. /\ e \in Seq(Rows) /\ Len(e) = Len(s) + Len(t)
        /\ \A i \in 1 .. Len(s) + Len(t) : e[i] = IF i <= Len(s) THEN s[i] ELSE t[i - Len(s)]
    BY ConcatProperties
  <1>2. /\ Len(s) \in Nat /\ DOMAIN s = 1..Len(s) /\ Len(t) \in Nat /\ DOMAIN t = 1..Len(t)
        /\ DOMAIN e = 1..(Len(s) + Len(t))
    BY <1>1, LenProperties
  <1>3. \A i \in DOMAIN s : i \in DOMAIN e /\ e[i] = s[i]
    BY <1>1, <1>2
  <1>4. \A k \in DOMAIN t : Len(s) + k \in DOMAIN e /\ e[Len(s) + k] = t[k]
    BY <1>1, <1>2
  <1>5. ASSUME NEW i \in DOMAIN e
        PROVE  \/ i \in DOMAIN s /\ e[i] = s[i]
               \/ \E k \in DOMAIN t : i = Len(s) + k /\ e[i] = t[k]
    <2>1. CASE i <= Len(s)
      BY <1>1, <1>2, <2>1
    <2>2. CASE ~(i <= Len(s))
      <3>1. i - Len(s) \in DOMAIN t /\ i = Len(s) + (i - Len(s)) /\ e[i] = t[i - Len(s)]
        BY <1>1, <1>2, <2>2
      <3> QED
        BY <3>1
    <2> QED
      BY <2>1, <2>2
  <1> QED
    BY <1>1, <1>2, <1>3, <1>4, <1>5

\* The rows of t are appended to those of s.
Joined(s, t, e) ==
    /\ Len(s) \in Nat /\ DOMAIN s = 1..Len(s) /\ DOMAIN t = 1..Len(t)
    /\ \A i \in DOMAIN s : i \in DOMAIN e /\ e[i] = s[i]
    /\ \A i \in DOMAIN e : \/ i \in DOMAIN s /\ e[i] = s[i]
                           \/ \E k \in DOMAIN t : i = Len(s) + k /\ e[i] = t[k]

LEMMA RowsJoined ==
    ASSUME NEW s \in Seq(PhotoRow), NEW t \in Seq(PhotoRow)
    PROVE  Joined(s, t, s \o t)
  <1>1. PICK e : e = s \o t
    OBVIOUS
  <1>2. Joined(s, t, e)
    BY <1>1, RowsAdded DEF Joined
  <1> QED
    BY <1>1, <1>2

\* The rows of a chunk: one for each photo that has landed, as planned.
LEMMA ChunkRows ==
    ASSUME PanoramaInv, run.at = "register", NEW rows \in P!RowsOfChunk
    PROVE  /\ rows \in Seq(PhotoRow)
           /\ \A k \in DOMAIN rows : /\ rows[k].file \in P!Landed
                                     /\ rows[k] = P!Row(rows[k].file, run.plan[rows[k].file], run.n)
           /\ \A k, l \in DOMAIN rows : rows[k].file = rows[l].file => k = l
           /\ \A f \in P!Landed : \E k \in DOMAIN rows : rows[k].file = f
  <1>1. CardTypes /\ run \in ImportRun /\ PlanFits(run.plan) /\ run.todo \subseteq DOMAIN run.plan
    BY DEF PanoramaInv, CardTypes, PlanKept, Importing
  <1>2. P!Landed \in SUBSET run.todo /\ P!Landed \in SUBSET P!Photos /\ IsFiniteSet(P!Landed)
    <2>1. P!Landed \in SUBSET run.todo /\ run.todo \in SUBSET P!Photos
      BY <1>1 DEF P!Landed, P!TheChunk, ImportRun
    <2> QED
      BY <1>1, <2>1, CardNumbers, FS_Subset
  <1>3. PICK n : n = Cardinality(P!Landed)
    OBVIOUS
  <1>4. n \in Nat
    BY <1>2, <1>3, FS_CardinalityType
  <1>5. PICK at \in [1..n -> P!Landed] :
          /\ \A f \in P!Landed : \E k \in 1..n : at[k] = f
          /\ rows = [k \in 1..n |-> P!Row(at[k], run.plan[at[k]], run.n)]
    BY <1>3, CardinalityInPanoramas DEF P!RowsOfChunk
  <1>6. \A k \in 1..n, l \in 1..n : at[k] = at[l] => k = l
    <2>1. IsFiniteSet(1..n) /\ Cardinality(1..n) = n
      BY <1>4, FS_Interval
    <2>2. at \in Surjection(1..n, P!Landed)
      BY <1>5 DEF Surjection
    <2>3. at \in Injection(1..n, P!Landed)
      BY <1>3, <2>1, <2>2, FS_SurjSameCardinalityImpliesInj
    <2> QED
      BY <2>3 DEF Injection, IsInjective
  <1>7. \A f, g, m : P!Row(f, g, m).file = f
    BY DEF P!Row
  <1>8. ASSUME NEW f \in P!Landed PROVE P!Row(f, run.plan[f], run.n) \in PhotoRow
    <2>1. f \in P!Photos /\ run.plan[f] \in PlanTarget /\ card[f].place \in Nat /\ card[f].sum \in STRING
      BY <1>1, <1>2, CardNumbers DEF PlanFits
    <2>2. /\ run.plan[f].shot \in P!Shots \cup {P!Nowhere} /\ run.plan[f].pin \in Nat
          /\ run.plan[f].how \in {"GPS", "ORDER", "hand", "none"}
          /\ run.n \in Nat /\ run.fresh \in BOOLEAN
      BY <1>1, <2>1, Zenon DEF PlanTarget, ImportRun
    <2> QED
      BY <2>1, <2>2, Zenon DEF P!Row, PhotoRow
  <1> HIDE DEF P!Row
  <1>9. rows \in [1..n -> PhotoRow] /\ DOMAIN rows = 1..n
    BY <1>5, <1>8
  <1>10. rows \in Seq(PhotoRow)
    BY <1>4, <1>9
  <1>11. \A k \in 1..n : rows[k].file = at[k] /\ rows[k] = P!Row(at[k], run.plan[at[k]], run.n)
    BY <1>5, <1>7
  <1> QED
    BY <1>5, <1>6, <1>9, <1>10, <1>11

\* Photos that land move no type.
LEMMA RegistersTypes ==
    ASSUME CardTypes, NEW rows \in Seq(PhotoRow), P!Registers(rows), UNCHANGED <<card, page>>,
           panel' \in [P!Photos -> PhotoPanel], run' \in ImportRun, flying' \in Seq(PhotoRow)
    PROVE  CardTypes' /\ evidence' = evidence \o rows
  <1>1. evidence' = evidence \o rows /\ pins' = [s \in P!Shots |-> P!Learnt(s, rows)]
    BY DEF P!Registers
  <1>2. ASSUME NEW s \in P!Shots PROVE P!Learnt(s, rows) \in Nat
    <2> DEFINE located == {i \in DOMAIN rows : rows[i].shot = s /\ rows[i].place # P!Nowhere}
    <2>1. \A i \in DOMAIN rows : rows[i] \in PhotoRow /\ i \in Nat
      BY ElementOfSeq, LenProperties
    <2>2. pins[s] \in Nat
      BY DEF CardTypes
    <2>3. located \in SUBSET Nat /\ located \in SUBSET DOMAIN rows
      BY <2>1
    <2>4. P!Learnt(s, rows) = IF pins[s] = P!Nowhere /\ located # {} THEN rows[P!Min(located)].place ELSE pins[s]
      BY DEF P!Learnt
    <2> HIDE DEF located
    <2>5. ASSUME located # {} PROVE rows[P!Min(located)].place \in Nat
      <3>1. P!Min(located) \in DOMAIN rows
        BY <2>3, <2>5, LeastPosition
      <3> QED
        BY <2>1, <3>1 DEF PhotoRow
    <2> QED
      BY <2>2, <2>4, <2>5
  <1>3. pins' \in [P!Shots -> Nat]
    BY <1>1, <1>2
  <1>4. evidence' \in Seq(PhotoRow)
    BY <1>1, RowsAdded DEF CardTypes
  <1>5. page'.pins \in [P!Shots -> Nat] /\ page'.captured \subseteq P!Shots
    BY DEF CardTypes
  <1> QED
    BY <1>1, <1>3, <1>4, <1>5, TypesStay

LEMMA ChunkRowIs ==
    ASSUME PanoramaInv, run.at = "register", NEW rows \in P!RowsOfChunk, NEW k \in DOMAIN rows,
           NEW f, f = rows[k].file
    PROVE  /\ f \in P!Landed /\ f \in run.todo /\ f \in DOMAIN run.plan /\ f \in P!Photos
           /\ rows[k].sum = card[f].sum /\ rows[k].place = card[f].place
           /\ rows[k].shot = run.plan[f].shot /\ rows[k].how = run.plan[f].how /\ rows[k].pin = run.plan[f].pin
           /\ rows[k].fresh = run.fresh /\ rows[k].import = run.n
           /\ panel[f].verdict = "uploading"
  <1>1. f \in P!Landed /\ rows[k] = P!Row(f, run.plan[f], run.n)
    BY ChunkRows
  <1>2. f \in run.todo /\ f \in DOMAIN run.plan /\ f \in P!Photos /\ panel[f].verdict = "uploading"
    BY <1>1 DEF P!Landed, P!TheChunk, PanoramaInv, PlanKept, PlanFits, Importing
  <1> QED
    BY <1>1, <1>2 DEF P!Row

LEMMA ChunkRowsKept ==
    ASSUME PanoramaInv, run.at = "register", NEW rows \in P!RowsOfChunk,
           NEW a \in CardRows \cup {rows[k] : k \in DOMAIN rows},
           NEW b \in CardRows \cup {rows[k] : k \in DOMAIN rows}
    PROVE  RowKept(a) /\ InOrder(a, b)
  <1>1. PlanFits(run.plan) /\ run.n \in Nat /\ run.n # 0
    BY DEF PanoramaInv, CardTypes, ImportRun, PlanKept, Importing
  <1>2. ASSUME NEW k \in DOMAIN rows PROVE RowKept(rows[k])
    <2>1. PICK f : f = rows[k].file
      OBVIOUS
    <2>2. /\ f \in DOMAIN run.plan
          /\ rows[k].sum = card[f].sum /\ rows[k].place = card[f].place
          /\ rows[k].shot = run.plan[f].shot /\ rows[k].how = run.plan[f].how /\ rows[k].pin = run.plan[f].pin
          /\ rows[k].import = run.n
      BY <2>1, ChunkRowIs
    <2>3. Heeded(run.plan[f].how, card[f].place, run.plan[f].pin)
      BY <1>1, <2>2 DEF PlanFits
    <2> QED
      BY <1>1, <2>1, <2>2, <2>3 DEF RowKept
  <1>3. RowKept(a) /\ RowKept(b)
    BY <1>2 DEF PanoramaInv, RowsKept
  <1>4. CASE a \in CardRows /\ b \in CardRows
    BY <1>3, <1>4 DEF PanoramaInv, RowsKept
  <1>5. CASE \E k \in DOMAIN rows : a = rows[k] \/ b = rows[k]
    <2>1. PICK k \in DOMAIN rows : a = rows[k] \/ b = rows[k]
      BY <1>5
    <2>2. rows[k].import = run.n
      BY ChunkRowIs
    <2>3. SUFFICES ASSUME a.how = "ORDER", b.how = "ORDER", a.import = b.import
                   PROVE  a.file < b.file <=> a.shot < b.shot
      BY <1>3 DEF InOrder
    <2>4. a.import = run.n /\ b.import = run.n /\ Importing
      BY <2>1, <2>2, <2>3 DEF Importing
    <2>5. /\ a.file \in DOMAIN run.plan /\ a.shot = run.plan[a.file].shot /\ a.how = run.plan[a.file].how
          /\ b.file \in DOMAIN run.plan /\ b.shot = run.plan[b.file].shot /\ b.how = run.plan[b.file].how
      BY <1>3, <2>4 DEF RowKept
    <2>6. run.plan[a.file].how = "ORDER" /\ run.plan[b.file].how = "ORDER"
      BY <2>3, <2>5
    <2>7. a.file < b.file <=> run.plan[a.file].shot < run.plan[b.file].shot
      BY <1>1, <2>5, <2>6 DEF PlanFits
    <2> QED
      BY <2>5, <2>7
  <1> QED
    BY <1>3, <1>4, <1>5

\* The connection fails, with the rows of the chunk on their way.
LEMMA LostPanoramaInv ==
    ASSUME PanoramaInv, P!RegisterLost
    PROVE  PanoramaInv'
  <1>1. CardTypes /\ panel \in [P!Photos -> PhotoPanel] /\ run \in ImportRun
    BY DEF PanoramaInv, CardTypes, PhotoPanel
  <1>2. /\ UNCHANGED <<card, pins, evidence, page, panel, unchecked, raced>>
        /\ run.at = "register" /\ flying = <<>> /\ P!GiveUp
    BY DEF P!RegisterLost
  <1>3. PICK rows \in P!RowsOfChunk : flying' = [k \in DOMAIN rows |-> [rows[k] EXCEPT !.fresh = FALSE]]
    BY DEF P!RegisterLost
  <1>4. /\ rows \in Seq(PhotoRow) /\ Len(rows) \in Nat /\ DOMAIN rows = 1..Len(rows)
        /\ \A k, l \in DOMAIN rows : rows[k].file = rows[l].file => k = l
        /\ \A k \in DOMAIN rows : rows[k] \in PhotoRow
    <2>1. rows \in Seq(PhotoRow) /\ \A k, l \in DOMAIN rows : rows[k].file = rows[l].file => k = l
      BY <1>2, ChunkRows
    <2> QED
      BY <2>1, LenProperties, ElementOfSeq
  <1>5. /\ run' \in ImportRun /\ run'.n = run.n /\ run'.checked = run.checked
        /\ run'.at = "scanned" /\ run'.todo = {} /\ ~Importing'
    BY <1>1, <1>2, GivesUp
  <1>6. ASSUME NEW k \in DOMAIN rows
        PROVE  /\ flying'[k] \in PhotoRow /\ ~flying'[k].fresh
               /\ flying'[k].file = rows[k].file /\ flying'[k].sum = rows[k].sum
               /\ flying'[k].place = rows[k].place /\ flying'[k].shot = rows[k].shot
               /\ flying'[k].how = rows[k].how /\ flying'[k].pin = rows[k].pin
               /\ flying'[k].import = rows[k].import
    <2>1. flying'[k] = [rows[k] EXCEPT !.fresh = FALSE] /\ rows[k] \in PhotoRow
      BY <1>3, <1>4
    <2>2. FALSE \in BOOLEAN
      OBVIOUS
    <2>3. [rows[k] EXCEPT !.fresh = FALSE] \in PhotoRow
      BY <2>1, <2>2, Zenon DEF PhotoRow
    <2> QED
      BY <2>1, <2>3 DEF PhotoRow
  <1>7. DOMAIN flying' = DOMAIN rows
    BY <1>3
  <1>8. flying' \in Seq(PhotoRow)
    <2>1. flying' = [k \in 1..Len(rows) |-> flying'[k]]
      BY <1>3, <1>4
    <2>2. flying' \in [1..Len(rows) -> PhotoRow]
      BY <1>4, <1>6, <2>1
    <2> QED
      BY <1>4, <2>2
  <1>9. CardTypes'
    <2>1. /\ pins' \in [P!Shots -> Nat] /\ page'.pins \in [P!Shots -> Nat] /\ page'.captured \subseteq P!Shots
          /\ evidence' \in Seq(PhotoRow)
      BY <1>1, <1>2, Zenon DEF CardTypes
    <2> QED
      BY <1>1, <1>2, <1>5, <1>8, <2>1, TypesStay
  <1>10. ASSUME NEW row \in CardRows'
         PROVE  \E a \in CardRows \cup {rows[k] : k \in DOMAIN rows} :
                  /\ row.file = a.file /\ row.sum = a.sum /\ row.place = a.place /\ row.shot = a.shot
                  /\ row.how = a.how /\ row.pin = a.pin /\ row.import = a.import
    <2>1. CASE row \in {evidence[i] : i \in DOMAIN evidence}
      BY <2>1 DEF CardRows
    <2>2. CASE row \in {flying'[k] : k \in DOMAIN flying'}
      BY <1>6, <1>7, <2>2
    <2> QED
      BY <1>2, <2>1, <2>2 DEF CardRows
  <1>11. RowsKept'
    <2>1. ASSUME NEW row \in CardRows' PROVE RowKept(row)'
      <3>1. PICK a \in CardRows \cup {rows[k] : k \in DOMAIN rows} :
              /\ row.file = a.file /\ row.sum = a.sum /\ row.place = a.place /\ row.shot = a.shot
              /\ row.how = a.how /\ row.pin = a.pin /\ row.import = a.import
        BY <1>10
      <3>2. RowKept(a)
        BY <1>2, ChunkRowsKept
      <3> QED
        BY <1>2, <1>5, <3>1, <3>2 DEF RowKept, Heeded
    <2>2. ASSUME NEW row \in CardRows', NEW other \in CardRows' PROVE InOrder(row, other)
      <3>1. PICK a \in CardRows \cup {rows[k] : k \in DOMAIN rows} :
              row.file = a.file /\ row.shot = a.shot /\ row.how = a.how /\ row.import = a.import
        BY <1>10
      <3>2. PICK b \in CardRows \cup {rows[k] : k \in DOMAIN rows} :
              other.file = b.file /\ other.shot = b.shot /\ other.how = b.how /\ other.import = b.import
        BY <1>10
      <3>3. InOrder(a, b)
        BY <1>2, ChunkRowsKept
      <3> QED
        BY <3>1, <3>2, <3>3 DEF InOrder
    <2> QED
      BY <2>1, <2>2 DEF RowsKept, InOrder
  <1>12. FreshKept' /\ PlanKept'
    BY <1>2, <1>5, <1>6, <1>7 DEF PanoramaInv, FreshKept, PlanKept
  <1>13. P!ImportedIsStored'
    BY <1>2 DEF PanoramaInv, P!ImportedIsStored, P!Photos
  <1>14. OnceKept'
    <2>1. SUFFICES ASSUME ~unchecked, ~raced
                   PROVE  /\ \A i, j \in DOMAIN evidence : evidence[i].sum = evidence[j].sum => i = j
                          /\ \A i, j \in DOMAIN rows : rows[i].sum = rows[j].sum => i = j
                          /\ \A i \in DOMAIN evidence, j \in DOMAIN rows : evidence[i].sum # rows[j].sum
                          /\ \A f, g \in Pending' : card[f].sum = card[g].sum => f = g
                          /\ \A f \in Pending', i \in DOMAIN evidence : card[f].sum # evidence[i].sum
                          /\ \A f \in Pending', k \in DOMAIN rows : card[f].sum # rows[k].sum
      <3>1. DOMAIN flying' = DOMAIN rows /\ \A k \in DOMAIN rows : flying'[k].sum = rows[k].sum
        BY <1>6, <1>7
      <3>2. CardRows' = {evidence[i] : i \in DOMAIN evidence} \cup {flying'[i] : i \in DOMAIN rows}
        BY <1>2, <3>1 DEF CardRows
      <3> QED
        BY <1>2, <1>5, <3>1, <3>2 DEF OnceKept
    <2>2. /\ \A i, j \in DOMAIN evidence : evidence[i].sum = evidence[j].sum => i = j
          /\ \A f, g \in Pending : card[f].sum = card[g].sum => f = g
          /\ \A f \in Pending, i \in DOMAIN evidence : card[f].sum # evidence[i].sum
      BY <1>2, <2>1 DEF PanoramaInv, OnceKept, Importing, CardRows
    <2>3. \A k \in DOMAIN rows : /\ rows[k].file \in Pending /\ rows[k].sum = card[rows[k].file].sum
                                 /\ panel[rows[k].file].verdict = "uploading"
      BY <1>2, ChunkRowIs DEF Pending
    <2>4. Pending' \subseteq Pending /\ \A f \in Pending' : panel[f].verdict \in {"ready", "far"}
      BY <1>2, <1>5 DEF Pending, P!Photos
    <2>5. \A i, j \in DOMAIN rows : rows[i].sum = rows[j].sum => i = j
      BY <1>4, <2>2, <2>3
    <2>6. \A f \in Pending', k \in DOMAIN rows : card[f].sum # rows[k].sum
      BY <2>2, <2>3, <2>4
    <2> QED
      BY <2>2, <2>3, <2>4, <2>5, <2>6
  <1> QED
    BY <1>9, <1>11, <1>12, <1>13, <1>14 DEF PanoramaInv

\* The rows of a chunk are registered.
LEMMA RegisterPanoramaInv ==
    ASSUME PanoramaInv, P!Register
    PROVE  PanoramaInv'
  <1>1. CardTypes /\ panel \in [P!Photos -> PhotoPanel] /\ run \in ImportRun
        /\ evidence \in Seq(PhotoRow) /\ flying \in Seq(PhotoRow)
    BY DEF PanoramaInv, CardTypes, PhotoPanel
  <1>2. /\ UNCHANGED <<card, page, flying, unchecked, raced>>
        /\ run.at = "register"
        /\ panel' = [f \in P!Photos |-> IF f \in P!Landed THEN [panel[f] EXCEPT !.verdict = "uploaded"] ELSE panel[f]]
        /\ run' = [run EXCEPT !.at = "upload", !.todo = @ \ P!TheChunk]
    BY DEF P!Register, P!Marks
  <1>3. PICK rows \in P!RowsOfChunk : P!Registers(rows)
    BY DEF P!Register
  <1>4. /\ rows \in Seq(PhotoRow)
        /\ \A k, l \in DOMAIN rows : rows[k].file = rows[l].file => k = l
        /\ \A f \in P!Landed : \E k \in DOMAIN rows : rows[k].file = f
    BY <1>2, ChunkRows
  <1>5. /\ run' \in ImportRun /\ run'.at = "upload" /\ run'.todo = run.todo \ P!TheChunk
        /\ run'.n = run.n /\ run'.plan = run.plan /\ run'.fresh = run.fresh /\ run'.checked = run.checked
        /\ Importing /\ Importing'
    <2>1. run.todo \ P!TheChunk \in SUBSET P!Photos
          /\ "upload" \in {"idle", "scanned", "upload", "register", "done"}
      BY <1>1 DEF ImportRun
    <2>2. run' \in ImportRun
      BY <1>1, <1>2, <2>1, Zenon DEF ImportRun
    <2> QED
      BY <1>1, <1>2, <2>2 DEF ImportRun, Importing
  <1>6. panel' \in [P!Photos -> PhotoPanel]
    <2>1. "uploaded" \in Verdicts
      BY DEF Verdicts
    <2>2. \A f \in P!Photos : [panel[f] EXCEPT !.verdict = "uploaded"] \in PhotoPanel
      BY <1>1, <2>1, Zenon DEF PhotoPanel
    <2> QED
      BY <1>1, <1>2, <2>2
  <1>7. \A f \in P!Photos : panel'[f].verdict = IF f \in P!Landed THEN "uploaded" ELSE panel[f].verdict
    BY <1>1, <1>2 DEF PhotoPanel
  <1>8. CardTypes' /\ evidence' = evidence \o rows
    BY <1>1, <1>2, <1>3, <1>4, <1>5, <1>6, RegistersTypes
  <1>9. /\ Len(evidence) \in Nat /\ DOMAIN evidence = 1..Len(evidence) /\ DOMAIN rows = 1..Len(rows)
        /\ \A i \in DOMAIN evidence : i \in DOMAIN evidence' /\ evidence'[i] = evidence[i]
        /\ \A k \in DOMAIN rows : Len(evidence) + k \in DOMAIN evidence' /\ evidence'[Len(evidence) + k] = rows[k]
        /\ \A i \in DOMAIN evidence' :
             \/ i \in DOMAIN evidence /\ evidence'[i] = evidence[i]
             \/ \E k \in DOMAIN rows : i = Len(evidence) + k /\ evidence'[i] = rows[k]
    <2>1. PICK e : e = evidence'
      OBVIOUS
    <2> QED
      BY <1>1, <1>4, <1>8, <2>1, RowsAdded
  <1>10. CardRows' \subseteq CardRows \cup {rows[k] : k \in DOMAIN rows}
    BY <1>2, <1>9 DEF CardRows
  <1>11. RowsKept'
    <2>1. ASSUME NEW row \in CardRows' PROVE RowKept(row)'
      <3>1. RowKept(row)
        BY <1>2, <1>10, ChunkRowsKept
      <3> QED
        BY <1>2, <1>5, <3>1 DEF RowKept, Heeded
    <2>2. \A a, b \in CardRows' : InOrder(a, b)
      BY <1>2, <1>10, ChunkRowsKept
    <2> QED
      BY <2>1, <2>2 DEF RowsKept, InOrder
  <1>12. PlanKept'
    <2>1. PICK plan : plan = run.plan
      OBVIOUS
    <2>2. PlanFits(plan) /\ run.todo \subseteq DOMAIN plan /\ run.n # 0
      BY <1>5, <2>1 DEF PanoramaInv, PlanKept
    <2>3. PlanTarget' = PlanTarget /\ P!Photos' = P!Photos
      <3>1. pins' \in [P!Shots -> Nat]
        <4>1. pins' \in [P!Shots' -> Nat] /\ DOMAIN pins' = P!Shots
          BY <1>3, <1>8 DEF P!Registers, CardTypes
        <4> QED
          BY <4>1 DEF P!Shots
      <3> QED
        BY <1>1, <1>2, <3>1, TypesStay
    <2>4. PlanFits(plan)'
      BY <1>2, <2>2, <2>3 DEF PlanFits, Heeded
    <2> QED
      BY <1>5, <2>1, <2>2, <2>4 DEF PlanKept
  <1>13. PlanFits(run.plan) /\ run.todo \subseteq DOMAIN run.plan
    BY <1>5 DEF PanoramaInv, PlanKept
  <1>14. \A k \in DOMAIN rows : /\ rows[k].file \in P!Landed /\ rows[k].file \in run.todo
                                /\ rows[k].file \in DOMAIN run.plan
                                /\ rows[k].sum = card[rows[k].file].sum
                                /\ rows[k].shot = run.plan[rows[k].file].shot
                                /\ rows[k].how = run.plan[rows[k].file].how /\ rows[k].fresh = run.fresh
    BY <1>2, ChunkRowIs
  <1>15. FreshKept'
    <2>1. ASSUME NEW i \in DOMAIN evidence', NEW j \in DOMAIN evidence', i < j,
                 evidence'[j].how = "ORDER", evidence'[j].fresh
          PROVE  evidence'[i].shot # evidence'[j].shot
      <3>1. CASE j \in DOMAIN evidence
        <4>1. i \in DOMAIN evidence
          BY <1>9, <2>1, <3>1
        <4> QED
          BY <1>9, <2>1, <3>1, <4>1 DEF PanoramaInv, FreshKept
      <3>2. CASE j \notin DOMAIN evidence
        <4>1. PICK k \in DOMAIN rows : j = Len(evidence) + k /\ evidence'[j] = rows[k]
          BY <1>9, <3>2
        <4>2. run.fresh /\ run.plan[rows[k].file].how = "ORDER"
          BY <1>14, <2>1, <4>1
        <4>3. CASE i \in DOMAIN evidence
          <5>1. evidence[i].shot # run.plan[rows[k].file].shot
            BY <1>5, <1>14, <4>2, <4>3 DEF PanoramaInv, FreshKept
          <5> QED
            BY <1>9, <1>14, <4>1, <4>3, <5>1
        <4>4. CASE i \notin DOMAIN evidence
          <5>1. PICK l \in DOMAIN rows : i = Len(evidence) + l /\ evidence'[i] = rows[l]
            BY <1>9, <4>4
          <5>2. rows[l].file # rows[k].file
            BY <1>4, <1>9, <2>1, <4>1, <5>1
          <5>3. run.plan[rows[l].file].shot # run.plan[rows[k].file].shot
            BY <1>13, <1>14, <4>2, <5>2 DEF PlanFits
          <5> QED
            BY <1>14, <4>1, <5>1, <5>3
        <4> QED
          BY <4>3, <4>4
      <3> QED
        BY <3>1, <3>2
    <2>2. ASSUME run.fresh, NEW i \in DOMAIN evidence', NEW f \in run'.todo, run.plan[f].how = "ORDER"
          PROVE  evidence'[i].shot # run.plan[f].shot
      <3>1. f \in run.todo /\ f \notin P!Landed
        BY <1>5, <2>2 DEF P!Landed
      <3>2. CASE i \in DOMAIN evidence
        BY <1>5, <1>9, <2>2, <3>1, <3>2 DEF PanoramaInv, FreshKept
      <3>3. CASE i \notin DOMAIN evidence
        <4>1. PICK k \in DOMAIN rows : evidence'[i] = rows[k]
          BY <1>9, <3>3
        <4>2. rows[k].file # f
          BY <1>14, <3>1
        <4>3. run.plan[rows[k].file].shot # run.plan[f].shot
          BY <1>13, <1>14, <2>2, <3>1, <4>2 DEF PlanFits
        <4> QED
          BY <1>14, <4>1, <4>3
      <3> QED
        BY <3>2, <3>3
    <2>3. \A k \in DOMAIN flying : ~flying[k].fresh
      BY DEF PanoramaInv, FreshKept
    <2> QED
      BY <1>2, <1>5, <2>1, <2>2, <2>3 DEF FreshKept
  <1>16. P!ImportedIsStored'
    <2>1. ASSUME NEW f \in P!Photos, panel'[f].verdict = "uploaded"
          PROVE  \E i \in DOMAIN evidence' : card[f].sum = evidence'[i].sum
      <3>1. CASE f \in P!Landed
        BY <1>4, <1>9, <1>14, <3>1
      <3>2. CASE f \notin P!Landed
        <4>1. PICK i \in DOMAIN evidence : card[f].sum = evidence[i].sum
          BY <1>7, <2>1, <3>2 DEF PanoramaInv, P!ImportedIsStored, P!Sums
        <4> QED
          BY <1>9, <4>1
      <3> QED
        BY <3>1, <3>2
    <2> QED
      BY <1>2, <2>1 DEF P!ImportedIsStored, P!Sums, P!Photos
  <1>17. OnceKept'
    <2>1. SUFFICES ASSUME ~unchecked, ~raced
                   PROVE  /\ \A i, j \in DOMAIN evidence' : evidence'[i].sum = evidence'[j].sum => i = j
                          /\ \A i \in DOMAIN evidence', j \in DOMAIN flying : evidence'[i].sum # flying[j].sum
                          /\ \A i, j \in DOMAIN flying : flying[i].sum = flying[j].sum => i = j
                          /\ run.checked
                          /\ \A f, g \in Pending' : card[f].sum = card[g].sum => f = g
                          /\ \A f \in Pending', row \in CardRows' : card[f].sum # row.sum
      BY <1>2, <1>5 DEF OnceKept
    <2>2. /\ \A i, j \in DOMAIN evidence : evidence[i].sum = evidence[j].sum => i = j
          /\ \A i, j \in DOMAIN flying : flying[i].sum = flying[j].sum => i = j
          /\ \A i \in DOMAIN evidence, j \in DOMAIN flying : evidence[i].sum # flying[j].sum
          /\ run.checked
          /\ \A f, g \in Pending : card[f].sum = card[g].sum => f = g
          /\ \A f \in Pending, row \in CardRows : card[f].sum # row.sum
      BY <1>5, <2>1 DEF PanoramaInv, OnceKept
    <2>3. \A k \in DOMAIN rows : rows[k].file \in Pending
      BY <1>2, ChunkRowIs DEF Pending
    <2>4. Pending' \subseteq Pending /\ \A f \in Pending' : f \notin P!Landed
      BY <1>2, <1>5, <1>7 DEF Pending, P!Photos, P!Landed
    <2>5. ASSUME NEW k \in DOMAIN rows
          PROVE  /\ \A i \in DOMAIN evidence : rows[k].sum # evidence[i].sum
                 /\ \A i \in DOMAIN flying : rows[k].sum # flying[i].sum
                 /\ \A l \in DOMAIN rows : rows[k].sum = rows[l].sum => k = l
                 /\ \A f \in Pending' : card[f].sum # rows[k].sum
      <3>1. /\ \A i \in DOMAIN evidence : evidence[i] \in CardRows
            /\ \A i \in DOMAIN flying : flying[i] \in CardRows
        BY DEF CardRows
      <3> QED
        BY <1>4, <1>14, <2>2, <2>3, <2>4, <3>1
    <2>6. ASSUME NEW i \in DOMAIN evidence', NEW j \in DOMAIN evidence', evidence'[i].sum = evidence'[j].sum
          PROVE  i = j
      BY <1>9, <2>2, <2>5, <2>6
    <2>7. \A i \in DOMAIN evidence', j \in DOMAIN flying : evidence'[i].sum # flying[j].sum
      BY <1>9, <2>2, <2>5
    <2>8. \A f \in Pending', row \in CardRows' : card[f].sum # row.sum
      BY <1>10, <2>2, <2>4, <2>5
    <2> QED
      BY <2>2, <2>4, <2>6, <2>7, <2>8
  <1> QED
    BY <1>8, <1>11, <1>12, <1>15, <1>16, <1>17 DEF PanoramaInv

\* Rows come in that the panel did not send, or gave up on.
LEMMA OthersPanoramaInv ==
    ASSUME PanoramaInv, NEW rows \in Seq(PhotoRow), P!Registers(rows),
           UNCHANGED <<card, page, panel>>, flying' = flying \/ flying' = <<>>,
           run' = [run EXCEPT !.fresh = FALSE],
           \A k \in DOMAIN rows : \/ rows[k] \in CardRows
                                  \/ RowKept(rows[k]) /\ rows[k].how = "hand",
           \A k \in DOMAIN rows : rows[k].how = "ORDER" => ~rows[k].fresh
    PROVE  /\ CardTypes' /\ PlanKept' /\ RowsKept' /\ FreshKept' /\ P!ImportedIsStored'
           /\ \A row \in CardRows' : row \in CardRows \/ \E k \in DOMAIN rows : row = rows[k]
           /\ Pending' = Pending /\ (Importing' <=> Importing) /\ run'.checked = run.checked
           /\ run'.at = run.at
           /\ Len(evidence) \in Nat /\ DOMAIN evidence = 1..Len(evidence) /\ DOMAIN rows = 1..Len(rows)
           /\ \A i \in DOMAIN evidence' :
                \/ i \in DOMAIN evidence /\ evidence'[i] = evidence[i]
                \/ \E k \in DOMAIN rows : i = Len(evidence) + k /\ evidence'[i] = rows[k]
  <1>1. CardTypes /\ panel \in [P!Photos -> PhotoPanel] /\ run \in ImportRun
        /\ evidence \in Seq(PhotoRow) /\ flying \in Seq(PhotoRow)
    BY DEF PanoramaInv, CardTypes, PhotoPanel
  <1>2. run' \in ImportRun
    <2>1. FALSE \in BOOLEAN
      OBVIOUS
    <2> QED
      BY <1>1, <2>1, Zenon DEF ImportRun
  <1>3. /\ run'.at = run.at /\ run'.todo = run.todo /\ ~run'.fresh
        /\ run'.n = run.n /\ run'.plan = run.plan /\ run'.checked = run.checked
    BY <1>1, <1>2 DEF ImportRun
  <1>4. CardTypes' /\ evidence' = evidence \o rows
    <2>1. flying' \in Seq(PhotoRow)
      <3>1. <<>> \in Seq(PhotoRow)
        OBVIOUS
      <3> QED
        BY <1>1, <3>1, Zenon
    <2> QED
      BY <1>1, <1>2, <2>1, RegistersTypes
  <1>5. /\ Len(evidence) \in Nat /\ DOMAIN evidence = 1..Len(evidence) /\ DOMAIN rows = 1..Len(rows)
        /\ \A i \in DOMAIN evidence : i \in DOMAIN evidence' /\ evidence'[i] = evidence[i]
        /\ \A i \in DOMAIN evidence' :
             \/ i \in DOMAIN evidence /\ evidence'[i] = evidence[i]
             \/ \E k \in DOMAIN rows : i = Len(evidence) + k /\ evidence'[i] = rows[k]
    <2>1. PICK e : e = evidence \o rows
      OBVIOUS
    <2>2. PICK s \in Seq(PhotoRow) : s = evidence
      BY <1>1
    <2>3. Joined(s, rows, e)
      BY <2>1, <2>2, RowsJoined
    <2> QED
      BY <1>4, <2>1, <2>2, <2>3, Zenon DEF Joined
  <1>6. \A row \in CardRows' : row \in CardRows \/ \E k \in DOMAIN rows : row = rows[k]
    BY <1>5 DEF CardRows
  <1>7. Pending' = Pending /\ (Importing' <=> Importing)
    BY <1>3 DEF Pending, Importing, P!Photos
  <1>8. PlanKept'
    <2>1. PICK plan : plan = run.plan
      OBVIOUS
    <2>2. Importing => PlanFits(plan) /\ run.todo \subseteq DOMAIN plan /\ run.n # 0
      BY <2>1 DEF PanoramaInv, PlanKept
    <2>3. PlanTarget' = PlanTarget /\ P!Photos' = P!Photos
      <3>1. pins' \in [P!Shots' -> Nat] /\ DOMAIN pins' = P!Shots
        BY <1>4 DEF P!Registers, CardTypes
      <3>2. pins' \in [P!Shots -> Nat]
        BY <3>1 DEF P!Shots
      <3> QED
        BY <1>1, <3>2, TypesStay
    <2>4. PlanFits(plan) => PlanFits(plan)'
      BY <2>3 DEF PlanFits, Heeded
    <2> QED
      BY <1>3, <1>7, <2>1, <2>2, <2>4 DEF PlanKept
  <1>9. RowsKept'
    <2>1. ASSUME NEW row \in CardRows' PROVE RowKept(row)' /\ (row \in CardRows \/ row.how = "hand")
      <3>1. RowKept(row) /\ (row \in CardRows \/ row.how = "hand")
        BY <1>6 DEF PanoramaInv, RowsKept
      <3> QED
        BY <1>3, <1>7, <3>1 DEF RowKept, Heeded
    <2>2. ASSUME NEW a \in CardRows', NEW b \in CardRows' PROVE InOrder(a, b)
      BY <2>1 DEF PanoramaInv, RowsKept, InOrder
    <2> QED
      BY <2>1, <2>2 DEF RowsKept, InOrder
  <1>10. FreshKept'
    <2>1. ASSUME NEW j \in DOMAIN evidence', evidence'[j].how = "ORDER", evidence'[j].fresh,
                 NEW i \in DOMAIN evidence', i < j
          PROVE  evidence'[i].shot # evidence'[j].shot
      <3>1. j \in DOMAIN evidence
        BY <1>5, <2>1
      <3>2. i \in DOMAIN evidence
        BY <1>5, <2>1, <3>1
      <3> QED
        BY <1>5, <2>1, <3>1, <3>2 DEF PanoramaInv, FreshKept
    <2>2. \A k \in DOMAIN flying' : ~flying'[k].fresh
      BY DEF PanoramaInv, FreshKept
    <2> QED
      BY <1>3, <2>1, <2>2 DEF FreshKept
  <1>11. P!ImportedIsStored'
    BY <1>5 DEF PanoramaInv, P!ImportedIsStored, P!Sums, P!Photos
  <1> QED
    BY <1>3, <1>4, <1>5, <1>6, <1>7, <1>8, <1>9, <1>10, <1>11

LEMMA LatePanoramaInv ==
    ASSUME PanoramaInv, P!LateRegister
    PROVE  PanoramaInv'
  <1>1. /\ P!Registers(flying) /\ flying' = <<>> /\ run' = [run EXCEPT !.fresh = FALSE]
        /\ UNCHANGED <<card, page, panel, unchecked, raced>>
    BY DEF P!LateRegister
  <1>2. flying \in Seq(PhotoRow) /\ \A k \in DOMAIN flying : flying[k] \in CardRows /\ ~flying[k].fresh
    BY DEF PanoramaInv, CardTypes, FreshKept, CardRows
  <1>3. /\ CardTypes' /\ PlanKept' /\ RowsKept' /\ FreshKept' /\ P!ImportedIsStored'
        /\ \A row \in CardRows' : row \in CardRows \/ \E k \in DOMAIN flying : row = flying[k]
        /\ Pending' = Pending /\ (Importing' <=> Importing) /\ run'.checked = run.checked
        /\ Len(evidence) \in Nat /\ DOMAIN evidence = 1..Len(evidence) /\ DOMAIN flying = 1..Len(flying)
        /\ \A i \in DOMAIN evidence' :
             \/ i \in DOMAIN evidence /\ evidence'[i] = evidence[i]
             \/ \E k \in DOMAIN flying : i = Len(evidence) + k /\ evidence'[i] = flying[k]
    BY <1>1, <1>2, OthersPanoramaInv
  <1>4. CardRows' \subseteq CardRows
    BY <1>3 DEF CardRows
  <1>5. OnceKept'
    <2>1. SUFFICES ASSUME ~unchecked, ~raced
                   PROVE  /\ \A i, j \in DOMAIN evidence' : evidence'[i].sum = evidence'[j].sum => i = j
                          /\ Importing => run.checked
                          /\ run.checked => /\ \A f, g \in Pending : card[f].sum = card[g].sum => f = g
                                            /\ \A f \in Pending, row \in CardRows' : card[f].sum # row.sum
      BY <1>1, <1>3 DEF OnceKept
    <2>2. /\ \A i, j \in DOMAIN evidence : evidence[i].sum = evidence[j].sum => i = j
          /\ \A i, j \in DOMAIN flying : flying[i].sum = flying[j].sum => i = j
          /\ \A i \in DOMAIN evidence, j \in DOMAIN flying : evidence[i].sum # flying[j].sum
      BY <2>1 DEF PanoramaInv, OnceKept
    <2>3. ASSUME NEW i \in DOMAIN evidence', NEW j \in DOMAIN evidence', evidence'[i].sum = evidence'[j].sum
          PROVE  i = j
      BY <1>3, <2>2, <2>3
    <2> QED
      BY <1>4, <2>1, <2>3 DEF PanoramaInv, OnceKept
  <1> QED
    BY <1>3, <1>5 DEF PanoramaInv

\* Somebody else's photo is none of the panel's while nothing is on the screen.
LEMMA ElsewherePanoramaInv ==
    ASSUME PanoramaInv, NEW f \in P!Photos, NEW s \in P!Shots \cup {P!Nowhere}, P!ImportElsewhere(f, s)
    PROVE  PanoramaInv'
  <1>1. PICK row : row = P!Row(f, [shot |-> s, how |-> "hand", pin |-> P!Nowhere], 0)
    OBVIOUS
  <1>2. PICK rows : rows = <<row>>
    OBVIOUS
  <1>3. /\ P!Registers(rows) /\ run' = [run EXCEPT !.fresh = FALSE]
        /\ UNCHANGED <<card, page, panel, flying, unchecked>>
        /\ raced' = (raced \/ run.at \notin {"idle", "done"})
        /\ card[f].sum \notin P!Sums(evidence \o flying)
    BY <1>1, <1>2 DEF P!ImportElsewhere
  <1>4. CardTypes /\ run \in ImportRun /\ evidence \in Seq(PhotoRow) /\ flying \in Seq(PhotoRow)
    BY DEF PanoramaInv, CardTypes
  <1>5. /\ row.file = f /\ row.sum = card[f].sum /\ row.place = card[f].place /\ row.shot = s
        /\ row.how = "hand" /\ row.pin = P!Nowhere /\ row.fresh = run.fresh /\ row.import = 0
    BY <1>1 DEF P!Row
  <1>6. row \in PhotoRow
    <2>1. /\ f \in P!Photos /\ card[f].sum \in STRING /\ card[f].place \in Nat /\ P!Nowhere \in Nat /\ 0 \in Nat
          /\ "hand" \in {"GPS", "ORDER", "hand", "none"} /\ run.fresh \in BOOLEAN
      BY <1>4, CardNumbers DEF ImportRun, P!Nowhere
    <2>2. row = [file |-> f, sum |-> card[f].sum, place |-> card[f].place, shot |-> s,
                 how |-> "hand", pin |-> P!Nowhere, fresh |-> run.fresh, import |-> 0]
      BY <1>1 DEF P!Row
    <2> QED
      BY <2>1, <2>2, Zenon DEF PhotoRow
  <1>7. rows \in Seq(PhotoRow) /\ DOMAIN rows = {1} /\ rows[1] = row
    BY <1>2, <1>6
  <1>8. RowKept(row)
    <2>1. run.n \in Nat
      BY <1>4 DEF ImportRun
    <2>2. Importing => run.n # 0
      BY DEF PanoramaInv, PlanKept
    <2> QED
      BY <1>5, <2>1, <2>2 DEF RowKept, Heeded
  <1>9. /\ CardTypes' /\ PlanKept' /\ RowsKept' /\ FreshKept' /\ P!ImportedIsStored'
        /\ \A r \in CardRows' : r \in CardRows \/ \E k \in DOMAIN rows : r = rows[k]
        /\ Pending' = Pending /\ (Importing' <=> Importing) /\ run'.checked = run.checked
        /\ run'.at = run.at
        /\ Len(evidence) \in Nat /\ DOMAIN evidence = 1..Len(evidence)
        /\ \A i \in DOMAIN evidence' :
             \/ i \in DOMAIN evidence /\ evidence'[i] = evidence[i]
             \/ \E k \in DOMAIN rows : i = Len(evidence) + k /\ evidence'[i] = rows[k]
    BY <1>3, <1>5, <1>7, <1>8, OthersPanoramaInv
  <1>10. /\ \A i \in DOMAIN evidence : evidence[i].sum # row.sum
         /\ \A i \in DOMAIN flying : flying[i].sum # row.sum
    <2>1. PICK e : e = evidence \o flying
      OBVIOUS
    <2>2. /\ \A i \in DOMAIN evidence : i \in DOMAIN e /\ e[i] = evidence[i]
          /\ \A k \in DOMAIN flying : Len(evidence) + k \in DOMAIN e /\ e[Len(evidence) + k] = flying[k]
      BY <1>4, <2>1, RowsAdded
    <2>3. \A i \in DOMAIN e : e[i].sum # row.sum
      BY <1>3, <1>5, <2>1 DEF P!Sums
    <2> QED
      BY <2>2, <2>3
  <1>11. OnceKept'
    <2>1. ASSUME ~unchecked', ~raced'
          PROVE  /\ ~unchecked /\ ~raced /\ run.at \in {"idle", "done"}
                 /\ Pending' = {} /\ ~Importing'
      BY <1>3, <1>9, <2>1 DEF Pending, Importing
    <2>2. ASSUME ~unchecked', ~raced'
          PROVE  /\ \A i, j \in DOMAIN evidence : evidence[i].sum = evidence[j].sum => i = j
                 /\ \A i, j \in DOMAIN flying : flying[i].sum = flying[j].sum => i = j
                 /\ \A i \in DOMAIN evidence, j \in DOMAIN flying : evidence[i].sum # flying[j].sum
      BY <2>1, <2>2 DEF PanoramaInv, OnceKept
    <2>3. ASSUME NEW i \in DOMAIN evidence'
          PROVE  \/ i \in DOMAIN evidence /\ evidence'[i] = evidence[i]
                 \/ i = Len(evidence) + 1 /\ evidence'[i] = row
      BY <1>7, <1>9
    <2>4. ASSUME ~unchecked', ~raced', NEW i \in DOMAIN evidence', NEW j \in DOMAIN evidence',
                 evidence'[i].sum = evidence'[j].sum
          PROVE  i = j
      BY <1>10, <2>2, <2>3, <2>4
    <2>5. ASSUME ~unchecked', ~raced', NEW i \in DOMAIN evidence', NEW j \in DOMAIN flying
          PROVE  evidence'[i].sum # flying[j].sum
      BY <1>10, <2>2, <2>3, <2>5
    <2> QED
      BY <1>3, <2>1, <2>2, <2>4, <2>5 DEF OnceKept
  <1> QED
    BY <1>9, <1>11 DEF PanoramaInv

LEMMA NextPanoramaInv == PanoramaInv /\ P!Next => PanoramaInv'
  <1> SUFFICES ASSUME PanoramaInv, P!Next PROVE PanoramaInv'
    OBVIOUS
  <1>1. CASE \E S \in (SUBSET P!Photos) \ {{}}, checked \in BOOLEAN : P!Scan(S, checked)
    BY <1>1, ScanPanoramaInv
  <1>2. CASE P!ToggleFar \/ P!Refresh \/ P!Revisit \/ P!NeverRegistered
    BY <1>2, LookPanoramaInv
  <1>3. CASE \E f \in P!Photos, s \in P!Shots \cup {P!Nowhere} : P!PickByHand(f, s)
    BY <1>3, PickPanoramaInv
  <1>4. CASE P!Import
    BY <1>4, ImportPanoramaInv
  <1>5. CASE P!UrlsRefused \/ P!RegisterRefused
    BY <1>5, RefusedPanoramaInv
  <1>6. CASE \E landed \in SUBSET P!TheChunk : P!PutChunk(landed)
    BY <1>6, PutPanoramaInv
  <1>7. CASE P!Register
    BY <1>7, RegisterPanoramaInv
  <1>8. CASE P!RegisterLost
    BY <1>8, LostPanoramaInv
  <1>9. CASE P!Finish
    BY <1>9, FinishPanoramaInv
  <1>10. CASE P!LateRegister
    BY <1>10, LatePanoramaInv
  <1>11. CASE \E f \in P!Photos, s \in P!Shots \cup {P!Nowhere} : P!ImportElsewhere(f, s)
    BY <1>11, ElsewherePanoramaInv
  <1> QED
    BY <1>1, <1>2, <1>3, <1>4, <1>5, <1>6, <1>7, <1>8, <1>9, <1>10, <1>11 DEF P!Next

LEMMA SamePanoramaInv == PanoramaInv /\ UNCHANGED panorama => PanoramaInv'
  <1> SUFFICES ASSUME PanoramaInv, UNCHANGED panorama PROVE PanoramaInv'
    OBVIOUS
  <1>1. /\ UNCHANGED <<card, pins, evidence, page, panel, run, flying, unchecked, raced>>
    BY DEF panorama
  <1>2. panel \in [P!Photos -> PhotoPanel] /\ run \in ImportRun
    BY DEF PanoramaInv, CardTypes, PhotoPanel
  <1>3. Pending' = Pending /\ (Importing' <=> Importing)
    BY <1>1 DEF Pending, Importing, P!Photos
  <1>4. run'.checked => Pending' = {} \/ (run.checked /\ Pending' \subseteq Pending)
    BY <1>1, <1>3
  <1> QED
    BY <1>1, <1>2, <1>3, <1>4, QuietPanoramaInv

LEMMA SpecPanoramaInv == FieldSpec => []PanoramaInv
  <1>1. FieldInit => PanoramaInv
    BY InitPanoramaInv DEF FieldInit
  <1>2. PanoramaInv /\ [CaptureStep \/ RepairStep \/ PanoramaStep \/ FlightStep \/ TourStep]_all
          => PanoramaInv'
    BY NextPanoramaInv, SamePanoramaInv DEF CaptureStep, RepairStep, PanoramaStep, FlightStep, TourStep, all
  <1> QED
    BY <1>1, <1>2, PTL DEF FieldSpec

LEMMA PanoramasAreTrue ==
    PanoramaInv => P!TypeOK /\ P!OneCopy /\ P!GpsIsHeeded /\ P!OrderIsKept /\ P!ImportedIsStored
  <1> SUFFICES ASSUME PanoramaInv PROVE P!TypeOK /\ P!OneCopy /\ P!GpsIsHeeded /\ P!OrderIsKept
    BY DEF PanoramaInv
  <1>1. CardTypes /\ RowsKept /\ \A i \in DOMAIN evidence : evidence[i] \in CardRows
    BY DEF PanoramaInv, CardRows
  <1>2. P!TypeOK
    <2>1. \A i \in DOMAIN evidence : evidence[i].file \in P!Photos /\ evidence[i].shot \in P!Shots \cup {P!Nowhere}
      BY <1>1, RowsAreRows DEF PhotoRow
    <2>2. \A f \in P!Photos : panel[f].verdict \in Verdicts
      BY <1>1 DEF CardTypes
    <2>3. run.at \in {"idle", "scanned", "upload", "register", "done"} /\ run.todo \subseteq P!Photos
      BY <1>1 DEF CardTypes, ImportRun
    <2>4. \A s \in P!Shots : pins[s] \in Nat
      BY <1>1 DEF CardTypes
    <2> QED
      BY <2>1, <2>2, <2>3, <2>4 DEF P!TypeOK, Verdicts
  <1>3. P!OneCopy
    BY DEF PanoramaInv, OnceKept, P!OneCopy
  <1>4. P!GpsIsHeeded
    BY <1>1 DEF P!GpsIsHeeded, RowsKept, RowKept, Heeded
  <1>5. P!OrderIsKept
    <2>1. ASSUME NEW j \in DOMAIN evidence, evidence[j].how = "ORDER", evidence[j].fresh, NEW i \in 1..(j - 1)
          PROVE  evidence[i].shot # evidence[j].shot
      <3>1. DOMAIN evidence = 1..Len(evidence) /\ Len(evidence) \in Nat
        BY <1>1, LenProperties DEF CardTypes
      <3>2. i \in DOMAIN evidence /\ i < j
        BY <2>1, <3>1
      <3> QED
        BY <2>1, <3>2 DEF PanoramaInv, FreshKept
    <2>2. ASSUME NEW j \in DOMAIN evidence, evidence[j].how = "ORDER", NEW i \in DOMAIN evidence,
                 evidence[i].how = "ORDER", evidence[i].import = evidence[j].import
          PROVE  evidence[i].file < evidence[j].file <=> evidence[i].shot < evidence[j].shot
      BY <1>1, <2>2 DEF RowsKept, InOrder
    <2> QED
      BY <2>1, <2>2 DEF P!OrderIsKept
  <1> QED
    BY <1>2, <1>3, <1>4, <1>5

\* Unless calls raced that the code does not look out for: drone uploads fill
\* one capture, what their panel calls uploaded is stored, and a ready capture
\* has no unfinished job.  A 3D space is linked once, a vendor's tour waits for
\* its review, and nothing is called connected or ready that the provider did
\* not confirm.  A photo of a card is registered once, at a position that its
\* location and the walking order allow, and what the panel calls imported is
\* stored.  For any number of requests, sites, images and photos.
THEOREM CapturesStayTrue == FieldSpec => []CapturesAreTrue
  <1>1. FlightInv /\ TourInv /\ PanoramaInv => CapturesAreTrue
    BY FlightsAreTrue, ToursAreTrue, PanoramasAreTrue DEF CapturesAreTrue
  <1> QED
    BY <1>1, SpecFlightInv, SpecTourInv, SpecPanoramaInv, PTL
==============================================================================
