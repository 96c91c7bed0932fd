---------------------------- MODULE PanoramaImport ----------------------------
(* The import of a camera's card of 360 photos to one site of a capture route *)
(* (Insta360ImportPanel.tsx), the match of its photos to the positions of the *)
(* route (shot-matching.ts), and what the server registers                    *)
(* (evidence-service.ts, image-360-service.ts).                               *)
(*                                                                            *)
(* Photos are numbered in shooting order and positions in walking order.  A   *)
(* photo is near the pins of its own place only.  The panel matches against   *)
(* the route its page was rendered with.                                      *)
EXTENDS Integers, Sequences, FiniteSetsExt

CONSTANTS Cards,          \* what may be on the card: [sum, place, class] of each photo
          Routes,         \* where the route's pins may be at first
          Chunk,          \* photos per round trip
          MaxImports, MaxMishaps   \* bounds

Nowhere == 0    \* no location; no position
Auto == -1      \* no position was chosen by hand

VARIABLES card,
          pins,       \* the pin of each position, on the server
          evidence,   \* the rows registered, in order
          page,       \* the route as rendered: [captured, pins]
          panel,      \* for each photo: [verdict, hand]
          includeFar,
          run,        \* the import: [at, todo, plan, fresh, checked, n]
          flying,     \* rows of a registration whose caller has given up on it
          mishaps,    \* what has gone wrong, or on elsewhere
          unchecked,      \* an import went on though its duplicates were not checked
          raced       \* a photo may have been registered under the panel's look at it
importVars == <<card, pins, evidence, page, panel, includeFar, run, flying, mishaps, unchecked, raced>>

Photos == DOMAIN card
Shots == DOMAIN pins
Absent == [verdict |-> "absent", hand |-> Auto]
Resting == [at |-> "idle", todo |-> {}, plan |-> <<>>, fresh |-> FALSE, checked |-> TRUE, n |-> 0]

Captured(rows) == {rows[i].shot : i \in DOMAIN rows} \ {Nowhere}
Sums(rows) == {rows[i].sum : i \in DOMAIN rows}

Init ==
    /\ card \in Cards /\ pins \in Routes
    /\ evidence = <<>> /\ page = [captured |-> {}, pins |-> pins]
    /\ panel = [f \in Photos |-> Absent] /\ includeFar = FALSE
    /\ run = Resting /\ flying = <<>> /\ mishaps = 0
    /\ unchecked = FALSE /\ raced = FALSE

------------------------------------------------------------------------------
(* The match: GPS, then walking order.                                        *)

Rank(x, S) == Cardinality({y \in S : y < x})

\* Mutant of Open: a position that has a photo is paired again.
OpenAll(shots, captured, claimed) == shots \ claimed

Open(shots, captured, claimed) == (shots \ captured) \ claimed

\* A photo goes to the pin it is near.  Of the others (those with a location
\* only when some position has no pin) each goes to the open position of its
\* rank, when there are as many and no pin says otherwise.
Match(photos, captured, pin) ==
    LET pinned == {s \in Shots : pin[s] # Nowhere}
        Near(f) == {s \in pinned : pin[s] = card[f].place}
        byGps == {f \in photos : Near(f) # {}}
        leftover == {f \in photos \ byGps : card[f].place = Nowhere \/ pinned # Shots}
        open == Open(Shots, captured, {Min(Near(f)) : f \in byGps})
        Pair(f) == CHOOSE s \in open : Rank(s, open) = Rank(f, leftover)
        Agrees(f) == card[f].place = Nowhere \/ pin[Pair(f)] \in {Nowhere, card[f].place}
        inOrder == Cardinality(leftover) = Cardinality(open) /\ \A f \in leftover : Agrees(f)
        Goes(s, how) == [shot |-> s, how |-> how, pin |-> IF s = Nowhere THEN Nowhere ELSE pin[s]]
    IN [f \in photos |->
          IF f \in byGps THEN Goes(Min(Near(f)), "GPS")
          ELSE IF f \in leftover /\ inOrder THEN Goes(Pair(f), "ORDER") ELSE Goes(Nowhere, "none")]

Included(f) == panel[f].verdict = "ready" \/ (includeFar /\ panel[f].verdict = "far")

\* What the panel proposes: positions chosen by hand are taken, and the rest is
\* matched around them.
Proposal ==
    LET selected == {f \in Photos : Included(f)}
        byHand == {f \in selected : panel[f].hand # Auto}
        taken == {panel[f].hand : f \in byHand} \ {Nowhere}
        match == Match(selected \ byHand, page.captured \cup taken, page.pins)
    IN [f \in selected |-> IF f \in byHand THEN [shot |-> panel[f].hand, how |-> "hand", pin |-> Nowhere]
                           ELSE match[f]]

------------------------------------------------------------------------------
(* The panel.                                                                 *)

Mishap == mishaps < MaxMishaps /\ mishaps' = mishaps + 1
Smooth == UNCHANGED mishaps

\* Mutant of Duplicates: only photos the property has are duplicates.
DuplicatesStored(S) == {f \in S : card[f].sum \in Sums(evidence)}

\* A photo the property has, or the second copy of one on the card.
Duplicates(S) == {f \in S : card[f].sum \in Sums(evidence) \/ \E g \in S : g < f /\ card[g].sum = card[f].sum}

\* scan: every chosen file is classified and hashed, and the hashes are looked
\* up; when that fails the files stay as they are, with an error shown.
Scan(S, checked) ==
    /\ run.at \in {"idle", "scanned", "done"} /\ run.n < MaxImports
    /\ LET hashed == {f \in S : card[f].class \in {"ready", "far"}}
       IN panel' = [f \in Photos |->
            IF f \notin S THEN Absent
            ELSE [Absent EXCEPT !.verdict = IF checked /\ f \in Duplicates(hashed) THEN "duplicate" ELSE card[f].class]]
    /\ run' = [Resting EXCEPT !.at = "scanned", !.checked = checked, !.n = run.n]
    /\ raced' = (raced \/ flying # <<>>)
    /\ IF checked THEN Smooth ELSE Mishap
    /\ UNCHANGED <<card, pins, evidence, page, includeFar, flying, unchecked>>

ToggleFar ==
    /\ run.at = "scanned" /\ \E f \in Photos : panel[f].verdict = "far"
    /\ includeFar' = ~includeFar
    /\ UNCHANGED <<card, pins, evidence, page, panel, run, flying, mishaps, unchecked, raced>>

\* A position, or "Not a listed position".
PickByHand(f, s) ==
    /\ run.at = "scanned" /\ Included(f) /\ panel[f].hand # s
    /\ panel' = [panel EXCEPT ![f].hand = s]
    /\ UNCHANGED <<card, pins, evidence, page, includeFar, run, flying, mishaps, unchecked, raced>>

\* importAll: the proposal on the screen is what is imported.
Import ==
    /\ run.at = "scanned" /\ run.n < MaxImports /\ \E f \in Photos : Included(f)
    /\ run' = [run EXCEPT !.at = "upload", !.n = @ + 1, !.plan = Proposal, !.todo = {f \in Photos : Included(f)},
                 !.fresh = (page.captured = Captured(evidence))]
    /\ unchecked' = (unchecked \/ ~run.checked)
    /\ UNCHANGED <<card, pins, evidence, page, panel, includeFar, flying, mishaps, raced>>

TheChunk == {f \in run.todo : Rank(f, run.todo) < Chunk}

\* The import stops with an error: it can be started again for what is ready.
GiveUp == run' = [run EXCEPT !.at = "scanned", !.todo = {}, !.plan = <<>>, !.fresh = FALSE]

UrlsRefused ==
    /\ run.at = "upload" /\ run.todo # {}
    /\ GiveUp /\ Mishap
    /\ UNCHANGED <<card, pins, evidence, page, panel, includeFar, flying, unchecked, raced>>

Marks(S, verdict) == panel' = [f \in Photos |-> IF f \in S THEN [panel[f] EXCEPT !.verdict = verdict] ELSE panel[f]]

\* The files of a chunk go to storage; one that fails is left out.
PutChunk(landed) ==
    /\ run.at = "upload" /\ run.todo # {} /\ landed \subseteq TheChunk
    /\ panel' = [f \in Photos |-> IF f \notin TheChunk THEN panel[f]
                                  ELSE [panel[f] EXCEPT !.verdict = IF f \in landed THEN "uploading" ELSE "failed"]]
    /\ run' = IF landed = {} THEN [run EXCEPT !.todo = @ \ TheChunk]
              ELSE [run EXCEPT !.at = "register"]
    /\ IF landed = TheChunk THEN Smooth ELSE Mishap
    /\ UNCHANGED <<card, pins, evidence, page, includeFar, flying, unchecked, raced>>

Landed == {f \in TheChunk : panel[f].verdict = "uploading"}

Row(f, goes, n) == [file |-> f, sum |-> card[f].sum, place |-> card[f].place, shot |-> goes.shot,
                    how |-> goes.how, pin |-> goes.pin, fresh |-> run.fresh, import |-> n]

\* The rows of a chunk, in the order its files have landed.
RowsOfChunk ==
    LET n == Cardinality(Landed)
        orders == {at \in [1..n -> Landed] : \A f \in Landed : \E k \in 1..n : at[k] = f}
    IN {[k \in 1..n |-> Row(at[k], run.plan[at[k]], run.n)] : at \in orders}

\* Mutant of Learnt: the latest photo moves a pin.
LearntAnew(s, rows) ==
    LET located == {i \in DOMAIN rows : rows[i].shot = s /\ rows[i].place # Nowhere}
    IN IF located # {} THEN rows[Max(located)].place ELSE pins[s]

\* learnShotLocations: a position without a pin gets that of the first located
\* photo taken at it.
Learnt(s, rows) ==
    LET located == {i \in DOMAIN rows : rows[i].shot = s /\ rows[i].place # Nowhere}
    IN IF pins[s] = Nowhere /\ located # {} THEN rows[Min(located)].place ELSE pins[s]

\* createEvidenceBatch.
Registers(rows) ==
    /\ evidence' = evidence \o rows
    /\ pins' = [s \in Shots |-> Learnt(s, rows)]

Register ==
    /\ run.at = "register"
    /\ \E rows \in RowsOfChunk : Registers(rows)
    /\ Marks(Landed, "uploaded")
    /\ run' = [run EXCEPT !.at = "upload", !.todo = @ \ TheChunk]
    /\ UNCHANGED <<card, page, includeFar, flying, mishaps, unchecked, raced>>

RegisterRefused ==
    /\ run.at = "register"
    /\ GiveUp /\ Mishap
    /\ UNCHANGED <<card, pins, evidence, page, panel, includeFar, flying, unchecked, raced>>

\* The connection fails: the server may still register the chunk.
RegisterLost ==
    /\ run.at = "register" /\ flying = <<>>
    /\ \E rows \in RowsOfChunk : flying' = [k \in DOMAIN rows |-> [rows[k] EXCEPT !.fresh = FALSE]]
    /\ GiveUp /\ Mishap
    /\ UNCHANGED <<card, pins, evidence, page, panel, includeFar, unchecked, raced>>

Finish ==
    /\ run.at = "upload" /\ run.todo = {}
    /\ run' = [Resting EXCEPT !.at = "done", !.n = run.n]
    /\ UNCHANGED <<card, pins, evidence, page, panel, includeFar, flying, mishaps, unchecked, raced>>

\* The page is rendered again: by router.refresh after an import, or by a visit
\* that starts the panel afresh.
Refresh ==
    /\ page' = [captured |-> Captured(evidence), pins |-> pins]
    /\ UNCHANGED <<card, pins, evidence, panel, includeFar, run, flying, mishaps, unchecked, raced>>

Revisit ==
    /\ page' = [captured |-> Captured(evidence), pins |-> pins]
    /\ panel' = [f \in Photos |-> Absent] /\ includeFar' = FALSE
    /\ run' = [Resting EXCEPT !.n = run.n]
    /\ UNCHANGED <<card, pins, evidence, flying, mishaps, unchecked, raced>>

------------------------------------------------------------------------------
(* Others.                                                                    *)

LateRegister ==
    /\ flying # <<>>
    /\ Registers(flying) /\ flying' = <<>>
    /\ run' = [run EXCEPT !.fresh = FALSE]
    /\ UNCHANGED <<card, page, panel, includeFar, mishaps, unchecked, raced>>

NeverRegistered ==
    /\ flying # <<>> /\ flying' = <<>>
    /\ UNCHANGED <<card, pins, evidence, page, panel, includeFar, run, mishaps, unchecked, raced>>

\* Somebody else imports a photo of the card, at a position of their choice.
ImportElsewhere(f, s) ==
    /\ Mishap
    /\ card[f].class = "ready" /\ card[f].sum \notin Sums(evidence \o flying)
    /\ Registers(<<Row(f, [shot |-> s, how |-> "hand", pin |-> Nowhere], 0)>>)
    /\ run' = [run EXCEPT !.fresh = FALSE]
    /\ raced' = (raced \/ run.at \notin {"idle", "done"})
    /\ UNCHANGED <<card, page, panel, includeFar, flying, unchecked>>

Next ==
    \/ \E S \in (SUBSET Photos) \ {{}}, checked \in BOOLEAN : Scan(S, checked)
    \/ ToggleFar \/ \E f \in Photos, s \in Shots \cup {Nowhere} : PickByHand(f, s)
    \/ Import \/ UrlsRefused \/ \E landed \in SUBSET TheChunk : PutChunk(landed)
    \/ Register \/ RegisterRefused \/ RegisterLost \/ Finish \/ Refresh \/ Revisit
    \/ LateRegister \/ NeverRegistered
    \/ \E f \in Photos, s \in Shots \cup {Nowhere} : ImportElsewhere(f, s)

Spec == Init /\ [][Next]_importVars
------------------------------------------------------------------------------
\* Every variable holds a value of its type.
TypeOK ==
    /\ \A s \in Shots : pins[s] \in Nat
    /\ \A i \in DOMAIN evidence : evidence[i].file \in Photos /\ evidence[i].shot \in Shots \cup {Nowhere}
    /\ \A f \in Photos : panel[f].verdict \in {"absent", "ready", "duplicate", "far", "other",
                                               "uploading", "uploaded", "failed"}
    /\ run.at \in {"idle", "scanned", "upload", "register", "done"} /\ run.todo \subseteq Photos

\* However often a card is imported, and wherever an import broke off, a photo
\* is registered once ("re-importing a card ... uploads only what is new"),
\* unless the check for duplicates failed or rows came in under the import.
OneCopy ==
    ~unchecked /\ ~raced => \A i, j \in DOMAIN evidence : evidence[i].sum = evidence[j].sum => i = j

\* No photo is filed automatically at a position whose pin, as the page shows
\* it, is elsewhere than the photo.
GpsIsHeeded ==
    \A i \in DOMAIN evidence :
      LET row == evidence[i]
      IN row.how \in {"GPS", "ORDER"} /\ row.place # Nowhere => row.pin \in {Nowhere, row.place}

\* Photos filed by walking order keep it, and each has a position of its own,
\* which had no photo when the import began, unless the page did not show a
\* photo there was.
OrderIsKept ==
    \A j \in DOMAIN evidence : evidence[j].how = "ORDER" =>
      /\ evidence[j].fresh => \A i \in 1..(j - 1) : evidence[i].shot # evidence[j].shot
      /\ \A i \in DOMAIN evidence :
           evidence[i].how = "ORDER" /\ evidence[i].import = evidence[j].import =>
             (evidence[i].file < evidence[j].file <=> evidence[i].shot < evidence[j].shot)

\* What the panel calls imported is registered.
ImportedIsStored == \A f \in Photos : panel[f].verdict = "uploaded" => card[f].sum \in Sums(evidence)

\* A pin, once there, is not moved by photos (learnShotLocations: "it never
\* moves one a person placed").
PinsStayPut == \A s \in Shots : pins[s] # Nowhere => pins'[s] = pins[s]

\* A position is never filled twice by walking order: what the code does not
\* keep when the page is older than an import that broke off.
NeverFilledTwice ==
    \A i, j \in DOMAIN evidence :
      evidence[j].how = "ORDER" /\ evidence[i].shot = evidence[j].shot => i >= j
===============================================================================
