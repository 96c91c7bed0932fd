----------------------------- MODULE MCFieldWork -----------------------------
(* Work that others do on a property, for TLC: the capture jobs of a vendor,  *)
(* the repair of an issue, the import of a card of 360 photos, and drone      *)
(* captures and 3D tours.  Each behavior follows one of them, so the vendor's *)
(* reach is that of its capture jobs.                                         *)
EXTENDS CaptureJobs, TLC

CONSTANTS Managers, Staff,
          Cards, Routes, Chunk, MaxImports, MaxMishaps,
          JobSites, Images, MaxCaptures,
          TourSites, Spaces, Real, MaxAsked

VARIABLES part,
          status, assignee, sent, proof, submittedBy, verifiedBy, repairCall,
          via, blind, overlapped,
          card, pins, evidence, page, panel, includeFar, run, flying, mishaps,
          unchecked, raced,
          released, captures, datasets, old, flight, races,
          configured, connection, spaces, links, viewed, touring, asked

R == INSTANCE Repairs WITH call <- repairCall
P == INSTANCE PanoramaImport
D == INSTANCE DroneFlights WITH accepted <- released, raced <- races,
                                Sites <- JobSites, Uploads <- Calls, Files <- Images
T == INSTANCE InteriorTours WITH accepted <- viewed, calls <- asked,
                                 Sites <- TourSites, Callers <- Calls, MaxCalls <- MaxAsked

\* What stands for no job is none, what stands for the organization is no site of
\* a job, what stands for no row is no space, and there is room for a capture; a
\* card is a sequence of photos and a route one of pins.
ASSUME FieldAssumption ==
    /\ None \notin Jobs
    /\ Cards \subseteq Seq([sum : STRING, place : Nat, class : {"ready", "far", "other"}])
    /\ Routes \subseteq Seq(Nat)
    /\ D!Own \notin JobSites /\ T!Own \notin TourSites /\ T!NoRow \notin Spaces
    /\ MaxCaptures \in Nat \ {0}

repair == <<status, assignee, sent, proof, submittedBy, verifiedBy, repairCall, via, blind, overlapped>>
panorama == <<card, pins, evidence, page, panel, includeFar, run, flying, mishaps, unchecked, raced>>
flights == <<released, captures, datasets, old, flight, races>>
tours == <<configured, connection, spaces, links, viewed, touring, asked>>

\* The files of an upload, and the sites a tour is delivered for, are named like
\* properties, so that they are permuted with them.
Symmetry == Permutations(Jobs) \cup Permutations(Calls) \cup Permutations(Properties)

Photo(sum, place, class) == [sum |-> sum, place |-> place, class |-> class]

\* A photo without a location and one from the second position; one photo in
\* two folders; a photo taken far away.
MCCards == {<<Photo("a", 0, "ready"), Photo("b", 2, "ready")>>,
            <<Photo("a", 0, "ready"), Photo("a", 0, "ready")>>,
            <<Photo("a", 1, "far"), Photo("b", 0, "ready")>>}

\* One position without a pin; two, the second of them with its pin.
MCRoutes == {<<0>>, <<0, 2>>}

FieldInit == /\ part \in {"captures", "repair", "panoramas", "flights", "tours"}
             /\ Init /\ R!Init /\ P!Init /\ D!FlightInit /\ T!TourInit
             /\ repairing = {}
             /\ part = "flights" \/ captures = <<>>
             /\ part = "tours" \/ configured
             /\ part = "repair" \/ status = "OPEN"
             /\ part = "panoramas" \/ (Len(card) = 2 /\ card[1].sum = card[2].sum /\ Len(pins) = 1)

CaptureStep == part = "captures" /\ Next /\ UNCHANGED <<part, repair, panorama, flights, tours>>
RepairStep == part = "repair" /\ R!Next /\ UNCHANGED <<part, captureVars, panorama, flights, tours>>
PanoramaStep == part = "panoramas" /\ P!Next /\ UNCHANGED <<part, captureVars, repair, flights, tours>>
FlightStep == part = "flights" /\ D!FlightNext /\ UNCHANGED <<part, captureVars, repair, panorama, tours>>
TourStep == part = "tours" /\ T!TourNext /\ UNCHANGED <<part, captureVars, repair, panorama, flights>>

\* Bound: TLC goes no further once two calls have decided about one site of a
\* job at a time, or calls on a repair have overlapped, as no property but the
\* types says anything from there on.
OneAtATime == /\ part = "captures" => "decision" \notin overlap
              /\ part = "repair" => ~overlapped

all == <<part, captureVars, repair, panorama, flights, tours>>

FieldSpec == FieldInit /\ [][CaptureStep \/ RepairStep \/ PanoramaStep \/ FlightStep \/ TourStep]_all

\* Every site of a capture job is accounted for, with every value of its type:
\* a job closes when all its sites are accepted, an accepted site has all its
\* deliverables, and until then they are held for review; the vendor's access
\* ends with the job (CaptureJobs.tla).
SitesAreAccountedFor ==
    part = "captures" => /\ TypeOK /\ ClosedMeansAccepted /\ AccessEnds
                         /\ DeliveredIsComplete /\ HeldForReview

\* A repair is checked by somebody else than who did it, on proof from after
\* it was last sent back, and no edit of its issue is written over a change
\* its author has not seen (Repairs.tla).
RepairsAreChecked ==
    part = "repair" => /\ R!TypeOK /\ R!CheckedByAnother /\ R!ProofSinceSentBack
                       /\ R!EditsSeeChanges

\* What is captured is there once and is what it is called: drone uploads of
\* several sittings fill one capture, what their panel calls uploaded is stored,
\* and a ready capture has no unfinished job (DroneFlights.tla); a 3D space is
\* linked once, a vendor's tour waits for its review, and nothing is called
\* connected or ready that the provider did not confirm (InteriorTours.tla); a
\* card of 360 photos is imported once, however often and wherever an import
\* breaks off, each photo to a position that its location and the walking order
\* allow, and what the panel calls imported is stored (PanoramaImport.tla).
CapturesAreTrue ==
    /\ part = "flights" => D!FlightTypeOK /\ D!OneFlight /\ D!UploadedIsStored /\ D!ReadyIsProcessed
    /\ part = "tours" => T!TourTypeOK /\ T!LinkedOnce /\ T!HeldUntilAccepted /\ T!NothingIsClaimed
    /\ part = "panoramas" => /\ P!TypeOK /\ P!OneCopy /\ P!GpsIsHeeded /\ P!OrderIsKept
                             /\ P!ImportedIsStored

\* What field work has settled stays: no call of a repair opens a closed issue
\* (Repairs.tla), no photo moves a pin (PanoramaImport.tla), and a space the
\* provider has answered for is not unverified again (InteriorTours.tla).
SettledStep == R!ClosedStays /\ P!PinsStayPut /\ T!VerifiedStays
SettledStays == [][SettledStep]_all

\* Nobody verifies their own work, whatever way they go: what the code does
\* not keep (Repairs.tla).
NobodyVerifiesOwnWork == R!NobodyVerifiesOwnWork
=============================================================================
