---------------------------- MODULE MCRetention ----------------------------
(* Instances of Retention for TLC.  Requests, runners and people are alike, *)
(* and so are files of one kind and holds of one scope.                     *)
EXTENDS Retention, TLC

Symmetry ==
    Permutations(Requests) \cup Permutations(Runners) \cup Permutations(People)
        \cup Permutations(Files \ (Derived \cup Overlays))

\* A legal hold and a cancellation of the grace window are honoured, with every
\* value of its type.
GraceIsHonoured == TypeOK /\ GraceHoldStops /\ CancelledInGraceIsSpared

\* What a purge leaves is on record: no object outlives the row that names it
\* unless it failed or came late, and a request is only COMPLETED when none of
\* its objects failed.
PurgeIsAccounted == ObjectsGoFirst /\ LeftoverIsReported
=============================================================================
