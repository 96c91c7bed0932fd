----------------------- MODULE MCPhotoAnalysisQueue -----------------------
(* Instances of PhotoAnalysisQueue for TLC: the constants are in the cfgs. *)
EXTENDS PhotoAnalysisQueue, TLC

\* Photos are interchangeable, so are upload runs; safety runs use this.
Symmetry == Permutations(Photos) \cup Permutations(UploadRuns) \cup Permutations(Clickers)

\* Findings and jobs account for each other, with every value of their types:
\* a second finding of a photo needs a reason, and a job that is done has one.
FindingsAreKept == TypeOK /\ FindingsAccountedFor /\ DoneHasFinding
=============================================================================
