------------------------ MODULE MCDroneDeployImport ------------------------
(* Instances of DroneDeployImport for TLC.  Layers, passes and people are   *)
(* alike; liveness is checked without symmetry.                             *)
EXTENDS DroneDeployImport, TLC

\* Every layer is accounted for, with every value of its type: it is copied
\* once but for cut off passes, called landed only with its output, and waits
\* only with attempts left; and a map that is filed by two at once makes one
\* capture.
LayersAreAccountedFor ==
    ImportTypeOK /\ OutputsAccountedFor /\ LandedHasOutput /\ WaitingHasAttempts /\ OneCapture
=============================================================================
