----------------------- MODULE PhotoQueueRefinement -----------------------
(* The photo analysis queue implements LeasedJobs: a job is in the hands   *)
(* of the run whose target it is; QUEUED and RUNNING both mean waiting.     *)
EXTENDS PhotoAnalysisQueue

jobState ==
    [p \in Photos |->
        IF photo[p] = "detached" THEN "gone"
        ELSE CASE job[p].status = "NONE" -> "none"
               [] job[p].status \in Settled -> "settled"
               [] OTHER -> "waiting"]

inHandOf ==
    [p \in Photos |-> IF \E r \in Runs : target[r] = p
                      THEN CHOOSE r \in Runs : target[r] = p ELSE NoPhoto]

Lease == INSTANCE LeasedJobs WITH
            Jobs <- Photos, Workers <- Runs, Nobody <- NoPhoto,
            state <- jobState, holder <- inHandOf

\* Every step of the queue is a step of the contract or leaves it alone: no
\* job is taken while a run has it, none is settled by a run that has lost
\* it, and a settled one is never taken again.
ImplementsLease == Lease!LeaseSpec
=============================================================================
