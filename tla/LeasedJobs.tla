---------------------------- MODULE LeasedJobs ----------------------------
(***************************************************************************)
(* What a table of jobs shared by several workers promises, whatever its   *)
(* columns are: a job waits, is in the hands of at most one worker at a    *)
(* time, and once settled is never worked on again.  A worker may vanish   *)
(* with a job in its hands; the job then waits again.                      *)
(***************************************************************************)
EXTENDS FiniteSets

CONSTANTS Jobs, Workers, Nobody

VARIABLES
    state,      \* state[j] \in {"none", "waiting", "settled", "gone"}
    holder      \* holder[j]: the worker that has j in hand, or Nobody

leaseVars == <<state, holder>>

LeaseTypeOK ==
    /\ state \in [Jobs -> {"none", "waiting", "settled", "gone"}]
    /\ holder \in [Jobs -> Workers \cup {Nobody}]

LeaseInit ==
    /\ state = [j \in Jobs |-> "none"]
    /\ holder = [j \in Jobs |-> Nobody]

Submit(batch) ==
    /\ \A j \in batch : state[j] = "none"
    /\ state' = [j \in Jobs |-> IF j \in batch THEN "waiting" ELSE state[j]]
    /\ UNCHANGED holder

Take(w, j) ==
    /\ state[j] = "waiting"
    /\ holder[j] = Nobody
    /\ \A i \in Jobs : holder[i] # w
    /\ holder' = [holder EXCEPT ![j] = w]
    /\ UNCHANGED state

\* The worker gives the job back, or vanishes.
Release(w, j) ==
    /\ holder[j] = w
    /\ holder' = [holder EXCEPT ![j] = Nobody]
    /\ UNCHANGED state

Settle(w, j) ==
    /\ holder[j] = w
    /\ state[j] = "waiting"
    /\ state' = [state EXCEPT ![j] = "settled"]
    /\ holder' = [holder EXCEPT ![j] = Nobody]

\* Deleted, at any time: a worker may still have it in hand.
Withdraw(j) ==
    /\ state[j] # "gone"
    /\ state' = [state EXCEPT ![j] = "gone"]
    /\ UNCHANGED holder

LeaseNext ==
    \/ \E batch \in SUBSET Jobs : Submit(batch)
    \/ \E j \in Jobs : Withdraw(j)
    \/ \E w \in Workers, j \in Jobs : Take(w, j) \/ Release(w, j) \/ Settle(w, j)

LeaseSpec == LeaseInit /\ [][LeaseNext]_leaseVars
=============================================================================
