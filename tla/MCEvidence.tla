----------------------------- MODULE MCEvidence -----------------------------
(* Small instances of Evidence for TLC, in three parts: without enrollment,  *)
(* with one request while no lease lapses under its process, and with two    *)
(* requests on an account that is not traded.                                *)
EXTENDS Evidence, FiniteSets, TLC

VARIABLE requests   \* how many requests to enroll are made

Apart == \A v, w \in Writers : v # w => pid[v] # pid[w]

MCInit ==
    /\ Init
    /\ requests = Cardinality({e \in Enrollments : enroll[e] = "new"})
    /\ requests > 0 => Apart

MCNext ==
    /\ Next
    /\ requests > 0 => ~history'.outstayed
    /\ requests > 1 => orders' = 0
    /\ UNCHANGED requests

MCSpec == MCInit /\ [][MCNext]_<<vars, requests>>

Symmetry == Permutations(Pids) \cup Permutations(Enrollments)
=============================================================================
