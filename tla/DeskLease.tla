----------------------------- MODULE DeskLease -----------------------------
(***************************************************************************)
(* What the execution lease promises the processes of a desk, without the  *)
(* clock, the tokens and the SQLite row that keep the promise.  A process  *)
(* is active from the moment it is given the lease to the end of its       *)
(* cycle, even if the lease lapses meanwhile.                              *)
(***************************************************************************)
CONSTANTS Processes, Nobody

VARIABLES
    holder,   \* the process the lease was last given to
    live,     \* has the lease not lapsed?
    active    \* the processes in a cycle

Init == holder = Nobody /\ live = FALSE /\ active = {}

\* Only a lease that nobody has, or that lapsed, is given away.
Take(p) ==
    /\ p \notin active
    /\ ~live
    /\ holder' = p
    /\ live' = TRUE
    /\ active' = active \cup {p}

Lapse == live /\ live' = FALSE /\ UNCHANGED <<holder, active>>

\* Its holder may keep a lease, even one that lapsed and that nobody took.
Keep(p) ==
    /\ p \in active
    /\ holder = p
    /\ live' = TRUE
    /\ UNCHANGED <<holder, active>>

\* The end of a cycle gives back its own lease, never another's.
Leave(p) ==
    /\ p \in active
    /\ active' = active \ {p}
    /\ holder' = IF holder = p THEN Nobody ELSE holder
    /\ live' = (live /\ holder # p)

\* A crash, or a release that fails, leaves the lease to lapse.
Vanish(p) ==
    /\ p \in active
    /\ active' = active \ {p}
    /\ UNCHANGED <<holder, live>>

ProcessStep == \E p \in Processes : Take(p) \/ Keep(p) \/ Leave(p) \/ Vanish(p)

Next == ProcessStep \/ Lapse

Spec == Init /\ [][Next]_<<holder, live, active>>

-----------------------------------------------------------------------------
(* The promise to processes that end, or renew, before their time is over.   *)

PunctualNext == ProcessStep \/ (holder \notin active /\ Lapse)

PunctualSpec == Init /\ [][PunctualNext]_<<holder, live, active>>

\* Then whoever is in a cycle has the lease, hence is alone.
Exclusive == \A p \in active : holder = p /\ live
=============================================================================
