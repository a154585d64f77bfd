------------------------- MODULE ExecutionRecovery -------------------------
(***************************************************************************)
(* What the desk recovers from once faults and operators' requests cease.  *)
(* A step such as the end of a reconciliation and an exception in it leave *)
(* the same state behind, so "finitely many faults" cannot be said of the  *)
(* transitions of Execution; the variable calm says when they have ceased, *)
(* and crashed tells the end of a process from another end of its cycle.   *)
(***************************************************************************)
EXTENDS Execution

VARIABLES
    calm,      \* have faults and operators' requests ceased?
    crashed    \* whose crash left a lease behind that still is there (history)

CalmInit == Init /\ calm = FALSE /\ crashed = {}

Calm == ~calm /\ calm' = TRUE /\ UNCHANGED <<vars, crashed>>

LeftBehind(a) == At(a, "idle") /\ Owns(a)
Crashes(set) == crashed' = {a \in crashed \cup set : LeftBehind(a)'}

CalmNext ==
    \/ Work /\ Crashes({}) /\ UNCHANGED calm
    \/ /\ ~calm
       /\ \/ \E a \in Actors : Exception(a)
          \/ \E o \in Operators : Acquire(o)
       /\ Crashes({}) /\ UNCHANGED calm
    \/ /\ ~calm
       /\ \E a \in Actors : Crash(a) /\ Crashes({a})
       /\ UNCHANGED calm
    \/ Calm

calmVars == <<vars, calm, crashed>>

CalmSpec == CalmInit /\ [][CalmNext]_calmVars /\ Fairness

\* Only a crash leaves a lease behind: however else a cycle ends, by itself, degraded,
\* refused or in any exception, its process does not have the lease afterwards
\* (worker.py 126-129, service.py 143-151).
LeaseGivenBack == \A a \in Actors : LeftBehind(a) => a \in crashed

\* Once calm, an order that died unfilled is reconciled: its intent does not stay pending, so
\* the desk is not blocked by it (worker.py 82-97, service.py 461-463).
DeadOrdersReconciled ==
    \A c \in Cid :
        calm /\ order[c] = "dead" ~> (order[c] = "dead" /\ \A r \in Pending : r.cid # c)

\* Once calm, an intent whose order filled, and whose expected positions the account holds, is
\* completed: the ledger records the fill and the intent is closed, unless the positions
\* change first (worker.py 58-71, 131-185).
FilledOrdersRecovered ==
    \A c \in Cid :
        calm /\ order[c] = "filled" /\ Matches(c.key) /\ (\E r \in Pending : r.cid = c)
            ~> (c \in completed /\ \A r \in Pending : r.cid # c) \/ ~Matches(c.key)

\* docs/TECHNICAL_WRITEUP.md 74: the service "recovers ambiguous submissions by
\* stable client ID": an intent whose order the broker never got is not kept pending
\* for ever, which would block every later run.
AmbiguousSubmissionRecovered ==
    \A c \in Cid :
        calm /\ (\E r \in Pending : r.cid = c) /\ order[c] = "none"
            ~> (order[c] # "none" \/ \A r \in Pending : r.cid # c)
=============================================================================
