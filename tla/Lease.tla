------------------------------- MODULE Lease -------------------------------
(***************************************************************************)
(* The execution lease as the store keeps it: one metadata row with an     *)
(* owner, a token and an expiry time, read and written in immediate        *)
(* transactions by the scheduler workers and the API processes.  Each      *)
(* operation reads the clock before it waits for the database.             *)
(*                                                                         *)
(* Sources: store.py (acquire_lease, renew_lease, release_lease),          *)
(* service.py (run, _renew_lease, _lease_ttl), worker.py (cycle).          *)
(***************************************************************************)
EXTENDS Integers

CONSTANTS
    Workers,     \* scheduler processes: one renewal, before a submission
    Operators,   \* API processes: a background task renews while a run lasts
    Nobody,      \* the owner of no row
    Ttl,         \* _lease_ttl
    Patience,    \* how long SQLite waits for another transaction
    Delay,       \* how late the event loop may run the background task
    MaxTime,     \* bound: the clock
    MaxTokens    \* bound: leases given

Actors == Workers \cup Operators

ASSUME LeaseActorsAssumption == Nobody \notin Actors /\ Workers \cap Operators = {}
ASSUME TimingAssumption ==
    /\ Ttl \in Nat /\ Patience \in Nat /\ Delay \in Nat
    /\ Ttl \div 3 + Delay + 2 * Patience < Ttl
ASSUME LeaseBoundsAssumption == MaxTime \in Nat /\ MaxTokens \in Nat

\* Mutant of Interval: the background task sleeps for a whole time to live.
IntervalWhole == Ttl
\* The time to live is at least 300 s, so that the floor of 10 s is never used.
Interval == Ttl \div 3

VARIABLES
    now,       \* the clock of the host
    row,       \* the metadata row worker_lease, or NoRow
    issued,    \* how many tokens exist; the last is the n-th
    run        \* each process: its phase and local variables

vars == <<now, row, issued, run>>

NoRow == [owner |-> Nobody, token |-> 0, expires |-> 0]

\* read: the clock reading of the operation under way; stamp: that of the last
\* operation that succeeded; due: when the background task's sleep is over.
Idle == [phase |-> "idle", token |-> 0, read |-> 0, stamp |-> 0,
         renewer |-> "off", due |-> 0]

Init == now = 0 /\ row = NoRow /\ issued = 0 /\ run = [a \in Actors |-> Idle]

Waits == {"acquire", "renew", "background"}
Active(a) == run[a].phase \in {"cycle", "renew", "background"}
Renewing(a) == run[a].phase \in {"renew", "background"}
Mine(a) == row # NoRow /\ row.token = run[a].token
Update(a, r) == run' = [run EXCEPT ![a] = r]

\* The background task sleeps again.  A worker has none.
Sleep(r) == IF r.renewer = "on" THEN now + Interval ELSE 0

-----------------------------------------------------------------------------
(* acquire_lease                                                             *)

AcquireRead(a) ==
    /\ run[a].phase = "idle"
    /\ Update(a, [Idle EXCEPT !.phase = "acquire", !.read = now])
    /\ UNCHANGED <<now, row, issued>>

\* service.run starts the background task with the lease.
Given(a) ==
    LET r == [Idle EXCEPT !.phase = "cycle", !.token = issued + 1, !.stamp = run[a].read,
                          !.renewer = IF a \in Operators THEN "on" ELSE "off"]
    IN  /\ issued' = issued + 1
        /\ row' = [owner |-> a, token |-> issued + 1, expires |-> run[a].read + Ttl]
        /\ Update(a, [r EXCEPT !.due = Sleep(r)])
        /\ UNCHANGED now

\* Mutant of Acquire: the expiry time of the row is not looked at.
AcquireUnexpired(a) ==
    /\ run[a].phase = "acquire"
    /\ issued < MaxTokens
    /\ Given(a)

Acquire(a) ==
    /\ run[a].phase = "acquire"
    /\ row = NoRow \/ row.expires <= run[a].read
    /\ issued < MaxTokens
    /\ Given(a)

\* Another process has the lease, or the database stays locked: no cycle.
Refused(a) ==
    /\ run[a].phase = "acquire"
    /\ Update(a, Idle)
    /\ UNCHANGED <<now, row, issued>>

-----------------------------------------------------------------------------
(* renew_lease: by _execute before a submission, or by the background task.  *)

RenewRead(a) ==
    /\ run[a].phase = "cycle"
    /\ \E p \in {"renew", "background"} :
        /\ p = "background" => run[a].renewer = "on" /\ run[a].due <= now
        /\ Update(a, [run[a] EXCEPT !.phase = p, !.read = now])
    /\ UNCHANGED <<now, row, issued>>

Renewed(r) ==
    [r EXCEPT !.phase = "cycle", !.read = 0, !.stamp = r.read,
              !.due = IF r.phase = "background" THEN Sleep(r) ELSE r.due]

\* Mutant of Renew: the time to live is added to the old expiry time.
RenewAdds(a) ==
    /\ Renewing(a)
    /\ Mine(a)
    /\ row' = [row EXCEPT !.expires = @ + Ttl]
    /\ Update(a, Renewed(run[a]))
    /\ UNCHANGED <<now, issued>>

\* The token is compared, the expiry time is not: an expired lease revives.
Renew(a) ==
    /\ Renewing(a)
    /\ Mine(a)
    /\ row' = [row EXCEPT !.expires = run[a].read + Ttl]
    /\ Update(a, Renewed(run[a]))
    /\ UNCHANGED <<now, issued>>

\* The lease is another's, or the database stays locked: _execute gives up on its
\* trade; the background task ends with the exception and nobody looks at it yet.
RenewFails(a) ==
    /\ Renewing(a)
    /\ Update(a, [run[a] EXCEPT !.phase = "cycle", !.read = 0,
                    !.renewer = IF run[a].phase = "background" THEN "failed" ELSE @])
    /\ UNCHANGED <<now, row, issued>>

-----------------------------------------------------------------------------
(* The end of a cycle.                                                       *)

\* Mutant of Finish: release_lease does not compare the token.
FinishAny(a) ==
    /\ run[a].phase = "cycle"
    /\ row' = IF run[a].renewer # "failed" THEN NoRow ELSE row
    /\ Update(a, Idle)
    /\ UNCHANGED <<now, issued>>

\* The finally clauses: the exception of a failed background task is raised again
\* before release_lease is reached.
Finish(a) ==
    /\ run[a].phase = "cycle"
    /\ row' = IF run[a].renewer # "failed" /\ Mine(a) THEN NoRow ELSE row
    /\ Update(a, Idle)
    /\ UNCHANGED <<now, issued>>

\* The process dies, or release_lease itself finds the database locked.
Crash(a) ==
    /\ Active(a)
    /\ Update(a, Idle)
    /\ UNCHANGED <<now, row, issued>>

\* Time passes.  SQLite gives up waiting after Patience, and the event loop wakes a
\* background task at most Delay late; a cycle itself may take any time.
InTime(r) ==
    /\ r.phase \in Waits => now < r.read + Patience
    /\ r.phase \in {"cycle", "renew"} /\ r.renewer = "on" => now < r.due + Delay

Tick ==
    /\ now < MaxTime
    /\ \A a \in Actors : InTime(run[a])
    /\ now' = now + 1
    /\ UNCHANGED <<row, issued, run>>

Next ==
    \/ \E a \in Actors :
        \/ AcquireRead(a) \/ Acquire(a) \/ Refused(a)
        \/ RenewRead(a) \/ Renew(a) \/ RenewFails(a)
        \/ Finish(a) \/ Crash(a)
    \/ Tick

Spec == Init /\ [][Next]_vars

-----------------------------------------------------------------------------
(* Properties.                                                               *)

Local == [phase : {"idle", "acquire", "cycle", "renew", "background"},
          token : 0 .. MaxTokens, read : 0 .. MaxTime, stamp : 0 .. MaxTime,
          renewer : {"off", "on", "failed"}, due : 0 .. MaxTime + Interval]

\* Every variable has its type: no lease outlives the clock by more than a time to
\* live (store.py 154-214).
TypeOK ==
    /\ now \in 0 .. MaxTime
    /\ row \in [owner : Actors, token : 1 .. MaxTokens, expires : Ttl .. MaxTime + Ttl]
               \cup {NoRow}
    /\ issued \in 0 .. MaxTokens
    /\ run \in [Actors -> Local]

\* A process that is still within the time to live of its last clock reading.
Prompt(a) == Active(a) /\ now < run[a].stamp + Ttl

\* Two processes are in a cycle together only if one of them has outstayed its time
\* to live: clock readings made early, waits, crashes and late releases never give a
\* prompt process's lease away (store.py 154-245).
AtMostOnePrompt == \A a, b \in Actors : Prompt(a) /\ Prompt(b) => a = b

\* While its background task runs, an API run has a live lease however long it takes
\* (service.py 140-163).
RenewedNeverLapses ==
    \A o \in Actors :
        Active(o) /\ run[o].renewer = "on" => Mine(o) /\ row.expires > now

\* The row, its tokens and the clock implement the lease the desk relies on
\* (DeskLease; store.py 154-245).
Promise == INSTANCE DeskLease WITH
    Processes <- Actors,
    holder <- row.owner,
    live <- row.expires > now,
    active <- {a \in Actors : Active(a)}
KeepsPromise == Promise!Spec

\* Whoever has no background task ends its cycle, or renews, within its time to live.
Punctual == \A a \in Actors : Active(a) /\ run[a].renewer # "on" => Prompt(a)

-----------------------------------------------------------------------------
(* Why: the row of a process that is still in time is its own, and carries   *)
(* its last clock reading.                                                   *)

\* Tokens are never given twice, and the row has the one its owner was given.
TokensFresh ==
    /\ row.token <= issued
    /\ \A a \in Actors : run[a].token <= issued
    /\ \A a, b \in Actors : Active(a) /\ Active(b) /\ run[a].token = run[b].token => a = b
    /\ \A a \in Actors : Active(a) => run[a].token > 0 /\ (Mine(a) <=> row.owner = a)

\* A clock reading is never in the future, and one in use is no older than Patience.
ReadsRecent ==
    \A a \in Actors :
        /\ run[a].stamp <= now
        /\ run[a].phase \in Waits =>
               /\ run[a].stamp <= run[a].read /\ run[a].read <= now
               /\ now <= run[a].read + Patience

PromptHolds ==
    \A a \in Actors : Prompt(a) => Mine(a) /\ row.expires = run[a].stamp + Ttl

\* A background task's sleep, its delay and two waits fit in the time to live.
SleepsShort ==
    \A a \in Actors : Active(a) /\ run[a].renewer = "on" =>
        /\ run[a].due <= run[a].stamp + Patience + Interval
        /\ run[a].phase \in {"cycle", "renew"} => now <= run[a].due + Delay
        /\ run[a].phase = "background" => run[a].read <= run[a].due + Delay

\* The inductive invariant.
LeaseInv == TokensFresh /\ ReadsRecent /\ PromptHolds /\ SleepsShort
=============================================================================
