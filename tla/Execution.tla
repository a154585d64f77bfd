----------------------------- MODULE Execution -----------------------------
(***************************************************************************)
(* One LastSafe desk: the scheduler workers and the operators' API runs    *)
(* share one SQLite store and one Alpaca paper account.  A cycle takes the *)
(* execution lease, reconciles the pending intents (workers only), decides *)
(* on a trade, writes the intent, submits it under a client order id,      *)
(* monitors it, verifies the resulting positions and appends the run.      *)
(*                                                                         *)
(* Sources: worker.py (cycle), service.py (run, _run_locked, _execute),    *)
(* store.py (lease, attempts, pending_intents), alpaca.py (execute_via_cli *)
(* and the client order id).  The broker itself is external: its actions   *)
(* are what the code in src/ assumes of it.                                *)
(*                                                                         *)
(* A snapshot is read at one instant, the last of get_snapshot's requests. *)
(* Quantities, prices and the decision are abstracted: any trade the       *)
(* engine's structural gates permit may be chosen, and any quote-driven    *)
(* gate may fail at every re-evaluation.                                   *)
(***************************************************************************)
EXTENDS Integers, FiniteSets

CONSTANTS
    Workers,          \* scheduler processes (worker.py)
    Operators,        \* API processes executing on request (service.run)
    Nobody,           \* the holder of a lease that nobody has
    None,             \* a cycle's field that is not set yet
    Legs,             \* the leg pairs a vertical may have
    MaxCampaigns,     \* bound: fills that create a position
    MaxAttempt,       \* bound: numbered retries of one incident
    CliMayHang,       \* may a CLI call outlive the lease's time to live?
    ActivityMayFail   \* may the fill-activity request fail in one snapshot?

Actors == Workers \cup Operators
NoLegs == "flat"      \* the book of an account without positions
OddLegs == "odd"      \* positions that are not one vertical (portfolio_issues)

ASSUME ActorsAssumption == Nobody \notin Actors
ASSUME LegsAssumption == NoLegs \notin Legs /\ OddLegs \notin Legs
ASSUME BoundsAssumption ==
    /\ MaxCampaigns \in Nat \ {0}
    /\ MaxAttempt \in Nat \ {0}
ASSUME FlagsAssumption ==
    /\ CliMayHang \in BOOLEAN
    /\ ActivityMayFail \in BOOLEAN

(***************************************************************************)
(* Data.  A campaign is the fills behind a position: the n-th position the *)
(* account ever held has campaign id n, and -n is the id _campaign_id      *)
(* falls back to, from the entry prices, when the activity request fails.  *)
(***************************************************************************)
CampaignId == 0 .. MaxCampaigns
Flat == [legs |-> NoLegs, camp |-> 0]
Odd == [legs |-> OddLegs, camp |-> 0]
Position == [legs : Legs, camp : 1 .. MaxCampaigns] \cup {Flat, Odd}

PositionId ==
    IF ActivityMayFail THEN (-MaxCampaigns .. MaxCampaigns) \ {0} ELSE 1 .. MaxCampaigns
Key == [act : {"OPEN"}, id : {0}, to : Legs]
         \cup [act : {"CLOSE"}, id : PositionId, to : {NoLegs}]
         \cup [act : {"ROLL"}, id : PositionId, to : Legs]
Cid == [key : Key, att : 1 .. MaxAttempt]
Trade == [key : Key, legs : Legs \cup {NoLegs}]
Row == [key : Key, cid : Cid, state : {"submitting", "observed", "terminal"}]

\* Broker statuses, by what the code tells apart: "dead" is canceled, expired,
\* rejected, suspended or done_for_day with nothing filled, "partdead" the same
\* after a partial fill, "replaced" is replaced or calculated.
Live == {"working", "partial"}
Retryable == {"dead", "partdead"}
TerminalStatus == Retryable \cup {"filled", "replaced"}
Status == {"none"} \cup Live \cup TerminalStatus

VARIABLES
    lease,      \* the metadata row worker_lease: [holder, live]
    intents,    \* the table pending_intents, one row for each incident key
    attempts,   \* the table attempts
    completed,  \* client ids whose verified fill the run ledger records
    order,      \* the broker's orders: client id -> status
    inflight,   \* submissions the CLI has sent and the broker not yet answered
    book,       \* the account's positions at the broker
    campaigns,  \* how many positions the account has held
    cycle       \* each process's current cycle

store == <<lease, intents, attempts, completed>>
broker == <<order, inflight, book, campaigns>>
vars == <<lease, intents, attempts, completed, order, inflight, book, campaigns, cycle>>

NoLease == [holder |-> Nobody, live |-> FALSE]
Idle == [pc |-> "idle", todo |-> {}, note |-> {}, trade |-> None,
         own |-> None, obs |-> "none"]

Init ==
    /\ lease = NoLease
    /\ intents = {}
    /\ attempts = [k \in Key |-> 1]
    /\ completed = {}
    /\ order = [c \in Cid |-> "none"]
    /\ inflight = {}
    /\ \/ book = Flat /\ campaigns = 0
       \/ \E l \in Legs : book = [legs |-> l, camp |-> 1] /\ campaigns = 1
    /\ cycle = [a \in Actors |-> Idle]

-----------------------------------------------------------------------------
(* What the store and the broker show a process.                             *)

Pending == {r \in intents : r.state # "terminal"}
LiveOrders == {c \in Cid : order[c] \in Live}
Owns(a) == lease.holder = a /\ lease.live
Save(r) == intents' = {q \in intents : q.key # r.key} \cup {r}

CampaignIds == IF ActivityMayFail THEN {book.camp, -book.camp} ELSE {book.camp}

\* Mutant of Offered: an entry does not look at portfolio_issues.
OfferedOnOddBook(t) ==
    /\ LiveOrders = {}
    /\ t.legs = IF book = Odd THEN NoLegs ELSE book.legs
    /\ t.key.id \in CampaignIds
    /\ (t.key.act = "OPEN") <=> (t.legs = NoLegs)
    /\ t.key.act = "ROLL" => t.key.to # t.legs

\* The structural gates of evaluate and _evaluate_flat.
Offered(t) ==
    /\ LiveOrders = {}
    /\ t.legs = book.legs
    /\ t.key.id \in CampaignIds
    /\ (t.key.act = "OPEN") <=> (t.legs = NoLegs)
    /\ t.key.act = "ROLL" => t.key.to # t.legs

\* _same_trade compares the legs and the action's target, not the campaign.
SameTrade(t, id) == [t EXCEPT !.key = [t.key EXCEPT !.id = id]]
StillOffered(t) == \E id \in CampaignIds : Offered(SameTrade(t, id))

\* quantities == expected_positions, and _positions_match.
Matches(k) == book.legs = k.to

At(a, label) == cycle[a].pc = label
Update(a, c) == cycle' = [cycle EXCEPT ![a] = c]
Goto(a, label) == Update(a, [cycle[a] EXCEPT !.pc = label])
\* Mutant of Release: the token is not compared.
ReleaseAny(a) == lease' = NoLease
Release(a) == lease' = IF lease.holder = a THEN NoLease ELSE lease
End(a) == Update(a, Idle) /\ Release(a)

\* _execute gives up with a receipt that holds no broker status.
GiveUp(a) == Update(a, [cycle[a] EXCEPT !.pc = "record", !.obs = "none"])

-----------------------------------------------------------------------------
(* The lease.                                                                *)

\* worker.cycle and service.run.  A cycle that is refused changes nothing here:
\* the worker only writes a degraded heartbeat, the API answers with an error.
Acquire(a) ==
    /\ At(a, "idle")
    /\ ~lease.live
    /\ lease' = [holder |-> a, live |-> TRUE]
    /\ Goto(a, IF a \in Workers THEN "list" ELSE "begin")
    /\ UNCHANGED <<intents, attempts, completed, broker>>

\* A CLI call has no timeout of its own.  Only service.run renews the lease in the
\* background, and no more once a renewal failed: a process that hangs in a call may
\* see its lease expire.
CliCalls == {"recon", "positions", "lookup", "sent", "poll", "recheck", "verify"}
Expire ==
    /\ lease.live
    /\ \/ At(lease.holder, "idle")
       \/ CliMayHang /\ cycle[lease.holder].pc \in CliCalls
    /\ lease' = [lease EXCEPT !.live = FALSE]
    /\ UNCHANGED <<intents, attempts, completed, broker, cycle>>

-----------------------------------------------------------------------------
(* Reconciliation: the first part of worker.cycle.                           *)

ListPending(a) ==
    /\ At(a, "list")
    /\ Update(a, [cycle[a] EXCEPT !.pc = "recon", !.todo = Pending])
    /\ UNCHANGED <<store, broker>>

\* Mutant of ReconUnknown: an unknown order's intent is closed.
ReconUnknownCloses(a) ==
    /\ At(a, "recon")
    /\ \E r \in cycle[a].todo :
        /\ order[r.cid] = "none"
        /\ Save([r EXCEPT !.state = "terminal"])
        /\ Update(a, [cycle[a] EXCEPT !.todo = @ \ {r}])
    /\ UNCHANGED <<lease, attempts, completed, broker>>

\* Mutant of ReconUnknown: the query is repeated until the broker knows the order.
ReconUnknownRetries(a) ==
    /\ At(a, "recon")
    /\ \E r \in cycle[a].todo :
        /\ order[r.cid] = "none"
        /\ Update(a, [cycle[a] EXCEPT !.note = @ \cup {"unresolved"}])
    /\ UNCHANGED <<store, broker>>

\* The broker does not know the client id.
ReconUnknown(a) ==
    /\ At(a, "recon")
    /\ \E r \in cycle[a].todo :
        /\ order[r.cid] = "none"
        /\ Update(a, [cycle[a] EXCEPT !.todo = @ \ {r}, !.note = @ \cup {"unresolved"}])
    /\ UNCHANGED <<store, broker>>

ReconQuery(a) ==
    /\ At(a, "recon")
    /\ \E r \in cycle[a].todo :
        /\ order[r.cid] # "none"
        /\ Update(a, [cycle[a] EXCEPT !.todo = @ \ {r}, !.own = r, !.obs = order[r.cid],
                        !.pc = IF order[r.cid] = "filled" THEN "positions" ELSE "classify"])
    /\ UNCHANGED <<store, broker>>

Unresolved(a) ==
    LET seen == [cycle[a].own EXCEPT !.state = "observed"]
    IN  /\ Save(seen)
        /\ Update(a, [cycle[a] EXCEPT !.pc = "recon", !.own = seen,
                                      !.note = @ \cup {"unresolved"}])

\* Working, replaced, and every order with a partial fill stay pending.
ReconKeep(a) ==
    /\ At(a, "classify")
    /\ cycle[a].obs # "dead"
    /\ Unresolved(a)
    /\ UNCHANGED <<lease, attempts, completed, broker>>

\* Mutant of ReconDead: the filled quantity of a terminal order is not looked at.
ReconDeadAnyQuantity(a) ==
    /\ At(a, "classify")
    /\ cycle[a].obs \in Retryable
    /\ LET closed == [cycle[a].own EXCEPT !.state = "terminal"]
       IN  /\ Save(closed)
           /\ Update(a, [cycle[a] EXCEPT !.pc = "bump", !.own = closed])
    /\ UNCHANGED <<lease, attempts, completed, broker>>

\* Mutant of ReconDead: a dead order's intent stays observed.
ReconDeadObserved(a) ==
    /\ At(a, "classify")
    /\ cycle[a].obs = "dead"
    /\ Unresolved(a)
    /\ UNCHANGED <<lease, attempts, completed, broker>>

ReconDead(a) ==
    /\ At(a, "classify")
    /\ cycle[a].obs = "dead"
    /\ LET closed == [cycle[a].own EXCEPT !.state = "terminal"]
       IN  /\ Save(closed)
           /\ Update(a, [cycle[a] EXCEPT !.pc = "bump", !.own = closed])
    /\ UNCHANGED <<lease, attempts, completed, broker>>

\* Bound: a counter past MaxAttempt stays there; Snapshot offers it no more.
Advance(k) == attempts' = [attempts EXCEPT ![k] = IF @ <= MaxAttempt THEN @ + 1 ELSE @]

ReconAdvance(a) ==
    /\ At(a, "bump")
    /\ Advance(cycle[a].own.key)
    /\ Goto(a, "recon")
    /\ UNCHANGED <<lease, intents, completed, broker>>

ReconPositionsMatch(a) ==
    /\ At(a, "positions")
    /\ Matches(cycle[a].own.key)
    /\ Goto(a, "append")
    /\ UNCHANGED <<store, broker>>

ReconPositionsDiffer(a) ==
    /\ At(a, "positions")
    /\ ~Matches(cycle[a].own.key)
    /\ Unresolved(a)
    /\ UNCHANGED <<lease, attempts, completed, broker>>

\* Mutant of ReconRecord: the intent of a recovered fill is closed without a record.
ReconRecordSkipped(a) ==
    /\ At(a, "append")
    /\ Goto(a, "retire")
    /\ UNCHANGED <<store, broker>>

\* _complete_recovered_intent: the ledger first, the intent after it.
ReconRecord(a) ==
    /\ At(a, "append")
    /\ completed' = completed \cup {cycle[a].own.cid}
    /\ Goto(a, "retire")
    /\ UNCHANGED <<lease, intents, attempts, broker>>

ReconRetire(a) ==
    /\ At(a, "retire")
    /\ LET closed == [cycle[a].own EXCEPT !.state = "terminal"]
       IN  /\ Save(closed)
           /\ Update(a, [cycle[a] EXCEPT !.pc = "recon", !.own = closed,
                                         !.note = @ \cup {"recovered"}])
    /\ UNCHANGED <<lease, attempts, completed, broker>>

\* Anything unresolved, or a recovered run, ends the cycle; otherwise it runs.
ReconDone(a) ==
    /\ At(a, "recon")
    /\ cycle[a].todo = {}
    /\ IF cycle[a].note # {}
       THEN End(a)
       ELSE Goto(a, "begin") /\ UNCHANGED lease
    /\ UNCHANGED <<intents, attempts, completed, broker>>

-----------------------------------------------------------------------------
(* A run: service._run_locked and _execute.                                  *)

\* Mutant of BeginRun: pending intents do not stop a run.
BeginRunUnchecked(a) ==
    /\ At(a, "begin")
    /\ Goto(a, "snap")
    /\ UNCHANGED <<store, broker>>

BeginRun(a) ==
    /\ At(a, "begin")
    /\ IF Pending = {}
       THEN Goto(a, "snap") /\ UNCHANGED lease
       ELSE End(a)
    /\ UNCHANGED <<intents, attempts, completed, broker>>

\* HOLD or STAND_DOWN: no order.
SnapshotNoOrder(a) ==
    /\ At(a, "snap")
    /\ GiveUp(a)
    /\ UNCHANGED <<store, broker>>

Snapshot(a) ==
    /\ At(a, "snap")
    /\ \E t \in Trade :
        /\ Offered(t)
        /\ attempts[t.key] <= MaxAttempt
        /\ Update(a, [cycle[a] EXCEPT !.pc = "execute", !.trade = t])
    /\ UNCHANGED <<store, broker>>

\* The incident key and the attempt come from the first snapshot.
Execute(a) ==
    LET k == cycle[a].trade.key
    IN  /\ At(a, "execute")
        /\ Owns(a)
        /\ attempts[k] <= MaxAttempt
        /\ Update(a, [cycle[a] EXCEPT !.pc = "fresh",
                        !.own = [key |-> k, cid |-> [key |-> k, att |-> attempts[k]],
                                 state |-> "submitting"]])
        /\ UNCHANGED <<store, broker>>

ExecuteBlocked(a) ==
    /\ At(a, "execute")
    /\ ~Owns(a) \/ attempts[cycle[a].trade.key] > MaxAttempt
    /\ GiveUp(a)
    /\ UNCHANGED <<store, broker>>

\* The second snapshot: the client id is computed again from it, the intent is
\* saved under the first snapshot's incident key, and the lease is renewed by its
\* token, which revives a lease that has expired and that nobody took.
Fresh(a) ==
    /\ At(a, "fresh")
    /\ \E id \in CampaignIds :
        LET t == SameTrade(cycle[a].trade, id)
            row == [cycle[a].own EXCEPT !.cid = [key |-> t.key, att |-> @.att]]
        IN  /\ Offered(t)
            /\ Save(row)
            /\ IF lease.holder = a
               THEN /\ lease' = [lease EXCEPT !.live = TRUE]
                    /\ Update(a, [cycle[a] EXCEPT !.pc = "lookup", !.own = row])
               ELSE /\ UNCHANGED lease
                    /\ Update(a, [cycle[a] EXCEPT !.pc = "record", !.own = row, !.obs = "none"])
    /\ UNCHANGED <<attempts, completed, broker>>

\* A gate or the contract set changed since the first snapshot: blocked receipt.
FreshBlocked(a) ==
    /\ At(a, "fresh")
    /\ GiveUp(a)
    /\ UNCHANGED <<store, broker>>

\* Mutant of Lookup: the order is submitted without asking for the client id first.
LookupSkipped(a) ==
    /\ At(a, "lookup")
    /\ Goto(a, "boundary")
    /\ UNCHANGED <<store, broker>>

\* execute_via_cli asks for the client id before it sends anything.
Lookup(a) ==
    LET s == order[cycle[a].own.cid]
    IN  /\ At(a, "lookup")
        /\ Update(a, [cycle[a] EXCEPT !.obs = s,
                        !.pc = IF s = "none" THEN "boundary"
                               ELSE IF s \in Retryable THEN "settle" ELSE "poll"])
        /\ UNCHANGED <<store, broker>>

\* prepare_submission, mutation_guard and the CLI's submission.
Submit(a) ==
    /\ At(a, "boundary")
    /\ StillOffered(cycle[a].trade)
    /\ Save(cycle[a].own)
    /\ IF Owns(a)
       THEN Goto(a, "sent") /\ inflight' = inflight \cup {cycle[a].own.cid}
       ELSE GiveUp(a) /\ UNCHANGED inflight
    /\ UNCHANGED <<lease, attempts, completed, order, book, campaigns>>

\* The boundary snapshot no longer permits the trade: an AlpacaError.
BoundaryChanged(a) ==
    /\ At(a, "boundary")
    /\ GiveUp(a)
    /\ UNCHANGED <<store, broker>>

Response(a) ==
    /\ At(a, "sent")
    /\ order[cycle[a].own.cid] # "none"
    /\ Update(a, [cycle[a] EXCEPT !.pc = "poll", !.obs = order[cycle[a].own.cid]])
    /\ UNCHANGED <<store, broker>>

\* The submission did not reach the broker and the CLI says so.
NoResponse(a) ==
    /\ At(a, "sent")
    /\ order[cycle[a].own.cid] = "none"
    /\ cycle[a].own.cid \notin inflight
    /\ GiveUp(a)
    /\ UNCHANGED <<store, broker>>

\* _wait_for_terminal: polling until a terminal status ...
PollTerminal(a) ==
    LET s == order[cycle[a].own.cid]
    IN  /\ At(a, "poll")
        /\ s \in TerminalStatus
        /\ Update(a, [cycle[a] EXCEPT !.pc = "settle", !.obs = s])
        /\ UNCHANGED <<store, broker>>

\* ... or the deadline, then a cancel request and a few more queries.
PollTimeout(a) ==
    /\ At(a, "poll")
    /\ cycle[a].obs \in Live
    /\ Goto(a, "recheck")
    /\ UNCHANGED <<store, broker>>

Recheck(a) ==
    /\ At(a, "recheck")
    /\ Update(a, [cycle[a] EXCEPT !.pc = "settle", !.obs = order[cycle[a].own.cid]])
    /\ UNCHANGED <<store, broker>>

\* Mutant of Settle: every order that did not fill closes its intent.
SettleCloses(a) ==
    LET s == cycle[a].obs
        row == [cycle[a].own EXCEPT !.state = IF s = "filled" THEN "observed" ELSE "terminal"]
    IN  /\ At(a, "settle")
        /\ Save(row)
        /\ Update(a, [cycle[a] EXCEPT !.own = row,
                        !.pc = IF s = "filled" THEN "verify"
                               ELSE IF s = "dead" THEN "advance" ELSE "record"])
        /\ UNCHANGED <<lease, attempts, completed, broker>>

\* Mutant of Settle: the intent's state is the broker's status word.
SettleRawStatus(a) ==
    LET row == [cycle[a].own EXCEPT !.state = cycle[a].obs]
    IN  /\ At(a, "settle")
        /\ Save(row)
        /\ Update(a, [cycle[a] EXCEPT !.own = row, !.pc = "record"])
        /\ UNCHANGED <<lease, attempts, completed, broker>>

Settle(a) ==
    LET s == cycle[a].obs
        row == [cycle[a].own EXCEPT !.state = IF s = "dead" THEN "terminal" ELSE "observed"]
    IN  /\ At(a, "settle")
        /\ Save(row)
        /\ Update(a, [cycle[a] EXCEPT !.own = row,
                        !.pc = IF s = "filled" THEN "verify"
                               ELSE IF s = "dead" THEN "advance" ELSE "record"])
        /\ UNCHANGED <<lease, attempts, completed, broker>>

AdvanceAttempt(a) ==
    /\ At(a, "advance")
    /\ Advance(cycle[a].own.key)
    /\ Goto(a, "record")
    /\ UNCHANGED <<lease, intents, completed, broker>>

VerifyMatch(a) ==
    /\ At(a, "verify")
    /\ Matches(cycle[a].own.key)
    /\ LET row == [cycle[a].own EXCEPT !.state = "terminal"]
       IN  /\ Save(row)
           /\ Update(a, [cycle[a] EXCEPT !.pc = "record", !.own = row])
    /\ UNCHANGED <<lease, attempts, completed, broker>>

VerifyDiffer(a) ==
    /\ At(a, "verify")
    /\ ~Matches(cycle[a].own.key)
    /\ Goto(a, "record")
    /\ UNCHANGED <<store, broker>>

\* Mutant of Record: a closed intent is recorded as a verified fill.
RecordAnyTerminal(a) ==
    /\ At(a, "record")
    /\ completed' = IF cycle[a].obs # "none" /\ cycle[a].own.state = "terminal"
                    THEN completed \cup {cycle[a].own.cid} ELSE completed
    /\ End(a)
    /\ UNCHANGED <<intents, attempts, broker>>

\* The post-fill snapshot, append and write_packet; then the lease is released.
Record(a) ==
    /\ At(a, "record")
    /\ completed' = IF cycle[a].obs = "filled" /\ cycle[a].own.state = "terminal"
                    THEN completed \cup {cycle[a].own.cid} ELSE completed
    /\ End(a)
    /\ UNCHANGED <<intents, attempts, broker>>

-----------------------------------------------------------------------------
(* What goes wrong.                                                          *)

\* An AlpacaError inside _execute's try block becomes a failed receipt.
Fail(a) ==
    /\ cycle[a].pc \in {"fresh", "lookup", "boundary", "sent", "poll", "recheck", "verify"}
    /\ GiveUp(a)
    /\ UNCHANGED <<store, broker>>

\* Mutant of Abort: only a cycle that ends by itself releases the lease.
AbortKeepsLease(a) ==
    /\ ~At(a, "idle")
    /\ Update(a, Idle)
    /\ UNCHANGED <<store, broker>>

\* Any other exception ends the cycle; the finally clause releases the lease.
Abort(a) ==
    /\ ~At(a, "idle")
    /\ End(a)
    /\ UNCHANGED <<intents, attempts, completed, broker>>

\* The process dies: the lease stays until it expires.
Crash(a) ==
    /\ ~At(a, "idle")
    /\ Update(a, Idle)
    /\ UNCHANGED <<store, broker>>

\* The position list does not show a fill yet.
PositionsLagRecon(a) ==
    /\ At(a, "positions")
    /\ Unresolved(a)
    /\ UNCHANGED <<lease, attempts, completed, broker>>

PositionsLagVerify(a) ==
    /\ At(a, "verify")
    /\ Goto(a, "record")
    /\ UNCHANGED <<store, broker>>

-----------------------------------------------------------------------------
(* The broker and the market.                                                *)

Accept(c) ==
    /\ c \in inflight
    /\ order[c] = "none"
    /\ order' = [order EXCEPT ![c] = "working"]
    /\ inflight' = inflight \ {c}
    /\ UNCHANGED <<store, book, campaigns, cycle>>

\* The submission is lost, or refused because the client id is taken.
Drop(c) ==
    /\ c \in inflight
    /\ inflight' = inflight \ {c}
    /\ UNCHANGED <<store, order, book, campaigns, cycle>>

\* Does the order trade exactly the position the account holds?
Fits(k) ==
    IF k.act = "OPEN" THEN book.legs = NoLegs
    ELSE book.legs \in Legs /\ k.id \in {book.camp, -book.camp}

Fill(c) ==
    LET k == c.key
        whole == order[c] = "partial" \/ Fits(k)
    IN  /\ order[c] \in Live
        /\ k.act # "CLOSE" => campaigns < MaxCampaigns
        /\ order' = [order EXCEPT ![c] = "filled"]
        /\ campaigns' = IF k.act = "CLOSE" THEN campaigns ELSE campaigns + 1
        /\ book' = IF ~whole THEN Odd
                   ELSE IF k.act = "CLOSE" THEN Flat
                   ELSE [legs |-> k.to, camp |-> campaigns + 1]
        /\ UNCHANGED <<store, inflight, cycle>>

\* A one-lot OPEN fills whole; closing and rolling orders may have several lots.
PartialFill(c) ==
    /\ order[c] = "working"
    /\ c.key.act # "OPEN"
    /\ order' = [order EXCEPT ![c] = "partial"]
    /\ book' = Odd
    /\ UNCHANGED <<store, inflight, campaigns, cycle>>

\* Canceled, expired at the end of the day, or rejected.
Die(c) ==
    /\ order[c] \in Live
    /\ order' = [order EXCEPT ![c] = IF order[c] = "partial" THEN "partdead" ELSE "dead"]
    /\ UNCHANGED <<store, inflight, book, campaigns, cycle>>

Replace(c) ==
    /\ order[c] = "working"
    /\ order' = [order EXCEPT ![c] = "replaced"]
    /\ UNCHANGED <<store, inflight, book, campaigns, cycle>>

\* Expiry empties the book; an assignment leaves stock behind.
BookMoves ==
    /\ book.legs # NoLegs
    /\ book' \in {Flat, Odd} \ {book}
    /\ UNCHANGED <<store, order, inflight, campaigns, cycle>>

-----------------------------------------------------------------------------
ReconStep(a) ==
    \/ ListPending(a) \/ ReconUnknown(a) \/ ReconQuery(a) \/ ReconKeep(a)
    \/ ReconDead(a) \/ ReconAdvance(a) \/ ReconPositionsMatch(a)
    \/ ReconPositionsDiffer(a) \/ ReconRecord(a) \/ ReconRetire(a) \/ ReconDone(a)

RunStep(a) ==
    \/ BeginRun(a) \/ SnapshotNoOrder(a) \/ Snapshot(a) \/ Execute(a)
    \/ ExecuteBlocked(a) \/ Fresh(a) \/ FreshBlocked(a) \/ Lookup(a)
    \/ Submit(a) \/ BoundaryChanged(a) \/ Response(a) \/ NoResponse(a)
    \/ PollTerminal(a) \/ PollTimeout(a) \/ Recheck(a) \/ Settle(a)
    \/ AdvanceAttempt(a) \/ VerifyMatch(a) \/ VerifyDiffer(a) \/ Record(a)

CycleStep(a) == ReconStep(a) \/ RunStep(a)

Exception(a) ==
    Fail(a) \/ Abort(a) \/ PositionsLagRecon(a) \/ PositionsLagVerify(a)

Fault(a) == Exception(a) \/ Crash(a)

BrokerStep(c) ==
    Accept(c) \/ Drop(c) \/ Fill(c) \/ PartialFill(c) \/ Die(c) \/ Replace(c)

\* Steps of the desk and its market, and what disturbs them: faults and people.
Work ==
    \/ \E w \in Workers : Acquire(w)
    \/ \E a \in Actors : CycleStep(a)
    \/ \E c \in Cid : BrokerStep(c)
    \/ Expire
    \/ BookMoves

Disturbance ==
    \/ \E a \in Actors : Fault(a)
    \/ \E o \in Operators : Acquire(o)

Next == Work \/ Disturbance

Spec == Init /\ [][Next]_vars

-----------------------------------------------------------------------------
(* Properties.                                                               *)

Pc == {"idle", "list", "recon", "positions", "classify", "bump", "append", "retire",
       "begin", "snap", "execute", "fresh", "lookup", "boundary", "sent", "poll",
       "recheck", "settle", "advance", "verify", "record"}
CycleState == [pc : Pc, todo : SUBSET Row, note : SUBSET {"unresolved", "recovered"},
               trade : Trade \cup {None}, own : Row \cup {None}, obs : Status]

\* The program counters at which a cycle works on a row of pending_intents.
HasRow == {"positions", "classify", "bump", "append", "retire", "fresh", "lookup",
           "boundary", "sent", "poll", "recheck", "settle", "advance", "verify"}
HasTrade == {"execute", "fresh", "lookup", "boundary"}

\* A cycle that works on a row or on a trade has one.
Equipped(c) ==
    /\ c.pc \in HasRow => c.own \in Row
    /\ c.pc \in HasTrade => c.trade \in Trade
    /\ c.pc = "record" /\ c.obs # "none" => c.own \in Row

StoreTyped ==
    /\ lease \in [holder : Actors \cup {Nobody}, live : BOOLEAN]
    /\ lease.live => lease.holder \in Actors
    /\ intents \subseteq Row
    /\ attempts \in [Key -> 1 .. MaxAttempt + 1]
    /\ completed \subseteq Cid
BrokerTyped ==
    /\ order \in [Cid -> Status]
    /\ inflight \subseteq Cid
    /\ book \in Position
    /\ campaigns \in CampaignId
CycleTyped ==
    /\ cycle \in [Actors -> CycleState]
    /\ \A a \in Actors : Equipped(cycle[a])

\* Every variable has its type, and a cycle has the row or trade it works on.
TypeOK == StoreTyped /\ BrokerTyped /\ CycleTyped

Outstanding(c) == c \in inflight \/ order[c] \in Live

\* Write-ahead: an order that may still trade is named by an intent that is still
\* pending, whatever crashes, exceptions or lost answers came before
\* (service.py 364-397: save_intent before the CLI; 437-466, worker.py 48-99).
WriteAhead == \A c \in Cid : Outstanding(c) => \E r \in Pending : r.cid = c

\* Single flight: never two orders, sent or live, at the broker at once
\* (the lease, the pending check of _run_locked and the fresh re-reads together).
AtMostOneLiveOrder ==
    \A c \in Cid : Outstanding(c) => \A d \in Cid : Outstanding(d) => c = d

\* A numbered retry exists only after every earlier attempt of the incident died
\* unfilled: two attempts of one incident never trade twice
\* (service.py 461-463, worker.py 89-97, store.advance_attempt).
RetryOnlyAfterDead ==
    \A k \in Key : \A n \in 1 .. MaxAttempt :
        n < attempts[k] => order[[key |-> k, att |-> n]] = "dead"

\* An entry order is outstanding only while the account is flat: the desk never
\* stacks a vertical on a position (evaluate's flat branch, re-read three times).
OpenOnlyFromFlat ==
    \A c \in Cid : c.key.act = "OPEN" /\ Outstanding(c) => book.legs = NoLegs

\* Never an order to close or roll a campaign while the account holds a vertical of
\* another one: a stale order cannot survive into the next campaign
\* (alpaca._campaign_id, service._same_trade, the pending check of _run_locked).
NoStaleCampaign ==
    \A c \in Cid :
        c.key.act # "OPEN" /\ Outstanding(c) /\ book.legs \in Legs =>
            c.key.id \in {book.camp, -book.camp}

\* An intent stops being pending only when its order is wholly filled or dead:
\* a working, partly filled, replaced or unknown order is never forgotten
\* (worker.py 52-99, service.py 411-439).
PendingUntilResolved ==
    [][\A r \in Pending :
        (\A q \in Pending' : q.cid # r.cid) => order[r.cid] \in {"filled", "dead"}]_vars

\* The ledger never records a verified fill the broker does not have, even when a
\* process that lost its lease finishes late (service.py 409-460, worker.py 131-185).
CompletedOnlyFilled == \A c \in completed : order[c] = "filled"

\* No process, however late it finishes, marks the intent of an order as terminal before
\* the order is wholly filled or dead (service.py 409-466, worker.py 82-99, 131-185).
ClosedOnlyResolved ==
    \A r \in intents : r.state = "terminal" => order[r.cid] \in {"filled", "dead"}

\* The desk relies on the lease for no more than DeskLease promises, whatever hangs: a
\* process that finishes late cannot release or take its successor's lease
\* (store.py 154-245, worker.py 37-44 and 126-129, service.py 130-151 and 365-367).
Desk == INSTANCE DeskLease WITH
    Processes <- Actors,
    holder <- lease.holder,
    live <- lease.live,
    active <- {a \in Actors : ~At(a, "idle")}
LeaseAsPromised == Desk!Spec

\* And as long as no CLI call outlives the lease, no process loses it in a cycle.
LeasePunctual == Desk!PunctualSpec

\* The order of the pending intent, and what became of it: the broker's status of it or,
\* while the broker does not know it, whether it was sent or still may be.
Named == IF Pending = {} THEN None ELSE (CHOOSE r \in Pending : TRUE).cid
MaySend == \E a \in Actors : At(a, "lookup") \/ At(a, "boundary")
Stage ==
    IF Pending = {} THEN "quiet"
    ELSE IF order[Named] # "none" THEN order[Named]
    ELSE IF Named \in inflight THEN "sent"
    ELSE IF MaySend THEN "armed" ELSE "lost"
Fate == [c \in Cid |-> IF order[c] \in {"filled", "dead"} THEN order[c] ELSE "none"]

\* One order at a time, named in an intent before it is sent, sent at most once and only
\* when it fits the account, and filled or dead before the next one is named: all the
\* processes with their crashes and late answers keep what OrderDesk promises
\* (service.py 176-180 and 320-466, worker.py 48-99, alpaca.py 793-823).
Orders == INSTANCE OrderDesk WITH
    Orders <- Cid,
    NoOrder <- None,
    named <- Named,
    stage <- Stage,
    fate <- Fate,
    held <- book,
    count <- campaigns
OrdersAsPromised == Orders!Spec

-----------------------------------------------------------------------------
(* Why the safety properties hold when no CLI call outlives the lease: the   *)
(* conjuncts of IndInv are inductive together.                               *)

\* The process in a cycle holds the lease, so at most one is in a cycle.
ActiveHolds == \A a \in Actors : ~At(a, "idle") => Owns(a)

OnePending == \A q, r \in Pending : q = r

\* A cycle starts a trade when nothing is pending, then works on the one pending row.
NothingPending == {"snap", "execute", "fresh", "bump", "advance"}
OwnPending == {"positions", "classify", "append", "retire", "lookup", "boundary",
               "sent", "poll", "recheck", "settle", "verify"}
PendingPhase(c, pending) ==
    /\ c.pc \in NothingPending => pending = {}
    /\ c.pc = "fresh" => c.own.state = "submitting"
    /\ c.pc \in OwnPending => c.own \in pending
    /\ c.pc = "recon" => c.todo \subseteq pending
    /\ c.pc \in {"positions", "classify", "append", "retire", "bump"} => c.todo = {}
PhasePending == \A a \in Actors : PendingPhase(cycle[a], Pending)

\* What a cycle has seen of a dead or filled order is still so.
OrderPhase(c, status, sent) ==
    /\ c.pc \in {"lookup", "boundary"} => sent = {}
    /\ c.pc = "boundary" => status[c.own.cid] = "none"
    /\ c.pc \in {"classify", "settle", "record"} /\ c.obs \in {"dead", "filled"} =>
           status[c.own.cid] = c.obs
    /\ c.pc \in {"bump", "advance"} => status[c.own.cid] = "dead"
    /\ c.pc \in {"positions", "append", "retire", "verify"} => status[c.own.cid] = "filled"
    /\ c.pc = "verify" => c.obs = "filled"
    /\ c.pc = "advance" => c.obs = "dead"
PhaseOrder == \A a \in Actors : OrderPhase(cycle[a], order, inflight)

InflightUnknown == \A c \in inflight : order[c] = "none"

IndInv ==
    /\ ActiveHolds
    /\ OnePending
    /\ PhasePending
    /\ PhaseOrder
    /\ InflightUnknown
    /\ WriteAhead

\* With stable campaign ids as well, every row in use carries its incident's current
\* attempt, and the account is flat under an entry order.
CurrentAttempt(r) == r.cid = [key |-> r.key, att |-> attempts[r.key]]
AttemptsCurrent ==
    /\ \A r \in Pending : CurrentAttempt(r)
    /\ \A a \in Actors :
        /\ cycle[a].pc \in HasRow => CurrentAttempt(cycle[a].own)
        /\ cycle[a].pc \in {"fresh", "lookup", "boundary"} =>
               cycle[a].own.key = cycle[a].trade.key

RetryInv == AttemptsCurrent /\ RetryOnlyAfterDead /\ OpenOnlyFromFlat

-----------------------------------------------------------------------------
(* What the documentation says of the program, each refuted by a run.        *)

\* README.md 81: "Orders use unique client IDs": a cycle never takes the client id
\* of an order the ledger already records as filled.
UniqueClientIds ==
    \A a \in Actors : At(a, "lookup") => cycle[a].own.cid \notin completed

\* README.md 10: "Every decision and receipt enters a restart-safe, hash-linked
\* ledger": a fill is in the ledger, or a pending intent or a running cycle has it.
VerifiedFillRecorded ==
    \A c \in Cid : order[c] = "filled" =>
        \/ c \in completed
        \/ \E r \in Pending : r.cid = c
        \/ \E a \in Actors : At(a, "record") /\ cycle[a].own.cid = c

-----------------------------------------------------------------------------
(* Liveness: processes keep taking steps, an answer or the loss of a         *)
(* submission is eventually known, a day order ends, a lease of a dead       *)
(* process expires.                                                          *)

Fairness ==
    /\ \A a \in Actors : WF_vars(CycleStep(a))
    /\ \A w \in Workers : WF_vars(Acquire(w))
    /\ \A c \in Cid : WF_vars(Accept(c) \/ Drop(c)) /\ WF_vars(Die(c))
    /\ WF_vars(Expire)

\* Every cycle ends, whatever faults it meets, and its lease does not outlive it for ever:
\* it is given back, or lapses after a crash (worker.py 126-129, service.py 143-151).
CyclesEnd == \A a \in Actors : ~At(a, "idle") ~> (At(a, "idle") /\ ~Owns(a))
=============================================================================
