# LastSafe: specification, model checking and proofs

LastSafe is an autonomous desk for one Alpaca paper account: it opens a single
defined-risk option vertical, watches it into expiry, and closes or rolls it.
This directory holds TLA+ modules of the program, the TLC runs that check them
and the theorems TLAPS proves about them. `PROJECT.json` maps every definition
to the source lines it models. Paths below are relative to
`src/src/lastsafe/` unless they start with `docs/` or `README`.

Contents: 1 the system, 2 modules, 3 execution, 4 lease, 5 ledger, 6 campaign,
7 evidence and enrollment, 8 attribution, 9 runs and bounds, 10 fairness,
11 proofs, 12 findings, 13 not modelled, 14 plan.

## 1. The system

| part | source | state it keeps | operations | talks to |
|---|---|---|---|---|
| scheduler worker | `worker.py` | none of its own, `owner` | `cycle`, `_complete_recovered_intent`, `_heartbeat`, `run_forever` | store, service, CLI |
| service | `service.py` | an in-process run lock | `run`, `_run_locked`, `_execute`, `get_snapshot`, `enroll_competition_account`, `bootstrap` | store, broker, engine, LLM, evidence |
| store | `store.py` | SQLite: `runs`, `pending_intents`, `attempts`, `metadata` (lease, heartbeat, enrollment, hash schema) | lease acquire/renew/own/release, intents, attempts, append/verify/list/latest | every process of the desk |
| broker client | `alpaca.py` | none | `snapshot`, `competition_preflight`, `execute_via_cli`, `_wait_for_terminal`, contract selection | Alpaca REST and CLI |
| engine | `engine.py` | none (pure) | `evaluate`, `_evaluate_flat` | called by the service |
| decision layer | `llm.py` | none | `decide`, `_fallback` | LLM endpoint |
| evidence | `evidence.py` | packet files, latest pointer | `attribution_for`, `write_packet`, `read_packet` | file system |
| API | `api.py` | none | `/health`, `/api/runs`, `/api/competition/enroll` ... | service, store |
| dashboard, replay, config | `static/`, `replay.py`, `config.py` | none that the desk depends on | | |

**How a cycle goes.** A worker (or an API process asked to execute) takes the
execution lease, a row of the SQLite file. A worker first reconciles the pending
intents with the broker through the Alpaca CLI. Then the run takes a snapshot,
evaluates which actions are legal, asks the language model, and, for an order,
takes a second snapshot, writes an intent under a client order id, looks the id
up at the broker, takes a third snapshot, submits, polls to the deadline, cancels,
verifies the positions, appends a hash-linked record and releases the lease.

**What is hard.** Nothing is transactional across SQLite, the CLI and the
broker: a process may die, a request may fail, an answer may get lost and a
fill may race a cancel between any two of those steps; several processes share
the file; the lease is bounded by a clock and the CLI calls are not; campaigns,
incident keys and attempt numbers decide which client id an order has; the
language model may say anything; the position may be expiring.

**What makes each part correct.**

| part | properties |
|---|---|
| execution | an order that may trade has a pending intent; never two such orders; never an entry on a position, nor a roll or close of a past campaign; an intent is never dropped while its order lives; a retry only after a dead order; cycles end and give the lease back; orders that died are reconciled, those that filled recorded |
| lease | at most one process within its time to live is in a cycle; a renewed lease does not lapse; nobody releases or renews another's |
| ledger | one chain in the listing's order; races lose a record, never fork the chain; verify is sound, and true whenever nothing is wrong |
| policy | the decision is legal; a campaign is not left alone in its last two hours; no sequence of rolls raises what a campaign may lose |
| evidence | every record gets its own packet; the pointer shows a whole packet, and executing runs show theirs in the order of their records; a fill is booked once, and its intent is closed only with a packet or by a run about to write it |
| enrollment | all packets name the one preflight that enrolled the account; a record that calls its account enrolled is vouched for |
| attribution | a profit is claimed only of what was closed; the value claimed for a close is what it saved; books agree with the cash of a campaign that was never rolled |

`PROJECT.json` lists the hazards, each with the line where it bites and the
properties that would catch it going wrong.

## 2. Modules

| module | what it is |
|---|---|
| `Execution` | workers, operators, store and broker; the component that matters most |
| `ExecutionRecovery` | extends Execution by two variables, that faults have ceased (`calm`) and which processes died in a cycle (`crashed`): what the desk recovers from |
| `DeskLease` | abstract: what the lease promises |
| `OrderDesk` | abstract: what the desk promises the account, without processes, lease and intents |
| `Lease` | the lease row, its tokens, the clock, waits for SQLite, the background renewal |
| `Ledger` | the table `runs`, its writers and `verify` |
| `Campaign` | policy engine, contract selection, language model and order prices over the life of one campaign |
| `Attribution` | extends Campaign by the records its cycles end with: `attribution_for` and `counterfactual_for` |
| `Evidence` | from the ledger to packets and the pointer file, recovery's last steps, and the enrollment that packets name |
| `MC...` | instances for TLC: symmetry sets; `MCEvidence` also splits its instance in three |
| `ExecutionProofs`, `ExecutionRefinementProofs`, `LeaseProofs`, `LedgerProofs`, `CampaignProofs`, `AttributionProofs`, `EvidenceProofs`, `EvidenceRecordProofs` | theorems |

Composition. `DeskLease` stands between the models: `Lease` implements it
(`KeepsPromise`), the cycles of `Execution` use no more of it
(`LeaseAsPromised`), so that the lease of Execution may be one record without a
clock, and `Evidence` takes and leaves the lease by DeskLease's own actions.
`OrderDesk` is what Execution is for: the order named by the pending intent
(`Named`), what became of it (`Stage`), how the orders before it ended (`Fate`) and the
book are a refinement mapping, and every step of a process, a crash or the broker is a
step of OrderDesk or changes none of them (`OrdersAsPromised`).
`Attribution` runs on top of Campaign: each of its steps is a step of Campaign or
publishes a record. Evidence keeps of an order only its number, whether its
intent is pending and whether the broker fills it, which is what Execution promises of it, and of the ledger only
its order: how a record is linked is Ledger's subject. Execution abstracts from prices and quantities, Campaign has them and
abstracts from how an order is tracked. Ledger stands apart: of it, Execution
keeps only `completed`, the client ids whose fill the ledger has. `Begin` of
Ledger has the check of the chain that starts every executing run; Execution
assumes that it passes.

## 3. Execution

State: `lease`, `intents`, `attempts`, `completed` are the SQLite file;
`order`, `inflight`, `book`, `campaigns` are the broker; `cycle` holds each
process's local variables and its place in the code:

| actions (place) | code |
|---|---|
| `Acquire`, `Expire` | `acquire_lease`, time to live |
| `ListPending` (list), `ReconQuery`, `ReconUnknown`, `ReconKeep`, `ReconDead`, `ReconAdvance`, `ReconPositions...`, `ReconRecord`, `ReconRetire`, `ReconDone` | the reconciliation loop of `worker.cycle` and `_complete_recovered_intent` |
| `BeginRun`, `Snapshot`, `SnapshotNoOrder` | the start of `_run_locked`: pending check, first snapshot, decision |
| `Execute`, `ExecuteBlocked` | incident key, attempt, client id; lease check |
| `Fresh`, `FreshBlocked` | second snapshot, `_same_trade`, renewal of the lease, `save_intent` |
| `Lookup`, `Submit`, `BoundaryChanged` | `execute_via_cli`: is the id known; `prepare_submission`, `mutation_guard` |
| `Response`, `NoResponse`, `PollTerminal`, `PollTimeout`, `Recheck` | the CLI's answer, `_wait_for_terminal`, cancel and query |
| `Settle`, `AdvanceAttempt`, `VerifyMatch`, `VerifyDiffer`, `Record` | the intent's last state, `advance_attempt`, `_verify_positions`, append and release |
| `Exception` (`Fail`, `Abort`, `PositionsLag...`), `Crash` | an AlpacaError, another exception, a stale positions list; the end of a process |
| `Accept`, `Drop`, `Fill`, `PartialFill`, `Die`, `Replace`, `BookMoves` | the broker and the market (external) |

`OrderDesk` sees of all this one order at a time: it is named (`Fresh` writes the
intent; an order the broker already knows by that id is adopted), sent while it still
fits the account (`Submit`), or lost (the cycle stops before it submits, or the
submission never arrives), accepted, filled, dead, and closed once it is known to be
filled or dead without a fill. Three facts are worth reading off it: the book moves by an
order's fill only as that order's key says; an order that has ended is never sent again,
for its client id is known to the broker and adopted; and no step leads out of `lost`, `partdead`
and `replaced`, so that the desk then waits for a person (finding 1 is the first of
these).

`Expire` needs a holder that is idle or, with `CliMayHang`, in a CLI call: a worker
renews its lease at `Fresh` only, and an API run renews in the background until a
renewal fails.

An exception ends a cycle through `finally`, which gives the lease back; a crash does
not. Hence two properties of the end of a cycle: `LeaseGivenBack`, that a process
between two cycles still owns the lease only if it crashed, and `CyclesEnd`, that
every cycle ends and its process is then without the lease, if need be because it
expired. `FilledOrdersRecovered` says of a pending fill in calm times that it gets into
the ledger and that its intent is closed, not merely that it stops being pending.

What is abstracted, and why it is sound:

- A snapshot is one instant. `get_snapshot` issues several requests; the
  decision needs book, open orders and candidates, and they are read again
  twice before a submission.
- Any trade that the structural gates permit may be chosen, and any re-evaluation
  may refuse: prices, quotes and quantities only ever restrict.
- A broker status is what the code tells apart: `dead` is any retryable terminal
  status with nothing filled, `partdead` with something, `replaced` also stands
  for `calculated`.
- A close that fills in part leaves an `Odd` book, for which nothing is offered.
- `Abort` may happen at every place: `_get` does not wrap transport errors and
  SQLite may answer that it is locked.
- The heartbeat, the replay mode and a desk with execution disabled are left out,
  and so are orders people place by hand.
- If two snapshots disagree on the campaign id because the activity request of one
  failed (`alpaca.py` 186-204), the intent is stored under the incident key of one
  and the client id of the other (`service.py` 271-276 and 340-348). The constant
  `ActivityMayFail` switches this on: single flight is proved for both of its
  values; the runs have it off.

## 4. Lease

State: the row (owner, token, expiry), the clock, and for each process its phase,
the clock reading it works with, its token and its background task. Every
operation is two steps: reading the clock, and the transaction, which may come
later (`Patience`, SQLite's busy timeout). `Interval` is a third of the time to
live (`max(10, ttl // 3)` with a time to live of 300 s or more); the background
task wakes up to `Delay` late. The timing assumption
`Ttl div 3 + Delay + 2 * Patience < Ttl` is what the service's numbers satisfy.
Renewing compares the token only; the model keeps that, and that the background
task ends silently when it fails and that its exception, raised again at the
end of the run, skips the release (`service.py` 145-151).

An observation without a run: `acquire_lease` and the heartbeat of the worker are
outside its `try` (`worker.py` 37-42), so a locked database ends `run_forever`.

## 5. Ledger

State: the clock, the table in rowid order, and each writer's link and time. A
hash covers a random id, so a row's hash is its rowid. `ReadLatest` comes before
`Stamp`, as in the code, and the transaction of `AppendRecord` compares the link
again. `Tick` and `StepBack` are the host's clock; `setBack` remembers whether it
was ever set back. Then the newest row by `created_at` need not be the last one
appended: rows may fork, verify answers that the chain is invalid and execution
is blocked; `ForkDetected` shows that a fork never passes verify as long as all
rows are read. (A fork beyond the first 10,000 rows is not seen.)

## 6. Campaign

State: the account's vertical `held`, how near its expiry is (`stage`), the
decision of the running cycle, the order at the broker, and two history
variables: what the campaign has collected and the most it could lose when it was
opened. `Look` is the first snapshot, `evaluate` and `decide`; `Submit` the fresh
snapshot, the second evaluation, `_same_trade` and the limit price of `_cli_args`.
Fills are at the limit or better. Candidates are any protected pair that passes
the filters of `_find_roll` and `_find_entry_candidate`: the choice of the best is
abstracted, trend and delta windows too.

A snapshot has what the gates tell apart: spot, debit of the position, buying
power, one percent of equity, the account (ready; not enrolled, which forbids all
but a close; blocked), the session, working orders, and quotes. Money is price
times quantity; the contracts' factor 100 cancels out. A percentage is an
inequality of integers: clearance of 0.75 % is `400 * Clearance >= 3 * spot`.

The subject is a hazard that no single evaluation shows. Each roll is checked
against its own quotes and against one percent of equity, not against the
campaign; only the net price of its four legs is limited, so the broker may
book the new legs at entry prices that make the vertical unsupported. What holds:
each roll keeps width and quantity and collects at least the least net credit,
so what the campaign may lose falls strictly (`RollsLowerExposure`) and never
exceeds the maximum loss it was opened with (`CampaignBounded`). The bound
is that of a campaign held to expiry: a `CLOSE` pays the quoted debit, which no
gate compares with the width.

## 7. Evidence and enrollment

`Evidence` begins where Execution and Ledger end. State: the lease (DeskLease's
three variables); the records, the intents that are not terminal, the orders that the
broker fills (`filled`, chosen at the submission), the packet of each record; the pointer file and the temporary files by name, each file with its
content; the metadata row of the enrollment; each process's place.

| actions | code |
|---|---|
| `BeginLeased`, `BeginView` | `worker.cycle`, `service.run` with and without execution |
| `List`, `Recover`, `RecoverDead`, `Unresolved`, `Retire` | the loop over the pending intents: a verified fill, an order that died unfilled, anything else; `_complete_recovered_intent` |
| `GoOn`, `Begin` | after dead orders only, or none, the worker goes on to `_run_locked`, and its check of pending intents |
| `Snapshot`, `NoOrder`, `Submit`, `Settled`, `SettledDead`, `Unsettled` | `_run_locked` and `_execute`, as far as the record depends on them |
| `AppendRecord`, `WritePacket`, `OpenTemp`, `Flush`, `Replace` | `store.append`, `build_packet`, `write_packet`: the record's own file, then the pointer through a temporary file |
| `Finish`, `Stop`, `Lapse` | the end of a cycle, an exception or the end of the process at any place, the lease's time to live |
| `PreflightPassed`, `ReadEnrollment`, `Bind`, `EnrollFails` | `enroll_competition_account` with its preflight |

The temporary file is named after the process id (`evidence.py` 218-220). The
two containers of `docker-compose.yml` share the volume and start their process as
number 1, so `pid` is any map from processes to ids. Opening a file that exists
truncates it; a name that was renamed meanwhile still leads its writer to the
file it opened; a shorter text does not cover a longer one (`Torn`).

The intent of an order that died with nothing filled is closed without a record of a
fill (`RecoverDead`, `SettledDead`); that of a filled one only when its positions are the
expected ones. An order that is unknown, filled in part or replaced stays pending
(`Unresolved`, `Unsettled`).

Some things can go wrong, and `history`, which no action reads, says which did:
`shared` (two of one process id published at once), `outstayed` (a lease lapsed
under its process), `cut` (the records whose recovery stopped before the intent was
closed), `lost` (the orders whose run stopped between the closed intent and the packet),
`overlap` (two requests found no enrollment). Every property is stated up to
exactly the one of these that refutes it:

- with `shared`, the pointer may be an empty or a torn file, and `replace` may find
  its file gone, which fails the run after its record was appended;
- without a lease (an API run that does not execute) the pointer may end on an
  older record than the latest one;
- a record in `cut` is followed by a second one of the same fill, as the next cycle
  finds the intent pending. `BookedOnce` allows for these records and no others, so
  that a recovery after any number of stops still books once. `RetiredHasPacket` makes
  no exception for them: wherever recoveries stop, the intent stays pending until one of
  the records has its packet;
- an order in `lost` may have no record (finding 4) or a record without a packet;
- with `overlap`, the second preflight replaces the first, which packets may
  already name.

## 8. Attribution

`Attribution` adds the record that each cycle of Campaign ends with. Its snapshot
is the first of the cycle, and the spot it displays may be any. The properties
compare what the record claims with what the campaign really collected
(`cash` of Campaign, a history variable, as `result`, `unmanaged` and `rolled`
are):

- `ClaimsOnlyFills`: no profit, avoided assignment or released buying power of an
  order that did not fill, filled in part, or whose positions were not seen (`seen`,
  what the receipt says of them), and nothing of a verified roll;
- `ValueIsSaved`: the value claimed for a close is what the campaign then has less
  what settling at the displayed spot would have left it. The entry prices the
  broker reports after a roll cancel out;
- `BooksMatchCash`: the profit of a close is the campaign's, if it was never rolled.

Observations. After a roll the broker reports the new vertical's entry prices, so
a later close books that vertical's profit alone, and the result of the roll
itself is in no record. The credit an entry claims is the first snapshot's quote and
not the fill's price. The value of having closed depends on the spot that was
displayed, by definition.

## 9. Runs and bounds

| run | instance | what it shows |
|---|---|---|
| `ExecutionSafety` | 1 worker, 1 operator, 2 leg pairs, 2 campaigns, 1 attempt; 1.8 M states | single flight, entries only on a flat account, no order of a past campaign. Two campaigns and two leg pairs are what a roll, a re-entry and a stale order need. |
| `ExecutionRecovery` | 1 worker, 1 operator, 1 leg pair, 1 campaign, 2 attempts; 30 k states | write-ahead, the inductive invariant, retries, `OrderDesk` is implemented, and what happens eventually, and that only crashes leave a lease behind. Two attempts make the third one, past the bound, visible too, and a second name for the same trade. One campaign leaves rolls and second entries to `OrdersAsPromisedHolds`, section 11: its proof has no bounds. |
| `ExecutionHang` | 2 workers, CLI calls that may outlive the lease; 0.9 M states | a late finisher records no fill that is not there, closes no intent of an order that may still trade, and leaves its successor's lease alone |
| `Lease` | 2 workers, 1 operator, Ttl 6, 3 tokens, 12 ticks; 159 k states | two time-outs and a takeover fit in; at most one prompt process, renewed leases live, `DeskLease` is implemented |
| `Ledger` | 2 executing processes, 1 viewer, 4 rows, limit 4, 3 clock values; 0.5 M states | the chain, verify's answer, and forks after the clock was set back |
| `Campaign` | module Attribution: 3 strikes with 3 different widths, 3 spots, 3 prices, 1 or 2 contracts; 8 k states | legal decisions, the airlock, the bounds on losses, and what records claim. Both kinds of vertical, rolls to another width (refused), fills that leave an unsupported vertical, closes after a roll, half filled and simulated orders occur. |
| `Evidence` | 1 worker, 1 operator, 2 process ids, 2 records, 1 order, 2 requests to enroll; 0.6 M states | packets, the pointer, orders that fill or die, recovery's last steps and enrollment. Three parts: no request and any process ids; one request, trading, ids apart and no lease that lapses under its process; two requests and an account that is not traded. The race for the temporary file needs two records, that for the row two requests; what a lapsed lease can break is in the first part; the proofs have no parts. |
| `ExecutionAmbiguous`, `ExecutionZombie`, `ExecutionReentry`, `ExecutionLostFill`, `LedgerLimit` | | violations, section 12 |

Bounds: `MaxAttempt` caps the numbered retries (the counter saturates one past
it), `MaxCampaigns` the fills that create a position, `MaxTokens`, `MaxTime`,
`MaxRows`, `MaxCash`, `MaxRuns` and `MaxOrders` the counters they are named for. A
capped step is not taken, so liveness is only stated of what the caps do not stop.
Deadlock is checked in every run but `Evidence`, where every process is idle and
done once the last record is written.

`RetryOnlyAfterDead` holds with stable campaign ids (`ActivityMayFail = FALSE`).

## 10. Fairness

`Execution` states its fairness once, and `ExecutionRecovery` uses it:

- a process in a cycle takes its next step: awaited calls return, the poll loop
  has a deadline (`_wait_for_terminal`), `finally` releases the lease;
- an idle worker takes the lease again: `run_forever` loops;
- a submission is eventually answered or lost (the CLI's process ends);
- an order at the broker eventually dies if nothing else happens to it: all
  orders are day orders;
- the lease of a process that died expires.

Nothing is assumed of fills, operators or the market. Recovery is only promised
once faults and operators' requests have ceased: `calm` says so. It has to be a
variable, as a fault and an ordinary step may be the same transition.

## 11. Proofs

Every theorem is checked by TLAPS for all values of the constants.

- **Execution, single flight.** `TypeCorrect` needs no assumption on hanging calls.
  `Inductive` shows `IndInv` when no CLI call outlives the lease (`~CliMayHang`; with
  it the property is false, see `ExecutionZombie`). A cycle holds the lease, hence
  there is one cycle; at most one intent is pending; each place in the code says
  whether that intent is the cycle's own (`PhasePending`) and what the broker
  still knows of its order (`PhaseOrder`); a submission in flight is unknown to
  the broker. Single flight by itself is not inductive: that a process at
  `boundary` has seen no order says nothing unless no one else can submit.
  `WriteAheadHolds`, `SingleFlight` and `PendingUntilResolvedHolds` follow: an
  intent is only closed at places where its order is known to be dead or filled.
- **Execution, stale orders.** `TradesFollow` adds to IndInv that the trade of a
  cycle follows the campaign held (`Follows`) and that nothing is outstanding while
  the id is looked up and the boundary checked (`TradePhase`). Only an outstanding
  order moves the book to another vertical, and after it fills nothing is
  outstanding; `OpenOnlyFromFlatHolds` and `NoStaleCampaignHolds`, for stable and
  unstable campaign ids.
- **Execution, retries.** `RetryInvHolds` and `RetryOnlyAfterDeadHolds`, with stable
  ids: the second snapshot then gives the trade the id the first gave it
  (`SameCampaign`, which needs `Follows`), so the saved row carries its incident's
  current attempt, and the counter advances past a dead order only.
- **Execution, recorded fills.** `CompletedOnlyFilledHolds` assumes nothing of the
  lease: what each place takes for a filled order is one (`KnownFill`), a filled
  order stays filled, and only two steps record fills. It covers several
  processes in a cycle at once.
- **Execution, closed intents.** `ClosedOnlyResolvedHolds` assumes nothing of the
  lease either: nine steps write the table of intents (`IntentsWritten`), four of them
  close a row, each at a place that knows its order to be dead or filled (`KnownDead`,
  `KnownFill`), which stays true whatever others do meanwhile (`ResolvedStays`); and a
  row that a late process saves again before it submits is still open. What a zombie
  can break is single flight and the rows of others, never this.
- **Execution implements OrderDesk** (`OrdersAsPromisedHolds`), if no CLI call outlives
  the lease. The mapping reads the name off the one pending row, so it needs `IndInv`
  (one row, and what its process knows of the order) and `TradeInv` (nothing is
  outstanding while the id is looked up, hence a broker's step concerns the named order
  and nobody is about to send another). `UnclearKept` adds that an order that is replaced,
  or dead after a partial fill, keeps its row: only with it is a newly named order known
  to be quiet, filled or dead. One lemma for each kind of step: `FreshNames`,
  `SubmitSends`, `InnerOrders` (the other thirty-odd actions of the processes lose an order,
  close a resolved one or stutter), `BrokerOrders`, `OutsideOrders`.
- **Execution implements DeskLease** (`LeaseAsPromisedHolds`), hanging calls
  included: each action maps to a step of DeskLease or a stutter. `LeaseGivenBackHolds`
  follows for free: the exceptions map to DeskLease's `Leave`, the crash alone to
  `Vanish` (`ExceptionDesk`, `CrashDesk`).
- **The premise `~CliMayHang`.** `LeasePunctualHolds`: under it Execution implements
  the punctual DeskLease, in which a lease never lapses under a process in a cycle.
  `PunctualKeepsPromise` shows on the store's side when that is so: if every
  process without a running background task ends its cycle, or renews, within its time
  to live (`Punctual` of Lease), the row, its tokens and the clock implement the same
  specification, and `PunctualExclusive` that processes then exclude each other for whole
  cycles. An API run with its background task needs no such assumption. So the
  assumption under which single flight is proved is one about times: how long a
  worker's cycle may take between `acquire_lease` and `renew_lease`, and after it.
- **Lease.** `LeaseInductive`: the row of a process that is in time is its own and
  carries its last clock reading. From it `AtMostOnePromptHolds`,
  `RenewedNeverLapsesHolds` and the refinement `LeaseKeepsPromise`, under the
  timing assumption.
- **Ledger.** `LedgerInductive`: until the clock is set back every row is linked to
  the one before it, times do not decrease along rowids, and a record being built
  is stamped no earlier than the row it links to. `FittingVerifiedHolds` follows: no
  race makes verify fail. `LedgerTypeCorrect` and `ForkDetectedHolds` hold in every
  state, whatever the clock did: any set of rows has a newest one (well-founded
  induction on their times, then their rowids), so two rows that link to one are
  listed after it and only one of them right after it.
- **Campaign.** `MaxLossIsWorst`: the maximum loss of the gates is the worst payoff at
  expiry. `DecisionHolds` for any snapshot and answer, hence
  `DecisionLegalHolds` and `AirlockActsHolds`: the policy's own choice is always
  legal as a legal roll implies a legal close. `CampaignInductive`: an order at the
  broker fits the vertical it replaces, and exposure is within budget. The order's
  part is needed because the fill comes later than the gates. With the lemma that a
  protected vertical settles at no less than minus its width,
  `CampaignBoundedHolds`; `RollStep` gives `RollsLowerExposureHolds`.

- **Campaign's type and order.** `TypeCorrect` is Campaign's type, `CampaignInvHolds`
  the inductive form of its bound, with the order at the broker; it is proved only.
- **Attribution.** `ClaimsOnlyFillsHolds`, `ValueIsSavedHolds` and
  `BooksMatchCashHolds`, from an invariant that ties the entry credit of a vertical
  that was never rolled to the cash collected, for any prices and strikes.
- **Evidence.** `EvidenceTypeCorrect`; `OnePreflightHolds`: until two requests overlap,
  a request that may bind finds the row still empty (`PreflightInv`);
  `VouchedByPreflightHolds`: an enrollment is replaced but never removed, so the
  row is there when the packet is built (`VouchedInv`). In `EvidenceRecordProofs`,
  four invariants build on each other: the process in time with the lease is alone
  (`AloneInv`); files, and the processes that have them open, are apart until two
  of one id publish at once (`FileInv`), which gives `ShownWholeHolds`; executing
  runs publish one at a time (`LeasedInv`), which gives `ShownInOrderHolds`. The fourth
  (`NumbersInv`, `BookInv`) numbers the orders apart. A process that is to record a fill
  finds no record of it, but for those in `cut`, and a pending order with any other
  record is in the hands of the one process that is retiring it; a stop turns that
  record into one of `cut`. Hence `BookedOnceHolds`. An order that filled is at every moment
  pending, or has its packet, or is with a process about to write it (`Shown`): hence
  `RetiredHasPacketHolds`, where stops need no exception as long as the intent is pending.
  A dead order's intent is closed by a step that concerns no order that filled.

Only model-checked: liveness (fairness and ENABLED are beyond the prover).
Every invariant, action property and refinement that a passing run checks is also
a theorem, up to the assumptions named above. `RetryInv`, `TradeInv`, `UnclearKept`, `CampaignInv` and
the other inductive invariants of the proof modules are checked by no run of their own;
the properties they imply are.

## 12. Findings

Each is a run that violates what the repository says; quotes and lines are in
`PROJECT.json`.

1. `ExecutionAmbiguous`: an intent saved before a crash or a lost submission whose
   order the broker never got is never closed or resubmitted; it blocks every
   later execution.
2. `ExecutionZombie`: a CLI call has no timeout and a worker's lease is not renewed
   while it waits; two orders may be outstanding.
3. `ExecutionReentry`: an entry at the strikes of an earlier, filled entry takes that
   order's client id and submits nothing.
4. `ExecutionLostFill`: the intent of a verified fill is closed before the run is
   appended; a crash between the two leaves a fill that no record names.
5. `LedgerLimit`: `verify` reads 10,000 rows and expects the oldest one read to
   link to GENESIS; with one more, a valid ledger is invalid and execution is
   blocked.

## 13. Not modelled

- The replay mode, the dashboard, configuration and entry points keep no state the
  desk depends on; `api.py` is modelled as far as its requests start runs and
  enrollments (`BeginLeased`, `BeginView`, the enrollment's actions), its reads,
  the admin token and the rate limit are not.
- `/health` and the heartbeat row: a report. All workers share the row and the last
  writer wins, so that a refused worker degrades the health of a working desk; no
  decision reads it.
- Quantities between snapshots: `_same_trade` compares contracts only, and the worker
  compares positions exactly where the service allows rows of zero
  (`worker.py` 64, `service.py` 536-568). Quantities of one cycle differ only if
  somebody trades the account by hand.
- Risk scores, terminal states, wording, and the ranking among candidates; the
  contents of hashes and fingerprints, the ledger's hash schema at start-up; what
  several desks do with one account.

## 14. Plan

All parts that keep state are modelled, and the properties of the passing runs are
proved, liveness apart. What would add to them:

1. A position model with quantities in lots shared by Campaign and Execution, should
   the code come to open more than one lot.
2. The heartbeat, should a decision come to read it.
