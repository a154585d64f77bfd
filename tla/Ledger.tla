------------------------------- MODULE Ledger -------------------------------
(***************************************************************************)
(* The hash-linked run ledger: the table runs, written by processes that   *)
(* read the newest row, stamp and hash their record, and append it in a    *)
(* transaction that compares the link again.  Rows are listed by their     *)
(* creation time, and by rowid where times are equal.                      *)
(*                                                                         *)
(* A record's hash is unique (it covers a random id), so the n-th row's    *)
(* hash is n here, and GENESIS is 0.                                       *)
(*                                                                         *)
(* Sources: store.py (latest, list, append, verify), service.py            *)
(* (_run_locked), worker.py (cycle, _complete_recovered_intent).           *)
(***************************************************************************)
EXTENDS Integers, Sequences, FiniteSets

CONSTANTS
    Executors,         \* processes whose runs may execute: verify comes first
    Viewers,           \* API processes answering runs that do not execute
    Limit,             \* how many rows verify reads
    MaxTime,           \* bound: the clock
    MaxRows            \* bound: rows

Writers == Executors \cup Viewers

ASSUME LedgerBoundsAssumption ==
    /\ Limit \in Nat \ {0}
    /\ MaxTime \in Nat
    /\ MaxRows \in Nat

VARIABLES
    now,     \* the clock of the host
    setBack, \* has it ever been set back?
    rows,    \* the table runs, by rowid
    writer   \* each process: its phase, and the link and time of its record

vars == <<now, setBack, rows, writer>>

Genesis == 0
Idle == [phase |-> "idle", prev |-> Genesis, at |-> 0]
Init ==
    /\ now = 0 /\ setBack = FALSE
    /\ rows = << >>
    /\ writer = [w \in Writers |-> Idle]

\* Mutant of Before: rows of one time are listed in the reverse order.
BeforeReversed(i, j) == rows[i].at < rows[j].at \/ (rows[i].at = rows[j].at /\ j < i)
\* ORDER BY created_at, rowid.
Before(i, j) == rows[i].at < rows[j].at \/ (rows[i].at = rows[j].at /\ i < j)

\* The newest of some rows, or GENESIS.
Newest(S) == IF S = {} THEN Genesis ELSE CHOOSE i \in S : \A j \in S \ {i} : Before(j, i)
Latest == Newest(DOMAIN rows)

Listed == {i \in DOMAIN rows : Cardinality({j \in DOMAIN rows : Before(i, j)}) < Limit}
\* Mutant of Verified: a row may link to any row listed, not only to the one before.
VerifiedAnyLink == \A i \in Listed : rows[i].prev \in {Genesis} \cup Listed
\* verify: every listed row links to the one listed before it, the first to GENESIS.
Verified == \A i \in Listed : rows[i].prev = Newest({j \in Listed : Before(j, i)})

At(w, p) == writer[w].phase = p
Update(w, r) == writer' = [writer EXCEPT ![w] = r]

-----------------------------------------------------------------------------
\* A run that may execute is refused when the chain is not valid.
Begin(w) ==
    /\ At(w, "idle")
    /\ w \in Executors => Verified
    /\ Update(w, [Idle EXCEPT !.phase = "run"])
    /\ UNCHANGED <<now, setBack, rows>>

\* The decision and its execution are over: latest() is read for the link ...
ReadLatest(w) ==
    /\ At(w, "run")
    /\ Update(w, [writer[w] EXCEPT !.phase = "link", !.prev = Latest])
    /\ UNCHANGED <<now, setBack, rows>>

\* Mutant of Stamp: created_at is rounded up.
StampRoundedUp(w) ==
    /\ At(w, "link")
    /\ Update(w, [writer[w] EXCEPT !.phase = "append", !.at = now + 1])
    /\ UNCHANGED <<now, setBack, rows>>

\* ... and the clock for created_at.
Stamp(w) ==
    /\ At(w, "link")
    /\ Update(w, [writer[w] EXCEPT !.phase = "append", !.at = now])
    /\ UNCHANGED <<now, setBack, rows>>

\* Mutant of AppendRecord: the transaction does not compare the link.
AppendUnchecked(w) ==
    /\ At(w, "append")
    /\ Len(rows) < MaxRows
    /\ rows' = Append(rows, [prev |-> writer[w].prev, at |-> writer[w].at])
    /\ Update(w, Idle)
    /\ UNCHANGED <<now, setBack>>

AppendRecord(w) ==
    /\ At(w, "append")
    /\ writer[w].prev = Latest
    /\ Len(rows) < MaxRows
    /\ rows' = Append(rows, [prev |-> writer[w].prev, at |-> writer[w].at])
    /\ Update(w, Idle)
    /\ UNCHANGED <<now, setBack>>

\* Somebody else appended since: ValueError, and the record is lost.
AppendRefused(w) ==
    /\ At(w, "append")
    /\ writer[w].prev # Latest
    /\ Update(w, Idle)
    /\ UNCHANGED <<now, setBack, rows>>

\* A run that fails or a process that dies appends nothing.
GiveUp(w) ==
    /\ ~At(w, "idle")
    /\ Update(w, Idle)
    /\ UNCHANGED <<now, setBack, rows>>

Tick == now < MaxTime /\ now' = now + 1 /\ UNCHANGED <<setBack, rows, writer>>
StepBack ==
    /\ now > 0
    /\ now' = now - 1
    /\ setBack' = TRUE
    /\ UNCHANGED <<rows, writer>>

Next ==
    \/ \E w \in Writers :
        \/ Begin(w) \/ ReadLatest(w) \/ Stamp(w)
        \/ AppendRecord(w) \/ AppendRefused(w) \/ GiveUp(w)
    \/ Tick \/ StepBack

Spec == Init /\ [][Next]_vars

-----------------------------------------------------------------------------
(* Properties.                                                               *)

Local == [phase : {"idle", "run", "link", "append"}, prev : 0 .. MaxRows, at : 0 .. MaxTime]
\* Every variable has its type.
TypeOK ==
    /\ now \in 0 .. MaxTime /\ setBack \in BOOLEAN
    /\ rows \in Seq([prev : 0 .. MaxRows, at : 0 .. MaxTime])
    /\ Len(rows) <= MaxRows
    /\ writer \in [Writers -> Local]

\* verify is sound: rows that it reads whole and finds valid are one chain, no two of
\* them linked to the same row, also when the clock was set back (store.py 117-129).
ForkDetected ==
    Len(rows) <= Limit /\ Verified =>
        \A i, j \in DOMAIN rows : rows[i].prev = rows[j].prev => i = j

\* Reading the clock only after the link makes the listing's order the order of the
\* links, whatever happens between the two (service.py 224-229, worker.py 160-164).
ChainIntact ==
    \A i \in DOMAIN rows :
        /\ rows[i].prev = i - 1
        /\ \A j \in DOMAIN rows : j < i => Before(j, i)

\* A ledger that fits in what verify reads is valid in every state while the clock is
\* not set back: no race of writers blocks execution (store.py 117-129, service.py
\* 172-175).
FittingVerified == ~setBack /\ Len(rows) <= Limit => Verified

-----------------------------------------------------------------------------
(* Why: a record that is being built carries a time no earlier than its      *)
(* link's.                                                                   *)

NotBefore(w) ==
    /\ writer[w].phase \in {"link", "append"} => writer[w].prev \in 0 .. Len(rows)
    /\ writer[w].phase = "append" =>
        /\ writer[w].at <= now
        /\ writer[w].prev # Genesis => rows[writer[w].prev].at <= writer[w].at
Orderly ==
    /\ ChainIntact
    /\ \A i \in DOMAIN rows : rows[i].at <= now
    /\ \A w \in Writers : NotBefore(w)

\* Until the clock is set back, the ledger is one chain in the order of the listing, and
\* a record being built fits behind its link (store.py 72-115, service.py 224-241).
LedgerInv == ~setBack => Orderly

-----------------------------------------------------------------------------
(* What a test says of the ledger, refuted by a run.                         *)

\* tests/test_store.py 43: after records that extend the chain one by one, verify
\* answers that it is valid.
AlwaysVerified == ~setBack => Verified
=============================================================================
