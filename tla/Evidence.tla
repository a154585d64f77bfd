------------------------------ MODULE Evidence ------------------------------
(***************************************************************************)
(* From the ledger to the evidence the desk shows: every record gets a     *)
(* packet of its own, and a pointer file shows the last packet written.    *)
(* The packet says which preflight enrolled the account.  The intent of a  *)
(* recovered fill is closed only after its record and its packet; that of  *)
(* an order that died is closed without either.                            *)
(*                                                                         *)
(* Ledger, packets, pointer and enrollment share no transaction, and a run *)
(* that does not execute takes no lease.  The pointer is written through a *)
(* temporary file named after the process id, and processes in different   *)
(* containers may have the same.                                           *)
(*                                                                         *)
(* Sources: evidence.py (build_packet, write_packet), service.py           *)
(* (_run_locked, get_snapshot, enroll_competition_account), worker.py      *)
(* (cycle, _complete_recovered_intent), alpaca.py (competition_preflight). *)
(***************************************************************************)
EXTENDS Integers, Sequences

CONSTANTS
    Workers,        \* scheduler processes
    Operators,      \* API processes
    Enrollments,    \* requests to enroll the account; each has its own preflight
    Pids,           \* process ids
    None,           \* no process, no intent, no packet, no file
    MaxRuns,        \* bound: records
    MaxOrders       \* bound: orders

Writers == Workers \cup Operators
RecordId == 1 .. MaxRuns
Order == 1 .. MaxOrders
Intent == [order : Order, verified : BOOLEAN]

ASSUME WritersAssumption ==
    /\ Workers \cap Operators = {}
    /\ None \notin Writers \cup Enrollments \cup Int \cup Intent
    /\ 0 \notin Enrollments
ASSUME EvidenceBoundsAssumption == MaxRuns \in Nat /\ MaxOrders \in Nat

VARIABLES
    holder, live, active,   \* the execution lease (DeskLease)
    ledger,       \* the records, in the order they were appended
    pending,      \* the intents that are not terminal
    orders,       \* how many orders were submitted
    filled,       \* the orders that the broker fills; it fills no part of the others
    packets,      \* by record: the enrollment its packet names (0: none), or None
    temp,         \* by process id: the temporary file of that name, or None
    content,      \* by file: the record whose packet it holds, Empty or Torn
    latest,       \* the file the pointer is, or None
    enrollment,   \* the metadata row competition_account: whose preflight, or None
    pid,          \* the process id of each writer
    run,          \* each writer: its place and local variables
    enroll,       \* the place of each request to enroll
    history       \* what went wrong so far (no code reads it)

leaseVars == <<holder, live, active>>
storeVars == <<ledger, pending, orders, filled, packets>>
fileVars == <<pid, temp, content, latest>>
enrollVars == <<enrollment, enroll>>
vars == <<leaseVars, storeVars, fileVars, enrollVars, run, history>>

Empty == 0
Torn == -1

\* todo: the intents still to be looked at; onward: has none of them been recovered or
\* left unresolved; intent: the one this process has a record to write for; verified: was
\* the snapshot's account the enrolled one; file: the temporary file that is open.
Idle == [pc |-> "idle", todo |-> {}, onward |-> FALSE, intent |-> None,
         recovers |-> FALSE, verified |-> FALSE, record |-> 0, file |-> None]

\* shared: two processes had one temporary file open; outstayed: a lease lapsed under
\* its process; cut: records whose recovery stopped before the intent was closed; lost:
\* orders whose run stopped between the closed intent and the packet; overlap: two
\* processes found no enrollment.
Init ==
    /\ holder = None /\ live = FALSE /\ active = {}
    /\ ledger = <<>> /\ pending = {} /\ orders = 0 /\ filled = {}
    /\ packets = [r \in RecordId |-> None]
    /\ pid \in [Writers -> Pids]
    /\ temp = [p \in Pids |-> None]
    /\ content = [f \in RecordId |-> Empty]
    /\ latest = None
    /\ enrollment = None
    /\ run = [w \in Writers |-> Idle]
    /\ enroll \in [Enrollments -> {"new", "over"}]
    /\ history = [shared |-> FALSE, outstayed |-> FALSE, cut |-> {}, lost |-> {},
                  overlap |-> FALSE]

Lease == INSTANCE DeskLease WITH Processes <- Writers, Nobody <- None

At(w, place) == run[w].pc = place
Update(w, r) == run' = [run EXCEPT ![w] = r]
Goto(w, place) == Update(w, [run[w] EXCEPT !.pc = place])

\* The order whose fill the record claims.
Fill(w) == IF run[w].intent = None THEN 0 ELSE run[w].intent.order
\* What a packet says of the enrollment.
Named == IF enrollment = None THEN 0 ELSE enrollment
\* Mutant of TempName: the name does not tell processes apart.
TempNameOne(w) == CHOOSE p \in Pids : TRUE
TempName(w) == pid[w]
\* Between the opening of the temporary file and its renaming.
Publishing(w) == run[w].pc \in {"flush", "replace"}
\* The record of a recovery that has not closed its intent.
Unretired(w) == {r \in {run[w].record} : r # 0 /\ run[w].recovers}
\* The order of a run that has closed its intent and not written its packet.
Unshown(w) ==
    {o \in {Fill(w)} : o # 0 /\ run[w].pc \in {"append", "packet"} /\ ~run[w].recovers}

NoLease(w) == w \notin active /\ UNCHANGED leaseVars
GivesBack(w) == Lease!Leave(w) \/ NoLease(w)
Dies(w) == Lease!Vanish(w) \/ NoLease(w)

-----------------------------------------------------------------------------
(* A cycle of a worker, or an API run.                                       *)

\* An executing run and a worker's cycle need the lease; other API runs do not.
BeginLeased(w) ==
    /\ At(w, "idle")
    /\ Len(ledger) < MaxRuns
    /\ Lease!Take(w)
    /\ Goto(w, IF w \in Workers THEN "list" ELSE "begin")
    /\ UNCHANGED <<storeVars, fileVars, enrollVars, history>>

BeginView(w) ==
    /\ w \in Operators /\ At(w, "idle")
    /\ Len(ledger) < MaxRuns
    /\ Goto(w, "snapshot")
    /\ UNCHANGED <<leaseVars, storeVars, fileVars, enrollVars, history>>

List(w) ==
    /\ At(w, "list")
    /\ Update(w, [run[w] EXCEPT !.pc = "recover", !.todo = pending, !.onward = TRUE])
    /\ UNCHANGED <<leaseVars, storeVars, fileVars, enrollVars, history>>

\* Mutant of Recover: the intent is closed before the record is appended.
RecoverRetires(w) ==
    /\ At(w, "recover")
    /\ \E i \in run[w].todo :
        /\ i.order \in filled
        /\ pending' = pending \ {i}
        /\ Update(w, [run[w] EXCEPT !.pc = "append", !.todo = @ \ {i}, !.onward = FALSE,
                        !.intent = i, !.recovers = TRUE, !.verified = i.verified])
    /\ UNCHANGED <<leaseVars, ledger, orders, filled, packets, fileVars, enrollVars, history>>

\* The order filled and the positions are the expected ones: the record says of the
\* account what the snapshot before the submission said.
Recover(w) ==
    /\ At(w, "recover")
    /\ \E i \in run[w].todo :
        /\ i.order \in filled
        /\ Update(w, [run[w] EXCEPT !.pc = "append", !.todo = @ \ {i}, !.onward = FALSE,
                        !.intent = i, !.recovers = TRUE, !.verified = i.verified])
    /\ UNCHANGED <<leaseVars, storeVars, fileVars, enrollVars, history>>

\* The order died and no part of it filled: there is nothing to record.
RecoverDead(w) ==
    /\ At(w, "recover")
    /\ \E i \in run[w].todo :
        /\ i.order \notin filled
        /\ pending' = pending \ {i}
        /\ Update(w, [run[w] EXCEPT !.todo = @ \ {i}])
    /\ UNCHANGED <<leaseVars, ledger, orders, filled, packets, fileVars, enrollVars, history>>

\* The order is unknown, at work, filled in part or replaced, or the positions are not
\* the expected ones.
Unresolved(w) ==
    /\ At(w, "recover")
    /\ \E i \in run[w].todo : Update(w, [run[w] EXCEPT !.todo = @ \ {i}, !.onward = FALSE])
    /\ UNCHANGED <<leaseVars, storeVars, fileVars, enrollVars, history>>

\* A worker that found nothing, or dead orders only, goes on to a run.
GoOn(w) ==
    /\ At(w, "recover") /\ run[w].todo = {} /\ run[w].onward
    /\ Update(w, [run[w] EXCEPT !.pc = "begin", !.onward = FALSE])
    /\ UNCHANGED <<leaseVars, storeVars, fileVars, enrollVars, history>>

\* No run executes while an intent is pending.
Begin(w) ==
    /\ At(w, "begin")
    /\ Goto(w, IF pending = {} THEN "snapshot" ELSE "end")
    /\ UNCHANGED <<leaseVars, storeVars, fileVars, enrollVars, history>>

Snapshot(w) ==
    /\ At(w, "snapshot")
    /\ Update(w, [run[w] EXCEPT !.pc = IF w \in active THEN "act" ELSE "append",
                                !.verified = enrollment # None])
    /\ UNCHANGED <<leaseVars, storeVars, fileVars, enrollVars, history>>

NoOrder(w) ==
    /\ At(w, "act")
    /\ Goto(w, "append")
    /\ UNCHANGED <<leaseVars, storeVars, fileVars, enrollVars, history>>

\* A second snapshot, the renewal of the lease, the intent, the submission.
Submit(w) ==
    /\ At(w, "act")
    /\ orders < MaxOrders
    /\ Lease!Keep(w)
    /\ LET i == [order |-> orders + 1, verified |-> enrollment # None] IN
        /\ orders' = orders + 1
        /\ filled' \in {filled, filled \cup {orders + 1}}
        /\ pending' = pending \cup {i}
        /\ Update(w, [run[w] EXCEPT !.pc = "order", !.intent = i])
    /\ UNCHANGED <<ledger, packets, fileVars, enrollVars, history>>

\* A verified fill: the intent is closed before the record is appended.
Settled(w) ==
    /\ At(w, "order")
    /\ run[w].intent.order \in filled
    /\ pending' = pending \ {run[w].intent}
    /\ Goto(w, "append")
    /\ UNCHANGED <<leaseVars, ledger, orders, filled, packets, fileVars, enrollVars, history>>

\* The order died: the intent is closed, and the record claims no fill.
SettledDead(w) ==
    /\ At(w, "order")
    /\ run[w].intent.order \notin filled
    /\ pending' = pending \ {run[w].intent}
    /\ Update(w, [run[w] EXCEPT !.pc = "append", !.intent = None])
    /\ UNCHANGED <<leaseVars, ledger, orders, filled, packets, fileVars, enrollVars, history>>

\* Anything else: the intent stays, and the record claims no fill.
Unsettled(w) ==
    /\ At(w, "order")
    /\ Update(w, [run[w] EXCEPT !.pc = "append", !.intent = None])
    /\ UNCHANGED <<leaseVars, storeVars, fileVars, enrollVars, history>>

-----------------------------------------------------------------------------
(* The record and its packet.                                                *)

Entry(w) == [order |-> Fill(w), verified |-> run[w].verified, leased |-> w \in active]

\* Mutant of AppendRecord: the packet is for the record that was the latest before.
AppendStale(w) ==
    /\ At(w, "append")
    /\ Len(ledger) < MaxRuns
    /\ ledger' = Append(ledger, Entry(w))
    /\ Update(w, [run[w] EXCEPT !.pc = "packet", !.record = Len(ledger), !.verified = FALSE])
    /\ UNCHANGED <<leaseVars, pending, orders, filled, packets, fileVars, enrollVars, history>>

\* Mutant of AppendRecord: the lease is given back before the packet is written.
AppendReleases(w) ==
    /\ At(w, "append")
    /\ Len(ledger) < MaxRuns
    /\ ledger' = Append(ledger, Entry(w))
    /\ Update(w, [run[w] EXCEPT !.pc = "packet", !.record = Len(ledger) + 1,
                                !.verified = FALSE])
    /\ GivesBack(w)
    /\ UNCHANGED <<pending, orders, filled, packets, fileVars, enrollVars, history>>

AppendRecord(w) ==
    /\ At(w, "append")
    /\ Len(ledger) < MaxRuns
    /\ ledger' = Append(ledger, Entry(w))
    /\ Update(w, [run[w] EXCEPT !.pc = "packet", !.record = Len(ledger) + 1,
                                !.verified = FALSE])
    /\ UNCHANGED <<leaseVars, pending, orders, filled, packets, fileVars, enrollVars, history>>

\* Mutant of WritePacket: after a restart the packet is written without the enrollment.
WritePacketUnnamed(w) ==
    /\ At(w, "packet")
    /\ packets' = [packets EXCEPT ![run[w].record] = IF run[w].recovers THEN 0 ELSE Named]
    /\ Goto(w, "open")
    /\ UNCHANGED <<leaseVars, ledger, pending, orders, filled, fileVars, enrollVars, history>>

\* build_packet, and the file of this record's own name, which is never written again.
WritePacket(w) ==
    /\ At(w, "packet")
    /\ packets' = [packets EXCEPT ![run[w].record] = IF @ = None THEN Named ELSE @]
    /\ Goto(w, "open")
    /\ UNCHANGED <<leaseVars, ledger, pending, orders, filled, fileVars, enrollVars, history>>

\* Opening the temporary file creates it, or empties the file of that name.
OpenTemp(w) ==
    LET name == TempName(w)
        file == IF temp[name] = None THEN run[w].record ELSE temp[name]
    IN  /\ At(w, "open")
        /\ temp' = [temp EXCEPT ![name] = file]
        /\ content' = [content EXCEPT ![file] = Empty]
        /\ Update(w, [run[w] EXCEPT !.pc = "flush", !.file = file])
        /\ history' = [history EXCEPT !.shared = @ \/ \E v \in Writers \ {w} :
                                          pid[v] = pid[w] /\ Publishing(v)]
        /\ UNCHANGED <<leaseVars, storeVars, pid, latest, enrollVars>>

\* The packet is written from the start of the open file.  Another's longer packet is
\* not covered to its end.
Flush(w) ==
    LET file == run[w].file
    IN  /\ At(w, "flush")
        /\ \E c \in {run[w].record} \cup (IF content[file] = Empty THEN {} ELSE {Torn}) :
            content' = [content EXCEPT ![file] = c]
        /\ Goto(w, "replace")
        /\ UNCHANGED <<leaseVars, storeVars, pid, temp, latest,
                       enrollVars, history>>

\* The file that has the name now becomes the pointer.
Replace(w) ==
    /\ At(w, "replace")
    /\ temp[TempName(w)] # None
    /\ latest' = temp[TempName(w)]
    /\ temp' = [temp EXCEPT ![TempName(w)] = None]
    /\ Update(w, [run[w] EXCEPT !.pc = IF run[w].recovers THEN "retire" ELSE "end",
                                !.record = IF run[w].recovers THEN @ ELSE 0, !.file = None])
    /\ UNCHANGED <<leaseVars, storeVars, pid, content, enrollVars,
                   history>>

\* Mutant of Retire: the terminal state is not saved.
RetireUnsaved(w) ==
    /\ At(w, "retire")
    /\ Update(w, [Idle EXCEPT !.pc = "recover", !.todo = run[w].todo])
    /\ UNCHANGED <<leaseVars, storeVars, fileVars, enrollVars, history>>

Retire(w) ==
    /\ At(w, "retire")
    /\ pending' = pending \ {run[w].intent}
    /\ Update(w, [Idle EXCEPT !.pc = "recover", !.todo = run[w].todo])
    /\ UNCHANGED <<leaseVars, ledger, orders, filled, packets, fileVars, enrollVars, history>>

-----------------------------------------------------------------------------
(* The end of a cycle.                                                       *)

Finish(w) ==
    /\ At(w, "end") \/ (At(w, "recover") /\ run[w].todo = {} /\ ~run[w].onward)
    /\ GivesBack(w)
    /\ Update(w, Idle)
    /\ UNCHANGED <<storeVars, fileVars, enrollVars, history>>

\* An exception (the database is locked, the disk is full, the temporary file is gone)
\* gives the lease back; the end of the process leaves it to lapse.
Stop(w) ==
    /\ ~At(w, "idle")
    /\ GivesBack(w) \/ Dies(w)
    /\ Update(w, Idle)
    /\ history' = [history EXCEPT !.cut = @ \cup Unretired(w), !.lost = @ \cup Unshown(w)]
    /\ UNCHANGED <<storeVars, fileVars, enrollVars>>

Lapse ==
    /\ Lease!Lapse
    /\ history' = [history EXCEPT !.outstayed = @ \/ holder \in active]
    /\ UNCHANGED <<storeVars, fileVars, enrollVars, run>>

-----------------------------------------------------------------------------
(* enroll_competition_account                                                *)

EnrollTo(e, place) == enroll' = [enroll EXCEPT ![e] = place]

\* competition_preflight: the account has its starting equity, no position and no order.
PreflightPassed(e) ==
    /\ enroll[e] = "new"
    /\ orders = 0
    /\ EnrollTo(e, "checked")
    /\ UNCHANGED <<leaseVars, storeVars, fileVars, enrollment, run, history>>

\* Mutant of ReadEnrollment: what the row has is not looked at.
ReadEnrollmentIgnored(e) ==
    /\ enroll[e] = "checked"
    /\ EnrollTo(e, "absent")
    /\ history' = [history EXCEPT !.overlap =
           @ \/ (enrollment = None /\ \E d \in Enrollments : enroll[d] = "absent")]
    /\ UNCHANGED <<leaseVars, storeVars, fileVars, enrollment, run>>

\* No two preflights are equal (captured_at): an enrolled account is not enrolled again.
ReadEnrollment(e) ==
    /\ enroll[e] = "checked"
    /\ EnrollTo(e, IF enrollment = None THEN "absent" ELSE "over")
    /\ history' = [history EXCEPT !.overlap =
           @ \/ (enrollment = None /\ \E d \in Enrollments : enroll[d] = "absent")]
    /\ UNCHANGED <<leaseVars, storeVars, fileVars, enrollment, run>>

Bind(e) ==
    /\ enroll[e] = "absent"
    /\ enrollment' = e
    /\ EnrollTo(e, "over")
    /\ UNCHANGED <<leaseVars, storeVars, fileVars, run, history>>

EnrollFails(e) ==
    /\ enroll[e] # "over"
    /\ EnrollTo(e, "over")
    /\ UNCHANGED <<leaseVars, storeVars, fileVars, enrollment, run, history>>

Next ==
    \/ \E w \in Writers :
        \/ BeginLeased(w) \/ BeginView(w) \/ List(w)
        \/ Recover(w) \/ RecoverDead(w) \/ Unresolved(w) \/ GoOn(w) \/ Begin(w)
        \/ Snapshot(w) \/ NoOrder(w) \/ Submit(w)
        \/ Settled(w) \/ SettledDead(w) \/ Unsettled(w)
        \/ AppendRecord(w) \/ WritePacket(w)
        \/ OpenTemp(w) \/ Flush(w) \/ Replace(w) \/ Retire(w)
        \/ Finish(w) \/ Stop(w)
    \/ Lapse
    \/ \E e \in Enrollments : PreflightPassed(e) \/ ReadEnrollment(e) \/ Bind(e) \/ EnrollFails(e)

Spec == Init /\ [][Next]_vars

-----------------------------------------------------------------------------
(* Properties.                                                               *)

Record == [order : Order \cup {0}, verified : BOOLEAN, leased : BOOLEAN]
Place == {"idle", "list", "recover", "begin", "snapshot", "act", "order", "append", "packet",
          "open", "flush", "replace", "retire", "end"}
Local == [pc : Place, todo : SUBSET Intent, onward : BOOLEAN,
          intent : Intent \cup {None}, recovers : BOOLEAN, verified : BOOLEAN,
          record : RecordId \cup {0}, file : RecordId \cup {None}]

History == [shared : BOOLEAN, outstayed : BOOLEAN, cut : SUBSET RecordId, lost : SUBSET Order,
            overlap : BOOLEAN]

\* A process between its append and the end of its publication, or of its recovery, has a
\* record.
Equipped(r) ==
    /\ r.pc \in {"packet", "open", "flush", "replace", "retire"} =>
           r.record \in 1 .. Len(ledger)
    /\ r.pc \in {"flush", "replace"} => r.file # None
    /\ r.pc = "order" => r.intent # None
    /\ r.recovers => /\ r.intent # None
                     /\ r.pc \in {"append", "packet", "open", "flush", "replace", "retire"}

\* Every variable has its type, a process at work on a packet has its record, and the
\* one that writes to the temporary file has it open (evidence.py 204-223).
TypeOK ==
    /\ holder \in Writers \cup {None} /\ live \in BOOLEAN /\ active \subseteq Writers
    /\ ledger \in Seq(Record) /\ Len(ledger) <= MaxRuns
    /\ pending \subseteq Intent /\ orders \in Order \cup {0} /\ filled \subseteq 1 .. orders
    /\ packets \in [RecordId -> Enrollments \cup {0, None}]
    /\ pid \in [Writers -> Pids]
    /\ temp \in [Pids -> RecordId \cup {None}]
    /\ content \in [RecordId -> RecordId \cup {Empty, Torn}]
    /\ latest \in RecordId \cup {None}
    /\ enrollment \in Enrollments \cup {None}
    /\ run \in [Writers -> Local]
    /\ enroll \in [Enrollments -> {"new", "checked", "absent", "over"}]
    /\ \A w \in Writers : Equipped(run[w])
    /\ history \in History

\* Unless two processes of one process id published at the same time, what the API
\* shows is the whole packet of a record that has the same packet in its own file
\* (evidence.py 204-232).
ShownWhole ==
    ~history.shared /\ latest # None =>
        /\ content[latest] \in 1 .. Len(ledger)
        /\ packets[content[latest]] # None

\* The packet shown is replaced by an older one only if one of the two runs took no
\* lease, or a lease lapsed under its process (service.py 140-151, 241-248;
\* worker.py 149-158): executing runs publish in the order of their records.
ShownInOrder ==
    [][latest # None /\ ~history.shared' /\ ~history.outstayed' =>
           LET old == content[latest]
               new == content'[latest']
           IN  new < old => ~(ledger[old].leased /\ ledger[new].leased)]_vars

Records(o) == {r \in 1 .. Len(ledger) : ledger[r].order = o}
Submitted == 1 .. orders
Open(o) == \E i \in pending : i.order = o

\* A fill is booked once, and once more for each recovery of it that stopped between its
\* record and the closing of the intent, wherever other cycles stop, unless a process
\* outstayed its lease (worker.py 131-185, service.py 222-248).
BookedOnce ==
    ~history.outstayed =>
        \A o \in Submitted : \A q, r \in Records(o) \ history.cut : q = r

\* The intent of an order that filled is pending until the order has a record and the
\* record a packet, wherever recoveries stop: on a full disk, a refused append, a lost
\* temporary file or the end of the process.  The exceptions are a run between the closed
\* intent and the packet, also one that stopped there, and a process that outstayed its
\* lease (worker.py 58-71 and 175-185, service.py 437-439).
RetiredHasPacket ==
    ~history.outstayed =>
        \A o \in filled \ history.lost :
            \/ Open(o)
            \/ \E r \in Records(o) : packets[r] # None
            \/ \E w \in Writers : run[w].pc \in {"append", "packet"} /\ Fill(w) = o

\* A record that says its account is the enrolled one has a packet that names the
\* preflight, also if a worker wrote it after a restart (service.py 40-66, 242-247;
\* worker.py 176-181).
VouchedByPreflight ==
    \A r \in 1 .. Len(ledger) : ledger[r].verified /\ packets[r] # None => packets[r] # 0

\* All packets name the one preflight that enrolled the account, unless two processes
\* found no enrollment at the same time (service.py 80-95).
OnePreflight ==
    ~history.overlap =>
        \A r \in RecordId : packets[r] \notin {None, 0} => packets[r] = enrollment
=============================================================================
