--------------------------- MODULE EvidenceProofs ---------------------------
(***************************************************************************)
(* Theorems of Evidence for any number of workers, operators, enrollment   *)
(* requests, process ids, records and orders.                              *)
(***************************************************************************)
EXTENDS Evidence, TLAPS

-----------------------------------------------------------------------------
(* Types.                                                                    *)

LEMMA Bounds ==
    /\ MaxRuns \in Nat /\ MaxOrders \in Nat
    /\ None \notin Writers /\ None \notin Enrollments /\ None \notin Int /\ None \notin Intent
    /\ 0 \notin Enrollments
BY WritersAssumption, EvidenceBoundsAssumption

LEMMA LedgerFacts ==
    ASSUME TypeOK
    PROVE  /\ Len(ledger) \in Nat /\ Len(ledger) <= MaxRuns
           /\ \A r \in 1 .. Len(ledger) : ledger[r] \in Record
           /\ 1 .. Len(ledger) \subseteq RecordId
BY Bounds DEF TypeOK, RecordId

\* Appending leaves the records that were there.
LEMMA AppendFacts ==
    ASSUME TypeOK, NEW w \in Writers, AppendRecord(w)
    PROVE  /\ ledger' \in Seq(Record) /\ Len(ledger') = Len(ledger) + 1 /\ Len(ledger') <= MaxRuns
           /\ \A r \in 1 .. Len(ledger) : ledger'[r] = ledger[r]
           /\ ledger'[Len(ledger')] = Entry(w)
<1>1. Entry(w) \in Record
  BY Bounds DEF TypeOK, Entry, Record, Fill, Local, Intent
<1>2. ledger' = Append(ledger, Entry(w)) /\ Len(ledger) < MaxRuns /\ ledger \in Seq(Record)
  BY DEF AppendRecord, TypeOK
<1> QED
  BY <1>1, <1>2, Bounds

\* The step of one process.
LEMMA UpdateFacts ==
    ASSUME TypeOK, NEW w \in Writers, NEW r, Update(w, r)
    PROVE  run'[w] = r /\ \A v \in Writers \ {w} : run'[v] = run[v]
BY DEF TypeOK, Update

LEMMA RunTyped ==
    ASSUME TypeOK, NEW w \in Writers, NEW r \in Local, Update(w, r),
           Len(ledger') \in Nat, Len(ledger) <= Len(ledger'),
           r.pc \in {"packet", "open", "flush", "replace", "retire"} => r.record \in 1 .. Len(ledger'),
           r.pc \in {"flush", "replace"} => r.file # None,
           r.pc = "order" => r.intent # None,
           r.recovers => /\ r.intent # None
                         /\ r.pc \in {"append", "packet", "open", "flush", "replace", "retire"}
    PROVE  run' \in [Writers -> Local] /\ \A v \in Writers : Equipped(run[v])'
<1>1. run' \in [Writers -> Local]
  BY DEF TypeOK, Update
<1>2. ASSUME NEW v \in Writers PROVE Equipped(run[v])'
  <2>1. CASE v = w
    BY <2>1, UpdateFacts DEF Equipped
  <2>2. CASE v # w
    <3>1. run'[v] = run[v] /\ Equipped(run[v]) /\ run[v] \in Local
      BY <2>2, UpdateFacts DEF TypeOK
    <3>2. 1 .. Len(ledger) \subseteq 1 .. Len(ledger')
      BY LedgerFacts
    <3> QED
      BY <3>1, <3>2 DEF Equipped
  <2> QED
    BY <2>1, <2>2
<1> QED
  BY <1>1, <1>2

LEMMA IdleTyped == Idle \in Local /\ Idle.pc = "idle" /\ ~Idle.recovers /\ Idle.intent = None
BY DEF Idle, Local, Place

\* A step to a place where a process needs nothing new.
LEMMA GotoTyped ==
    ASSUME TypeOK, NEW w \in Writers, NEW place \in Place, Goto(w, place), ledger' = ledger,
           place \in {"packet", "open", "flush", "replace", "retire"} => run[w].record \in 1 .. Len(ledger),
           place \in {"flush", "replace"} => run[w].file # None,
           place = "order" => run[w].intent # None,
           run[w].recovers => place \in {"append", "packet", "open", "flush", "replace", "retire"}
    PROVE  run' \in [Writers -> Local] /\ \A v \in Writers : Equipped(run[v])'
<1> DEFINE r == [run[w] EXCEPT !.pc = place]
<1>1. run[w] \in Local /\ Equipped(run[w])
  BY DEF TypeOK
<1>2. /\ r \in Local /\ r.pc = place /\ r.record = run[w].record /\ r.file = run[w].file
      /\ r.intent = run[w].intent /\ r.recovers = run[w].recovers
  BY <1>1 DEF Local
<1>3. Update(w, r)
  BY DEF Goto
<1> HIDE DEF r
<1> QED
  BY <1>1, <1>2, <1>3, LedgerFacts, RunTyped DEF Equipped

LEMMA LeaseTyped ==
    ASSUME TypeOK, NEW w \in Writers,
           \/ UNCHANGED leaseVars \/ Lease!Take(w) \/ Lease!Keep(w)
           \/ GivesBack(w) \/ Dies(w) \/ Lease!Lapse
    PROVE  holder' \in Writers \cup {None} /\ live' \in BOOLEAN /\ active' \subseteq Writers
<1>1. CASE UNCHANGED leaseVars \/ Lease!Lapse
  BY <1>1 DEF TypeOK, leaseVars, Lease!Lapse
<1>2. CASE Lease!Take(w) \/ Lease!Keep(w)
  <2>1. live' \in BOOLEAN
    BY <1>2, Zenon DEF Lease!Take, Lease!Keep
  <2> QED
    BY <1>2, <2>1 DEF TypeOK, Lease!Take, Lease!Keep
<1>3. CASE Lease!Leave(w)
  <2>1. live' \in BOOLEAN
    BY <1>3, Zenon DEF Lease!Leave
  <2> QED
    BY <1>3, <2>1 DEF TypeOK, Lease!Leave
<1>4. CASE Lease!Vanish(w)
  BY <1>4 DEF TypeOK, Lease!Vanish
<1> QED
  BY <1>1, <1>2, <1>3, <1>4 DEF GivesBack, Dies, NoLease

\* The rest of a state in which only the lease and the processes changed.
LEMMA QuietTyped ==
    ASSUME TypeOK, UNCHANGED <<storeVars, fileVars, enrollVars, history>>,
           holder' \in Writers \cup {None} /\ live' \in BOOLEAN /\ active' \subseteq Writers,
           run' \in [Writers -> Local] /\ \A v \in Writers : Equipped(run[v])'
    PROVE  TypeOK'
BY DEF TypeOK, storeVars, fileVars, enrollVars

LEMMA CycleTyped ==
    ASSUME TypeOK, NEW w \in Writers,
           \/ BeginLeased(w) \/ BeginView(w) \/ List(w) \/ Recover(w) \/ Unresolved(w)
           \/ GoOn(w) \/ Begin(w) \/ Snapshot(w) \/ NoOrder(w) \/ Unsettled(w) \/ Finish(w)
    PROVE  TypeOK'
<1> USE LedgerFacts
<1>0. run[w] \in Local /\ Equipped(run[w]) /\ pending \subseteq Intent
  BY DEF TypeOK
<1>1. CASE BeginLeased(w) \/ BeginView(w)
  <2>1. /\ holder' \in Writers \cup {None} /\ live' \in BOOLEAN /\ active' \subseteq Writers
    BY <1>1, LeaseTyped DEF BeginLeased, BeginView
  <2>2. run' \in [Writers -> Local] /\ \A v \in Writers : Equipped(run[v])'
    <3>1. /\ ~run[w].recovers /\ ledger' = ledger
          /\ Goto(w, "list") \/ Goto(w, "begin") \/ Goto(w, "snapshot")
      BY <1>0, <1>1 DEF BeginLeased, BeginView, storeVars, Equipped, At
    <3> QED
      BY <3>1, GotoTyped DEF Place
  <2> QED
    BY <1>1, <2>1, <2>2, QuietTyped DEF BeginLeased, BeginView
<1>2. CASE List(w)
  <2> DEFINE r == [run[w] EXCEPT !.pc = "recover", !.todo = pending, !.onward = TRUE]
  <2>1. /\ r \in Local /\ r.pc = "recover" /\ r.recovers = run[w].recovers
        /\ r.intent = run[w].intent
    BY <1>0 DEF Local, Place
  <2>2. Update(w, r) /\ ledger' = ledger /\ ~run[w].recovers
    BY <1>0, <1>2 DEF List, storeVars, Equipped, At
  <2> HIDE DEF r
  <2>3. run' \in [Writers -> Local] /\ \A v \in Writers : Equipped(run[v])'
    BY <1>0, <2>1, <2>2, RunTyped DEF Equipped
  <2> QED
    BY <1>2, <2>3, LeaseTyped, QuietTyped DEF List
<1>3. CASE Recover(w)
  <2>1. PICK i \in run[w].todo :
          Update(w, [run[w] EXCEPT !.pc = "append", !.todo = @ \ {i}, !.onward = FALSE,
                                   !.intent = i, !.recovers = TRUE, !.verified = i.verified])
    BY <1>3 DEF Recover
  <2> DEFINE r == [run[w] EXCEPT !.pc = "append", !.todo = @ \ {i}, !.onward = FALSE,
                                 !.intent = i, !.recovers = TRUE, !.verified = i.verified]
  <2>2. i \in Intent /\ i # None
    BY <1>0, Bounds DEF Local
  <2>3. r \in Local /\ r.pc = "append" /\ r.intent = i
    BY <1>0, <2>2 DEF Local, Place, Intent
  <2>4. Update(w, r) /\ ledger' = ledger
    BY <1>3, <2>1 DEF Recover, storeVars
  <2> HIDE DEF r
  <2>5. run' \in [Writers -> Local] /\ \A v \in Writers : Equipped(run[v])'
    BY <2>2, <2>3, <2>4, RunTyped
  <2> QED
    BY <1>3, <2>5, LeaseTyped, QuietTyped DEF Recover
<1>4. CASE Unresolved(w) \/ GoOn(w)
  <2>1. PICK place \in {"recover", "begin"}, todo \in SUBSET run[w].todo :
          Update(w, [run[w] EXCEPT !.pc = place, !.todo = todo, !.onward = FALSE])
    <3>1. CASE Unresolved(w)
      <4>1. PICK i \in run[w].todo : Update(w, [run[w] EXCEPT !.todo = @ \ {i}, !.onward = FALSE])
        BY <3>1 DEF Unresolved
      <4>2. [run[w] EXCEPT !.todo = @ \ {i}, !.onward = FALSE] =
              [run[w] EXCEPT !.pc = "recover", !.todo = run[w].todo \ {i}, !.onward = FALSE]
        BY <1>0, <3>1 DEF Unresolved, At, Local
      <4> WITNESS "recover" \in {"recover", "begin"}, run[w].todo \ {i} \in SUBSET run[w].todo
      <4> QED
        BY <4>1, <4>2
    <3>2. CASE GoOn(w)
      <4>1. [run[w] EXCEPT !.pc = "begin", !.onward = FALSE] =
              [run[w] EXCEPT !.pc = "begin", !.todo = run[w].todo, !.onward = FALSE]
        BY <1>0 DEF Local
      <4> WITNESS "begin" \in {"recover", "begin"}, run[w].todo \in SUBSET run[w].todo
      <4> QED
        BY <3>2, <4>1 DEF GoOn
    <3> QED
      BY <1>4, <3>1, <3>2
  <2> DEFINE r == [run[w] EXCEPT !.pc = place, !.todo = todo, !.onward = FALSE]
  <2>2. r \in Local /\ r.pc = place /\ r.intent = run[w].intent /\ r.recovers = run[w].recovers
    BY <1>0 DEF Local, Place
  <2>3. Update(w, r) /\ ledger' = ledger /\ ~run[w].recovers
    BY <1>0, <1>4, <2>1 DEF Unresolved, GoOn, storeVars, Equipped, At
  <2> HIDE DEF r
  <2>4. run' \in [Writers -> Local] /\ \A v \in Writers : Equipped(run[v])'
    BY <1>0, <2>2, <2>3, RunTyped DEF Equipped
  <2> QED
    BY <1>4, <2>4, LeaseTyped, QuietTyped DEF Unresolved, GoOn
<1>5. CASE Snapshot(w)
  <2> DEFINE r == [run[w] EXCEPT !.pc = IF w \in active THEN "act" ELSE "append",
                                 !.verified = enrollment # None]
  <2>1. r \in Local /\ r.pc \in {"act", "append"} /\ r.intent = run[w].intent
        /\ r.recovers = run[w].recovers
    BY <1>0 DEF Local, Place
  <2>2. Update(w, r) /\ ledger' = ledger /\ ~run[w].recovers
    BY <1>0, <1>5 DEF Snapshot, storeVars, Equipped, At
  <2> HIDE DEF r
  <2>3. run' \in [Writers -> Local] /\ \A v \in Writers : Equipped(run[v])'
    BY <1>0, <2>1, <2>2, RunTyped DEF Equipped
  <2> QED
    BY <1>5, <2>3, LeaseTyped, QuietTyped DEF Snapshot
<1>6. CASE NoOrder(w) \/ Begin(w)
  <2>1. /\ ~run[w].recovers /\ ledger' = ledger
        /\ Goto(w, "append") \/ Goto(w, "snapshot") \/ Goto(w, "end")
    BY <1>0, <1>6 DEF NoOrder, Begin, storeVars, Equipped, At
  <2> QED
    BY <1>6, <2>1, GotoTyped, LeaseTyped, QuietTyped DEF NoOrder, Begin, Place
<1>7. CASE Unsettled(w)
  <2> DEFINE r == [run[w] EXCEPT !.pc = "append", !.intent = None]
  <2>1. r \in Local /\ r.pc = "append" /\ r.intent = None /\ r.recovers = run[w].recovers
    BY <1>0 DEF Local, Place
  <2>2. Update(w, r) /\ ledger' = ledger /\ ~run[w].recovers
    BY <1>0, <1>7 DEF Unsettled, storeVars, Equipped, At
  <2> HIDE DEF r
  <2>3. run' \in [Writers -> Local] /\ \A v \in Writers : Equipped(run[v])'
    BY <1>0, <2>1, <2>2, RunTyped DEF Equipped
  <2> QED
    BY <1>7, <2>3, LeaseTyped, QuietTyped DEF Unsettled
<1>8. CASE Finish(w)
  <2>1. Update(w, Idle) /\ ledger' = ledger
    BY <1>8 DEF Finish, storeVars
  <2>2. run' \in [Writers -> Local] /\ \A v \in Writers : Equipped(run[v])'
    BY <2>1, IdleTyped, RunTyped
  <2> QED
    BY <1>8, <2>2, LeaseTyped, QuietTyped DEF Finish
<1> QED
  BY <1>1, <1>2, <1>3, <1>4, <1>5, <1>6, <1>7, <1>8

LEMMA StoreTyped ==
    ASSUME TypeOK, NEW w \in Writers,
           \/ RecoverDead(w) \/ Submit(w) \/ Settled(w) \/ SettledDead(w)
           \/ AppendRecord(w) \/ WritePacket(w) \/ Retire(w)
    PROVE  TypeOK'
<1> USE LedgerFacts
<1>0. run[w] \in Local /\ Equipped(run[w]) /\ pending \subseteq Intent
  BY DEF TypeOK
<1>1. CASE Submit(w)
  <2> DEFINE i == [order |-> orders + 1, verified |-> enrollment # None]
             r == [run[w] EXCEPT !.pc = "order", !.intent = i]
  <2>1. orders' = orders + 1 /\ orders + 1 \in Order
    BY <1>1, Bounds DEF Submit, TypeOK, Order
  <2>2. i \in Intent /\ i # None
    <3>1. (enrollment # None) \in BOOLEAN
      OBVIOUS
    <3>2. i \in Intent
      BY <2>1, <3>1 DEF Intent
    <3> QED
      BY <3>2, Bounds
  <2> HIDE DEF i
  <2>3. ~run[w].recovers
    BY <1>0, <1>1 DEF Submit, Equipped, At
  <2>4. r \in Local /\ r.pc = "order" /\ r.intent = i /\ r.recovers = run[w].recovers
    BY <1>0, <2>2 DEF Local, Place
  <2>5. Update(w, r) /\ pending' = pending \cup {i}
    BY <1>1 DEF Submit, i
  <2>6. ledger' = ledger
    BY <1>1 DEF Submit
  <2> HIDE DEF r
  <2>7. run' \in [Writers -> Local] /\ \A v \in Writers : Equipped(run[v])'
    BY <2>2, <2>3, <2>4, <2>5, <2>6, RunTyped
  <2>8. /\ holder' \in Writers \cup {None} /\ live' \in BOOLEAN /\ active' \subseteq Writers
    BY <1>1, LeaseTyped DEF Submit
  <2>9. pending' \subseteq Intent /\ filled' \subseteq 1 .. orders'
    <3>1. filled \subseteq 1 .. orders /\ orders \in Nat
      BY DEF TypeOK, Order
    <3>2. filled' \subseteq filled \cup {orders + 1}
      BY <1>1 DEF Submit
    <3> QED
      BY <1>0, <2>1, <2>2, <2>5, <3>1, <3>2
  <2> QED
    BY <1>1, <2>1, <2>6, <2>7, <2>8, <2>9 DEF Submit, TypeOK, fileVars, enrollVars
<1>2. CASE Settled(w)
  <2>1. ~run[w].recovers /\ ledger' = ledger /\ Goto(w, "append")
    BY <1>0, <1>2 DEF Settled, Equipped, At
  <2>2. run' \in [Writers -> Local] /\ \A v \in Writers : Equipped(run[v])'
    BY <2>1, GotoTyped DEF Place
  <2> QED
    BY <1>2, <2>2 DEF Settled, TypeOK, leaseVars, fileVars, enrollVars
<1>3. CASE AppendRecord(w)
  <2> DEFINE n == Len(ledger) + 1
             r == [run[w] EXCEPT !.pc = "packet", !.record = n, !.verified = FALSE]
  <2>1. /\ ledger' \in Seq(Record) /\ Len(ledger') = n /\ n <= MaxRuns
    BY <1>3, AppendFacts
  <2>2. n \in RecordId /\ n \in 1 .. Len(ledger') /\ Len(ledger) <= Len(ledger')
    BY <2>1, Bounds DEF RecordId
  <2> HIDE DEF n
  <2>3. /\ r \in Local /\ r.pc = "packet" /\ r.record = n
        /\ r.intent = run[w].intent /\ r.recovers = run[w].recovers
    BY <1>0, <2>2 DEF Local, Place
  <2>4. Update(w, r)
    BY <1>3 DEF AppendRecord, n
  <2> HIDE DEF r
  <2>5. run' \in [Writers -> Local] /\ \A v \in Writers : Equipped(run[v])'
    BY <1>0, <2>1, <2>2, <2>3, <2>4, RunTyped DEF Equipped
  <2> QED
    BY <1>3, <2>1, <2>5 DEF AppendRecord, TypeOK, leaseVars, fileVars, enrollVars, n
<1>4. CASE WritePacket(w)
  <2>1. ledger' = ledger /\ Goto(w, "open") /\ run[w].record \in 1 .. Len(ledger)
    BY <1>0, <1>4 DEF WritePacket, Equipped, At
  <2>2. run' \in [Writers -> Local] /\ \A v \in Writers : Equipped(run[v])'
    BY <2>1, GotoTyped DEF Place
  <2>3. packets' \in [RecordId -> Enrollments \cup {0, None}]
    <3>1. Named \in Enrollments \cup {0, None}
      BY DEF Named, TypeOK
    <3>2. packets' = [packets EXCEPT ![run[w].record] = IF @ = None THEN Named ELSE @]
      BY <1>4 DEF WritePacket
    <3> QED
      BY <2>1, <3>1, <3>2 DEF TypeOK
  <2> QED
    BY <1>4, <2>2, <2>3 DEF WritePacket, TypeOK, leaseVars, fileVars, enrollVars
<1>5. CASE Retire(w)
  <2> DEFINE r == [Idle EXCEPT !.pc = "recover", !.todo = run[w].todo]
  <2>1. r \in Local /\ r.pc = "recover" /\ ~r.recovers
    BY <1>0 DEF Local, Place, Idle
  <2>2. Update(w, r) /\ ledger' = ledger
    BY <1>5 DEF Retire
  <2> HIDE DEF r
  <2>3. run' \in [Writers -> Local] /\ \A v \in Writers : Equipped(run[v])'
    BY <2>1, <2>2, RunTyped
  <2> QED
    BY <1>5, <2>3 DEF Retire, TypeOK, leaseVars, fileVars, enrollVars
<1>6. CASE SettledDead(w)
  <2> DEFINE r == [run[w] EXCEPT !.pc = "append", !.intent = None]
  <2>1. r \in Local /\ r.pc = "append" /\ r.intent = None /\ r.recovers = run[w].recovers
    BY <1>0 DEF Local, Place
  <2>2. Update(w, r) /\ ledger' = ledger /\ ~run[w].recovers
    BY <1>0, <1>6 DEF SettledDead, Equipped, At
  <2> HIDE DEF r
  <2>3. run' \in [Writers -> Local] /\ \A v \in Writers : Equipped(run[v])'
    BY <1>0, <2>1, <2>2, RunTyped DEF Equipped
  <2> QED
    BY <1>6, <2>3 DEF SettledDead, TypeOK, leaseVars, fileVars, enrollVars
<1>7. CASE RecoverDead(w)
  <2>1. PICK i \in run[w].todo :
          Update(w, [run[w] EXCEPT !.todo = @ \ {i}]) /\ pending' = pending \ {i}
    BY <1>7 DEF RecoverDead
  <2> DEFINE r == [run[w] EXCEPT !.todo = @ \ {i}]
  <2>2. /\ r \in Local /\ r.pc = run[w].pc /\ r.intent = run[w].intent
        /\ r.recovers = run[w].recovers
    BY <1>0 DEF Local
  <2>3. Update(w, r) /\ ledger' = ledger /\ ~run[w].recovers /\ run[w].pc = "recover"
    BY <1>0, <1>7, <2>1 DEF RecoverDead, Equipped, At
  <2> HIDE DEF r
  <2>4. run' \in [Writers -> Local] /\ \A v \in Writers : Equipped(run[v])'
    BY <1>0, <2>2, <2>3, RunTyped DEF Equipped
  <2> QED
    BY <1>7, <2>1, <2>4 DEF RecoverDead, TypeOK, leaseVars, fileVars, enrollVars
<1> QED
  BY <1>1, <1>2, <1>3, <1>4, <1>5, <1>6, <1>7

LEMMA FileTyped ==
    ASSUME TypeOK, NEW w \in Writers, OpenTemp(w) \/ Flush(w) \/ Replace(w)
    PROVE  TypeOK'
<1> USE LedgerFacts
<1>0. /\ run[w] \in Local /\ Equipped(run[w]) /\ pid[w] \in Pids
      /\ temp \in [Pids -> RecordId \cup {None}]
      /\ content \in [RecordId -> RecordId \cup {Empty, Torn}]
  BY DEF TypeOK
<1>1. CASE OpenTemp(w)
  <2> DEFINE file == IF temp[TempName(w)] = None THEN run[w].record ELSE temp[TempName(w)]
             r == [run[w] EXCEPT !.pc = "flush", !.file = file]
  <2>1. run[w].record \in 1 .. Len(ledger) /\ ledger' = ledger /\ ~At(w, "idle")
    BY <1>0, <1>1 DEF OpenTemp, storeVars, Equipped, At
  <2>2. file \in RecordId /\ file # None
    <3>1. file \in RecordId
      BY <1>0, <2>1 DEF TempName
    <3>2. None \notin RecordId
      BY Bounds DEF RecordId
    <3> QED
      BY <3>1, <3>2
  <2>3. /\ temp' = [temp EXCEPT ![pid[w]] = file] /\ content' = [content EXCEPT ![file] = Empty]
        /\ Update(w, r)
    BY <1>1 DEF OpenTemp, TempName
  <2> HIDE DEF file
  <2>4. /\ r \in Local /\ r.pc = "flush" /\ r.file = file /\ r.record = run[w].record
        /\ r.intent = run[w].intent /\ r.recovers = run[w].recovers
    BY <1>0, <2>2 DEF Local, Place
  <2> HIDE DEF r
  <2>5. run' \in [Writers -> Local] /\ \A v \in Writers : Equipped(run[v])'
    BY <1>0, <2>1, <2>2, <2>3, <2>4, RunTyped DEF Equipped
  <2>6. temp' \in [Pids -> RecordId \cup {None}] /\ content' \in [RecordId -> RecordId \cup {Empty, Torn}]
    BY <1>0, <2>2, <2>3
  <2>7. history' \in History
    <3>1. (history.shared \/ \E v \in Writers \ {w} : pid[v] = pid[w] /\ Publishing(v)) \in BOOLEAN
      BY Zenon
    <3>2. history' = [history EXCEPT !.shared = history.shared \/ \E v \in Writers \ {w} :
                                                    pid[v] = pid[w] /\ Publishing(v)]
      BY <1>1 DEF OpenTemp
    <3> DEFINE b == history.shared \/ \E v \in Writers \ {w} : pid[v] = pid[w] /\ Publishing(v)
    <3> HIDE DEF b
    <3> QED
      BY <3>1, <3>2 DEF TypeOK, History, b
  <2> QED
    BY <1>1, <2>5, <2>6, <2>7 DEF OpenTemp, TypeOK, leaseVars, storeVars, enrollVars
<1>2. CASE Flush(w)
  <2>1. /\ run[w].record \in 1 .. Len(ledger) /\ run[w].file \in RecordId
        /\ ledger' = ledger /\ run[w].file # None /\ Goto(w, "replace")
    BY <1>0, <1>2 DEF Flush, storeVars, Equipped, At, Local
  <2>2. run' \in [Writers -> Local] /\ \A v \in Writers : Equipped(run[v])'
    BY <2>1, GotoTyped DEF Place
  <2>3. content' \in [RecordId -> RecordId \cup {Empty, Torn}]
    BY <1>0, <1>2, <2>1 DEF Flush
  <2> QED
    BY <1>2, <2>2, <2>3 DEF Flush, TypeOK, leaseVars, storeVars, enrollVars
<1>3. CASE Replace(w)
  <2> DEFINE r == [run[w] EXCEPT !.pc = IF run[w].recovers THEN "retire" ELSE "end",
                                 !.record = IF run[w].recovers THEN @ ELSE 0, !.file = None]
  <2>1. /\ r \in Local /\ r.pc \in {"retire", "end"} /\ (run[w].recovers <=> r.pc = "retire")
        /\ r.pc = "retire" => r.record = run[w].record
        /\ r.intent = run[w].intent /\ r.recovers = run[w].recovers
    BY <1>0 DEF Local, Place
  <2>2. Update(w, r) /\ ledger' = ledger /\ run[w].record \in 1 .. Len(ledger)
    BY <1>0, <1>3 DEF Replace, storeVars, Equipped, At
  <2> HIDE DEF r
  <2>3. run' \in [Writers -> Local] /\ \A v \in Writers : Equipped(run[v])'
    BY <1>0, <2>1, <2>2, RunTyped DEF Equipped
  <2>4. latest' \in RecordId \cup {None} /\ temp' \in [Pids -> RecordId \cup {None}]
    BY <1>0, <1>3 DEF Replace, TempName
  <2> QED
    BY <1>3, <2>3, <2>4 DEF Replace, TypeOK, leaseVars, storeVars, enrollVars
<1> QED
  BY <1>1, <1>2, <1>3

LEMMA OtherTyped ==
    ASSUME TypeOK,
           \/ \E w \in Writers : Stop(w)
           \/ Lapse
           \/ \E e \in Enrollments :
                PreflightPassed(e) \/ ReadEnrollment(e) \/ Bind(e) \/ EnrollFails(e)
           \/ UNCHANGED vars
    PROVE  TypeOK'
<1>1. ASSUME NEW w \in Writers, Stop(w) PROVE TypeOK'
  <2>1. Update(w, Idle) /\ ledger' = ledger
    BY <1>1 DEF Stop, storeVars
  <2>2. run' \in [Writers -> Local] /\ \A v \in Writers : Equipped(run[v])'
    BY <2>1, IdleTyped, RunTyped, LedgerFacts
  <2>3. /\ holder' \in Writers \cup {None} /\ live' \in BOOLEAN /\ active' \subseteq Writers
    BY <1>1, LeaseTyped DEF Stop
  <2>4. Unretired(w) \subseteq RecordId /\ Unshown(w) \subseteq Order
    BY DEF TypeOK, Unretired, Unshown, Fill, Local, Intent
  <2>5. history' \in History
    BY <1>1, <2>4 DEF Stop, TypeOK, History
  <2> QED
    BY <1>1, <2>2, <2>3, <2>5 DEF Stop, TypeOK, storeVars, fileVars, enrollVars
<1>2. CASE Lapse
  <2>1. /\ holder' \in Writers \cup {None} /\ live' \in BOOLEAN /\ active' \subseteq Writers
    BY <1>2 DEF Lapse, TypeOK, Lease!Lapse
  <2>2. history' \in History
    <3> DEFINE b == history.outstayed \/ holder \in active
    <3>1. b \in BOOLEAN
      BY Zenon
    <3>2. history' = [history EXCEPT !.outstayed = b]
      BY <1>2 DEF Lapse
    <3> HIDE DEF b
    <3> QED
      BY <3>1, <3>2 DEF TypeOK, History
  <2>3. UNCHANGED <<storeVars, fileVars, enrollVars, run>>
    BY <1>2 DEF Lapse
  <2> QED
    BY <2>1, <2>2, <2>3 DEF TypeOK, Equipped, storeVars, fileVars, enrollVars
<1>3. ASSUME NEW e \in Enrollments, PreflightPassed(e) \/ Bind(e) \/ EnrollFails(e) PROVE TypeOK'
  <2>1. enroll' \in [Enrollments -> {"new", "checked", "absent", "over"}]
    BY <1>3 DEF PreflightPassed, Bind, EnrollFails, EnrollTo, TypeOK
  <2>2. UNCHANGED <<leaseVars, storeVars, fileVars, run, history>>
    BY <1>3 DEF PreflightPassed, Bind, EnrollFails
  <2>3. enrollment' \in Enrollments \cup {None}
    BY <1>3 DEF PreflightPassed, Bind, EnrollFails, TypeOK
  <2> QED
    BY <2>1, <2>2, <2>3 DEF TypeOK, Equipped, leaseVars, storeVars, fileVars
<1>4. ASSUME NEW e \in Enrollments, ReadEnrollment(e) PROVE TypeOK'
  <2>1. history' \in History
    <3> DEFINE b == history.overlap \/ (enrollment = None /\ \E d \in Enrollments : enroll[d] = "absent")
    <3>1. b \in BOOLEAN
      BY Zenon
    <3>2. history' = [history EXCEPT !.overlap = b]
      BY <1>4 DEF ReadEnrollment
    <3> HIDE DEF b
    <3> QED
      BY <3>1, <3>2 DEF TypeOK, History
  <2>2. enroll' \in [Enrollments -> {"new", "checked", "absent", "over"}]
    BY <1>4 DEF ReadEnrollment, EnrollTo, TypeOK
  <2>3. UNCHANGED <<leaseVars, storeVars, fileVars, enrollment, run>>
    BY <1>4 DEF ReadEnrollment
  <2> QED
    BY <2>1, <2>2, <2>3 DEF TypeOK, Equipped, leaseVars, storeVars, fileVars
<1>5. CASE UNCHANGED vars
  BY <1>5 DEF vars, TypeOK, Equipped, leaseVars, storeVars, fileVars, enrollVars
<1> QED
  BY <1>1, <1>2, <1>3, <1>4, <1>5

LEMMA InitTyped == Init => TypeOK
<1> SUFFICES ASSUME Init PROVE TypeOK
  OBVIOUS
<1>1. \A w \in Writers : Equipped(run[w])
  BY IdleTyped DEF Init, Equipped, Idle
<1>2. live \in BOOLEAN
  BY Zenon DEF Init
<1> QED
  BY <1>1, <1>2, IdleTyped, Bounds DEF Init, TypeOK, History, RecordId, Order, Empty

LEMMA NextTyped == TypeOK /\ [Next]_vars => TypeOK'
BY CycleTyped, StoreTyped, FileTyped, OtherTyped DEF Next

\* Every variable keeps its type; a process at work on a packet has its record, and one
\* that writes to the temporary file has it open.
THEOREM EvidenceTypeCorrect == Spec => []TypeOK
BY InitTyped, NextTyped, PTL DEF Spec

-----------------------------------------------------------------------------
(* The preflight that packets name.                                          *)

\* Unless two processes found no enrollment, at most one is about to write it, none
\* once it is written, and packets name it.
PreflightInv ==
    ~history.overlap =>
        /\ \A d, e \in Enrollments : enroll[d] = "absent" /\ enroll[e] = "absent" => d = e
        /\ enrollment # None => \A e \in Enrollments : enroll[e] # "absent"
        /\ \A r \in RecordId : packets[r] \notin {None, 0} => packets[r] = enrollment

LEMMA PreflightStep == TypeOK /\ PreflightInv /\ [Next]_vars => PreflightInv'
<1> SUFFICES ASSUME TypeOK, PreflightInv, [Next]_vars PROVE PreflightInv'
  OBVIOUS
<1>1. ASSUME NEW w \in Writers, WritePacket(w) PROVE PreflightInv'
  <2>1. packets \in [RecordId -> Enrollments \cup {0, None}] /\ run[w].record \in RecordId
    BY <1>1, LedgerFacts DEF WritePacket, At, TypeOK, Equipped
  <2>2. \A r \in RecordId : packets'[r] \in {packets[r], Named}
    BY <1>1, <2>1 DEF WritePacket
  <2>3. UNCHANGED <<history, enroll, enrollment>>
    BY <1>1 DEF WritePacket, enrollVars
  <2> QED
    BY <2>2, <2>3 DEF PreflightInv, Named
<1>2. ASSUME NEW e \in Enrollments, ReadEnrollment(e) PROVE PreflightInv'
  <2> SUFFICES ASSUME ~history'.overlap PROVE PreflightInv'
    BY DEF PreflightInv
  <2>1. /\ ~history.overlap
        /\ enrollment # None \/ \A d \in Enrollments : enroll[d] # "absent"
    <3> DEFINE b == history.overlap \/ (enrollment = None /\ \E d \in Enrollments : enroll[d] = "absent")
    <3>1. history' = [history EXCEPT !.overlap = b]
      BY <1>2 DEF ReadEnrollment
    <3>2. history \in History
      BY DEF TypeOK
    <3> HIDE DEF b
    <3>3. history'.overlap = b
      BY <3>1, <3>2 DEF History
    <3> QED
      BY <3>3, Zenon DEF b
  <2>2. /\ enroll' = [enroll EXCEPT ![e] = IF enrollment = None THEN "absent" ELSE "over"]
        /\ enroll \in [Enrollments -> {"new", "checked", "absent", "over"}]
        /\ UNCHANGED <<packets, enrollment>>
    BY <1>2 DEF ReadEnrollment, EnrollTo, TypeOK, storeVars
  <2>3. /\ enroll'[e] = (IF enrollment = None THEN "absent" ELSE "over")
        /\ \A d \in Enrollments \ {e} : enroll'[d] = enroll[d]
    BY <2>2
  <2> QED
    BY <2>1, <2>2, <2>3 DEF PreflightInv
<1>3. ASSUME NEW e \in Enrollments, Bind(e) PROVE PreflightInv'
  <2>1. /\ enroll' = [enroll EXCEPT ![e] = "over"] /\ enroll[e] = "absent"
        /\ enroll \in [Enrollments -> {"new", "checked", "absent", "over"}]
        /\ UNCHANGED <<packets, history>> /\ enrollment' = e
    BY <1>3 DEF Bind, EnrollTo, TypeOK, storeVars
  <2>2. \A d \in Enrollments : enroll'[d] = IF d = e THEN "over" ELSE enroll[d]
    BY <2>1
  <2> QED
    BY <2>1, <2>2 DEF PreflightInv
<1>4. ASSUME NEW e \in Enrollments, PreflightPassed(e) \/ EnrollFails(e) PROVE PreflightInv'
  <2>1. /\ \A d \in Enrollments : enroll'[d] = "absent" => enroll[d] = "absent"
        /\ UNCHANGED <<packets, history, enrollment>>
    BY <1>4 DEF PreflightPassed, EnrollFails, EnrollTo, TypeOK, storeVars
  <2> QED
    BY <2>1 DEF PreflightInv
<1>5. ASSUME UNCHANGED <<packets, enrollVars>>, history'.overlap = history.overlap
      PROVE  PreflightInv'
  BY <1>5 DEF PreflightInv, enrollVars
<1>6. ASSUME NEW w \in Writers, OpenTemp(w) \/ Stop(w) PROVE history'.overlap = history.overlap
  <2>1. \E b, c : \/ history' = [history EXCEPT !.shared = b]
                  \/ history' = [history EXCEPT !.cut = b, !.lost = c]
    BY <1>6, Zenon DEF OpenTemp, Stop
  <2> QED
    BY <2>1 DEF TypeOK, History
<1>7. Lapse => history'.overlap = history.overlap
  <2> SUFFICES ASSUME Lapse PROVE history'.overlap = history.overlap
    OBVIOUS
  <2>1. \E b : history' = [history EXCEPT !.outstayed = b]
    BY Zenon DEF Lapse
  <2> QED
    BY <2>1 DEF TypeOK, History
<1>8. CASE \E w \in Writers :
             \/ BeginLeased(w) \/ BeginView(w) \/ List(w) \/ Recover(w) \/ RecoverDead(w)
             \/ Unresolved(w) \/ GoOn(w) \/ Begin(w) \/ Snapshot(w) \/ NoOrder(w)
             \/ Submit(w) \/ Settled(w) \/ SettledDead(w) \/ Unsettled(w)
             \/ AppendRecord(w) \/ Flush(w) \/ Replace(w) \/ Retire(w) \/ Finish(w)
  BY <1>5, <1>8 DEF BeginLeased, BeginView, List, Recover, RecoverDead, Unresolved, GoOn,
       Begin, Snapshot, NoOrder, Submit, Settled, SettledDead, Unsettled, AppendRecord, Flush, Replace, Retire, Finish, storeVars
<1>9. CASE (\E w \in Writers : OpenTemp(w) \/ Stop(w)) \/ Lapse
  BY <1>5, <1>6, <1>7, <1>9 DEF OpenTemp, Stop, Lapse, storeVars
<1>10. CASE UNCHANGED vars
  BY <1>5, <1>10 DEF vars, storeVars
<1> QED
  BY <1>1, <1>2, <1>3, <1>4, <1>8, <1>9, <1>10 DEF Next

\* Packets name one preflight unless two processes found no enrollment at the same time.
THEOREM OnePreflightHolds == Spec => []OnePreflight
<1>1. Init => PreflightInv
  BY DEF Init, PreflightInv
<1>2. PreflightInv => OnePreflight
  BY DEF PreflightInv, OnePreflight
<1> QED
  BY <1>1, <1>2, PreflightStep, EvidenceTypeCorrect, PTL DEF Spec

-----------------------------------------------------------------------------
(* What a record says of the account.                                        *)

\* A process without an enrollment to vouch for.
Unvouched(r) ==
    /\ ~r.verified
    /\ r.intent # None => ~r.intent.verified
    /\ \A i \in r.todo : ~i.verified

\* Until the account is enrolled nothing says that it is.
NothingVouched ==
    enrollment = None =>
        /\ \A i \in pending : ~i.verified
        /\ \A w \in Writers : Unvouched(run[w])
        /\ \A r \in 1 .. Len(ledger) : ~ledger[r].verified

\* A packet is of a record.
PacketsFollow == \A r \in RecordId : packets[r] # None => r <= Len(ledger)

VouchedInv == NothingVouched /\ PacketsFollow /\ VouchedByPreflight

\* A step that writes no record and no packet.
LEMMA VouchedStep ==
    ASSUME TypeOK, VouchedInv, NEW w \in Writers, NEW r, Update(w, r),
           UNCHANGED <<ledger, packets, enrollment>>,
           enrollment = None => Unvouched(r) /\ \A i \in pending' : ~i.verified
    PROVE  VouchedInv'
<1>1. run'[w] = r /\ \A v \in Writers \ {w} : run'[v] = run[v]
  BY UpdateFacts
<1>2. NothingVouched'
  <2> SUFFICES ASSUME enrollment = None
               PROVE  \A v \in Writers : Unvouched(run'[v])
    BY DEF NothingVouched, VouchedInv, Unvouched
  <2> QED
    BY <1>1 DEF NothingVouched, VouchedInv
<1> QED
  BY <1>2 DEF VouchedInv, PacketsFollow, VouchedByPreflight

LEMMA VouchedNext == TypeOK /\ VouchedInv /\ [Next]_vars => VouchedInv'
<1> SUFFICES ASSUME TypeOK, VouchedInv, [Next]_vars PROVE VouchedInv'
  OBVIOUS
<1> USE LedgerFacts
<1>0. ASSUME NEW w \in Writers
      PROVE  /\ run[w] \in Local /\ pending \subseteq Intent
             /\ enrollment = None => Unvouched(run[w])
  BY DEF TypeOK, VouchedInv, NothingVouched
<1>1. ASSUME NEW w \in Writers, NEW place, Goto(w, place), pending' \subseteq pending,
             UNCHANGED <<ledger, packets, enrollment>>
      PROVE  VouchedInv'
  <2> DEFINE r == [run[w] EXCEPT !.pc = place]
  <2>1. r.verified = run[w].verified /\ r.intent = run[w].intent /\ r.todo = run[w].todo
    BY <1>0 DEF Local
  <2>2. Update(w, r)
    BY <1>1 DEF Goto
  <2> HIDE DEF r
  <2> QED
    BY <1>0, <1>1, <2>1, <2>2, VouchedStep DEF Unvouched, VouchedInv, NothingVouched
<1>2. ASSUME NEW w \in Writers,
             \/ BeginLeased(w) \/ BeginView(w) \/ Begin(w) \/ NoOrder(w) \/ Settled(w) \/ Flush(w)
      PROVE  VouchedInv'
  BY <1>1, <1>2 DEF BeginLeased, BeginView, Begin, NoOrder, Settled, Flush, storeVars, enrollVars
<1>3. ASSUME NEW w \in Writers, List(w) PROVE VouchedInv'
  <2> DEFINE r == [run[w] EXCEPT !.pc = "recover", !.todo = pending, !.onward = TRUE]
  <2>1. UNCHANGED <<ledger, packets, enrollment, pending>> /\ Update(w, r)
    BY <1>3 DEF List, storeVars, enrollVars
  <2>2. r.verified = run[w].verified /\ r.intent = run[w].intent /\ r.todo = pending
    BY <1>0 DEF Local
  <2> HIDE DEF r
  <2>3. enrollment = None => Unvouched(r) /\ \A i \in pending' : ~i.verified
    BY <1>0, <2>1, <2>2 DEF Unvouched, VouchedInv, NothingVouched
  <2> QED
    BY <2>1, <2>3, VouchedStep
<1>4. ASSUME NEW w \in Writers, Recover(w) \/ RecoverDead(w) \/ Unresolved(w) \/ GoOn(w)
      PROVE  VouchedInv'
  <2>1. UNCHANGED <<ledger, packets, enrollment>> /\ pending' \subseteq pending
    BY <1>4 DEF Recover, RecoverDead, Unresolved, GoOn, storeVars, enrollVars
  <2>2. \/ \E i \in run[w].todo :
             Update(w, [run[w] EXCEPT !.pc = "append", !.todo = @ \ {i}, !.onward = FALSE,
                             !.intent = i, !.recovers = TRUE, !.verified = i.verified])
        \/ \E i \in run[w].todo :
             \/ Update(w, [run[w] EXCEPT !.todo = @ \ {i}])
             \/ Update(w, [run[w] EXCEPT !.todo = @ \ {i}, !.onward = FALSE])
        \/ Update(w, [run[w] EXCEPT !.pc = "begin", !.onward = FALSE])
    BY <1>4, Zenon DEF Recover, RecoverDead, Unresolved, GoOn
  <2>3. PICK r : /\ Update(w, r) /\ r.todo \subseteq run[w].todo
                 /\ \/ r.verified = run[w].verified /\ r.intent = run[w].intent
                    \/ \E i \in run[w].todo : r.verified = i.verified /\ r.intent = i
    <3>1. CASE \E i \in run[w].todo :
                 Update(w, [run[w] EXCEPT !.pc = "append", !.todo = @ \ {i}, !.onward = FALSE,
                                 !.intent = i, !.recovers = TRUE, !.verified = i.verified])
      <4>1. PICK i \in run[w].todo :
              Update(w, [run[w] EXCEPT !.pc = "append", !.todo = @ \ {i}, !.onward = FALSE,
                              !.intent = i, !.recovers = TRUE, !.verified = i.verified])
        BY <3>1
      <4> DEFINE q == [run[w] EXCEPT !.pc = "append", !.todo = @ \ {i}, !.onward = FALSE,
                             !.intent = i, !.recovers = TRUE, !.verified = i.verified]
      <4>2. q.verified = i.verified /\ q.intent = i /\ q.todo = run[w].todo \ {i}
        BY <1>0 DEF Local
      <4> HIDE DEF q
      <4> QED
        BY <4>1, <4>2 DEF q
    <3>2. ASSUME NEW q, Update(w, q), q.todo \subseteq run[w].todo,
                 q.verified = run[w].verified, q.intent = run[w].intent
          PROVE  \E r : /\ Update(w, r) /\ r.todo \subseteq run[w].todo
                        /\ r.verified = run[w].verified /\ r.intent = run[w].intent
      BY <3>2
    <3>3. CASE \E i \in run[w].todo : Update(w, [run[w] EXCEPT !.todo = @ \ {i}])
      BY <1>0, <3>2, <3>3 DEF Local
    <3>4. CASE \E i \in run[w].todo : Update(w, [run[w] EXCEPT !.todo = @ \ {i}, !.onward = FALSE])
      BY <1>0, <3>2, <3>4 DEF Local
    <3>5. CASE Update(w, [run[w] EXCEPT !.pc = "begin", !.onward = FALSE])
      BY <1>0, <3>2, <3>5 DEF Local
    <3> QED
      BY <2>2, <3>1, <3>3, <3>4, <3>5
  <2>4. enrollment = None => Unvouched(r) /\ \A j \in pending' : ~j.verified
    BY <1>0, <2>1, <2>3 DEF Unvouched, VouchedInv, NothingVouched
  <2> QED
    BY <2>1, <2>3, <2>4, VouchedStep
<1>5. ASSUME NEW w \in Writers, Snapshot(w) PROVE VouchedInv'
  <2> DEFINE place == IF w \in active THEN "act" ELSE "append"
             r == [run[w] EXCEPT !.pc = place, !.verified = enrollment # None]
  <2>1. UNCHANGED <<ledger, packets, enrollment, pending>> /\ Update(w, r)
    BY <1>5 DEF Snapshot, storeVars, enrollVars
  <2> HIDE DEF place
  <2>2. r.verified = (enrollment # None) /\ r.intent = run[w].intent /\ r.todo = run[w].todo
    BY <1>0 DEF Local
  <2> HIDE DEF r
  <2>3. enrollment = None => Unvouched(r) /\ \A j \in pending' : ~j.verified
    BY <1>0, <2>1, <2>2 DEF Unvouched, VouchedInv, NothingVouched
  <2> QED
    BY <2>1, <2>3, VouchedStep
<1>6. ASSUME NEW w \in Writers, Submit(w) PROVE VouchedInv'
  <2> DEFINE i == [order |-> orders + 1, verified |-> enrollment # None]
             r == [run[w] EXCEPT !.pc = "order", !.intent = i]
  <2>1. UNCHANGED <<ledger, packets, enrollment>> /\ Update(w, r) /\ pending' = pending \cup {i}
    BY <1>6 DEF Submit, enrollVars
  <2>2. i.verified = (enrollment # None)
    OBVIOUS
  <2> HIDE DEF i
  <2>3. r.verified = run[w].verified /\ r.intent = i /\ r.todo = run[w].todo
    BY <1>0 DEF Local
  <2> HIDE DEF r
  <2>4. enrollment = None => Unvouched(r) /\ \A j \in pending' : ~j.verified
    BY <1>0, <2>1, <2>2, <2>3 DEF Unvouched, VouchedInv, NothingVouched
  <2> QED
    BY <2>1, <2>4, VouchedStep
<1>7. ASSUME NEW w \in Writers, SettledDead(w) \/ Unsettled(w) PROVE VouchedInv'
  <2> DEFINE r == [run[w] EXCEPT !.pc = "append", !.intent = None]
  <2>1. /\ UNCHANGED <<ledger, packets, enrollment>> /\ Update(w, r)
        /\ pending' \subseteq pending
    BY <1>7 DEF SettledDead, Unsettled, storeVars, enrollVars
  <2>2. r.verified = run[w].verified /\ r.intent = None /\ r.todo = run[w].todo
    BY <1>0 DEF Local
  <2> HIDE DEF r
  <2>3. enrollment = None => Unvouched(r) /\ \A j \in pending' : ~j.verified
    BY <1>0, <2>1, <2>2 DEF Unvouched, VouchedInv, NothingVouched
  <2> QED
    BY <2>1, <2>3, VouchedStep
<1>8. ASSUME NEW w \in Writers, AppendRecord(w) PROVE VouchedInv'
  <2> DEFINE n == Len(ledger) + 1
             r == [run[w] EXCEPT !.pc = "packet", !.record = n, !.verified = FALSE]
  <2>1. UNCHANGED <<packets, enrollment, pending>> /\ Update(w, r)
    BY <1>8 DEF AppendRecord, enrollVars
  <2>2. /\ Len(ledger') = n /\ n \in Nat /\ \A k \in 1 .. Len(ledger) : ledger'[k] = ledger[k]
        /\ ledger'[n].verified = run[w].verified
    <3>1. /\ Len(ledger') = n /\ \A k \in 1 .. Len(ledger) : ledger'[k] = ledger[k]
          /\ ledger'[Len(ledger')] = Entry(w)
      BY <1>8, AppendFacts
    <3>2. ledger'[n] = Entry(w)
      BY <3>1
    <3> QED
      BY <3>1, <3>2 DEF Entry
  <2>3. \A k \in 1 .. n : k \in 1 .. Len(ledger) \/ k = n
    BY DEF n
  <2>4. n \in RecordId /\ packets[n] = None
    BY <1>8, AppendFacts, Bounds DEF RecordId, VouchedInv, PacketsFollow
  <2>5. r.verified = FALSE /\ r.intent = run[w].intent /\ r.todo = run[w].todo
    BY <1>0 DEF Local
  <2> HIDE DEF r
  <2>6. run'[w] = r /\ \A v \in Writers \ {w} : run'[v] = run[v]
    BY <2>1, UpdateFacts
  <2>7. NothingVouched'
    <3> SUFFICES ASSUME enrollment = None
                 PROVE  /\ \A i \in pending : ~i.verified
                        /\ \A v \in Writers : Unvouched(run'[v])
                        /\ \A k \in 1 .. n : ~ledger'[k].verified
      BY <2>1, <2>2 DEF NothingVouched, Unvouched
    <3>1. Unvouched(run[w]) /\ Unvouched(r)
      BY <1>0, <2>5 DEF Unvouched
    <3> QED
      BY <2>2, <2>3, <2>6, <3>1 DEF VouchedInv, NothingVouched, Unvouched
  <2> HIDE DEF n
  <2>8. VouchedByPreflight'
    BY <2>1, <2>2, <2>3, <2>4 DEF VouchedInv, VouchedByPreflight
  <2>9. PacketsFollow'
    BY <2>1, <2>2 DEF VouchedInv, PacketsFollow, n, RecordId
  <2> QED
    BY <2>7, <2>8, <2>9 DEF VouchedInv
<1>9. ASSUME NEW w \in Writers, WritePacket(w) PROVE VouchedInv'
  <2> DEFINE k == run[w].record
  <2>1. k \in 1 .. Len(ledger) /\ k \in RecordId
    BY <1>9 DEF WritePacket, At, TypeOK, Equipped
  <2>2. /\ packets' = [packets EXCEPT ![k] = IF packets[k] = None THEN Named ELSE packets[k]]
        /\ packets \in [RecordId -> Enrollments \cup {0, None}]
        /\ UNCHANGED <<ledger, pending, enrollment>> /\ Goto(w, "open")
    BY <1>9 DEF WritePacket, TypeOK, enrollVars
  <2>3. \A q \in RecordId : packets'[q] = IF q = k /\ packets[k] = None THEN Named ELSE packets[q]
    BY <2>1, <2>2
  <2>4. enrollment # None => Named # 0
    BY Bounds DEF Named, TypeOK
  <2>5. ledger[k].verified => enrollment # None
    BY <2>1 DEF VouchedInv, NothingVouched
  <2>6. VouchedByPreflight'
    BY <2>1, <2>2, <2>3, <2>4, <2>5 DEF VouchedInv, VouchedByPreflight
  <2>7. PacketsFollow'
    BY <2>1, <2>2, <2>3 DEF VouchedInv, PacketsFollow
  <2>8. NothingVouched'
    <3> DEFINE r == [run[w] EXCEPT !.pc = "open"]
    <3>1. r.verified = run[w].verified /\ r.intent = run[w].intent /\ r.todo = run[w].todo
      BY <1>0 DEF Local
    <3>2. run'[w] = r /\ \A v \in Writers \ {w} : run'[v] = run[v]
      BY <2>2, UpdateFacts DEF Goto
    <3> HIDE DEF r
    <3> QED
      BY <1>0, <2>2, <3>1, <3>2 DEF VouchedInv, NothingVouched, Unvouched
  <2> QED
    BY <2>6, <2>7, <2>8 DEF VouchedInv
<1>10. ASSUME NEW w \in Writers, OpenTemp(w) \/ Replace(w) PROVE VouchedInv'
  <2>1. UNCHANGED <<ledger, packets, enrollment, pending>>
    BY <1>10 DEF OpenTemp, Replace, storeVars, enrollVars
  <2>2. PICK place, file, record :
          \/ Update(w, [run[w] EXCEPT !.pc = place, !.file = file])
          \/ Update(w, [run[w] EXCEPT !.pc = place, !.record = record, !.file = file])
    BY <1>10, Zenon DEF OpenTemp, Replace
  <2> DEFINE q == [run[w] EXCEPT !.pc = place, !.file = file]
             r == [run[w] EXCEPT !.pc = place, !.record = record, !.file = file]
  <2>3. /\ q.verified = run[w].verified /\ q.intent = run[w].intent /\ q.todo = run[w].todo
        /\ r.verified = run[w].verified /\ r.intent = run[w].intent /\ r.todo = run[w].todo
    BY <1>0 DEF Local
  <2> HIDE DEF q, r
  <2>4. enrollment = None => Unvouched(q) /\ Unvouched(r) /\ \A i \in pending' : ~i.verified
    BY <1>0, <2>1, <2>3 DEF Unvouched, VouchedInv, NothingVouched
  <2> QED
    BY <2>1, <2>2, <2>4, VouchedStep DEF q, r
<1>11. ASSUME NEW w \in Writers, Retire(w) \/ Finish(w) \/ Stop(w) PROVE VouchedInv'
  <2>1. UNCHANGED <<ledger, packets, enrollment>> /\ pending' \subseteq pending
    BY <1>11 DEF Retire, Finish, Stop, storeVars, enrollVars
  <2> DEFINE r == [Idle EXCEPT !.pc = "recover", !.todo = run[w].todo]
  <2>2. Update(w, r) \/ Update(w, Idle)
    BY <1>11 DEF Retire, Finish, Stop
  <2>3. /\ r.verified = FALSE /\ r.intent = None /\ r.todo = run[w].todo
        /\ Idle.verified = FALSE /\ Idle.intent = None /\ Idle.todo = {}
    BY DEF Idle
  <2> HIDE DEF r
  <2>4. enrollment = None => Unvouched(r) /\ Unvouched(Idle) /\ \A i \in pending' : ~i.verified
    BY <1>0, <2>1, <2>3 DEF Unvouched, VouchedInv, NothingVouched
  <2> QED
    BY <2>1, <2>2, <2>4, VouchedStep
<1>12. ASSUME UNCHANGED <<storeVars, run>>, enrollment' \in {enrollment} \cup Enrollments
       PROVE  VouchedInv'
  BY <1>12, Bounds DEF storeVars, VouchedInv, NothingVouched, PacketsFollow, VouchedByPreflight, Unvouched
<1>13. CASE Lapse \/ UNCHANGED vars
  BY <1>12, <1>13 DEF Lapse, vars, enrollVars
<1>14. ASSUME NEW e \in Enrollments,
              PreflightPassed(e) \/ ReadEnrollment(e) \/ Bind(e) \/ EnrollFails(e)
       PROVE  VouchedInv'
  BY <1>12, <1>14 DEF PreflightPassed, ReadEnrollment, Bind, EnrollFails
<1> QED
  BY <1>2, <1>3, <1>4, <1>5, <1>6, <1>7, <1>8, <1>9, <1>10, <1>11, <1>13, <1>14 DEF Next

\* A packet of a record that says its account is the enrolled one names the preflight,
\* whoever writes it and however often the writers were restarted.
THEOREM VouchedByPreflightHolds == Spec => []VouchedByPreflight
<1>1. Init => VouchedInv
  <2> SUFFICES ASSUME Init PROVE VouchedInv
    OBVIOUS
  <2>1. /\ Len(ledger) = 0 /\ pending = {} /\ \A r \in RecordId : packets[r] = None
        /\ \A w \in Writers : run[w] = Idle
    BY DEF Init
  <2> QED
    BY <2>1 DEF VouchedInv, NothingVouched, Unvouched, Idle, PacketsFollow, VouchedByPreflight
<1>2. VouchedInv => VouchedByPreflight
  BY DEF VouchedInv
<1> QED
  BY <1>1, <1>2, VouchedNext, EvidenceTypeCorrect, PTL DEF Spec
=============================================================================
