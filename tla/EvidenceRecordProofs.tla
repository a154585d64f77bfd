------------------------ MODULE EvidenceRecordProofs ------------------------
(***************************************************************************)
(* Theorems of Evidence about records and files: what the pointer shows is *)
(* whole and in order, a fill is booked once, and the intent of an order   *)
(* that filled is closed only when its packet is there or about to be      *)
(* written.  For any number of processes, process ids, records and orders. *)
(***************************************************************************)
EXTENDS EvidenceProofs

\* A process with a record of its own whose publication is not over.
Recording == {"packet", "open", "flush", "replace"}
\* Where a process has no intent.
Early == {"idle", "list", "recover", "begin", "snapshot", "act"}

-----------------------------------------------------------------------------
(* Steps.                                                                    *)

\* What the history notes.
LEMMA NotedByOpen ==
    ASSUME TypeOK, NEW w \in Writers, OpenTemp(w)
    PROVE  /\ history'.outstayed = history.outstayed
           /\ history'.cut = history.cut /\ history'.lost = history.lost
           /\ ~history'.shared =>
                /\ ~history.shared
                /\ \A v \in Writers \ {w} : Publishing(v) => pid[v] # pid[w]
<1> DEFINE b == history.shared \/ \E v \in Writers \ {w} : pid[v] = pid[w] /\ Publishing(v)
<1>1. history' = [history EXCEPT !.shared = b]
  BY DEF OpenTemp
<1> HIDE DEF b
<1>2. /\ history'.outstayed = history.outstayed
      /\ history'.cut = history.cut /\ history'.lost = history.lost
      /\ history'.shared = b
  BY <1>1 DEF TypeOK, History
<1>3. ~b => /\ ~history.shared
            /\ \A v \in Writers \ {w} : Publishing(v) => pid[v] # pid[w]
  BY Zenon DEF b
<1> QED
  BY <1>2, <1>3

LEMMA NotedByStop ==
    ASSUME TypeOK, NEW w \in Writers, Stop(w)
    PROVE  /\ history'.outstayed = history.outstayed /\ history'.shared = history.shared
           /\ history'.cut = history.cut \cup Unretired(w)
           /\ history'.lost = history.lost \cup Unshown(w)
BY DEF Stop, TypeOK, History

LEMMA NotedByLapse ==
    ASSUME TypeOK, Lapse
    PROVE  /\ history'.shared = history.shared
           /\ history'.cut = history.cut /\ history'.lost = history.lost
           /\ ~history'.outstayed => ~history.outstayed /\ holder \notin active
<1> DEFINE b == history.outstayed \/ holder \in active
<1>1. history' = [history EXCEPT !.outstayed = b]
  BY DEF Lapse
<1> HIDE DEF b
<1>2. /\ history'.shared = history.shared /\ history'.outstayed = b
      /\ history'.cut = history.cut /\ history'.lost = history.lost
  BY <1>1 DEF TypeOK, History
<1>3. ~b => ~history.outstayed /\ holder \notin active
  BY Zenon DEF b
<1> QED
  BY <1>2, <1>3

\* A request to enroll changes nothing that the invariants below are about.
Outside ==
    /\ UNCHANGED <<leaseVars, storeVars, fileVars, run>>
    /\ history'.shared = history.shared /\ history'.outstayed = history.outstayed
    /\ history'.cut = history.cut /\ history'.lost = history.lost

LEMMA EnrollmentOutside ==
    ASSUME TypeOK, NEW e \in Enrollments,
           PreflightPassed(e) \/ ReadEnrollment(e) \/ Bind(e) \/ EnrollFails(e)
    PROVE  Outside
<1>1. UNCHANGED <<leaseVars, storeVars, fileVars, run>>
  BY DEF PreflightPassed, ReadEnrollment, Bind, EnrollFails
<1>2. CASE ReadEnrollment(e)
  <2>1. \E b : history' = [history EXCEPT !.overlap = b]
    BY <1>2, Zenon DEF ReadEnrollment
  <2> QED
    BY <1>1, <2>1 DEF TypeOK, History, Outside
<1> QED
  BY <1>1, <1>2 DEF PreflightPassed, Bind, EnrollFails, Outside

\* What a process keeps of its local variables, and what the others keep of theirs.
Keeps(w) ==
    /\ run'[w].intent = run[w].intent /\ run'[w].recovers = run[w].recovers
    /\ run'[w].todo = run[w].todo
OthersKeep(w) == \A v \in Writers \ {w} : run'[v] = run[v]

\* The steps of a process, by what they change: nothing but its place and perhaps a
\* pending intent, before its order and after it; a packet or a file.
CycleStep(w) ==
    \/ BeginView(w) \/ List(w) \/ Recover(w) \/ RecoverDead(w) \/ Unresolved(w)
    \/ GoOn(w) \/ Begin(w) \/ Snapshot(w) \/ NoOrder(w)
OrderStep(w) == Settled(w) \/ SettledDead(w) \/ Unsettled(w)
FileStep(w) == OpenTemp(w) \/ Flush(w) \/ Replace(w)

LEMMA CycleSteps ==
    ASSUME TypeOK, NEW w \in Writers
    PROVE  /\ BeginLeased(w) \/ BeginView(w) =>
                /\ run[w].pc = "idle" /\ run'[w].pc \in {"list", "begin", "snapshot"}
                /\ Keeps(w) /\ OthersKeep(w)
                /\ BeginView(w) => run'[w].pc = "snapshot"
           /\ List(w) =>
                /\ run[w].pc = "list" /\ run'[w].pc = "recover" /\ OthersKeep(w)
                /\ run'[w].intent = run[w].intent /\ run'[w].recovers = run[w].recovers
                /\ run'[w].todo = pending
           /\ Recover(w) =>
                /\ run[w].pc = "recover" /\ run'[w].pc = "append" /\ OthersKeep(w)
                /\ run'[w].recovers
                /\ \E i \in run[w].todo : run'[w].intent = i /\ run'[w].todo = run[w].todo \ {i}
           /\ RecoverDead(w) =>
                /\ run[w].pc = "recover" /\ run'[w].pc = "recover" /\ OthersKeep(w)
                /\ run'[w].intent = run[w].intent /\ run'[w].recovers = run[w].recovers
                /\ \E i \in run[w].todo : /\ i.order \notin filled /\ pending' = pending \ {i}
                                          /\ run'[w].todo = run[w].todo \ {i}
           /\ Unresolved(w) =>
                /\ run[w].pc = "recover" /\ run'[w].pc = "recover" /\ OthersKeep(w)
                /\ run'[w].intent = run[w].intent /\ run'[w].recovers = run[w].recovers
                /\ run'[w].todo \subseteq run[w].todo
           /\ GoOn(w) =>
                run[w].pc = "recover" /\ run'[w].pc = "begin" /\ Keeps(w) /\ OthersKeep(w)
           /\ Begin(w) =>
                /\ run[w].pc = "begin" /\ run'[w].pc \in {"snapshot", "end"}
                /\ Keeps(w) /\ OthersKeep(w)
           /\ Snapshot(w) =>
                /\ run[w].pc = "snapshot" /\ Keeps(w) /\ OthersKeep(w)
                /\ run'[w].pc = IF w \in active THEN "act" ELSE "append"
           /\ NoOrder(w) =>
                run[w].pc = "act" /\ run'[w].pc = "append" /\ Keeps(w) /\ OthersKeep(w)
<1>0. run[w] \in Local
  BY DEF TypeOK
<1>1. ASSUME NEW r, Update(w, r) PROVE run'[w] = r /\ OthersKeep(w)
  BY <1>1, UpdateFacts DEF OthersKeep
<1>2. ASSUME NEW place, Goto(w, place)
      PROVE  run'[w].pc = place /\ Keeps(w) /\ OthersKeep(w)
  <2> DEFINE r == [run[w] EXCEPT !.pc = place]
  <2>1. /\ r.pc = place /\ r.intent = run[w].intent /\ r.recovers = run[w].recovers
        /\ r.todo = run[w].todo
    BY <1>0 DEF Local
  <2>2. Update(w, r)
    BY <1>2 DEF Goto
  <2> HIDE DEF r
  <2> QED
    BY <1>1, <2>1, <2>2 DEF Keeps
<1>3. BeginLeased(w) \/ BeginView(w) =>
        /\ run[w].pc = "idle" /\ run'[w].pc \in {"list", "begin", "snapshot"}
        /\ Keeps(w) /\ OthersKeep(w)
        /\ BeginView(w) => run'[w].pc = "snapshot"
  BY <1>2 DEF BeginLeased, BeginView, At
<1>4. ASSUME List(w)
      PROVE  /\ run[w].pc = "list" /\ run'[w].pc = "recover" /\ OthersKeep(w)
             /\ run'[w].intent = run[w].intent /\ run'[w].recovers = run[w].recovers
             /\ run'[w].todo = pending
  <2> DEFINE r == [run[w] EXCEPT !.pc = "recover", !.todo = pending, !.onward = TRUE]
  <2>1. /\ r.pc = "recover" /\ r.intent = run[w].intent /\ r.recovers = run[w].recovers
        /\ r.todo = pending
    BY <1>0 DEF Local
  <2>2. run[w].pc = "list" /\ Update(w, r)
    BY <1>4 DEF List, At
  <2> HIDE DEF r
  <2> QED
    BY <1>1, <2>1, <2>2
<1>5. ASSUME Recover(w)
      PROVE  /\ run[w].pc = "recover" /\ run'[w].pc = "append" /\ OthersKeep(w)
             /\ run'[w].recovers
             /\ \E i \in run[w].todo : run'[w].intent = i /\ run'[w].todo = run[w].todo \ {i}
  <2>1. PICK i \in run[w].todo :
          Update(w, [run[w] EXCEPT !.pc = "append", !.todo = @ \ {i}, !.onward = FALSE,
                       !.intent = i, !.recovers = TRUE, !.verified = i.verified])
    BY <1>5 DEF Recover
  <2> DEFINE r == [run[w] EXCEPT !.pc = "append", !.todo = @ \ {i}, !.onward = FALSE,
                     !.intent = i, !.recovers = TRUE, !.verified = i.verified]
  <2>2. r.pc = "append" /\ r.intent = i /\ r.recovers /\ r.todo = run[w].todo \ {i}
    BY <1>0 DEF Local
  <2>3. Update(w, r)
    BY <2>1
  <2> HIDE DEF r
  <2> QED
    BY <1>1, <1>5, <2>2, <2>3 DEF Recover, At
<1>6. ASSUME RecoverDead(w)
      PROVE  /\ run[w].pc = "recover" /\ run'[w].pc = "recover" /\ OthersKeep(w)
             /\ run'[w].intent = run[w].intent /\ run'[w].recovers = run[w].recovers
             /\ \E i \in run[w].todo : /\ i.order \notin filled /\ pending' = pending \ {i}
                                       /\ run'[w].todo = run[w].todo \ {i}
  <2>1. PICK i \in run[w].todo :
          /\ i.order \notin filled /\ pending' = pending \ {i}
          /\ Update(w, [run[w] EXCEPT !.todo = @ \ {i}])
    BY <1>6 DEF RecoverDead
  <2> DEFINE r == [run[w] EXCEPT !.todo = @ \ {i}]
  <2>2. /\ r.pc = run[w].pc /\ r.intent = run[w].intent /\ r.recovers = run[w].recovers
        /\ r.todo = run[w].todo \ {i}
    BY <1>0 DEF Local
  <2>3. Update(w, r)
    BY <2>1
  <2> HIDE DEF r
  <2> QED
    BY <1>1, <1>6, <2>1, <2>2, <2>3 DEF RecoverDead, At
<1>7. ASSUME Unresolved(w)
      PROVE  /\ run[w].pc = "recover" /\ run'[w].pc = "recover" /\ OthersKeep(w)
             /\ run'[w].intent = run[w].intent /\ run'[w].recovers = run[w].recovers
             /\ run'[w].todo \subseteq run[w].todo
  <2>1. PICK i \in run[w].todo : Update(w, [run[w] EXCEPT !.todo = @ \ {i}, !.onward = FALSE])
    BY <1>7 DEF Unresolved
  <2> DEFINE r == [run[w] EXCEPT !.todo = @ \ {i}, !.onward = FALSE]
  <2>2. /\ r.pc = run[w].pc /\ r.intent = run[w].intent /\ r.recovers = run[w].recovers
        /\ r.todo = run[w].todo \ {i}
    BY <1>0 DEF Local
  <2>3. Update(w, r)
    BY <2>1
  <2> HIDE DEF r
  <2> QED
    BY <1>1, <1>7, <2>2, <2>3 DEF Unresolved, At
<1>8. ASSUME GoOn(w)
      PROVE  run[w].pc = "recover" /\ run'[w].pc = "begin" /\ Keeps(w) /\ OthersKeep(w)
  <2> DEFINE r == [run[w] EXCEPT !.pc = "begin", !.onward = FALSE]
  <2>1. /\ r.pc = "begin" /\ r.intent = run[w].intent /\ r.recovers = run[w].recovers
        /\ r.todo = run[w].todo
    BY <1>0 DEF Local
  <2>2. run[w].pc = "recover" /\ Update(w, r)
    BY <1>8 DEF GoOn, At
  <2> HIDE DEF r
  <2> QED
    BY <1>1, <2>1, <2>2 DEF Keeps
<1>9. Begin(w) =>
        run[w].pc = "begin" /\ run'[w].pc \in {"snapshot", "end"} /\ Keeps(w) /\ OthersKeep(w)
  BY <1>2 DEF Begin, At
<1>10. ASSUME Snapshot(w)
       PROVE  /\ run[w].pc = "snapshot" /\ Keeps(w) /\ OthersKeep(w)
              /\ run'[w].pc = IF w \in active THEN "act" ELSE "append"
  <2> DEFINE b == enrollment # None
             r == [run[w] EXCEPT !.pc = IF w \in active THEN "act" ELSE "append", !.verified = b]
  <2>1. Update(w, r) /\ run[w].pc = "snapshot"
    BY <1>10 DEF Snapshot, At
  <2> HIDE DEF b
  <2>2. /\ r.pc = (IF w \in active THEN "act" ELSE "append") /\ r.intent = run[w].intent
        /\ r.recovers = run[w].recovers /\ r.todo = run[w].todo
    BY <1>0 DEF Local
  <2> HIDE DEF r
  <2> QED
    BY <1>1, <2>1, <2>2 DEF Keeps
<1>11. NoOrder(w) =>
         run[w].pc = "act" /\ run'[w].pc = "append" /\ Keeps(w) /\ OthersKeep(w)
  BY <1>2 DEF NoOrder, At
<1> QED
  BY <1>3, <1>4, <1>5, <1>6, <1>7, <1>8, <1>9, <1>10, <1>11

LEMMA OrderSteps ==
    ASSUME TypeOK, NEW w \in Writers
    PROVE  /\ Submit(w) =>
                /\ run[w].pc = "act" /\ run'[w].pc = "order" /\ OthersKeep(w)
                /\ run'[w].recovers = run[w].recovers /\ run'[w].todo = run[w].todo
                /\ run'[w].intent.order = orders + 1 /\ run'[w].intent \in Intent
                /\ pending' = pending \cup {run'[w].intent}
           /\ Settled(w) =>
                run[w].pc = "order" /\ run'[w].pc = "append" /\ Keeps(w) /\ OthersKeep(w)
           /\ SettledDead(w) \/ Unsettled(w) =>
                /\ run[w].pc = "order" /\ run'[w].pc = "append" /\ OthersKeep(w)
                /\ run'[w].intent = None /\ run'[w].recovers = run[w].recovers
                /\ run'[w].todo = run[w].todo
           /\ AppendRecord(w) =>
                /\ run[w].pc = "append" /\ run'[w].pc = "packet" /\ Keeps(w) /\ OthersKeep(w)
                /\ run'[w].record = Len(ledger) + 1
<1>0. run[w] \in Local
  BY DEF TypeOK
<1>1. ASSUME NEW r, Update(w, r) PROVE run'[w] = r /\ OthersKeep(w)
  BY <1>1, UpdateFacts DEF OthersKeep
<1>2. ASSUME Submit(w)
      PROVE  /\ run[w].pc = "act" /\ run'[w].pc = "order" /\ OthersKeep(w)
             /\ run'[w].recovers = run[w].recovers /\ run'[w].todo = run[w].todo
             /\ run'[w].intent.order = orders + 1 /\ run'[w].intent \in Intent
             /\ pending' = pending \cup {run'[w].intent}
  <2> DEFINE b == enrollment # None
             i == [order |-> orders + 1, verified |-> b]
             r == [run[w] EXCEPT !.pc = "order", !.intent = i]
  <2>1. Update(w, r) /\ run[w].pc = "act" /\ pending' = pending \cup {i} /\ orders < MaxOrders
    BY <1>2 DEF Submit, At
  <2>2. b \in BOOLEAN
    OBVIOUS
  <2> HIDE DEF b
  <2>3. i \in Intent /\ i.order = orders + 1
    BY <2>1, <2>2, Bounds DEF Intent, Order, TypeOK
  <2> HIDE DEF i
  <2>4. /\ r.pc = "order" /\ r.intent = i /\ r.recovers = run[w].recovers
        /\ r.todo = run[w].todo
    BY <1>0 DEF Local
  <2> HIDE DEF r
  <2> QED
    BY <1>1, <2>1, <2>3, <2>4
<1>3. ASSUME Settled(w)
      PROVE  run[w].pc = "order" /\ run'[w].pc = "append" /\ Keeps(w) /\ OthersKeep(w)
  <2> DEFINE r == [run[w] EXCEPT !.pc = "append"]
  <2>1. Update(w, r) /\ run[w].pc = "order"
    BY <1>3 DEF Settled, Goto, At
  <2>2. /\ r.pc = "append" /\ r.intent = run[w].intent /\ r.recovers = run[w].recovers
        /\ r.todo = run[w].todo
    BY <1>0 DEF Local
  <2> HIDE DEF r
  <2> QED
    BY <1>1, <2>1, <2>2 DEF Keeps
<1>4. ASSUME SettledDead(w) \/ Unsettled(w)
      PROVE  /\ run[w].pc = "order" /\ run'[w].pc = "append" /\ OthersKeep(w)
             /\ run'[w].intent = None /\ run'[w].recovers = run[w].recovers
             /\ run'[w].todo = run[w].todo
  <2> DEFINE r == [run[w] EXCEPT !.pc = "append", !.intent = None]
  <2>1. Update(w, r) /\ run[w].pc = "order"
    BY <1>4 DEF SettledDead, Unsettled, At
  <2>2. /\ r.pc = "append" /\ r.intent = None /\ r.recovers = run[w].recovers
        /\ r.todo = run[w].todo
    BY <1>0 DEF Local
  <2> HIDE DEF r
  <2> QED
    BY <1>1, <2>1, <2>2
<1>5. ASSUME AppendRecord(w)
      PROVE  /\ run[w].pc = "append" /\ run'[w].pc = "packet" /\ Keeps(w) /\ OthersKeep(w)
             /\ run'[w].record = Len(ledger) + 1
  <2> DEFINE n == Len(ledger) + 1
             r == [run[w] EXCEPT !.pc = "packet", !.record = n, !.verified = FALSE]
  <2>1. Update(w, r) /\ run[w].pc = "append"
    BY <1>5 DEF AppendRecord, At
  <2> HIDE DEF n
  <2>2. /\ r.pc = "packet" /\ r.intent = run[w].intent /\ r.recovers = run[w].recovers
        /\ r.todo = run[w].todo /\ r.record = n
    BY <1>0 DEF Local
  <2> HIDE DEF r
  <2> QED
    BY <1>1, <2>1, <2>2 DEF Keeps, n
<1> QED
  BY <1>2, <1>3, <1>4, <1>5

LEMMA PacketSteps ==
    ASSUME TypeOK, NEW w \in Writers
    PROVE  /\ WritePacket(w) =>
                /\ run[w].pc = "packet" /\ run'[w].pc = "open" /\ Keeps(w) /\ OthersKeep(w)
                /\ run'[w].record = run[w].record
           /\ OpenTemp(w) =>
                /\ run[w].pc = "open" /\ run'[w].pc = "flush" /\ Keeps(w) /\ OthersKeep(w)
                /\ run'[w].record = run[w].record
           /\ Flush(w) =>
                /\ run[w].pc = "flush" /\ run'[w].pc = "replace" /\ Keeps(w) /\ OthersKeep(w)
                /\ run'[w].record = run[w].record
           /\ Replace(w) =>
                /\ run[w].pc = "replace" /\ Keeps(w) /\ OthersKeep(w)
                /\ run'[w].pc = IF run[w].recovers THEN "retire" ELSE "end"
                /\ run[w].recovers => run'[w].record = run[w].record
           /\ Retire(w) =>
                /\ run[w].pc = "retire" /\ run'[w].pc = "recover" /\ OthersKeep(w)
                /\ run'[w].intent = None /\ ~run'[w].recovers /\ run'[w].todo = run[w].todo
           /\ Finish(w) \/ Stop(w) =>
                /\ run'[w].pc = "idle" /\ run'[w].intent = None /\ ~run'[w].recovers
                /\ run'[w].todo = {} /\ OthersKeep(w)
<1>0. run[w] \in Local
  BY DEF TypeOK
<1>1. ASSUME NEW r, Update(w, r) PROVE run'[w] = r /\ OthersKeep(w)
  BY <1>1, UpdateFacts DEF OthersKeep
<1>2. ASSUME NEW place, Goto(w, place)
      PROVE  run'[w].pc = place /\ Keeps(w) /\ OthersKeep(w) /\ run'[w].record = run[w].record
  <2> DEFINE r == [run[w] EXCEPT !.pc = place]
  <2>1. /\ r.pc = place /\ r.intent = run[w].intent /\ r.recovers = run[w].recovers
        /\ r.todo = run[w].todo /\ r.record = run[w].record
    BY <1>0 DEF Local
  <2>2. Update(w, r)
    BY <1>2 DEF Goto
  <2> HIDE DEF r
  <2> QED
    BY <1>1, <2>1, <2>2 DEF Keeps
<1>3. WritePacket(w) => run[w].pc = "packet" /\ Goto(w, "open")
  BY DEF WritePacket, At
<1>4. Flush(w) => run[w].pc = "flush" /\ Goto(w, "replace")
  BY DEF Flush, At
<1>5. ASSUME OpenTemp(w)
      PROVE  /\ run[w].pc = "open" /\ run'[w].pc = "flush" /\ Keeps(w) /\ OthersKeep(w)
             /\ run'[w].record = run[w].record
  <2>1. PICK file : Update(w, [run[w] EXCEPT !.pc = "flush", !.file = file])
    BY <1>5, Zenon DEF OpenTemp
  <2> DEFINE r == [run[w] EXCEPT !.pc = "flush", !.file = file]
  <2>2. /\ r.pc = "flush" /\ r.intent = run[w].intent /\ r.recovers = run[w].recovers
        /\ r.todo = run[w].todo /\ r.record = run[w].record
    BY <1>0 DEF Local
  <2>3. Update(w, r) /\ run[w].pc = "open"
    BY <1>5, <2>1 DEF OpenTemp, At
  <2> HIDE DEF r
  <2> QED
    BY <1>1, <2>2, <2>3 DEF Keeps
<1>6. ASSUME Replace(w)
      PROVE  /\ run[w].pc = "replace" /\ Keeps(w) /\ OthersKeep(w)
             /\ run'[w].pc = IF run[w].recovers THEN "retire" ELSE "end"
             /\ run[w].recovers => run'[w].record = run[w].record
  <2> DEFINE r == [run[w] EXCEPT !.pc = IF run[w].recovers THEN "retire" ELSE "end",
                        !.record = IF run[w].recovers THEN @ ELSE 0, !.file = None]
  <2>1. Update(w, r) /\ run[w].pc = "replace"
    BY <1>6 DEF Replace, At
  <2>2. /\ r.pc = (IF run[w].recovers THEN "retire" ELSE "end") /\ r.intent = run[w].intent
        /\ r.recovers = run[w].recovers /\ r.todo = run[w].todo
        /\ run[w].recovers => r.record = run[w].record
    BY <1>0 DEF Local
  <2> HIDE DEF r
  <2> QED
    BY <1>1, <2>1, <2>2 DEF Keeps
<1>7. ASSUME Retire(w)
      PROVE  /\ run[w].pc = "retire" /\ run'[w].pc = "recover" /\ OthersKeep(w)
             /\ run'[w].intent = None /\ ~run'[w].recovers /\ run'[w].todo = run[w].todo
  <2> DEFINE r == [Idle EXCEPT !.pc = "recover", !.todo = run[w].todo]
  <2>1. Update(w, r) /\ run[w].pc = "retire"
    BY <1>7 DEF Retire, At
  <2>2. r.pc = "recover" /\ r.intent = None /\ ~r.recovers /\ r.todo = run[w].todo
    BY DEF Idle
  <2> HIDE DEF r
  <2> QED
    BY <1>1, <2>1, <2>2
<1>8. Finish(w) \/ Stop(w) => Update(w, Idle)
  BY DEF Finish, Stop
<1>9. Idle.pc = "idle" /\ Idle.intent = None /\ ~Idle.recovers /\ Idle.todo = {}
  BY DEF Idle
<1> QED
  BY <1>1, <1>2, <1>3, <1>4, <1>5, <1>6, <1>7, <1>8, <1>9

\* A step before the record, apart from those that take the lease or submit.
LEMMA QuietSteps ==
    ASSUME TypeOK, NEW w \in Writers, CycleStep(w) \/ OrderStep(w)
    PROVE  /\ UNCHANGED <<leaseVars, ledger, orders, filled, packets, fileVars, history>>
           /\ pending' \subseteq pending /\ OthersKeep(w)
           /\ run[w].pc \in Early \cup {"order"}
           /\ run'[w].pc \in {"recover", "begin", "snapshot", "act", "append", "end"}
<1>1. CASE CycleStep(w)
  <2>1. UNCHANGED <<leaseVars, ledger, orders, filled, packets, fileVars, history>>
        /\ pending' \subseteq pending
    BY <1>1 DEF CycleStep, BeginView, List, Recover, RecoverDead, Unresolved, GoOn, Begin,
       Snapshot, NoOrder, storeVars
  <2>2. /\ OthersKeep(w) /\ run[w].pc \in Early
        /\ run'[w].pc \in {"recover", "begin", "snapshot", "act", "append", "end"}
    BY <1>1, CycleSteps DEF CycleStep, Early
  <2> QED
    BY <2>1, <2>2
<1>2. CASE OrderStep(w)
  <2>1. UNCHANGED <<leaseVars, ledger, orders, filled, packets, fileVars, history>>
        /\ pending' \subseteq pending
    BY <1>2 DEF OrderStep, Settled, SettledDead, Unsettled, storeVars
  <2>2. OthersKeep(w) /\ run[w].pc = "order" /\ run'[w].pc = "append"
    BY <1>2, OrderSteps DEF OrderStep
  <2> QED
    BY <2>1, <2>2
<1> QED
  BY <1>1, <1>2

-----------------------------------------------------------------------------
(* The lease.                                                                *)

\* Only a process with the lease has an order; while no lease lapsed under its process,
\* there is one such process.
AloneInv ==
    /\ \A w \in active : run[w].pc # "idle"
    /\ \A w \in Writers \ active :
        /\ run[w].intent = None
        /\ run[w].pc \in {"idle", "snapshot", "append", "end"} \cup Recording
    /\ ~history.outstayed => \A w \in active : w = holder /\ live

\* The lease stays where it is.
LEMMA AloneKept ==
    ASSUME TypeOK, AloneInv, NEW w \in Writers, OthersKeep(w), UNCHANGED leaseVars,
           history'.outstayed = history.outstayed, run'[w].pc # "idle",
           w \notin active =>
               /\ run'[w].intent = None
               /\ run'[w].pc \in {"snapshot", "append", "end"} \cup Recording
    PROVE  AloneInv'
<1>1. \A v \in Writers : v = w \/ run'[v] = run[v]
  BY DEF OthersKeep
<1>2. active \subseteq Writers
  BY DEF TypeOK
<1> QED
  BY <1>1, <1>2 DEF AloneInv, leaseVars

LEMMA AloneNext == TypeOK /\ AloneInv /\ [Next]_vars => AloneInv'
<1> SUFFICES ASSUME TypeOK, AloneInv, [Next]_vars PROVE AloneInv'
  OBVIOUS
<1>0. ASSUME NEW w \in Writers
      PROVE  /\ run[w].recovers => run[w].intent # None
             /\ w \notin active =>
                  /\ run[w].intent = None
                  /\ run[w].pc \in {"idle", "snapshot", "append", "end"} \cup Recording
  BY DEF TypeOK, Equipped, AloneInv
<1>1. ASSUME NEW w \in Writers, BeginLeased(w) PROVE AloneInv'
  <2>1. history' = history /\ run'[w].pc # "idle" /\ \A v \in Writers : v = w \/ run'[v] = run[v]
    BY <1>1, CycleSteps DEF BeginLeased, OthersKeep
  <2>2. active' = active \cup {w} /\ holder' = w /\ live' = TRUE /\ ~live
    BY <1>1 DEF BeginLeased, Lease!Take
  <2>3. live'
    BY <2>2, Zenon
  <2>4. ~history.outstayed => active = {}
    BY <2>2 DEF AloneInv
  <2>5. active \subseteq Writers
    BY DEF TypeOK
  <2> QED
    BY <2>1, <2>2, <2>3, <2>4, <2>5 DEF AloneInv
<1>2. ASSUME NEW w \in Writers, CycleStep(w) PROVE AloneInv'
  <2>1. /\ UNCHANGED leaseVars /\ history' = history /\ OthersKeep(w)
        /\ run'[w].pc # "idle"
    BY <1>2, QuietSteps
  <2>2. w \notin active => run'[w].intent = None /\ run'[w].pc \in {"snapshot", "append", "end"}
    BY <1>0, <1>2, CycleSteps DEF CycleStep, Keeps, Recording
  <2> QED
    BY <2>1, <2>2, AloneKept
<1>3. ASSUME NEW w \in Writers, OrderStep(w) PROVE AloneInv'
  <2>1. UNCHANGED leaseVars /\ history' = history /\ OthersKeep(w) /\ run'[w].pc # "idle"
    BY <1>3, QuietSteps
  <2>2. w \in active
    BY <1>0, <1>3, OrderSteps DEF OrderStep, Recording
  <2> QED
    BY <2>1, <2>2, AloneKept
<1>4. ASSUME NEW w \in Writers, Submit(w) PROVE AloneInv'
  <2>1. history' = history /\ run'[w].pc # "idle" /\ \A v \in Writers : v = w \/ run'[v] = run[v]
    BY <1>4, OrderSteps DEF Submit, OthersKeep
  <2>2. active' = active /\ holder' = holder /\ live' = TRUE /\ w \in active
    BY <1>4 DEF Submit, Lease!Keep
  <2>3. live'
    BY <2>2, Zenon
  <2> QED
    BY <2>1, <2>2, <2>3 DEF AloneInv, TypeOK
<1>5. ASSUME NEW w \in Writers, AppendRecord(w) \/ WritePacket(w) \/ FileStep(w) \/ Retire(w)
      PROVE  AloneInv'
  <2>1. UNCHANGED leaseVars /\ history'.outstayed = history.outstayed
    BY <1>5, NotedByOpen DEF AppendRecord, WritePacket, FileStep, OpenTemp, Flush, Replace, Retire
  <2>2. OthersKeep(w) /\ run'[w].pc # "idle"
    BY <1>5, OrderSteps, PacketSteps DEF FileStep
  <2>3. w \notin active =>
          /\ run'[w].intent = None
          /\ run'[w].pc \in {"snapshot", "append", "end"} \cup Recording
    BY <1>0, <1>5, OrderSteps, PacketSteps DEF FileStep, Keeps, Recording
  <2> QED
    BY <2>1, <2>2, <2>3, AloneKept
<1>6. ASSUME NEW w \in Writers, Finish(w) \/ Stop(w) PROVE AloneInv'
  <2>1. /\ run'[w].pc = "idle" /\ run'[w].intent = None
        /\ \A v \in Writers : v = w \/ run'[v] = run[v]
    BY <1>6, PacketSteps DEF OthersKeep
  <2>2. history'.outstayed = history.outstayed /\ (GivesBack(w) \/ Dies(w))
    BY <1>6, NotedByStop DEF Finish, Stop
  <2>3. active' = active \ {w} /\ active \subseteq Writers
    BY <2>2 DEF GivesBack, Dies, NoLease, leaseVars, Lease!Leave, Lease!Vanish, TypeOK
  <2>4. ~history.outstayed => \A v \in active \ {w} : v = holder' /\ live'
    <3> SUFFICES ASSUME ~history.outstayed, NEW v \in active, v # w
                 PROVE  v = holder' /\ live'
      OBVIOUS
    <3>1. v = holder /\ live /\ w \notin active
      BY DEF AloneInv
    <3> QED
      BY <2>2, <3>1 DEF GivesBack, Dies, NoLease, leaseVars, Lease!Leave, Lease!Vanish
  <2> QED
    BY <2>1, <2>2, <2>3, <2>4 DEF AloneInv
<1>7. CASE Lapse
  <2>1. active' = active /\ holder' = holder /\ run' = run
    BY <1>7 DEF Lapse, Lease!Lapse
  <2>2. ~history'.outstayed => active = {}
    BY <1>7, NotedByLapse DEF AloneInv
  <2> QED
    BY <2>1, <2>2 DEF AloneInv
<1>8. CASE Outside \/ UNCHANGED vars
  BY <1>8 DEF Outside, vars, leaseVars, AloneInv
<1> QED
  BY <1>1, <1>2, <1>3, <1>4, <1>5, <1>6, <1>7, <1>8, EnrollmentOutside
     DEF Next, CycleStep, OrderStep, FileStep

-----------------------------------------------------------------------------
(* Files.                                                                    *)

\* No temporary file and no pointer is the file that a new record would create.
Unused(r) == latest # r /\ \A p \in Pids : temp[p] # r

FileOwned(w) ==
    /\ run[w].pc \in {"packet", "open"} => Unused(run[w].record)
    /\ run[w].pc \in {"open", "flush", "replace"} => packets[run[w].record] # None
    /\ ~history.shared /\ Publishing(w) =>
        /\ temp[pid[w]] = run[w].file
        /\ content[run[w].file] = IF run[w].pc = "flush" THEN Empty ELSE run[w].record

\* Names of temporary files are names of different files, none of them the pointer.
FilesApart ==
    /\ latest # None => latest <= Len(ledger)
    /\ \A p \in Pids : temp[p] # None => temp[p] <= Len(ledger) /\ temp[p] # latest
    /\ \A p, q \in Pids : p # q /\ temp[p] # None => temp[p] # temp[q]

WritersApart ==
    /\ \A v, w \in Writers :
        v # w /\ run[v].pc \in {"packet", "open"} /\ run[w].pc \in {"packet", "open"} =>
            run[v].record # run[w].record
    /\ ~history.shared =>
        \A v, w \in Writers : v # w /\ Publishing(v) /\ Publishing(w) => pid[v] # pid[w]

FileInv == FilesApart /\ WritersApart /\ (\A w \in Writers : FileOwned(w)) /\ ShownWhole

\* A process that is not at work on a packet owns no file.
LEMMA FileQuiet ==
    ASSUME TypeOK, FileInv, NEW w \in Writers, OthersKeep(w), run'[w].pc \notin Recording,
           UNCHANGED <<ledger, packets, fileVars>>, history'.shared = history.shared
    PROVE  FileInv'
<1>1. \A v \in Writers : v = w \/ run'[v] = run[v]
  BY DEF OthersKeep
<1>2. FilesApart' /\ ShownWhole'
  BY DEF FileInv, FilesApart, ShownWhole, fileVars
<1>3. WritersApart'
  BY <1>1 DEF FileInv, WritersApart, Publishing, Recording, fileVars
<1>4. ASSUME NEW v \in Writers PROVE FileOwned(v)'
  BY <1>1 DEF FileInv, FileOwned, Unused, Publishing, Recording, fileVars
<1> QED
  BY <1>2, <1>3, <1>4 DEF FileInv

\* What a process at work on a packet may rely on.
LEMMA FileFacts ==
    ASSUME TypeOK
    PROVE  /\ \A w \in Writers : run[w].pc \in Recording =>
                run[w].record \in 1 .. Len(ledger) /\ run[w].record \in RecordId
           /\ \A w \in Writers : Publishing(w) => run[w].file \in RecordId
           /\ \A r \in RecordId : r \in Int /\ r # None
           /\ \A w \in Writers : pid[w] \in Pids
           /\ \A p \in Pids : temp[p] \in RecordId \cup {None}
           /\ latest \in RecordId \cup {None}
           /\ content \in [RecordId -> RecordId \cup {Empty, Torn}]
           /\ temp \in [Pids -> RecordId \cup {None}]
<1>1. \A w \in Writers : run[w] \in Local /\ Equipped(run[w])
  BY DEF TypeOK
<1>2. \A r \in RecordId : r \in Int /\ r # None
  BY Bounds DEF RecordId
<1>3. \A w \in Writers : Publishing(w) => run[w].file \in RecordId
  BY <1>1 DEF Publishing, Equipped, Local
<1>4. \A w \in Writers : run[w].pc \in Recording =>
        run[w].record \in 1 .. Len(ledger) /\ run[w].record \in RecordId
  BY <1>1, LedgerFacts DEF Recording, Equipped
<1> QED
  BY <1>2, <1>3, <1>4 DEF TypeOK

LEMMA FileAppend ==
    ASSUME TypeOK, FileInv, NEW w \in Writers, AppendRecord(w)
    PROVE  FileInv'
<1> DEFINE n == Len(ledger) + 1
           r == [run[w] EXCEPT !.pc = "packet", !.record = n, !.verified = FALSE]
<1>1. UNCHANGED <<packets, fileVars, history>> /\ Update(w, r)
  BY DEF AppendRecord
<1>2. Len(ledger') = n /\ Len(ledger) \in Nat /\ Len(ledger) < n
  BY AppendFacts, LedgerFacts
<1> HIDE DEF n
<1>3. r.pc = "packet" /\ r.record = n
  BY DEF TypeOK, Local
<1> HIDE DEF r
<1>4. run'[w] = r /\ \A v \in Writers \ {w} : run'[v] = run[v]
  BY <1>1, UpdateFacts
<1>5. n \in Int /\ \A k \in RecordId : k <= Len(ledger) => k <= n /\ k # n
  BY <1>2, FileFacts
<1>6. FilesApart'
  BY <1>1, <1>2, <1>5, FileFacts DEF FileInv, FilesApart, fileVars
<1>7. Unused(n)
  <2>1. n # None /\ (latest # None => latest <= Len(ledger) /\ latest \in RecordId)
    BY <1>5, Bounds, FileFacts DEF FileInv, FilesApart
  <2>2. ASSUME NEW p \in Pids PROVE temp[p] # n
    <3>1. temp[p] # None => temp[p] <= Len(ledger) /\ temp[p] \in RecordId
      BY FileFacts DEF FileInv, FilesApart
    <3> QED
      BY <1>5, <2>1, <3>1
  <2> QED
    BY <1>5, <2>1, <2>2 DEF Unused
<1>8. WritersApart'
  <2>1. \A v \in Writers : run[v].pc \in {"packet", "open"} => run[v].record # n
    BY <1>2, FileFacts DEF Recording
  <2> QED
    BY <1>1, <1>3, <1>4, <2>1 DEF FileInv, WritersApart, Publishing, fileVars
<1>9. ASSUME NEW v \in Writers PROVE FileOwned(v)'
  BY <1>1, <1>3, <1>4, <1>7 DEF FileInv, FileOwned, Unused, Publishing, fileVars
<1>10. ShownWhole'
  <2>1. \A k \in 1 .. Len(ledger) : k \in 1 .. Len(ledger')
    BY <1>2
  <2> QED
    BY <1>1, <2>1 DEF FileInv, ShownWhole, fileVars
<1> QED
  BY <1>6, <1>8, <1>9, <1>10 DEF FileInv

LEMMA FilePacket ==
    ASSUME TypeOK, FileInv, NEW w \in Writers, WritePacket(w)
    PROVE  FileInv'
<1> DEFINE k == run[w].record
           r == [run[w] EXCEPT !.pc = "open"]
<1>1. UNCHANGED <<ledger, fileVars, history>> /\ Update(w, r) /\ run[w].pc = "packet"
  BY DEF WritePacket, Goto, At
<1>2. r.pc = "open" /\ r.record = run[w].record
  BY DEF TypeOK, Local
<1> HIDE DEF r
<1>3. run'[w] = r /\ \A v \in Writers \ {w} : run'[v] = run[v]
  BY <1>1, UpdateFacts
<1>4. k \in RecordId
  BY <1>1, FileFacts DEF Recording
<1>5. Named # None
  BY Bounds DEF Named
<1>6. packets'[k] # None /\ \A q \in RecordId : packets[q] # None => packets'[q] # None
  BY <1>4, <1>5 DEF WritePacket, TypeOK
<1>7. FilesApart' /\ WritersApart'
  BY <1>1, <1>2, <1>3 DEF FileInv, FilesApart, WritersApart, Publishing, fileVars
<1>8. ASSUME NEW v \in Writers PROVE FileOwned(v)'
  <2>1. CASE v = w
    BY <1>1, <1>2, <1>3, <1>6, <2>1 DEF FileInv, FileOwned, Unused, Publishing, fileVars
  <2>2. CASE v # w
    <3>1. run[v].pc \in {"open", "flush", "replace"} => run[v].record \in RecordId
      BY FileFacts DEF Recording
    <3> QED
      BY <1>1, <1>3, <1>6, <2>2, <3>1 DEF FileInv, FileOwned, Unused, Publishing, fileVars
  <2> QED
    BY <2>1, <2>2
<1>9. ShownWhole'
  BY <1>1, <1>6, LedgerFacts DEF FileInv, ShownWhole, fileVars
<1> QED
  BY <1>7, <1>8, <1>9 DEF FileInv

LEMMA FileOpen ==
    ASSUME TypeOK, FileInv, NEW w \in Writers, OpenTemp(w)
    PROVE  FileInv'
<1> DEFINE file == IF temp[pid[w]] = None THEN run[w].record ELSE temp[pid[w]]
           r == [run[w] EXCEPT !.pc = "flush", !.file = file]
<1>1. /\ UNCHANGED <<ledger, packets, pid, latest>> /\ Update(w, r) /\ run[w].pc = "open"
      /\ temp' = [temp EXCEPT ![pid[w]] = file]
      /\ content' = [content EXCEPT ![file] = Empty]
  BY DEF OpenTemp, TempName, At, storeVars
<1>2. /\ run[w].record \in 1 .. Len(ledger) /\ run[w].record \in RecordId
      /\ Unused(run[w].record)
  BY <1>1, FileFacts DEF Recording, FileInv, FileOwned
<1>3. file \in RecordId /\ file # None /\ file <= Len(ledger) /\ file # latest
  BY <1>2, LedgerFacts, FileFacts DEF FileInv, FilesApart, Unused
<1>4. \A p \in Pids \ {pid[w]} : temp[p] # file
  BY <1>2, FileFacts DEF FileInv, FilesApart, Unused
<1>5. \A v \in Writers \ {w} : run[v].pc \in {"packet", "open"} => run[v].record # file
  BY <1>1, <1>2, FileFacts DEF FileInv, FileOwned, WritersApart, Unused
<1> HIDE DEF file
<1>6. r.pc = "flush" /\ r.record = run[w].record /\ r.file = file
  BY DEF TypeOK, Local
<1> HIDE DEF r
<1>7. run'[w] = r /\ \A v \in Writers \ {w} : run'[v] = run[v]
  BY <1>1, UpdateFacts
<1>8. /\ temp'[pid[w]] = file /\ \A p \in Pids \ {pid[w]} : temp'[p] = temp[p]
      /\ content'[file] = Empty /\ \A f \in RecordId \ {file} : content'[f] = content[f]
  BY <1>1, <1>3, FileFacts
<1>9. FilesApart'
  BY <1>1, <1>3, <1>4, <1>8 DEF FileInv, FilesApart
<1>10. ~history'.shared =>
         ~history.shared /\ \A v \in Writers \ {w} : Publishing(v) => pid[v] # pid[w]
  BY NotedByOpen
<1>11. WritersApart'
  <2>1. \A u, v \in Writers : u # v /\ run'[u].pc \in {"packet", "open"} /\ run'[v].pc \in {"packet", "open"} =>
          run'[u].record # run'[v].record
    BY <1>6, <1>7 DEF FileInv, WritersApart
  <2>2. ASSUME ~history'.shared, NEW u \in Writers, NEW v \in Writers, u # v,
               Publishing(u)', Publishing(v)'
        PROVE  pid[u] # pid[v]
    BY <1>6, <1>7, <1>10, <2>2 DEF FileInv, WritersApart, Publishing
  <2> QED
    BY <1>1, <2>1, <2>2 DEF WritersApart
<1>12. ASSUME NEW v \in Writers PROVE FileOwned(v)'
  <2>1. CASE v = w
    <3>1. packets[run[w].record] # None
      BY <1>1 DEF FileInv, FileOwned
    <3> QED
      BY <1>1, <1>6, <1>7, <1>8, <2>1, <3>1 DEF FileOwned, Publishing
  <2>2. CASE v # w
    <3>1. run'[v] = run[v] /\ pid[v] \in Pids
      BY <1>7, <2>2, FileFacts
    <3>2. run[v].pc \in {"packet", "open"} => Unused(run[v].record)'
      <4> SUFFICES ASSUME run[v].pc \in {"packet", "open"} PROVE Unused(run[v].record)'
        OBVIOUS
      <4>1. Unused(run[v].record) /\ run[v].record # file
        BY <1>5, <2>2 DEF FileInv, FileOwned
      <4> QED
        BY <1>1, <1>8, <3>1, <4>1, FileFacts DEF Unused
    <3>3. ASSUME ~history'.shared, Publishing(v)
          PROVE  /\ temp'[pid[v]] = run[v].file
                 /\ content'[run[v].file] = IF run[v].pc = "flush" THEN Empty ELSE run[v].record
      <4>1. pid[v] # pid[w] /\ ~history.shared
        BY <1>10, <2>2, <3>3
      <4>2. temp[pid[v]] = run[v].file
            /\ content[run[v].file] = IF run[v].pc = "flush" THEN Empty ELSE run[v].record
        BY <3>3, <4>1 DEF FileInv, FileOwned
      <4>3. run[v].file \in RecordId /\ run[v].file # file
        BY <1>4, <3>1, <3>3, <4>1, <4>2, FileFacts
      <4> QED
        BY <1>8, <3>1, <4>1, <4>2, <4>3
    <3>4. run[v].pc \in {"open", "flush", "replace"} => packets[run[v].record] # None
      BY DEF FileInv, FileOwned
    <3> QED
      BY <1>1, <3>1, <3>2, <3>3, <3>4 DEF FileOwned, Publishing
  <2> QED
    BY <2>1, <2>2
<1>13. ShownWhole'
  <2> SUFFICES ASSUME ~history'.shared, latest # None
               PROVE  content'[latest] \in 1 .. Len(ledger) /\ packets[content'[latest]] # None
    BY <1>1 DEF ShownWhole
  <2>1. content'[latest] = content[latest] /\ ~history.shared
    BY <1>3, <1>8, <1>10, FileFacts
  <2> QED
    BY <2>1 DEF FileInv, ShownWhole
<1> QED
  BY <1>9, <1>11, <1>12, <1>13 DEF FileInv

LEMMA FileFlush ==
    ASSUME TypeOK, FileInv, NEW w \in Writers, Flush(w)
    PROVE  FileInv'
<1> DEFINE file == run[w].file
           r == [run[w] EXCEPT !.pc = "replace"]
<1>1. /\ UNCHANGED <<ledger, packets, pid, temp, latest, history>> /\ Update(w, r)
      /\ run[w].pc = "flush"
      /\ \E c \in {run[w].record} \cup (IF content[file] = Empty THEN {} ELSE {Torn}) :
           content' = [content EXCEPT ![file] = c]
  BY DEF Flush, Goto, At, storeVars
<1>2. r.pc = "replace" /\ r.record = run[w].record /\ r.file = file
  BY DEF TypeOK, Local
<1> HIDE DEF r
<1>3. run'[w] = r /\ \A v \in Writers \ {w} : run'[v] = run[v]
  BY <1>1, UpdateFacts
<1>4. file \in RecordId
  BY <1>1, FileFacts DEF Publishing
<1>5. /\ \A f \in RecordId \ {file} : content'[f] = content[f]
      /\ content[file] = Empty => content'[file] = run[w].record
  BY <1>1, <1>4, FileFacts
<1>6. FilesApart' /\ WritersApart'
  BY <1>1, <1>2, <1>3 DEF FileInv, FilesApart, WritersApart, Publishing
<1>7. ASSUME ~history.shared
      PROVE  /\ temp[pid[w]] = file /\ content[file] = Empty
             /\ \A v \in Writers \ {w} : Publishing(v) => run[v].file # file
             /\ file # latest
  <2>1. Publishing(w)
    BY <1>1 DEF Publishing
  <2>2. temp[pid[w]] = file /\ content[file] = Empty
    BY <1>1, <1>7, <2>1 DEF FileInv, FileOwned
  <2>3. ASSUME NEW v \in Writers \ {w}, Publishing(v) PROVE run[v].file # file
    <3>1. pid[v] # pid[w] /\ temp[pid[v]] = run[v].file
      BY <1>7, <2>1, <2>3 DEF FileInv, WritersApart, FileOwned
    <3> QED
      BY <1>4, <2>2, <3>1, FileFacts DEF FileInv, FilesApart
  <2>4. file # latest
    BY <1>4, <2>2, FileFacts DEF FileInv, FilesApart
  <2> QED
    BY <2>2, <2>3, <2>4
<1>8. ASSUME NEW v \in Writers PROVE FileOwned(v)'
  <2>1. CASE v = w
    BY <1>1, <1>2, <1>3, <1>5, <1>7, <2>1 DEF FileInv, FileOwned, Publishing
  <2>2. CASE v # w
    <3>1. run'[v] = run[v] /\ (Publishing(v) => run[v].file \in RecordId)
      BY <1>3, <2>2, FileFacts
    <3> QED
      BY <1>1, <1>5, <1>7, <2>2, <3>1 DEF FileInv, FileOwned, Publishing, Unused
  <2> QED
    BY <2>1, <2>2
<1>9. ShownWhole'
  BY <1>1, <1>5, <1>7, FileFacts DEF FileInv, ShownWhole
<1> QED
  BY <1>6, <1>8, <1>9 DEF FileInv

LEMMA FileReplace ==
    ASSUME TypeOK, FileInv, NEW w \in Writers, Replace(w)
    PROVE  FileInv'
<1> DEFINE file == temp[pid[w]]
           r == [run[w] EXCEPT !.pc = IF run[w].recovers THEN "retire" ELSE "end",
                      !.record = IF run[w].recovers THEN @ ELSE 0, !.file = None]
<1>1. /\ UNCHANGED <<ledger, packets, pid, content, history>> /\ Update(w, r)
      /\ run[w].pc = "replace" /\ file # None /\ latest' = file
      /\ temp' = [temp EXCEPT ![pid[w]] = None]
  BY DEF Replace, TempName, At, storeVars
<1>2. r.pc \in {"retire", "end"}
  BY DEF TypeOK, Local
<1> HIDE DEF r
<1>3. run'[w] = r /\ \A v \in Writers \ {w} : run'[v] = run[v]
  BY <1>1, UpdateFacts
<1>4. /\ temp'[pid[w]] = None /\ \A p \in Pids \ {pid[w]} : temp'[p] = temp[p]
      /\ \A p \in Pids \ {pid[w]} : temp[p] # file
      /\ file \in RecordId /\ file <= Len(ledger) /\ pid[w] \in Pids
  BY <1>1, FileFacts DEF FileInv, FilesApart
<1>5. FilesApart'
  BY <1>1, <1>4 DEF FileInv, FilesApart
<1>6. WritersApart'
  BY <1>1, <1>2, <1>3 DEF FileInv, WritersApart, Publishing
<1>7. ASSUME NEW v \in Writers PROVE FileOwned(v)'
  <2>1. CASE v = w
    BY <1>2, <1>3, <2>1 DEF FileOwned, Publishing
  <2>2. CASE v # w
    <3>1. run'[v] = run[v] /\ FileOwned(v) /\ pid[v] \in Pids
      BY <1>3, <2>2, FileFacts DEF FileInv
    <3>2. Publishing(w) /\ (~history.shared /\ Publishing(v) => pid[v] # pid[w])
      BY <1>1, <2>2 DEF FileInv, WritersApart, Publishing
    <3>3. run[v].pc \in {"packet", "open"} => Unused(run[v].record)'
      <4> SUFFICES ASSUME run[v].pc \in {"packet", "open"} PROVE Unused(run[v].record)'
        OBVIOUS
      <4>1. Unused(run[v].record) /\ run[v].record \in RecordId
        BY <3>1, FileFacts DEF FileOwned, Recording
      <4> QED
        BY <1>1, <1>4, <3>1, <4>1, FileFacts DEF Unused
    <3> QED
      BY <1>1, <1>4, <3>1, <3>2, <3>3 DEF FileOwned, Publishing
  <2> QED
    BY <2>1, <2>2
<1>8. ShownWhole'
  <2> SUFFICES ASSUME ~history.shared
               PROVE  content[file] \in 1 .. Len(ledger) /\ packets[content[file]] # None
    BY <1>1 DEF ShownWhole
  <2>1. Publishing(w) /\ run[w].record \in 1 .. Len(ledger)
    BY <1>1, FileFacts DEF Publishing, Recording
  <2>2. content[file] = run[w].record /\ packets[run[w].record] # None
    BY <1>1, <2>1 DEF FileInv, FileOwned
  <2> QED
    BY <2>1, <2>2
<1> QED
  BY <1>5, <1>6, <1>7, <1>8 DEF FileInv

LEMMA FileNext == TypeOK /\ FileInv /\ [Next]_vars => FileInv'
<1> SUFFICES ASSUME TypeOK, FileInv, [Next]_vars PROVE FileInv'
  OBVIOUS
<1>1. ASSUME NEW w \in Writers, BeginLeased(w) \/ CycleStep(w) \/ OrderStep(w) \/ Submit(w)
      PROVE  FileInv'
  <2>1. UNCHANGED <<ledger, packets, fileVars, history>>
    BY <1>1, QuietSteps DEF BeginLeased, Submit, storeVars
  <2>2. OthersKeep(w) /\ run'[w].pc \notin Recording
    BY <1>1, QuietSteps, CycleSteps, OrderSteps DEF Recording
  <2> QED
    BY <2>1, <2>2, FileQuiet
<1>2. ASSUME NEW w \in Writers, Retire(w) \/ Finish(w) \/ Stop(w) PROVE FileInv'
  <2>1. UNCHANGED <<ledger, packets, fileVars>> /\ history'.shared = history.shared
    BY <1>2, NotedByStop DEF Retire, Finish, Stop, storeVars
  <2>2. OthersKeep(w) /\ run'[w].pc \notin Recording
    BY <1>2, PacketSteps DEF Recording
  <2> QED
    BY <2>1, <2>2, FileQuiet
<1>3. CASE Lapse \/ Outside \/ UNCHANGED vars
  <2>1. UNCHANGED <<ledger, packets, fileVars, run>> /\ history'.shared = history.shared
    BY <1>3, NotedByLapse DEF Lapse, Outside, vars, storeVars
  <2> QED
    BY <2>1 DEF FileInv, FilesApart, WritersApart, FileOwned, ShownWhole, Unused, Publishing,
       fileVars
<1> QED
  BY <1>1, <1>2, <1>3, EnrollmentOutside, FileAppend, FilePacket, FileOpen, FileFlush, FileReplace
     DEF Next, CycleStep, OrderStep

\* What the API shows is a whole packet of a record, also when the file of a process that
\* stopped midway is taken over, unless two processes of one id published at once.
THEOREM ShownWholeHolds == Spec => []ShownWhole
<1>1. Init => FileInv
  BY DEF Init, FileInv, FilesApart, WritersApart, FileOwned, ShownWhole, Publishing, Idle
<1>2. FileInv => ShownWhole
  BY DEF FileInv
<1> QED
  BY <1>1, <1>2, FileNext, EvidenceTypeCorrect, PTL DEF Spec

-----------------------------------------------------------------------------
(* The order of what is shown.                                               *)

\* The record of a process with the lease is the last one with the lease.
LastLeased(w) ==
    run[w].pc \in Recording =>
        IF w \in active
        THEN ~history.outstayed =>
                 \A r \in 1 .. Len(ledger) : run[w].record < r => ~ledger[r].leased
        ELSE ~ledger[run[w].record].leased
LeasedInv == \A w \in Writers : LastLeased(w)

\* A step that appends no record.
LEMMA LeasedKept ==
    ASSUME TypeOK, LeasedInv, NEW w \in Writers, OthersKeep(w), ledger' = ledger,
           history'.outstayed = history.outstayed,
           \A v \in Writers \ {w} : (v \in active') = (v \in active),
           run'[w].pc \in Recording =>
               /\ run[w].pc \in Recording /\ run'[w].record = run[w].record
               /\ active' = active
    PROVE  LeasedInv'
<1>1. LastLeased(w)'
  BY DEF LeasedInv, LastLeased
<1>2. ASSUME NEW v \in Writers \ {w} PROVE LastLeased(v)'
  BY DEF LeasedInv, LastLeased, OthersKeep
<1> QED
  BY <1>1, <1>2 DEF LeasedInv

LEMMA LeasedNext == TypeOK /\ AloneInv /\ LeasedInv /\ [Next]_vars => LeasedInv'
<1> SUFFICES ASSUME TypeOK, AloneInv, LeasedInv, [Next]_vars PROVE LeasedInv'
  OBVIOUS
<1>1. ASSUME NEW w \in Writers, BeginLeased(w) PROVE LeasedInv'
  <2>1. ledger' = ledger /\ history' = history /\ active' = active \cup {w}
    BY <1>1 DEF BeginLeased, Lease!Take, storeVars
  <2>2. \A v \in Writers \ {w} : (v \in active') = (v \in active)
    BY <2>1
  <2>3. OthersKeep(w) /\ run'[w].pc \notin Recording
    BY <1>1, CycleSteps DEF Recording
  <2> QED
    BY <2>1, <2>2, <2>3, LeasedKept
<1>2. ASSUME NEW w \in Writers, CycleStep(w) \/ OrderStep(w) \/ Submit(w) \/ Retire(w)
      PROVE  LeasedInv'
  <2>1. ledger' = ledger /\ active' = active /\ history' = history
    BY <1>2, QuietSteps DEF Submit, Retire, Lease!Keep, leaseVars
  <2>2. OthersKeep(w) /\ run'[w].pc \notin Recording
    BY <1>2, QuietSteps, OrderSteps, PacketSteps DEF Recording
  <2> QED
    BY <2>1, <2>2, LeasedKept
<1>3. ASSUME NEW w \in Writers, WritePacket(w) \/ FileStep(w) PROVE LeasedInv'
  <2>1. ledger' = ledger /\ active' = active /\ history'.outstayed = history.outstayed
    BY <1>3, NotedByOpen DEF WritePacket, FileStep, OpenTemp, Flush, Replace, storeVars, leaseVars
  <2>2. /\ OthersKeep(w) /\ run[w].pc \in Recording
        /\ run'[w].pc \in Recording => run'[w].record = run[w].record
    BY <1>3, PacketSteps DEF FileStep, Recording
  <2> QED
    BY <2>1, <2>2, LeasedKept
<1>4. ASSUME NEW w \in Writers, AppendRecord(w) PROVE LeasedInv'
  <2>0. PICK n : n = Len(ledger) + 1
    OBVIOUS
  <2>1. /\ active' = active /\ history' = history /\ OthersKeep(w)
        /\ run'[w].pc = "packet" /\ run'[w].record = n
    BY <1>4, <2>0, OrderSteps DEF AppendRecord, leaseVars
  <2>2. /\ Len(ledger) \in Nat /\ Len(ledger') = n
        /\ \A k \in 1 .. Len(ledger) : ledger'[k] = ledger[k]
        /\ ledger'[n].leased = (w \in active)
    <3>1. Entry(w).leased = (w \in active)
      BY DEF Entry
    <3> QED
      BY <1>4, <2>0, <3>1, AppendFacts, LedgerFacts
  <2>3. /\ n \in Nat /\ n \notin 1 .. Len(ledger)
        /\ 1 .. Len(ledger') = 1 .. Len(ledger) \cup {n} /\ \A k \in 1 .. Len(ledger') : ~(n < k)
    BY <2>0, <2>2
  <2>4. LastLeased(w)'
    BY <2>1, <2>2, <2>3 DEF LastLeased
  <2>5. ASSUME NEW v \in Writers \ {w} PROVE LastLeased(v)'
    <3>1. v \in active /\ w \in active => history.outstayed
      BY DEF AloneInv
    <3>2. run[v].pc \in Recording => run[v].record \in 1 .. Len(ledger)
      BY FileFacts
    <3>3. run'[v] = run[v]
      BY <2>1 DEF OthersKeep
    <3> QED
      BY <2>1, <2>2, <2>3, <3>1, <3>2, <3>3 DEF LeasedInv, LastLeased
  <2> QED
    BY <2>4, <2>5 DEF LeasedInv
<1>5. ASSUME NEW w \in Writers, Finish(w) \/ Stop(w) PROVE LeasedInv'
  <2>1. /\ ledger' = ledger /\ history'.outstayed = history.outstayed
        /\ GivesBack(w) \/ Dies(w)
    BY <1>5, NotedByStop DEF Finish, Stop, storeVars
  <2>2. active' = active \ {w}
    BY <2>1 DEF GivesBack, Dies, NoLease, leaseVars, Lease!Leave, Lease!Vanish
  <2>3. OthersKeep(w) /\ run'[w].pc \notin Recording
    BY <1>5, PacketSteps DEF Recording
  <2>4. \A v \in Writers \ {w} : (v \in active') = (v \in active)
    BY <2>2
  <2> QED
    BY <2>1, <2>3, <2>4, LeasedKept
<1>6. CASE Lapse \/ Outside \/ UNCHANGED vars
  <2>1. /\ ledger' = ledger /\ active' = active /\ run' = run
        /\ ~history'.outstayed => ~history.outstayed
    BY <1>6, NotedByLapse DEF Lapse, Lease!Lapse, Outside, vars, storeVars, leaseVars
  <2> QED
    BY <2>1 DEF LeasedInv, LastLeased
<1> QED
  BY <1>1, <1>2, <1>3, <1>4, <1>5, <1>6, EnrollmentOutside
     DEF Next, CycleStep, OrderStep, FileStep

\* Only the replacement of the pointer changes what is shown.
LEMMA ShownKept ==
    ASSUME TypeOK, FileInv, NEW w \in Writers, OpenTemp(w) \/ Flush(w),
           ~history'.shared, latest # None
    PROVE  content'[latest] = content[latest]
<1>1. CASE OpenTemp(w)
  <2> DEFINE file == IF temp[pid[w]] = None THEN run[w].record ELSE temp[pid[w]]
  <2>1. content' = [content EXCEPT ![file] = Empty] /\ run[w].pc = "open"
    BY <1>1 DEF OpenTemp, TempName, At
  <2>2. run[w].record \in RecordId /\ Unused(run[w].record)
    BY <2>1, FileFacts DEF Recording, FileInv, FileOwned
  <2>3. file # latest
    BY <2>2, FileFacts DEF FileInv, FilesApart, Unused
  <2> HIDE DEF file
  <2> QED
    BY <2>1, <2>3, FileFacts
<1>2. CASE Flush(w)
  <2> DEFINE file == run[w].file
  <2>1. (\E c : content' = [content EXCEPT ![file] = c]) /\ Publishing(w) /\ history' = history
    BY <1>2 DEF Flush, At, Publishing
  <2>2. file \in RecordId /\ temp[pid[w]] = file
    BY <2>1, FileFacts DEF FileInv, FileOwned
  <2>3. file # latest
    BY <2>2, FileFacts DEF FileInv, FilesApart
  <2> QED
    BY <2>1, <2>3, FileFacts
<1> QED
  BY <1>1, <1>2

LEMMA ShownReplaced ==
    ASSUME TypeOK, FileInv, LeasedInv, NEW w \in Writers, Replace(w),
           ~history'.shared, ~history'.outstayed, latest # None,
           content'[latest'] < content[latest]
    PROVE  ~(ledger[content[latest]].leased /\ ledger[content'[latest']].leased)
<1>1. /\ content' = content /\ history' = history /\ latest' = temp[pid[w]]
      /\ run[w].pc = "replace"
  BY DEF Replace, TempName, At
<1>2. Publishing(w) /\ run[w].pc \in Recording
  BY <1>1 DEF Publishing, Recording
<1>3. content'[latest'] = run[w].record
  BY <1>1, <1>2 DEF FileInv, FileOwned
<1>4. content[latest] \in 1 .. Len(ledger)
  BY <1>1 DEF FileInv, ShownWhole
<1> QED
  BY <1>1, <1>2, <1>3, <1>4 DEF LeasedInv, LastLeased

LEMMA ShownStep ==
    ASSUME TypeOK, FileInv, LeasedInv, Next,
           latest # None, ~history'.shared, ~history'.outstayed,
           content'[latest'] < content[latest]
    PROVE  ~(ledger[content[latest]].leased /\ ledger[content'[latest']].leased)
<1>1. content[latest] \in Int
  BY FileFacts DEF Empty, Torn
<1>2. ~(latest' = latest /\ content'[latest] = content[latest])
  BY <1>1
<1>3. ASSUME NEW w \in Writers, OpenTemp(w) \/ Flush(w) PROVE FALSE
  BY <1>2, <1>3, ShownKept DEF OpenTemp, Flush
<1>4. ASSUME NEW w \in Writers,
             \/ BeginLeased(w) \/ CycleStep(w) \/ Submit(w) \/ OrderStep(w)
             \/ AppendRecord(w) \/ WritePacket(w) \/ Retire(w) \/ Finish(w) \/ Stop(w)
      PROVE  FALSE
  <2>1. UNCHANGED fileVars
    BY <1>4, QuietSteps DEF BeginLeased, Submit, AppendRecord, WritePacket, Retire, Finish, Stop
  <2> QED
    BY <1>2, <2>1 DEF fileVars
<1>5. ~Lapse /\ ~Outside
  BY <1>2 DEF Lapse, Outside, fileVars
<1> QED
  BY <1>3, <1>4, <1>5, EnrollmentOutside, ShownReplaced DEF Next, CycleStep, OrderStep

\* Executing runs show their packets in the order of their records.
THEOREM ShownInOrderHolds == Spec => ShownInOrder
<1>1. Init => AloneInv /\ FileInv /\ LeasedInv
  BY DEF Init, AloneInv, FileInv, FilesApart, WritersApart, FileOwned, ShownWhole, Publishing,
     LeasedInv, LastLeased, Recording, Idle
<1>2. TypeOK /\ FileInv /\ LeasedInv /\ [Next]_vars =>
        [latest # None /\ ~history.shared' /\ ~history.outstayed' =>
           LET old == content[latest]
               new == content'[latest']
           IN  new < old => ~(ledger[old].leased /\ ledger[new].leased)]_vars
  BY ShownStep
<1> QED
  BY <1>1, <1>2, AloneNext, FileNext, LeasedNext, EvidenceTypeCorrect, PTL DEF Spec, ShownInOrder

-----------------------------------------------------------------------------
(* Booking.                                                                  *)

\* Order numbers are of orders that were submitted, and a number is of one pending intent.
NumbersInv ==
    /\ \A i, j \in pending : i.order = j.order => i = j
    /\ \A i \in pending : i.order <= orders
    /\ \A w \in Writers : run[w].intent # None => run[w].intent.order <= orders
    /\ \A w \in Writers : \A i \in run[w].todo : i.order <= orders
    /\ \A r \in 1 .. Len(ledger) : ledger[r].order <= orders
    /\ \A w \in Writers : run[w].pc \in Early => run[w].intent = None
    /\ \A w \in Writers : run[w].pc = "retire" => run[w].recovers

LEMMA NumbersKept ==
    ASSUME TypeOK, NumbersInv, NEW w \in Writers, OthersKeep(w), UNCHANGED <<ledger, orders>>,
           pending' \subseteq pending,
           run'[w].intent # None => run'[w].intent.order <= orders,
           \A i \in run'[w].todo : i.order <= orders,
           run'[w].pc \in Early => run'[w].intent = None,
           run'[w].pc = "retire" => run'[w].recovers
    PROVE  NumbersInv'
<1>1. \A v \in Writers : v = w \/ run'[v] = run[v]
  BY DEF OthersKeep
<1> QED
  BY <1>1 DEF NumbersInv

LEMMA NumbersNext == TypeOK /\ NumbersInv /\ [Next]_vars => NumbersInv'
<1> SUFFICES ASSUME TypeOK, NumbersInv, [Next]_vars PROVE NumbersInv'
  OBVIOUS
<1>0. ASSUME NEW w \in Writers
      PROVE  /\ run[w].intent # None => run[w].intent.order <= orders
             /\ \A i \in run[w].todo : i.order <= orders
             /\ run[w].pc \in Early => run[w].intent = None
             /\ \A i \in pending : i.order <= orders
  BY DEF NumbersInv
<1>1. ASSUME NEW w \in Writers, BeginLeased(w) \/ CycleStep(w) PROVE NumbersInv'
  <2>1. UNCHANGED <<ledger, orders>> /\ pending' \subseteq pending
    BY <1>1, QuietSteps DEF BeginLeased, storeVars
  <2>2. run[w].pc \in Early /\ OthersKeep(w) /\ run'[w].pc # "retire"
    BY <1>1, CycleSteps DEF CycleStep, Early
  <2>3. /\ run'[w].intent # None => run'[w].intent.order <= orders
        /\ \A i \in run'[w].todo : i.order <= orders
    BY <1>0, <1>1, <2>2, CycleSteps DEF CycleStep, Keeps
  <2>4. run'[w].pc \in Early => run'[w].intent = None
    BY <1>0, <1>1, <2>2, CycleSteps DEF CycleStep, Keeps, Early
  <2> QED
    BY <2>1, <2>2, <2>3, <2>4, NumbersKept
<1>2. ASSUME NEW w \in Writers, OrderStep(w) PROVE NumbersInv'
  <2>1. UNCHANGED <<ledger, orders>> /\ pending' \subseteq pending
    BY <1>2, QuietSteps
  <2> QED
    BY <1>0, <1>2, <2>1, OrderSteps, NumbersKept DEF OrderStep, Keeps, Early
<1>3. ASSUME NEW w \in Writers,
             WritePacket(w) \/ FileStep(w) \/ Retire(w) \/ Finish(w) \/ Stop(w)
      PROVE  NumbersInv'
  <2>1. UNCHANGED <<ledger, orders>> /\ pending' \subseteq pending
    BY <1>3 DEF WritePacket, FileStep, OpenTemp, Flush, Replace, Retire, Finish, Stop, storeVars
  <2> QED
    BY <1>0, <1>3, <2>1, PacketSteps, NumbersKept DEF FileStep, Keeps, Early
<1>4. ASSUME NEW w \in Writers, Submit(w) PROVE NumbersInv'
  <2>1. orders' = orders + 1 /\ ledger' = ledger /\ orders \in Int
    BY <1>4 DEF Submit, TypeOK, Order
  <2>2. /\ \A v \in Writers : v = w \/ run'[v] = run[v]
        /\ run'[w].pc = "order" /\ run'[w].todo = run[w].todo
        /\ run'[w].intent.order = orders + 1
        /\ pending' = pending \cup {run'[w].intent}
    BY <1>4, OrderSteps DEF OthersKeep
  <2>3. /\ \A i \in pending : i.order \in Int
        /\ \A v \in Writers : \A i \in run[v].todo : i.order \in Int
        /\ \A v \in Writers : run[v].intent # None => run[v].intent.order \in Int
        /\ \A r \in 1 .. Len(ledger) : ledger[r].order \in Int
    <3>1. /\ pending \subseteq Intent /\ \A i \in Intent : i.order \in Int
          /\ \A v \in Writers : run[v].todo \subseteq Intent /\ run[v].intent \in Intent \cup {None}
      BY DEF TypeOK, Local, Intent, Order
    <3>2. \A r \in 1 .. Len(ledger) : ledger[r].order \in Int
      BY LedgerFacts DEF Record, Order
    <3> QED
      BY <3>1, <3>2
  <2>4. /\ \A i, j \in pending' : i.order = j.order => i = j
        /\ \A i \in pending' : i.order <= orders'
    BY <2>1, <2>2, <2>3 DEF NumbersInv
  <2>5. /\ \A v \in Writers : run'[v].intent # None => run'[v].intent.order <= orders'
        /\ \A v \in Writers : \A i \in run'[v].todo : i.order <= orders'
    BY <2>1, <2>2, <2>3 DEF NumbersInv
  <2>6. \A r \in 1 .. Len(ledger') : ledger'[r].order <= orders'
    BY <2>1, <2>3 DEF NumbersInv
  <2>7. /\ \A v \in Writers : run'[v].pc \in Early => run'[v].intent = None
        /\ \A v \in Writers : run'[v].pc = "retire" => run'[v].recovers
    BY <2>2 DEF NumbersInv, Early
  <2> QED
    BY <2>4, <2>5, <2>6, <2>7 DEF NumbersInv
<1>5. ASSUME NEW w \in Writers, AppendRecord(w) PROVE NumbersInv'
  <2>1. orders' = orders /\ pending' = pending
    BY <1>5 DEF AppendRecord
  <2>2. /\ \A v \in Writers : v = w \/ run'[v] = run[v]
        /\ run'[w].pc = "packet" /\ Keeps(w)
    BY <1>5, OrderSteps DEF OthersKeep
  <2>3. \A r \in 1 .. Len(ledger') : ledger'[r].order <= orders
    <3>1. Entry(w).order <= orders
      BY <1>0 DEF Entry, Fill, TypeOK, Order
    <3>2. \A r \in 1 .. Len(ledger') : r \in 1 .. Len(ledger) \/ r = Len(ledger')
      BY <1>5, AppendFacts, LedgerFacts
    <3> QED
      BY <1>5, <3>1, <3>2, AppendFacts DEF NumbersInv
  <2> QED
    BY <2>1, <2>2, <2>3 DEF NumbersInv, Keeps, Early
<1>6. CASE Lapse \/ Outside \/ UNCHANGED vars
  <2>1. UNCHANGED <<ledger, orders, pending, run>>
    BY <1>6 DEF Lapse, Outside, vars, storeVars
  <2> QED
    BY <2>1 DEF NumbersInv
<1> QED
  BY <1>1, <1>2, <1>3, <1>4, <1>5, <1>6, EnrollmentOutside
     DEF Next, CycleStep, OrderStep, FileStep

\* The records of an order, without those whose recovery stopped before the intent was
\* closed.
Booked(o) == Records(o) \ history.cut

\* A process with the fill of an order has no record of it yet, or it has the only one.
Booking(w) ==
    /\ run[w].pc = "recover" \/ run[w].recovers => run[w].todo \subseteq pending
    /\ run[w].recovers => run[w].intent \in pending /\ run[w].intent \notin run[w].todo
    /\ run[w].pc = "order" => run[w].intent \in pending
    /\ run[w].pc \in Recording \cup {"retire"} => ledger[run[w].record].order = Fill(w)
    /\ run[w].pc = "retire" => packets[run[w].record] # None
    /\ run[w].intent # None =>
        /\ ~run[w].recovers /\ run[w].pc \in {"append"} \cup Recording => ~Open(run[w].intent.order)
        /\ run[w].pc \in {"order", "append"} => Booked(run[w].intent.order) = {}
        /\ run[w].recovers /\ run[w].pc # "append" =>
               Booked(run[w].intent.order) \subseteq {run[w].record}

\* An order that is both booked and pending is being retired.
BookedSound(o) ==
    /\ \A q, r \in Booked(o) : q = r
    /\ Open(o) /\ Booked(o) # {} =>
        \E w \in Writers : run[w].recovers /\ run[w].pc # "append" /\ Fill(w) = o

\* An order that filled is pending, or has its packet, or is about to have it.
Shown(o) ==
    \/ Open(o)
    \/ \E r \in Records(o) : packets[r] # None
    \/ \E w \in Writers : run[w].pc \in {"append", "packet"} /\ Fill(w) = o

BookSound ==
    /\ \A w \in Writers : Booking(w)
    /\ \A o \in Submitted : BookedSound(o)
    /\ \A o \in filled \ history.lost : Shown(o)

BookInv == ~history.outstayed => BookSound

LEMMA OrderFacts ==
    ASSUME TypeOK
    PROVE  /\ \A i \in Intent : i.order \in Int /\ i.order # 0 /\ i # None
           /\ \A w \in Writers : /\ run[w].intent \in Intent \cup {None}
                                 /\ run[w].todo \subseteq Intent
                                 /\ run[w].recovers \in BOOLEAN
                                 /\ run[w].recovers => run[w].intent # None
                                 /\ run[w].recovers => run[w].pc \in {"append", "retire"} \cup Recording
                                 /\ run[w].pc = "order" => run[w].intent # None
                                 /\ run[w].pc \in {"retire"} \cup Recording =>
                                        run[w].record \in 1 .. Len(ledger)
                                 /\ run[w].intent # None => Fill(w) = run[w].intent.order
                                 /\ run[w].intent = None => Fill(w) = 0
           /\ pending \subseteq Intent
           /\ \A o \in Submitted : o \in Int /\ o # 0
           /\ filled \subseteq Submitted
<1>1. \A i \in Intent : i.order \in Int /\ i.order # 0 /\ i # None
  BY Bounds DEF Intent, Order
<1>2. \A w \in Writers : run[w] \in Local /\ Equipped(run[w])
  BY DEF TypeOK
<1>3. \A o \in Submitted : o \in Int /\ o # 0
  BY DEF Submitted, TypeOK, Order
<1>4. filled \subseteq Submitted
  BY DEF TypeOK, Submitted
<1> QED
  BY <1>1, <1>2, <1>3, <1>4 DEF TypeOK, Local, Equipped, Recording, Fill

\* While no lease lapsed under its process, a process at these places is the only one with
\* an intent.
LEMMA Sole ==
    ASSUME TypeOK, AloneInv, ~history.outstayed, NEW w \in Writers,
           \/ run[w].intent # None
           \/ run[w].pc \in {"list", "recover", "begin", "act", "order", "retire"},
           NEW v \in Writers \ {w}
    PROVE  /\ run[v].intent = None /\ ~run[v].recovers
           /\ run[v].pc \in {"idle", "snapshot", "append", "end"} \cup Recording
<1>1. w \in active
  BY DEF AloneInv, Recording
<1>2. v \notin active
  BY <1>1 DEF AloneInv
<1>3. run[v].intent = None /\ run[v].pc \in {"idle", "snapshot", "append", "end"} \cup Recording
  BY <1>2 DEF AloneInv
<1> QED
  BY <1>3, OrderFacts

\* A process without an intent.
Bare(v) ==
    /\ run[v].intent = None /\ ~run[v].recovers
    /\ run[v].pc \notin {"recover", "order", "retire"}

LEMMA BookingBare ==
    ASSUME TypeOK, BookSound, NEW v \in Writers, run'[v] = run[v], Bare(v),
           \A r \in 1 .. Len(ledger) : ledger'[r] = ledger[r]
    PROVE  Booking(v)'
<1>1. run[v].pc \in Recording => run[v].record \in 1 .. Len(ledger)
  BY FileFacts
<1> QED
  BY <1>1 DEF BookSound, Booking, Fill, Bare

\* A step that adds no record, no packet and no order.
LEMMA BookKept ==
    ASSUME TypeOK, BookSound, NEW w \in Writers, OthersKeep(w),
           UNCHANGED <<ledger, orders, filled, packets>>, pending' \subseteq pending,
           pending' = pending \/ \A v \in Writers \ {w} : Bare(v),
           history.cut \subseteq history'.cut, history.lost \subseteq history'.lost,
           Booking(w)',
           \A o \in Submitted :
             Fill(w) = o /\ run[w].recovers /\ run[w].pc # "append" =>
                 \/ run'[w].recovers /\ run'[w].pc # "append" /\ Fill(w)' = o
                 \/ Booked(o)' = {} \/ ~Open(o)',
           \A o \in filled \ history'.lost :
             Open(o) \/ (run[w].pc \in {"append", "packet"} /\ Fill(w) = o) => Shown(o)'
    PROVE  BookSound'
<1>1. \A v \in Writers : v = w \/ (run'[v] = run[v] /\ Fill(v)' = Fill(v))
  BY DEF OthersKeep, Fill
<1>2. /\ Submitted' = Submitted
      /\ \A o : (Open(o)' => Open(o)) /\ Records(o)' = Records(o) /\ Booked(o)' \subseteq Booked(o)
  BY DEF Submitted, Open, Records, Booked
<1>3. ASSUME NEW v \in Writers, v # w PROVE Booking(v)'
  <2>1. run'[v] = run[v] /\ Fill(v)' = Fill(v) /\ Booking(v)
    BY <1>1, <1>3 DEF BookSound
  <2>2. CASE pending' = pending
    BY <1>2, <2>1, <2>2 DEF Booking
  <2>3. CASE Bare(v)
    BY <2>1, <2>3, BookingBare
  <2> QED
    BY <1>3, <2>2, <2>3
<1>4. ASSUME NEW o \in Submitted PROVE BookedSound(o)'
  <2>1. BookedSound(o)
    BY <1>4 DEF BookSound
  <2>2. \A q, r \in Booked(o)' : q = r
    BY <1>2, <2>1 DEF BookedSound
  <2>3. ASSUME Open(o)', Booked(o)' # {}
        PROVE  \E v \in Writers : run'[v].recovers /\ run'[v].pc # "append" /\ Fill(v)' = o
    <3>1. PICK v \in Writers : run[v].recovers /\ run[v].pc # "append" /\ Fill(v) = o
      BY <1>2, <2>1, <2>3 DEF BookedSound
    <3> QED
      BY <1>1, <2>3, <3>1
  <2> QED
    BY <2>2, <2>3 DEF BookedSound
<1>5. ASSUME NEW o \in filled \ history'.lost PROVE Shown(o)'
  <2>1. Shown(o)
    BY <1>5 DEF BookSound
  <2>2. CASE Open(o) \/ (run[w].pc \in {"append", "packet"} /\ Fill(w) = o)
    BY <1>5, <2>2
  <2>3. CASE \E r \in Records(o) : packets[r] # None
    BY <1>2, <2>3 DEF Shown
  <2>4. CASE \E v \in Writers \ {w} : run[v].pc \in {"append", "packet"} /\ Fill(v) = o
    BY <1>1, <2>4 DEF Shown
  <2> QED
    BY <2>1, <2>2, <2>3, <2>4 DEF Shown
<1> QED
  BY <1>2, <1>3, <1>4, <1>5 DEF BookSound

\* An intent is closed: no other pending intent is of its order.
LEMMA BookClosed ==
    ASSUME NumbersInv, NEW i \in pending, pending' = pending \ {i}
    PROVE  ~Open(i.order)' /\ \A o : o # i.order /\ Open(o) => Open(o)'
BY DEF NumbersInv, Open

LEMMA BookCycle ==
    ASSUME TypeOK, AloneInv, NumbersInv, BookSound, ~history.outstayed, NEW w \in Writers,
           BeginLeased(w) \/ CycleStep(w)
    PROVE  BookSound'
<1>1. /\ UNCHANGED <<ledger, orders, filled, packets, history>> /\ OthersKeep(w)
      /\ pending' \subseteq pending /\ run[w].pc \in Early
  BY QuietSteps, CycleSteps DEF BeginLeased, CycleStep, storeVars, Early
<1>2. ~run[w].recovers /\ run[w].intent = None /\ Booking(w)
  BY <1>1, OrderFacts DEF NumbersInv, Early, Recording, BookSound
<1>3. \A o : Booked(o)' = Booked(o)
  BY <1>1 DEF Booked, Records
<1>4. CASE RecoverDead(w)
  <2>1. PICK i \in run[w].todo :
          i.order \notin filled /\ pending' = pending \ {i} /\ run'[w].todo = run[w].todo \ {i}
    BY <1>4, CycleSteps
  <2>2. /\ run[w].pc = "recover" /\ run'[w].pc = "recover"
        /\ run'[w].intent = None /\ ~run'[w].recovers
    BY <1>2, <1>4, CycleSteps
  <2>3. run[w].todo \subseteq pending
    BY <1>2, <2>2 DEF Booking
  <2>4. Booking(w)'
    BY <2>1, <2>2, <2>3 DEF Booking, Recording
  <2>5. \A v \in Writers \ {w} : Bare(v)
    BY <2>2, Sole DEF Bare, Recording
  <2>6. \A o \in filled : Open(o) => Shown(o)'
    BY <2>1, <2>3, BookClosed DEF Shown
  <2> QED
    BY <1>1, <1>2, <2>2, <2>4, <2>5, <2>6, BookKept
<1>5. CASE ~RecoverDead(w)
  <2>1. pending' = pending
    BY <1>5 DEF BeginLeased, CycleStep, BeginView, List, Recover, Unresolved, GoOn, Begin,
       Snapshot, NoOrder, storeVars
  <2>2. Booking(w)'
    <3>1. CASE Recover(w)
      <4>1. PICK i \in run[w].todo : run'[w].intent = i /\ run'[w].todo = run[w].todo \ {i}
        BY <3>1, CycleSteps
      <4>2. run[w].pc = "recover" /\ run'[w].pc = "append" /\ run'[w].recovers
        BY <3>1, CycleSteps
      <4>3. run[w].todo \subseteq pending /\ i \in pending /\ i \in Intent
        BY <1>2, <4>2, OrderFacts DEF Booking
      <4>4. Booked(i.order) = {}
        <5> SUFFICES ASSUME Booked(i.order) # {} PROVE FALSE
          OBVIOUS
        <5>1. i.order \in Submitted
          BY <4>3, OrderFacts DEF NumbersInv, Submitted, Intent, Order, TypeOK
        <5>2. Open(i.order)
          BY <4>3 DEF Open
        <5>3. PICK v \in Writers : run[v].recovers
          BY <5>1, <5>2 DEF BookSound, BookedSound
        <5> QED
          BY <1>2, <4>2, <5>3, Sole
      <4> QED
        BY <1>3, <2>1, <4>1, <4>2, <4>3, <4>4 DEF Booking, Recording
    <3>2. CASE List(w) \/ Unresolved(w)
      <4>1. /\ run'[w].intent = None /\ ~run'[w].recovers /\ run'[w].pc = "recover"
            /\ run'[w].todo \subseteq pending
        BY <1>2, <3>2, CycleSteps DEF Booking
      <4> QED
        BY <2>1, <4>1 DEF Booking, Recording
    <3>3. CASE \/ BeginLeased(w) \/ BeginView(w) \/ GoOn(w) \/ Begin(w) \/ Snapshot(w)
               \/ NoOrder(w)
      <4>1. /\ run'[w].intent = None /\ ~run'[w].recovers
            /\ run'[w].pc \in {"list", "begin", "snapshot", "act", "append", "end"}
        BY <1>2, <3>3, CycleSteps DEF Keeps
      <4> QED
        BY <4>1 DEF Booking, Recording
    <3> QED
      BY <1>5, <3>1, <3>2, <3>3 DEF CycleStep
  <2>3. \A o : Open(o) => Shown(o)'
    BY <2>1 DEF Open, Shown
  <2> QED
    BY <1>1, <1>2, <2>1, <2>2, <2>3, BookKept DEF Early
<1> QED
  BY <1>4, <1>5

LEMMA BookOrder ==
    ASSUME TypeOK, AloneInv, NumbersInv, BookSound, ~history.outstayed, NEW w \in Writers,
           OrderStep(w)
    PROVE  BookSound'
<1>0. PICK i : i = run[w].intent
  OBVIOUS
<1>1. /\ UNCHANGED <<ledger, orders, filled, packets, history>> /\ OthersKeep(w)
      /\ pending' \subseteq pending /\ run[w].pc = "order" /\ run'[w].pc = "append"
  BY QuietSteps, OrderSteps DEF OrderStep
<1>2. /\ ~run[w].recovers /\ i \in pending /\ i # None /\ Fill(w) = i.order
      /\ Booked(i.order) = {}
  BY <1>0, <1>1, OrderFacts DEF BookSound, Booking, Recording
<1>3. \A v \in Writers \ {w} : Bare(v)
  BY <1>1, Sole DEF Bare, Recording
<1>4. \A o : Booked(o)' = Booked(o)
  BY <1>1 DEF Booked, Records
<1>5. CASE Settled(w)
  <2>1. /\ pending' = pending \ {i} /\ run'[w].intent = i /\ ~run'[w].recovers
        /\ Fill(w)' = i.order
    BY <1>0, <1>2, <1>5, OrderSteps DEF Settled, Keeps, Fill
  <2>2. ~Open(i.order)' /\ \A o : o # i.order /\ Open(o) => Open(o)'
    BY <1>2, <2>1, BookClosed
  <2>3. Booking(w)'
    BY <1>1, <1>2, <1>4, <2>1, <2>2 DEF Booking, Recording
  <2>4. \A o : Open(o) => Shown(o)'
    BY <1>1, <2>1, <2>2 DEF Shown
  <2> QED
    BY <1>1, <1>2, <1>3, <2>3, <2>4, BookKept
<1>6. CASE SettledDead(w) \/ Unsettled(w)
  <2>1. run'[w].intent = None /\ ~run'[w].recovers
    BY <1>2, <1>6, OrderSteps
  <2>2. Booking(w)'
    BY <1>1, <2>1 DEF Booking, Recording
  <2>3. \A o \in filled : Open(o) => Shown(o)'
    <3>1. CASE SettledDead(w)
      BY <1>0, <1>2, <3>1, BookClosed DEF SettledDead, Shown
    <3>2. CASE Unsettled(w)
      BY <3>2 DEF Unsettled, storeVars, Open, Shown
    <3> QED
      BY <1>6, <3>1, <3>2
  <2> QED
    BY <1>1, <1>2, <1>3, <2>2, <2>3, BookKept
<1> QED
  BY <1>5, <1>6 DEF OrderStep

LEMMA BookFile ==
    ASSUME TypeOK, FileInv, NumbersInv, BookSound, NEW w \in Writers, FileStep(w)
    PROVE  BookSound'
<1>1. /\ UNCHANGED storeVars /\ OthersKeep(w) /\ Keeps(w)
      /\ history'.cut = history.cut /\ history'.lost = history.lost
  BY NotedByOpen, PacketSteps DEF FileStep, OpenTemp, Flush, Replace
<1>2. Fill(w)' = Fill(w)
  BY <1>1 DEF Keeps, Fill
<1>3. /\ run[w].pc \in {"open", "flush", "replace"}
      /\ \/ run'[w].pc \in Recording \ {"packet"} /\ run'[w].record = run[w].record
         \/ run[w].recovers /\ run'[w].pc = "retire" /\ run'[w].record = run[w].record
         \/ ~run[w].recovers /\ run'[w].pc = "end"
  BY PacketSteps DEF FileStep, Recording
<1>4. /\ pending' = pending /\ ledger' = ledger /\ packets' = packets
      /\ \A o : Open(o)' = Open(o) /\ Booked(o)' = Booked(o)
  BY <1>1 DEF storeVars, Open, Booked, Records
<1>5. Booking(w) /\ packets[run[w].record] # None
  BY <1>3 DEF BookSound, FileInv, FileOwned
<1>6. Booking(w)'
  BY <1>1, <1>2, <1>3, <1>4, <1>5 DEF Booking, Keeps, Recording
<1>7. \A o : Open(o) => Shown(o)'
  BY <1>4 DEF Shown
<1> QED
  BY <1>1, <1>2, <1>3, <1>6, <1>7, BookKept DEF storeVars, Keeps, Recording

LEMMA BookRetire ==
    ASSUME TypeOK, AloneInv, NumbersInv, BookSound, ~history.outstayed, NEW w \in Writers, Retire(w)
    PROVE  BookSound'
<1>0. PICK i : i = run[w].intent
  OBVIOUS
<1>1. /\ run[w].pc = "retire" /\ run'[w].pc = "recover" /\ OthersKeep(w)
      /\ run'[w].intent = None /\ ~run'[w].recovers /\ run'[w].todo = run[w].todo
  BY PacketSteps
<1>2. /\ UNCHANGED <<ledger, orders, filled, packets, history>> /\ pending' = pending \ {i}
  BY <1>0 DEF Retire
<1>3. /\ run[w].recovers /\ i \in pending /\ i # None /\ Fill(w) = i.order
      /\ run[w].todo \subseteq pending /\ i \notin run[w].todo
      /\ ledger[run[w].record].order = i.order /\ packets[run[w].record] # None
  <2>1. run[w].recovers
    BY <1>1 DEF NumbersInv
  <2> QED
    BY <1>0, <1>1, <2>1, OrderFacts DEF BookSound, Booking
<1>4. run[w].record \in Records(i.order)'
  BY <1>1, <1>2, <1>3, OrderFacts DEF Records
<1>5. ~Open(i.order)' /\ \A o : o # i.order /\ Open(o) => Open(o)'
  BY <1>2, <1>3, BookClosed
<1>6. Booking(w)'
  BY <1>1, <1>2, <1>3 DEF Booking, Recording
<1>7. \A v \in Writers \ {w} : Bare(v)
  BY <1>1, Sole DEF Bare, Recording
<1>8. \A o : Open(o) => Shown(o)'
  BY <1>2, <1>3, <1>4, <1>5 DEF Shown
<1> QED
  BY <1>1, <1>2, <1>3, <1>5, <1>6, <1>7, <1>8, BookKept

LEMMA BookEnd ==
    ASSUME TypeOK, NumbersInv, BookSound, NEW w \in Writers, Finish(w) \/ Stop(w)
    PROVE  BookSound'
<1>1. /\ UNCHANGED storeVars /\ OthersKeep(w)
      /\ history.cut \subseteq history'.cut /\ history.lost \subseteq history'.lost
  BY NotedByStop, PacketSteps DEF Finish, Stop
<1>2. Booking(w)'
  BY PacketSteps DEF Booking, Recording
<1>3. \A o : Open(o) => Shown(o)'
  BY <1>1 DEF storeVars, Open, Shown
<1>4. CASE Finish(w)
  <2>1. run[w].pc \in {"end", "recover"} /\ ~run[w].recovers
    BY <1>4, OrderFacts DEF Finish, At, Recording
  <2> QED
    BY <1>1, <1>2, <1>3, <2>1, BookKept DEF storeVars
<1>5. CASE Stop(w)
  <2>1. ASSUME NEW o \in Submitted, Fill(w) = o, run[w].recovers, run[w].pc # "append"
        PROVE  Booked(o)' = {}
    <3>1. run[w].intent # None /\ run[w].intent.order = o
      BY <2>1, OrderFacts
    <3>2. Booked(o) \subseteq {run[w].record}
      BY <2>1, <3>1 DEF BookSound, Booking
    <3>3. run[w].record # 0
      BY <2>1, OrderFacts, LedgerFacts DEF Recording
    <3>4. run[w].record \in history'.cut
      BY <1>5, <2>1, <3>3, NotedByStop DEF Unretired
    <3> QED
      BY <1>1, <3>2, <3>4 DEF Booked, Records, storeVars
  <2>2. ASSUME NEW o \in filled \ history'.lost, run[w].pc \in {"append", "packet"}, Fill(w) = o
        PROVE  Open(o)
    <3>1. run[w].intent # None /\ run[w].intent.order = o /\ o # 0
      BY <2>2, OrderFacts
    <3>2. run[w].recovers
      BY <1>5, <2>2, <3>1, NotedByStop DEF Unshown
    <3> QED
      BY <3>1, <3>2 DEF BookSound, Booking, Open
  <2> QED
    BY <1>1, <1>2, <1>3, <2>1, <2>2, BookKept DEF storeVars
<1> QED
  BY <1>4, <1>5

LEMMA BookSubmit ==
    ASSUME TypeOK, AloneInv, NumbersInv, BookSound, ~history.outstayed, NEW w \in Writers, Submit(w)
    PROVE  BookSound'
<1>1. PICK i \in Intent :
        /\ run[w].pc = "act" /\ run'[w].pc = "order" /\ OthersKeep(w) /\ run'[w].intent = i
        /\ i.order = orders + 1 /\ pending' = pending \cup {i}
        /\ run'[w].recovers = run[w].recovers
  BY OrderSteps
<1>2. /\ ledger' = ledger /\ packets' = packets /\ history' = history /\ orders' = orders + 1
      /\ filled' \subseteq filled \cup {i.order}
      /\ orders \in Int /\ \A o : Records(o)' = Records(o) /\ Booked(o)' = Booked(o)
  BY <1>1 DEF Submit, Booked, Records, TypeOK, Order
<1>3. ~run[w].recovers /\ run[w].intent = None /\ Fill(w) = 0 /\ i # None
  BY <1>1, OrderFacts DEF NumbersInv, Early, Recording
<1>4. Booked(i.order) = {}
  <2>1. \A r \in 1 .. Len(ledger) : ledger[r].order \in Int /\ ledger[r].order <= orders
    BY LedgerFacts DEF NumbersInv, Record, Order
  <2> QED
    BY <1>1, <1>2, <2>1 DEF Booked, Records
<1>5. Booking(w)'
  BY <1>1, <1>2, <1>3, <1>4 DEF Booking, Recording
<1>6. ASSUME NEW v \in Writers \ {w} PROVE Booking(v)'
  <2>1. Bare(v)
    BY <1>1, Sole DEF Bare, Recording
  <2> QED
    BY <1>1, <1>2, <2>1, BookingBare DEF OthersKeep
<1>7. ASSUME NEW o, o # i.order PROVE Open(o)' = Open(o)
  BY <1>1, <1>7 DEF Open
<1>8. \A v \in Writers : Fill(v) # 0 => run'[v] = run[v] /\ Fill(v)' = Fill(v)
  BY <1>1, <1>3 DEF OthersKeep, Fill
<1>9. ASSUME NEW o \in Submitted PROVE BookedSound(o)'
  <2>1. BookedSound(o) /\ o # i.order /\ o # 0
    BY <1>1, <1>2, <1>9, OrderFacts DEF BookSound, Submitted
  <2> QED
    BY <1>2, <1>7, <1>8, <2>1 DEF BookedSound
<1>10. BookedSound(i.order)'
  BY <1>2, <1>4 DEF BookedSound
<1>11. Submitted' \subseteq Submitted \cup {i.order}
  BY <1>1, <1>2 DEF Submitted
<1>12. ASSUME NEW o \in filled \ history.lost PROVE Shown(o)'
  <2>1. Shown(o) /\ o # i.order /\ o # 0
    BY <1>1, <1>2, <1>12, OrderFacts DEF BookSound, Submitted
  <2> QED
    BY <1>2, <1>7, <1>8, <2>1 DEF Shown
<1>13. Shown(i.order)'
  BY <1>1 DEF Shown, Open
<1> QED
  BY <1>2, <1>5, <1>6, <1>9, <1>10, <1>11, <1>12, <1>13 DEF BookSound

LEMMA BookAppend ==
    ASSUME TypeOK, AloneInv, BookSound, ~history.outstayed, NEW w \in Writers, AppendRecord(w)
    PROVE  BookSound'
<1>0. PICK n, f : n = Len(ledger) + 1 /\ f = Fill(w)
  OBVIOUS
<1>1. /\ run[w].pc = "append" /\ run'[w].pc = "packet" /\ OthersKeep(w) /\ Keeps(w)
      /\ run'[w].record = n
  BY <1>0, OrderSteps
<1>2. /\ packets' = packets /\ history' = history /\ pending' = pending /\ filled' = filled
      /\ Submitted' = Submitted /\ \A o : Open(o)' = Open(o)
  BY DEF AppendRecord, Submitted, Open
<1>3. /\ Len(ledger) \in Nat /\ Len(ledger') = n /\ ledger'[n].order = f
      /\ \A r \in 1 .. Len(ledger) : ledger'[r] = ledger[r]
  <2>1. Entry(w).order = Fill(w)
    BY DEF Entry
  <2> QED
    BY <1>0, <2>1, AppendFacts, LedgerFacts
<1>4. /\ \A o : o # f => Records(o)' = Records(o)
      /\ Records(f)' = Records(f) \cup {n}
  <2>1. 1 .. Len(ledger') = 1 .. Len(ledger) \cup {n} /\ n \notin 1 .. Len(ledger)
    BY <1>0, <1>3
  <2> QED
    BY <1>3, <2>1 DEF Records
<1>5. /\ \A o : o # f => Booked(o)' = Booked(o)
      /\ Booked(f)' \subseteq Booked(f) \cup {n}
  BY <1>2, <1>4 DEF Booked
<1>6. \A v \in Writers : Fill(v)' = Fill(v) /\ (v = w \/ run'[v] = run[v])
  BY <1>1 DEF OthersKeep, Keeps, Fill
<1>7. /\ Booking(w)
      /\ run[w].intent # None => /\ f = run[w].intent.order /\ Booked(f) = {}
                                 /\ ~run[w].recovers => ~Open(f)
  BY <1>0, <1>1, OrderFacts DEF BookSound, Booking
<1>8. Booking(w)'
  BY <1>0, <1>1, <1>2, <1>3, <1>5, <1>6, <1>7 DEF Booking, Keeps, Recording
<1>9. ASSUME NEW v \in Writers \ {w} PROVE Booking(v)'
  <2>1. run'[v] = run[v] /\ Fill(v)' = Fill(v) /\ Booking(v)
    BY <1>6, <1>9 DEF BookSound
  <2>2. ASSUME run[v].intent # None PROVE run[w].intent = None
    <3>1. w \in Writers \ {v}
      BY <1>9
    <3> QED
      BY <2>2, <3>1, Sole
  <2>3. ASSUME run[v].intent # None
        PROVE  Booked(run[v].intent.order)' = Booked(run[v].intent.order)
    <3>1. f = 0
      BY <1>0, <2>2, <2>3, OrderFacts
    <3>2. run[v].intent.order # 0
      BY <1>9, <2>3, OrderFacts
    <3> QED
      BY <1>5, <2>1, <3>1, <3>2
  <2>4. run[v].pc \in Recording \cup {"retire"} => ledger'[run[v].record] = ledger[run[v].record]
    BY <1>3, OrderFacts DEF Recording
  <2> QED
    BY <1>2, <2>1, <2>3, <2>4 DEF Booking
<1>10. \A v \in Writers :
         /\ run'[v].recovers = run[v].recovers
         /\ run'[v].pc = run[v].pc \/ (v = w /\ run[v].pc = "append" /\ run'[v].pc = "packet")
  BY <1>1, <1>6 DEF Keeps
<1>11. ASSUME NEW o \in Submitted PROVE BookedSound(o)'
  <2>1. BookedSound(o) /\ o # 0
    BY <1>11, OrderFacts DEF BookSound
  <2>2. CASE o = f
    <3>1. run[w].intent # None
      BY <1>0, <2>1, <2>2, OrderFacts
    <3>2. Booked(o)' \subseteq {n} /\ (~run[w].recovers => ~Open(o))
      BY <1>5, <1>7, <2>2, <3>1
    <3>3. run'[w].recovers = run[w].recovers /\ Fill(w)' = o /\ run'[w].pc # "append"
      BY <1>0, <1>1, <1>6, <2>2 DEF Keeps
    <3> QED
      BY <1>2, <3>2, <3>3 DEF BookedSound
  <2>3. CASE o # f
    <3>1. Booked(o)' = Booked(o) /\ Open(o)' = Open(o)
      BY <1>2, <1>5, <2>3
    <3> QED
      BY <1>6, <1>10, <2>1, <3>1 DEF BookedSound
  <2> QED
    BY <2>2, <2>3
<1>12. ASSUME NEW o \in filled \ history.lost PROVE Shown(o)'
  <2>1. Shown(o) /\ Records(o) \subseteq Records(o)'
    BY <1>4, <1>12 DEF BookSound
  <2> QED
    BY <1>2, <1>6, <1>10, <2>1 DEF Shown
<1> QED
  BY <1>2, <1>8, <1>9, <1>11, <1>12 DEF BookSound

LEMMA BookPacket ==
    ASSUME TypeOK, BookSound, NEW w \in Writers, WritePacket(w)
    PROVE  BookSound'
<1>0. PICK k : k = run[w].record
  OBVIOUS
<1>1. /\ run[w].pc = "packet" /\ run'[w].pc = "open" /\ OthersKeep(w) /\ Keeps(w)
      /\ run'[w].record = k
  BY <1>0, PacketSteps
<1>2. /\ ledger' = ledger /\ history' = history /\ pending' = pending /\ filled' = filled
      /\ Submitted' = Submitted
      /\ \A o : Open(o)' = Open(o) /\ Records(o)' = Records(o) /\ Booked(o)' = Booked(o)
  BY DEF WritePacket, Submitted, Open, Booked, Records
<1>3. k \in 1 .. Len(ledger) /\ k \in RecordId
  BY <1>0, <1>1, FileFacts DEF Recording
<1>4. packets'[k] # None /\ \A r \in RecordId : packets[r] # None => packets'[r] # None
  <2>1. Named # None
    BY Bounds DEF Named
  <2> QED
    BY <1>0, <1>3, <2>1 DEF WritePacket, TypeOK
<1>5. \A o : Records(o) \subseteq RecordId
  BY LedgerFacts DEF Records
<1>6. k \in Records(Fill(w))
  BY <1>0, <1>1, <1>3 DEF BookSound, Booking, Recording, Records
<1>7. \A v \in Writers : Fill(v)' = Fill(v) /\ (v = w \/ run'[v] = run[v])
  BY <1>1 DEF OthersKeep, Keeps, Fill
<1>8. Booking(w)'
  BY <1>0, <1>1, <1>2, <1>7 DEF BookSound, Booking, Keeps, Recording
<1>9. ASSUME NEW v \in Writers \ {w} PROVE Booking(v)'
  <2>1. run'[v] = run[v] /\ Fill(v)' = Fill(v) /\ Booking(v)
    BY <1>7, <1>9 DEF BookSound
  <2>2. run[v].pc = "retire" => packets'[run[v].record] # None
    BY <1>4, <2>1, OrderFacts, LedgerFacts DEF Booking
  <2> QED
    BY <1>2, <2>1, <2>2 DEF Booking
<1>10. ASSUME NEW o \in Submitted PROVE BookedSound(o)'
  <2>1. BookedSound(o)
    BY <1>10 DEF BookSound
  <2>2. \A v \in Writers : run[v].recovers /\ run[v].pc # "append" =>
          run'[v].recovers /\ run'[v].pc # "append"
    BY <1>1, <1>7 DEF Keeps
  <2> QED
    BY <1>2, <1>7, <2>1, <2>2 DEF BookedSound
<1>11. ASSUME NEW o \in filled \ history.lost PROVE Shown(o)'
  <2>1. Shown(o)
    BY <1>11 DEF BookSound
  <2> QED
    BY <1>2, <1>4, <1>5, <1>6, <1>7, <2>1 DEF Shown
<1> QED
  BY <1>2, <1>8, <1>9, <1>10, <1>11 DEF BookSound

LEMMA BookNext ==
    TypeOK /\ AloneInv /\ FileInv /\ NumbersInv /\ BookInv /\ [Next]_vars => BookInv'
<1> SUFFICES ASSUME TypeOK, AloneInv, FileInv, NumbersInv, BookInv, [Next]_vars,
                    ~history'.outstayed
             PROVE  BookSound'
  BY DEF BookInv
<1>1. ~history.outstayed
  <2> SUFFICES ASSUME history.outstayed PROVE FALSE
    OBVIOUS
  <2>1. ASSUME NEW w \in Writers, OpenTemp(w) \/ Stop(w) PROVE FALSE
    BY <2>1, NotedByOpen, NotedByStop
  <2>2. ~Lapse /\ ~Outside
    BY NotedByLapse DEF Outside
  <2>3. ASSUME NEW w \in Writers, CycleStep(w) \/ OrderStep(w) PROVE FALSE
    BY <2>3, QuietSteps
  <2> QED
    BY <2>1, <2>2, <2>3, EnrollmentOutside DEF Next, CycleStep, OrderStep, vars, BeginLeased,
       Submit, AppendRecord, WritePacket, Flush, Replace, Retire, Finish
<1>2. BookSound
  BY <1>1 DEF BookInv
<1>3. CASE Lapse \/ Outside \/ UNCHANGED vars
  <2>1. /\ UNCHANGED storeVars /\ run' = run
        /\ history'.cut = history.cut /\ history'.lost = history.lost
    BY <1>3, NotedByLapse DEF Lapse, Outside, vars
  <2>2. /\ UNCHANGED <<ledger, packets, pending, filled, orders>>
        /\ \A o : /\ Open(o)' = Open(o) /\ Records(o)' = Records(o) /\ Booked(o)' = Booked(o)
        /\ \A v : Fill(v)' = Fill(v)
        /\ Submitted' = Submitted
    BY <2>1 DEF storeVars, Open, Records, Booked, Fill, Submitted
  <2>3. /\ \A v \in Writers : Booking(v)'
        /\ \A o \in Submitted' : BookedSound(o)'
        /\ \A o \in filled' \ history'.lost : Shown(o)'
    BY <1>2, <2>1, <2>2 DEF BookSound, Booking, BookedSound, Shown
  <2> QED
    BY <2>3 DEF BookSound
<1> QED
  BY <1>1, <1>2, <1>3, EnrollmentOutside, BookCycle, BookOrder, BookSubmit, BookAppend,
     BookPacket, BookFile, BookRetire, BookEnd DEF Next, CycleStep, OrderStep, FileStep

LEMMA BookStarts == Init => AloneInv /\ FileInv /\ NumbersInv /\ BookInv
<1> SUFFICES ASSUME Init PROVE AloneInv /\ FileInv /\ NumbersInv /\ BookInv
  OBVIOUS
<1>1. /\ Len(ledger) = 0 /\ pending = {} /\ orders = 0 /\ filled = {} /\ active = {}
      /\ latest = None /\ (\A p \in Pids : temp[p] = None)
      /\ \A w \in Writers : run[w] = Idle
  BY DEF Init
<1>2. Idle.pc = "idle" /\ Idle.intent = None /\ ~Idle.recovers /\ Idle.todo = {}
  BY DEF Idle
<1>3. AloneInv /\ FileInv /\ NumbersInv
  BY <1>1, <1>2 DEF AloneInv, FileInv, FilesApart, WritersApart, FileOwned, ShownWhole,
     Publishing, NumbersInv
<1>4. \A w \in Writers : Booking(w)
  BY <1>1, <1>2 DEF Booking, Recording
<1>5. Submitted = {} /\ filled = {}
  BY <1>1 DEF Submitted
<1> QED
  BY <1>3, <1>4, <1>5 DEF BookInv, BookSound

\* Apart from the records whose recovery stopped before the intent was closed, a fill has
\* at most one record, wherever else cycles stop, unless a process outstayed its lease.
THEOREM BookedOnceHolds == Spec => []BookedOnce
<1>1. BookInv => BookedOnce
  BY DEF BookInv, BookSound, BookedSound, Booked, BookedOnce
<1> QED
  BY <1>1, BookStarts, AloneNext, FileNext, NumbersNext, BookNext, EvidenceTypeCorrect,
     PTL DEF Spec

\* The intent of an order that filled is closed only after a record of the order has its
\* packet, wherever recoveries stop, or by a run that is about to write them or that
\* stopped before it did, unless a process outstayed its lease.
THEOREM RetiredHasPacketHolds == Spec => []RetiredHasPacket
<1>1. BookInv => RetiredHasPacket
  BY DEF BookInv, BookSound, Shown, RetiredHasPacket
<1> QED
  BY <1>1, BookStarts, AloneNext, FileNext, NumbersNext, BookNext, EvidenceTypeCorrect,
     PTL DEF Spec
=============================================================================
