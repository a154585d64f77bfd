-------------------------- MODULE ExecutionProofs --------------------------
(* Theorems about Execution, for every value of its constants.               *)
EXTENDS Execution, TLAPS

USE ActorsAssumption, BoundsAssumption DEF Actors

-----------------------------------------------------------------------------
(* Lemmas about the operators the actions are built from.                    *)

\* A cycle record put in the place of a process's cycle leaves the cycles typed.
LEMMA UpdateTyped ==
    ASSUME CycleTyped, NEW a \in Actors, NEW c \in CycleState, Equipped(c), Update(a, c)
    PROVE  CycleTyped'
<1>1. cycle' \in [Actors -> CycleState]
    BY DEF CycleTyped, Update
<1>2. ASSUME NEW b \in Actors PROVE Equipped(cycle'[b])
    BY DEF CycleTyped, Update
<1> QED
    BY <1>1, <1>2 DEF CycleTyped, Equipped

\* Saving a row leaves the table of intents typed.
LEMMA SaveTyped ==
    ASSUME intents \subseteq Row, NEW r \in Row, Save(r)
    PROVE  intents' \subseteq Row
BY DEF Save

\* The idle cycle is typed.
LEMMA IdleTyped == Idle \in CycleState /\ Equipped(Idle)
BY DEF Idle, CycleState, Equipped, Pc, HasRow, HasTrade, Status

\* A row whose state changes is a row.
LEMMA RowTyped ==
    ASSUME NEW r \in Row, NEW s \in {"submitting", "observed", "terminal"}
    PROVE  [r EXCEPT !.state = s] \in Row
BY DEF Row

\* An offered trade, under another campaign id of the book, is a trade.
LEMMA SameTradeTyped ==
    ASSUME BrokerTyped, NEW t \in Trade, NEW id \in CampaignIds, Offered(SameTrade(t, id))
    PROVE  SameTrade(t, id) \in Trade
<1> DEFINE k == [t.key EXCEPT !.id = id]
<1>1. t.key \in Key /\ t.legs \in Legs \cup {NoLegs} /\ SameTrade(t, id) = [key |-> k, legs |-> t.legs]
    BY DEF Trade, SameTrade
<1>2. /\ book.legs = NoLegs => id = 0
      /\ book.legs \in Legs => id \in PositionId
    <2>1. CASE book = Flat
        BY <2>1, FlagsAssumption, LegsAssumption DEF CampaignIds, Flat
    <2>2. CASE book = Odd
        BY <2>2, LegsAssumption DEF Odd, NoLegs, OddLegs
    <2>3. CASE book \in [legs : Legs, camp : 1 .. MaxCampaigns]
        <3>1. book.camp \in 1 .. MaxCampaigns /\ book.legs \in Legs /\ MaxCampaigns \in Nat
            BY <2>3, BoundsAssumption
        <3>2. book.camp \in PositionId /\ (ActivityMayFail => -book.camp \in PositionId)
            BY <3>1 DEF PositionId
        <3> QED
            BY <3>1, <3>2, LegsAssumption DEF CampaignIds
    <2> QED
        BY <2>1, <2>2, <2>3 DEF BrokerTyped, Position
<1>3. /\ t.key.act = "OPEN" <=> book.legs = NoLegs
      /\ book.legs = t.legs
    <2>1. k.act = t.key.act
        BY <1>1 DEF Key
    <2>2. SameTrade(t, id).key = k /\ SameTrade(t, id).legs = t.legs
        BY <1>1
    <2>3. /\ SameTrade(t, id).key.act = "OPEN" <=> SameTrade(t, id).legs = NoLegs
          /\ SameTrade(t, id).legs = book.legs
        BY Zenon DEF Offered
    <2> QED
        BY <2>1, <2>2, <2>3, Zenon
<1>4. k \in Key
    <2>1. CASE t.key.act = "OPEN"
        BY <1>1, <1>2, <1>3, <2>1 DEF Key
    <2>2. CASE t.key.act # "OPEN"
        <3>1. id \in PositionId
            BY <1>1, <1>2, <1>3, <2>2
        <3> QED
            BY <1>1, <2>2, <3>1 DEF Key
    <2> QED
        BY <2>1, <2>2
<1> QED
    BY <1>1, <1>4 DEF Trade

\* A process's cycle is typed.
LEMMA CycleOf ==
    ASSUME CycleTyped, NEW a \in Actors
    PROVE  cycle[a] \in CycleState /\ Equipped(cycle[a])
BY DEF CycleTyped

\* The labels the actions write are program counters.
LEMMA Labels ==
    /\ {"recon", "bump", "record", "execute", "fresh", "boundary", "settle", "poll"} \subseteq Pc
    /\ "none" \in Status
BY DEF Pc, Status

\* A cycle that gives up, or moves to a label that needs no more than it has.
LEMMA GiveUpTyped ==
    ASSUME CycleTyped, NEW a \in Actors, GiveUp(a)
    PROVE  CycleTyped'
<1> DEFINE c == [cycle[a] EXCEPT !.pc = "record", !.obs = "none"]
<1>1. c \in CycleState
    BY CycleOf, Labels DEF CycleState
<1>2. Equipped(c)
    BY CycleOf DEF CycleState, Equipped, HasRow, HasTrade
<1> QED
    BY <1>1, <1>2, UpdateTyped DEF GiveUp

LEMMA GotoTyped ==
    ASSUME CycleTyped, NEW a \in Actors, NEW label \in Pc, Goto(a, label),
           label \in HasRow => cycle[a].own \in Row,
           label \in HasTrade => cycle[a].trade \in Trade,
           label = "record" /\ cycle[a].obs # "none" => cycle[a].own \in Row
    PROVE  CycleTyped'
<1> DEFINE c == [cycle[a] EXCEPT !.pc = label]
<1>1. c \in CycleState /\ Equipped(c)
    BY DEF CycleTyped, CycleState, Equipped
<1> QED
    BY <1>1, UpdateTyped DEF Goto

\* Ending a cycle.
LEMMA EndTyped ==
    ASSUME StoreTyped, CycleTyped, NEW a \in Actors, End(a)
    PROVE  /\ CycleTyped'
           /\ lease' \in [holder : Actors \cup {Nobody}, live : BOOLEAN]
           /\ lease'.live => lease'.holder \in Actors
<1>1. CycleTyped'
    BY IdleTyped, UpdateTyped DEF End
<1> QED
    BY <1>1 DEF End, Release, NoLease, StoreTyped

\* Keeping a row pending while reconciling.
LEMMA UnresolvedTyped ==
    ASSUME intents \subseteq Row, CycleTyped, NEW a \in Actors, cycle[a].own \in Row, Unresolved(a)
    PROVE  intents' \subseteq Row /\ CycleTyped'
<1> DEFINE seen == [cycle[a].own EXCEPT !.state = "observed"]
           c == [cycle[a] EXCEPT !.pc = "recon", !.own = seen, !.note = @ \cup {"unresolved"}]
<1>1. seen \in Row
    BY RowTyped
<1>2. intents' \subseteq Row
    BY <1>1, SaveTyped DEF Unresolved
<1>3. c \in CycleState
    <2> HIDE DEF seen
    <2> QED
        BY <1>1, CycleOf, Labels DEF CycleState
<1>4. Equipped(c)
    BY <1>1, CycleOf DEF CycleState, Equipped, HasRow, HasTrade
<1> QED
    BY <1>2, <1>3, <1>4, UpdateTyped DEF Unresolved

\* A numbered attempt advances within its bound.
LEMMA AdvanceTyped ==
    ASSUME attempts \in [Key -> 1 .. MaxAttempt + 1], NEW k \in Key, Advance(k)
    PROVE  attempts' \in [Key -> 1 .. MaxAttempt + 1]
BY DEF Advance

\* An actor's row at the program counters that have one.
LEMMA OwnTyped ==
    ASSUME CycleTyped, NEW a \in Actors, cycle[a].pc \in HasRow
    PROVE  cycle[a].own \in Row /\ cycle[a].own.key \in Key /\ cycle[a].own.cid \in Cid
BY DEF CycleTyped, Equipped, Row

-----------------------------------------------------------------------------
(* Type correctness, one lemma for each group of actions.                    *)

LEMMA LeaseStepTyped ==
    ASSUME TypeOK, NEW a \in Actors, Acquire(a) \/ Expire
    PROVE  TypeOK'
<1>1. CASE Acquire(a)
    <2>1. CycleTyped'
        <3> DEFINE label == IF a \in Workers THEN "list" ELSE "begin"
        <3>1. label \in Pc /\ label \notin HasRow /\ label \notin HasTrade /\ label # "record"
            BY DEF Pc, HasRow, HasTrade
        <3> QED
            BY <1>1, <3>1, GotoTyped DEF Acquire, TypeOK
    <2> QED
        BY <1>1, <2>1 DEF Acquire, TypeOK, StoreTyped, BrokerTyped, broker
<1>2. CASE Expire
    BY <1>2 DEF Expire, TypeOK, StoreTyped, BrokerTyped, CycleTyped, broker
<1> QED
    BY <1>1, <1>2

LEMMA ReconStepTyped ==
    ASSUME TypeOK, NEW a \in Actors, ReconStep(a)
    PROVE  TypeOK'
<1> USE DEF TypeOK
<1>1. CASE ListPending(a)
    <2> DEFINE c == [cycle[a] EXCEPT !.pc = "recon", !.todo = Pending]
    <2>1. Pending \in SUBSET Row
        BY DEF Pending, StoreTyped
    <2>2. c \in CycleState
        <3>1. cycle[a] \in CycleState /\ "recon" \in Pc
            BY DEF CycleTyped, Pc
        <3> QED
            BY <2>1, <3>1 DEF CycleState
    <2>3. Equipped(c)
        BY DEF CycleTyped, CycleState, Equipped, HasRow, HasTrade
    <2>4. CycleTyped'
        BY <1>1, <2>2, <2>3, UpdateTyped DEF ListPending
    <2> QED
        BY <1>1, <2>4 DEF ListPending, StoreTyped, BrokerTyped, store, broker
<1>2. CASE ReconUnknown(a)
    <2>1. PICK r \in cycle[a].todo :
              Update(a, [cycle[a] EXCEPT !.todo = @ \ {r}, !.note = @ \cup {"unresolved"}])
        BY <1>2 DEF ReconUnknown
    <2> DEFINE c == [cycle[a] EXCEPT !.todo = @ \ {r}, !.note = @ \cup {"unresolved"}]
    <2>2. c \in CycleState
        BY DEF CycleTyped, CycleState
    <2>3. c.pc = cycle[a].pc /\ c.own = cycle[a].own /\ c.trade = cycle[a].trade /\ c.obs = cycle[a].obs
        BY DEF CycleTyped, CycleState
    <2>4. Equipped(c)
        BY <2>3, Zenon DEF CycleTyped, Equipped
    <2>5. CycleTyped'
        BY <2>1, <2>2, <2>4, UpdateTyped
    <2> QED
        BY <1>2, <2>5 DEF ReconUnknown, StoreTyped, BrokerTyped, store, broker
<1>3. CASE ReconQuery(a)
    <2>1. PICK r \in cycle[a].todo :
              Update(a, [cycle[a] EXCEPT !.todo = @ \ {r}, !.own = r, !.obs = order[r.cid],
                  !.pc = IF order[r.cid] = "filled" THEN "positions" ELSE "classify"])
        BY <1>3 DEF ReconQuery
    <2> DEFINE label == IF order[r.cid] = "filled" THEN "positions" ELSE "classify"
               c == [cycle[a] EXCEPT !.todo = @ \ {r}, !.own = r, !.obs = order[r.cid],
                                     !.pc = label]
    <2>2. r \in Row
        BY DEF CycleTyped, CycleState
    <2>3. order[r.cid] \in Status
        BY <2>2 DEF Row, BrokerTyped
    <2>4. label \in Pc /\ label \notin HasTrade /\ label # "record"
        BY DEF Pc, HasTrade
    <2>5. c \in CycleState
        <3> HIDE DEF label
        <3> QED
            BY <2>2, <2>3, <2>4, CycleOf DEF CycleState
    <2>6. Equipped(c)
        BY <2>2, <2>4 DEF Equipped, CycleTyped, CycleState
    <2>7. CycleTyped'
        BY <2>1, <2>5, <2>6, UpdateTyped
    <2> QED
        BY <1>3, <2>7 DEF ReconQuery, StoreTyped, BrokerTyped, store, broker
<1>4. CASE ReconKeep(a) \/ ReconPositionsDiffer(a)
    <2>1. Unresolved(a) /\ cycle[a].pc \in HasRow
        BY <1>4 DEF ReconKeep, ReconPositionsDiffer, At, HasRow
    <2>2. intents' \subseteq Row /\ CycleTyped'
        BY <2>1, OwnTyped, UnresolvedTyped DEF StoreTyped
    <2> QED
        BY <1>4, <2>2 DEF ReconKeep, ReconPositionsDiffer, StoreTyped, BrokerTyped, broker
<1>5. CASE ReconDead(a)
    <2> DEFINE closed == [cycle[a].own EXCEPT !.state = "terminal"]
               c == [cycle[a] EXCEPT !.pc = "bump", !.own = closed]
    <2>1. closed \in Row
        BY <1>5, OwnTyped, RowTyped DEF ReconDead, At, HasRow
    <2>2. c \in CycleState /\ Equipped(c)
        <3> HIDE DEF closed
        <3>1. c \in CycleState
            BY <2>1, CycleOf, Labels DEF CycleState
        <3> QED
            BY <3>1, <2>1, CycleOf DEF CycleState, Equipped, HasRow, HasTrade
    <2>3. CycleTyped' /\ intents' \subseteq Row
        BY <1>5, <2>1, <2>2, UpdateTyped, SaveTyped DEF ReconDead, StoreTyped
    <2> QED
        BY <1>5, <2>3 DEF ReconDead, StoreTyped, BrokerTyped, broker
<1>6. CASE ReconAdvance(a)
    <2>1. attempts' \in [Key -> 1 .. MaxAttempt + 1]
        BY <1>6, OwnTyped, AdvanceTyped DEF ReconAdvance, At, HasRow, StoreTyped
    <2>2. CycleTyped'
        BY <1>6, GotoTyped DEF ReconAdvance, Pc, HasRow, HasTrade
    <2> QED
        BY <1>6, <2>1, <2>2 DEF ReconAdvance, StoreTyped, BrokerTyped, broker
<1>7. CASE ReconPositionsMatch(a)
    <2>1. cycle[a].own \in Row
        BY <1>7, OwnTyped DEF ReconPositionsMatch, At, HasRow
    <2>2. CycleTyped'
        BY <1>7, <2>1, GotoTyped DEF ReconPositionsMatch, Pc, HasTrade
    <2> QED
        BY <1>7, <2>2 DEF ReconPositionsMatch, StoreTyped, BrokerTyped, store, broker
<1>8. CASE ReconRecord(a)
    <2>1. cycle[a].own \in Row /\ cycle[a].own.cid \in Cid
        BY <1>8, OwnTyped DEF ReconRecord, At, HasRow
    <2>2. CycleTyped'
        BY <1>8, <2>1, GotoTyped DEF ReconRecord, Pc, HasTrade
    <2> QED
        BY <1>8, <2>1, <2>2 DEF ReconRecord, StoreTyped, BrokerTyped, broker
<1>9. CASE ReconRetire(a)
    <2> DEFINE closed == [cycle[a].own EXCEPT !.state = "terminal"]
               c == [cycle[a] EXCEPT !.pc = "recon", !.own = closed, !.note = @ \cup {"recovered"}]
    <2>1. closed \in Row
        BY <1>9, OwnTyped, RowTyped DEF ReconRetire, At, HasRow
    <2>2. c \in CycleState /\ Equipped(c)
        <3> HIDE DEF closed
        <3>1. c \in CycleState
            BY <2>1, CycleOf, Labels DEF CycleState
        <3> QED
            BY <3>1, <2>1, CycleOf DEF CycleState, Equipped, HasRow, HasTrade
    <2>3. CycleTyped' /\ intents' \subseteq Row
        BY <1>9, <2>1, <2>2, UpdateTyped, SaveTyped DEF ReconRetire, StoreTyped
    <2> QED
        BY <1>9, <2>3 DEF ReconRetire, StoreTyped, BrokerTyped, broker
<1>10. CASE ReconDone(a)
    <2>1. CASE End(a)
        BY <1>10, <2>1, EndTyped DEF ReconDone, StoreTyped, BrokerTyped, broker
    <2>2. CASE Goto(a, "begin") /\ UNCHANGED lease
        <3>1. CycleTyped'
            BY <2>2, GotoTyped DEF Pc, HasRow, HasTrade
        <3> QED
            BY <1>10, <2>2, <3>1 DEF ReconDone, StoreTyped, BrokerTyped, broker
    <2> QED
        BY <1>10, <2>1, <2>2 DEF ReconDone
<1> QED
    BY <1>1, <1>2, <1>3, <1>4, <1>5, <1>6, <1>7, <1>8, <1>9, <1>10 DEF ReconStep

\* The actions of a run that only look: the store and the broker stay as they are.
Looks(a) ==
    \/ SnapshotNoOrder(a) \/ Snapshot(a) \/ Execute(a) \/ ExecuteBlocked(a)
    \/ FreshBlocked(a) \/ Lookup(a) \/ BoundaryChanged(a) \/ Response(a)
    \/ NoResponse(a) \/ PollTerminal(a) \/ PollTimeout(a) \/ Recheck(a)
    \/ VerifyDiffer(a) \/ Fail(a) \/ PositionsLagVerify(a)

LEMMA LooksTyped ==
    ASSUME TypeOK, NEW a \in Actors, Looks(a)
    PROVE  TypeOK' /\ UNCHANGED <<store, broker>>
<1> USE DEF TypeOK
<1>a. UNCHANGED <<store, broker>>
    BY DEF Looks, SnapshotNoOrder, Snapshot, Execute, ExecuteBlocked, FreshBlocked,
           Lookup, BoundaryChanged, Response, NoResponse, PollTerminal, PollTimeout,
           Recheck, VerifyDiffer, Fail, PositionsLagVerify
<1>b. SUFFICES CycleTyped'
    BY <1>a DEF StoreTyped, BrokerTyped, store, broker
<1>1. CASE GiveUp(a)
    BY <1>1, GiveUpTyped
<1>2. CASE Snapshot(a)
    <2>1. PICK t \in Trade : Update(a, [cycle[a] EXCEPT !.pc = "execute", !.trade = t])
        BY <1>2 DEF Snapshot
    <2> DEFINE c == [cycle[a] EXCEPT !.pc = "execute", !.trade = t]
    <2>2. c \in CycleState
        BY CycleOf, Labels DEF CycleState
    <2>3. Equipped(c)
        BY CycleOf DEF CycleState, Equipped, HasRow, HasTrade
    <2> QED
        BY <2>1, <2>2, <2>3, UpdateTyped
<1>3. CASE Execute(a)
    <2> DEFINE k == cycle[a].trade.key
               row == [key |-> k, cid |-> [key |-> k, att |-> attempts[k]], state |-> "submitting"]
               c == [cycle[a] EXCEPT !.pc = "fresh", !.own = row]
    <2>1. cycle[a].trade \in Trade /\ k \in Key
        BY <1>3 DEF Execute, At, CycleTyped, Equipped, HasTrade, Trade
    <2>2. attempts[k] \in 1 .. MaxAttempt
        BY <1>3, <2>1 DEF Execute, StoreTyped
    <2>3. row \in Row
        BY <2>1, <2>2 DEF Row, Cid
    <2>4. c \in CycleState /\ Equipped(c)
        <3> HIDE DEF k, row
        <3>1. c \in CycleState
            BY <2>3, CycleOf, Labels DEF CycleState
        <3> QED
            BY <3>1, <2>1, <2>3, CycleOf DEF Equipped, CycleState
    <2> QED
        BY <1>3, <2>4, UpdateTyped DEF Execute
<1>4. CASE Lookup(a)
    <2> DEFINE s == order[cycle[a].own.cid]
               label == IF s = "none" THEN "boundary"
                        ELSE IF s \in Retryable THEN "settle" ELSE "poll"
               c == [cycle[a] EXCEPT !.obs = s, !.pc = label]
    <2>1. cycle[a].own \in Row /\ cycle[a].trade \in Trade /\ cycle[a].own.cid \in Cid
        BY <1>4, OwnTyped DEF Lookup, At, CycleTyped, Equipped, HasRow, HasTrade
    <2>2. s \in Status /\ label \in Pc
        BY <2>1, Labels DEF BrokerTyped
    <2>3. c \in CycleState
        <3> HIDE DEF s, label
        <3> QED
            BY <2>2, CycleOf DEF CycleState
    <2>4. Equipped(c)
        BY <2>1, CycleOf DEF Equipped, CycleState
    <2> QED
        BY <1>4, <2>3, <2>4, UpdateTyped DEF Lookup
<1>5. CASE Response(a) \/ PollTerminal(a) \/ Recheck(a)
    <2> DEFINE s == order[cycle[a].own.cid]
    <2>1. PICK label \in {"poll", "settle"} :
              Update(a, [cycle[a] EXCEPT !.pc = label, !.obs = s])
        BY <1>5 DEF Response, PollTerminal, Recheck
    <2> DEFINE c == [cycle[a] EXCEPT !.pc = label, !.obs = s]
    <2>2. cycle[a].own \in Row /\ cycle[a].own.cid \in Cid
        BY <1>5, OwnTyped DEF Response, PollTerminal, Recheck, At, HasRow
    <2>3. s \in Status /\ label \in Pc /\ label \notin HasTrade
        BY <2>2, Labels DEF BrokerTyped, HasTrade
    <2>4. c \in CycleState
        <3> HIDE DEF s
        <3> QED
            BY <2>3, CycleOf DEF CycleState
    <2>5. Equipped(c)
        BY <2>2, <2>3, CycleOf DEF Equipped, CycleState
    <2> QED
        BY <2>1, <2>4, <2>5, UpdateTyped
<1>6. CASE PollTimeout(a)
    <2>1. cycle[a].own \in Row
        BY <1>6, OwnTyped DEF PollTimeout, At, HasRow
    <2> QED
        BY <1>6, <2>1, GotoTyped DEF PollTimeout, Pc, HasTrade
<1>7. CASE VerifyDiffer(a) \/ PositionsLagVerify(a)
    <2>1. cycle[a].own \in Row /\ Goto(a, "record")
        BY <1>7, OwnTyped DEF VerifyDiffer, PositionsLagVerify, At, HasRow
    <2> QED
        BY <2>1, GotoTyped DEF Pc, HasTrade
<1> QED
    BY <1>1, <1>2, <1>3, <1>4, <1>5, <1>6, <1>7
       DEF Looks, SnapshotNoOrder, ExecuteBlocked, FreshBlocked, BoundaryChanged,
           NoResponse, Fail

LEMMA WriteStepTyped ==
    ASSUME TypeOK, NEW a \in Actors,
           \/ BeginRun(a) \/ Fresh(a) \/ Submit(a) \/ Settle(a) \/ AdvanceAttempt(a)
           \/ VerifyMatch(a) \/ Record(a)
    PROVE  TypeOK'
<1> USE DEF TypeOK
<1>1. CASE BeginRun(a)
    <2>1. CASE End(a)
        BY <1>1, <2>1, EndTyped DEF BeginRun, StoreTyped, BrokerTyped, broker
    <2>2. CASE Goto(a, "snap") /\ UNCHANGED lease
        <3>1. CycleTyped'
            BY <2>2, GotoTyped DEF Pc, HasRow, HasTrade
        <3> QED
            BY <1>1, <2>2, <3>1 DEF BeginRun, StoreTyped, BrokerTyped, broker
    <2> QED
        BY <1>1, <2>1, <2>2 DEF BeginRun
<1>2. CASE Fresh(a)
    <2>1. PICK id \in CampaignIds :
            LET t == SameTrade(cycle[a].trade, id)
                row == [cycle[a].own EXCEPT !.cid = [key |-> t.key, att |-> @.att]]
            IN  /\ Offered(t)
                /\ Save(row)
                /\ IF lease.holder = a
                   THEN /\ lease' = [lease EXCEPT !.live = TRUE]
                        /\ Update(a, [cycle[a] EXCEPT !.pc = "lookup", !.own = row])
                   ELSE /\ UNCHANGED lease
                        /\ Update(a, [cycle[a] EXCEPT !.pc = "record", !.own = row, !.obs = "none"])
        BY <1>2 DEF Fresh
    <2> DEFINE t == SameTrade(cycle[a].trade, id)
               row == [cycle[a].own EXCEPT !.cid = [key |-> t.key, att |-> @.att]]
               c == [cycle[a] EXCEPT !.pc = "lookup", !.own = row]
               d == [cycle[a] EXCEPT !.pc = "record", !.own = row, !.obs = "none"]
    <2>2. cycle[a].own \in Row /\ cycle[a].trade \in Trade /\ cycle[a] \in CycleState
        BY <1>2 DEF Fresh, At, CycleTyped, Equipped, HasRow, HasTrade
    <2>3. t \in Trade /\ t.key \in Key
        BY <2>1, <2>2, SameTradeTyped DEF Trade
    <2> HIDE DEF t
    <2>4. row \in Row
        BY <2>2, <2>3 DEF Row, Cid
    <2>5. c.pc = "lookup" /\ c.own = row /\ c.trade \in Trade
          /\ d.pc = "record" /\ d.own = row
        BY <2>2 DEF CycleState
    <2> HIDE DEF row
    <2>6. c \in CycleState /\ d \in CycleState
        <3>1. "lookup" \in Pc /\ "record" \in Pc /\ "none" \in Status
            BY DEF Pc, Status
        <3> QED
            BY <2>2, <2>4, <3>1 DEF CycleState
    <2>7. Equipped(c) /\ Equipped(d)
        BY <2>4, <2>5 DEF Equipped, HasTrade
    <2>8. intents' \subseteq Row
        BY <2>1, <2>4, SaveTyped DEF StoreTyped, t, row
    <2>9. CycleTyped'
        <3>1. Update(a, c) \/ Update(a, d)
            BY <2>1 DEF t, row
        <3> QED
            BY <2>6, <2>7, <3>1, UpdateTyped
    <2>10. /\ lease' \in [holder : Actors \cup {Nobody}, live : BOOLEAN]
           /\ lease'.live => lease'.holder \in Actors
        BY <2>1 DEF StoreTyped
    <2> QED
        BY <1>2, <2>8, <2>9, <2>10 DEF Fresh, StoreTyped, BrokerTyped, broker
<1>3. CASE Submit(a)
    <2>1. cycle[a].own \in Row /\ cycle[a].own.cid \in Cid /\ cycle[a].own.key \in Key
        BY <1>3, OwnTyped DEF Submit, At, HasRow
    <2>2. intents' \subseteq Row
        BY <1>3, <2>1, SaveTyped DEF Submit, StoreTyped
    <2>3. CycleTyped'
        <3>1. CASE Goto(a, "sent")
            BY <2>1, <3>1, GotoTyped DEF Pc, HasTrade
        <3> QED
            BY <1>3, <3>1, GiveUpTyped DEF Submit
    <2>4. inflight' \subseteq Cid
        BY <1>3, <2>1 DEF Submit, BrokerTyped
    <2> QED
        BY <1>3, <2>2, <2>3, <2>4 DEF Submit, StoreTyped, BrokerTyped
<1>4. CASE Settle(a) \/ VerifyMatch(a)
    <2>1. cycle[a].own \in Row
        BY <1>4, OwnTyped DEF Settle, VerifyMatch, At, HasRow
    <2>2. PICK s \in {"observed", "terminal"}, label \in {"verify", "advance", "record"} :
              LET row == [cycle[a].own EXCEPT !.state = s]
              IN  Save(row) /\ Update(a, [cycle[a] EXCEPT !.pc = label, !.own = row])
        <3>1. CASE Settle(a)
            <4> DEFINE s == IF cycle[a].obs = "dead" THEN "terminal" ELSE "observed"
                       label == IF cycle[a].obs = "filled" THEN "verify"
                                ELSE IF cycle[a].obs = "dead" THEN "advance" ELSE "record"
            <4>1. s \in {"observed", "terminal"} /\ label \in {"verify", "advance", "record"}
                OBVIOUS
            <4>2. LET row == [cycle[a].own EXCEPT !.state = s]
                  IN  Save(row) /\ Update(a, [cycle[a] EXCEPT !.own = row, !.pc = label])
                BY <3>1 DEF Settle
            <4>3. ASSUME NEW row
                  PROVE  [cycle[a] EXCEPT !.own = row, !.pc = label]
                           = [cycle[a] EXCEPT !.pc = label, !.own = row]
                BY DEF CycleTyped, CycleState
            <4> QED
                BY <4>1, <4>2, <4>3
        <3>2. CASE VerifyMatch(a)
            BY <3>2 DEF VerifyMatch
        <3> QED
            BY <1>4, <3>1, <3>2
    <2> DEFINE row == [cycle[a].own EXCEPT !.state = s]
               c == [cycle[a] EXCEPT !.pc = label, !.own = row]
    <2>3. row \in Row
        BY <2>1, RowTyped
    <2> HIDE DEF row
    <2>4. label \in Pc /\ label \notin HasTrade
        BY DEF Pc, HasTrade
    <2>5. c \in CycleState /\ c.pc = label /\ c.own = row
        BY <2>3, <2>4, CycleOf DEF CycleState
    <2>6. Equipped(c)
        BY <2>3, <2>4, <2>5 DEF Equipped
    <2>7. CycleTyped' /\ intents' \subseteq Row
        BY <2>2, <2>3, <2>5, <2>6, UpdateTyped, SaveTyped DEF StoreTyped, row
    <2> QED
        BY <1>4, <2>7 DEF Settle, VerifyMatch, StoreTyped, BrokerTyped, broker
<1>5. CASE AdvanceAttempt(a)
    <2>1. cycle[a].own \in Row /\ cycle[a].own.key \in Key
        BY <1>5, OwnTyped DEF AdvanceAttempt, At, HasRow
    <2>2. attempts' \in [Key -> 1 .. MaxAttempt + 1]
        BY <1>5, <2>1, AdvanceTyped DEF AdvanceAttempt, StoreTyped
    <2>3. CycleTyped'
        BY <1>5, <2>1, GotoTyped DEF AdvanceAttempt, Pc, HasTrade
    <2> QED
        BY <1>5, <2>2, <2>3 DEF AdvanceAttempt, StoreTyped, BrokerTyped, broker
<1>6. CASE Record(a)
    <2>1. cycle[a].obs = "filled" => cycle[a].own.cid \in Cid
        BY <1>6 DEF Record, At, CycleTyped, Equipped, Row
    <2>2. completed' \subseteq Cid
        BY <1>6, <2>1 DEF Record, StoreTyped
    <2> QED
        BY <1>6, <2>2, EndTyped DEF Record, StoreTyped, BrokerTyped, broker
<1> QED
    BY <1>1, <1>2, <1>3, <1>4, <1>5, <1>6

LEMMA FaultTyped ==
    ASSUME TypeOK, NEW a \in Actors, Abort(a) \/ Crash(a) \/ PositionsLagRecon(a)
    PROVE  TypeOK'
<1> USE DEF TypeOK
<1>1. CASE Abort(a)
    BY <1>1, EndTyped DEF Abort, StoreTyped, BrokerTyped, broker
<1>2. CASE Crash(a)
    BY <1>2, IdleTyped, UpdateTyped DEF Crash, StoreTyped, BrokerTyped, store, broker
<1>3. CASE PositionsLagRecon(a)
    <2>1. intents' \subseteq Row /\ CycleTyped'
        BY <1>3, OwnTyped, UnresolvedTyped DEF PositionsLagRecon, At, HasRow, StoreTyped
    <2> QED
        BY <1>3, <2>1 DEF PositionsLagRecon, StoreTyped, BrokerTyped, broker
<1> QED
    BY <1>1, <1>2, <1>3

LEMMA BrokerStepTyped ==
    ASSUME TypeOK, NEW c \in Cid, BrokerStep(c)
    PROVE  TypeOK'
<1> USE DEF TypeOK
<1>1. StoreTyped' /\ CycleTyped'
    <2>1. UNCHANGED <<store, cycle>>
        BY DEF BrokerStep, Accept, Drop, Fill, PartialFill, Die, Replace
    <2> QED
        BY <2>1 DEF StoreTyped, CycleTyped, store
<1>2. order' \in [Cid -> Status] /\ inflight' \subseteq Cid
    BY DEF BrokerStep, Accept, Drop, Fill, PartialFill, Die, Replace, BrokerTyped,
           Status, Live, TerminalStatus, Retryable
<1>3. book' \in Position /\ campaigns' \in CampaignId
    <2>1. CASE Fill(c)
        <3>1. c.key \in Key
            BY DEF Cid
        <3>2. c.key.act # "CLOSE" => c.key.to \in Legs
            BY <3>1 DEF Key
        <3> QED
            BY <2>1, <3>2 DEF Fill, BrokerTyped, Position, CampaignId
    <2>2. CASE PartialFill(c)
        BY <2>2 DEF PartialFill, BrokerTyped, Position
    <2>3. CASE Accept(c) \/ Drop(c) \/ Die(c) \/ Replace(c)
        BY <2>3 DEF Accept, Drop, Die, Replace, BrokerTyped
    <2> QED
        BY <2>1, <2>2, <2>3 DEF BrokerStep
<1> QED
    BY <1>1, <1>2, <1>3 DEF BrokerTyped

LEMMA BookMovesTyped ==
    ASSUME TypeOK, BookMoves
    PROVE  TypeOK'
BY DEF BookMoves, TypeOK, StoreTyped, BrokerTyped, CycleTyped, Position, store

LEMMA NextTyped == TypeOK /\ [Next]_vars => TypeOK'
<1> SUFFICES ASSUME TypeOK, [Next]_vars PROVE TypeOK'
    OBVIOUS
<1>1. ASSUME NEW a \in Actors, Acquire(a) PROVE TypeOK'
    BY <1>1, LeaseStepTyped
<1>2. ASSUME NEW a \in Actors, CycleStep(a) PROVE TypeOK'
    BY <1>2, ReconStepTyped, LooksTyped, WriteStepTyped DEF CycleStep, RunStep, Looks
<1>3. ASSUME NEW a \in Actors, Fault(a) PROVE TypeOK'
    BY <1>3, LooksTyped, FaultTyped DEF Fault, Exception, Looks
<1>4. ASSUME NEW c \in Cid, BrokerStep(c) PROVE TypeOK'
    BY <1>4, BrokerStepTyped
<1>5. CASE Expire
    <2>1. lease.holder \in Actors
        BY <1>5 DEF Expire, TypeOK, StoreTyped
    <2> QED
        BY <1>5, <2>1, LeaseStepTyped
<1>6. CASE BookMoves
    BY <1>6, BookMovesTyped
<1>7. CASE UNCHANGED vars
    BY <1>7 DEF vars, TypeOK, StoreTyped, BrokerTyped, CycleTyped
<1> QED
    BY <1>1, <1>2, <1>3, <1>4, <1>5, <1>6, <1>7 DEF Next, Work, Disturbance

\* Type correctness of the desk: every variable keeps its type, and a cycle always
\* has the row or the trade its next step works on (worker.cycle, service._execute).
THEOREM TypeCorrect == Spec => []TypeOK
<1>1. Init => TypeOK
    <2> SUFFICES ASSUME Init PROVE TypeOK
        OBVIOUS
    <2>1. StoreTyped
        BY DEF Init, StoreTyped, NoLease
    <2>2. BrokerTyped
        BY DEF Init, BrokerTyped, Position, Flat, CampaignId, Status
    <2>3. CycleTyped
        BY IdleTyped DEF Init, CycleTyped
    <2> QED
        BY <2>1, <2>2, <2>3 DEF TypeOK
<1> QED
    BY <1>1, NextTyped, PTL DEF Spec

-----------------------------------------------------------------------------
(* Single flight.  The theorem assumes that no CLI call outlives the lease:  *)
(* then at most one process is in a cycle, and at most one intent is pending *)
(* (IndInv).                                                                 *)

\* While one process is in a cycle the others are idle.
LEMMA OthersIdle ==
    ASSUME ActiveHolds, NEW a \in Actors, ~At(a, "idle"), NEW b \in Actors, b # a
    PROVE  At(b, "idle")
BY DEF ActiveHolds, Owns

\* An idle cycle constrains nothing.
LEMMA IdlePhases ==
    ASSUME NEW c, c.pc = "idle"
    PROVE  /\ \A pending : PendingPhase(c, pending)
           /\ \A status, sent : OrderPhase(c, status, sent)
BY DEF PendingPhase, OrderPhase, NothingPending, OwnPending

\* The step of the process in a cycle: the phases need checking for it alone.
LEMMA PhasesOfOne ==
    ASSUME CycleTyped, ActiveHolds, NEW a \in Actors, ~At(a, "idle"), NEW c, Update(a, c),
           PendingPhase(c, Pending'), OrderPhase(c, order', inflight')
    PROVE  PhasePending' /\ PhaseOrder'
<1>1. cycle'[a] = c /\ \A b \in Actors : b # a => cycle'[b] = cycle[b]
    BY DEF CycleTyped, Update
<1>2. ASSUME NEW b \in Actors
      PROVE  PendingPhase(cycle'[b], Pending') /\ OrderPhase(cycle'[b], order', inflight')
    <2>1. CASE b = a
        BY <1>1, <2>1
    <2>2. CASE b # a
        <3>1. cycle'[b].pc = "idle"
            BY <1>1, <2>2, OthersIdle DEF At
        <3> QED
            BY <3>1, IdlePhases
    <2> QED
        BY <2>1, <2>2
<1> QED
    BY <1>2 DEF PhasePending, PhaseOrder

\* Saving the pending row again leaves it alone pending, or nothing when it is closed.
LEMMA SaveOwn ==
    ASSUME intents \subseteq Row, OnePending, NEW own \in Pending, NEW r \in Row,
           r.key = own.key, Save(r)
    PROVE  Pending' = IF r.state = "terminal" THEN {} ELSE {r}
<1>1. Pending = {own}
    BY DEF OnePending
<1>2. ASSUME NEW q \in intents, q.key # r.key PROVE q.state = "terminal"
    BY <1>1, <1>2 DEF Pending
<1>3. Pending' = {q \in {p \in intents : p.key # r.key} \cup {r} : q.state # "terminal"}
    BY DEF Pending, Save
<1> QED
    BY <1>2, <1>3

\* Saving a row while nothing is pending makes it the one pending row.
LEMMA SaveFirst ==
    ASSUME Pending = {}, NEW r, r.state # "terminal", Save(r)
    PROVE  Pending' = {r}
<1>1. Pending' = {q \in {p \in intents : p.key # r.key} \cup {r} : q.state # "terminal"}
    BY DEF Pending, Save
<1> QED
    BY <1>1 DEF Pending

\* What write-ahead says when one row is pending, and when none is.
LEMMA OutstandingIsOwn ==
    ASSUME WriteAhead, OnePending
    PROVE  /\ Pending = {} => \A c \in Cid : ~Outstanding(c)
           /\ \A own \in Pending : \A c \in Cid : Outstanding(c) => c = own.cid
BY DEF WriteAhead, OnePending

\* A dead or filled order is not outstanding.
LEMMA ResolvedNotOutstanding ==
    ASSUME InflightUnknown, NEW c, order[c] \in {"dead", "filled"}
    PROVE  ~Outstanding(c)
BY DEF InflightUnknown, Outstanding, Live

\* The lease stays with the one process in a cycle.
LEMMA HoldsOfOne ==
    ASSUME CycleTyped, ActiveHolds, NEW a \in Actors, ~At(a, "idle"), NEW c, Update(a, c),
           lease' = lease
    PROVE  ActiveHolds'
<1>1. \A b \in Actors : b # a => cycle'[b].pc = "idle"
    BY OthersIdle DEF CycleTyped, Update, At
<1>2. Owns(a)'
    BY DEF ActiveHolds, Owns
<1> QED
    BY <1>1, <1>2 DEF ActiveHolds, At

\* A step that writes nothing preserves the invariant if the new phase is right.
LEMMA LookStep ==
    ASSUME TypeOK, IndInv, NEW a \in Actors, ~At(a, "idle"), NEW c, Update(a, c),
           UNCHANGED <<store, broker>>,
           PendingPhase(c, Pending), OrderPhase(c, order, inflight)
    PROVE  IndInv'
<1> USE DEF IndInv, TypeOK
<1>1. Pending' = Pending
    BY DEF Pending, store
<1>2. PhasePending' /\ PhaseOrder'
    BY <1>1, PhasesOfOne DEF broker
<1>3. ActiveHolds'
    BY HoldsOfOne DEF store
<1>4. OnePending' /\ WriteAhead' /\ InflightUnknown'
    BY <1>1 DEF OnePending, WriteAhead, Outstanding, InflightUnknown, broker
<1> QED
    BY <1>2, <1>3, <1>4

\* So does saving the pending row: it may be closed when its order is dead or filled.
LEMMA SaveStep ==
    ASSUME TypeOK, IndInv, NEW a \in Actors, ~At(a, "idle"), NEW c, Update(a, c),
           UNCHANGED <<lease, broker>>,
           NEW own \in Pending, NEW r \in Row, r.key = own.key, r.cid = own.cid, Save(r),
           r.state = "terminal" => order[own.cid] \in {"dead", "filled"},
           PendingPhase(c, IF r.state = "terminal" THEN {} ELSE {r}),
           OrderPhase(c, order, inflight)
    PROVE  IndInv'
<1> USE DEF IndInv, TypeOK
<1>1. Pending' = IF r.state = "terminal" THEN {} ELSE {r}
    BY SaveOwn DEF StoreTyped
<1>2. PhasePending' /\ PhaseOrder'
    BY <1>1, PhasesOfOne DEF broker
<1>3. ActiveHolds'
    BY HoldsOfOne
<1>4. OnePending' /\ InflightUnknown'
    BY <1>1 DEF OnePending, InflightUnknown, broker
<1>5. ASSUME NEW d \in Cid, Outstanding(d)' PROVE \E q \in Pending' : q.cid = d
    <2>1. Outstanding(d)
        BY <1>5 DEF Outstanding, broker
    <2>2. d = own.cid
        BY <2>1, OutstandingIsOwn
    <2>3. r.state # "terminal"
        BY <2>1, <2>2, ResolvedNotOutstanding
    <2> QED
        BY <1>1, <2>2, <2>3
<1>6. WriteAhead'
    BY <1>5 DEF WriteAhead
<1> QED
    BY <1>2, <1>3, <1>4, <1>6

\* The end of a cycle leaves every process idle and releases the lease.
LEMMA EndStep ==
    ASSUME TypeOK, IndInv, NEW a \in Actors, ~At(a, "idle"), Update(a, Idle),
           UNCHANGED <<intents, broker>>
    PROVE  IndInv'
<1> USE DEF IndInv, TypeOK
<1>1. \A b \in Actors : cycle'[b].pc = "idle"
    BY OthersIdle DEF CycleTyped, Update, At, Idle
<1>2. PhasePending' /\ PhaseOrder' /\ ActiveHolds'
    BY <1>1, IdlePhases DEF PhasePending, PhaseOrder, ActiveHolds, At
<1>3. OnePending' /\ WriteAhead' /\ InflightUnknown'
    BY DEF OnePending, WriteAhead, Outstanding, InflightUnknown, Pending, broker
<1> QED
    BY <1>2, <1>3

LEMMA ReconStepSafe ==
    ASSUME TypeOK, IndInv, NEW a \in Actors, ReconStep(a) \/ PositionsLagRecon(a)
    PROVE  IndInv'
<1>0. /\ ~At(a, "idle")
      /\ PendingPhase(cycle[a], Pending)
      /\ OrderPhase(cycle[a], order, inflight)
      /\ cycle[a] \in CycleState
    BY DEF ReconStep, ListPending, ReconUnknown, ReconQuery, ReconKeep, ReconDead,
           ReconAdvance, ReconPositionsMatch, ReconPositionsDiffer, ReconRecord,
           ReconRetire, ReconDone, PositionsLagRecon, At,
           IndInv, PhasePending, PhaseOrder, TypeOK, CycleTyped
<1>1. CASE ListPending(a)
    <2> DEFINE c == [cycle[a] EXCEPT !.pc = "recon", !.todo = Pending]
    <2>1. c.pc = "recon" /\ c.todo = Pending
        BY <1>0 DEF CycleState
    <2>2. PendingPhase(c, Pending) /\ OrderPhase(c, order, inflight)
        BY <2>1 DEF PendingPhase, OrderPhase, NothingPending, OwnPending
    <2> QED
        BY <1>0, <1>1, <2>2, LookStep DEF ListPending
<1>2. CASE ReconUnknown(a)
    <2>1. PICK r \in cycle[a].todo :
              Update(a, [cycle[a] EXCEPT !.todo = @ \ {r}, !.note = @ \cup {"unresolved"}])
        BY <1>2 DEF ReconUnknown
    <2> DEFINE c == [cycle[a] EXCEPT !.todo = @ \ {r}, !.note = @ \cup {"unresolved"}]
    <2>2. c.pc = "recon" /\ c.todo = cycle[a].todo \ {r}
        BY <1>0, <1>2 DEF CycleState, ReconUnknown, At
    <2>3. cycle[a].todo \subseteq Pending
        BY <1>0, <1>2 DEF ReconUnknown, At, PendingPhase
    <2>4. PendingPhase(c, Pending) /\ OrderPhase(c, order, inflight)
        BY <2>2, <2>3 DEF PendingPhase, OrderPhase, NothingPending, OwnPending
    <2> QED
        BY <1>0, <1>2, <2>1, <2>4, LookStep DEF ReconUnknown
<1>3. CASE ReconQuery(a)
    <2>1. PICK r \in cycle[a].todo :
              Update(a, [cycle[a] EXCEPT !.todo = @ \ {r}, !.own = r, !.obs = order[r.cid],
                  !.pc = IF order[r.cid] = "filled" THEN "positions" ELSE "classify"])
        BY <1>3 DEF ReconQuery
    <2> DEFINE label == IF order[r.cid] = "filled" THEN "positions" ELSE "classify"
               c == [cycle[a] EXCEPT !.todo = @ \ {r}, !.own = r, !.obs = order[r.cid],
                                     !.pc = label]
    <2>2. /\ c.pc = label /\ c.own = r /\ c.obs = order[r.cid]
          /\ c.todo = cycle[a].todo \ {r}
        BY <1>0 DEF CycleState
    <2>3. cycle[a].todo \subseteq Pending
        BY <1>0, <1>3 DEF ReconQuery, At, PendingPhase
    <2>4. c.todo = {}
        BY <2>2, <2>3 DEF IndInv, OnePending
    <2> HIDE DEF c
    <2>5. PendingPhase(c, Pending)
        BY <2>2, <2>3, <2>4 DEF PendingPhase, NothingPending, OwnPending
    <2>6. OrderPhase(c, order, inflight)
        BY <2>2 DEF OrderPhase
    <2> QED
        BY <1>0, <1>3, <2>1, <2>5, <2>6, LookStep DEF ReconQuery, c
<1>4. CASE Unresolved(a) /\ cycle[a].pc \in {"classify", "positions"} /\ UNCHANGED <<lease, broker>>
    <2> DEFINE seen == [cycle[a].own EXCEPT !.state = "observed"]
               c == [cycle[a] EXCEPT !.pc = "recon", !.own = seen, !.note = @ \cup {"unresolved"}]
    <2>1. cycle[a].own \in Pending /\ cycle[a].own \in Row /\ cycle[a].todo = {}
        BY <1>0, <1>4, OwnTyped DEF PendingPhase, OwnPending, HasRow, TypeOK
    <2>2. seen \in Row /\ seen.key = cycle[a].own.key /\ seen.cid = cycle[a].own.cid
          /\ seen.state = "observed"
        BY <2>1 DEF Row
    <2>3. c.pc = "recon" /\ c.todo = {}
        BY <1>0, <2>1 DEF CycleState
    <2> HIDE DEF c, seen
    <2>4. PendingPhase(c, {seen}) /\ OrderPhase(c, order, inflight)
        BY <2>3 DEF PendingPhase, OrderPhase, NothingPending, OwnPending
    <2>5. Save(seen) /\ Update(a, c)
        BY <1>4 DEF Unresolved, c, seen
    <2> QED
        BY <1>0, <1>4, <2>1, <2>2, <2>4, <2>5, SaveStep
<1>5. CASE ReconDead(a) \/ ReconRetire(a)
    <2>1. PICK label \in {"bump", "recon"}, n \in SUBSET {"unresolved", "recovered"} :
              LET closed == [cycle[a].own EXCEPT !.state = "terminal"]
              IN  /\ Save(closed)
                  /\ Update(a, [cycle[a] EXCEPT !.pc = label, !.own = closed, !.note = n])
                  /\ label = "bump" => cycle[a].obs = "dead" /\ At(a, "classify")
                  /\ label = "recon" => At(a, "retire")
        <3>1. CASE ReconDead(a)
            <4>1. ASSUME NEW row
                  PROVE  [cycle[a] EXCEPT !.pc = "bump", !.own = row]
                    = [cycle[a] EXCEPT !.pc = "bump", !.own = row, !.note = cycle[a].note]
                BY <1>0 DEF CycleState
            <4>2. cycle[a].note \in SUBSET {"unresolved", "recovered"}
                BY <1>0 DEF CycleState
            <4> QED
                BY <3>1, <4>1, <4>2 DEF ReconDead
        <3>2. CASE ReconRetire(a)
            <4>1. cycle[a].note \cup {"recovered"} \in SUBSET {"unresolved", "recovered"}
                BY <1>0 DEF CycleState
            <4> QED
                BY <3>2, <4>1 DEF ReconRetire
        <3> QED
            BY <1>5, <3>1, <3>2
    <2> DEFINE closed == [cycle[a].own EXCEPT !.state = "terminal"]
               c == [cycle[a] EXCEPT !.pc = label, !.own = closed, !.note = n]
    <2>2. cycle[a].own \in Pending /\ cycle[a].own \in Row /\ cycle[a].todo = {}
        BY <1>0, <2>1, OwnTyped DEF At, PendingPhase, OwnPending, HasRow, TypeOK
    <2>3. closed \in Row /\ closed.key = cycle[a].own.key /\ closed.cid = cycle[a].own.cid
          /\ closed.state = "terminal"
        BY <2>2 DEF Row
    <2>4. order[cycle[a].own.cid] \in {"dead", "filled"}
          /\ (label = "bump" => order[cycle[a].own.cid] = "dead")
        BY <1>0, <2>1 DEF At, OrderPhase
    <2>5. c.pc = label /\ c.todo = {} /\ c.own = closed
        BY <1>0, <2>2 DEF CycleState
    <2>6. Save(closed) /\ Update(a, c)
        BY <2>1
    <2> HIDE DEF c, closed
    <2>7. PendingPhase(c, {}) /\ OrderPhase(c, order, inflight)
        BY <2>3, <2>4, <2>5 DEF PendingPhase, OrderPhase, NothingPending, OwnPending
    <2>8. UNCHANGED <<lease, broker>>
        BY <1>5 DEF ReconDead, ReconRetire
    <2> QED
        BY <1>0, <2>2, <2>3, <2>4, <2>6, <2>7, <2>8, SaveStep
<1>6. CASE ReconAdvance(a) \/ ReconPositionsMatch(a) \/ ReconRecord(a)
    <2>1. PICK label \in {"recon", "append", "retire"} :
              /\ Goto(a, label)
              /\ label = "recon" => At(a, "bump")
              /\ label = "append" => At(a, "positions")
              /\ label = "retire" => At(a, "append")
        BY <1>6 DEF ReconAdvance, ReconPositionsMatch, ReconRecord
    <2> DEFINE c == [cycle[a] EXCEPT !.pc = label]
    <2>2. c.pc = label /\ c.todo = cycle[a].todo /\ c.own = cycle[a].own
        BY <1>0 DEF CycleState
    <2>3. Update(a, c)
        BY <2>1 DEF Goto
    <2> HIDE DEF c
    <2>4. PendingPhase(c, Pending) /\ OrderPhase(c, order, inflight)
        BY <1>0, <2>1, <2>2 DEF At, PendingPhase, OrderPhase, NothingPending, OwnPending
    <2>5. UNCHANGED <<lease, intents, broker>>
        BY <1>6 DEF ReconAdvance, ReconPositionsMatch, ReconRecord, store
    <2>6. Pending' = Pending
        BY <2>5 DEF Pending
    <2>7. PhasePending' /\ PhaseOrder' /\ ActiveHolds'
        BY <1>0, <2>3, <2>4, <2>5, <2>6, PhasesOfOne, HoldsOfOne DEF IndInv, TypeOK, broker
    <2>8. OnePending' /\ WriteAhead' /\ InflightUnknown'
        BY <2>5, <2>6 DEF IndInv, OnePending, WriteAhead, Outstanding, InflightUnknown, broker
    <2> QED
        BY <2>7, <2>8 DEF IndInv
<1>7. CASE ReconDone(a)
    <2>1. CASE End(a)
        BY <1>0, <1>7, <2>1, EndStep DEF ReconDone, End
    <2>2. CASE Goto(a, "begin") /\ UNCHANGED lease
        <3> DEFINE c == [cycle[a] EXCEPT !.pc = "begin"]
        <3>1. c.pc = "begin"
            BY <1>0 DEF CycleState
        <3>2. PendingPhase(c, Pending) /\ OrderPhase(c, order, inflight)
            BY <3>1 DEF PendingPhase, OrderPhase, NothingPending, OwnPending
        <3> QED
            BY <1>0, <1>7, <2>2, <3>2, LookStep DEF ReconDone, Goto, store
    <2> QED
        BY <1>7, <2>1, <2>2 DEF ReconDone
<1> QED
    BY <1>1, <1>2, <1>3, <1>4, <1>5, <1>6, <1>7
       DEF ReconStep, ReconKeep, ReconPositionsDiffer, PositionsLagRecon, At

LEMMA LooksSafe ==
    ASSUME TypeOK, IndInv, NEW a \in Actors, Looks(a)
    PROVE  IndInv'
<1>0. /\ ~At(a, "idle")
      /\ PendingPhase(cycle[a], Pending)
      /\ OrderPhase(cycle[a], order, inflight)
      /\ cycle[a] \in CycleState
      /\ UNCHANGED <<store, broker>>
    BY LooksTyped DEF Looks, SnapshotNoOrder, Snapshot, Execute, ExecuteBlocked,
           FreshBlocked, Lookup, BoundaryChanged, Response, NoResponse, PollTerminal,
           PollTimeout, Recheck, VerifyDiffer, Fail, PositionsLagVerify, At,
           IndInv, PhasePending, PhaseOrder, TypeOK, CycleTyped
<1>1. CASE GiveUp(a)
    <2> DEFINE c == [cycle[a] EXCEPT !.pc = "record", !.obs = "none"]
    <2>1. c.pc = "record" /\ c.obs = "none"
        BY <1>0 DEF CycleState
    <2>2. PendingPhase(c, Pending) /\ OrderPhase(c, order, inflight)
        BY <2>1 DEF PendingPhase, OrderPhase, NothingPending, OwnPending
    <2> QED
        BY <1>0, <1>1, <2>2, LookStep DEF GiveUp
<1>2. CASE Snapshot(a)
    <2>1. PICK t \in Trade : Update(a, [cycle[a] EXCEPT !.pc = "execute", !.trade = t])
        BY <1>2 DEF Snapshot
    <2> DEFINE c == [cycle[a] EXCEPT !.pc = "execute", !.trade = t]
    <2>2. c.pc = "execute" /\ Pending = {}
        BY <1>0, <1>2 DEF CycleState, Snapshot, At, PendingPhase, NothingPending
    <2>3. PendingPhase(c, Pending) /\ OrderPhase(c, order, inflight)
        BY <2>2 DEF PendingPhase, OrderPhase, NothingPending, OwnPending
    <2> QED
        BY <1>0, <2>1, <2>3, LookStep
<1>3. CASE Execute(a)
    <2> DEFINE k == cycle[a].trade.key
               row == [key |-> k, cid |-> [key |-> k, att |-> attempts[k]], state |-> "submitting"]
               c == [cycle[a] EXCEPT !.pc = "fresh", !.own = row]
    <2>1. c.pc = "fresh" /\ c.own.state = "submitting" /\ Pending = {}
        BY <1>0, <1>3 DEF CycleState, Execute, At, PendingPhase, NothingPending
    <2>2. PendingPhase(c, Pending) /\ OrderPhase(c, order, inflight)
        BY <2>1 DEF PendingPhase, OrderPhase, NothingPending, OwnPending
    <2> QED
        BY <1>0, <1>3, <2>2, LookStep DEF Execute
<1>4. CASE Lookup(a)
    <2> DEFINE s == order[cycle[a].own.cid]
               label == IF s = "none" THEN "boundary"
                        ELSE IF s \in Retryable THEN "settle" ELSE "poll"
               c == [cycle[a] EXCEPT !.obs = s, !.pc = label]
    <2>1. c.pc = label /\ c.obs = s /\ c.own = cycle[a].own
        BY <1>0 DEF CycleState
    <2>2. cycle[a].own \in Pending /\ inflight = {}
        BY <1>0, <1>4 DEF Lookup, At, PendingPhase, OrderPhase, OwnPending
    <2>3. Update(a, c)
        BY <1>4 DEF Lookup
    <2> HIDE DEF c
    <2>4. PendingPhase(c, Pending)
        BY <2>1, <2>2 DEF PendingPhase, NothingPending, OwnPending
    <2>5. OrderPhase(c, order, inflight)
        BY <2>1, <2>2 DEF OrderPhase
    <2> QED
        BY <1>0, <2>3, <2>4, <2>5, LookStep
<1>5. CASE Response(a) \/ PollTerminal(a) \/ Recheck(a)
    <2> DEFINE s == order[cycle[a].own.cid]
    <2>1. PICK label \in {"poll", "settle"} :
              Update(a, [cycle[a] EXCEPT !.pc = label, !.obs = s])
        BY <1>5 DEF Response, PollTerminal, Recheck
    <2> DEFINE c == [cycle[a] EXCEPT !.pc = label, !.obs = s]
    <2>2. c.pc = label /\ c.obs = s /\ c.own = cycle[a].own
        BY <1>0 DEF CycleState
    <2>3. cycle[a].own \in Pending
        BY <1>0, <1>5 DEF Response, PollTerminal, Recheck, At, PendingPhase, OwnPending
    <2> HIDE DEF c
    <2>4. PendingPhase(c, Pending) /\ OrderPhase(c, order, inflight)
        BY <2>2, <2>3 DEF PendingPhase, OrderPhase, NothingPending, OwnPending
    <2> QED
        BY <1>0, <2>1, <2>4, LookStep DEF c
<1>6. CASE PollTimeout(a) \/ VerifyDiffer(a) \/ PositionsLagVerify(a)
    <2>1. PICK label \in {"recheck", "record"} :
              /\ Goto(a, label)
              /\ label = "recheck" => At(a, "poll")
              /\ label = "record" => At(a, "verify")
        BY <1>6 DEF PollTimeout, VerifyDiffer, PositionsLagVerify
    <2> DEFINE c == [cycle[a] EXCEPT !.pc = label]
    <2>2. c.pc = label /\ c.own = cycle[a].own /\ c.obs = cycle[a].obs
        BY <1>0 DEF CycleState
    <2>3. label = "recheck" => cycle[a].own \in Pending
        BY <1>0, <2>1 DEF At, PendingPhase, OwnPending
    <2>4. label = "record" => c.obs = "filled" /\ order[c.own.cid] = "filled"
        BY <1>0, <2>1, <2>2 DEF At, OrderPhase
    <2> HIDE DEF c
    <2>5. PendingPhase(c, Pending) /\ OrderPhase(c, order, inflight)
        BY <2>2, <2>3, <2>4 DEF PendingPhase, OrderPhase, NothingPending, OwnPending
    <2> QED
        BY <1>0, <2>1, <2>5, LookStep DEF Goto, c
<1> QED
    BY <1>1, <1>2, <1>3, <1>4, <1>5, <1>6
       DEF Looks, SnapshotNoOrder, ExecuteBlocked, FreshBlocked, BoundaryChanged,
           NoResponse, Fail

LEMMA WriteStepSafe ==
    ASSUME TypeOK, IndInv, NEW a \in Actors,
           \/ BeginRun(a) \/ Fresh(a) \/ Submit(a) \/ Settle(a) \/ AdvanceAttempt(a)
           \/ VerifyMatch(a) \/ Record(a)
    PROVE  IndInv'
<1>0. /\ ~At(a, "idle")
      /\ PendingPhase(cycle[a], Pending)
      /\ OrderPhase(cycle[a], order, inflight)
      /\ cycle[a] \in CycleState
      /\ Owns(a)
    BY DEF BeginRun, Fresh, Submit, Settle, AdvanceAttempt, VerifyMatch, Record, At,
           IndInv, ActiveHolds, PhasePending, PhaseOrder, TypeOK, CycleTyped
<1>1. CASE BeginRun(a)
    <2>1. CASE End(a)
        BY <1>0, <1>1, <2>1, EndStep DEF BeginRun, End
    <2>2. CASE Pending = {} /\ Goto(a, "snap") /\ UNCHANGED lease
        <3> DEFINE c == [cycle[a] EXCEPT !.pc = "snap"]
        <3>1. c.pc = "snap"
            BY <1>0 DEF CycleState
        <3>2. PendingPhase(c, Pending) /\ OrderPhase(c, order, inflight)
            BY <2>2, <3>1 DEF PendingPhase, OrderPhase, NothingPending, OwnPending
        <3> QED
            BY <1>0, <1>1, <2>2, <3>2, LookStep DEF BeginRun, Goto, store
    <2> QED
        BY <1>1, <2>1, <2>2 DEF BeginRun
<1>2. CASE Fresh(a)
    <2>1. PICK id \in CampaignIds :
            LET t == SameTrade(cycle[a].trade, id)
                row == [cycle[a].own EXCEPT !.cid = [key |-> t.key, att |-> @.att]]
            IN  /\ Offered(t)
                /\ Save(row)
                /\ IF lease.holder = a
                   THEN /\ lease' = [lease EXCEPT !.live = TRUE]
                        /\ Update(a, [cycle[a] EXCEPT !.pc = "lookup", !.own = row])
                   ELSE /\ UNCHANGED lease
                        /\ Update(a, [cycle[a] EXCEPT !.pc = "record", !.own = row, !.obs = "none"])
        BY <1>2 DEF Fresh
    <2> DEFINE t == SameTrade(cycle[a].trade, id)
               row == [cycle[a].own EXCEPT !.cid = [key |-> t.key, att |-> @.att]]
               c == [cycle[a] EXCEPT !.pc = "lookup", !.own = row]
    <2>2. Save(row) /\ lease' = lease /\ Update(a, c)
        <3>1. lease = [holder |-> lease.holder, live |-> TRUE] /\ lease.holder = a
            BY <1>0 DEF Owns, TypeOK, StoreTyped
        <3> QED
            BY <2>1, <3>1
    <2>3. Pending = {}
        BY <1>0, <1>2 DEF Fresh, At, PendingPhase, NothingPending
    <2>4. \A d \in Cid : ~Outstanding(d)
        BY <2>3 DEF IndInv, WriteAhead
    <2>5. inflight = {}
        BY <2>4 DEF Outstanding, TypeOK, BrokerTyped
    <2>6. c.pc = "lookup" /\ c.own = row
        BY <1>0 DEF CycleState
    <2> HIDE DEF c, row
    <2>7. UNCHANGED broker
        BY <1>2 DEF Fresh
    <2>8. row.state = "submitting"
        <3>1. cycle[a].own \in Row /\ cycle[a].own.state = "submitting"
            BY <1>0, <1>2, OwnTyped DEF Fresh, At, HasRow, TypeOK, PendingPhase
        <3> QED
            BY <3>1 DEF row, Row
    <2>9. Pending' = {row}
        BY <2>2, <2>3, <2>8, SaveFirst
    <2>10. PendingPhase(c, Pending') /\ OrderPhase(c, order', inflight')
        BY <2>5, <2>6, <2>7, <2>9 DEF PendingPhase, OrderPhase, NothingPending, OwnPending, broker
    <2>11. PhasePending' /\ PhaseOrder' /\ ActiveHolds'
        BY <1>0, <2>2, <2>10, PhasesOfOne, HoldsOfOne DEF IndInv, TypeOK
    <2>12. OnePending' /\ WriteAhead' /\ InflightUnknown'
        BY <2>4, <2>5, <2>7, <2>9 DEF OnePending, WriteAhead, Outstanding, InflightUnknown, broker
    <2> QED
        BY <2>11, <2>12 DEF IndInv
<1>3. CASE Submit(a)
    <2> DEFINE c == [cycle[a] EXCEPT !.pc = "sent"]
    <2>1. cycle[a].own \in Pending /\ cycle[a].own \in Row /\ cycle[a].own.cid \in Cid
        BY <1>0, <1>3, OwnTyped DEF Submit, At, PendingPhase, OwnPending, HasRow, TypeOK
    <2>2. order[cycle[a].own.cid] = "none" /\ inflight = {}
        BY <1>0, <1>3 DEF Submit, At, OrderPhase
    <2>3. Update(a, c) /\ inflight' = {cycle[a].own.cid} /\ Save(cycle[a].own)
          /\ order' = order /\ lease' = lease
        BY <1>0, <1>3, <2>2 DEF Submit, Goto
    <2>4. c.pc = "sent" /\ c.own = cycle[a].own
        BY <1>0 DEF CycleState
    <2> HIDE DEF c
    <2>5. Pending' = {cycle[a].own}
        <3>1. cycle[a].own.state # "terminal"
            BY <2>1 DEF Pending
        <3> QED
            BY <2>1, <2>3, <3>1, SaveOwn DEF IndInv, TypeOK, StoreTyped
    <2>6. PendingPhase(c, Pending') /\ OrderPhase(c, order', inflight')
        BY <2>4, <2>5 DEF PendingPhase, OrderPhase, NothingPending, OwnPending
    <2>7. PhasePending' /\ PhaseOrder' /\ ActiveHolds'
        BY <1>0, <2>3, <2>6, PhasesOfOne, HoldsOfOne DEF IndInv, TypeOK
    <2>8. OnePending' /\ InflightUnknown'
        BY <2>2, <2>3, <2>5 DEF OnePending, InflightUnknown
    <2>9. ASSUME NEW d \in Cid, Outstanding(d)' PROVE d = cycle[a].own.cid
        <3>1. CASE Outstanding(d)
            BY <2>1, <3>1, OutstandingIsOwn DEF IndInv
        <3>2. CASE ~Outstanding(d)
            BY <2>3, <2>9, <3>2 DEF Outstanding
        <3> QED
            BY <3>1, <3>2
    <2>10. WriteAhead'
        BY <2>5, <2>9 DEF WriteAhead
    <2> QED
        BY <2>7, <2>8, <2>10 DEF IndInv
<1>4. CASE Settle(a)
    <2> DEFINE s == cycle[a].obs
               row == [cycle[a].own EXCEPT !.state = IF s = "dead" THEN "terminal" ELSE "observed"]
               label == IF s = "filled" THEN "verify"
                        ELSE IF s = "dead" THEN "advance" ELSE "record"
               c == [cycle[a] EXCEPT !.own = row, !.pc = label]
    <2>1. cycle[a].own \in Pending /\ cycle[a].own \in Row
        BY <1>0, <1>4, OwnTyped DEF Settle, At, PendingPhase, OwnPending, HasRow, TypeOK
    <2>2. row \in Row /\ row.key = cycle[a].own.key /\ row.cid = cycle[a].own.cid
          /\ row.state = IF s = "dead" THEN "terminal" ELSE "observed"
        BY <2>1 DEF Row
    <2>3. s \in {"dead", "filled"} => order[row.cid] = s
        BY <1>0, <1>4, <2>2 DEF Settle, At, OrderPhase
    <2>4. Save(row) /\ Update(a, c) /\ UNCHANGED <<lease, broker>>
        BY <1>4 DEF Settle
    <2>5. c.pc = label /\ c.own = row /\ c.obs = s
        BY <1>0 DEF CycleState
    <2> HIDE DEF c, row
    <2>6. PendingPhase(c, IF row.state = "terminal" THEN {} ELSE {row})
          /\ OrderPhase(c, order, inflight)
        <3>1. CASE s = "filled"
            BY <2>2, <2>3, <2>5, <3>1 DEF PendingPhase, OrderPhase, NothingPending, OwnPending
        <3>2. CASE s = "dead"
            BY <2>2, <2>3, <2>5, <3>2 DEF PendingPhase, OrderPhase, NothingPending, OwnPending
        <3>3. CASE s \notin {"filled", "dead"}
            BY <2>2, <2>3, <2>5, <3>3 DEF PendingPhase, OrderPhase, NothingPending, OwnPending
        <3> QED
            BY <3>1, <3>2, <3>3
    <2>7. row.state = "terminal" => order[cycle[a].own.cid] \in {"dead", "filled"}
        BY <2>2, <2>3
    <2> HIDE DEF s
    <2> QED
        BY <1>0, <2>1, <2>2, <2>4, <2>6, <2>7, SaveStep
<1>5. CASE VerifyMatch(a)
    <2> DEFINE row == [cycle[a].own EXCEPT !.state = "terminal"]
               c == [cycle[a] EXCEPT !.pc = "record", !.own = row]
    <2>1. cycle[a].own \in Pending /\ cycle[a].own \in Row
        BY <1>0, <1>5, OwnTyped DEF VerifyMatch, At, PendingPhase, OwnPending, HasRow, TypeOK
    <2>2. row \in Row /\ row.key = cycle[a].own.key /\ row.cid = cycle[a].own.cid
          /\ row.state = "terminal"
        BY <2>1 DEF Row
    <2>3. cycle[a].obs = "filled" /\ order[cycle[a].own.cid] = "filled"
        BY <1>0, <1>5 DEF VerifyMatch, At, OrderPhase
    <2>4. c.pc = "record" /\ c.own = row /\ c.obs = "filled"
        BY <1>0, <2>3 DEF CycleState
    <2>5. Save(row) /\ Update(a, c) /\ UNCHANGED <<lease, broker>>
        BY <1>5 DEF VerifyMatch
    <2> HIDE DEF c, row
    <2>6. PendingPhase(c, {}) /\ OrderPhase(c, order, inflight)
        BY <2>2, <2>3, <2>4 DEF PendingPhase, OrderPhase, NothingPending, OwnPending
    <2> QED
        BY <1>0, <2>1, <2>2, <2>3, <2>5, <2>6, SaveStep
<1>6. CASE AdvanceAttempt(a)
    <2> DEFINE c == [cycle[a] EXCEPT !.pc = "record"]
    <2>1. c.pc = "record" /\ c.own = cycle[a].own /\ c.obs = cycle[a].obs
        BY <1>0 DEF CycleState
    <2>2. order[c.own.cid] = "dead" /\ c.obs = "dead"
        BY <1>0, <1>6, <2>1 DEF AdvanceAttempt, At, OrderPhase
    <2>3. Update(a, c) /\ UNCHANGED <<lease, intents, broker>>
        BY <1>6 DEF AdvanceAttempt, Goto
    <2> HIDE DEF c
    <2>4. PendingPhase(c, Pending') /\ OrderPhase(c, order', inflight')
        BY <2>1, <2>2, <2>3 DEF PendingPhase, OrderPhase, NothingPending, OwnPending, broker
    <2>5. PhasePending' /\ PhaseOrder' /\ ActiveHolds'
        BY <1>0, <2>3, <2>4, PhasesOfOne, HoldsOfOne DEF IndInv, TypeOK
    <2>6. OnePending' /\ WriteAhead' /\ InflightUnknown'
        BY <2>3 DEF IndInv, OnePending, WriteAhead, Outstanding, InflightUnknown, Pending, broker
    <2> QED
        BY <2>5, <2>6 DEF IndInv
<1>7. CASE Record(a)
    BY <1>0, <1>7, EndStep DEF Record, End
<1> QED
    BY <1>1, <1>2, <1>3, <1>4, <1>5, <1>6, <1>7

\* The broker moves only orders that are outstanding, and resolves them for good.
LEMMA BrokerStepSafe ==
    ASSUME TypeOK, IndInv, NEW c \in Cid, BrokerStep(c)
    PROVE  IndInv'
<1>1. UNCHANGED <<store, cycle>>
    BY DEF BrokerStep, Accept, Drop, Fill, PartialFill, Die, Replace
<1>2. PICK s \in Status :
         /\ order' = [order EXCEPT ![c] = s]
         /\ inflight' \subseteq inflight
         /\ s # "none" => c \notin inflight'
         /\ s # order[c] => order[c] \in Live \/ (order[c] = "none" /\ c \in inflight)
         /\ order[c] = "none" => c \in inflight
    <2>1. order[c] \in Status
        BY DEF TypeOK, BrokerTyped
    <2>2. CASE Accept(c)
        BY <2>2 DEF Accept, Status, Live, TypeOK, BrokerTyped
    <2>3. CASE Drop(c)
        BY <2>1, <2>3 DEF Drop, TypeOK, BrokerTyped
    <2>4. CASE Fill(c) \/ PartialFill(c) \/ Die(c) \/ Replace(c)
        <3>1. order[c] \in Live /\ c \notin inflight /\ order[c] # "none"
            BY <2>4 DEF Fill, PartialFill, Die, Replace, Live, IndInv, InflightUnknown
        <3>2. inflight' = inflight
            BY <2>4 DEF Fill, PartialFill, Die, Replace
        <3>3. \E s \in Status : order' = [order EXCEPT ![c] = s]
            BY <2>4 DEF Fill, PartialFill, Die, Replace, Status, Live, TerminalStatus, Retryable
        <3> QED
            BY <3>1, <3>2, <3>3
    <2> QED
        BY <2>2, <2>3, <2>4 DEF BrokerStep
<1>3. Pending' = Pending
    BY <1>1 DEF Pending, store
<1>4. ASSUME NEW d \in Cid, Outstanding(d)' PROVE Outstanding(d)
    BY <1>2, <1>4 DEF Outstanding, TypeOK, BrokerTyped, Live
<1>5. WriteAhead' /\ OnePending' /\ ActiveHolds' /\ PhasePending'
    BY <1>1, <1>3, <1>4
       DEF IndInv, WriteAhead, OnePending, ActiveHolds, PhasePending, Owns, At, store
<1>6. InflightUnknown'
    BY <1>2 DEF IndInv, InflightUnknown, TypeOK, BrokerTyped
<1>7. ASSUME NEW d \in Cid, order[d] \in {"dead", "filled"} PROVE order'[d] = order[d]
    BY <1>2, <1>7 DEF TypeOK, BrokerTyped, Live
<1>8. ASSUME NEW d \in Cid, inflight = {}, order[d] = "none" PROVE order'[d] = "none"
    BY <1>2, <1>8 DEF TypeOK, BrokerTyped, Live
<1>9. PhaseOrder'
    <2>1. ASSUME NEW a \in Actors PROVE OrderPhase(cycle[a], order', inflight')
        <3>1. OrderPhase(cycle[a], order, inflight)
            BY DEF IndInv, PhaseOrder
        <3>2. cycle[a].pc \in {"boundary", "classify", "settle", "bump", "advance",
                               "positions", "append", "retire", "verify"}
              \/ (cycle[a].pc = "record" /\ cycle[a].obs # "none")
                 => cycle[a].own.cid \in Cid
            BY DEF TypeOK, CycleTyped, Equipped, HasRow, Row
        <3>3. inflight = {} => inflight' = {}
            BY <1>2
        <3> QED
            BY <1>7, <1>8, <3>1, <3>2, <3>3 DEF OrderPhase
    <2> QED
        BY <1>1, <2>1 DEF PhaseOrder
<1> QED
    BY <1>5, <1>6, <1>9 DEF IndInv

\* A lease is taken, or expires, only while every process is idle.
LEMMA LeaseStepSafe ==
    ASSUME TypeOK, IndInv, ~CliMayHang, (\E a \in Actors : Acquire(a)) \/ Expire
    PROVE  IndInv'
<1>1. \A b \in Actors : At(b, "idle")
    <2>1. ASSUME NEW b \in Actors, ~At(b, "idle") PROVE lease.live /\ lease.holder = b
        BY <2>1 DEF IndInv, ActiveHolds, Owns
    <2>2. CASE \E a \in Actors : Acquire(a)
        BY <2>1, <2>2 DEF Acquire
    <2>3. CASE Expire
        BY <2>1, <2>3 DEF Expire
    <2> QED
        BY <2>2, <2>3
<1>2. UNCHANGED <<intents, broker>>
    BY DEF Acquire, Expire
<1>3. OnePending' /\ WriteAhead' /\ InflightUnknown'
    BY <1>2 DEF IndInv, OnePending, WriteAhead, Outstanding, InflightUnknown, Pending, broker
<1>4. CASE Expire
    BY <1>1, <1>2, <1>3, <1>4
       DEF Expire, IndInv, ActiveHolds, PhasePending, PhaseOrder, At, Pending, broker
<1>5. ASSUME NEW a \in Actors, Acquire(a) PROVE IndInv'
    <2> DEFINE label == IF a \in Workers THEN "list" ELSE "begin"
               c == [cycle[a] EXCEPT !.pc = label]
    <2>1. c.pc = label
        BY DEF TypeOK, CycleTyped, CycleState
    <2>2. cycle'[a] = c /\ \A b \in Actors : b # a => cycle'[b] = cycle[b]
        BY <1>5 DEF Acquire, Goto, Update, TypeOK, CycleTyped
    <2> HIDE DEF c
    <2>3. ASSUME NEW b \in Actors
          PROVE  PendingPhase(cycle'[b], Pending') /\ OrderPhase(cycle'[b], order', inflight')
        <3>1. CASE b = a
            BY <2>1, <2>2, <3>1 DEF PendingPhase, OrderPhase, NothingPending, OwnPending
        <3>2. CASE b # a
            BY <1>1, <2>2, <3>2, IdlePhases DEF At
        <3> QED
            BY <3>1, <3>2
    <2>4. ActiveHolds'
        BY <1>1, <1>5, <2>2 DEF Acquire, ActiveHolds, At, Owns
    <2> QED
        BY <1>3, <2>3, <2>4 DEF IndInv, PhasePending, PhaseOrder
<1> QED
    BY <1>4, <1>5

LEMMA NextSafe == ~CliMayHang /\ TypeOK /\ IndInv /\ [Next]_vars => IndInv'
<1> SUFFICES ASSUME ~CliMayHang, TypeOK, IndInv, [Next]_vars PROVE IndInv'
    OBVIOUS
<1>1. CASE (\E a \in Actors : Acquire(a)) \/ Expire
    BY <1>1, LeaseStepSafe
<1>2. ASSUME NEW a \in Actors, CycleStep(a) PROVE IndInv'
    BY <1>2, ReconStepSafe, LooksSafe, WriteStepSafe DEF CycleStep, RunStep, Looks
<1>3. ASSUME NEW a \in Actors, Fault(a) PROVE IndInv'
    <2>1. CASE Abort(a) \/ Crash(a)
        BY <2>1, EndStep DEF Abort, Crash, End, store
    <2> QED
        BY <1>3, <2>1, ReconStepSafe, LooksSafe DEF Fault, Exception, Looks
<1>4. ASSUME NEW c \in Cid, BrokerStep(c) PROVE IndInv'
    BY <1>4, BrokerStepSafe
<1>5. CASE BookMoves
    BY <1>5 DEF BookMoves, IndInv, ActiveHolds, OnePending, PhasePending, PhaseOrder,
                InflightUnknown, WriteAhead, Outstanding, Pending, Owns, At, store
<1>6. CASE UNCHANGED vars
    BY <1>6 DEF vars, IndInv, ActiveHolds, OnePending, PhasePending, PhaseOrder,
                InflightUnknown, WriteAhead, Outstanding, Pending, Owns, At
<1> QED
    BY <1>1, <1>2, <1>3, <1>4, <1>5, <1>6 DEF Next, Work, Disturbance

LEMMA InitSafe == Init => IndInv
<1> SUFFICES ASSUME Init PROVE IndInv
    OBVIOUS
<1>1. Pending = {} /\ \A c \in Cid : ~Outstanding(c)
    BY DEF Init, Pending, Outstanding, Live
<1>2. \A a \in Actors : cycle[a].pc = "idle"
    BY DEF Init, Idle
<1>3. PhasePending /\ PhaseOrder /\ ActiveHolds
    BY <1>2, IdlePhases DEF PhasePending, PhaseOrder, ActiveHolds, At
<1> QED
    BY <1>1, <1>3 DEF Init, IndInv, OnePending, WriteAhead, InflightUnknown

\* If no CLI call outlives the lease, the conjuncts of IndInv hold in every state: one
\* process in a cycle, one intent pending, every outstanding order written ahead.
THEOREM Inductive == ASSUME ~CliMayHang PROVE Spec => []IndInv
<1>1. TypeOK /\ IndInv /\ [Next]_vars => IndInv'
    BY NextSafe
<1> QED
    BY <1>1, InitSafe, TypeCorrect, PTL DEF Spec

\* Write-ahead holds through every crash, exception and lost answer: an order that may
\* still trade is named by a pending intent (service.py 364-466).
THEOREM WriteAheadHolds == ASSUME ~CliMayHang PROVE Spec => []WriteAhead
<1>1. IndInv => WriteAhead
    BY DEF IndInv
<1> QED
    BY <1>1, Inductive, PTL

\* Single flight: for any number of workers, operators, contracts and retries there
\* are never two orders outstanding at the broker (store.py 154-245, service.py 176-180).
THEOREM SingleFlight == ASSUME ~CliMayHang PROVE Spec => []AtMostOneLiveOrder
<1>1. IndInv => AtMostOneLiveOrder
    BY DEF IndInv, WriteAhead, OnePending, AtMostOneLiveOrder
<1> QED
    BY <1>1, Inductive, PTL

-----------------------------------------------------------------------------
(* What the step of a process does to its own cycle.                         *)

OthersKeep(a) == \A b \in Actors \ {a} : cycle'[b] = cycle[b]

\* The row in use keeps its incident and its client id.
SameOwn(a) == cycle'[a].own.key = cycle[a].own.key /\ cycle'[a].own.cid = cycle[a].own.cid
SameTask(a) ==
    /\ cycle'[a].own = cycle[a].own /\ cycle'[a].obs = cycle[a].obs
    /\ cycle'[a].trade = cycle[a].trade

LEMMA UpdateFields ==
    ASSUME CycleTyped, NEW a \in Actors
    PROVE  /\ \A c : Update(a, c) => cycle'[a] = c /\ OthersKeep(a)
           /\ \A label : Goto(a, label) =>
                  cycle'[a].pc = label /\ SameTask(a) /\ OthersKeep(a)
           /\ GiveUp(a) => /\ cycle'[a].pc = "record" /\ cycle'[a].obs = "none" /\ OthersKeep(a)
           /\ Update(a, Idle) => cycle'[a].pc = "idle" /\ OthersKeep(a)
<1>0. cycle[a] \in CycleState
    BY CycleOf
<1>1. ASSUME NEW c, Update(a, c) PROVE cycle'[a] = c /\ OthersKeep(a)
    BY <1>1 DEF Update, CycleTyped, OthersKeep
<1>2. ASSUME NEW label, Goto(a, label)
      PROVE  cycle'[a].pc = label /\ SameTask(a) /\ OthersKeep(a)
    <2> DEFINE c == [cycle[a] EXCEPT !.pc = label]
    <2>1. /\ c.pc = label /\ c.own = cycle[a].own /\ c.obs = cycle[a].obs
          /\ c.trade = cycle[a].trade
        BY <1>0 DEF CycleState
    <2>2. Update(a, c)
        BY <1>2 DEF Goto
    <2> HIDE DEF c
    <2> QED
        BY <1>1, <2>1, <2>2 DEF SameTask
<1>3. ASSUME GiveUp(a) PROVE cycle'[a].pc = "record" /\ cycle'[a].obs = "none" /\ OthersKeep(a)
    <2> DEFINE c == [cycle[a] EXCEPT !.pc = "record", !.obs = "none"]
    <2>1. c.pc = "record" /\ c.obs = "none"
        BY <1>0 DEF CycleState
    <2>2. Update(a, c)
        BY <1>3 DEF GiveUp
    <2> HIDE DEF c
    <2> QED
        BY <1>1, <2>1, <2>2
<1>4. Idle.pc = "idle"
    BY DEF Idle
<1> QED
    BY <1>1, <1>2, <1>3, <1>4

LEMMA ReconFields ==
    ASSUME CycleTyped, NEW a \in Actors
    PROVE  /\ Acquire(a) => cycle'[a].pc \in {"list", "begin"} /\ OthersKeep(a)
           /\ ListPending(a) \/ ReconUnknown(a) => cycle'[a].pc = "recon" /\ OthersKeep(a)
           /\ ReconQuery(a) =>
                /\ cycle[a].pc = "recon" /\ OthersKeep(a)
                /\ \E r \in cycle[a].todo :
                     /\ cycle'[a].own = r /\ cycle'[a].obs = order[r.cid]
                     /\ cycle'[a].pc = IF order[r.cid] = "filled" THEN "positions" ELSE "classify"
           /\ ReconKeep(a) \/ ReconPositionsDiffer(a) \/ PositionsLagRecon(a) =>
                /\ cycle[a].pc \in {"classify", "positions"}
                /\ cycle'[a].pc = "recon" /\ OthersKeep(a)
           /\ ReconDead(a) =>
                /\ cycle[a].pc = "classify" /\ cycle[a].obs = "dead"
                /\ cycle'[a].pc = "bump" /\ OthersKeep(a)
                /\ cycle[a].own \in Row => SameOwn(a)
           /\ ReconAdvance(a) =>
                cycle[a].pc = "bump" /\ cycle'[a].pc = "recon" /\ OthersKeep(a)
           /\ ReconPositionsMatch(a) =>
                /\ cycle[a].pc = "positions" /\ cycle'[a].pc = "append"
                /\ SameTask(a) /\ OthersKeep(a)
           /\ ReconRecord(a) =>
                /\ cycle[a].pc = "append" /\ cycle'[a].pc = "retire"
                /\ SameTask(a) /\ OthersKeep(a)
           /\ ReconRetire(a) =>
                cycle[a].pc = "retire" /\ cycle'[a].pc = "recon" /\ OthersKeep(a)
           /\ ReconDone(a) \/ BeginRun(a) =>
                cycle'[a].pc \in {"idle", "begin", "snap"} /\ OthersKeep(a)
           /\ Record(a) \/ Abort(a) \/ Crash(a) => cycle'[a].pc = "idle" /\ OthersKeep(a)
<1>0. cycle[a] \in CycleState
    BY CycleOf
<1>1. /\ Acquire(a) => cycle'[a].pc \in {"list", "begin"} /\ OthersKeep(a)
      /\ ReconAdvance(a) =>
           cycle[a].pc = "bump" /\ cycle'[a].pc = "recon" /\ OthersKeep(a)
      /\ ReconPositionsMatch(a) =>
           cycle[a].pc = "positions" /\ cycle'[a].pc = "append" /\ SameTask(a) /\ OthersKeep(a)
      /\ ReconRecord(a) =>
           cycle[a].pc = "append" /\ cycle'[a].pc = "retire" /\ SameTask(a) /\ OthersKeep(a)
    BY UpdateFields DEF Acquire, ReconAdvance, ReconPositionsMatch, ReconRecord, At
<1>2. ListPending(a) => cycle'[a].pc = "recon" /\ OthersKeep(a)
    <2> DEFINE c == [cycle[a] EXCEPT !.pc = "recon", !.todo = Pending]
    <2>1. c.pc = "recon"
        BY <1>0 DEF CycleState
    <2>2. ListPending(a) => Update(a, c)
        BY DEF ListPending
    <2> HIDE DEF c
    <2> QED
        BY <2>1, <2>2, UpdateFields
<1>3. ASSUME ReconUnknown(a) PROVE cycle'[a].pc = "recon" /\ OthersKeep(a)
    <2>1. PICK r \in cycle[a].todo :
              Update(a, [cycle[a] EXCEPT !.todo = @ \ {r}, !.note = @ \cup {"unresolved"}])
        BY <1>3 DEF ReconUnknown
    <2> DEFINE c == [cycle[a] EXCEPT !.todo = @ \ {r}, !.note = @ \cup {"unresolved"}]
    <2>2. c.pc = "recon" /\ Update(a, c)
        BY <1>0, <1>3, <2>1 DEF CycleState, ReconUnknown, At
    <2> HIDE DEF c
    <2> QED
        BY <2>2, UpdateFields
<1>4. ASSUME ReconQuery(a)
      PROVE  /\ cycle[a].pc = "recon" /\ OthersKeep(a)
             /\ \E r \in cycle[a].todo :
                  /\ cycle'[a].own = r /\ cycle'[a].obs = order[r.cid]
                  /\ cycle'[a].pc = IF order[r.cid] = "filled" THEN "positions" ELSE "classify"
    <2>1. PICK r \in cycle[a].todo :
              Update(a, [cycle[a] EXCEPT !.todo = @ \ {r}, !.own = r, !.obs = order[r.cid],
                  !.pc = IF order[r.cid] = "filled" THEN "positions" ELSE "classify"])
        BY <1>4 DEF ReconQuery
    <2> DEFINE label == IF order[r.cid] = "filled" THEN "positions" ELSE "classify"
               c == [cycle[a] EXCEPT !.todo = @ \ {r}, !.own = r, !.obs = order[r.cid],
                                     !.pc = label]
    <2>2. c.pc = label /\ c.own = r /\ c.obs = order[r.cid]
        BY <1>0 DEF CycleState
    <2>3. Update(a, c) /\ cycle[a].pc = "recon"
        BY <1>4, <2>1 DEF ReconQuery, At
    <2> HIDE DEF c
    <2> QED
        BY <2>2, <2>3, UpdateFields
<1>5. ASSUME ReconKeep(a) \/ ReconPositionsDiffer(a) \/ PositionsLagRecon(a)
      PROVE  /\ cycle[a].pc \in {"classify", "positions"}
             /\ cycle'[a].pc = "recon" /\ OthersKeep(a)
    <2> DEFINE seen == [cycle[a].own EXCEPT !.state = "observed"]
               c == [cycle[a] EXCEPT !.pc = "recon", !.own = seen, !.note = @ \cup {"unresolved"}]
    <2>1. c.pc = "recon"
        BY <1>0 DEF CycleState
    <2>2. Update(a, c) /\ cycle[a].pc \in {"classify", "positions"}
        BY <1>5 DEF ReconKeep, ReconPositionsDiffer, PositionsLagRecon, Unresolved, At
    <2> HIDE DEF c
    <2> QED
        BY <2>1, <2>2, UpdateFields
<1>6. ASSUME ReconDead(a)
      PROVE  /\ cycle[a].pc = "classify" /\ cycle[a].obs = "dead"
             /\ cycle'[a].pc = "bump" /\ OthersKeep(a)
             /\ cycle[a].own \in Row => SameOwn(a)
    <2> DEFINE closed == [cycle[a].own EXCEPT !.state = "terminal"]
               c == [cycle[a] EXCEPT !.pc = "bump", !.own = closed]
    <2>1. c.pc = "bump" /\ c.own = closed
        BY <1>0 DEF CycleState
    <2>2. Update(a, c) /\ cycle[a].pc = "classify" /\ cycle[a].obs = "dead"
        BY <1>6 DEF ReconDead, At
    <2>3. cycle[a].own \in Row => closed.key = cycle[a].own.key /\ closed.cid = cycle[a].own.cid
        BY DEF Row
    <2> HIDE DEF c, closed
    <2> QED
        BY <2>1, <2>2, <2>3, UpdateFields DEF SameOwn
<1>7. ASSUME ReconRetire(a)
      PROVE  cycle[a].pc = "retire" /\ cycle'[a].pc = "recon" /\ OthersKeep(a)
    <2> DEFINE closed == [cycle[a].own EXCEPT !.state = "terminal"]
               c == [cycle[a] EXCEPT !.pc = "recon", !.own = closed, !.note = @ \cup {"recovered"}]
    <2>1. c.pc = "recon"
        BY <1>0 DEF CycleState
    <2>2. Update(a, c) /\ cycle[a].pc = "retire"
        BY <1>7 DEF ReconRetire, At
    <2> HIDE DEF c
    <2> QED
        BY <2>1, <2>2, UpdateFields
<1>8. /\ ReconDone(a) \/ BeginRun(a) =>
           cycle'[a].pc \in {"idle", "begin", "snap"} /\ OthersKeep(a)
      /\ Record(a) \/ Abort(a) \/ Crash(a) => cycle'[a].pc = "idle" /\ OthersKeep(a)
    BY UpdateFields DEF ReconDone, BeginRun, Record, Abort, Crash, End
<1> QED
    BY <1>1, <1>2, <1>3, <1>4, <1>5, <1>6, <1>7, <1>8

LEMMA RunFields ==
    ASSUME CycleTyped, NEW a \in Actors
    PROVE  /\ SnapshotNoOrder(a) \/ ExecuteBlocked(a) \/ FreshBlocked(a)
              \/ BoundaryChanged(a) \/ NoResponse(a) \/ Fail(a) => GiveUp(a)
           /\ Snapshot(a) =>
                /\ cycle[a].pc = "snap" /\ cycle'[a].pc = "execute" /\ OthersKeep(a)
                /\ \E t \in Trade : Offered(t) /\ cycle'[a].trade = t
           /\ Execute(a) =>
                /\ cycle[a].pc = "execute" /\ cycle'[a].pc = "fresh" /\ OthersKeep(a)
                /\ cycle'[a].trade = cycle[a].trade
                /\ cycle'[a].own.key = cycle[a].trade.key
                /\ cycle'[a].own.cid =
                     [key |-> cycle[a].trade.key, att |-> attempts[cycle[a].trade.key]]
           /\ Fresh(a) =>
                /\ cycle[a].pc = "fresh" /\ OthersKeep(a)
                /\ \/ cycle'[a].pc = "record" /\ cycle'[a].obs = "none"
                   \/ /\ cycle'[a].pc = "lookup" /\ cycle'[a].trade = cycle[a].trade
                      /\ cycle'[a].own.key = cycle[a].own.key
                      /\ \E id \in CampaignIds :
                           /\ Offered(SameTrade(cycle[a].trade, id))
                           /\ cycle'[a].own.cid = [key |-> SameTrade(cycle[a].trade, id).key,
                                                   att |-> cycle[a].own.cid.att]
           /\ Lookup(a) =>
                /\ cycle[a].pc = "lookup" /\ OthersKeep(a)
                /\ cycle'[a].obs = order[cycle[a].own.cid]
                /\ cycle'[a].own = cycle[a].own /\ cycle'[a].trade = cycle[a].trade
                /\ cycle'[a].pc \in {"boundary", "settle", "poll"}
           /\ Submit(a) =>
                /\ cycle[a].pc = "boundary" /\ OthersKeep(a)
                /\ \/ cycle'[a].pc = "record" /\ cycle'[a].obs = "none"
                   \/ cycle'[a].pc = "sent" /\ SameTask(a)
           /\ Response(a) \/ PollTerminal(a) \/ Recheck(a) =>
                /\ cycle[a].pc \in {"sent", "poll", "recheck"} /\ OthersKeep(a)
                /\ cycle'[a].pc \in {"poll", "settle"}
                /\ cycle'[a].obs = order[cycle[a].own.cid] /\ cycle'[a].own = cycle[a].own
           /\ PollTimeout(a) =>
                /\ cycle[a].pc = "poll" /\ cycle'[a].pc = "recheck"
                /\ SameTask(a) /\ OthersKeep(a)
           /\ Settle(a) =>
                /\ cycle[a].pc = "settle" /\ OthersKeep(a)
                /\ cycle'[a].obs = cycle[a].obs /\ (cycle[a].own \in Row => SameOwn(a))
                /\ cycle'[a].pc = IF cycle[a].obs = "filled" THEN "verify"
                                  ELSE IF cycle[a].obs = "dead" THEN "advance" ELSE "record"
           /\ AdvanceAttempt(a) =>
                /\ cycle[a].pc = "advance" /\ cycle'[a].pc = "record"
                /\ SameTask(a) /\ OthersKeep(a)
           /\ VerifyMatch(a) \/ VerifyDiffer(a) \/ PositionsLagVerify(a) =>
                /\ cycle[a].pc = "verify" /\ cycle'[a].pc = "record" /\ OthersKeep(a)
                /\ cycle[a].own \in Row => SameOwn(a)
<1>0. cycle[a] \in CycleState
    BY CycleOf
<1>1. /\ SnapshotNoOrder(a) \/ ExecuteBlocked(a) \/ FreshBlocked(a)
         \/ BoundaryChanged(a) \/ NoResponse(a) \/ Fail(a) => GiveUp(a)
      /\ PollTimeout(a) =>
           /\ cycle[a].pc = "poll" /\ cycle'[a].pc = "recheck" /\ SameTask(a) /\ OthersKeep(a)
      /\ AdvanceAttempt(a) =>
           /\ cycle[a].pc = "advance" /\ cycle'[a].pc = "record" /\ SameTask(a) /\ OthersKeep(a)
      /\ Submit(a) =>
           /\ cycle[a].pc = "boundary" /\ OthersKeep(a)
           /\ \/ cycle'[a].pc = "record" /\ cycle'[a].obs = "none"
              \/ cycle'[a].pc = "sent" /\ SameTask(a)
    BY UpdateFields DEF SnapshotNoOrder, ExecuteBlocked, FreshBlocked, BoundaryChanged,
       NoResponse, Fail, PollTimeout, AdvanceAttempt, Submit, At
<1>2. ASSUME Snapshot(a)
      PROVE  /\ cycle[a].pc = "snap" /\ cycle'[a].pc = "execute" /\ OthersKeep(a)
             /\ \E t \in Trade : Offered(t) /\ cycle'[a].trade = t
    <2>1. PICK t \in Trade :
              Offered(t) /\ Update(a, [cycle[a] EXCEPT !.pc = "execute", !.trade = t])
        BY <1>2 DEF Snapshot
    <2> DEFINE c == [cycle[a] EXCEPT !.pc = "execute", !.trade = t]
    <2>2. c.pc = "execute" /\ c.trade = t /\ Update(a, c) /\ cycle[a].pc = "snap"
        BY <1>0, <1>2, <2>1 DEF CycleState, Snapshot, At
    <2> HIDE DEF c
    <2> QED
        BY <2>1, <2>2, UpdateFields
<1>3. ASSUME Execute(a)
      PROVE  /\ cycle[a].pc = "execute" /\ cycle'[a].pc = "fresh" /\ OthersKeep(a)
             /\ cycle'[a].trade = cycle[a].trade
             /\ cycle'[a].own.key = cycle[a].trade.key
             /\ cycle'[a].own.cid =
                  [key |-> cycle[a].trade.key, att |-> attempts[cycle[a].trade.key]]
    <2> DEFINE k == cycle[a].trade.key
               row == [key |-> k, cid |-> [key |-> k, att |-> attempts[k]], state |-> "submitting"]
               c == [cycle[a] EXCEPT !.pc = "fresh", !.own = row]
    <2>1. c.pc = "fresh" /\ c.own = row /\ c.trade = cycle[a].trade
        BY <1>0 DEF CycleState
    <2>2. Update(a, c) /\ cycle[a].pc = "execute"
        BY <1>3 DEF Execute, At
    <2> HIDE DEF c
    <2> QED
        BY <2>1, <2>2, UpdateFields
<1>4. ASSUME Fresh(a)
      PROVE  /\ cycle[a].pc = "fresh" /\ OthersKeep(a)
             /\ \/ cycle'[a].pc = "record" /\ cycle'[a].obs = "none"
                \/ /\ cycle'[a].pc = "lookup" /\ cycle'[a].trade = cycle[a].trade
                   /\ cycle'[a].own.key = cycle[a].own.key
                   /\ \E id \in CampaignIds :
                        /\ Offered(SameTrade(cycle[a].trade, id))
                        /\ cycle'[a].own.cid = [key |-> SameTrade(cycle[a].trade, id).key,
                                                att |-> cycle[a].own.cid.att]
    <2>1. PICK id \in CampaignIds :
            LET t == SameTrade(cycle[a].trade, id)
                row == [cycle[a].own EXCEPT !.cid = [key |-> t.key, att |-> @.att]]
            IN  /\ Offered(t)
                /\ \/ Update(a, [cycle[a] EXCEPT !.pc = "lookup", !.own = row])
                   \/ Update(a, [cycle[a] EXCEPT !.pc = "record", !.own = row, !.obs = "none"])
        BY <1>4 DEF Fresh
    <2> DEFINE t == SameTrade(cycle[a].trade, id)
               row == [cycle[a].own EXCEPT !.cid = [key |-> t.key, att |-> @.att]]
               c == [cycle[a] EXCEPT !.pc = "lookup", !.own = row]
               d == [cycle[a] EXCEPT !.pc = "record", !.own = row, !.obs = "none"]
    <2>2. cycle[a].pc = "fresh" /\ cycle[a].own \in Row
        BY <1>4, CycleOf DEF Fresh, At, Equipped, HasRow
    <2> HIDE DEF t
    <2>3. row.key = cycle[a].own.key /\ row.cid = [key |-> t.key, att |-> cycle[a].own.cid.att]
        BY <2>2 DEF Row
    <2> HIDE DEF row
    <2>4. /\ c.pc = "lookup" /\ c.trade = cycle[a].trade /\ c.own = row
          /\ d.pc = "record" /\ d.obs = "none"
        BY <1>0 DEF CycleState
    <2>5. Update(a, c) \/ Update(a, d)
        BY <2>1 DEF t, row
    <2> HIDE DEF c, d
    <2> QED
        BY <2>1, <2>2, <2>3, <2>4, <2>5, UpdateFields DEF t
<1>5. ASSUME Lookup(a)
      PROVE  /\ cycle[a].pc = "lookup" /\ OthersKeep(a)
             /\ cycle'[a].obs = order[cycle[a].own.cid]
             /\ cycle'[a].own = cycle[a].own /\ cycle'[a].trade = cycle[a].trade
             /\ cycle'[a].pc \in {"boundary", "settle", "poll"}
    <2> DEFINE s == order[cycle[a].own.cid]
               label == IF s = "none" THEN "boundary"
                        ELSE IF s \in Retryable THEN "settle" ELSE "poll"
               c == [cycle[a] EXCEPT !.obs = s, !.pc = label]
    <2>1. /\ c.pc = label /\ c.obs = s /\ c.own = cycle[a].own /\ c.trade = cycle[a].trade
          /\ label \in {"boundary", "settle", "poll"}
        BY <1>0 DEF CycleState
    <2>2. Update(a, c) /\ cycle[a].pc = "lookup"
        BY <1>5 DEF Lookup, At
    <2> HIDE DEF c, label
    <2> QED
        BY <2>1, <2>2, UpdateFields
<1>6. ASSUME Response(a) \/ PollTerminal(a) \/ Recheck(a)
      PROVE  /\ cycle[a].pc \in {"sent", "poll", "recheck"} /\ OthersKeep(a)
             /\ cycle'[a].pc \in {"poll", "settle"}
             /\ cycle'[a].obs = order[cycle[a].own.cid] /\ cycle'[a].own = cycle[a].own
    <2> DEFINE s == order[cycle[a].own.cid]
    <2>1. PICK label \in {"poll", "settle"} :
              Update(a, [cycle[a] EXCEPT !.pc = label, !.obs = s])
        BY <1>6 DEF Response, PollTerminal, Recheck
    <2> DEFINE c == [cycle[a] EXCEPT !.pc = label, !.obs = s]
    <2>2. c.pc = label /\ c.obs = s /\ c.own = cycle[a].own
        BY <1>0 DEF CycleState
    <2>3. Update(a, c) /\ cycle[a].pc \in {"sent", "poll", "recheck"}
        BY <1>6, <2>1 DEF Response, PollTerminal, Recheck, At
    <2> HIDE DEF c
    <2> QED
        BY <2>2, <2>3, UpdateFields
<1>7. ASSUME Settle(a)
      PROVE  /\ cycle[a].pc = "settle" /\ OthersKeep(a)
             /\ cycle'[a].obs = cycle[a].obs /\ (cycle[a].own \in Row => SameOwn(a))
             /\ cycle'[a].pc = IF cycle[a].obs = "filled" THEN "verify"
                               ELSE IF cycle[a].obs = "dead" THEN "advance" ELSE "record"
    <2> DEFINE s == cycle[a].obs
               row == [cycle[a].own EXCEPT !.state = IF s = "dead" THEN "terminal" ELSE "observed"]
               label == IF s = "filled" THEN "verify" ELSE IF s = "dead" THEN "advance" ELSE "record"
               c == [cycle[a] EXCEPT !.own = row, !.pc = label]
    <2>1. c.pc = label /\ c.obs = s /\ c.own = row
        BY <1>0 DEF CycleState
    <2>2. cycle[a].own \in Row => row.key = cycle[a].own.key /\ row.cid = cycle[a].own.cid
        BY DEF Row
    <2>3. Update(a, c) /\ cycle[a].pc = "settle"
        BY <1>7 DEF Settle, At
    <2> HIDE DEF c, row
    <2> QED
        BY <2>1, <2>2, <2>3, UpdateFields DEF SameOwn
<1>8. ASSUME VerifyMatch(a) \/ VerifyDiffer(a) \/ PositionsLagVerify(a)
      PROVE  /\ cycle[a].pc = "verify" /\ cycle'[a].pc = "record" /\ OthersKeep(a)
             /\ cycle[a].own \in Row => SameOwn(a)
    <2> DEFINE row == [cycle[a].own EXCEPT !.state = "terminal"]
               c == [cycle[a] EXCEPT !.pc = "record", !.own = row]
    <2>1. c.pc = "record" /\ c.own = row
        BY <1>0 DEF CycleState
    <2>2. cycle[a].own \in Row => row.key = cycle[a].own.key /\ row.cid = cycle[a].own.cid
        BY DEF Row
    <2>3. (Update(a, c) \/ Goto(a, "record")) /\ cycle[a].pc = "verify"
        BY <1>8 DEF VerifyMatch, VerifyDiffer, PositionsLagVerify, At
    <2> HIDE DEF c, row
    <2> QED
        BY <2>1, <2>2, <2>3, UpdateFields DEF SameOwn, SameTask
<1> QED
    BY <1>1, <1>2, <1>3, <1>4, <1>5, <1>6, <1>7, <1>8

-----------------------------------------------------------------------------
(* Recorded fills, with any number of processes in a cycle at once: the      *)
(* proof uses neither the lease nor how long a CLI call takes.               *)

\* A process never changes the account, and sends at one label only.
LEMMA ProcessBroker ==
    ASSUME NEW a \in Actors, Acquire(a) \/ CycleStep(a) \/ Fault(a)
    PROVE  UNCHANGED <<order, book, campaigns>> /\ (~Submit(a) => inflight' = inflight)
BY DEF Acquire, CycleStep, ReconStep, RunStep, Fault, Exception, ListPending, ReconUnknown, ReconQuery,
   ReconKeep, ReconDead, ReconAdvance, ReconPositionsMatch, ReconPositionsDiffer, ReconRecord,
   ReconRetire, ReconDone, BeginRun, SnapshotNoOrder, Snapshot, Execute, ExecuteBlocked,
   Fresh, FreshBlocked, Lookup, Submit, BoundaryChanged, Response, NoResponse, PollTerminal,
   PollTimeout, Recheck, Settle, AdvanceAttempt, VerifyMatch, VerifyDiffer, Record, Fail,
   Abort, Crash, PositionsLagRecon, PositionsLagVerify, broker

LEMMA OrdersKept ==
    ASSUME [Next]_vars, \A c \in Cid : ~BrokerStep(c)
    PROVE  order' = order
<1>1. CASE Expire \/ BookMoves \/ UNCHANGED vars
    BY <1>1 DEF Expire, BookMoves, vars, broker
<1> QED
    BY <1>1, ProcessBroker DEF Next, Work, Disturbance, Actors

\* A filled order stays filled, and a dead one dead.
LEMMA ResolvedStays ==
    ASSUME TypeOK, [Next]_vars, NEW d \in Cid, order[d] \in {"filled", "dead"}
    PROVE  order'[d] = order[d]
<1>1. ASSUME NEW c \in Cid, BrokerStep(c) PROVE order'[d] = order[d]
    BY <1>1 DEF BrokerStep, Accept, Drop, Fill, PartialFill, Die, Replace,
                TypeOK, BrokerTyped, Live
<1> QED
    BY <1>1, OrdersKept

\* What a cycle takes for a filled order is one.
KnownFill(c, status) ==
    /\ c.pc \in {"classify", "settle", "advance", "record"} /\ c.obs = "filled" =>
           status[c.own.cid] = "filled"
    /\ c.pc \in {"positions", "append", "retire", "verify"} => status[c.own.cid] = "filled"
KnownFills == \A a \in Actors : KnownFill(cycle[a], order)
FillInv == KnownFills /\ CompletedOnlyFilled

LEMMA ReconKnows ==
    ASSUME TypeOK, NEW a \in Actors, KnownFill(cycle[a], order),
           Acquire(a) \/ ReconStep(a) \/ PositionsLagRecon(a) \/ Abort(a) \/ Crash(a)
    PROVE  KnownFill(cycle'[a], order) /\ OthersKeep(a)
<1>0. CycleTyped
    BY DEF TypeOK
<1>1. CASE ReconQuery(a)
    BY <1>0, <1>1, ReconFields DEF KnownFill
<1>2. CASE ReconPositionsMatch(a) \/ ReconRecord(a)
    BY <1>0, <1>2, ReconFields DEF KnownFill, SameTask
<1>3. CASE ~(ReconQuery(a) \/ ReconPositionsMatch(a) \/ ReconRecord(a))
    <2>1. /\ cycle'[a].pc \in {"list", "begin", "recon", "bump", "idle", "snap"}
          /\ OthersKeep(a)
        BY <1>0, <1>3, ReconFields DEF ReconStep
    <2> QED
        BY <2>1 DEF KnownFill
<1> QED
    BY <1>1, <1>2, <1>3

LEMMA RunKnows ==
    ASSUME TypeOK, NEW a \in Actors, KnownFill(cycle[a], order),
           RunStep(a) \/ Fail(a) \/ PositionsLagVerify(a)
    PROVE  KnownFill(cycle'[a], order) /\ OthersKeep(a)
<1>0. CycleTyped /\ (cycle[a].pc \in HasRow => cycle[a].own \in Row)
    BY CycleOf DEF TypeOK, Equipped
<1>1. CASE GiveUp(a)
    BY <1>0, <1>1, UpdateFields DEF KnownFill
<1>2. CASE BeginRun(a) \/ Record(a)
    <2>1. cycle'[a].pc \in {"idle", "begin", "snap"} /\ OthersKeep(a)
        BY <1>0, <1>2, ReconFields
    <2> QED
        BY <2>1 DEF KnownFill
<1>3. CASE Snapshot(a) \/ Execute(a) \/ Fresh(a) \/ PollTimeout(a) \/ Submit(a)
    <2>1. /\ OthersKeep(a)
          /\ \/ cycle'[a].pc \in {"execute", "fresh", "lookup", "recheck", "sent"}
             \/ cycle'[a].pc = "record" /\ cycle'[a].obs = "none"
        BY <1>0, <1>3, RunFields
    <2> QED
        BY <2>1 DEF KnownFill
<1>4. CASE Lookup(a) \/ Response(a) \/ PollTerminal(a) \/ Recheck(a)
    BY <1>0, <1>4, RunFields DEF KnownFill
<1>5. CASE Settle(a) \/ AdvanceAttempt(a)
    BY <1>0, <1>5, RunFields DEF KnownFill, SameOwn, SameTask, HasRow
<1>6. CASE VerifyMatch(a) \/ VerifyDiffer(a) \/ PositionsLagVerify(a)
    BY <1>0, <1>6, RunFields DEF KnownFill, SameOwn, HasRow
<1> QED
    BY <1>0, <1>1, <1>2, <1>3, <1>4, <1>5, <1>6, RunFields DEF RunStep

\* Only the two recording steps add to the ledger, each an order known to be filled.
LEMMA RecordsAreFilled ==
    ASSUME TypeOK, KnownFills, [Next]_vars, NEW d \in completed', d \notin completed
    PROVE  order[d] = "filled"
<1>1. PICK a \in Actors : ReconRecord(a) \/ Record(a)
    BY DEF Next, Work, Disturbance, Acquire, CycleStep, ReconStep, RunStep, Fault, Exception,
       ListPending, ReconUnknown, ReconQuery, ReconKeep, ReconDead, ReconAdvance,
       ReconPositionsMatch, ReconPositionsDiffer, ReconRetire, ReconDone, BeginRun,
       SnapshotNoOrder, Snapshot, Execute, ExecuteBlocked, Fresh, FreshBlocked, Lookup,
       Submit, BoundaryChanged, Response, NoResponse, PollTerminal, PollTimeout, Recheck,
       Settle, AdvanceAttempt, VerifyMatch, VerifyDiffer, Fail, Abort, Crash,
       PositionsLagRecon, PositionsLagVerify, BrokerStep, Accept, Drop, Fill, PartialFill,
       Die, Replace, Expire, BookMoves, store, vars
<1>2. KnownFill(cycle[a], order)
    BY DEF KnownFills
<1> QED
    BY <1>1, <1>2 DEF ReconRecord, Record, KnownFill, At

LEMMA NextFills == TypeOK /\ FillInv /\ [Next]_vars => FillInv'
<1> SUFFICES ASSUME TypeOK, FillInv, [Next]_vars PROVE FillInv'
    OBVIOUS
<1>1. KnownFills /\ CompletedOnlyFilled /\ CycleTyped /\ completed \subseteq Cid
    BY DEF FillInv, TypeOK, StoreTyped
<1>2. ASSUME NEW a \in Actors PROVE KnownFill(cycle[a], order')
    <2>1. KnownFill(cycle[a], order) /\ Equipped(cycle[a])
        BY <1>1, CycleOf DEF KnownFills
    <2>2. /\ cycle[a].pc \in HasRow => cycle[a].own.cid \in Cid
          /\ cycle[a].pc = "record" /\ cycle[a].obs = "filled" => cycle[a].own.cid \in Cid
        BY <2>1 DEF Equipped, Row
    <2> QED
        BY <2>1, <2>2, ResolvedStays DEF KnownFill, HasRow
<1>3. ASSUME NEW a \in Actors, Acquire(a) \/ CycleStep(a) \/ Fault(a)
      PROVE  KnownFills'
    <2>1. KnownFill(cycle'[a], order) /\ OthersKeep(a)
        BY <1>1, <1>3, ReconKnows, RunKnows DEF KnownFills, CycleStep, Fault, Exception
    <2>2. CycleTyped'
        BY NextTyped DEF TypeOK
    <2>3. cycle'[a].pc \in HasRow \/ (cycle'[a].pc = "record" /\ cycle'[a].obs = "filled") =>
              cycle'[a].own.cid \in Cid
        BY <2>2 DEF CycleTyped, Equipped, Row
    <2>4. KnownFill(cycle'[a], order')
        BY <2>1, <2>3, ResolvedStays DEF KnownFill, HasRow
    <2> QED
        BY <1>2, <2>1, <2>4 DEF KnownFills, OthersKeep
<1>4. ASSUME cycle' = cycle PROVE KnownFills'
    BY <1>2, <1>4 DEF KnownFills
<1>5. KnownFills'
    BY <1>3, <1>4 DEF Next, Work, Disturbance, BrokerStep, Accept, Drop, Fill,
       PartialFill, Die, Replace, Expire, BookMoves, vars
<1>6. CompletedOnlyFilled'
    <2>1. ASSUME NEW d \in completed' PROVE order'[d] = "filled"
        <3>1. order[d] = "filled" /\ d \in Cid
            BY <1>1, RecordsAreFilled, NextTyped DEF CompletedOnlyFilled, TypeOK, StoreTyped
        <3> QED
            BY <3>1, ResolvedStays
    <2> QED
        BY <2>1 DEF CompletedOnlyFilled
<1> QED
    BY <1>5, <1>6 DEF FillInv

\* A cycle that takes an order for filled is right, and so is the ledger.
LEMMA FillsKnown == Spec => []FillInv
<1>1. Init => FillInv
    BY DEF Init, FillInv, KnownFills, KnownFill, CompletedOnlyFilled, Idle
<1> QED
    BY <1>1, NextFills, TypeCorrect, PTL DEF Spec

\* The ledger never records a verified fill the broker does not have, for any number
\* of processes and also when one of them lost its lease in a CLI call and finishes
\* beside its successor (service.py 409-460, worker.py 131-185).
THEOREM CompletedOnlyFilledHolds == Spec => []CompletedOnlyFilled
<1>1. FillInv => CompletedOnlyFilled
    BY DEF FillInv
<1> QED
    BY <1>1, FillsKnown, PTL

-----------------------------------------------------------------------------
(* Closed intents, with any number of processes in a cycle at once.          *)

\* What a cycle takes for a dead order is one, and a row it may still send is open.
KnownDead(c, status) ==
    /\ c.pc \in {"classify", "settle"} /\ c.obs = "dead" => status[c.own.cid] = "dead"
    /\ c.pc \in {"fresh", "lookup", "boundary"} => c.own.state = "submitting"
KnownDeads == \A a \in Actors : KnownDead(cycle[a], order)
ClosedInv == KnownDeads /\ ClosedOnlyResolved

LEMMA ReconKnowsDead ==
    ASSUME TypeOK, NEW a \in Actors,
           Acquire(a) \/ ReconStep(a) \/ PositionsLagRecon(a) \/ Abort(a) \/ Crash(a)
           \/ BeginRun(a) \/ Record(a)
    PROVE  KnownDead(cycle'[a], order) /\ OthersKeep(a)
<1>0. CycleTyped
    BY DEF TypeOK
<1>1. CASE ReconQuery(a)
    BY <1>0, <1>1, ReconFields DEF KnownDead
<1>2. CASE ~ReconQuery(a)
    <2>1. /\ cycle'[a].pc \in {"list", "begin", "recon", "bump", "idle", "snap", "append", "retire"}
          /\ OthersKeep(a)
        BY <1>0, <1>2, ReconFields DEF ReconStep
    <2> QED
        BY <2>1 DEF KnownDead
<1> QED
    BY <1>1, <1>2

\* The row of an order that is not sent yet is still the one the trade was given.
LEMMA OwnOpen ==
    ASSUME TypeOK, NEW a \in Actors, KnownDead(cycle[a], order), Execute(a) \/ Fresh(a)
    PROVE  cycle'[a].pc = "record" \/ cycle'[a].own.state = "submitting"
<1>0. cycle[a] \in CycleState
    BY CycleOf DEF TypeOK
<1>1. CASE Execute(a)
    <2> DEFINE k == cycle[a].trade.key
               row == [key |-> k, cid |-> [key |-> k, att |-> attempts[k]], state |-> "submitting"]
               c == [cycle[a] EXCEPT !.pc = "fresh", !.own = row]
    <2>1. c.own = row /\ row.state = "submitting"
        BY <1>0 DEF CycleState
    <2>2. Update(a, c)
        BY <1>1 DEF Execute
    <2> HIDE DEF c, row
    <2> QED
        BY <2>1, <2>2, UpdateFields DEF TypeOK
<1>2. CASE Fresh(a)
    <2>1. cycle[a].pc = "fresh" /\ cycle[a].own \in Row /\ cycle[a].own.state = "submitting"
        BY <1>2, CycleOf DEF Fresh, At, Equipped, HasRow, KnownDead, TypeOK
    <2>2. PICK x :
            LET row == [cycle[a].own EXCEPT !.cid = x]
            IN  \/ Update(a, [cycle[a] EXCEPT !.pc = "lookup", !.own = row])
                \/ Update(a, [cycle[a] EXCEPT !.pc = "record", !.own = row, !.obs = "none"])
        BY <1>2 DEF Fresh
    <2> DEFINE row == [cycle[a].own EXCEPT !.cid = x]
               c == [cycle[a] EXCEPT !.pc = "lookup", !.own = row]
               d == [cycle[a] EXCEPT !.pc = "record", !.own = row, !.obs = "none"]
    <2>3. row.state = "submitting"
        BY <2>1 DEF Row
    <2>4. Update(a, c) \/ Update(a, d)
        BY <2>2
    <2> HIDE DEF row
    <2>5. c.own = row /\ d.pc = "record"
        BY <1>0 DEF CycleState
    <2> HIDE DEF c, d
    <2> QED
        BY <2>3, <2>4, <2>5, UpdateFields DEF TypeOK
<1> QED
    BY <1>1, <1>2

LEMMA RunKnowsDead ==
    ASSUME TypeOK, NEW a \in Actors, KnownDead(cycle[a], order),
           RunStep(a) \/ Fail(a) \/ PositionsLagVerify(a)
    PROVE  KnownDead(cycle'[a], order) /\ OthersKeep(a)
<1>0. CycleTyped
    BY DEF TypeOK
<1>1. CASE GiveUp(a)
    BY <1>0, <1>1, UpdateFields DEF KnownDead
<1>2. CASE BeginRun(a) \/ Record(a)
    BY <1>2, ReconKnowsDead
<1>3. CASE Snapshot(a) \/ PollTimeout(a) \/ Submit(a) \/ Settle(a) \/ AdvanceAttempt(a)
           \/ VerifyMatch(a) \/ VerifyDiffer(a) \/ PositionsLagVerify(a)
    <2>1. /\ OthersKeep(a)
          /\ cycle'[a].pc \in {"execute", "recheck", "sent", "verify", "advance", "record"}
        BY <1>0, <1>3, RunFields
    <2> QED
        BY <2>1 DEF KnownDead
<1>4. CASE Execute(a) \/ Fresh(a)
    <2>1. cycle'[a].pc \in {"fresh", "lookup", "record"} /\ OthersKeep(a)
        BY <1>0, <1>4, RunFields
    <2> QED
        BY <1>4, <2>1, OwnOpen DEF KnownDead
<1>5. CASE Lookup(a) \/ Response(a) \/ PollTerminal(a) \/ Recheck(a)
    BY <1>0, <1>5, RunFields DEF KnownDead
<1> QED
    BY <1>0, <1>1, <1>2, <1>3, <1>4, <1>5, RunFields DEF RunStep

\* The steps that write the table of intents.
LEMMA IntentsWritten ==
    ASSUME [Next]_vars, intents' # intents
    PROVE  \E a \in Actors :
             \/ ReconKeep(a) \/ ReconDead(a) \/ ReconPositionsDiffer(a) \/ ReconRetire(a)
             \/ PositionsLagRecon(a) \/ Fresh(a) \/ Submit(a) \/ Settle(a) \/ VerifyMatch(a)
BY DEF Next, Work, Disturbance, Acquire, CycleStep, ReconStep, RunStep, Fault, Exception,
   ListPending, ReconUnknown, ReconQuery, ReconAdvance, ReconPositionsMatch,
   ReconRecord, ReconDone, BeginRun, SnapshotNoOrder, Snapshot, Execute,
   ExecuteBlocked, FreshBlocked, Lookup, BoundaryChanged, Response, NoResponse,
   PollTerminal, PollTimeout, Recheck, AdvanceAttempt, VerifyDiffer, Record, Fail,
   Abort, Crash, PositionsLagVerify, BrokerStep, Accept, Drop, Fill, PartialFill,
   Die, Replace, Expire, BookMoves, store, vars

\* A row is closed by a cycle that knows its order to be filled or dead.
LEMMA ClosesResolved ==
    ASSUME TypeOK, KnownFills, KnownDeads, [Next]_vars,
           NEW r \in intents', r \notin intents, r.state = "terminal"
    PROVE  order[r.cid] \in {"filled", "dead"}
<1>1. PICK a \in Actors :
        \/ ReconKeep(a) \/ ReconDead(a) \/ ReconPositionsDiffer(a) \/ ReconRetire(a)
        \/ PositionsLagRecon(a) \/ Fresh(a) \/ Submit(a) \/ Settle(a) \/ VerifyMatch(a)
    BY IntentsWritten
<1> DEFINE own == cycle[a].own
<1>2. own \in Row
    <2>1. cycle[a].pc \in HasRow
        BY <1>1 DEF ReconKeep, ReconDead, ReconPositionsDiffer, ReconRetire,
           PositionsLagRecon, Fresh, Submit, Settle, VerifyMatch, At, HasRow
    <2> QED
        BY <2>1, CycleOf DEF TypeOK, Equipped
<1>3. KnownFill(cycle[a], order) /\ KnownDead(cycle[a], order)
    BY DEF KnownFills, KnownDeads
<1>4. ASSUME NEW q, Save(q) PROVE r = q
    BY <1>4 DEF Save
<1>5. ASSUME NEW s PROVE [own EXCEPT !.state = s].cid = own.cid
                         /\ [own EXCEPT !.state = s].state = s
    BY <1>2 DEF Row
<1>6. CASE ReconKeep(a) \/ ReconPositionsDiffer(a) \/ PositionsLagRecon(a)
    <2>1. Save([own EXCEPT !.state = "observed"])
        BY <1>6 DEF ReconKeep, ReconPositionsDiffer, PositionsLagRecon, Unresolved
    <2> QED
        BY <2>1, <1>4, <1>5
<1>7. CASE Fresh(a) \/ Submit(a)
    <2>1. own.state = "submitting"
        BY <1>3, <1>7 DEF KnownDead, Fresh, Submit, At
    <2>2. ASSUME NEW x PROVE [own EXCEPT !.cid = x].state = own.state
        BY <1>2 DEF Row
    <2>3. (\E x : Save([own EXCEPT !.cid = x])) \/ Save(own)
        BY <1>7 DEF Fresh, Submit
    <2> QED
        BY <2>1, <2>2, <2>3, <1>4
<1>8. CASE Settle(a)
    <2> DEFINE s == IF cycle[a].obs = "dead" THEN "terminal" ELSE "observed"
    <2>1. Save([own EXCEPT !.state = s])
        BY <1>8 DEF Settle
    <2>2. cycle[a].obs = "dead" => order[own.cid] = "dead"
        BY <1>3, <1>8 DEF KnownDead, Settle, At
    <2>3. r.cid = own.cid /\ r.state = s
        <3> HIDE DEF s
        <3> QED
            BY <2>1, <1>4, <1>5
    <2> QED
        BY <2>2, <2>3
<1>9. CASE ReconDead(a) \/ ReconRetire(a) \/ VerifyMatch(a)
    <2>1. Save([own EXCEPT !.state = "terminal"])
        BY <1>9 DEF ReconDead, ReconRetire, VerifyMatch
    <2>2. order[own.cid] \in {"filled", "dead"}
        BY <1>3, <1>9 DEF ReconDead, ReconRetire, VerifyMatch, At, KnownFill, KnownDead
    <2> QED
        BY <2>1, <2>2, <1>4, <1>5
<1> QED
    BY <1>1, <1>6, <1>7, <1>8, <1>9

LEMMA NextCloses == TypeOK /\ FillInv /\ ClosedInv /\ [Next]_vars => ClosedInv'
<1> SUFFICES ASSUME TypeOK, FillInv, ClosedInv, [Next]_vars PROVE ClosedInv'
    OBVIOUS
<1>1. KnownFills /\ KnownDeads /\ ClosedOnlyResolved /\ CycleTyped
    BY DEF FillInv, ClosedInv, TypeOK
<1>2. ASSUME NEW a \in Actors PROVE KnownDead(cycle[a], order')
    <2>1. KnownDead(cycle[a], order) /\ Equipped(cycle[a])
        BY <1>1, CycleOf DEF KnownDeads
    <2>2. cycle[a].pc \in HasRow => cycle[a].own.cid \in Cid
        BY <2>1 DEF Equipped, Row
    <2> QED
        BY <2>1, <2>2, ResolvedStays DEF KnownDead, HasRow
<1>3. ASSUME NEW a \in Actors, Acquire(a) \/ CycleStep(a) \/ Fault(a)
      PROVE  KnownDeads'
    <2>1. KnownDead(cycle'[a], order) /\ OthersKeep(a)
        BY <1>1, <1>3, ReconKnowsDead, RunKnowsDead DEF KnownDeads, CycleStep, Fault, Exception
    <2>2. order' = order
        BY <1>3, ProcessBroker
    <2> QED
        BY <1>2, <2>1, <2>2 DEF KnownDeads, OthersKeep
<1>4. ASSUME cycle' = cycle PROVE KnownDeads'
    BY <1>2, <1>4 DEF KnownDeads
<1>5. KnownDeads'
    BY <1>3, <1>4 DEF Next, Work, Disturbance, Actors, BrokerStep, Accept, Drop, Fill,
       PartialFill, Die, Replace, Expire, BookMoves, vars
<1>6. ASSUME NEW r \in intents', r.state = "terminal" PROVE order'[r.cid] \in {"filled", "dead"}
    <2>1. order[r.cid] \in {"filled", "dead"}
        BY <1>1, <1>6, ClosesResolved DEF ClosedOnlyResolved
    <2>2. r.cid \in Cid
        BY NextTyped DEF TypeOK, StoreTyped, Row
    <2> QED
        BY <2>1, <2>2, ResolvedStays
<1> QED
    BY <1>5, <1>6 DEF ClosedInv, ClosedOnlyResolved

\* No process, however late it finishes and whoever works beside it, marks an intent as
\* terminal before its order is wholly filled or dead: what a cycle has read of a
\* resolved order cannot become stale (service.py 409-466, worker.py 82-99, 131-185).
THEOREM ClosedOnlyResolvedHolds == Spec => []ClosedOnlyResolved
<1>1. Init => ClosedInv
    BY DEF Init, ClosedInv, KnownDeads, KnownDead, ClosedOnlyResolved, Idle
<1>2. ClosedInv => ClosedOnlyResolved
    BY DEF ClosedInv
<1> QED
    BY <1>1, <1>2, NextCloses, FillsKnown, TypeCorrect, PTL DEF Spec

-----------------------------------------------------------------------------
(* Stale orders.  If no CLI call outlives the lease, the trade of a cycle    *)
(* follows the campaign the account holds, and nothing is outstanding while  *)
(* the client id is looked up and the boundary is checked: what is submitted *)
(* fits the account, and later only the order itself can move the book.      *)

\* A trade that closes or rolls names the campaign the account holds.
Follows(k) ==
    k.act # "OPEN" /\ book.legs \in Legs => k.id \in {book.camp, -book.camp}

TradePhase(c) ==
    /\ c.pc \in HasTrade => Follows(c.trade.key)
    /\ c.pc \in {"lookup", "boundary"} =>
        /\ LiveOrders = {}
        /\ Follows(c.own.cid.key)
        /\ c.own.cid.key.act = c.trade.key.act
TradeInv ==
    /\ \A a \in Actors : TradePhase(cycle[a])
    /\ OpenOnlyFromFlat
    /\ NoStaleCampaign

\* An offered trade follows the account, under each id SameTrade may give it.
LEMMA OfferedFollows ==
    ASSUME NEW t, Offered(t)
    PROVE  Follows(t.key) /\ LiveOrders = {}
BY DEF Offered, Follows, CampaignIds

LEMMA SameTradeFields ==
    ASSUME NEW t \in Trade, NEW id
    PROVE  /\ SameTrade(t, id).legs = t.legs
           /\ SameTrade(t, id).key.act = t.key.act
           /\ SameTrade(t, id).key.to = t.key.to
           /\ SameTrade(t, id).key = [act |-> t.key.act, id |-> id, to |-> t.key.to]
<1>1. /\ t = [key |-> t.key, legs |-> t.legs]
      /\ t.key = [act |-> t.key.act, id |-> t.key.id, to |-> t.key.to]
    BY DEF Trade, Key
<1> QED
    BY <1>1 DEF SameTrade

\* What may still trade at the two labels before a submission, and before those.
LEMMA NothingOutstanding ==
    ASSUME TypeOK, IndInv, TradeInv, NEW a \in Actors, cycle[a].pc \in HasTrade,
           NEW d \in Cid
    PROVE  ~Outstanding(d)
<1>1. CASE cycle[a].pc \in {"execute", "fresh"}
    <2>1. Pending = {}
        BY <1>1 DEF IndInv, PhasePending, PendingPhase, NothingPending
    <2> QED
        BY <2>1 DEF IndInv, WriteAhead
<1>2. CASE cycle[a].pc \in {"lookup", "boundary"}
    <2>1. inflight = {} /\ LiveOrders = {}
        BY <1>2 DEF IndInv, PhaseOrder, OrderPhase, TradeInv, TradePhase
    <2> QED
        BY <2>1 DEF Outstanding, LiveOrders
<1> QED
    BY <1>1, <1>2 DEF HasTrade

\* At most one order is outstanding.
LEMMA OneOutstanding ==
    ASSUME IndInv, NEW c \in Cid, NEW d \in Cid, Outstanding(c), Outstanding(d)
    PROVE  c = d
BY DEF IndInv, WriteAhead, OnePending

\* The steps of a process that send nothing leave the orders and the book alone.
LEMMA TradeOfOne ==
    ASSUME TypeOK, TradeInv, NEW a \in Actors, OthersKeep(a), UNCHANGED broker,
           TradePhase(cycle'[a])
    PROVE  TradeInv'
<1>1. LiveOrders' = LiveOrders /\ book' = book /\ \A d \in Cid : Outstanding(d)' = Outstanding(d)
    BY DEF broker, LiveOrders, Outstanding
<1>2. ASSUME NEW b \in Actors PROVE TradePhase(cycle'[b])
    BY DEF TradeInv, OthersKeep
<1> QED
    BY <1>1, <1>2
       DEF TradeInv, TradePhase, Follows, OpenOnlyFromFlat, NoStaleCampaign, HasTrade

LEMMA ReconTrades ==
    ASSUME TypeOK, TradeInv, NEW a \in Actors,
           \/ Acquire(a) \/ ReconStep(a) \/ PositionsLagRecon(a) \/ Abort(a) \/ Crash(a)
           \/ BeginRun(a) \/ Record(a)
    PROVE  TradeInv'
<1>0. CycleTyped
    BY DEF TypeOK
<1>1. cycle'[a].pc \notin HasTrade /\ OthersKeep(a)
    <2>1. CASE ReconQuery(a)
        BY <1>0, <2>1, ReconFields DEF HasTrade
    <2>2. CASE ~ReconQuery(a)
        BY <1>0, <2>2, ReconFields DEF ReconStep, HasTrade
    <2> QED
        BY <2>1, <2>2
<1>2. UNCHANGED broker
    BY DEF Acquire, ReconStep, ListPending, ReconUnknown, ReconQuery, ReconKeep, ReconDead,
       ReconAdvance, ReconPositionsMatch, ReconPositionsDiffer, ReconRecord, ReconRetire,
       ReconDone, PositionsLagRecon, Abort, Crash, BeginRun, Record
<1>3. TradePhase(cycle'[a])
    BY <1>1 DEF TradePhase, HasTrade
<1> QED
    BY <1>1, <1>2, <1>3, TradeOfOne

LEMMA RunTrades ==
    ASSUME TypeOK, IndInv, TradeInv, NEW a \in Actors,
           RunStep(a) \/ Fail(a) \/ PositionsLagVerify(a), ~Submit(a)
    PROVE  TradeInv'
<1>0. CycleTyped /\ TradePhase(cycle[a])
    BY DEF TypeOK, TradeInv
<1>1. CASE BeginRun(a) \/ Record(a)
    BY <1>1, ReconTrades
<1>2. CASE ~(BeginRun(a) \/ Record(a))
    <2>1. UNCHANGED broker
        BY <1>2 DEF RunStep, SnapshotNoOrder, Snapshot, Execute, ExecuteBlocked, Fresh,
           FreshBlocked, Lookup, BoundaryChanged, Response, NoResponse, PollTerminal,
           PollTimeout, Recheck, Settle, AdvanceAttempt, VerifyMatch, VerifyDiffer, Fail,
           PositionsLagVerify
    <2>2. TradePhase(cycle'[a]) /\ OthersKeep(a)
        <3>1. CASE GiveUp(a)
            BY <1>0, <3>1, UpdateFields DEF TradePhase, HasTrade
        <3>2. CASE Snapshot(a)
            <4>1. PICK t \in Trade : Offered(t) /\ cycle'[a].trade = t
                BY <1>0, <3>2, RunFields
            <4>2. cycle'[a].pc = "execute" /\ OthersKeep(a)
                BY <1>0, <3>2, RunFields
            <4> QED
                BY <4>1, <4>2, OfferedFollows DEF TradePhase
        <3>3. CASE Execute(a)
            BY <1>0, <3>3, RunFields DEF TradePhase, HasTrade
        <3>4. CASE Fresh(a)
            <4>1. CASE cycle'[a].pc = "record"
                BY <1>0, <3>4, <4>1, RunFields DEF TradePhase, HasTrade
            <4>2. CASE cycle'[a].pc # "record"
                <5>1. PICK id \in CampaignIds :
                        /\ Offered(SameTrade(cycle[a].trade, id))
                        /\ cycle'[a].own.cid = [key |-> SameTrade(cycle[a].trade, id).key,
                                                att |-> cycle[a].own.cid.att]
                    BY <1>0, <3>4, <4>2, RunFields
                <5>2. /\ cycle[a].pc = "fresh" /\ cycle'[a].pc = "lookup" /\ OthersKeep(a)
                      /\ cycle'[a].trade = cycle[a].trade
                    BY <1>0, <3>4, <4>2, RunFields
                <5>3. cycle[a].trade \in Trade
                    BY <1>0, <5>2, CycleOf DEF Equipped, HasTrade
                <5>4. /\ Follows(SameTrade(cycle[a].trade, id).key) /\ LiveOrders = {}
                      /\ SameTrade(cycle[a].trade, id).key.act = cycle[a].trade.key.act
                    BY <5>1, <5>3, OfferedFollows, SameTradeFields
                <5> QED
                    BY <1>0, <5>1, <5>2, <5>4 DEF TradePhase, HasTrade
            <4> QED
                BY <4>1, <4>2
        <3>5. CASE Lookup(a)
            BY <1>0, <3>5, RunFields DEF TradePhase, HasTrade
        <3>6. CASE Response(a) \/ PollTerminal(a) \/ Recheck(a) \/ PollTimeout(a)
            BY <1>0, <3>6, RunFields DEF TradePhase, HasTrade
        <3>7. CASE Settle(a) \/ AdvanceAttempt(a)
            BY <1>0, <3>7, RunFields DEF TradePhase, HasTrade
        <3>8. CASE VerifyMatch(a) \/ VerifyDiffer(a) \/ PositionsLagVerify(a)
            BY <1>0, <3>8, RunFields DEF TradePhase, HasTrade
        <3> QED
            BY <1>0, <1>2, <3>1, <3>2, <3>3, <3>4, <3>5, <3>6, <3>7, <3>8, RunFields DEF RunStep
    <2> QED
        BY <2>1, <2>2, TradeOfOne
<1> QED
    BY <1>1, <1>2

\* What is sent fits the account: the boundary check is made on the book at that instant.
LEMMA SubmitTrades ==
    ASSUME TypeOK, IndInv, TradeInv, NEW a \in Actors, Submit(a)
    PROVE  TradeInv'
<1>0. CycleTyped /\ TradePhase(cycle[a])
    BY DEF TypeOK, TradeInv
<1>1. /\ cycle[a].pc = "boundary" /\ OthersKeep(a)
      /\ cycle'[a].pc \in {"record", "sent"}
    BY <1>0, RunFields
<1>2. /\ cycle[a].trade \in Trade /\ cycle[a].own \in Row
    BY <1>0, <1>1, CycleOf DEF Equipped, HasTrade, HasRow
<1>3. \A d \in Cid : ~Outstanding(d)
    BY <1>1, NothingOutstanding DEF HasTrade
<1>4. /\ order' = order /\ book' = book
      /\ inflight' \subseteq inflight \cup {cycle[a].own.cid}
    BY DEF Submit
<1>5. ASSUME NEW d \in Cid, Outstanding(d)' PROVE d = cycle[a].own.cid
    BY <1>3, <1>4, <1>5 DEF Outstanding
<1>6. /\ Follows(cycle[a].own.cid.key)
      /\ cycle[a].own.cid.key.act = cycle[a].trade.key.act
    BY <1>0, <1>1 DEF TradePhase
<1>7. cycle[a].trade.key.act = "OPEN" => book.legs = NoLegs
    <2>1. PICK id \in CampaignIds : Offered(SameTrade(cycle[a].trade, id))
        BY DEF Submit, StillOffered
    <2>2. /\ SameTrade(cycle[a].trade, id).key.act = cycle[a].trade.key.act
          /\ SameTrade(cycle[a].trade, id).legs = cycle[a].trade.legs
        BY <1>2, SameTradeFields
    <2> QED
        BY <2>1, <2>2 DEF Offered
<1>8. OpenOnlyFromFlat' /\ NoStaleCampaign'
    BY <1>4, <1>5, <1>6, <1>7 DEF OpenOnlyFromFlat, NoStaleCampaign, Follows
<1>9. ASSUME NEW b \in Actors PROVE TradePhase(cycle[b])' 
    <2>1. CASE b = a
        BY <1>1, <2>1 DEF TradePhase, HasTrade
    <2>2. CASE b # a
        <3>1. cycle'[b].pc = "idle"
            BY <1>1, <2>2, OthersIdle DEF IndInv, At, OthersKeep
        <3> QED
            BY <3>1 DEF TradePhase, HasTrade
    <2> QED
        BY <2>1, <2>2
<1> QED
    BY <1>8, <1>9 DEF TradeInv

LEMMA BrokerTrades ==
    ASSUME TypeOK, IndInv, TradeInv, NEW c \in Cid, BrokerStep(c)
    PROVE  TradeInv'
<1>1. cycle' = cycle
    BY DEF BrokerStep, Accept, Drop, Fill, PartialFill, Die, Replace
<1>2. Outstanding(c)
    BY DEF BrokerStep, Accept, Drop, Fill, PartialFill, Die, Replace, Outstanding, Live
<1>3. ASSUME NEW a \in Actors PROVE TradePhase(cycle[a])'
    <2>1. cycle[a].pc \notin HasTrade
        BY <1>2, NothingOutstanding
    <2> QED
        BY <1>1, <2>1 DEF TradePhase, HasTrade
<1>4. ASSUME NEW d \in Cid, Outstanding(d)' PROVE d = c /\ Outstanding(d)
    <2>1. Outstanding(d)
        BY <1>4 DEF BrokerStep, Accept, Drop, Fill, PartialFill, Die, Replace, Outstanding,
           Live, TypeOK, BrokerTyped
    <2> QED
        BY <1>2, <2>1, OneOutstanding
<1>5. CASE book' = book
    BY <1>3, <1>4, <1>5 DEF TradeInv, OpenOnlyFromFlat, NoStaleCampaign
<1>6. CASE Fill(c)
    <2>1. c \notin inflight
        BY <1>6 DEF Fill, IndInv, InflightUnknown, Live
    <2>2. ~Outstanding(c)'
        BY <1>6, <2>1 DEF Fill, Outstanding, Live, TypeOK, BrokerTyped
    <2> QED
        BY <1>3, <1>4, <2>2 DEF TradeInv, OpenOnlyFromFlat, NoStaleCampaign
<1>7. CASE PartialFill(c)
    <2>1. c.key.act # "OPEN" /\ book'.legs \notin Legs
        BY <1>7, LegsAssumption DEF PartialFill, Odd
    <2> QED
        BY <1>3, <1>4, <2>1 DEF TradeInv, OpenOnlyFromFlat, NoStaleCampaign
<1> QED
    BY <1>5, <1>6, <1>7 DEF BrokerStep, Accept, Drop, Die, Replace

LEMMA NextTrades ==
    ASSUME TypeOK, IndInv, TradeInv, [Next]_vars
    PROVE  TradeInv'
<1>1. ASSUME NEW a \in Actors, Acquire(a) \/ CycleStep(a) \/ Fault(a) PROVE TradeInv'
    BY <1>1, ReconTrades, RunTrades, SubmitTrades DEF CycleStep, Fault, Exception
<1>2. ASSUME NEW c \in Cid, BrokerStep(c) PROVE TradeInv'
    BY <1>2, BrokerTrades
<1>3. ASSUME UNCHANGED <<broker, cycle>> PROVE TradeInv'
    BY <1>3 DEF broker, TradeInv, TradePhase, Follows, LiveOrders, OpenOnlyFromFlat,
       NoStaleCampaign, Outstanding
<1>4. CASE BookMoves
    <2>1. /\ cycle' = cycle /\ book.legs # NoLegs /\ book'.legs \notin Legs
          /\ order' = order /\ inflight' = inflight
        BY <1>4, LegsAssumption DEF BookMoves, Flat, Odd
    <2>2. ASSUME NEW a \in Actors PROVE TradePhase(cycle[a])'
        BY <2>1 DEF TradeInv, TradePhase, Follows, LiveOrders
    <2> QED
        BY <2>1, <2>2 DEF TradeInv, OpenOnlyFromFlat, NoStaleCampaign, Outstanding
<1> QED
    BY <1>1, <1>2, <1>3, <1>4 DEF Next, Work, Disturbance, Expire, vars, broker

\* The two properties below with what makes them inductive: the trade a cycle works on
\* follows the campaign the account holds, and nothing is outstanding before it is sent.
THEOREM TradesFollow == ASSUME ~CliMayHang PROVE Spec => []TradeInv
<1>1. Init => TradeInv
    BY DEF Init, TradeInv, TradePhase, HasTrade, Idle, OpenOnlyFromFlat, NoStaleCampaign,
       Outstanding, Live
<1>2. TypeOK /\ IndInv /\ TradeInv /\ [Next]_vars => TradeInv'
    BY NextTrades
<1> QED
    BY <1>1, <1>2, Inductive, TypeCorrect, PTL DEF Spec

\* An entry order is outstanding only while the account is flat, for any number of
\* processes and contracts: the flat branch of the engine is re-read at the boundary,
\* and no other order can open a position meanwhile (service.py 320-420).
THEOREM OpenOnlyFromFlatHolds == ASSUME ~CliMayHang PROVE Spec => []OpenOnlyFromFlat
<1>1. TradeInv => OpenOnlyFromFlat
    BY DEF TradeInv
<1> QED
    BY <1>1, TradesFollow, PTL

\* No order to close or roll survives into another campaign: the account never holds a
\* vertical of one campaign under an order named for another, although the campaign's id
\* may fall back to one made from its prices (alpaca._campaign_id, service._same_trade).
THEOREM NoStaleCampaignHolds == ASSUME ~CliMayHang PROVE Spec => []NoStaleCampaign
<1>1. TradeInv => NoStaleCampaign
    BY DEF TradeInv
<1> QED
    BY <1>1, TradesFollow, PTL

-----------------------------------------------------------------------------
(* Retries.  With a campaign id that does not change under the cycle, the    *)
(* row in use always carries its incident's current attempt, so the counter  *)
(* only advances past an attempt that died.                                  *)

\* The second snapshot gives a trade the campaign id the first one gave it.
LEMMA SameCampaign ==
    ASSUME TypeOK, ~ActivityMayFail, NEW t \in Trade, Follows(t.key),
           NEW id \in CampaignIds, Offered(SameTrade(t, id))
    PROVE  SameTrade(t, id).key = t.key
<1>1. /\ id = book.camp
      /\ SameTrade(t, id).key = [act |-> t.key.act, id |-> id, to |-> t.key.to]
      /\ t.key = [act |-> t.key.act, id |-> t.key.id, to |-> t.key.to]
    BY SameTradeFields DEF CampaignIds, Trade, Key
<1>2. /\ book.legs = t.legs
      /\ t.key.act = "OPEN" <=> t.legs = NoLegs
    BY SameTradeFields DEF Offered
<1>3. CASE t.key.act = "OPEN"
    <2>1. book = Flat /\ t.key.id = 0
        BY <1>2, <1>3, LegsAssumption DEF TypeOK, BrokerTyped, Position, Flat, Odd, NoLegs,
           OddLegs, Trade, Key
    <2> QED
        BY <1>1, <2>1 DEF Flat
<1>4. CASE t.key.act # "OPEN"
    <2>1. book.legs \in Legs
        BY <1>2, <1>4 DEF Trade
    <2>2. book.camp \in 1 .. MaxCampaigns
        BY <2>1, LegsAssumption DEF TypeOK, BrokerTyped, Position, Flat, Odd
    <2>3. t.key.id \in 1 .. MaxCampaigns
        BY <1>4 DEF Trade, Key, PositionId
    <2>4. t.key.id \in {book.camp, -book.camp}
        BY <1>4, <2>1 DEF Follows
    <2>5. t.key.id = book.camp
        BY <2>2, <2>3, <2>4
    <2> QED
        BY <1>1, <2>5
<1> QED
    BY <1>3, <1>4

\* A saved row is the only one a step can add to those pending.
LEMMA SaveAdds ==
    ASSUME NEW r, Save(r)
    PROVE  Pending' \subseteq Pending \cup {r}
BY DEF Save, Pending

\* A row with the same incident and client id is as current.
LEMMA StateKeepsCurrent ==
    ASSUME NEW r \in Row, CurrentAttempt(r), NEW s
    PROVE  CurrentAttempt([r EXCEPT !.state = s])
BY DEF Row, CurrentAttempt

CurrentCycle(c) ==
    /\ c.pc \in HasRow => CurrentAttempt(c.own)
    /\ c.pc \in {"fresh", "lookup", "boundary"} => c.own.key = c.trade.key

\* A step of a process that leaves the attempts alone.
LEMMA CurrentOfOne ==
    ASSUME AttemptsCurrent, RetryOnlyAfterDead, NEW a \in Actors, OthersKeep(a),
           attempts' = attempts, order' = order,
           \A r \in Pending' : r \in Pending \/ CurrentAttempt(r),
           CurrentCycle(cycle'[a])
    PROVE  AttemptsCurrent' /\ RetryOnlyAfterDead'
<1>1. ASSUME NEW b \in Actors PROVE CurrentCycle(cycle'[b])
    BY DEF OthersKeep, AttemptsCurrent, CurrentCycle
<1>2. ASSUME NEW r \in Pending' PROVE CurrentAttempt(r)
    BY DEF AttemptsCurrent
<1> QED
    BY <1>1, <1>2 DEF AttemptsCurrent, CurrentAttempt, CurrentCycle, RetryOnlyAfterDead

\* Advancing past the dead attempt of a process that works on its row.
LEMMA AdvanceOfOne ==
    ASSUME TypeOK, IndInv, AttemptsCurrent, RetryOnlyAfterDead, NEW a \in Actors,
           cycle[a].pc \in {"bump", "advance"}, OthersKeep(a),
           Advance(cycle[a].own.key), intents' = intents, order' = order,
           cycle'[a].pc \in {"recon", "record"}
    PROVE  AttemptsCurrent' /\ RetryOnlyAfterDead'
<1>1. /\ cycle[a].own \in Row /\ CurrentAttempt(cycle[a].own)
      /\ order[cycle[a].own.cid] = "dead" /\ Pending = {} /\ ~At(a, "idle")
    BY OwnTyped DEF TypeOK, IndInv, PhasePending, PendingPhase, PhaseOrder, OrderPhase,
       NothingPending, HasRow, AttemptsCurrent, At
<1> DEFINE k == cycle[a].own.key
<1>2. k \in Key /\ order[[key |-> k, att |-> attempts[k]]] = "dead"
    BY <1>1 DEF Row, CurrentAttempt
<1>3. AttemptsCurrent'
    <2>1. Pending' = {}
        BY <1>1 DEF Pending
    <2>2. ASSUME NEW b \in Actors
          PROVE  cycle'[b].pc \notin HasRow /\ cycle'[b].pc \notin {"fresh", "lookup", "boundary"}
        <3>1. CASE b = a
            BY <3>1 DEF HasRow
        <3>2. CASE b # a
            BY <1>1, <3>2, OthersIdle DEF IndInv, At, OthersKeep, HasRow
        <3> QED
            BY <3>1, <3>2
    <2> QED
        BY <2>1, <2>2 DEF AttemptsCurrent
<1>4. ASSUME NEW j \in Key, NEW n \in 1 .. MaxAttempt, n < attempts'[j]
      PROVE  order[[key |-> j, att |-> n]] = "dead"
    <2>1. /\ attempts[j] \in 1 .. MaxAttempt + 1
          /\ attempts'[j] = IF j = k /\ attempts[j] <= MaxAttempt THEN attempts[j] + 1
                            ELSE attempts[j]
        BY <1>2 DEF Advance, TypeOK, StoreTyped
    <2>2. CASE n < attempts[j]
        BY <2>2 DEF RetryOnlyAfterDead
    <2>3. CASE ~(n < attempts[j])
        <3>1. j = k /\ n = attempts[k]
            BY <1>4, <2>1, <2>3
        <3> QED
            BY <1>2, <3>1
    <2> QED
        BY <2>2, <2>3
<1>5. RetryOnlyAfterDead'
    BY <1>4 DEF RetryOnlyAfterDead
<1> QED
    BY <1>3, <1>5

LEMMA ReconCurrent ==
    ASSUME TypeOK, IndInv, AttemptsCurrent, RetryOnlyAfterDead, NEW a \in Actors,
           \/ Acquire(a) \/ ReconStep(a) \/ PositionsLagRecon(a) \/ Abort(a) \/ Crash(a)
           \/ BeginRun(a) \/ Record(a)
    PROVE  AttemptsCurrent' /\ RetryOnlyAfterDead'
<1>0. /\ CycleTyped /\ CurrentCycle(cycle[a])
      /\ cycle[a].pc \in HasRow => cycle[a].own \in Row
      /\ cycle[a].pc = "recon" => cycle[a].todo \subseteq Pending
    BY OwnTyped DEF TypeOK, AttemptsCurrent, CurrentCycle, IndInv, PhasePending, PendingPhase
<1>1. CASE ReconAdvance(a)
    <2>1. /\ cycle[a].pc = "bump" /\ cycle'[a].pc = "recon" /\ OthersKeep(a)
        BY <1>0, <1>1, ReconFields
    <2> QED
        BY <1>1, <2>1, AdvanceOfOne DEF ReconAdvance, broker
<1>2. CASE ~ReconAdvance(a)
    <2>1. attempts' = attempts /\ order' = order
        BY <1>2 DEF Acquire, ReconStep, ListPending, ReconUnknown, ReconQuery, ReconKeep,
           ReconDead, ReconPositionsMatch, ReconPositionsDiffer, ReconRecord, ReconRetire,
           ReconDone, PositionsLagRecon, Abort, Crash, BeginRun, Record, store, broker
    <2>2. \A r \in Pending' : r \in Pending \/ CurrentAttempt(r)
        <3>1. CASE ReconKeep(a) \/ ReconPositionsDiffer(a) \/ PositionsLagRecon(a)
                     \/ ReconDead(a) \/ ReconRetire(a)
            <4>1. cycle[a].pc \in HasRow
                BY <3>1 DEF ReconKeep, ReconPositionsDiffer, PositionsLagRecon, ReconDead,
                   ReconRetire, At, HasRow
            <4>2. PICK s \in {"observed", "terminal"} : Save([cycle[a].own EXCEPT !.state = s])
                BY <3>1 DEF ReconKeep, ReconPositionsDiffer, PositionsLagRecon, ReconDead,
                   ReconRetire, Unresolved
            <4> QED
                BY <1>0, <4>1, <4>2, SaveAdds, StateKeepsCurrent DEF CurrentCycle
        <3>2. CASE intents' = intents
            BY <3>2 DEF Pending
        <3> QED
            BY <1>2, <3>1, <3>2 DEF Acquire, ReconStep, ListPending, ReconUnknown,
               ReconQuery, ReconPositionsMatch, ReconRecord, ReconDone, Abort, Crash,
               BeginRun, Record, store
    <2>3. CurrentCycle(cycle'[a]) /\ OthersKeep(a)
        <3>1. CASE ReconQuery(a)
            <4>1. /\ OthersKeep(a) /\ cycle'[a].own \in Pending
                  /\ cycle'[a].pc \in {"positions", "classify"}
                BY <1>0, <3>1, ReconFields
            <4> QED
                BY <4>1 DEF AttemptsCurrent, CurrentCycle
        <3>2. CASE ReconPositionsMatch(a) \/ ReconRecord(a)
            BY <1>0, <3>2, ReconFields DEF CurrentCycle, SameTask, HasRow
        <3>3. CASE ReconDead(a)
            BY <1>0, <3>3, ReconFields DEF CurrentCycle, SameOwn, CurrentAttempt, HasRow
        <3>4. CASE ~(ReconQuery(a) \/ ReconPositionsMatch(a) \/ ReconRecord(a) \/ ReconDead(a))
            <4>1. /\ cycle'[a].pc \in {"list", "begin", "recon", "idle", "snap"}
                  /\ OthersKeep(a)
                BY <1>0, <1>2, <3>4, ReconFields DEF ReconStep
            <4> QED
                BY <4>1 DEF CurrentCycle, HasRow
        <3> QED
            BY <3>1, <3>2, <3>3, <3>4
    <2> QED
        BY <2>1, <2>2, <2>3, CurrentOfOne
<1> QED
    BY <1>1, <1>2

LEMMA RunCurrent ==
    ASSUME TypeOK, IndInv, TradeInv, AttemptsCurrent, RetryOnlyAfterDead, ~ActivityMayFail,
           NEW a \in Actors, RunStep(a) \/ Fail(a) \/ PositionsLagVerify(a)
    PROVE  AttemptsCurrent' /\ RetryOnlyAfterDead'
<1>0. /\ CycleTyped /\ CurrentCycle(cycle[a]) /\ Equipped(cycle[a]) /\ TradePhase(cycle[a])
    BY CycleOf DEF TypeOK, AttemptsCurrent, CurrentCycle, TradeInv
<1>1. CASE BeginRun(a) \/ Record(a)
    BY <1>1, ReconCurrent
<1>2. CASE AdvanceAttempt(a)
    <2>1. /\ cycle[a].pc = "advance" /\ cycle'[a].pc = "record" /\ OthersKeep(a)
        BY <1>0, <1>2, RunFields
    <2> QED
        BY <1>2, <2>1, AdvanceOfOne DEF AdvanceAttempt, broker
<1>3. CASE Fresh(a)
    <2>1. PICK id \in CampaignIds :
            LET t == SameTrade(cycle[a].trade, id)
                row == [cycle[a].own EXCEPT !.cid = [key |-> t.key, att |-> @.att]]
            IN  Offered(t) /\ Save(row) /\ (cycle'[a].pc = "lookup" => cycle'[a].own = row)
        <3>1. PICK id \in CampaignIds :
                LET t == SameTrade(cycle[a].trade, id)
                    row == [cycle[a].own EXCEPT !.cid = [key |-> t.key, att |-> @.att]]
                IN  /\ Offered(t) /\ Save(row)
                    /\ \/ Update(a, [cycle[a] EXCEPT !.pc = "lookup", !.own = row])
                       \/ Update(a, [cycle[a] EXCEPT !.pc = "record", !.own = row, !.obs = "none"])
            BY <1>3 DEF Fresh
        <3> DEFINE row == [cycle[a].own EXCEPT
                        !.cid = [key |-> SameTrade(cycle[a].trade, id).key, att |-> @.att]]
                   c == [cycle[a] EXCEPT !.pc = "lookup", !.own = row]
                   d == [cycle[a] EXCEPT !.pc = "record", !.own = row, !.obs = "none"]
        <3>2. Update(a, c) \/ Update(a, d)
            BY <3>1
        <3>3. c.own = row /\ d.pc = "record"
            BY <1>0, CycleOf DEF CycleState
        <3>4. cycle'[a].pc = "lookup" => cycle'[a].own = row
            <4> HIDE DEF c, d, row
            <4> QED
                BY <1>0, <3>2, <3>3, UpdateFields
        <3> QED
            BY <3>1, <3>4
    <2> DEFINE row == [cycle[a].own EXCEPT
                        !.cid = [key |-> SameTrade(cycle[a].trade, id).key, att |-> @.att]]
    <2>2. /\ cycle[a].pc = "fresh" /\ OthersKeep(a)
          /\ \/ cycle'[a].pc = "record"
             \/ cycle'[a].pc = "lookup" /\ cycle'[a].trade = cycle[a].trade
        BY <1>0, <1>3, RunFields
    <2>3. /\ cycle[a].own \in Row /\ cycle[a].trade \in Trade /\ Follows(cycle[a].trade.key)
          /\ cycle[a].own.key = cycle[a].trade.key /\ CurrentAttempt(cycle[a].own)
        BY <1>0, <2>2 DEF Equipped, HasRow, HasTrade, TradePhase, CurrentCycle
    <2>4. SameTrade(cycle[a].trade, id).key = cycle[a].own.key
        BY <2>1, <2>3, SameCampaign
    <2>5. row.key = cycle[a].own.key /\ CurrentAttempt(row)
        BY <2>3, <2>4 DEF Row, CurrentAttempt
    <2>6. Save(row) /\ (cycle'[a].pc = "lookup" => cycle'[a].own = row)
        BY <2>1
    <2> HIDE DEF row
    <2>7. \A r \in Pending' : r \in Pending \/ CurrentAttempt(r)
        BY <2>5, <2>6, SaveAdds
    <2>8. CurrentCycle(cycle'[a])
        BY <2>2, <2>3, <2>5, <2>6 DEF CurrentCycle, HasRow
    <2>9. attempts' = attempts /\ order' = order
        BY <1>3 DEF Fresh, broker
    <2> QED
        BY <2>2, <2>7, <2>8, <2>9, CurrentOfOne
<1>4. CASE ~(BeginRun(a) \/ Record(a) \/ AdvanceAttempt(a) \/ Fresh(a))
    <2>1. attempts' = attempts /\ order' = order
        BY <1>4 DEF RunStep, SnapshotNoOrder, Snapshot, Execute, ExecuteBlocked,
           FreshBlocked, Lookup, Submit, BoundaryChanged, Response, NoResponse, PollTerminal,
           PollTimeout, Recheck, Settle, VerifyMatch, VerifyDiffer, Fail,
           PositionsLagVerify, store, broker
    <2>2. \A r \in Pending' : r \in Pending \/ CurrentAttempt(r)
        <3>1. CASE Submit(a)
            <4>1. CurrentAttempt(cycle[a].own) /\ Save(cycle[a].own)
                BY <1>0, <3>1 DEF Submit, At, CurrentCycle, HasRow
            <4> QED
                BY <4>1, SaveAdds
        <3>2. CASE Settle(a) \/ VerifyMatch(a)
            <4>1. PICK s \in {"observed", "terminal"} : Save([cycle[a].own EXCEPT !.state = s])
                BY <3>2 DEF Settle, VerifyMatch
            <4>2. cycle[a].own \in Row /\ CurrentAttempt(cycle[a].own)
                BY <1>0, <3>2 DEF Settle, VerifyMatch, At, CurrentCycle, Equipped, HasRow
            <4> QED
                BY <4>1, <4>2, SaveAdds, StateKeepsCurrent
        <3>3. CASE intents' = intents
            BY <3>3 DEF Pending
        <3> QED
            BY <1>4, <3>1, <3>2, <3>3 DEF RunStep, SnapshotNoOrder, Snapshot, Execute,
               ExecuteBlocked, FreshBlocked, Lookup, BoundaryChanged, Response, NoResponse,
               PollTerminal, PollTimeout, Recheck, VerifyDiffer, Fail, PositionsLagVerify,
               store
    <2>3. CurrentCycle(cycle'[a]) /\ OthersKeep(a)
        <3>1. CASE GiveUp(a) \/ Snapshot(a)
            BY <1>0, <3>1, UpdateFields, RunFields DEF CurrentCycle, HasRow
        <3>2. CASE Execute(a)
            <4>1. /\ cycle'[a].pc = "fresh" /\ OthersKeep(a)
                  /\ cycle'[a].own.key = cycle'[a].trade.key
                  /\ cycle'[a].own.cid =
                       [key |-> cycle'[a].own.key, att |-> attempts[cycle'[a].own.key]]
                BY <1>0, <3>2, RunFields
            <4> QED
                BY <4>1 DEF CurrentCycle, CurrentAttempt
        <3>3. CASE Lookup(a) \/ Response(a) \/ PollTerminal(a) \/ Recheck(a)
            BY <1>0, <3>3, RunFields DEF CurrentCycle, HasRow
        <3>4. CASE Submit(a) \/ PollTimeout(a)
            BY <1>0, <3>4, RunFields DEF CurrentCycle, SameTask, HasRow
        <3>5. CASE Settle(a)
            BY <1>0, <3>5, RunFields DEF CurrentCycle, Equipped, SameOwn, CurrentAttempt, HasRow
        <3>6. CASE VerifyMatch(a) \/ VerifyDiffer(a) \/ PositionsLagVerify(a)
            BY <1>0, <3>6, RunFields DEF CurrentCycle, HasRow
        <3> QED
            BY <1>0, <1>4, <3>1, <3>2, <3>3, <3>4, <3>5, <3>6, RunFields DEF RunStep
    <2> QED
        BY <2>1, <2>2, <2>3, CurrentOfOne
<1> QED
    BY <1>1, <1>2, <1>3, <1>4

LEMMA NextCurrent ==
    ASSUME TypeOK, IndInv, TradeInv, AttemptsCurrent, RetryOnlyAfterDead, ~ActivityMayFail,
           [Next]_vars
    PROVE  AttemptsCurrent' /\ RetryOnlyAfterDead'
<1>1. ASSUME NEW a \in Actors, Acquire(a) \/ CycleStep(a) \/ Fault(a)
      PROVE  AttemptsCurrent' /\ RetryOnlyAfterDead'
    BY <1>1, ReconCurrent, RunCurrent DEF CycleStep, Fault, Exception
<1>2. ASSUME UNCHANGED <<intents, attempts, cycle>> PROVE AttemptsCurrent'
    BY <1>2 DEF AttemptsCurrent, CurrentAttempt, Pending
<1>3. ASSUME NEW c \in Cid, BrokerStep(c) PROVE AttemptsCurrent' /\ RetryOnlyAfterDead'
    <2>1. UNCHANGED <<intents, attempts, cycle>>
        BY <1>3 DEF BrokerStep, Accept, Drop, Fill, PartialFill, Die, Replace, store
    <2>2. ASSUME NEW k \in Key, NEW n \in 1 .. MaxAttempt, n < attempts[k]
          PROVE  order'[[key |-> k, att |-> n]] = "dead"
        <3>1. [key |-> k, att |-> n] \in Cid /\ order[[key |-> k, att |-> n]] = "dead"
            BY <2>2 DEF Cid, RetryOnlyAfterDead
        <3> QED
            BY <3>1, ResolvedStays
    <2> QED
        BY <1>2, <2>1, <2>2 DEF RetryOnlyAfterDead
<1>4. ASSUME Expire \/ BookMoves \/ UNCHANGED vars PROVE AttemptsCurrent' /\ RetryOnlyAfterDead'
    <2>1. UNCHANGED <<intents, attempts, cycle, order>>
        BY <1>4 DEF Expire, BookMoves, vars, store, broker
    <2> QED
        BY <1>2, <2>1 DEF RetryOnlyAfterDead
<1> QED
    BY <1>1, <1>3, <1>4 DEF Next, Work, Disturbance

\* If no CLI call outlives the lease and the fill activities can be read, every row in
\* use carries its incident's current attempt, whatever crashed between the closing of
\* an intent and the advance of its counter (worker.py 82-97, service.py 340-466).
THEOREM RetryInvHolds == ASSUME ~CliMayHang, ~ActivityMayFail PROVE Spec => []RetryInv
<1>1. Init => AttemptsCurrent /\ RetryOnlyAfterDead
    BY DEF Init, AttemptsCurrent, RetryOnlyAfterDead, Pending, Idle, HasRow
<1>2. TypeOK /\ IndInv /\ TradeInv /\ (AttemptsCurrent /\ RetryOnlyAfterDead) /\ [Next]_vars
        => (AttemptsCurrent /\ RetryOnlyAfterDead)'
    BY NextCurrent
<1>3. TradeInv /\ AttemptsCurrent /\ RetryOnlyAfterDead => RetryInv
    BY DEF TradeInv, RetryInv
<1> QED
    BY <1>1, <1>2, <1>3, TradesFollow, Inductive, TypeCorrect, PTL DEF Spec

\* Two attempts of one incident never trade twice, for any number of processes and
\* retries: attempt n + 1 exists only after the first n died unfilled
\* (service.py 461-463, worker.py 89-97, store.advance_attempt).
THEOREM RetryOnlyAfterDeadHolds ==
    ASSUME ~CliMayHang, ~ActivityMayFail PROVE Spec => []RetryOnlyAfterDead
<1>1. RetryInv => RetryOnlyAfterDead
    BY DEF RetryInv
<1> QED
    BY <1>1, RetryInvHolds, PTL

-----------------------------------------------------------------------------
(* Intents are closed for a reason.                                          *)

\* Saving the pending row again with its client id leaves it pending, unless it is closed.
LEMMA SavedStaysPending ==
    ASSUME TypeOK, OnePending, NEW own \in Pending, NEW s, s # "terminal",
           Save([own EXCEPT !.state = s]), NEW r \in Pending
    PROVE  \E q \in Pending' : q.cid = r.cid
<1> DEFINE q == [own EXCEPT !.state = s]
<1>1. own \in Row /\ r = own
    BY DEF OnePending, Pending, TypeOK, StoreTyped
<1>2. q.cid = own.cid /\ q.state = s
    BY <1>1 DEF Row
<1>3. q \in Pending'
    <2> HIDE DEF q
    <2>1. Save(q)
        BY DEF q
    <2> QED
        BY <1>2, <2>1 DEF Pending, Save
<1> QED
    BY <1>1, <1>2, <1>3

\* A step closes the intent of a resolved order only.
LEMMA ResolvedBeforeClosed ==
    ASSUME TypeOK, IndInv, Next, NEW r \in Pending, \A q \in Pending' : q.cid # r.cid
    PROVE  order[r.cid] \in {"filled", "dead"}
<1>1. intents' # intents
    BY DEF Pending
<1>2. PICK a \in Actors :
        \/ ReconKeep(a) \/ ReconDead(a) \/ ReconPositionsDiffer(a) \/ ReconRetire(a)
        \/ PositionsLagRecon(a) \/ Fresh(a) \/ Submit(a) \/ Settle(a) \/ VerifyMatch(a)
    BY <1>1, IntentsWritten
<1>3. cycle[a].pc # "fresh"
    BY DEF IndInv, PhasePending, PendingPhase, NothingPending
<1>4. cycle[a].own \in Pending
    BY <1>2, <1>3 DEF ReconKeep, ReconDead, ReconPositionsDiffer, ReconRetire,
       PositionsLagRecon, Fresh, Submit, Settle, VerifyMatch, At, IndInv, PhasePending,
       PendingPhase, OwnPending
<1>5. OnePending /\ OrderPhase(cycle[a], order, inflight) /\ cycle[a].own = r
    BY <1>4 DEF IndInv, OnePending, PhaseOrder
<1>6. CASE ReconKeep(a) \/ ReconPositionsDiffer(a) \/ PositionsLagRecon(a)
    <2>1. Save([cycle[a].own EXCEPT !.state = "observed"])
        BY <1>6 DEF ReconKeep, ReconPositionsDiffer, PositionsLagRecon, Unresolved
    <2> QED
        BY <1>4, <1>5, <2>1, SavedStaysPending
<1>7. CASE Submit(a)
    <2>1. Save(r) /\ r.state # "terminal"
        BY <1>5, <1>7 DEF Submit, Pending
    <2>2. r \in Pending'
        BY <2>1 DEF Save, Pending
    <2> QED
        BY <2>2
<1>8. CASE Settle(a)
    <2>1. CASE cycle[a].obs = "dead"
        BY <1>5, <1>8, <2>1 DEF Settle, At, OrderPhase
    <2>2. CASE cycle[a].obs # "dead"
        <3>1. Save([cycle[a].own EXCEPT !.state = "observed"])
            BY <1>8, <2>2 DEF Settle
        <3> QED
            BY <1>4, <1>5, <3>1, SavedStaysPending
    <2> QED
        BY <2>1, <2>2
<1>9. CASE ReconDead(a) \/ ReconRetire(a) \/ VerifyMatch(a)
    BY <1>5, <1>9 DEF ReconDead, ReconRetire, VerifyMatch, At, OrderPhase
<1> QED
    BY <1>2, <1>3, <1>6, <1>7, <1>8, <1>9 DEF Fresh, At

\* An intent stops being pending only when its order is wholly filled or dead: for any
\* number of processes no working, partly filled, replaced or unknown order is ever
\* forgotten (worker.py 52-99, service.py 411-439).
THEOREM PendingUntilResolvedHolds == ASSUME ~CliMayHang PROVE Spec => PendingUntilResolved
<1> DEFINE Closed == \A r \in Pending :
               (\A q \in Pending' : q.cid # r.cid) => order[r.cid] \in {"filled", "dead"}
<1>1. TypeOK /\ IndInv /\ [Next]_vars => [Closed]_vars
    BY ResolvedBeforeClosed
<1> QED
    BY <1>1, Inductive, TypeCorrect, PTL DEF Spec, PendingUntilResolved
=============================================================================
