--------------------- MODULE ExecutionRefinementProofs ---------------------
(***************************************************************************)
(* Execution implements two abstract specifications, for any number of     *)
(* processes.  The cycles use the lease as DeskLease promises it, also     *)
(* when CLI calls outlive it, and leave none behind but in a crash; with   *)
(* LeaseProofs, which shows that the SQLite row keeps that promise, the    *)
(* theorems about Execution rest on the store's code and not on the        *)
(* abstraction.  And if no CLI call outlives the lease, the orders of the  *)
(* desk are those of OrderDesk.                                            *)
(***************************************************************************)
EXTENDS ExecutionProofs, ExecutionRecovery

busy == {a \in Actors : ~At(a, "idle")}
deskVars == <<lease.holder, lease.live, busy>>

\* What a step of one process does to the set of processes in a cycle.
LEMMA BusyAfter ==
    ASSUME CycleTyped, NEW a \in Actors, NEW c, Update(a, c)
    PROVE  /\ c.pc = "idle" => busy' = busy \ {a}
           /\ c.pc # "idle" => busy' = busy \cup {a}
BY DEF CycleTyped, Update, busy, At

\* A step inside a cycle that leaves the lease alone stutters.
LEMMA InnerStep ==
    ASSUME CycleTyped, NEW a \in Actors, NEW c, Update(a, c), ~At(a, "idle"),
           c.pc # "idle", UNCHANGED lease
    PROVE  UNCHANGED deskVars
<1>1. busy' = busy
  BY BusyAfter DEF busy
<1> QED
  BY <1>1 DEF deskVars

\* The end of a cycle, with or without the lease.
LEMMA EndLeaves ==
    ASSUME StoreTyped, CycleTyped, NEW a \in Actors, End(a), ~At(a, "idle")
    PROVE  Desk!Leave(a)
<1>1. busy' = busy \ {a} /\ a \in busy
  BY BusyAfter DEF End, Idle, busy
<1>2. lease' = IF lease.holder = a THEN NoLease ELSE lease
  BY DEF End, Release
<1> QED
  BY <1>1, <1>2 DEF Desk!Leave, NoLease, busy, StoreTyped

LEMMA GotoInner ==
    ASSUME CycleTyped, NEW a \in Actors, NEW label, Goto(a, label), ~At(a, "idle"),
           label # "idle", UNCHANGED lease
    PROVE  UNCHANGED deskVars
<1> DEFINE c == [cycle[a] EXCEPT !.pc = label]
<1>1. c.pc = label
  BY CycleOf DEF CycleState
<1> QED
  BY <1>1, InnerStep DEF Goto

LEMMA GiveUpInner ==
    ASSUME CycleTyped, NEW a \in Actors, GiveUp(a), ~At(a, "idle"), UNCHANGED lease
    PROVE  UNCHANGED deskVars
<1> DEFINE c == [cycle[a] EXCEPT !.pc = "record", !.obs = "none"]
<1>1. c.pc = "record"
  BY CycleOf DEF CycleState
<1> QED
  BY <1>1, InnerStep DEF GiveUp

-----------------------------------------------------------------------------
(* The steps of a cycle.                                                     *)

\* Keeping a row pending stays in the cycle.
LEMMA UnresolvedInner ==
    ASSUME CycleTyped, NEW a \in Actors, Unresolved(a), ~At(a, "idle"), UNCHANGED lease
    PROVE  UNCHANGED deskVars
<1> DEFINE seen == [cycle[a].own EXCEPT !.state = "observed"]
           c == [cycle[a] EXCEPT !.pc = "recon", !.own = seen, !.note = @ \cup {"unresolved"}]
<1>1. c.pc = "recon"
  BY CycleOf DEF CycleState
<1>2. Update(a, c)
  BY DEF Unresolved
<1> HIDE DEF c
<1> QED
  BY <1>1, <1>2, InnerStep

LEMMA ReconDesk ==
    ASSUME TypeOK, NEW a \in Actors, ReconStep(a)
    PROVE  UNCHANGED deskVars \/ Desk!Leave(a)
<1> USE DEF TypeOK, store
<1>1. CASE ListPending(a)
  BY <1>1, CycleOf, InnerStep DEF ListPending, At, CycleState
<1>2. CASE ReconUnknown(a)
  BY <1>2, CycleOf, InnerStep DEF ReconUnknown, At, CycleState
<1>3. CASE ReconQuery(a)
  BY <1>3, CycleOf, InnerStep DEF ReconQuery, At, CycleState
<1>4. CASE ReconKeep(a)
  BY <1>4, UnresolvedInner DEF ReconKeep, At
<1>5. CASE ReconDead(a)
  BY <1>5, CycleOf, InnerStep DEF ReconDead, At, CycleState
<1>6. CASE ReconAdvance(a)
  BY <1>6, GotoInner DEF ReconAdvance, At
<1>7. CASE ReconPositionsMatch(a)
  BY <1>7, GotoInner DEF ReconPositionsMatch, At
<1>8. CASE ReconPositionsDiffer(a)
  BY <1>8, UnresolvedInner DEF ReconPositionsDiffer, At
<1>9. CASE ReconRecord(a)
  BY <1>9, GotoInner DEF ReconRecord, At
<1>10. CASE ReconRetire(a)
  <2> DEFINE row == [cycle[a].own EXCEPT !.state = "terminal"]
             c == [cycle[a] EXCEPT !.pc = "recon", !.own = row, !.note = @ \cup {"recovered"}]
  <2>1. Update(a, c)
    BY <1>10 DEF ReconRetire
  <2> HIDE DEF row
  <2>2. c.pc = "recon"
    BY CycleOf DEF CycleState
  <2> HIDE DEF c
  <2> QED
    BY <1>10, <2>1, <2>2, InnerStep DEF ReconRetire, At
<1>11. CASE ReconDone(a)
  BY <1>11, GotoInner, EndLeaves DEF ReconDone, At
<1> QED
  BY <1>1, <1>2, <1>3, <1>4, <1>5, <1>6, <1>7, <1>8, <1>9, <1>10, <1>11 DEF ReconStep

\* The renewal of the fresh snapshot keeps a lease that is still the process's own.
LEMMA FreshDesk ==
    ASSUME TypeOK, NEW a \in Actors, Fresh(a)
    PROVE  UNCHANGED deskVars \/ Desk!Keep(a)
<1> USE DEF TypeOK, store
<1>1. ~At(a, "idle")
  BY DEF Fresh, At
<1>2. PICK row :
        IF lease.holder = a
        THEN /\ lease' = [lease EXCEPT !.live = TRUE]
             /\ Update(a, [cycle[a] EXCEPT !.pc = "lookup", !.own = row])
        ELSE /\ UNCHANGED lease
             /\ Update(a, [cycle[a] EXCEPT !.pc = "record", !.own = row, !.obs = "none"])
  BY DEF Fresh
<1>3. CASE lease.holder = a
  <2> DEFINE c == [cycle[a] EXCEPT !.pc = "lookup", !.own = row]
  <2>1. c.pc = "lookup" /\ Update(a, c)
    BY <1>2, <1>3, CycleOf DEF CycleState
  <2> HIDE DEF c
  <2>2. busy' = busy /\ a \in busy
    BY <1>1, <2>1, BusyAfter DEF busy
  <2>3. lease'.holder = lease.holder /\ lease'.live = TRUE
    BY <1>2, <1>3 DEF StoreTyped
  <2> QED
    BY <1>3, <2>2, <2>3 DEF Desk!Keep, busy
<1>4. CASE lease.holder # a
  <2> DEFINE c == [cycle[a] EXCEPT !.pc = "record", !.own = row, !.obs = "none"]
  <2>1. c.pc = "record" /\ Update(a, c)
    BY <1>2, <1>4, CycleOf DEF CycleState
  <2> HIDE DEF c
  <2> QED
    BY <1>1, <1>2, <1>4, <2>1, InnerStep
<1> QED
  BY <1>3, <1>4

LEMMA RunDesk ==
    ASSUME TypeOK, NEW a \in Actors, RunStep(a)
    PROVE  UNCHANGED deskVars \/ Desk!Leave(a) \/ Desk!Keep(a)
<1> USE DEF TypeOK, store
<1>1. CASE BeginRun(a)
  BY <1>1, GotoInner, EndLeaves DEF BeginRun, At
<1>2. CASE SnapshotNoOrder(a)
  BY <1>2, GiveUpInner DEF SnapshotNoOrder, At
<1>3. CASE Snapshot(a)
  BY <1>3, CycleOf, InnerStep DEF Snapshot, At, CycleState
<1>4. CASE Execute(a)
  <2> DEFINE k == cycle[a].trade.key
             row == [key |-> k, cid |-> [key |-> k, att |-> attempts[k]], state |-> "submitting"]
             c == [cycle[a] EXCEPT !.pc = "fresh", !.own = row]
  <2>1. Update(a, c)
    BY <1>4 DEF Execute
  <2> HIDE DEF row
  <2>2. c.pc = "fresh"
    BY CycleOf DEF CycleState
  <2> HIDE DEF c
  <2> QED
    BY <1>4, <2>1, <2>2, InnerStep DEF Execute, At
<1>5. CASE ExecuteBlocked(a)
  BY <1>5, GiveUpInner DEF ExecuteBlocked, At
<1>6. CASE Fresh(a)
  BY <1>6, FreshDesk
<1>7. CASE FreshBlocked(a)
  BY <1>7, GiveUpInner DEF FreshBlocked, At
<1>8. CASE Lookup(a)
  BY <1>8, CycleOf, InnerStep DEF Lookup, At, CycleState
<1>9. CASE Submit(a)
  BY <1>9, GotoInner, GiveUpInner DEF Submit, At
<1>10. CASE BoundaryChanged(a)
  BY <1>10, GiveUpInner DEF BoundaryChanged, At
<1>11. CASE Response(a)
  BY <1>11, CycleOf, InnerStep DEF Response, At, CycleState
<1>12. CASE NoResponse(a)
  BY <1>12, GiveUpInner DEF NoResponse, At
<1>13. CASE PollTerminal(a)
  BY <1>13, CycleOf, InnerStep DEF PollTerminal, At, CycleState
<1>14. CASE PollTimeout(a)
  BY <1>14, GotoInner DEF PollTimeout, At
<1>15. CASE Recheck(a)
  BY <1>15, CycleOf, InnerStep DEF Recheck, At, CycleState
<1>16. CASE Settle(a)
  BY <1>16, CycleOf, InnerStep DEF Settle, At, CycleState
<1>17. CASE AdvanceAttempt(a)
  BY <1>17, GotoInner DEF AdvanceAttempt, At
<1>18. CASE VerifyMatch(a)
  <2> DEFINE row == [cycle[a].own EXCEPT !.state = "terminal"]
             c == [cycle[a] EXCEPT !.pc = "record", !.own = row]
  <2>1. Update(a, c)
    BY <1>18 DEF VerifyMatch
  <2> HIDE DEF row
  <2>2. c.pc = "record"
    BY CycleOf DEF CycleState
  <2> HIDE DEF c
  <2> QED
    BY <1>18, <2>1, <2>2, InnerStep DEF VerifyMatch, At
<1>19. CASE VerifyDiffer(a)
  BY <1>19, GotoInner DEF VerifyDiffer, At
<1>20. CASE Record(a)
  BY <1>20, EndLeaves DEF Record, At
<1> QED
  BY <1>1, <1>2, <1>3, <1>4, <1>5, <1>6, <1>7, <1>8, <1>9, <1>10, <1>11, <1>12, <1>13, <1>14, <1>15, <1>16, <1>17, <1>18, <1>19, <1>20 DEF RunStep

-----------------------------------------------------------------------------
(* Everything else: the lease itself, faults, the broker and the market.     *)

LEMMA AcquireTakes ==
    ASSUME TypeOK, NEW a \in Actors, Acquire(a)
    PROVE  Desk!Take(a)
<1> DEFINE label == IF a \in Workers THEN "list" ELSE "begin"
           c == [cycle[a] EXCEPT !.pc = label]
<1>1. label # "idle"
  OBVIOUS
<1>2. Update(a, c) /\ At(a, "idle") /\ ~lease.live
      /\ lease' = [holder |-> a, live |-> TRUE]
  BY DEF Acquire, Goto
<1> HIDE DEF label
<1>3. c.pc # "idle"
  BY <1>1, CycleOf DEF CycleState, TypeOK
<1> HIDE DEF c
<1>4. a \notin busy /\ busy' = busy \cup {a}
  BY <1>2, <1>3, BusyAfter DEF busy, TypeOK
<1> QED
  BY <1>2, <1>4 DEF Desk!Take, busy

LEMMA ExpireLapses == ASSUME TypeOK, Expire PROVE Desk!Lapse
<1>1. /\ lease.live /\ lease'.live = FALSE /\ lease'.holder = lease.holder
      /\ busy' = busy
  BY DEF Expire, TypeOK, StoreTyped, busy, At
<1> QED
  BY <1>1 DEF Desk!Lapse, busy

LEMMA ExceptionDesk ==
    ASSUME TypeOK, NEW a \in Actors, Exception(a)
    PROVE  UNCHANGED deskVars \/ Desk!Leave(a)
<1> USE DEF TypeOK, store
<1>1. CASE Fail(a)
  BY <1>1, GiveUpInner DEF Fail, At
<1>2. CASE Abort(a)
  BY <1>2, EndLeaves DEF Abort
<1>3. CASE PositionsLagRecon(a)
  BY <1>3, UnresolvedInner DEF PositionsLagRecon, At
<1>4. CASE PositionsLagVerify(a)
  BY <1>4, GotoInner DEF PositionsLagVerify, At
<1> QED
  BY <1>1, <1>2, <1>3, <1>4 DEF Exception

LEMMA CrashDesk ==
    ASSUME TypeOK, NEW a \in Actors, Crash(a)
    PROVE  Desk!Vanish(a)
<1>1. a \in busy /\ busy' = busy \ {a}
  BY BusyAfter DEF TypeOK, Crash, Idle, busy
<1> QED
  BY <1>1 DEF Crash, store, Desk!Vanish, busy

LEMMA OutsideDesk ==
    ASSUME BookMoves \/ UNCHANGED vars \/ (\E c \in Cid : BrokerStep(c))
    PROVE  UNCHANGED deskVars
BY DEF BookMoves, BrokerStep, Accept, Drop, Fill, PartialFill, Die, Replace, vars, store,
       deskVars, busy, At

LEMMA DeskInit == Init => Desk!Init
<1> SUFFICES ASSUME Init PROVE Desk!Init
  OBVIOUS
<1>1. \A a \in Actors : At(a, "idle")
  BY DEF Init, Idle, At
<1> QED
  BY <1>1 DEF Init, NoLease, Desk!Init

\* A step of a process is one of DeskLease or stutters; the lease lapses by itself only.
LEMMA DeskStep ==
    ASSUME TypeOK, [Next]_vars
    PROVE  [Desk!ProcessStep]_deskVars \/ (Expire /\ Desk!Lapse)
<1> USE DEF Desk!ProcessStep
<1>1. ASSUME NEW a \in Actors, Acquire(a) PROVE Desk!ProcessStep
  BY <1>1, AcquireTakes
<1>2. ASSUME NEW a \in Actors, CycleStep(a) PROVE [Desk!ProcessStep]_deskVars
  BY <1>2, ReconDesk, RunDesk DEF CycleStep
<1>3. ASSUME NEW a \in Actors, Fault(a) PROVE [Desk!ProcessStep]_deskVars
  BY <1>3, ExceptionDesk, CrashDesk DEF Fault
<1>4. CASE BookMoves \/ UNCHANGED vars \/ (\E c \in Cid : BrokerStep(c))
  BY <1>4, OutsideDesk
<1> QED
  BY <1>1, <1>2, <1>3, <1>4, ExpireLapses DEF Next, Work, Disturbance, Actors

\* The cycles use the lease as DeskLease promises it, hanging calls included: nobody
\* takes a live lease and a late process never gives away its successor's.
THEOREM LeaseAsPromisedHolds == Spec => LeaseAsPromised
<1>1. Init => Desk!Init
  BY DeskInit
<1>2. TypeOK /\ [Next]_vars => [Desk!Next]_deskVars
  BY DeskStep DEF Desk!Next
<1>3. Spec => [][Desk!Next]_deskVars
  BY <1>2, TypeCorrect, PTL DEF Spec
<1>4. Spec => Desk!Init
  BY <1>1 DEF Spec
<1> QED
  BY <1>3, <1>4, PTL DEF LeaseAsPromised, Desk!Spec, deskVars, busy

\* Where the theorems about single flight, write-ahead and stale orders assume that no
\* CLI call outlives the lease, the desk asks no more of the lease than what the store
\* gives to punctual processes (Lease, PunctualKeepsPromise; worker.py 37-44,
\* service.py 130-163).
THEOREM LeasePunctualHolds == ASSUME ~CliMayHang PROVE Spec => LeasePunctual
<1>1. Init => Desk!Init
  BY DeskInit
<1>2. TypeOK /\ [Next]_vars => [Desk!PunctualNext]_deskVars
  <2>1. Expire => lease.holder \notin busy
    BY DEF Expire, busy
  <2> QED
    BY <2>1, DeskStep DEF Desk!PunctualNext, busy
<1>3. Spec => [][Desk!PunctualNext]_deskVars
  BY <1>2, TypeCorrect, PTL DEF Spec
<1>4. Spec => Desk!Init
  BY <1>1 DEF Spec
<1> QED
  BY <1>3, <1>4, PTL DEF LeasePunctual, Desk!PunctualSpec, deskVars, busy

-----------------------------------------------------------------------------
(* Leases that are left behind.                                              *)

\* Whoever takes or keeps the lease is in a cycle, and whoever leaves gives it back: no
\* step but a crash makes the lease one that was left behind.
LEMMA NothingLeft ==
    ASSUME NEW p \in Actors, LeaseGivenBack, Crashes({}),
           UNCHANGED deskVars \/ Desk!Take(p) \/ Desk!Keep(p) \/ Desk!Leave(p) \/ Desk!Lapse
    PROVE  LeaseGivenBack'
<1> SUFFICES ASSUME NEW a \in Actors, a \notin busy', lease'.holder = a, lease'.live
             PROVE  a \in crashed'
  BY DEF LeaseGivenBack, LeftBehind, Owns, busy
<1>1. a \notin busy /\ lease.holder = a /\ lease.live
  <2>1. CASE UNCHANGED deskVars
    BY <2>1 DEF deskVars
  <2>2. CASE Desk!Take(p) \/ Desk!Keep(p)
    BY <2>2 DEF Desk!Take, Desk!Keep, busy
  <2>3. CASE Desk!Leave(p)
    BY <2>3, ActorsAssumption DEF Desk!Leave, busy
  <2>4. CASE Desk!Lapse
    BY <2>4 DEF Desk!Lapse
  <2> QED
    BY <2>1, <2>2, <2>3, <2>4
<1>2. a \in crashed
  BY <1>1 DEF LeaseGivenBack, LeftBehind, Owns, busy
<1> QED
  BY <1>2 DEF Crashes, LeftBehind, Owns, busy

LEMMA CrashLeaves ==
    ASSUME TypeOK, LeaseGivenBack, NEW p \in Actors, Crash(p), Crashes({p})
    PROVE  LeaseGivenBack'
<1> SUFFICES ASSUME NEW a \in Actors, LeftBehind(a)' PROVE a \in crashed \cup {p}
  BY DEF LeaseGivenBack, Crashes
<1>1. a # p => LeftBehind(a)
  BY CrashDesk DEF Desk!Vanish, LeftBehind, Owns, busy
<1> QED
  BY <1>1 DEF LeaseGivenBack

\* However a cycle ends, exceptions at any of its steps and hanging calls included, its
\* process does not have the lease afterwards, unless it crashed.
THEOREM LeaseGivenBackHolds == CalmSpec => []LeaseGivenBack
<1>1. CalmInit => Init /\ LeaseGivenBack
  BY DEF CalmInit, Init, NoLease, LeaseGivenBack, LeftBehind, Owns
<1>2. [CalmNext]_calmVars => [Next]_vars
  BY DEF CalmNext, calmVars, Next, Disturbance, Fault, Calm
<1>3. TypeOK /\ LeaseGivenBack /\ [CalmNext]_calmVars => LeaseGivenBack'
  <2> SUFFICES ASSUME TypeOK, LeaseGivenBack, [CalmNext]_calmVars PROVE LeaseGivenBack'
    OBVIOUS
  <2>1. ASSUME NEW a \in Actors, Acquire(a) \/ CycleStep(a) \/ Exception(a), Crashes({})
        PROVE  LeaseGivenBack'
    BY <2>1, AcquireTakes, ReconDesk, RunDesk, ExceptionDesk, NothingLeft DEF CycleStep
  <2>2. ASSUME NEW a \in Actors, Crash(a), Crashes({a}) PROVE LeaseGivenBack'
    BY <2>2, CrashLeaves
  <2>3. CASE Expire /\ Crashes({})
    <3>1. Desk!Lapse
      BY <2>3, ExpireLapses
    <3>2. lease.holder \in Actors
      BY <2>3 DEF Expire, TypeOK, StoreTyped
    <3> QED
      BY <2>3, <3>1, <3>2, NothingLeft
  <2>4. CASE (BookMoves \/ \E c \in Cid : BrokerStep(c)) /\ Crashes({})
    <3>1. UNCHANGED deskVars
      BY <2>4, OutsideDesk
    <3>2. \A a \in Actors : LeaseGivenBack'
      BY <2>4, <3>1, NothingLeft
    <3> QED
      BY <3>2 DEF LeaseGivenBack
  <2>5. CASE UNCHANGED <<vars, crashed>>
    BY <2>5 DEF vars, LeaseGivenBack, LeftBehind, Owns, At
  <2> QED
    BY <2>1, <2>2, <2>3, <2>4, <2>5 DEF CalmNext, calmVars, Calm, Work, Actors
<1>4. CalmSpec => Init /\ LeaseGivenBack /\ [][Next]_vars /\ [][CalmNext]_calmVars
  BY <1>1, <1>2, PTL DEF CalmSpec
<1>5. CalmSpec => []TypeOK
  BY <1>4, TypeCorrect, PTL DEF Spec
<1> QED
  BY <1>3, <1>4, <1>5, PTL

-----------------------------------------------------------------------------
(* The orders.  An order whose fate nobody can tell keeps its pending row.   *)

Unclear == {"partdead", "replaced"}
UnclearKept == \A c \in Cid : order[c] \in Unclear => \E r \in Pending : r.cid = c

LEMMA UnclearStep == TypeOK /\ IndInv /\ UnclearKept /\ [Next]_vars => UnclearKept'
<1> SUFFICES ASSUME TypeOK, IndInv, UnclearKept, [Next]_vars,
                    NEW c \in Cid, order'[c] \in Unclear
             PROVE  \E q \in Pending' : q.cid = c
  BY DEF UnclearKept
<1>1. CASE UNCHANGED vars
  BY <1>1 DEF vars, Pending, UnclearKept
<1>2. CASE Next /\ order[c] \in Unclear
  <2>1. PICK r \in Pending : r.cid = c
    BY <1>2 DEF UnclearKept
  <2> QED
    BY <1>2, <2>1, ResolvedBeforeClosed DEF Unclear
<1>3. CASE Next /\ order[c] \notin Unclear
  <2>1. PICK d \in Cid : BrokerStep(d)
    BY <1>3, OrdersKept
  <2>2. Outstanding(c) /\ Pending' = Pending
    BY <1>3, <2>1 DEF BrokerStep, Accept, Drop, Fill, PartialFill, Die, Replace, Outstanding,
       Live, Unclear, TypeOK, BrokerTyped, Pending, store
  <2> QED
    BY <2>2 DEF IndInv, WriteAhead
<1> QED
  BY <1>1, <1>2, <1>3

\* The name is the client id of the one pending row.
LEMMA NamedIs == ASSUME OnePending, NEW r \in Pending PROVE Named = r.cid
BY DEF OnePending, Named

\* Only the second snapshot of a run writes a row for a name that is not pending.
LEMMA NoNewName ==
    ASSUME TypeOK, IndInv, [Next]_vars, NEW q \in Pending'
    PROVE  (\E r \in Pending : r.cid = q.cid) \/ (\E a \in Actors : Fresh(a))
<1>1. CASE intents' = intents
  BY <1>1 DEF Pending
<1>2. CASE intents' # intents
  <2>1. PICK a \in Actors :
          \/ ReconKeep(a) \/ ReconDead(a) \/ ReconPositionsDiffer(a) \/ ReconRetire(a)
          \/ PositionsLagRecon(a) \/ Fresh(a) \/ Submit(a) \/ Settle(a) \/ VerifyMatch(a)
    BY <1>2, IntentsWritten
  <2>2. CASE Fresh(a)
    BY <2>2
  <2>3. CASE ~Fresh(a)
    <3> DEFINE own == cycle[a].own
    <3>1. own \in Pending
      BY <2>1, <2>3 DEF ReconKeep, ReconDead, ReconPositionsDiffer, ReconRetire,
         PositionsLagRecon, Submit, Settle, VerifyMatch, At, IndInv, PhasePending,
         PendingPhase, OwnPending
    <3>2. own \in Row
      BY <3>1 DEF Pending, TypeOK, StoreTyped
    <3>3. ASSUME NEW s PROVE [own EXCEPT !.state = s].cid = own.cid
      BY <3>2 DEF Row
    <3>4. (\E s : Save([own EXCEPT !.state = s])) \/ Save(own)
      BY <2>1, <2>3 DEF ReconKeep, ReconDead, ReconPositionsDiffer, ReconRetire,
         PositionsLagRecon, Unresolved, Submit, Settle, VerifyMatch
    <3> HIDE DEF own
    <3>5. PICK row : Save(row) /\ row.cid = own.cid
      <4>1. CASE Save(own)
        BY <4>1
      <4>2. ASSUME NEW s, Save([own EXCEPT !.state = s])
            PROVE  \E row : Save(row) /\ row.cid = own.cid
        <5> DEFINE saved == [own EXCEPT !.state = s]
        <5>1. Save(saved) /\ saved.cid = own.cid
          BY <3>3, <4>2
        <5> HIDE DEF saved
        <5> QED
          BY <5>1
      <4> QED
        BY <3>4, <4>1, <4>2
    <3>6. q \in Pending \/ q = row
      BY <3>5, SaveAdds
    <3> QED
      BY <3>1, <3>5, <3>6
  <2> QED
    BY <2>2, <2>3
<1> QED
  BY <1>1, <1>2

\* And only it arms an order.
LEMMA MaySendAfter ==
    ASSUME TypeOK, NEW a \in Actors, Acquire(a) \/ CycleStep(a) \/ Fault(a), MaySend'
    PROVE  MaySend \/ Fresh(a)
<1>0. CycleTyped
  BY DEF TypeOK
<1>1. PICK b \in Actors : cycle'[b].pc \in {"lookup", "boundary"}
  BY DEF MaySend, At
<1>2. CASE b # a /\ OthersKeep(a)
  BY <1>1, <1>2 DEF MaySend, At, OthersKeep
<1>3. OthersKeep(a) /\ (b = a => Fresh(a) \/ Lookup(a))
  <2>1. CASE GiveUp(a)
    BY <1>0, <1>1, <2>1, UpdateFields
  <2>2. CASE Acquire(a) \/ ReconStep(a) \/ PositionsLagRecon(a) \/ Abort(a) \/ Crash(a)
             \/ BeginRun(a) \/ Record(a)
    <3>1. CASE ReconQuery(a)
      BY <1>0, <1>1, <3>1, ReconFields
    <3>2. CASE ~ReconQuery(a)
      BY <1>0, <1>1, <2>2, <3>2, ReconFields DEF ReconStep
    <3> QED
      BY <3>1, <3>2
  <2>3. CASE RunStep(a) \/ PositionsLagVerify(a)
    BY <1>0, <1>1, <2>1, <2>2, <2>3, RunFields DEF RunStep
  <2> QED
    BY <1>0, <2>1, <2>2, <2>3, RunFields DEF CycleStep, Fault, Exception
<1>4. Lookup(a) => At(a, "lookup")
  BY DEF Lookup
<1> QED
  BY <1>2, <1>3, <1>4 DEF MaySend

\* The broker's whole fill is the abstract desk's, by the same comparison.
LEMMA FitsSuits ==
    ASSUME TypeOK, NEW c \in Cid
    PROVE  Fits(c.key) <=> Orders!Suits(c)
<1>1. book \in Position /\ NoLegs \notin Legs /\ OddLegs \notin Legs /\ NoLegs # OddLegs
  BY LegsAssumption DEF TypeOK, BrokerTyped, NoLegs, OddLegs
<1>2. /\ book.legs = NoLegs <=> book = Flat
      /\ book.legs \in Legs <=> book \notin {Flat, Odd}
  BY <1>1 DEF Position, Flat, Odd
<1> QED
  BY <1>2 DEF Fits, Orders!Suits

-----------------------------------------------------------------------------
(* The steps of the processes.                                               *)

orderVars == <<Named, Stage, Fate, book, campaigns>>

\* Before a name is written the stage is quiet; after it, the stage is what the broker
\* says, and otherwise armed.
LEMMA StageOf ==
    ASSUME OnePending
    PROVE  /\ Pending = {} => Named = None /\ Stage = "quiet"
           /\ \A r \in Pending :
                /\ order[r.cid] # "none" => Stage = order[r.cid]
                /\ order[r.cid] = "none" /\ r.cid \in inflight => Stage = "sent"
                /\ order[r.cid] = "none" /\ r.cid \notin inflight =>
                     Stage = IF MaySend THEN "armed" ELSE "lost"
BY NamedIs DEF Named, Stage

LEMMA StageAfter ==
    ASSUME OnePending'
    PROVE  /\ Pending' = {} => Named' = None /\ Stage' = "quiet"
           /\ \A r \in Pending' :
                /\ Named' = r.cid
                /\ order'[r.cid] # "none" => Stage' = order'[r.cid]
                /\ order'[r.cid] = "none" /\ r.cid \in inflight' => Stage' = "sent"
                /\ order'[r.cid] = "none" /\ r.cid \notin inflight' =>
                     Stage' = IF MaySend' THEN "armed" ELSE "lost"
BY DEF OnePending, Named, Stage

\* A step of a process that neither names nor sends an order may lose one, or close one
\* whose fate is known.
LEMMA InnerOrders ==
    ASSUME TypeOK, IndInv, IndInv', [Next]_vars, NEW a \in Actors,
           Acquire(a) \/ CycleStep(a) \/ Fault(a), ~Submit(a), \A b \in Actors : ~Fresh(b)
    PROVE  UNCHANGED orderVars \/ Orders!Lose \/ Orders!Close
<1>1. UNCHANGED broker /\ UNCHANGED <<book, campaigns, Fate>>
  BY ProcessBroker DEF broker, Fate
<1>2. OnePending /\ OnePending'
  BY DEF IndInv
<1>3. CASE Pending' = {}
  <2>1. CASE Pending = {}
    BY <1>1, <1>2, <1>3, <2>1, StageOf, StageAfter DEF orderVars
  <2>2. CASE Pending # {}
    <3>1. PICK r \in Pending : TRUE
      BY <2>2
    <3>2. order[r.cid] \in {"filled", "dead"}
      <4>1. Next
        BY <1>3, <2>2 DEF vars, Pending
      <4> QED
        BY <1>3, <4>1, ResolvedBeforeClosed
    <3> QED
      BY <1>1, <1>2, <1>3, <3>1, <3>2, StageOf, StageAfter DEF Orders!Close
  <2> QED
    BY <2>1, <2>2
<1>4. CASE Pending' # {}
  <2>1. PICK q \in Pending' : TRUE
    BY <1>4
  <2>2. PICK r \in Pending : r.cid = q.cid
    BY NoNewName
  <2>3. Named' = Named /\ Named = r.cid
    BY <1>2, <2>1, <2>2, NamedIs, StageAfter
  <2>4. MaySend' => MaySend
    BY MaySendAfter
  <2>5. order' = order /\ inflight' = inflight
    BY <1>1 DEF broker
  <2>6. Stage' = Stage \/ (Stage = "armed" /\ Stage' = "lost")
    BY <1>2, <2>1, <2>2, <2>4, <2>5, StageOf, StageAfter
  <2> QED
    BY <1>1, <2>3, <2>6 DEF orderVars, Orders!Lose, Orders!Becomes
<1> QED
  BY <1>3, <1>4

\* The second snapshot names the order, in a row that is written before it is sent.
LEMMA FreshNames ==
    ASSUME TypeOK, TypeOK', IndInv, IndInv', UnclearKept, NEW a \in Actors, Fresh(a)
    PROVE  \E c \in Cid : Orders!Name(c)
<1>1. /\ cycle[a].pc = "fresh" /\ cycle[a].own \in Row /\ cycle[a].trade \in Trade
      /\ Pending = {} /\ cycle[a].own.state = "submitting"
  BY CycleOf DEF Fresh, At, Equipped, HasRow, HasTrade, TypeOK, IndInv, PhasePending,
     PendingPhase, NothingPending
<1>2. PICK id \in CampaignIds :
        LET t == SameTrade(cycle[a].trade, id)
            row == [cycle[a].own EXCEPT !.cid = [key |-> t.key, att |-> @.att]]
        IN  /\ Offered(t)
            /\ Save(row)
            /\ lease.holder = a => Update(a, [cycle[a] EXCEPT !.pc = "lookup", !.own = row])
  BY DEF Fresh
<1> DEFINE t == SameTrade(cycle[a].trade, id)
           cid == [key |-> t.key, att |-> cycle[a].own.cid.att]
           row == [cycle[a].own EXCEPT !.cid = cid]
           c == [cycle[a] EXCEPT !.pc = "lookup", !.own = row]
<1>3. Offered(t) /\ Save(row) /\ Update(a, c)
  BY <1>1, <1>2 DEF IndInv, ActiveHolds, Owns, At
<1>4. /\ t.legs = cycle[a].trade.legs /\ t.key.act = cycle[a].trade.key.act
      /\ t.legs = book.legs /\ t.key.id \in CampaignIds
      /\ t.key.act = "OPEN" <=> t.legs = NoLegs
  BY <1>1, <1>3, SameTradeFields DEF Offered
<1>5. row.cid = cid /\ row.state # "terminal"
  BY <1>1 DEF Row
<1>6. Pending' = {row}
  <2> HIDE DEF row
  <2> QED
    BY <1>1, <1>3, <1>5, SaveFirst
<1>7. MaySend'
  <2>1. cycle[a] \in CycleState
    BY CycleOf DEF TypeOK
  <2> HIDE DEF row
  <2>2. c.pc = "lookup"
    BY <2>1 DEF CycleState
  <2> HIDE DEF c
  <2> QED
    BY <1>3, <2>2, UpdateFields DEF TypeOK, MaySend, At
<1>8. UNCHANGED broker /\ Fate' = Fate
  BY DEF Fresh, broker, Fate
<1>9. cid \in Cid
  <2>1. row \in Row
    BY <1>6 DEF TypeOK, StoreTyped, Pending
  <2> HIDE DEF row
  <2> QED
    BY <1>5, <2>1 DEF Row
<1>10. Orders!Suits(cid)
  <2>1. /\ cid.key.act = "OPEN" => book.legs = NoLegs
        /\ cid.key.act # "OPEN" => book.legs \in Legs /\ cid.key.id \in {book.camp, -book.camp}
    BY <1>1, <1>4 DEF Trade, CampaignIds
  <2>2. Fits(cid.key)
    BY <2>1 DEF Fits
  <2> QED
    BY <1>9, <2>2, FitsSuits
<1> HIDE DEF cid, row
<1>11. ~Outstanding(cid) /\ order[cid] \notin Unclear
  BY <1>1, <1>9 DEF IndInv, WriteAhead, UnclearKept
<1>12. order[cid] \in {"none", "filled", "dead"} /\ cid \notin inflight
  BY <1>9, <1>11 DEF TypeOK, BrokerTyped, Status, Live, TerminalStatus, Retryable, Unclear,
     Outstanding
<1>13. /\ Stage = "quiet" /\ Named' = cid
       /\ Stage' = IF order[cid] = "none" THEN "armed" ELSE order[cid]
  BY <1>1, <1>5, <1>6, <1>7, <1>8, <1>12, StageOf, StageAfter DEF IndInv, broker
<1>14. Stage' = IF Fate[cid] = "none" THEN "armed" ELSE Fate[cid]
  BY <1>9, <1>12, <1>13 DEF Fate
<1> QED
  BY <1>8, <1>9, <1>10, <1>13, <1>14 DEF Orders!Name, broker

\* The submission sends the named order, which still fits the account.
LEMMA SubmitSends ==
    ASSUME TypeOK, IndInv, IndInv', TradeInv, NEW a \in Actors, Submit(a)
    PROVE  Orders!Send
<1> DEFINE own == cycle[a].own
           c == own.cid
<1>1. /\ cycle[a].pc = "boundary" /\ own \in Row /\ cycle[a].trade \in Trade
      /\ own \in Pending /\ inflight = {} /\ order[c] = "none" /\ c \in Cid
      /\ TradePhase(cycle[a]) /\ OnePending /\ Owns(a)
  BY CycleOf DEF Submit, At, Equipped, HasRow, HasTrade, TypeOK, IndInv, PhasePending,
     PendingPhase, OwnPending, PhaseOrder, OrderPhase, TradeInv, Row, ActiveHolds
<1>2. /\ UNCHANGED <<order, book, campaigns, Fate>> /\ inflight' = inflight \cup {c} /\ Save(own)
      /\ StillOffered(cycle[a].trade)
  BY <1>1 DEF Submit, Fate
<1>3. Pending' = {own}
  BY <1>1, <1>2, SaveOwn DEF TypeOK, StoreTyped, Pending
<1>4. Stage = "armed" /\ Named = c
  BY <1>1, StageOf, NamedIs DEF MaySend, At
<1>5. Stage' = "sent" /\ Named' = c
  BY <1>1, <1>2, <1>3, StageAfter DEF IndInv
<1>6. Fits(c.key)
  <2>1. PICK id \in CampaignIds : Offered(SameTrade(cycle[a].trade, id))
    BY <1>2 DEF StillOffered
  <2>2. /\ cycle[a].trade.key.act = "OPEN" <=> book.legs = NoLegs
        /\ book.legs \in Legs \cup {NoLegs}
    BY <1>1, <2>1, SameTradeFields DEF Offered, Trade
  <2>3. Follows(c.key) /\ c.key.act = cycle[a].trade.key.act
    BY <1>1 DEF TradePhase
  <2> QED
    BY <2>2, <2>3 DEF Fits, Follows
<1> HIDE DEF c
<1>7. Orders!Suits(Named)
  BY <1>1, <1>4, <1>6, FitsSuits
<1> QED
  BY <1>2, <1>4, <1>5, <1>7 DEF Orders!Send, Orders!Becomes

-----------------------------------------------------------------------------
(* The steps of the broker and the market.                                   *)

\* An order that may still trade is the named one, and nobody is about to send another.
LEMMA OutstandingNamed ==
    ASSUME TypeOK, IndInv, TradeInv, NEW c \in Cid, Outstanding(c)
    PROVE  /\ Named = c /\ ~MaySend
           /\ order[c] = "none" <=> c \in inflight
           /\ Stage = IF c \in inflight THEN "sent" ELSE order[c]
<1>1. PICK r \in Pending : r.cid = c
  BY DEF IndInv, WriteAhead
<1>2. Named = c
  BY <1>1, NamedIs DEF IndInv
<1>3. ~MaySend
  BY NothingOutstanding DEF MaySend, At, HasTrade
<1>4. order[c] = "none" <=> c \in inflight
  BY DEF IndInv, InflightUnknown, Outstanding, Live
<1> QED
  BY <1>1, <1>2, <1>3, <1>4, StageOf DEF IndInv

\* How the fates change when one order's status does.
LEMMA FateAfter ==
    ASSUME order \in [Cid -> Status], NEW c \in Cid, order[c] \notin {"filled", "dead"},
           NEW s, order' = [order EXCEPT ![c] = s]
    PROVE  /\ s \notin {"filled", "dead"} => Fate' = Fate
           /\ s \in {"filled", "dead"} => Fate' = [Fate EXCEPT ![c] = s]
<1>1. ASSUME s \notin {"filled", "dead"}, NEW d \in Cid PROVE Fate'[d] = Fate[d]
  BY <1>1 DEF Fate
<1>2. ASSUME s \in {"filled", "dead"}, NEW d \in Cid
      PROVE  Fate'[d] = [Fate EXCEPT ![c] = s][d]
  BY <1>2 DEF Fate
<1>3. Fate \in [Cid -> Status] /\ DOMAIN Fate' = Cid
  BY DEF Fate, Status, Live, TerminalStatus, Retryable
<1> QED
  BY <1>1, <1>2, <1>3 DEF Fate

LEMMA BrokerOrders ==
    ASSUME TypeOK, IndInv, TradeInv, NEW c \in Cid, BrokerStep(c)
    PROVE  Orders!Next
<1>1. /\ UNCHANGED <<store, cycle>> /\ Outstanding(c)
  BY DEF BrokerStep, Accept, Drop, Fill, PartialFill, Die, Replace, Outstanding, Live
<1>2. /\ Named = c /\ ~MaySend
      /\ order[c] = "none" <=> c \in inflight
      /\ Stage = IF c \in inflight THEN "sent" ELSE order[c]
  BY <1>1, OutstandingNamed
<1>3. /\ Pending' = Pending /\ MaySend' = MaySend
      /\ \E r \in Pending : r.cid = c
  BY <1>1 DEF Pending, MaySend, At, store, IndInv, WriteAhead
<1>4. /\ Named' = c
      /\ order'[c] # "none" => Stage' = order'[c]
      /\ order'[c] = "none" /\ c \notin inflight' => Stage' = "lost"
  BY <1>2, <1>3, StageAfter DEF IndInv, OnePending
<1>5. order \in [Cid -> Status]
  BY DEF TypeOK, BrokerTyped
<1> USE DEF Orders!Becomes, Orders!Ends
<1>6. CASE Accept(c)
  <2>1. Fate' = Fate
    BY <1>5, <1>6, FateAfter DEF Accept
  <2> QED
    BY <1>2, <1>4, <1>5, <1>6, <2>1 DEF Accept, Orders!Next, Orders!Accept
<1>7. CASE Drop(c)
  <2>1. Fate' = Fate
    BY <1>7 DEF Drop, Fate
  <2> QED
    BY <1>2, <1>4, <1>7, <2>1 DEF Drop, Orders!Next, Orders!Lose
<1>8. CASE Fill(c)
  <2>1. /\ Stage = order[c] /\ order[c] \in {"working", "partial"} /\ Stage' = "filled"
        /\ Fate' = [Fate EXCEPT ![c] = "filled"]
    BY <1>2, <1>4, <1>5, <1>8, FateAfter DEF Fill, Live
  <2>2. order[c] = "partial" \/ Fits(c.key) <=> Stage = "partial" \/ Orders!Suits(Named)
    BY <1>2, <2>1, FitsSuits
  <2> QED
    BY <1>2, <1>4, <1>8, <2>1, <2>2 DEF Fill, Orders!Next, Orders!Fill
<1>9. CASE PartialFill(c)
  <2>1. Fate' = Fate
    BY <1>5, <1>9, FateAfter DEF PartialFill
  <2> QED
    BY <1>2, <1>4, <1>5, <1>9, <2>1 DEF PartialFill, Orders!Next, Orders!PartialFill
<1>10. CASE Die(c)
  <2>1. CASE order[c] = "working"
    <3>1. Stage = "working" /\ Stage' = "dead" /\ Fate' = [Fate EXCEPT ![c] = "dead"]
      BY <1>2, <1>4, <1>5, <1>10, <2>1, FateAfter DEF Die
    <3> QED
      BY <1>2, <1>4, <1>10, <3>1 DEF Die, Orders!Next, Orders!Die
  <2>2. CASE order[c] = "partial"
    <3>1. Stage = "partial" /\ Stage' = "partdead" /\ Fate' = Fate
      BY <1>2, <1>4, <1>5, <1>10, <2>2, FateAfter DEF Die
    <3> QED
      BY <1>2, <1>4, <1>10, <3>1 DEF Die, Orders!Next, Orders!Die
  <2> QED
    BY <1>10, <2>1, <2>2 DEF Die, Live
<1>11. CASE Replace(c)
  <2>1. Fate' = Fate
    BY <1>5, <1>11, FateAfter DEF Replace
  <2> QED
    BY <1>2, <1>4, <1>5, <1>11, <2>1 DEF Replace, Orders!Next, Orders!Die
<1> QED
  BY <1>6, <1>7, <1>8, <1>9, <1>10, <1>11 DEF BrokerStep

LEMMA OutsideOrders ==
    ASSUME Expire \/ BookMoves \/ UNCHANGED vars
    PROVE  UNCHANGED orderVars \/ Orders!Moves
<1>1. UNCHANGED <<intents, order, inflight, cycle, campaigns>>
  BY DEF Expire, BookMoves, vars, store, broker
<1>2. Named' = Named /\ Stage' = Stage /\ Fate' = Fate
  BY <1>1 DEF Named, Stage, Fate, Pending, MaySend, At
<1>3. CASE book' = book
  BY <1>1, <1>2, <1>3 DEF orderVars
<1>4. CASE BookMoves
  BY <1>1, <1>2, <1>4 DEF BookMoves, Orders!Moves, Flat
<1> QED
  BY <1>3, <1>4 DEF Expire, vars, broker

LEMMA OrdersInit == Init => Orders!Init
<1> SUFFICES ASSUME Init PROVE Orders!Init
  OBVIOUS
<1>1. Named = None /\ Stage = "quiet" /\ Fate = [c \in Cid |-> "none"]
  BY DEF Init, Named, Stage, Fate, Pending
<1>2. ASSUME NEW l \in Legs, book = [legs |-> l, camp |-> 1]
      PROVE  book \notin {Flat, Odd} /\ book.camp = 1
  BY <1>2, LegsAssumption DEF Flat, Odd
<1> QED
  BY <1>1, <1>2 DEF Init, Orders!Init

LEMMA OrdersStep ==
    TypeOK /\ TypeOK' /\ IndInv /\ IndInv' /\ TradeInv /\ UnclearKept /\ [Next]_vars =>
        [Orders!Next]_orderVars
<1> SUFFICES ASSUME TypeOK, TypeOK', IndInv, IndInv', TradeInv, UnclearKept, [Next]_vars
             PROVE  [Orders!Next]_orderVars
  OBVIOUS
<1>1. ASSUME NEW a \in Actors, Fresh(a) PROVE Orders!Next
  BY <1>1, FreshNames DEF Orders!Next
<1>2. ASSUME NEW a \in Actors, Submit(a) PROVE Orders!Next
  BY <1>2, SubmitSends DEF Orders!Next
<1>3. ASSUME NEW a \in Actors, Acquire(a) \/ CycleStep(a) \/ Fault(a), ~Submit(a),
             \A b \in Actors : ~Fresh(b)
      PROVE  [Orders!Next]_orderVars
  BY <1>3, InnerOrders DEF Orders!Next
<1>4. ASSUME NEW c \in Cid, BrokerStep(c) PROVE Orders!Next
  BY <1>4, BrokerOrders
<1>5. CASE Expire \/ BookMoves \/ UNCHANGED vars
  BY <1>5, OutsideOrders DEF Orders!Next
<1> QED
  BY <1>1, <1>2, <1>3, <1>4, <1>5 DEF Next, Work, Disturbance, Actors

\* If no CLI call outlives the lease, the processes with their crashes, aborted cycles and
\* late answers trade as OrderDesk says, for any number of them: each order is named in
\* writing, sent at most once and only while it fits the account, and settled before the
\* next is named; an order whose fate is unknown stops the desk
\* (service.py 176-180 and 320-466, worker.py 48-99, alpaca.py 793-823).
THEOREM OrdersAsPromisedHolds == ASSUME ~CliMayHang PROVE Spec => OrdersAsPromised
<1>1. Init => Orders!Init /\ UnclearKept
  <2>1. Init => UnclearKept
    BY DEF Init, UnclearKept, Unclear
  <2> QED
    BY <2>1, OrdersInit
<1>2. Spec => []UnclearKept
  BY <1>1, UnclearStep, TypeCorrect, Inductive, PTL DEF Spec
<1>3. Spec => [][Orders!Next]_orderVars
  BY <1>2, OrdersStep, TypeCorrect, Inductive, TradesFollow, PTL DEF Spec
<1>4. Spec => Orders!Init
  BY <1>1 DEF Spec
<1> QED
  BY <1>3, <1>4, PTL DEF OrdersAsPromised, Orders!Spec, orderVars
=============================================================================
