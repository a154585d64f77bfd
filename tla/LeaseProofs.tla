---------------------------- MODULE LeaseProofs ----------------------------
(***************************************************************************)
(* Theorems of Lease, for any number of processes, any clock and any time  *)
(* to live that leaves room for the background task's sleep, its delay and *)
(* two waits.  LeaseInv is inductive given the types; the properties and   *)
(* the implementation of DeskLease follow from it.                         *)
(***************************************************************************)
EXTENDS Lease, TLAPS

LEMMA IntervalFacts ==
    /\ Ttl \in Nat /\ Ttl > 0
    /\ Interval \in Nat /\ Interval + Delay + 2 * Patience < Ttl
    /\ Patience \in Nat /\ Delay \in Nat /\ MaxTime \in Nat /\ MaxTokens \in Nat
BY TimingAssumption, LeaseBoundsAssumption DEF Interval

LEMMA NoRowFacts == NoRow.owner \notin Actors /\ NoRow.token = 0 /\ NoRow.expires = 0
BY LeaseActorsAssumption DEF NoRow

LEMMA IdleLocal == Idle \in Local
BY IntervalFacts DEF Idle, Local

\* What each operation leaves in the process's own variables.
LEMMA UpdateType ==
    ASSUME TypeOK, NEW a \in Actors, NEW r \in Local, Update(a, r)
    PROVE  /\ run' \in [Actors -> Local]
           /\ run'[a] = r
           /\ \A b \in Actors : b # a => run'[b] = run[b]
BY DEF TypeOK, Update

LEMMA SleepType ==
    ASSUME TypeOK, NEW r \in Local
    PROVE  Sleep(r) \in 0 .. MaxTime + Interval
BY IntervalFacts DEF TypeOK, Sleep

-----------------------------------------------------------------------------
(* The steps, as what they do to the row and to one process.                 *)

LEMMA GivenFacts ==
    ASSUME TypeOK, NEW a \in Actors, run[a].phase = "acquire", issued < MaxTokens, Given(a)
    PROVE  \E r \in Local :
             /\ Update(a, r)
             /\ r.phase = "cycle" /\ r.token = issued + 1 /\ r.stamp = run[a].read
             /\ r.renewer = "on" => r.due = now + Interval
             /\ row' = [owner |-> a, token |-> r.token, expires |-> r.stamp + Ttl]
             /\ issued' = r.token /\ now' = now
<1> DEFINE q == [Idle EXCEPT !.phase = "cycle", !.token = issued + 1, !.stamp = run[a].read,
                             !.renewer = IF a \in Operators THEN "on" ELSE "off"]
           r == [q EXCEPT !.due = Sleep(q)]
<1>1. q \in Local /\ q.phase = "cycle" /\ q.token = issued + 1 /\ q.stamp = run[a].read
  <2>1. issued + 1 \in 0 .. MaxTokens /\ run[a].read \in 0 .. MaxTime
    BY IntervalFacts DEF TypeOK, Local
  <2> QED
    BY <2>1, IdleLocal DEF Local
<1>2. Update(a, r) /\ now' = now /\ issued' = issued + 1
      /\ row' = [owner |-> a, token |-> issued + 1, expires |-> run[a].read + Ttl]
  BY DEF Given
<1> HIDE DEF q
<1>3. r \in Local
  BY <1>1, SleepType DEF Local
<1>4. /\ r.phase = q.phase /\ r.token = q.token /\ r.stamp = q.stamp
      /\ r.renewer = q.renewer /\ r.due = Sleep(q)
  BY <1>1 DEF Local
<1>5. q.renewer = "on" => Sleep(q) = now + Interval
  BY DEF Sleep
<1> HIDE DEF r
<1> QED
  BY <1>1, <1>2, <1>3, <1>4, <1>5

\* The two ways a renewal leaves a process, with a clock reading x in place of 0.
LEMMA LocalRenewed ==
    ASSUME NEW r \in Local, NEW x \in 0 .. MaxTime, NEW d \in 0 .. MaxTime + Interval
    PROVE  [r EXCEPT !.phase = "cycle", !.read = x, !.stamp = r.read, !.due = d] \in Local
BY DEF Local

LEMMA LocalFailed ==
    ASSUME NEW r \in Local, NEW x \in 0 .. MaxTime, NEW w \in {"off", "on", "failed"}
    PROVE  [r EXCEPT !.phase = "cycle", !.read = x, !.renewer = w] \in Local
BY DEF Local

LEMMA RenewedFacts ==
    ASSUME TypeOK, NEW a \in Actors, Renewing(a)
    PROVE  /\ Renewed(run[a]) \in Local
           /\ Renewed(run[a]).phase = "cycle"
           /\ Renewed(run[a]).token = run[a].token
           /\ Renewed(run[a]).stamp = run[a].read
           /\ Renewed(run[a]).renewer = run[a].renewer
           /\ run[a].renewer = "on" =>
                \/ run[a].phase = "renew" /\ Renewed(run[a]).due = run[a].due
                \/ Renewed(run[a]).due = now + Interval
<1> DEFINE due == IF run[a].phase = "background" THEN Sleep(run[a]) ELSE run[a].due
<1>1. run[a] \in Local
  BY DEF TypeOK
<1>2. due \in 0 .. MaxTime + Interval
  BY <1>1, SleepType DEF Local
<1>3. run[a].renewer = "on" =>
        (run[a].phase = "renew" /\ due = run[a].due) \/ due = now + Interval
  BY DEF Renewing, Sleep
<1>4. Renewed(run[a]) = [run[a] EXCEPT !.phase = "cycle", !.read = 0, !.stamp = run[a].read,
                                       !.due = due]
  BY DEF Renewed
<1> HIDE DEF due
<1>5. [run[a] EXCEPT !.phase = "cycle", !.read = 0, !.stamp = run[a].read, !.due = due]
        \in Local
  <2>1. 0 \in 0 .. MaxTime
    BY IntervalFacts
  <2> QED
    BY <1>1, <1>2, <2>1, LocalRenewed
<1>6. /\ Renewed(run[a]).phase = "cycle"
      /\ Renewed(run[a]).token = run[a].token
      /\ Renewed(run[a]).stamp = run[a].read
      /\ Renewed(run[a]).renewer = run[a].renewer
      /\ Renewed(run[a]).due = due
  BY <1>1, <1>4 DEF Local
<1> QED
  BY <1>3, <1>4, <1>5, <1>6

LEMMA RenewReadFacts ==
    ASSUME TypeOK, NEW a \in Actors, RenewRead(a)
    PROVE  \E r \in Local :
             /\ Update(a, r)
             /\ r.phase \in {"renew", "background"} /\ r.read = now
             /\ r.phase = "background" => run[a].renewer = "on"
             /\ r.token = run[a].token /\ r.stamp = run[a].stamp
             /\ r.renewer = run[a].renewer /\ r.due = run[a].due
<1>1. PICK p \in {"renew", "background"} :
        /\ p = "background" => run[a].renewer = "on" /\ run[a].due <= now
        /\ Update(a, [run[a] EXCEPT !.phase = p, !.read = now])
  BY DEF RenewRead
<1> DEFINE r == [run[a] EXCEPT !.phase = p, !.read = now]
<1>2. run[a] \in Local /\ now \in 0 .. MaxTime
  BY DEF TypeOK
<1>3. /\ r \in Local
      /\ r.phase = p /\ r.read = now /\ r.token = run[a].token /\ r.stamp = run[a].stamp
      /\ r.renewer = run[a].renewer /\ r.due = run[a].due
  BY <1>2 DEF Local
<1>4. Update(a, r)
  BY <1>1
<1> HIDE DEF r
<1> QED
  BY <1>1, <1>3, <1>4

LEMMA RenewFailsFacts ==
    ASSUME TypeOK, NEW a \in Actors, RenewFails(a)
    PROVE  \E r \in Local :
             /\ Update(a, r)
             /\ r.phase = "cycle" /\ r.token = run[a].token /\ r.stamp = run[a].stamp
             /\ r.due = run[a].due
             /\ r.renewer = "on" => run[a].renewer = "on" /\ run[a].phase = "renew"
<1> DEFINE rest == IF run[a].phase = "background" THEN "failed" ELSE run[a].renewer
           r == [run[a] EXCEPT !.phase = "cycle", !.read = 0, !.renewer = rest]
<1>1. run[a] \in Local /\ run[a].phase \in {"renew", "background"}
  BY DEF TypeOK, RenewFails, Renewing
<1>2. /\ rest \in {"off", "on", "failed"}
      /\ rest = "on" => run[a].renewer = "on" /\ run[a].phase = "renew"
  BY <1>1 DEF Local
<1>3. Update(a, r)
  BY DEF RenewFails
<1> HIDE DEF rest
<1>4. r \in Local
  <2>1. 0 \in 0 .. MaxTime
    BY IntervalFacts
  <2> QED
    BY <1>1, <1>2, <2>1, LocalFailed
<1>5. /\ r.phase = "cycle" /\ r.token = run[a].token /\ r.stamp = run[a].stamp
      /\ r.due = run[a].due /\ r.renewer = rest
  BY <1>1 DEF Local
<1> HIDE DEF r
<1> QED
  BY <1>2, <1>3, <1>4, <1>5

-----------------------------------------------------------------------------
(* Types.                                                                    *)

LEMMA TypeInit == Init => TypeOK
BY IdleLocal, IntervalFacts DEF Init, TypeOK

LEMMA TypeStep == TypeOK /\ [Next]_vars => TypeOK'
<1> SUFFICES ASSUME TypeOK, [Next]_vars PROVE TypeOK'
  OBVIOUS
<1> USE IntervalFacts
<1>1. ASSUME NEW a \in Actors, AcquireRead(a) PROVE TypeOK'
  <2> DEFINE r == [Idle EXCEPT !.phase = "acquire", !.read = now]
  <2>1. r \in Local
    BY IdleLocal DEF TypeOK, Local
  <2> QED
    BY <1>1, <2>1, UpdateType DEF AcquireRead, TypeOK
<1>2. ASSUME NEW a \in Actors, Acquire(a) PROVE TypeOK'
  <2>1. PICK r \in Local :
          /\ Update(a, r)
          /\ row' = [owner |-> a, token |-> r.token, expires |-> r.stamp + Ttl]
          /\ r.token = issued + 1 /\ issued' = r.token /\ now' = now
    BY <1>2, GivenFacts DEF Acquire
  <2>2. run' \in [Actors -> Local]
    BY <2>1, UpdateType
  <2>3. r.token \in 1 .. MaxTokens /\ r.stamp \in 0 .. MaxTime
    BY <2>1 DEF TypeOK, Local
  <2> QED
    BY <2>1, <2>2, <2>3 DEF TypeOK
<1>3. ASSUME NEW a \in Actors, Refused(a) \/ Crash(a) PROVE TypeOK'
  BY <1>3, IdleLocal, UpdateType DEF Refused, Crash, TypeOK
<1>4. ASSUME NEW a \in Actors, RenewRead(a) PROVE TypeOK'
  BY <1>4, RenewReadFacts, UpdateType DEF RenewRead, TypeOK
<1>5. ASSUME NEW a \in Actors, Renew(a) PROVE TypeOK'
  <2>1. run' \in [Actors -> Local]
    BY <1>5, RenewedFacts, UpdateType DEF Renew
  <2>2. run[a].read \in 0 .. MaxTime
    BY DEF TypeOK, Local
  <2>3. row \in [owner : Actors, token : 1 .. MaxTokens, expires : Ttl .. MaxTime + Ttl]
    BY <1>5 DEF Renew, Mine, TypeOK
  <2> QED
    BY <1>5, <2>1, <2>2, <2>3 DEF Renew, TypeOK
<1>6. ASSUME NEW a \in Actors, RenewFails(a) PROVE TypeOK'
  BY <1>6, RenewFailsFacts, UpdateType DEF RenewFails, TypeOK
<1>7. ASSUME NEW a \in Actors, Finish(a) PROVE TypeOK'
  <2>1. run' \in [Actors -> Local]
    BY <1>7, IdleLocal, UpdateType DEF Finish
  <2>2. row' \in {row, NoRow}
    BY <1>7 DEF Finish
  <2> QED
    BY <1>7, <2>1, <2>2 DEF Finish, TypeOK
<1>8. CASE Tick
  BY <1>8 DEF Tick, TypeOK
<1>9. CASE UNCHANGED vars
  BY <1>9 DEF vars, TypeOK
<1> QED
  BY <1>1, <1>2, <1>3, <1>4, <1>5, <1>6, <1>7, <1>8, <1>9 DEF Next

\* Every reachable state is well typed; in particular no lease reaches further than a
\* time to live past the clock.
THEOREM LeaseTypeCorrect == Spec => []TypeOK
BY TypeInit, TypeStep, PTL DEF Spec

-----------------------------------------------------------------------------
(* The inductive invariant.  A step changes at most one process: what it does *)
(* to the others follows from the row alone.                                  *)

LEMMA LeaseInvInit == Init => LeaseInv
<1> SUFFICES ASSUME Init PROVE LeaseInv
  OBVIOUS
<1>1. \A a \in Actors : run[a] = Idle
  BY DEF Init
<1>2. /\ now = 0 /\ issued = 0 /\ row.token = 0
      /\ \A a \in Actors : ~Active(a) /\ run[a].phase = "idle" /\ run[a].token = 0 /\ run[a].stamp = 0
  BY <1>1, NoRowFacts DEF Init, Active, Idle
<1> QED
  BY <1>2 DEF LeaseInv, TokensFresh, ReadsRecent, PromptHolds, SleepsShort, Prompt, Waits

\* What a process must leave behind when it steps at one instant: the others' rows
\* as they were, and a row of its own that fits its variables.
LEMMA OneStep ==
    ASSUME TypeOK, TypeOK', LeaseInv, NEW a \in Actors, NEW r \in Local, Update(a, r),
           now' = now, issued <= issued', row'.token <= issued',
           \A b \in Actors : b # a /\ Active(b) =>
               ((row' # NoRow /\ row'.token = run[b].token) <=> row'.owner = b),
           \A b \in Actors : b # a /\ Prompt(b) => row' = row,
           r.token <= issued',
           r.phase \in {"cycle", "renew", "background"} =>
               /\ r.token > 0
               /\ (row' # NoRow /\ row'.token = r.token) <=> row'.owner = a
               /\ \A b \in Actors : b # a /\ Active(b) => run[b].token # r.token
               /\ now < r.stamp + Ttl =>
                    row' # NoRow /\ row'.token = r.token /\ row'.expires = r.stamp + Ttl
               /\ r.renewer = "on" =>
                    /\ r.due <= r.stamp + Patience + Interval
                    /\ r.phase \in {"cycle", "renew"} => now <= r.due + Delay
                    /\ r.phase = "background" => r.read <= r.due + Delay,
           r.stamp <= now,
           r.phase \in Waits => r.stamp <= r.read /\ r.read <= now /\ now <= r.read + Patience
    PROVE  LeaseInv'
<1>1. run'[a] = r /\ \A b \in Actors : b # a => run'[b] = run[b]
  BY UpdateType
<1>2. /\ issued \in Nat /\ issued' \in Nat
      /\ \A b \in Actors : run[b].token \in Nat
  BY IntervalFacts DEF TypeOK, Local
<1>3. TokensFresh'
  <2>1. row'.token <= issued' /\ \A b \in Actors : run'[b].token <= issued'
    BY <1>1, <1>2 DEF LeaseInv, TokensFresh
  <2>2. ASSUME NEW b \in Actors, NEW c \in Actors, Active(b)', Active(c)',
               run'[b].token = run'[c].token
        PROVE  b = c
    BY <1>1, <2>2 DEF LeaseInv, TokensFresh, Active
  <2>3. ASSUME NEW b \in Actors, Active(b)'
        PROVE  run'[b].token > 0 /\ (Mine(b)' <=> row'.owner = b)
    <3>1. CASE b = a
      BY <1>1, <2>3, <3>1 DEF Active, Mine, NoRow
    <3>2. CASE b # a
      BY <1>1, <2>3, <3>2 DEF LeaseInv, TokensFresh, Active, Mine, NoRow
    <3> QED
      BY <3>1, <3>2
  <2> QED
    BY <2>1, <2>2, <2>3 DEF TokensFresh
<1>4. ReadsRecent'
  BY <1>1 DEF LeaseInv, ReadsRecent, Waits
<1>5. PromptHolds'
  <2> SUFFICES ASSUME NEW b \in Actors, Prompt(b)'
               PROVE  Mine(b)' /\ row'.expires = run'[b].stamp + Ttl
    BY DEF PromptHolds
  <2>1. CASE b = a
    BY <1>1, <2>1 DEF Prompt, Active, Mine, NoRow
  <2>2. CASE b # a
    BY <1>1, <2>2 DEF Prompt, Active, Mine, NoRow, LeaseInv, PromptHolds
  <2> QED
    BY <2>1, <2>2
<1>6. SleepsShort'
  BY <1>1 DEF LeaseInv, SleepsShort, Active
<1> QED
  BY <1>3, <1>4, <1>5, <1>6 DEF LeaseInv

\* The other processes, when a step leaves the row alone.
LEMMA RowKept ==
    ASSUME TypeOK, LeaseInv, row' = row
    PROVE  /\ row'.token <= issued
           /\ \A b \in Actors : Active(b) =>
                ((row' # NoRow /\ row'.token = run[b].token) <=> row'.owner = b)
BY DEF LeaseInv, TokensFresh, Mine

\* A process's own conjuncts of the invariant.
LEMMA Own ==
    ASSUME TypeOK, LeaseInv, NEW a \in Actors
    PROVE  /\ run[a] \in Local /\ run[a].token <= issued
           /\ now \in Nat /\ issued \in Nat /\ row.token <= issued
           /\ run[a].stamp <= now
           /\ run[a].phase \in Waits =>
                /\ run[a].stamp <= run[a].read /\ run[a].read <= now
                /\ now <= run[a].read + Patience
           /\ Active(a) =>
                /\ run[a].token > 0
                /\ Mine(a) <=> row.owner = a
                /\ \A b \in Actors : b # a /\ Active(b) => run[b].token # run[a].token
                /\ Prompt(a) => Mine(a) /\ row.expires = run[a].stamp + Ttl
                /\ run[a].renewer = "on" =>
                    /\ run[a].due <= run[a].stamp + Patience + Interval
                    /\ run[a].phase \in {"cycle", "renew"} => now <= run[a].due + Delay
                    /\ run[a].phase = "background" => run[a].read <= run[a].due + Delay
<1>1. run[a] \in Local /\ now \in Nat /\ issued \in Nat
  BY IntervalFacts DEF TypeOK
<1> QED
  BY <1>1 DEF LeaseInv, TokensFresh, ReadsRecent, PromptHolds, SleepsShort

\* A process that leaves its cycle, with the row as it was or its own row deleted.
LEMMA LeavesStep ==
    ASSUME TypeOK, TypeOK', LeaseInv, NEW a \in Actors, Update(a, Idle),
           now' = now, issued' = issued,
           row' = row \/ (Active(a) /\ Mine(a) /\ row' = NoRow)
    PROVE  LeaseInv'
<1>1. /\ Idle.phase = "idle" /\ Idle.token = 0 /\ Idle.stamp = 0 /\ "idle" \notin Waits
  BY DEF Idle, Waits
<1>2. ASSUME NEW b \in Actors, b # a, Active(b)
      PROVE  (row' # NoRow /\ row'.token = run[b].token) <=> row'.owner = b
  <2>1. CASE row' = row
    BY <1>2, <2>1, RowKept
  <2>2. CASE row' = NoRow
    BY <1>2, <2>2, NoRowFacts
  <2> QED
    BY <2>1, <2>2
<1>3. ASSUME NEW b \in Actors, b # a, Prompt(b)
      PROVE  row' = row
  BY <1>3, Own DEF Prompt, Mine
<1>4. row'.token <= issued' /\ issued \in Nat /\ now \in Nat
  BY Own, NoRowFacts
<1> QED
  BY <1>1, <1>2, <1>3, <1>4, IdleLocal, OneStep

LEMMA AcquireInv ==
    ASSUME TypeOK, TypeOK', LeaseInv, NEW a \in Actors, Acquire(a)
    PROVE  LeaseInv'
<1>1. PICK r \in Local :
        /\ Update(a, r)
        /\ r.phase = "cycle" /\ r.token = issued + 1 /\ r.stamp = run[a].read
        /\ r.renewer = "on" => r.due = now + Interval
        /\ row' = [owner |-> a, token |-> r.token, expires |-> r.stamp + Ttl]
        /\ issued' = r.token /\ now' = now
  BY GivenFacts DEF Acquire
<1>2. /\ run[a].phase = "acquire" /\ (row = NoRow \/ row.expires <= run[a].read)
      /\ run[a].phase \in Waits
  BY DEF Acquire, Waits
<1>3. /\ run[a].read \in Nat /\ run[a].read <= now /\ now <= run[a].read + Patience
      /\ now \in Nat /\ issued \in Nat
  BY <1>2, Own, IntervalFacts DEF Local
<1>4. row' # NoRow /\ row'.owner = a /\ row'.token = issued + 1 /\ row'.expires = r.stamp + Ttl
  BY <1>1, NoRowFacts
<1>5. ASSUME NEW b \in Actors, b # a, Active(b)
      PROVE  run[b].token # issued + 1
  BY <1>3, Own DEF Local
<1>6. ASSUME NEW b \in Actors, b # a, Prompt(b)
      PROVE  FALSE
  <2>1. row # NoRow /\ row.expires = run[b].stamp + Ttl /\ now < run[b].stamp + Ttl
    BY <1>6, Own DEF Prompt, Mine
  <2> QED
    BY <2>1, <1>2, <1>3, IntervalFacts, Own DEF Local
<1>7. r.renewer = "on" =>
        r.due <= r.stamp + Patience + Interval /\ now <= r.due + Delay
  BY <1>1, <1>3, IntervalFacts
<1> QED
  BY <1>1, <1>3, <1>4, <1>5, <1>6, <1>7, OneStep DEF Waits

LEMMA RenewReadInv ==
    ASSUME TypeOK, TypeOK', LeaseInv, NEW a \in Actors, RenewRead(a)
    PROVE  LeaseInv'
<1>1. PICK r \in Local :
        /\ Update(a, r)
        /\ r.phase \in {"renew", "background"} /\ r.read = now
        /\ r.phase = "background" => run[a].renewer = "on"
        /\ r.token = run[a].token /\ r.stamp = run[a].stamp
        /\ r.renewer = run[a].renewer /\ r.due = run[a].due
  BY RenewReadFacts
<1>2. /\ Active(a) /\ run[a].phase = "cycle"
      /\ now' = now /\ row' = row /\ issued' = issued
  BY DEF RenewRead, Active
<1>3. now <= now + Patience /\ now <= now /\ issued <= issued
  BY Own, IntervalFacts
<1>4. now < r.stamp + Ttl => Mine(a) /\ row.expires = r.stamp + Ttl
  BY <1>1, <1>2, Own DEF Prompt
<1> QED
  BY <1>1, <1>2, <1>3, <1>4, Own, RowKept, OneStep DEF Mine

LEMMA RenewInv ==
    ASSUME TypeOK, TypeOK', LeaseInv, NEW a \in Actors, Renew(a)
    PROVE  LeaseInv'
<1> DEFINE r == Renewed(run[a])
<1>1. /\ Renewing(a) /\ Active(a) /\ Mine(a) /\ run[a].phase \in Waits
      /\ run[a].phase \in {"renew", "background"}
      /\ Update(a, r) /\ now' = now /\ issued' = issued
      /\ row' = [row EXCEPT !.expires = run[a].read + Ttl]
  BY DEF Renew, Renewing, Active, Waits
<1>2. /\ r \in Local /\ r.phase = "cycle" /\ r.token = run[a].token /\ r.stamp = run[a].read
      /\ r.renewer = run[a].renewer
      /\ run[a].renewer = "on" =>
           (run[a].phase = "renew" /\ r.due = run[a].due) \/ r.due = now + Interval
  BY <1>1, RenewedFacts
<1>3. row.owner \in Actors /\ row # NoRow
  BY <1>1 DEF TypeOK, Mine
<1>4. /\ row'.owner = row.owner /\ row'.token = row.token
      /\ row'.expires = run[a].read + Ttl /\ row' # NoRow
  BY <1>1, <1>3, NoRowFacts DEF TypeOK
<1>5. ASSUME NEW b \in Actors, b # a, Prompt(b)
      PROVE  FALSE
  BY <1>1, <1>5, Own DEF Prompt, Mine
<1>6. ASSUME NEW b \in Actors, b # a, Active(b)
      PROVE  (row' # NoRow /\ row'.token = run[b].token) <=> row'.owner = b
  BY <1>3, <1>4, <1>6, Own DEF Mine
<1>7. /\ run[a].stamp \in Nat /\ run[a].read \in Nat /\ run[a].due \in Nat /\ now \in Nat
      /\ issued \in Nat
  BY Own, IntervalFacts DEF Local
<1>8. run[a].renewer = "on" =>
        r.due <= r.stamp + Patience + Interval /\ now <= r.due + Delay
  <2>1. CASE run[a].phase = "renew" /\ r.due = run[a].due
    BY <1>1, <1>2, <1>7, <2>1, Own, IntervalFacts
  <2>2. CASE r.due = now + Interval
    BY <1>1, <1>2, <1>7, <2>2, Own, IntervalFacts
  <2> QED
    BY <1>2, <2>1, <2>2
<1> HIDE DEF r
<1>9. /\ r.token > 0 /\ r.token <= issued' /\ row'.token <= issued' /\ issued <= issued'
      /\ (row' # NoRow /\ row'.token = r.token) <=> row'.owner = a
      /\ \A b \in Actors : b # a /\ Active(b) => run[b].token # r.token
      /\ row'.token = r.token /\ row'.expires = r.stamp + Ttl /\ r.stamp <= now
  BY <1>1, <1>2, <1>4, <1>7, Own DEF Mine
<1> QED
  BY <1>1, <1>2, <1>4, <1>5, <1>6, <1>8, <1>9, OneStep DEF Waits

LEMMA RenewFailsInv ==
    ASSUME TypeOK, TypeOK', LeaseInv, NEW a \in Actors, RenewFails(a)
    PROVE  LeaseInv'
<1>1. PICK r \in Local :
        /\ Update(a, r)
        /\ r.phase = "cycle" /\ r.token = run[a].token /\ r.stamp = run[a].stamp
        /\ r.due = run[a].due
        /\ r.renewer = "on" => run[a].renewer = "on" /\ run[a].phase = "renew"
  BY RenewFailsFacts
<1>2. Active(a) /\ now' = now /\ row' = row /\ issued' = issued
  BY DEF RenewFails, Renewing, Active
<1>3. now < r.stamp + Ttl => Mine(a) /\ row.expires = r.stamp + Ttl
  BY <1>1, <1>2, Own DEF Prompt
<1>4. issued <= issued
  BY Own
<1> QED
  BY <1>1, <1>2, <1>3, <1>4, Own, RowKept, OneStep DEF Mine, Waits

LEMMA AcquireReadInv ==
    ASSUME TypeOK, TypeOK', LeaseInv, NEW a \in Actors, AcquireRead(a)
    PROVE  LeaseInv'
<1> DEFINE r == [Idle EXCEPT !.phase = "acquire", !.read = now]
<1>1. r \in Local /\ r.phase = "acquire" /\ r.token = 0 /\ r.stamp = 0 /\ r.read = now
  BY IdleLocal DEF TypeOK, Local, Idle
<1>2. Update(a, r) /\ now' = now /\ row' = row /\ issued' = issued
  BY DEF AcquireRead
<1> HIDE DEF r
<1>3. now \in Nat /\ issued \in Nat /\ now <= now + Patience
  BY Own, IntervalFacts
<1> QED
  BY <1>1, <1>2, <1>3, Own, RowKept, OneStep

LEMMA TickInv ==
    ASSUME TypeOK, LeaseInv, Tick
    PROVE  LeaseInv'
<1>1. now' = now + 1 /\ row' = row /\ issued' = issued /\ run' = run
  BY DEF Tick
<1>2. \A a \in Actors : InTime(run[a])
  BY DEF Tick
<1>3. TokensFresh'
  BY <1>1 DEF LeaseInv, TokensFresh, Active, Mine
<1>4. ReadsRecent'
  <2> SUFFICES ASSUME NEW a \in Actors
               PROVE  /\ run[a].stamp <= now + 1
                      /\ run[a].phase \in Waits =>
                           /\ run[a].stamp <= run[a].read /\ run[a].read <= now + 1
                           /\ now + 1 <= run[a].read + Patience
    BY <1>1 DEF ReadsRecent
  <2> QED
    BY <1>2, Own, IntervalFacts DEF InTime, Local
<1>5. PromptHolds'
  <2> SUFFICES ASSUME NEW a \in Actors, Active(a), now + 1 < run[a].stamp + Ttl
               PROVE  Mine(a) /\ row.expires = run[a].stamp + Ttl
    BY <1>1 DEF PromptHolds, Prompt, Active, Mine
  <2> QED
    BY Own, IntervalFacts DEF Prompt, Local
<1>6. SleepsShort'
  <2> SUFFICES ASSUME NEW a \in Actors, Active(a), run[a].renewer = "on"
               PROVE  /\ run[a].due <= run[a].stamp + Patience + Interval
                      /\ run[a].phase \in {"cycle", "renew"} => now + 1 <= run[a].due + Delay
                      /\ run[a].phase = "background" => run[a].read <= run[a].due + Delay
    BY <1>1 DEF SleepsShort, Active
  <2> QED
    BY <1>2, Own, IntervalFacts DEF InTime, Local
<1> QED
  BY <1>3, <1>4, <1>5, <1>6 DEF LeaseInv

LEMMA LeaseInvStep == TypeOK /\ TypeOK' /\ LeaseInv /\ [Next]_vars => LeaseInv'
<1> SUFFICES ASSUME TypeOK, TypeOK', LeaseInv, [Next]_vars PROVE LeaseInv'
  OBVIOUS
<1>1. ASSUME NEW a \in Actors, AcquireRead(a) PROVE LeaseInv'
  BY <1>1, AcquireReadInv
<1>2. ASSUME NEW a \in Actors, Acquire(a) PROVE LeaseInv'
  BY <1>2, AcquireInv
<1>3. ASSUME NEW a \in Actors, Refused(a) \/ Crash(a) PROVE LeaseInv'
  BY <1>3, LeavesStep DEF Refused, Crash
<1>4. ASSUME NEW a \in Actors, RenewRead(a) PROVE LeaseInv'
  BY <1>4, RenewReadInv
<1>5. ASSUME NEW a \in Actors, Renew(a) PROVE LeaseInv'
  BY <1>5, RenewInv
<1>6. ASSUME NEW a \in Actors, RenewFails(a) PROVE LeaseInv'
  BY <1>6, RenewFailsInv
<1>7. ASSUME NEW a \in Actors, Finish(a) PROVE LeaseInv'
  BY <1>7, LeavesStep DEF Finish, Active
<1>8. CASE Tick
  BY <1>8, TickInv
<1>9. CASE UNCHANGED vars
  BY <1>9 DEF vars, LeaseInv, TokensFresh, ReadsRecent, PromptHolds, SleepsShort, Prompt,
               Active, Mine
<1> QED
  BY <1>1, <1>2, <1>3, <1>4, <1>5, <1>6, <1>7, <1>8, <1>9 DEF Next

\* The invariant holds in every reachable state: the row of a process that is still in
\* time is its own and carries its last clock reading.
THEOREM LeaseInductive == Spec => []LeaseInv
<1>1. Init => TypeOK /\ LeaseInv
  BY TypeInit, LeaseInvInit
<1>2. TypeOK /\ LeaseInv /\ [Next]_vars => TypeOK' /\ LeaseInv'
  BY TypeStep, LeaseInvStep
<1> QED
  BY <1>1, <1>2, PTL DEF Spec

-----------------------------------------------------------------------------
(* What follows from it.                                                     *)

LEMMA RenewedProcess ==
    ASSUME TypeOK, LeaseInv, NEW o \in Actors, Active(o), run[o].renewer = "on"
    PROVE  Mine(o) /\ row.expires > now
<1>1. /\ run[o].stamp \in Nat /\ run[o].read \in Nat /\ run[o].due \in Nat /\ now \in Nat
  BY Own, IntervalFacts DEF Local
<1>2. now < run[o].stamp + Ttl
  <2>1. CASE run[o].phase \in {"cycle", "renew"}
    BY <1>1, <2>1, Own, IntervalFacts
  <2>2. CASE run[o].phase = "background"
    BY <1>1, <2>2, Own, IntervalFacts DEF Waits
  <2> QED
    BY <2>1, <2>2 DEF Active
<1>3. Prompt(o)
  BY <1>2 DEF Prompt
<1> QED
  BY <1>1, <1>2, <1>3, Own, IntervalFacts

\* No two processes that are still in time, whatever is early, late, lost or dead.
THEOREM AtMostOnePromptHolds == Spec => []AtMostOnePrompt
<1>1. TypeOK /\ LeaseInv => AtMostOnePrompt
  BY Own DEF AtMostOnePrompt, Prompt, Mine
<1> QED
  BY <1>1, LeaseTypeCorrect, LeaseInductive, PTL

\* An API run whose background task is running has a live lease.
THEOREM RenewedNeverLapsesHolds == Spec => []RenewedNeverLapses
<1>1. TypeOK /\ LeaseInv => RenewedNeverLapses
  BY RenewedProcess DEF RenewedNeverLapses
<1> QED
  BY <1>1, LeaseTypeCorrect, LeaseInductive, PTL

-----------------------------------------------------------------------------
(* Lease implements DeskLease.                                               *)

live == row.expires > now
active == {a \in Actors : Active(a)}

LEMMA PromiseInit == Init => Promise!Init
<1> SUFFICES ASSUME Init PROVE Promise!Init
  OBVIOUS
<1>1. /\ row.owner = Nobody /\ ~(row.expires > now)
      /\ \A a \in Actors : ~Active(a)
  BY DEF Init, NoRow, Active, Idle
<1> QED
  BY <1>1 DEF Promise!Init

\* A process that stops being active, or starts.
LEMMA ActiveAfter ==
    ASSUME TypeOK, NEW a \in Actors, NEW r \in Local, Update(a, r)
    PROVE  /\ r.phase \in {"idle", "acquire"} => active' = active \ {a}
           /\ r.phase \in {"cycle", "renew", "background"} => active' = active \cup {a}
<1>1. run'[a] = r /\ \A b \in Actors : b # a => run'[b] = run[b]
  BY UpdateType
<1> QED
  BY <1>1 DEF active, Active

\* A step of a process is one of DeskLease or stutters; the lease lapses in time only.
LEMMA PromiseStep ==
    ASSUME TypeOK, TypeOK', LeaseInv, [Next]_vars
    PROVE  [Promise!ProcessStep]_<<row.owner, live, active>> \/ (Tick /\ Promise!Lapse)
<1> DEFINE Stutter == row'.owner = row.owner /\ live' = live /\ active' = active
<1>1. ASSUME NEW a \in Actors, AcquireRead(a) PROVE Stutter
  <2> DEFINE r == [Idle EXCEPT !.phase = "acquire", !.read = now]
  <2>1. r \in Local /\ r.phase = "acquire"
    BY IdleLocal DEF TypeOK, Local
  <2>2. Update(a, r) /\ now' = now /\ row' = row /\ a \notin active
    BY <1>1 DEF AcquireRead, active, Active
  <2> HIDE DEF r
  <2> QED
    BY <2>1, <2>2, ActiveAfter DEF live
<1>2. ASSUME NEW a \in Actors, Acquire(a) PROVE Promise!Take(a)
  <2>1. PICK r \in Local :
          /\ Update(a, r) /\ r.phase = "cycle" /\ r.stamp = run[a].read
          /\ row' = [owner |-> a, token |-> r.token, expires |-> r.stamp + Ttl]
          /\ now' = now
    BY <1>2, GivenFacts DEF Acquire
  <2>2. run[a].phase = "acquire" /\ (row = NoRow \/ row.expires <= run[a].read)
    BY <1>2 DEF Acquire
  <2>3. /\ run[a].read \in Nat /\ now \in Nat
        /\ run[a].read <= now /\ now <= run[a].read + Patience
    BY <2>2, Own, IntervalFacts DEF Local, Waits
  <2>4. a \notin active
    BY <2>2 DEF active, Active
  <2>5. ~live
    <3>1. row.expires \in Int
      BY NoRowFacts, IntervalFacts DEF TypeOK
    <3> QED
      BY <2>2, <2>3, <3>1, NoRowFacts DEF live
  <2>6. row'.owner = a /\ live'
    BY <2>1, <2>3, IntervalFacts DEF live
  <2>7. active' = active \cup {a}
    BY <2>1, ActiveAfter
  <2> QED
    BY <2>4, <2>5, <2>6, <2>7 DEF Promise!Take, live, active
<1>3. ASSUME NEW a \in Actors, Refused(a) PROVE Stutter
  <2>1. a \notin active /\ Idle.phase = "idle"
    BY <1>3 DEF Refused, active, Active, Idle
  <2> QED
    BY <1>3, <2>1, IdleLocal, ActiveAfter DEF Refused, live
<1>4. ASSUME NEW a \in Actors, RenewRead(a) PROVE Stutter
  <2>1. a \in active
    BY <1>4 DEF RenewRead, active, Active
  <2>2. PICK r \in Local : Update(a, r) /\ r.phase \in {"renew", "background"}
    BY <1>4, RenewReadFacts
  <2> QED
    BY <1>4, <2>1, <2>2, ActiveAfter DEF RenewRead, live
<1>5. ASSUME NEW a \in Actors, Renew(a) PROVE Promise!Keep(a)
  <2>1. /\ Renewing(a) /\ Active(a) /\ Mine(a) /\ run[a].phase \in Waits
        /\ Update(a, Renewed(run[a])) /\ now' = now
        /\ row' = [row EXCEPT !.expires = run[a].read + Ttl]
    BY <1>5 DEF Renew, Renewing, Active, Waits
  <2>2. row.owner = a
    BY <2>1, Own
  <2>3. row'.owner = a /\ row'.expires = run[a].read + Ttl
    BY <2>1, <2>2 DEF TypeOK, Mine
  <2>4. live'
    BY <2>1, <2>3, Own, IntervalFacts DEF live, Local
  <2>5. active' = active /\ a \in active
    BY <2>1, RenewedFacts, ActiveAfter DEF active
  <2> QED
    BY <2>2, <2>3, <2>4, <2>5 DEF Promise!Keep, live, active
<1>6. ASSUME NEW a \in Actors, RenewFails(a) PROVE Stutter
  <2>1. a \in active
    BY <1>6 DEF RenewFails, Renewing, active, Active
  <2>2. PICK r \in Local : Update(a, r) /\ r.phase = "cycle"
    BY <1>6, RenewFailsFacts
  <2> QED
    BY <1>6, <2>1, <2>2, ActiveAfter DEF RenewFails, live
<1>7. ASSUME NEW a \in Actors, Active(a), Update(a, Idle), now' = now, row' = row
      PROVE  Promise!Vanish(a)
  <2>1. a \in active /\ active' = active \ {a}
    BY <1>7, IdleLocal, ActiveAfter DEF active, Idle
  <2> QED
    BY <1>7, <2>1 DEF Promise!Vanish, live, active
<1>8. ASSUME NEW a \in Actors, Finish(a) PROVE Promise!Leave(a) \/ Promise!Vanish(a)
  <2>1. Active(a) /\ Update(a, Idle) /\ now' = now
    BY <1>8 DEF Finish, Active
  <2>2. CASE row' = row
    BY <2>1, <2>2, <1>7
  <2>3. CASE Mine(a) /\ row' = NoRow
    <3>1. row.owner = a /\ row'.owner = Nobody /\ ~live'
      BY <2>1, <2>3, Own DEF NoRow, live
    <3>2. a \in active /\ active' = active \ {a}
      BY <2>1, IdleLocal, ActiveAfter DEF active, Idle
    <3> QED
      BY <3>1, <3>2 DEF Promise!Leave, live, active
  <2> QED
    BY <1>8, <2>2, <2>3 DEF Finish
<1>9. CASE Tick
  <2>1. row' = row /\ now' = now + 1 /\ active' = active
    BY <1>9 DEF Tick, active, Active
  <2>2. row.expires \in Int /\ now \in Int
    BY NoRowFacts, IntervalFacts DEF TypeOK
  <2>3. live' => live
    BY <2>1, <2>2 DEF live
  <2> QED
    BY <1>9, <2>1, <2>3 DEF Promise!Lapse, live, active
<1>10. CASE UNCHANGED vars
  BY <1>10 DEF vars, live, active, Active
<1>11. ASSUME NEW a \in Actors, Crash(a) PROVE Promise!Vanish(a)
  BY <1>7, <1>11 DEF Crash
<1> QED
  BY <1>1, <1>2, <1>3, <1>4, <1>5, <1>6, <1>8, <1>9, <1>10, <1>11
     DEF Next, Promise!ProcessStep

\* The clock, the tokens and the row keep the promise the desk relies on.
THEOREM LeaseKeepsPromise == Spec => KeepsPromise
<1>1. Init => Promise!Init
  BY PromiseInit
<1>2. TypeOK /\ TypeOK' /\ LeaseInv /\ [Next]_vars => [Promise!Next]_<<row.owner, live, active>>
  BY PromiseStep DEF Promise!Next
<1>3. Spec => [][Promise!Next]_<<row.owner, live, active>>
  BY <1>2, LeaseTypeCorrect, LeaseInductive, PTL DEF Spec
<1>4. Spec => Promise!Init
  BY <1>1 DEF Spec
<1> QED
  BY <1>3, <1>4, PTL DEF KeepsPromise, Promise!Spec, live, active

-----------------------------------------------------------------------------
(* What a desk whose cycles are punctual may rely on.                        *)

\* Whoever is in a cycle then has the row, and the row has not lapsed.
LEMMA PunctualHolds ==
    ASSUME TypeOK, LeaseInv, Punctual, NEW a \in Actors, Active(a)
    PROVE  row.owner = a /\ live
<1>1. CASE run[a].renewer = "on"
  BY <1>1, RenewedProcess, Own DEF live
<1>2. CASE run[a].renewer # "on"
  <2>1. Prompt(a) /\ now < run[a].stamp + Ttl
    BY <1>2 DEF Punctual, Prompt
  <2>2. Mine(a) /\ row.expires = run[a].stamp + Ttl
    BY <2>1, Own
  <2>3. run[a].stamp \in Nat /\ now \in Nat
    BY Own, IntervalFacts DEF Local
  <2> QED
    BY <2>1, <2>2, <2>3, Own, IntervalFacts DEF live
<1> QED
  BY <1>1, <1>2

LEMMA ExclusiveNow == TypeOK /\ LeaseInv /\ Punctual => Promise!Exclusive
BY PunctualHolds DEF Promise!Exclusive, live

LEMMA ExclusiveAfter == TypeOK' /\ LeaseInv' /\ Punctual' => Promise!Exclusive'
BY ExclusiveNow, PTL

\* If every cycle without a running background task ends, or renews, within the time to
\* live, no process ever loses its lease in a cycle: this is the premise under which the
\* cycles' theorems are proved (store.py 154-245, worker.py 37-44, service.py 140-163).
THEOREM PunctualKeepsPromise == Spec /\ []Punctual => Promise!PunctualSpec
<1>1. Init => Promise!Init
  BY PromiseInit
<1>2. TypeOK /\ TypeOK' /\ LeaseInv /\ LeaseInv' /\ Punctual' /\ [Next]_vars =>
        [Promise!PunctualNext]_<<row.owner, live, active>>
  <2> SUFFICES ASSUME TypeOK, TypeOK', LeaseInv, LeaseInv', Punctual', [Next]_vars
               PROVE  [Promise!PunctualNext]_<<row.owner, live, active>>
    OBVIOUS
  <2>1. CASE [Promise!ProcessStep]_<<row.owner, live, active>>
    BY <2>1 DEF Promise!PunctualNext
  <2>2. CASE Tick /\ Promise!Lapse
    <3>1. live' = FALSE /\ row' = row /\ active' = active
      BY <2>2 DEF Promise!Lapse, Tick, live, active
    <3>2. \A a \in active' : row'.owner = a /\ live'
      BY ExclusiveAfter DEF Promise!Exclusive, live, active
    <3>3. row.owner \notin active
      BY <3>1, <3>2
    <3> QED
      BY <2>2, <3>3 DEF Promise!PunctualNext, live, active
  <2> QED
    BY <2>1, <2>2, PromiseStep
<1>3. Spec /\ []Punctual => [][Promise!PunctualNext]_<<row.owner, live, active>>
  BY <1>2, LeaseTypeCorrect, LeaseInductive, PTL DEF Spec
<1>4. Spec => Promise!Init
  BY <1>1 DEF Spec
<1> QED
  BY <1>3, <1>4, PTL DEF Promise!PunctualSpec, live, active

\* Then the processes of a desk exclude each other for the whole of their cycles
\* (store.py 154-196, worker.py 37-44, service.py 130-151).
THEOREM PunctualExclusive == Spec /\ []Punctual => []Promise!Exclusive
BY ExclusiveNow, LeaseTypeCorrect, LeaseInductive, PTL
=============================================================================
