---------------------------- MODULE LedgerProofs ----------------------------
(***************************************************************************)
(* Theorems of Ledger for any number of processes, any limit of verify and *)
(* any bounds.  The invariant of the chain holds until the clock is set    *)
(* back; types are correct, and verify is sound, in every state.           *)
(***************************************************************************)
EXTENDS Ledger, FiniteSetTheorems, WellFoundedInduction, TLAPS

LEMMA Bounds ==
    Limit \in Nat /\ Limit > 0 /\ MaxTime \in Nat /\ MaxRows \in Nat
BY LedgerBoundsAssumption

\* The type of a row and the domain of the table.
LEMMA RowsFacts ==
    ASSUME TypeOK
    PROVE  /\ Len(rows) \in Nat /\ Len(rows) <= MaxRows /\ DOMAIN rows = 1 .. Len(rows)
           /\ \A i \in 1 .. Len(rows) : rows[i].prev \in 0 .. MaxRows /\ rows[i].at \in 0 .. MaxTime
           /\ now \in 0 .. MaxTime
<1> DEFINE R == [prev : 0 .. MaxRows, at : 0 .. MaxTime]
<1>1. rows \in Seq(R) /\ Len(rows) <= MaxRows /\ now \in 0 .. MaxTime
  BY DEF TypeOK
<1>2. \A r \in R : r.prev \in 0 .. MaxRows /\ r.at \in 0 .. MaxTime
  OBVIOUS
<1> HIDE DEF R
<1>3. Len(rows) \in Nat /\ DOMAIN rows = 1 .. Len(rows) /\ \A i \in 1 .. Len(rows) : rows[i] \in R
  BY <1>1
<1> QED
  BY <1>1, <1>2, <1>3

\* In an intact chain the newest of the first n rows is the n-th.
LEMMA NewestPrefix ==
    ASSUME TypeOK, ChainIntact, NEW n \in 0 .. Len(rows)
    PROVE  Newest(1 .. n) = n
<1>1. CASE n = 0
  BY <1>1 DEF Newest, Genesis
<1>2. CASE n > 0
  <2>1. n \in 1 .. n /\ 1 .. n # {} /\ 1 .. n \subseteq DOMAIN rows
    <3>1. n \in Nat /\ Len(rows) \in Nat /\ DOMAIN rows = 1 .. Len(rows) /\ n <= Len(rows)
      BY RowsFacts
    <3>2. n \in 1 .. n
      BY <1>2, <3>1
    <3>3. \A i \in 1 .. n : i \in 1 .. Len(rows)
      BY <3>1
    <3> QED
      BY <3>1, <3>2, <3>3
  <2>2. \A j \in (1 .. n) \ {n} : Before(j, n)
    <3>1. \A j \in DOMAIN rows : j < n => Before(j, n)
      BY <2>1 DEF ChainIntact
    <3>2. \A j \in (1 .. n) \ {n} : j \in DOMAIN rows /\ j < n
      BY <2>1, RowsFacts
    <3> QED
      BY <3>1, <3>2
  <2>3. ASSUME NEW i \in 1 .. n, \A j \in (1 .. n) \ {i} : Before(j, i)
        PROVE  i = n
    <3> SUFFICES ASSUME i # n PROVE FALSE
      OBVIOUS
    <3>1. Before(i, n) /\ Before(n, i)
      BY <2>1, <2>2, <2>3
    <3>2. rows[i].at \in Int /\ rows[n].at \in Int
      BY <2>1, RowsFacts
    <3> QED
      BY <3>1, <3>2 DEF Before
  <2> DEFINE newest(i) == \A j \in (1 .. n) \ {i} : Before(j, i)
  <2>4. Newest(1 .. n) = CHOOSE i \in 1 .. n : newest(i)
    BY <2>1 DEF Newest
  <2>5. \E i \in 1 .. n : newest(i)
    BY <2>1, <2>2
  <2>6. \A i \in 1 .. n : newest(i) => i = n
    BY <2>3
  <2> HIDE DEF newest
  <2> QED
    BY <2>4, <2>5, <2>6
<1> QED
  BY <1>1, <1>2

LEMMA LatestIsLast == ASSUME TypeOK, ChainIntact PROVE Latest = Len(rows)
<1>1. Len(rows) \in 0 .. Len(rows) /\ DOMAIN rows = 1 .. Len(rows)
  BY RowsFacts
<1> QED
  BY <1>1, NewestPrefix DEF Latest

\* Later rows of an intact chain are not older.
LEMMA ChainOrder ==
    ASSUME TypeOK, ChainIntact, NEW i \in 1 .. Len(rows)
    PROVE  /\ rows[i].prev = i - 1
           /\ \A j \in 1 .. i : rows[j].at <= rows[i].at
<1>1. i \in DOMAIN rows /\ i \in Int
  BY RowsFacts
<1>2. ASSUME NEW j \in 1 .. i PROVE rows[j].at <= rows[i].at
  <2>1. j \in DOMAIN rows /\ j \in 1 .. Len(rows) /\ j \in Int /\ j <= i
    BY RowsFacts
  <2>2. rows[j].at \in Int /\ rows[i].at \in Int
    BY <2>1, RowsFacts, Bounds
  <2>3. CASE j = i
    BY <2>2, <2>3
  <2>4. CASE j < i
    BY <1>1, <2>1, <2>2, <2>4 DEF ChainIntact, Before
  <2> QED
    BY <1>1, <2>1, <2>3, <2>4
<1> QED
  BY <1>1, <1>2 DEF ChainIntact

-----------------------------------------------------------------------------
(* One step of a process that leaves the table alone.                        *)

LEMMA IdleLocal == Idle \in Local /\ Idle.phase = "idle"
BY Bounds DEF Idle, Local, Genesis

\* The invariant after a process replaced its record and nothing else changed.
LEMMA RecordStep ==
    ASSUME TypeOK, Orderly, NEW w \in Writers, NEW r \in Local, Update(w, r),
           now' = now, setBack' = setBack, rows' = rows,
           r.phase \in {"link", "append"} => r.prev \in 0 .. Len(rows),
           r.phase = "append" =>
               r.at <= now /\ (r.prev # Genesis => rows[r.prev].at <= r.at)
    PROVE  TypeOK' /\ Orderly'
<1>1. /\ writer' \in [Writers -> Local] /\ writer'[w] = r
      /\ \A v \in Writers : v # w => writer'[v] = writer[v]
  BY DEF TypeOK, Update
<1>2. TypeOK'
  BY <1>1 DEF TypeOK
<1>3. ChainIntact' /\ \A i \in DOMAIN rows' : rows'[i].at <= now'
  BY DEF Orderly, ChainIntact, Before
<1>4. \A v \in Writers : NotBefore(v)'
  BY <1>1 DEF Orderly, NotBefore
<1> QED
  BY <1>2, <1>3, <1>4 DEF Orderly

\* A row that links to the last one and is no earlier extends the chain.
LEMMA AppendStep ==
    ASSUME TypeOK, Orderly, NEW w \in Writers, AppendRecord(w)
    PROVE  TypeOK' /\ Orderly'
<1> DEFINE r == writer[w]
           n == Len(rows)
           row == [prev |-> r.prev, at |-> r.at]
<1>1. /\ r \in Local /\ r.phase = "append" /\ n < MaxRows /\ now' = now
      /\ setBack' = setBack
      /\ rows' = Append(rows, row) /\ Update(w, Idle)
  BY DEF AppendRecord, TypeOK, At
<1>2. r.prev = n
  BY LatestIsLast DEF AppendRecord, Orderly
<1>3. r.at <= now /\ (n # 0 => rows[n].at <= r.at)
  BY <1>1, <1>2 DEF Orderly, NotBefore, Genesis
<1>4. row \in [prev : 0 .. MaxRows, at : 0 .. MaxTime] /\ row.prev = n /\ row.at = r.at
  BY <1>1, <1>2 DEF Local
<1> HIDE DEF row
<1>5. /\ rows' \in Seq([prev : 0 .. MaxRows, at : 0 .. MaxTime])
      /\ n \in Nat /\ Len(rows') = n + 1 /\ DOMAIN rows' = 1 .. n + 1
      /\ rows'[n + 1] = row /\ \A i \in 1 .. n : rows'[i] = rows[i]
  BY <1>1, <1>4 DEF TypeOK
<1>6. /\ writer' \in [Writers -> Local] /\ writer'[w] = Idle
      /\ \A v \in Writers : v # w => writer'[v] = writer[v]
  BY <1>1, IdleLocal DEF TypeOK, Update
<1>7. TypeOK'
  <2>1. Len(rows') <= MaxRows
    BY <1>1, <1>5, Bounds
  <2> QED
    BY <1>1, <1>5, <1>6, <2>1 DEF TypeOK
<1>8. ChainIntact'
  <2>1. /\ r.at \in Int
        /\ \A i \in 1 .. n : rows[i].at \in Int
        /\ \A i \in 1 .. n : rows[i].prev = i - 1
        /\ \A i \in 1 .. n : \A j \in 1 .. i : rows[j].at <= rows[i].at
    BY <1>1, RowsFacts, ChainOrder, Bounds DEF Local, Orderly
  <2>2. \A j \in 1 .. n : rows[j].at <= r.at
    <3> SUFFICES ASSUME NEW j \in 1 .. n PROVE rows[j].at <= r.at
      OBVIOUS
    <3>1. n # 0 /\ n \in 1 .. n /\ j \in 1 .. n
      BY <1>5
    <3>2. rows[j].at <= rows[n].at /\ rows[n].at <= r.at
      BY <1>3, <2>1, <3>1
    <3> QED
      BY <2>1, <3>1, <3>2
  <2> HIDE DEF n, r
  <2>3. \A i \in 1 .. n + 1 : i \in 1 .. n \/ i = n + 1
    BY <1>5
  <2>4. \A i \in 1 .. n : /\ rows'[i].prev = i - 1
                         /\ rows'[i].at = rows[i].at
    BY <1>5, <2>1
  <2>5. rows'[n + 1].prev = n /\ rows'[n + 1].at = r.at
    BY <1>4, <1>5
  <2>6. ASSUME NEW i \in 1 .. n + 1, NEW j \in 1 .. n + 1, j < i
        PROVE  rows'[j].at < rows'[i].at \/ rows'[j].at = rows'[i].at
    <3>1. j \in 1 .. n /\ j \in 1 .. i
      BY <1>5, <2>6
    <3>2. CASE i \in 1 .. n
      BY <2>1, <2>4, <3>1, <3>2
    <3>3. CASE i = n + 1
      BY <2>1, <2>2, <2>4, <2>5, <3>1, <3>3
    <3> QED
      BY <2>3, <3>2, <3>3
  <2>7. ASSUME NEW i \in 1 .. n + 1 PROVE rows'[i].prev = i - 1
    <3>1. CASE i \in 1 .. n
      BY <2>4, <3>1
    <3>2. CASE i = n + 1
      BY <1>5, <2>5, <3>2
    <3> QED
      BY <2>3, <3>1, <3>2
  <2> QED
    BY <1>5, <2>6, <2>7 DEF ChainIntact, Before
<1>9. \A i \in DOMAIN rows' : rows'[i].at <= now'
  <2>1. \A i \in 1 .. n : rows'[i].at <= now'
    BY <1>1, <1>5, RowsFacts DEF Orderly
  <2> QED
    BY <1>1, <1>3, <1>4, <1>5, <2>1
<1>10. ASSUME NEW v \in Writers PROVE NotBefore(v)'
  <2>1. CASE v = w
    BY <1>6, <2>1, IdleLocal DEF NotBefore
  <2>2. CASE v # w
    <3>1. writer'[v] = writer[v] /\ NotBefore(v) /\ writer[v] \in Local
      BY <1>6, <2>2 DEF Orderly, TypeOK
    <3>5. \A m \in 0 .. n : m \in 0 .. n + 1
      BY <1>5
    <3>2. writer[v].phase \in {"link", "append"} => writer[v].prev \in 0 .. n
      BY <3>1 DEF NotBefore
    <3>3. ASSUME writer[v].phase = "append", writer[v].prev # Genesis
          PROVE  rows'[writer[v].prev].at <= writer[v].at
      <4>1. writer[v].prev \in 1 .. n
        BY <1>5, <3>2, <3>3 DEF Genesis
      <4> QED
        BY <1>5, <3>1, <3>3, <4>1 DEF NotBefore
    <3> QED
      BY <1>1, <1>5, <3>1, <3>2, <3>3, <3>5 DEF NotBefore
  <2> QED
    BY <2>1, <2>2
<1> QED
  BY <1>7, <1>8, <1>9, <1>10 DEF Orderly

-----------------------------------------------------------------------------
LEMMA LedgerStart == Init => TypeOK /\ Orderly
<1> SUFFICES ASSUME Init PROVE TypeOK /\ Orderly
  OBVIOUS
<1>1. TypeOK
  <2>1. setBack \in BOOLEAN
    BY Zenon DEF Init
  <2>2. now = 0 /\ rows = << >> /\ writer = [w \in Writers |-> Idle]
    BY DEF Init
  <2> QED
    BY <2>1, <2>2, Bounds, IdleLocal DEF TypeOK
<1>2. DOMAIN rows = {} /\ \A w \in Writers : writer[w].phase = "idle"
  BY IdleLocal DEF Init
<1> QED
  BY <1>1, <1>2 DEF Orderly, ChainIntact, NotBefore

LEMMA LedgerNext ==
    ASSUME TypeOK, Orderly, [Next]_vars, ~StepBack
    PROVE  TypeOK' /\ Orderly'
<1>1. ASSUME NEW w \in Writers, Begin(w) PROVE TypeOK' /\ Orderly'
  <2> DEFINE r == [Idle EXCEPT !.phase = "run"]
  <2>1. r \in Local /\ r.phase = "run"
    BY IdleLocal DEF Local
  <2>2. Update(w, r) /\ now' = now /\ setBack' = setBack /\ rows' = rows
    BY <1>1 DEF Begin
  <2> HIDE DEF r
  <2> QED
    BY <2>1, <2>2, RecordStep
<1>2. ASSUME NEW w \in Writers, ReadLatest(w) PROVE TypeOK' /\ Orderly'
  <2> DEFINE n == Len(rows)
             r == [writer[w] EXCEPT !.phase = "link", !.prev = n]
  <2>1. Update(w, r) /\ now' = now /\ setBack' = setBack /\ rows' = rows
    BY <1>2, LatestIsLast DEF ReadLatest, Orderly
  <2>2. n \in 0 .. MaxRows /\ n \in 0 .. n
    BY RowsFacts, Bounds
  <2>3. writer[w] \in Local
    BY DEF TypeOK
  <2> HIDE DEF n
  <2>4. r \in Local /\ r.phase = "link" /\ r.prev = n
    BY <2>2, <2>3 DEF Local
  <2> HIDE DEF r
  <2>5. r.prev \in 0 .. Len(rows)
    BY <2>2, <2>4 DEF n
  <2> QED
    BY <2>1, <2>4, <2>5, RecordStep
<1>3. ASSUME NEW w \in Writers, Stamp(w) PROVE TypeOK' /\ Orderly'
  <2> DEFINE r == [writer[w] EXCEPT !.phase = "append", !.at = now]
  <2>1. Update(w, r) /\ now' = now /\ setBack' = setBack /\ rows' = rows /\ writer[w].phase = "link"
    BY <1>3 DEF Stamp, At
  <2>2. writer[w] \in Local /\ now \in 0 .. MaxTime /\ writer[w].prev \in 0 .. Len(rows)
    BY <2>1 DEF TypeOK, Orderly, NotBefore
  <2>3. r \in Local /\ r.phase = "append" /\ r.at = now /\ r.prev = writer[w].prev
    BY <2>2 DEF Local
  <2> HIDE DEF r
  <2>4. r.at <= now
    BY <2>2, <2>3, Bounds
  <2>5. r.prev # Genesis => rows[r.prev].at <= r.at
    BY <2>2, <2>3, RowsFacts DEF Orderly, Genesis
  <2> QED
    BY <2>1, <2>2, <2>3, <2>4, <2>5, RecordStep
<1>4. ASSUME NEW w \in Writers, AppendRecord(w) PROVE TypeOK' /\ Orderly'
  BY <1>4, AppendStep
<1>5. ASSUME NEW w \in Writers, AppendRefused(w) \/ GiveUp(w) PROVE TypeOK' /\ Orderly'
  BY <1>5, IdleLocal, RecordStep DEF AppendRefused, GiveUp
<1>6. CASE Tick
  <2>1. now' = now + 1 /\ now < MaxTime /\ UNCHANGED <<setBack, rows, writer>>
    BY <1>6 DEF Tick
  <2>2. TypeOK'
    BY <2>1, Bounds DEF TypeOK
  <2>3. ChainIntact'
    BY <2>1 DEF Orderly, ChainIntact, Before
  <2>4. \A i \in DOMAIN rows' : rows'[i].at <= now'
    BY <2>1, RowsFacts DEF Orderly
  <2>5. \A w \in Writers : NotBefore(w)'
    BY <2>1, RowsFacts DEF Orderly, NotBefore, TypeOK, Local
  <2> QED
    BY <2>2, <2>3, <2>4, <2>5 DEF Orderly
<1>7. CASE UNCHANGED vars
  BY <1>7 DEF vars, TypeOK, Orderly, ChainIntact, Before, NotBefore
<1> QED
  BY <1>1, <1>2, <1>3, <1>4, <1>5, <1>6, <1>7 DEF Next

\* Until the clock is set back, every reachable ledger is one chain in listing order,
\* and every record being built fits behind its link.
Inv == ~setBack => TypeOK /\ Orderly

LEMMA InvInductive == Spec => []Inv
<1>1. Init => Inv
  BY LedgerStart DEF Inv
<1>2. Inv /\ [Next]_vars => Inv'
  <2> SUFFICES ASSUME Inv, [Next]_vars, ~setBack' PROVE TypeOK' /\ Orderly'
    BY DEF Inv
  <2>1. ~StepBack
    BY Zenon DEF StepBack
  <2>2. setBack' = setBack
    BY <2>1, Zenon DEF Next, Tick, Begin, ReadLatest, Stamp, AppendRecord, AppendRefused,
                       GiveUp, vars
  <2> QED
    BY <2>1, <2>2, LedgerNext, Zenon DEF Inv
<1> QED
  BY <1>1, <1>2, PTL DEF Spec

THEOREM LedgerInductive == Spec => []LedgerInv
<1>1. Inv => LedgerInv
  BY DEF Inv, LedgerInv
<1> QED
  BY <1>1, InvInductive, PTL

-----------------------------------------------------------------------------
(* What verify answers.                                                      *)

\* A ledger that fits is listed whole.
LEMMA ListedWhole ==
    ASSUME TypeOK, Len(rows) <= Limit
    PROVE  Listed = DOMAIN rows
<1> SUFFICES ASSUME NEW i \in DOMAIN rows
             PROVE  Cardinality({j \in DOMAIN rows : Before(i, j)}) < Limit
  BY DEF Listed
<1> DEFINE n == Len(rows)
           newer == {j \in DOMAIN rows : Before(i, j)}
           others == (1 .. n) \ {i}
<1>1. n \in Nat /\ DOMAIN rows = 1 .. n /\ i \in 1 .. n
  BY RowsFacts
<1>2. newer \subseteq others
  <2>1. ~Before(i, i)
    <3>1. rows[i].at \in Int /\ i \in Int
      BY <1>1, RowsFacts
    <3> QED
      BY <3>1 DEF Before
  <2> QED
    BY <1>1, <2>1
<1> HIDE DEF n
<1>3. IsFiniteSet(1 .. n) /\ Cardinality(1 .. n) = n
  BY <1>1, FS_Interval
<1>4. IsFiniteSet(others) /\ Cardinality(others) = n - 1
  BY <1>1, <1>3, FS_RemoveElement
<1>5. Cardinality(newer) <= Cardinality(others) /\ Cardinality(newer) \in Nat
  BY <1>2, <1>4, FS_Subset, FS_CardinalityType
<1> QED
  BY <1>1, <1>4, <1>5, Bounds DEF n

LEMMA IntactVerified ==
    ASSUME TypeOK, ChainIntact, Len(rows) <= Limit
    PROVE  Verified
<1> SUFFICES ASSUME NEW i \in 1 .. Len(rows)
             PROVE  rows[i].prev = Newest({j \in DOMAIN rows : Before(j, i)})
  BY ListedWhole, RowsFacts DEF Verified
<1>1. /\ Len(rows) \in Nat /\ DOMAIN rows = 1 .. Len(rows) /\ i - 1 \in 0 .. Len(rows)
      /\ rows[i].prev = i - 1
  BY RowsFacts, ChainOrder
<1>2. ASSUME NEW j \in 1 .. Len(rows)
      PROVE  Before(j, i) <=> j \in 1 .. i - 1
  <2>1. rows[j].at \in Int /\ rows[i].at \in Int
    BY RowsFacts
  <2>2. CASE j < i
    BY <1>1, <2>2 DEF ChainIntact
  <2>3. CASE j = i
    BY <2>1, <2>3 DEF Before
  <2>4. CASE i < j
    <3>1. Before(i, j)
      BY <1>1, <2>4 DEF ChainIntact
    <3> QED
      BY <2>1, <2>4, <3>1 DEF Before
  <2> QED
    BY <1>1, <2>2, <2>3, <2>4
<1>3. {j \in DOMAIN rows : Before(j, i)} = 1 .. i - 1
  BY <1>1, <1>2
<1> QED
  BY <1>1, <1>3, NewestPrefix

\* No race of writers ever blocks execution while verify reads the whole ledger.
THEOREM FittingVerifiedHolds == Spec => []FittingVerified
<1>1. Inv => FittingVerified
  BY IntactVerified DEF Inv, Orderly, FittingVerified
<1> QED
  BY <1>1, InvInductive, PTL

-----------------------------------------------------------------------------
(* In every state, also after the clock was set back.                        *)

LEMMA LeastNumber ==
    ASSUME NEW S, S \subseteq Nat, S # {}
    PROVE  \E x \in S : \A y \in S : x <= y
<1> DEFINE R == {pair \in Nat \X Nat : pair[1] < pair[2]}
<1>1. IsWellFoundedOn(R, Nat)
  BY NatLessThanWellFounded DEF OpToRel
<1> HIDE DEF R
<1>2. PICK x \in S : \A y \in S : ~ (<<y, x>> \in R)
  BY <1>1, WFMin
<1>3. \A y \in S : <<y, x>> \in R <=> y < x
  BY DEF R
<1>4. \A y \in S : y \in Int
  OBVIOUS
<1>5. \A y \in S : ~ (y < x)
  BY <1>2, <1>3, Zenon
<1>6. \A y \in S : x <= y
  BY <1>4, <1>5
<1> QED
  BY <1>6

\* Any rows have a newest one: the last of those with the latest time.
LEMMA NewestExists ==
    ASSUME TypeOK, NEW S, S \subseteq DOMAIN rows, S # {}
    PROVE  Newest(S) \in S /\ \A j \in S \ {Newest(S)} : Before(j, Newest(S))
<1>1. \A i \in S : i \in Nat /\ i <= MaxRows /\ rows[i].at \in 0 .. MaxTime
  BY RowsFacts, Bounds
<1> DEFINE age(i) == MaxTime - rows[i].at
           youngest(i) == \A j \in S : rows[j].at <= rows[i].at
           newest(i) == \A j \in S \ {i} : Before(j, i)
<1>2. \E i \in S : youngest(i)
  <2>1. {age(i) : i \in S} \subseteq Nat
    BY <1>1, Bounds
  <2>2. PICK x \in {age(i) : i \in S} : \A y \in {age(i) : i \in S} : x <= y
    BY <2>1, LeastNumber
  <2>3. PICK i \in S : x = age(i)
    BY <2>2
  <2>4. \A j \in S : age(i) <= age(j)
    BY <2>2, <2>3
  <2>5. youngest(i)
    BY <1>1, <2>4, Bounds
  <2> QED
    BY <2>5
<1> DEFINE Y == {i \in S : youngest(i)}
<1>3. PICK i \in Y : \A j \in Y : j <= i
  <2>1. {MaxRows - i : i \in Y} \subseteq Nat
    BY <1>1, Bounds
  <2>2. PICK x \in {MaxRows - i : i \in Y} : \A y \in {MaxRows - i : i \in Y} : x <= y
    BY <1>2, <2>1, LeastNumber
  <2>3. PICK i \in Y : x = MaxRows - i
    BY <2>2
  <2>4. \A j \in Y : MaxRows - i <= MaxRows - j
    BY <2>2, <2>3
  <2>5. \A j \in Y : j <= i
    BY <1>1, <2>4, Bounds
  <2> QED
    BY <2>5
<1>4. newest(i)
  <2> SUFFICES ASSUME NEW j \in S, j # i PROVE Before(j, i)
    OBVIOUS
  <2>1. rows[j].at <= rows[i].at /\ rows[j].at \in Int /\ rows[i].at \in Int /\ i \in Int /\ j \in Int
    BY <1>1, <1>3, Bounds
  <2>2. CASE rows[j].at < rows[i].at
    BY <2>2 DEF Before
  <2>3. CASE rows[j].at = rows[i].at
    <3>1. j \in Y
      BY <2>3, <1>3
    <3>2. j < i
      BY <1>3, <2>1, <3>1
    <3> QED
      BY <2>3, <3>2 DEF Before
  <2> QED
    BY <2>1, <2>2, <2>3
<1>5. Newest(S) = CHOOSE k \in S : newest(k)
  BY DEF Newest
<1> HIDE DEF newest
<1>6. Newest(S) \in S /\ newest(Newest(S))
  BY <1>3, <1>4, <1>5
<1> QED
  BY <1>6 DEF newest

LEMMA LedgerTypeStep == TypeOK /\ [Next]_vars => TypeOK'
<1> SUFFICES ASSUME TypeOK, [Next]_vars PROVE TypeOK'
  OBVIOUS
<1>1. ASSUME NEW w \in Writers, NEW r \in Local, Update(w, r), UNCHANGED <<now, setBack, rows>>
      PROVE  TypeOK'
  BY <1>1 DEF TypeOK, Update
<1>2. ASSUME NEW w \in Writers, Begin(w) \/ AppendRefused(w) \/ GiveUp(w) PROVE TypeOK'
  <2>1. Idle \in Local /\ [Idle EXCEPT !.phase = "run"] \in Local
    BY IdleLocal DEF Local
  <2> QED
    BY <1>1, <1>2, <2>1 DEF Begin, AppendRefused, GiveUp
<1>3. ASSUME NEW w \in Writers, ReadLatest(w) PROVE TypeOK'
  <2>1. Latest \in 0 .. MaxRows
    <3>1. CASE DOMAIN rows = {}
      BY <3>1, Bounds DEF Latest, Newest, Genesis
    <3>2. CASE DOMAIN rows # {}
      <4>1. Latest \in 1 .. Len(rows)
        BY <3>2, NewestExists, RowsFacts DEF Latest
      <4> QED
        BY <4>1, RowsFacts, Bounds
    <3> QED
      BY <3>1, <3>2
  <2>2. writer[w] \in Local
    BY DEF TypeOK
  <2>3. [writer[w] EXCEPT !.phase = "link", !.prev = Latest] \in Local
    BY <2>1, <2>2 DEF Local
  <2> QED
    BY <1>1, <1>3, <2>3 DEF ReadLatest
<1>4. ASSUME NEW w \in Writers, Stamp(w) PROVE TypeOK'
  <2>1. [writer[w] EXCEPT !.phase = "append", !.at = now] \in Local
    BY DEF TypeOK, Local
  <2> QED
    BY <1>1, <1>4, <2>1 DEF Stamp
<1>5. ASSUME NEW w \in Writers, AppendRecord(w) PROVE TypeOK'
  <2> DEFINE row == [prev |-> writer[w].prev, at |-> writer[w].at]
             Rows == [prev : 0 .. MaxRows, at : 0 .. MaxTime]
  <2>1. row \in Rows
    BY DEF TypeOK, Local
  <2>2. /\ rows' = Append(rows, row) /\ Len(rows) < MaxRows /\ Update(w, Idle)
        /\ UNCHANGED <<now, setBack>>
    BY <1>5 DEF AppendRecord
  <2> HIDE DEF row
  <2>3. rows \in Seq(Rows) /\ Len(rows) \in Nat
    BY DEF TypeOK
  <2>4. writer' \in [Writers -> Local]
    BY <2>2, IdleLocal DEF TypeOK, Update
  <2> HIDE DEF Rows
  <2>5. rows' \in Seq(Rows) /\ Len(rows') = Len(rows) + 1
    BY <2>1, <2>2, <2>3
  <2> QED
    BY <2>2, <2>3, <2>4, <2>5, Bounds DEF TypeOK, Rows
<1>6. CASE Tick
  BY <1>6, Bounds DEF Tick, TypeOK
<1>7. CASE StepBack
  <2>1. now' \in 0 .. MaxTime /\ setBack' = TRUE /\ UNCHANGED <<rows, writer>>
    BY <1>7, Bounds DEF StepBack, TypeOK
  <2> QED
    BY <2>1 DEF TypeOK
<1>8. CASE UNCHANGED vars
  BY <1>8 DEF vars, TypeOK
<1> QED
  BY <1>2, <1>3, <1>4, <1>5, <1>6, <1>7, <1>8 DEF Next

\* Every variable keeps its type, also when the clock is set back: a process finds a
\* newest row in whatever order the rows are listed.
THEOREM LedgerTypeCorrect == Spec => []TypeOK
<1>1. Init => TypeOK
  BY LedgerStart
<1> QED
  BY <1>1, LedgerTypeStep, PTL DEF Spec

\* No clock hides a fork: two rows that link to one row cannot both be linked to the
\* row listed before them, so verify refuses the ledger if it reads them both.
THEOREM ForkDetectedHolds == Spec => []ForkDetected
<1>1. TypeOK => ForkDetected
  <2> SUFFICES ASSUME TypeOK PROVE ForkDetected
    OBVIOUS
  <2> SUFFICES ASSUME Len(rows) <= Limit, Verified,
                      NEW i \in DOMAIN rows, NEW j \in DOMAIN rows,
                      rows[i].prev = rows[j].prev, Before(i, j)
               PROVE  FALSE
    <3>1. ASSUME NEW i \in DOMAIN rows, NEW j \in DOMAIN rows, i # j
          PROVE  Before(i, j) \/ Before(j, i)
      <4>1. i \in Int /\ j \in Int /\ rows[i].at \in Int /\ rows[j].at \in Int
        BY RowsFacts
      <4> QED
        BY <3>1, <4>1 DEF Before
    <3> QED
      BY <3>1 DEF ForkDetected
  <2> DEFINE older(k) == {m \in DOMAIN rows : Before(m, k)}
  <2>1. \A k \in DOMAIN rows : rows[k].prev = Newest(older(k))
    BY ListedWhole DEF Verified
  <2> DEFINE m == Newest(older(j))
  <2>2. m \in DOMAIN rows /\ (i # m => Before(i, m))
    BY NewestExists
  <2>3. m = Newest(older(i))
    BY <2>1
  <2> HIDE DEF m
  <2>4. older(i) # {}
    <3> SUFFICES ASSUME older(i) = {} PROVE FALSE
      OBVIOUS
    <3>1. m = 0
      BY <2>3 DEF Newest, Genesis
    <3> QED
      BY <2>2, <3>1, RowsFacts
  <2>5. Before(m, i)
    BY <2>3, <2>4, NewestExists
  <2>6. i \in Int /\ m \in Int /\ rows[i].at \in Int /\ rows[m].at \in Int
    BY <2>2, RowsFacts
  <2> QED
    BY <2>2, <2>5, <2>6 DEF Before
<1> QED
  BY <1>1, LedgerTypeCorrect, PTL
=============================================================================
