-------------------------- MODULE AttributionProofs --------------------------
(***************************************************************************)
(* Theorems of Attribution for any strikes, prices and quantities: what a  *)
(* record may claim, and that the value it claims is what the campaign     *)
(* saved.  The spot price that a record was written at is any.             *)
(***************************************************************************)
EXTENDS Attribution, CampaignProofs

-----------------------------------------------------------------------------
(* One record.                                                               *)

\* A receipt that claims something: a simulated one, or of a close that was verified.
LEMMA RealizedFacts ==
    ASSUME NEW v, NEW action, NEW quoted, NEW receipt, Realized(v, action, receipt, quoted) # None
    PROVE  LET debit == CloseDebit(action, receipt, quoted)
           IN  /\ debit \in {receipt.price, quoted}
               /\ receipt.price = None => debit = quoted
               /\ Realized(v, action, receipt, quoted) = (v.credit - debit) * v.qty
               /\ receipt.status = "simulated" \/ (action = "CLOSE" /\ receipt.verified)
BY DEF Realized, CloseDebit

\* The fields of a record that claims something agree with what the campaign collected.
LEMMA BookFacts ==
    ASSUME NEW spot \in Spots, NEW action, NEW quoted \in Nat, NEW receipt,
           receipt.price \in Prices \cup {None},
           TypeOK, held # None,
           NEW b, b = Book(held, spot, action, receipt, quoted), b.realized # None
    PROVE  /\ b.value = b.result - b.unmanaged
           /\ ~b.rolled => ~rolled
           /\ cash = held.credit * held.qty => b.realized = b.result
<1> DEFINE debit == CloseDebit(action, receipt, quoted)
           r == Realized(held, action, receipt, quoted)
<1>1. /\ b.realized = r /\ b.rolled = rolled
      /\ r # None => /\ b.value = r - Baseline(held, spot)
                     /\ b.result = cash - debit * held.qty
      /\ b.unmanaged = cash + Settlement(held, spot)
  BY DEF Book
<1>2. held \in Protected /\ spot \in Nat /\ cash \in Nat
  BY PriceAssumption DEF TypeOK
<1>3. held.credit \in Int /\ held.qty \in Int /\ Settlement(held, spot) \in Int
  BY <1>2, ProtectedFacts, SettlementBound
<1>4. debit \in Int /\ r = (held.credit - debit) * held.qty
  <2>1. r # None
    BY <1>1
  <2>2. /\ debit \in {receipt.price, quoted} /\ (receipt.price = None => debit = quoted)
        /\ r = (held.credit - debit) * held.qty
    BY <2>1, RealizedFacts
  <2>3. debit \in Prices \cup Nat
    BY <2>2
  <2> HIDE DEF debit, r
  <2>4. debit \in Nat
    BY <2>3, PriceAssumption
  <2>5. debit \in Int
    BY <2>4
  <2> QED
    BY <2>2, <2>5
<1> HIDE DEF debit, r
<1>5. /\ (held.credit - debit) * held.qty = held.credit * held.qty - debit * held.qty
      /\ held.credit * held.qty \in Int /\ debit * held.qty \in Int
  BY <1>3, <1>4, SMT
<1>6. Baseline(held, spot) = held.credit * held.qty + Settlement(held, spot)
  BY DEF Baseline, Payoff
<1> DEFINE income == held.credit * held.qty
           cost == debit * held.qty
<1>7. /\ r = income - cost /\ income \in Int /\ cost \in Int /\ b.result = cash - cost
      /\ b.value = r - (income + Settlement(held, spot))
  BY <1>1, <1>4, <1>5, <1>6
<1> HIDE DEF income, cost
<1>8. b.value = b.result - b.unmanaged
  BY <1>1, <1>2, <1>3, <1>7
<1>9. cash = income => b.realized = b.result
  BY <1>1, <1>7
<1> QED
  BY <1>1, <1>8, <1>9 DEF income

-----------------------------------------------------------------------------
(* The cycles.                                                               *)

\* A close is of a vertical.
CloseFits == Working("CLOSE") => held # None

LEMMA CloseFitsStep == CloseFits /\ [Next]_vars => CloseFits'
<1> SUFFICES ASSUME CloseFits, [Next]_vars PROVE CloseFits'
  OBVIOUS
<1>1. CASE Submit
  <2>1. PICK spot \in Spots : \E s \in SnapshotAt(spot) :
          /\ choice.action \in Orders(s)
          /\ order' = [action |-> choice.action, limit |-> Limit(choice.action, s),
                       next |-> IF choice.action = "CLOSE" THEN None ELSE s.next]
    BY <1>1 DEF Submit
  <2>2. order'.action = choice.action /\ (choice.action = "CLOSE" => held # None)
    BY <2>1 DEF Orders
  <2> QED
    BY <1>1, <2>2 DEF Submit, CloseFits, Working
<1>2. CASE FillOpen \/ FillClose \/ FillRoll \/ Die \/ Expire
  BY <1>2 DEF FillOpen, FillClose, FillRoll, Die, Expire, CloseFits, Working
<1>3. CASE Look \/ EndCycle \/ Age \/ UNCHANGED vars
  BY <1>3 DEF Look, EndCycle, Age, vars, CloseFits, Working
<1> QED
  BY <1>1, <1>2, <1>3 DEF Next

Receipts == [status : {"simulated", "sent", "none"}, price : Prices \cup {None},
             verified : BOOLEAN]

LEMMA BookedAs ==
    ASSUME NEW action \in Action, NEW receipt \in Receipts, NEW quoted \in Nat,
           Booked(action, receipt, quoted),
           receipt.status = "simulated" \/ held' = None \/ action # "CLOSE" \/ ~receipt.verified
    PROVE  \E spot \in Spots, price \in Nat, act \in Action, sent \in Receipts :
                /\ record' = Book(held, spot, act, sent, price)
                /\ \/ sent.status = "simulated" \/ held' = None
                   \/ act # "CLOSE" \/ ~sent.verified
<1>1. PICK spot \in Spots : record' = Book(held, spot, action, receipt, quoted)
  BY DEF Booked
<1> WITNESS spot \in Spots, quoted \in Nat, action \in Action, receipt \in Receipts
<1> QED
  BY <1>1

\* A step that leaves a record leaves one of the vertical it found; a receipt that claims
\* something is the replay mode's, or of a close that took the vertical away.
LEMMA BookedSteps ==
    ASSUME Inv, CloseFits, BookNext, record' # None
    PROVE  /\ held # None
           /\ \E spot \in Spots, quoted \in Nat, action \in Action, receipt \in Receipts :
                /\ record' = Book(held, spot, action, receipt, quoted)
                /\ \/ receipt.status = "simulated" \/ held' = None
                   \/ action # "CLOSE" \/ ~receipt.verified
<1>1. Prices \subseteq Nat /\ 0 \in Nat
  BY PriceAssumption
<1>0. {"OPEN", "CLOSE", "ROLL"} \subseteq Action
  BY DEF Action
<1>2. CASE BookClose
  <2>1. PICK debit \in Prices, verified \in BOOLEAN :
          Booked("CLOSE", [status |-> "sent", price |-> debit, verified |-> verified], debit)
    BY <1>2 DEF BookClose
  <2>2. held' = None /\ held # None
    BY <1>2 DEF BookClose, FillClose, CloseFits
  <2>3. [status |-> "sent", price |-> debit, verified |-> verified] \in Receipts
    BY DEF Receipts
  <2> QED
    BY <1>1, <1>0, <2>1, <2>2, <2>3, BookedAs
<1>3. CASE BookRoll
  <2>1. PICK net \in Prices, verified \in BOOLEAN :
          Booked("ROLL", [status |-> "sent", price |-> net, verified |-> verified], 0)
    BY <1>3 DEF BookRoll
  <2>2. held # None
    BY <1>3 DEF BookRoll, FillRoll, Inv, CampaignInv, OrderFits
  <2>3. [status |-> "sent", price |-> net, verified |-> verified] \in Receipts
    BY DEF Receipts
  <2> QED
    BY <1>1, <1>0, <2>1, <2>2, <2>3, BookedAs
<1>4. CASE BookDead
  <2>1. PICK price \in Prices \cup {None} :
          Booked(order.action, [status |-> "sent", price |-> price, verified |-> FALSE], 0)
    BY <1>4 DEF BookDead
  <2>2. /\ [status |-> "sent", price |-> price, verified |-> FALSE] \in Receipts
        /\ ~[status |-> "sent", price |-> price, verified |-> FALSE].verified
    BY DEF Receipts
  <2>3. held # None
    BY <1>4 DEF BookDead
  <2>4. order.action \in Action
    BY <1>4, <1>0 DEF BookDead, Die, Inv, TypeOK
  <2> QED
    BY <1>1, <2>1, <2>2, <2>3, <2>4, BookedAs
<1>5. CASE BookSimulated
  <2>1. PICK quoted \in Prices :
          Booked(choice.action, [status |-> "simulated", price |-> None, verified |-> FALSE], quoted)
    BY <1>5 DEF BookSimulated
  <2>2. /\ [status |-> "simulated", price |-> None, verified |-> FALSE] \in Receipts
        /\ [status |-> "simulated", price |-> None, verified |-> FALSE].status = "simulated"
    BY DEF Receipts
  <2>3. held # None
    BY <1>5 DEF BookSimulated
  <2>4. choice.action \in Action
    BY <1>5 DEF BookSimulated, EndCycle, Inv, TypeOK
  <2> QED
    BY <1>1, <2>1, <2>2, <2>3, <2>4, BookedAs
<1>6. CASE BookNothing
  <2>1. Booked(choice.action, [status |-> "none", price |-> None, verified |-> FALSE], 0)
    BY <1>6 DEF BookNothing
  <2>2. /\ [status |-> "none", price |-> None, verified |-> FALSE] \in Receipts
        /\ ~[status |-> "none", price |-> None, verified |-> FALSE].verified
    BY DEF Receipts
  <2>3. held # None
    BY <1>6 DEF BookNothing
  <2>4. choice.action \in Action
    BY <1>6 DEF BookNothing, EndCycle, Inv, TypeOK
  <2> QED
    BY <1>1, <2>1, <2>2, <2>3, <2>4, BookedAs
<1>7. CASE Unbooked \/ Publish
  BY <1>7 DEF Unbooked, Publish, BookNext, BookClose, BookRoll, BookDead, BookSimulated, BookNothing
<1> QED
  BY <1>2, <1>3, <1>4, <1>5, <1>6, <1>7 DEF BookNext

\* Every cycle with a record is a cycle of the campaign.
LEMMA BookSteps == BookNext => Next \/ UNCHANGED vars
BY DEF BookNext, BookClose, BookRoll, BookDead, BookSimulated, BookNothing, Unbooked,
       Publish, Next

-----------------------------------------------------------------------------
(* The invariant.                                                            *)

\* What a campaign that was not rolled collected is what the broker's entry prices say.
EntryCollected == held # None /\ ~rolled => cash = held.credit * held.qty
BookInv ==
    /\ Inv /\ CloseFits /\ EntryCollected
    /\ ClaimsOnlyFills /\ ValueIsSaved /\ BooksMatchCash

LEMMA BookStart == BookInit => BookInv
<1> SUFFICES ASSUME BookInit PROVE BookInv
  OBVIOUS
<1>1. Inv
  BY InitInv DEF BookInit
<1>2. CloseFits /\ EntryCollected
  BY DEF BookInit, Init, CloseFits, Working, EntryCollected, Started
<1> QED
  BY <1>1, <1>2 DEF BookInit, BookInv, ClaimsOnlyFills, ValueIsSaved, BooksMatchCash, Claims

\* Only a roll parts what was collected from the entry prices.
LEMMA EntryStep ==
    ASSUME Inv, EntryCollected, BookNext PROVE EntryCollected'
<1>1. CASE BookClose
  BY <1>1 DEF BookClose, FillClose, EntryCollected
<1>2. CASE BookRoll
  BY <1>2 DEF BookRoll, EntryCollected
<1>3. CASE FillOpen
  <2>1. PICK credit \in Prices :
          held' = [order.next EXCEPT !.credit = credit] /\ cash' = credit * order.next.qty
    BY <1>3 DEF FillOpen
  <2>2. order.next \in Protected
    BY <1>3 DEF FillOpen, Inv, CampaignInv, OrderFits
  <2>3. held'.credit = credit /\ held'.qty = order.next.qty
    BY <2>1, <2>2 DEF Protected, Vertical
  <2> QED
    BY <2>1, <2>3, Zenon DEF EntryCollected
<1>4. CASE Expire
  BY <1>4 DEF Expire, EntryCollected
<1>5. CASE (Look \/ Submit \/ EndCycle \/ Die \/ Age) /\ (rolled' = rolled \/ rolled' = (rolled /\ held' # None))
  <2>1. held' = held /\ cash' = cash
    BY <1>5 DEF Look, Submit, EndCycle, Die, Age
  <2>2. held' # None /\ ~rolled' => ~rolled
    BY <1>5, Zenon
  <2> QED
    BY <2>1, <2>2, Zenon DEF EntryCollected
<1>6. CASE Publish
  BY <1>6 DEF Publish, vars, EntryCollected
<1> QED
  BY <1>1, <1>2, <1>3, <1>4, <1>5, <1>6
     DEF BookNext, BookDead, BookSimulated, BookNothing, Unbooked

\* The record that a step leaves claims nothing but what happened.
LEMMA RecordStep ==
    ASSUME BookInv, BookNext, record' # None
    PROVE  ClaimsOnlyFills' /\ ValueIsSaved' /\ BooksMatchCash'
<1>1. held # None /\ TypeOK /\ EntryCollected
  BY BookedSteps DEF BookInv, Inv
<1>2. PICK spot \in Spots, quoted \in Nat, action \in Action, receipt \in Receipts :
        /\ record' = Book(held, spot, action, receipt, quoted)
        /\ \/ receipt.status = "simulated" \/ held' = None
           \/ action # "CLOSE" \/ ~receipt.verified
  BY BookedSteps DEF BookInv, Inv
<1>3. receipt.price \in Prices \cup {None}
  BY DEF Receipts
<1>4. CASE record'.realized = None
  <2>1. record'.avoided = 0 /\ record'.released = 0
    BY <1>2, <1>4 DEF Book
  <2> QED
    BY <1>4, <2>1 DEF ClaimsOnlyFills, ValueIsSaved, BooksMatchCash, Claims
<1>5. CASE record'.realized # None
  <2>1. /\ record'.value = record'.result - record'.unmanaged
        /\ ~record'.rolled => ~rolled
        /\ cash = held.credit * held.qty => record'.realized = record'.result
    BY <1>1, <1>2, <1>3, <1>5, BookFacts
  <2>2. record'.realized = Realized(held, action, receipt, quoted)
        /\ record'.simulated = (receipt.status = "simulated")
        /\ record'.seen = receipt.verified
    BY <1>2 DEF Book
  <2>3. receipt.status = "simulated" \/ (action = "CLOSE" /\ receipt.verified)
    BY <1>5, <2>2, RealizedFacts
  <2>4. (held' = None /\ record'.seen) \/ record'.simulated
    BY <1>2, <2>2, <2>3
  <2> QED
    BY <1>1, <2>1, <2>4 DEF ClaimsOnlyFills, ValueIsSaved, BooksMatchCash, Claims, EntryCollected
<1> QED
  BY <1>4, <1>5

LEMMA BookStep == BookInv /\ [BookNext]_bookVars => BookInv'
<1> SUFFICES ASSUME BookInv, [BookNext]_bookVars PROVE BookInv'
  OBVIOUS
<1>1. CASE BookNext
  <2>1. [Next]_vars
    BY <1>1, BookSteps
  <2>2. Inv' /\ CloseFits'
    BY <2>1, CloseFitsStep, LookInv, SubmitInv, FillOpenInv, FillRollInv, OtherInv, StutterInv
       DEF BookInv, Next
  <2>3. EntryCollected'
    BY <1>1, EntryStep DEF BookInv
  <2>4. ClaimsOnlyFills' /\ ValueIsSaved' /\ BooksMatchCash'
    BY <1>1, RecordStep DEF ClaimsOnlyFills, ValueIsSaved, BooksMatchCash, Claims
  <2> QED
    BY <2>2, <2>3, <2>4 DEF BookInv
<1>2. CASE UNCHANGED bookVars
  <2>1. UNCHANGED vars /\ UNCHANGED <<record, rolled>>
    BY <1>2 DEF bookVars
  <2>2. Inv' /\ CloseFits'
    BY <2>1, CloseFitsStep, StutterInv DEF BookInv
  <2> QED
    BY <2>1, <2>2 DEF vars, BookInv, EntryCollected, ClaimsOnlyFills, ValueIsSaved,
                      BooksMatchCash, Claims
<1> QED
  BY <1>1, <1>2

THEOREM BookInductive == BookSpec => []BookInv
BY BookStart, BookStep, PTL DEF BookSpec

\* No roll, and no order that died, filled in part, or filled without its positions being
\* seen, leaves a record with a realized profit, an avoided assignment or released buying
\* power.
THEOREM ClaimsOnlyFillsHolds == BookSpec => []ClaimsOnlyFills
<1>1. BookInv => ClaimsOnlyFills
  BY DEF BookInv
<1> QED
  BY <1>1, BookInductive, PTL

\* The value claimed for a close is what the campaign saved against settling at the spot
\* price of the record, after any number of rolls and at any entry prices.
THEOREM ValueIsSavedHolds == BookSpec => []ValueIsSaved
<1>1. BookInv => ValueIsSaved
  BY DEF BookInv
<1> QED
  BY <1>1, BookInductive, PTL

\* The profit realized by closing a campaign that was never rolled is what it collected
\* less what closing cost.
THEOREM BooksMatchCashHolds == BookSpec => []BooksMatchCash
<1>1. BookInv => BooksMatchCash
  BY DEF BookInv
<1> QED
  BY <1>1, BookInductive, PTL
=============================================================================
