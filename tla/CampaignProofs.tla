--------------------------- MODULE CampaignProofs ---------------------------
(***************************************************************************)
(* Theorems of Campaign for any strikes, prices, spots, powers, quantities *)
(* and floors: what the campaign may lose is bounded through every roll,   *)
(* and a decision is legal whatever the language model answers.            *)
(***************************************************************************)
EXTENDS Campaign, TLAPS

-----------------------------------------------------------------------------
(* Verticals.                                                                *)

LEMMA ProtectedFacts ==
    ASSUME NEW v \in Protected
    PROVE  /\ v.kind \in {"put", "call"} /\ v.short \in Strikes /\ v.long \in Strikes
           /\ v.credit \in Nat /\ v.qty \in Nat /\ v.qty > 0
           /\ v.short \in Int /\ v.long \in Int
           /\ Width(v) \in Int /\ Width(v) > 0
<1>1. v \in Vertical /\ Width(v) > 0
  BY DEF Protected
<1>2. /\ v.kind \in {"put", "call"} /\ v.short \in Strikes /\ v.long \in Strikes
      /\ v.credit \in Prices /\ v.qty \in Quantities
  BY <1>1 DEF Vertical
<1> DEFINE n == v.qty
<1>3. n \in Nat \ {0}
  BY <1>2, PriceAssumption
<1>4. v.short \in Nat /\ v.long \in Nat /\ v.credit \in Nat
  BY <1>2, PriceAssumption
<1> QED
  BY <1>1, <1>2, <1>3, <1>4 DEF Width

\* A smaller amount times the same number of contracts is not larger.
LEMMA Scale ==
    ASSUME NEW a \in Int, NEW b \in Int, NEW q \in Nat, a <= b
    PROVE  a * q <= b * q
<1>1. (b - a) * q >= 0
  BY SMT
<1>2. (b - a) * q = b * q - a * q
  BY SMT
<1> QED
  BY <1>1, <1>2

\* The long leg covers the short one up to the width.
LEMMA SettlementBound ==
    ASSUME NEW v \in Protected, NEW spot \in Nat
    PROVE  Settlement(v, spot) \in Int /\ Settlement(v, spot) >= -(Width(v) * v.qty)
<1> DEFINE net == Intrinsic(v.kind, v.long, spot) - Intrinsic(v.kind, v.short, spot)
<1>1. net \in Int /\ -Width(v) <= net
  BY ProtectedFacts DEF Intrinsic, Positive, Width
<1>2. Settlement(v, spot) = net * v.qty
  BY DEF Settlement
<1>3. (-Width(v)) * v.qty <= net * v.qty
  <2> HIDE DEF net
  <2> QED
    BY <1>1, Scale, ProtectedFacts
<1>4. (-Width(v)) * v.qty = -(Width(v) * v.qty)
  BY ProtectedFacts, SMT
<1> HIDE DEF net
<1>5. net * v.qty \in Int
  BY <1>1, ProtectedFacts
<1> QED
  BY <1>2, <1>3, <1>4, <1>5

\* What the broker may collect changes the exposure one for one.
LEMMA ExposureFacts ==
    ASSUME NEW v \in Protected, NEW collected \in Int
    PROVE  /\ Width(v) * v.qty \in Int /\ v.credit * v.qty \in Int
           /\ Exposure(v, collected) = Width(v) * v.qty - collected
           /\ MaxLoss(v) \in Int
           /\ MaxLoss(v) = Width(v) * v.qty - v.credit * v.qty
<1>1. Width(v) \in Int /\ v.credit \in Int /\ v.qty \in Int
  BY ProtectedFacts
<1>2. (Width(v) - v.credit) * v.qty = Width(v) * v.qty - v.credit * v.qty
  BY <1>1, SMT
<1>3. Width(v) * v.qty \in Int /\ v.credit * v.qty \in Int
  BY <1>1
<1> QED
  BY <1>2, <1>3 DEF Exposure, MaxLoss

\* The maximum loss of evaluate's gates is the worst that _payoff can say at expiry
\* (engine.py 49-60, 83), so the limits on it bound the outcome of a vertical.
THEOREM MaxLossIsWorst ==
    ASSUME NEW v \in Protected, NEW spot \in Nat
    PROVE  Payoff(v, spot) >= -MaxLoss(v)
<1>1. Settlement(v, spot) \in Int /\ Settlement(v, spot) >= -(Width(v) * v.qty)
  BY SettlementBound
<1>2. /\ Width(v) * v.qty \in Int /\ v.credit * v.qty \in Int
      /\ MaxLoss(v) = Width(v) * v.qty - v.credit * v.qty
  BY ExposureFacts
<1>3. Payoff(v, spot) = v.credit * v.qty + Settlement(v, spot)
  BY DEF Payoff
<1> QED
  BY <1>1, <1>2, <1>3

\* A supported vertical has something to lose.
LEMMA MaxLossNat ==
    ASSUME NEW v \in Protected, Supported(v)
    PROVE  MaxLoss(v) \in Nat
<1>1. 0 <= Width(v) - v.credit /\ Width(v) - v.credit \in Int
  BY ProtectedFacts DEF Supported
<1>2. 0 * v.qty <= (Width(v) - v.credit) * v.qty
  BY <1>1, Scale, ProtectedFacts
<1>3. MaxLoss(v) \in Int
  BY ExposureFacts
<1> QED
  BY <1>2, <1>3, ProtectedFacts DEF MaxLoss

-----------------------------------------------------------------------------
(* Decisions.                                                                *)

\* The policy's action is legal: an action it falls back to is one that passed.
LEMMA PolicyLegal ==
    ASSUME NEW s
    PROVE  Policy(s) \in Legal(s) /\ Legal(s) \subseteq Action
<1>1. Orders(s) \subseteq Legal(s)
  BY DEF Legal
<1>2. Orders(s) \subseteq Action
  BY DEF Orders, Action
<1>3. Legal(s) \subseteq Action
  BY <1>2 DEF Legal, Action
<1>4. Policy(s) \in Legal(s)
  <2>1. CASE Orders(s) = {}
    BY <2>1 DEF Policy, Legal
  <2>2. CASE Orders(s) # {} /\ held = None
    <3>1. Policy(s) = "OPEN"
      BY <2>2 DEF Policy
    <3>2. "OPEN" \in Orders(s)
      BY <2>2 DEF Orders
    <3> QED
      BY <3>1, <3>2, <1>1
  <2>3. CASE Orders(s) # {} /\ held # None
    <3>1. "ROLL" \in Orders(s) => "CLOSE" \in Orders(s)
      BY <2>3 DEF Orders, RollAllowed
    <3>2. Orders(s) \subseteq {"HOLD", "CLOSE", "ROLL"}
      BY <2>3 DEF Orders
    <3>3. "HOLD" \in Orders(s) \/ "CLOSE" \in Orders(s)
      BY <2>3, <3>1, <3>2
    <3>4. Policy(s) \in Orders(s)
      BY <2>3, <3>3 DEF Policy
    <3> QED
      BY <3>4, <1>1
  <2> QED
    BY <2>1, <2>2, <2>3
<1> QED
  BY <1>3, <1>4

LEMMA DecideLegal ==
    ASSUME NEW s, NEW answer
    PROVE  Decide(s, answer) \in Legal(s)
BY PolicyLegal DEF Decide

\* In the last two hours a close that is legal excludes holding and standing down.
LEMMA AirlockLegal ==
    ASSUME NEW s, stage = "airlock", "CLOSE" \in Legal(s)
    PROVE  Legal(s) \subseteq {"CLOSE", "ROLL"}
<1>1. "CLOSE" \in Orders(s)
  BY DEF Legal
<1>2. held # None /\ Supported(held)
  BY <1>1 DEF Orders
<1>3. Legal(s) = Orders(s)
  BY <1>1, <1>2 DEF Legal, Managed
<1>4. "HOLD" \notin Orders(s)
  BY <1>2 DEF Orders, HoldAllowed
<1>5. Orders(s) \subseteq {"HOLD", "CLOSE", "ROLL"}
  BY <1>2 DEF Orders
<1> QED
  BY <1>3, <1>4, <1>5

\* The decision on record is legal, and acts in the airlock.
DecisionInv == DecisionLegal /\ AirlockActs

\* Whatever the language model answers, the action decided on is one the gates leave
\* legal, and in the last two hours a vertical that may be closed is closed or rolled.
THEOREM DecisionHolds == Spec => []DecisionInv
<1>1. Init => DecisionInv
  BY DEF Init, DecisionInv, DecisionLegal, AirlockActs
<1>2. DecisionInv /\ [Next]_vars => DecisionInv'
  <2> SUFFICES ASSUME DecisionInv, [Next]_vars
               PROVE  DecisionInv'
    OBVIOUS
  <2>1. CASE Look
    <3>1. PICK s, answer :
            choice' = [action |-> Decide(s, answer), legal |-> Legal(s), stage |-> stage,
                       legs |-> Legs(s.next)]
      BY <2>1 DEF Look
    <3>2. choice'.action = Decide(s, answer) /\ choice'.legal = Legal(s) /\ choice'.stage = stage
      BY <3>1
    <3>3. DecisionLegal'
      BY <3>2, DecideLegal DEF DecisionLegal
    <3>4. AirlockActs'
      BY <3>2, DecideLegal, AirlockLegal DEF AirlockActs
    <3> QED
      BY <3>3, <3>4 DEF DecisionInv
  <2>2. CASE UNCHANGED choice
    BY <2>2 DEF DecisionInv, DecisionLegal, AirlockActs
  <2>3. CASE Submit \/ EndCycle
    <3>1. choice' = None
      BY <2>3 DEF Submit, EndCycle
    <3> QED
      BY <3>1 DEF DecisionInv, DecisionLegal, AirlockActs
  <2> QED
    BY <2>1, <2>2, <2>3
       DEF Next, FillOpen, FillClose, FillRoll, Die, Age, Expire, vars
<1> QED
  BY <1>1, <1>2, PTL DEF Spec

\* Whatever the language model answers, the action decided on is legal.
COROLLARY DecisionLegalHolds == Spec => []DecisionLegal
<1>1. DecisionInv => DecisionLegal
  BY DEF DecisionInv
<1> QED
  BY <1>1, DecisionHolds, PTL

\* A vertical that may be closed in its last two hours is not left alone.
COROLLARY AirlockActsHolds == Spec => []AirlockActs
<1>1. DecisionInv => AirlockActs
  BY DEF DecisionInv
<1> QED
  BY <1>1, DecisionHolds, PTL

-----------------------------------------------------------------------------
(* What a campaign may lose.                                                 *)

\* A candidate is protected; an entry is supported, a roll fits the vertical it replaces.
LEMMA CandidateFacts ==
    ASSUME NEW spot, NEW v \in Candidates(spot)
    PROVE  /\ v \in Protected
           /\ held = None => Supported(v)
           /\ held # None => v.qty = held.qty /\ Width(v) = Width(held)
<1>1. CASE held = None
  BY <1>1 DEF Candidates, Entries, Supported
<1>2. CASE held # None
  BY <1>2 DEF Candidates, Rolls
<1> QED
  BY <1>1, <1>2

LEMMA SnapshotFacts ==
    ASSUME NEW spot \in Spots, NEW s \in SnapshotAt(spot)
    PROVE  s.debit \in Nat /\ s.next \in Candidates(spot) \cup {None}
<1>1. s.debit \in Prices /\ s.next \in Candidates(spot) \cup {None}
  BY DEF SnapshotAt
<1> QED
  BY <1>1, PriceAssumption

\* The inductive invariant.
Inv == TypeOK /\ CampaignInv

LEMMA InitInv == Init => Inv
<1> SUFFICES ASSUME Init PROVE Inv
  OBVIOUS
<1>1. CASE held = None /\ cash = 0 /\ budget = 0
  BY <1>1 DEF Init, Inv, TypeOK, CampaignInv, OrderFits, ExposureWithinBudget, Working, Stage
<1>2. CASE \E v \in Protected : Supported(v) /\ Started(v)
  <2>1. PICK v \in Protected : Supported(v) /\ Started(v)
    BY <1>2
  <2>2. cash = v.credit * v.qty /\ budget = MaxLoss(v) /\ held = v
    BY <2>1 DEF Started
  <2>3. cash \in Int /\ budget \in Nat
    BY <2>2, <2>1, ExposureFacts, MaxLossNat
  <2>4. cash >= 0
    <3>1. v.credit \in Nat /\ v.qty \in Nat
      BY ProtectedFacts
    <3> QED
      BY <3>1, <2>2, SMT
  <2>5. Exposure(held, cash) <= budget
    <3>1. Exposure(v, cash) = Width(v) * v.qty - cash
      BY <2>3, ExposureFacts
    <3>2. Width(v) * v.qty \in Int /\ v.credit * v.qty \in Int
          /\ MaxLoss(v) = Width(v) * v.qty - v.credit * v.qty
      BY <2>3, ExposureFacts
    <3> QED
      BY <3>1, <3>2, <2>2
  <2> QED
    BY <2>1, <2>2, <2>3, <2>4, <2>5
       DEF Init, Inv, TypeOK, CampaignInv, OrderFits, ExposureWithinBudget, Working, Stage
<1> QED
  BY <1>1, <1>2 DEF Init

\* A cycle's decision leaves the vertical and the order alone.
LEMMA LookInv == Inv /\ Look => Inv'
<1> SUFFICES ASSUME Inv, Look PROVE Inv'
  OBVIOUS
<1>1. PICK spot \in Spots : \E s \in SnapshotAt(spot), answer \in Action \cup {None} :
        choice' = [action |-> Decide(s, answer), legal |-> Legal(s), stage |-> stage,
                   legs |-> Legs(s.next)]
  BY DEF Look
<1>2. PICK s \in SnapshotAt(spot), answer \in Action \cup {None} :
        choice' = [action |-> Decide(s, answer), legal |-> Legal(s), stage |-> stage,
                   legs |-> Legs(s.next)]
  BY <1>1
<1>3. Legs(s.next) \in (Strikes \X Strikes) \cup {None}
  <2>1. CASE s.next = None
    BY <2>1 DEF Legs
  <2>2. CASE s.next # None
    <3>1. s.next \in Protected
      BY <2>2, SnapshotFacts, CandidateFacts
    <3>2. s.next.short \in Strikes /\ s.next.long \in Strikes
      BY <3>1, ProtectedFacts
    <3> QED
      BY <2>2, <3>2 DEF Legs
  <2> QED
    BY <2>1, <2>2
<1>4. Legal(s) \in SUBSET Action /\ Decide(s, answer) \in Action
  BY PolicyLegal, DecideLegal
<1>5. choice' \in [action : Action, legal : SUBSET Action, stage : Stage,
                   legs : (Strikes \X Strikes) \cup {None}]
  <2>1. stage \in Stage
    BY DEF Inv, TypeOK
  <2> QED
    BY <1>2, <1>3, <1>4, <2>1
<1>6. UNCHANGED <<held, stage, order, cash, budget>>
  BY DEF Look
<1>7. TypeOK'
  BY <1>5, <1>6 DEF Inv, TypeOK
<1>8. CampaignInv'
  BY <1>6 DEF Inv, CampaignInv, OrderFits, ExposureWithinBudget, Working
<1> QED
  BY <1>7, <1>8 DEF Inv

\* An order fits what it replaces, and a roll brings in the least net credit.
LEMMA SubmitInv == Inv /\ Submit => Inv'
<1> SUFFICES ASSUME Inv, Submit PROVE Inv'
  OBVIOUS
<1> DEFINE act == choice.action
<1>0. PICK spot \in Spots : \E s \in SnapshotAt(spot) :
        /\ act \in Orders(s)
        /\ order' = [action |-> act, limit |-> Limit(act, s),
                     next |-> IF act = "CLOSE" THEN None ELSE s.next]
  BY DEF Submit
<1>1. PICK s \in SnapshotAt(spot) :
        /\ act \in Orders(s)
        /\ order' = [action |-> act, limit |-> Limit(act, s),
                     next |-> IF act = "CLOSE" THEN None ELSE s.next]
  BY <1>0
<1>2. act \in {"OPEN", "CLOSE", "ROLL"}
  BY DEF Submit
<1>3. UNCHANGED <<held, stage, cash, budget>> /\ choice' = None
  BY DEF Submit
<1>4. order'.action = act /\ order'.limit = Limit(act, s)
      /\ order'.next = IF act = "CLOSE" THEN None ELSE s.next
  BY <1>1
<1>5. ASSUME act \in {"OPEN", "ROLL"}
      PROVE  s.next # None /\ s.next \in Candidates(spot)
  BY <1>1, <1>5, SnapshotFacts DEF Orders, OpenAllowed, RollAllowed
<1>6. ASSUME act = "OPEN" PROVE held = None
  BY <1>1, <1>6 DEF Orders
<1>7. ASSUME act = "ROLL" PROVE held # None /\ s.next.credit - s.debit >= MinNet
  BY <1>1, <1>7 DEF Orders, RollAllowed
<1>8. order' \in [action : {"OPEN", "CLOSE", "ROLL"}, limit : Int, next : Protected \cup {None}]
  <2>1. s.debit \in Int
    BY SnapshotFacts
  <2>2. act \in {"OPEN", "ROLL"} => s.next \in Protected /\ s.next.credit \in Int
    BY <1>5, CandidateFacts, ProtectedFacts
  <2>3. Limit(act, s) \in Int
    BY <2>1, <2>2, <1>2 DEF Limit
  <2> QED
    BY <1>1, <1>2, <2>2, <2>3
<1>9. OrderFits'
  <2>1. CASE act = "OPEN"
    <3>1. s.next \in Protected /\ Supported(s.next) /\ held = None
      BY <2>1, <1>5, <1>6, CandidateFacts
    <3>2. order'.limit = s.next.credit /\ order'.next = s.next
      BY <2>1, <1>4 DEF Limit
    <3>3. Supported(order.next)'
      BY <3>1, <3>2 DEF Supported, Width
    <3> QED
      BY <2>1, <3>1, <3>2, <3>3, <1>3, <1>4 DEF OrderFits, Working
  <2>2. CASE act = "ROLL"
    <3>1. s.next \in Protected /\ s.next.qty = held.qty /\ Width(s.next) = Width(held)
      BY <2>2, <1>5, <1>7, CandidateFacts
    <3>2. order'.limit >= MinNet /\ order'.next = s.next
      BY <2>2, <1>4, <1>7 DEF Limit
    <3>3. Width(order'.next) = Width(held')
      BY <3>1, <3>2, <1>3
    <3> QED
      BY <2>2, <3>1, <3>2, <3>3, <1>3, <1>4, <1>7 DEF OrderFits, Working, Width
  <2>3. CASE act = "CLOSE"
    BY <2>3, <1>4 DEF OrderFits, Working
  <2> QED
    BY <2>1, <2>2, <2>3, <1>2
<1>10. TypeOK'
  BY <1>3, <1>8 DEF Inv, TypeOK
<1>11. ExposureWithinBudget'
  BY <1>3 DEF Inv, CampaignInv, ExposureWithinBudget, Exposure, Width
<1> QED
  BY <1>9, <1>10, <1>11 DEF Inv, CampaignInv

\* Another entry price changes neither the width nor the quantity.
LEMMA Repriced ==
    ASSUME NEW v \in Protected, NEW credit \in Prices, NEW w, w = [v EXCEPT !.credit = credit]
    PROVE  w \in Protected /\ Width(w) = Width(v) /\ w.qty = v.qty
<1>1. v \in Vertical
  BY DEF Protected
<1>2. w \in Vertical /\ w.kind = v.kind /\ w.short = v.short /\ w.long = v.long /\ w.qty = v.qty
  BY <1>1 DEF Vertical
<1>3. Width(w) = Width(v)
  BY <1>2 DEF Width
<1> QED
  BY <1>2, <1>3 DEF Protected

LEMMA FillOpenInv == Inv /\ FillOpen => Inv'
<1> SUFFICES ASSUME Inv, FillOpen PROVE Inv'
  OBVIOUS
<1> DEFINE v == order.next
<1>1. /\ held = None /\ v \in Protected
      /\ Supported(v) /\ v.credit = order.limit
  BY DEF FillOpen, Inv, CampaignInv, OrderFits
<1>2. PICK credit \in Prices :
        /\ order.limit <= credit
        /\ held' = [v EXCEPT !.credit = credit]
        /\ cash' = credit * v.qty
  BY DEF FillOpen
<1>3. held' \in Protected /\ Width(held') = Width(v) /\ held'.qty = v.qty
  BY <1>1, <1>2, Repriced
<1> HIDE DEF v
<1>4. credit \in Nat /\ v.credit \in Nat /\ v.qty \in Nat /\ Width(v) \in Int
  BY <1>1, ProtectedFacts, PriceAssumption
<1>5. cash' \in Nat
  <2>1. 0 * v.qty <= credit * v.qty
    BY <1>4, Scale
  <2> QED
    BY <2>1, <1>2, <1>4
<1>6. budget' = MaxLoss(v) /\ budget' \in Nat
  BY <1>1, MaxLossNat DEF FillOpen, v
<1>7. Exposure(held', cash') <= budget'
  <2>1. Exposure(held', cash') = Width(v) * v.qty - cash'
    BY <1>3 DEF Exposure
  <2>2. MaxLoss(v) = Width(v) * v.qty - v.credit * v.qty /\ Width(v) * v.qty \in Int
    BY <1>1, <1>5, ExposureFacts
  <2>3. v.credit * v.qty <= cash'
    BY <1>1, <1>2, <1>4, Scale DEF v
  <2>4. v.credit * v.qty \in Int
    BY <1>4
  <2> QED
    BY <1>5, <1>6, <2>1, <2>2, <2>3, <2>4
<1>8. stage' = "early" /\ order' = None /\ choice' = choice
  BY DEF FillOpen
<1>9. TypeOK'
  BY <1>3, <1>5, <1>6, <1>8 DEF Inv, TypeOK, Stage
<1>10. CampaignInv'
  BY <1>7, <1>8 DEF CampaignInv, OrderFits, ExposureWithinBudget, Working, Exposure, Width
<1> QED
  BY <1>9, <1>10 DEF Inv

\* A roll lowers what the campaign may still lose, whatever entry prices the broker says.
LEMMA RollStep ==
    ASSUME Inv, FillRoll
    PROVE  /\ held \in Protected /\ held' \in Protected
           /\ cash' \in Nat
           /\ Exposure(held, cash) \in Int /\ Exposure(held', cash') \in Int
           /\ Exposure(held', cash') < Exposure(held, cash)
<1>1. /\ held \in Protected /\ order.next \in Protected
      /\ Width(order.next) = Width(held) /\ order.next.qty = held.qty
      /\ order.limit >= MinNet
  BY DEF FillRoll, Inv, TypeOK, CampaignInv, OrderFits
<1>2. order.limit \in Int /\ cash \in Nat
  <2>1. order \in [action : {"OPEN", "CLOSE", "ROLL"}, limit : Int, next : Protected \cup {None}]
    BY DEF FillRoll, Working, Inv, TypeOK
  <2> QED
    BY <2>1 DEF Inv, TypeOK
<1>3. PICK credit \in Prices, debit \in Prices :
        /\ order.limit <= credit - debit
        /\ held' = [order.next EXCEPT !.credit = credit]
        /\ cash' = cash + (credit - debit) * held.qty
  BY DEF FillRoll
<1>4. held' \in Protected /\ Width(held') = Width(held) /\ held'.qty = held.qty
  BY <1>1, <1>3, Repriced
<1>5. /\ credit - debit \in Int /\ 1 <= credit - debit
      /\ held.qty \in Nat /\ held.qty > 0 /\ Width(held) \in Int
  <2>1. credit \in Nat /\ debit \in Nat /\ MinNet \in Nat \ {0}
    BY PriceAssumption
  <2> QED
    BY <2>1, <1>1, <1>2, <1>3, ProtectedFacts
<1> DEFINE net == (credit - debit) * held.qty
<1>6. net \in Int /\ held.qty <= net
  <2>1. 1 * held.qty <= (credit - debit) * held.qty
    BY <1>5, Scale
  <2>2. 1 * held.qty = held.qty /\ net \in Int
    BY <1>5
  <2> QED
    BY <2>1, <2>2
<1>7. cash' = cash + net
  BY <1>3
<1> HIDE DEF net
<1>8. Width(held) * held.qty \in Int
  BY <1>5
<1>9. /\ Exposure(held, cash) = Width(held) * held.qty - cash
      /\ Exposure(held', cash') = Width(held) * held.qty - cash'
  BY <1>4 DEF Exposure
<1> QED
  BY <1>1, <1>2, <1>4, <1>5, <1>6, <1>7, <1>8, <1>9

LEMMA FillRollInv == Inv /\ FillRoll => Inv'
<1> SUFFICES ASSUME Inv, FillRoll PROVE Inv'
  OBVIOUS
<1>1. stage' = "early" /\ order' = None /\ UNCHANGED <<choice, budget>>
  BY DEF FillRoll
<1>2. TypeOK'
  BY <1>1, RollStep DEF Inv, TypeOK, Stage
<1>3. ExposureWithinBudget'
  <2>1. held # None
    BY DEF FillRoll, Inv, CampaignInv, OrderFits
  <2>2. Exposure(held, cash) <= budget /\ budget \in Nat
    BY <2>1 DEF Inv, TypeOK, CampaignInv, ExposureWithinBudget
  <2>3. Exposure(held', cash') <= budget'
    BY <1>1, <2>2, RollStep
  <2> QED
    BY <2>3 DEF ExposureWithinBudget, Exposure, Width
<1>4. OrderFits'
  BY <1>1 DEF OrderFits, Working
<1> QED
  BY <1>2, <1>3, <1>4 DEF Inv, CampaignInv

\* Nothing else touches a vertical except by ending its campaign.
LEMMA OtherInv == Inv /\ (EndCycle \/ FillClose \/ Die \/ Age \/ Expire) => Inv'
<1> SUFFICES ASSUME Inv, EndCycle \/ FillClose \/ Die \/ Age \/ Expire PROVE Inv'
  OBVIOUS
<1>1. CASE EndCycle
  BY <1>1 DEF EndCycle, Inv, TypeOK, CampaignInv, OrderFits, ExposureWithinBudget,
              Exposure, Working, Width, Supported
<1>2. CASE FillClose \/ Expire
  BY <1>2 DEF FillClose, Expire, Inv, TypeOK, CampaignInv, OrderFits, ExposureWithinBudget,
              Working, Stage
<1>3. CASE Die
  BY <1>3 DEF Die, Inv, TypeOK, CampaignInv, OrderFits, ExposureWithinBudget,
              Exposure, Working, Width
<1>4. CASE Age
  BY <1>4 DEF Age, Inv, TypeOK, CampaignInv, OrderFits, ExposureWithinBudget,
              Exposure, Working, Width, Supported, Stage
<1> QED
  BY <1>1, <1>2, <1>3, <1>4

LEMMA StutterInv == Inv /\ UNCHANGED vars => Inv'
BY DEF vars, Inv, TypeOK, CampaignInv, OrderFits, ExposureWithinBudget,
       Exposure, Working, Width, Supported

\* The invariant is inductive.
THEOREM CampaignInductive == Spec => []Inv
<1>1. Inv /\ [Next]_vars => Inv'
  BY LookInv, SubmitInv, FillOpenInv, FillRollInv, OtherInv, StutterInv DEF Next
<1> QED
  BY <1>1, InitInv, PTL DEF Spec

\* Every variable keeps its type; what a campaign has collected is never a debt.
COROLLARY TypeCorrect == Spec => []TypeOK
<1>1. Inv => TypeOK
  BY DEF Inv
<1> QED
  BY <1>1, CampaignInductive, PTL

\* The order at the broker fits the vertical it replaces, and what the campaign may lose
\* stays within the budget it was opened with.
COROLLARY CampaignInvHolds == Spec => []CampaignInv
<1>1. Inv => CampaignInv
  BY DEF Inv
<1> QED
  BY <1>1, CampaignInductive, PTL

\* Wherever the underlying settles, a campaign held to expiry loses no more than the
\* maximum loss it was opened with, however often it was rolled.
THEOREM CampaignBoundedHolds == Spec => []CampaignBounded
<1>1. Inv => CampaignBounded
  <2> SUFFICES ASSUME Inv, held # None, NEW spot \in Spots
               PROVE  cash + Settlement(held, spot) >= -budget
    BY DEF CampaignBounded
  <2>1. held \in Protected /\ cash \in Nat /\ budget \in Nat
    BY DEF Inv, TypeOK
  <2>2. spot \in Nat
    BY PriceAssumption
  <2>3. Settlement(held, spot) \in Int /\ Settlement(held, spot) >= -(Width(held) * held.qty)
    BY <2>1, <2>2, SettlementBound
  <2>4. Width(held) * held.qty \in Int /\ Width(held) * held.qty - cash <= budget
    BY <2>1, ExposureFacts DEF Inv, CampaignInv, ExposureWithinBudget
  <2> QED
    BY <2>1, <2>3, <2>4
<1> QED
  BY <1>1, CampaignInductive, PTL

\* Every roll lowers what the campaign may still lose.
THEOREM RollsLowerExposureHolds == Spec => RollsLowerExposure
<1> DEFINE Lowers == held # None /\ held' # None /\ cash' # cash =>
                         Exposure(held', cash') < Exposure(held, cash)
<1>1. Inv /\ [Next]_vars => [Lowers]_vars
  <2> SUFFICES ASSUME Inv, Next PROVE Lowers
    BY DEF vars
  <2>1. CASE FillRoll
    BY <2>1, RollStep
  <2>2. CASE FillOpen
    <3>1. held = None
      BY <2>2 DEF FillOpen, Inv, CampaignInv, OrderFits
    <3> QED
      BY <3>1
  <2>3. CASE FillClose \/ Expire
    BY <2>3 DEF FillClose, Expire
  <2>4. CASE Look \/ Submit \/ EndCycle \/ Die \/ Age
    BY <2>4 DEF Look, Submit, EndCycle, Die, Age
  <2> QED
    BY <2>1, <2>2, <2>3, <2>4 DEF Next
<1> QED
  BY <1>1, CampaignInductive, PTL DEF Spec, RollsLowerExposure

=============================================================================
