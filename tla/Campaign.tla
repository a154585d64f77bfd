------------------------------ MODULE Campaign ------------------------------
(***************************************************************************)
(* One campaign: a vertical from its entry through any number of rolls to  *)
(* its close or its expiry, as the policy engine and the decision layer    *)
(* steer it.  A cycle looks at a snapshot, evaluates the actions that are  *)
(* legal, lets the language model choose among them, and submits a limit   *)
(* order priced from a later snapshot; the broker fills it whole at the    *)
(* limit or better, or lets it die.  How an order is tracked is Execution. *)
(*                                                                         *)
(* Prices are integers, money is price times quantity (the factor 100 of   *)
(* the contracts cancels out).  The variables cash and budget are history. *)
(*                                                                         *)
(* Sources: engine.py (evaluate, _evaluate_flat, _payoff), llm.py (decide, *)
(* _fallback), alpaca.py (_select_vertical, _find_roll,                    *)
(* _find_entry_candidate, _cli_args), service.py (_run_locked, _execute).  *)
(***************************************************************************)
EXTENDS Integers

CONSTANTS
    Strikes,    \* strikes that are listed
    Spots,      \* prices of the underlying
    Prices,     \* credits and debits of a vertical
    Powers,     \* options buying power
    Caps,       \* one percent of the equity
    Quantities, \* contracts of a vertical
    MinOpen,    \* the least open credit of a roll candidate: $0.10
    MinNet,     \* the least net credit of a roll: $0.05
    MaxCash,    \* bound: what a campaign may collect
    None        \* no vertical, no order, no decision

ASSUME PriceAssumption ==
    /\ Strikes \subseteq Nat /\ Spots \subseteq Nat /\ Prices \subseteq Nat
    /\ Powers \subseteq Nat /\ Caps \subseteq Nat
    /\ Quantities \subseteq Nat \ {0}
    /\ MinOpen \in Nat /\ MinNet \in Nat \ {0}
    /\ MaxCash \in Nat

\* A vertical: its long leg protects its short leg; credit is what the broker's entry
\* prices say, or what a candidate's quotes say.
Vertical == [kind : {"put", "call"}, short : Strikes, long : Strikes,
             credit : Prices, qty : Quantities]
Width(v) == IF v.kind = "put" THEN v.short - v.long ELSE v.long - v.short
Protected == {v \in Vertical : Width(v) > 0}
\* Rejected by _select_vertical: the desk only stands down.
Supported(v) == 0 < v.credit /\ v.credit < Width(v)
MaxLoss(v) == (Width(v) - v.credit) * v.qty

\* What the legs are worth at expiry: never positive for a credit vertical.
Positive(x) == IF x > 0 THEN x ELSE 0
Intrinsic(kind, strike, spot) == Positive(IF kind = "put" THEN strike - spot ELSE spot - strike)
Settlement(v, spot) ==
    (Intrinsic(v.kind, v.long, spot) - Intrinsic(v.kind, v.short, spot)) * v.qty
Payoff(v, spot) == v.credit * v.qty + Settlement(v, spot)

Clearance(v, spot) == IF v.kind = "put" THEN spot - v.short ELSE v.short - spot
InTheMoney(v, spot) == Clearance(v, spot) < 0

VARIABLES
    held,     \* the account's vertical, or None
    stage,    \* of held's expiry day: "early", "airlock" (120 minutes), "cutoff"
    choice,   \* the decision of the running cycle
    order,    \* the working order
    cash,     \* what the campaign has collected so far
    budget    \* the most the campaign may lose, by the quotes it was opened on

vars == <<held, stage, choice, order, cash, budget>>

Started(v) == held = v /\ cash = v.credit * v.qty /\ budget = MaxLoss(v)
Init ==
    /\ \/ held = None /\ cash = 0 /\ budget = 0
       \/ \E v \in Protected : Supported(v) /\ Started(v)
    /\ stage = "early" /\ choice = None /\ order = None

-----------------------------------------------------------------------------
(* Contract selection: any candidate that passes may be the best one.        *)

\* Mutant of Rolls: the new vertical may be wider than the old one.
RollsAnyWidth(v, spot) ==
    {r \in Protected :
        /\ r.kind = v.kind /\ r.qty = v.qty
        /\ MinOpen <= r.credit /\ r.credit < Width(r)
        /\ 400 * Clearance(r, spot) >= 3 * spot}

Rolls(v, spot) ==
    {r \in Protected :
        /\ r.kind = v.kind /\ r.qty = v.qty /\ Width(r) = Width(v)
        /\ MinOpen <= r.credit /\ r.credit < Width(r)
        /\ 400 * Clearance(r, spot) >= 3 * spot}

Entries(spot) ==
    {e \in Protected :
        /\ e.qty = 1
        /\ 0 < e.credit /\ e.credit < Width(e) /\ 20 * e.credit >= 3 * Width(e)
        /\ 100 * Clearance(e, spot) >= spot}

Candidates(spot) == IF held = None THEN Entries(spot)
                    ELSE IF Supported(held) THEN Rolls(held, spot) ELSE {}

\* What a snapshot shows: debit is the short leg's ask less the long leg's bid; account
\* is "ready", "unenrolled" (the competition gate fails) or "blocked".
SnapshotAt(spot) ==
    [spot : {spot}, debit : Prices, power : Powers, cap : Caps,
     account : {"ready", "unenrolled", "blocked"},
     open : BOOLEAN, orders : BOOLEAN, fresh : BOOLEAN, next : Candidates(spot) \cup {None}]

-----------------------------------------------------------------------------
(* evaluate and _evaluate_flat.                                              *)

AccountReady(s) == s.account = "ready" /\ ~s.orders
Reserved(s) == s.power >= MaxLoss(held)

\* Mutant of HoldAllowed: the expiry airlock is left out.
HoldAllowedAlways(s) ==
    /\ AccountReady(s) /\ s.fresh
    /\ MaxLoss(held) <= s.cap
    /\ ~InTheMoney(held, s.spot)
    /\ 4 * s.power >= held.short * held.qty

HoldAllowed(s) ==
    /\ AccountReady(s) /\ s.fresh
    /\ MaxLoss(held) <= s.cap
    /\ stage = "early"
    /\ ~InTheMoney(held, s.spot)
    /\ 4 * s.power >= held.short * held.qty

\* Closing needs neither the enrollment nor the reserve.
CloseAllowed(s) ==
    /\ s.account # "blocked" /\ s.open /\ ~s.orders /\ s.fresh
    /\ stage # "cutoff"
    /\ s.power >= s.debit * held.qty

\* Mutant of RollAllowed: what the old spread costs is not counted.
RollAllowedGross(s) ==
    /\ CloseAllowed(s) /\ AccountReady(s) /\ Reserved(s)
    /\ s.next # None
    /\ s.next.credit >= MinNet
    /\ MaxLoss(s.next) <= s.power /\ MaxLoss(s.next) <= s.cap

\* Mutant of RollAllowed: the gates of a close are left out.
RollAllowedUnclosable(s) ==
    /\ AccountReady(s) /\ Reserved(s)
    /\ s.next # None
    /\ s.next.credit - s.debit >= MinNet
    /\ MaxLoss(s.next) <= s.power /\ MaxLoss(s.next) <= s.cap

RollAllowed(s) ==
    /\ CloseAllowed(s) /\ AccountReady(s) /\ Reserved(s)
    /\ s.next # None
    /\ s.next.credit - s.debit >= MinNet
    /\ MaxLoss(s.next) <= s.power /\ MaxLoss(s.next) <= s.cap

OpenAllowed(s) ==
    /\ AccountReady(s) /\ s.open /\ s.fresh
    /\ s.next # None
    /\ 2 * MaxLoss(s.next) <= s.cap /\ MaxLoss(s.next) <= s.power

Orders(s) ==
    IF held = None THEN {a \in {"OPEN"} : OpenAllowed(s)}
    ELSE {a \in {"HOLD", "CLOSE", "ROLL"} :
            /\ Supported(held)
            /\ \/ a = "HOLD" /\ HoldAllowed(s)
               \/ a = "CLOSE" /\ CloseAllowed(s)
               \/ a = "ROLL" /\ RollAllowed(s)}

\* Standing down is offered to a desk without a vertical, and when nothing else is legal.
Managed == held # None /\ Supported(held)
Legal(s) == IF Managed /\ Orders(s) # {} THEN Orders(s) ELSE Orders(s) \cup {"STAND_DOWN"}

Pressed(s) == stage # "early" \/ InTheMoney(held, s.spot) \/ ~Reserved(s)
Policy(s) ==
    IF Orders(s) = {} THEN "STAND_DOWN"
    ELSE IF held = None THEN "OPEN"
    ELSE IF stage # "early" /\ "ROLL" \in Orders(s) THEN "ROLL"
    ELSE IF Pressed(s) /\ "CLOSE" \in Orders(s) THEN "CLOSE"
    ELSE IF "HOLD" \in Orders(s) THEN "HOLD" ELSE "CLOSE"

Action == {"OPEN", "HOLD", "CLOSE", "ROLL", "STAND_DOWN"}
\* Mutant of Decide: any answer that is an action is taken.
DecideUnchecked(s, answer) == IF answer \in Action THEN answer ELSE Policy(s)
\* The model's answer counts if it is legal; otherwise, and without one, the policy's.
Decide(s, answer) == IF answer \in Legal(s) THEN answer ELSE Policy(s)

-----------------------------------------------------------------------------
(* A cycle.                                                                  *)

Legs(v) == IF v = None THEN None ELSE <<v.short, v.long>>

\* The first snapshot and the decision on it.
Look ==
    /\ choice = None /\ order = None
    /\ \E spot \in Spots : \E s \in SnapshotAt(spot), answer \in Action \cup {None} :
        choice' = [action |-> Decide(s, answer), legal |-> Legal(s), stage |-> stage,
                   legs |-> Legs(s.next)]
    /\ UNCHANGED <<held, stage, order, cash, budget>>

\* What the order brings in at least, for one contract.
Limit(action, s) ==
    CASE action = "OPEN" -> s.next.credit
      [] action = "CLOSE" -> -s.debit
      [] action = "ROLL" -> s.next.credit - s.debit

\* A later snapshot that still permits the trade prices the order.
Submit ==
    /\ choice # None /\ order = None
    /\ choice.action \in {"OPEN", "CLOSE", "ROLL"}
    /\ \E spot \in Spots : \E s \in SnapshotAt(spot) :
        /\ choice.action \in Orders(s)
        /\ choice.action # "CLOSE" => Legs(s.next) = choice.legs
        /\ order' = [action |-> choice.action, limit |-> Limit(choice.action, s),
                     next |-> IF choice.action = "CLOSE" THEN None ELSE s.next]
    /\ choice' = None
    /\ UNCHANGED <<held, stage, cash, budget>>

\* No order: HOLD, STAND_DOWN, a trade that is no longer permitted, a failure.
EndCycle ==
    /\ choice # None
    /\ choice' = None
    /\ UNCHANGED <<held, stage, order, cash, budget>>

-----------------------------------------------------------------------------
(* The broker and the calendar.                                              *)

Working(action) == order # None /\ order.action = action

FillOpen ==
    /\ Working("OPEN")
    /\ \E credit \in Prices :
        /\ order.limit <= credit /\ credit <= MaxCash
        /\ held' = [order.next EXCEPT !.credit = credit]
        /\ cash' = credit * order.next.qty
    /\ budget' = MaxLoss(order.next)
    /\ stage' = "early" /\ order' = None
    /\ UNCHANGED choice

FillClose ==
    /\ Working("CLOSE")
    /\ \E debit \in Prices : order.limit <= -debit
    /\ held' = None /\ stage' = "early" /\ order' = None
    /\ cash' = 0 /\ budget' = 0
    /\ UNCHANGED choice

\* Only the net of the four legs is limited; the broker's entry prices of the new legs
\* may be anything.
FillRoll ==
    /\ Working("ROLL")
    /\ \E credit, debit \in Prices :
        /\ order.limit <= credit - debit
        /\ cash + (credit - debit) * held.qty <= MaxCash
        /\ held' = [order.next EXCEPT !.credit = credit]
        /\ cash' = cash + (credit - debit) * held.qty
    /\ stage' = "early" /\ order' = None
    /\ UNCHANGED <<choice, budget>>

Die == order # None /\ order' = None /\ UNCHANGED <<held, stage, choice, cash, budget>>

Age ==
    /\ held # None /\ stage # "cutoff"
    /\ stage' = IF stage = "early" THEN "airlock" ELSE "cutoff"
    /\ UNCHANGED <<held, choice, order, cash, budget>>

\* Day orders are over when the options settle.
Expire ==
    /\ stage = "cutoff" /\ order = None
    /\ held' = None /\ stage' = "early" /\ cash' = 0 /\ budget' = 0
    /\ UNCHANGED <<choice, order>>

Next ==
    \/ Look \/ Submit \/ EndCycle
    \/ FillOpen \/ FillClose \/ FillRoll \/ Die \/ Age \/ Expire

Spec == Init /\ [][Next]_vars

-----------------------------------------------------------------------------
(* Properties.                                                               *)

Stage == {"early", "airlock", "cutoff"}
\* Every variable has its type; budgets and limits are amounts the quotes allow.
TypeOK ==
    /\ held \in Protected \cup {None}
    /\ stage \in Stage
    /\ choice \in [action : Action, legal : SUBSET Action, stage : Stage,
                   legs : (Strikes \X Strikes) \cup {None}] \cup {None}
    /\ order \in [action : {"OPEN", "CLOSE", "ROLL"}, limit : Int,
                  next : Protected \cup {None}] \cup {None}
    /\ cash \in Nat /\ budget \in Nat

\* Whatever the language model answers, the action decided on is one that the gates
\* leave legal (llm.py 96-105, 107-111; engine.py 372-396): the policy's own fallback
\* is legal too.
DecisionLegal == choice # None => choice.action \in choice.legal

\* Whatever the language model answers, a vertical that may be closed in its last two
\* hours is not left alone (engine.py 238-245, 372-379; llm.py 96-105).
AirlockActs ==
    choice # None /\ choice.stage = "airlock" /\ "CLOSE" \in choice.legal =>
        choice.action \in {"CLOSE", "ROLL"}

\* Through any number of rolls, a campaign that is held to expiry never loses more than
\* the maximum loss it was opened with, wherever the underlying settles
\* (engine.py 79-98, 246-289; alpaca.py 445-475, 1024-1095; TECHNICAL_WRITEUP.md 41-44).
CampaignBounded ==
    held # None => \A spot \in Spots : cash + Settlement(held, spot) >= -budget

Exposure(v, collected) == Width(v) * v.qty - collected
\* Every roll lowers what the campaign may still lose, even if the broker's entry prices
\* say otherwise of the new vertical (engine.py 282-289, alpaca.py 1059-1064).
RollsLowerExposure ==
    [][held # None /\ held' # None /\ cash' # cash =>
           Exposure(held', cash') < Exposure(held, cash)]_vars

-----------------------------------------------------------------------------
(* Why: an order fits the vertical it replaces, and brings in what its       *)
(* action promises.                                                          *)

OrderFits ==
    /\ Working("OPEN") =>
           /\ held = None /\ order.next \in Protected
           /\ Supported(order.next) /\ order.next.credit = order.limit
    /\ Working("ROLL") =>
           /\ held # None /\ order.next \in Protected
           /\ Width(order.next) = Width(held) /\ order.next.qty = held.qty
           /\ order.limit >= MinNet
ExposureWithinBudget == held # None => Exposure(held, cash) <= budget

CampaignInv == OrderFits /\ ExposureWithinBudget
=============================================================================
