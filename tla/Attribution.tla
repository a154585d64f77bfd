---------------------------- MODULE Attribution ----------------------------
(***************************************************************************)
(* What the records say of a campaign's profit: every cycle of Campaign    *)
(* ends with a record, which may claim a realized profit, and the value of *)
(* having closed over leaving the vertical to settle at the spot price     *)
(* that was displayed.                                                     *)
(*                                                                         *)
(* Sources: evidence.py (attribution_for, counterfactual_for), service.py  *)
(* (_run_locked, _execute).                                                *)
(***************************************************************************)
EXTENDS Campaign

VARIABLES
    record,   \* the record of the cycle that ended, or None
    rolled    \* was the campaign rolled (history)

bookVars == <<vars, record, rolled>>

BookInit == Init /\ record = None /\ rolled = FALSE

-----------------------------------------------------------------------------
(* attribution_for                                                           *)

\* A receipt has the parent order's average price, which an order that filled in part
\* has too; a roll's is the net of four legs.
Receipt == [status : {"simulated", "sent", "none"}, price : Prices \cup {None}, verified : BOOLEAN]

CloseDebit(action, receipt, quoted) ==
    IF action = "CLOSE" /\ receipt.price # None THEN receipt.price
    ELSE IF action \in {"CLOSE", "ROLL"} /\ receipt.status = "simulated" THEN quoted
    ELSE None

\* Mutant of Realized: the price alone counts as a fill.
RealizedUnverified(v, action, receipt, quoted) ==
    LET debit == CloseDebit(action, receipt, quoted)
    IN  IF debit # None THEN (v.credit - debit) * v.qty ELSE None

\* Mutant of Realized: the quantity is left out.
RealizedSingle(v, action, receipt, quoted) ==
    LET debit == CloseDebit(action, receipt, quoted)
    IN  IF debit # None /\ (receipt.status = "simulated" \/ receipt.verified)
        THEN v.credit - debit ELSE None

\* Nothing is realized by a close that is not verified, nor by a verified roll.
Realized(v, action, receipt, quoted) ==
    LET debit == CloseDebit(action, receipt, quoted)
    IN  IF /\ debit # None
           /\ receipt.status = "simulated" \/ receipt.verified
           /\ ~(action = "ROLL" /\ receipt.verified)
        THEN (v.credit - debit) * v.qty ELSE None

-----------------------------------------------------------------------------
(* counterfactual_for                                                        *)

\* Mutant of Baseline: the protection of the long leg is left out.
BaselineShort(v, spot) == (v.credit - Intrinsic(v.kind, v.short, spot)) * v.qty
Baseline(v, spot) == Payoff(v, spot)

\* seen, result and unmanaged are history: whether the positions after the fill were seen
\* and are the expected ones, what the campaign has collected in all after the close, and
\* what it would have after settling at the displayed spot price.
Book(v, spot, action, receipt, quoted) ==
    LET realized == Realized(v, action, receipt, quoted)
        acted == realized # None
        debit == CloseDebit(action, receipt, quoted)
    IN  [realized |-> realized,
         value |-> (IF acted THEN realized ELSE Baseline(v, spot)) - Baseline(v, spot),
         avoided |-> IF acted /\ InTheMoney(v, spot) THEN v.short * v.qty ELSE 0,
         released |-> IF acted /\ action = "CLOSE" THEN MaxLoss(v) ELSE 0,
         simulated |-> receipt.status = "simulated",
         seen |-> receipt.verified,
         rolled |-> rolled,
         result |-> IF acted THEN cash - debit * v.qty ELSE 0,
         unmanaged |-> cash + Settlement(v, spot)]

-----------------------------------------------------------------------------
(* The cycles of Campaign, with the record each ends with.  The snapshot of  *)
(* the record is the first of the cycle, its spot price any.                 *)

Booked(action, receipt, quoted) ==
    \E spot \in Spots : record' = Book(held, spot, action, receipt, quoted)

BookClose ==
    /\ FillClose
    /\ \E debit \in Prices, verified \in BOOLEAN :
        /\ order.limit <= -debit
        /\ Booked("CLOSE", [status |-> "sent", price |-> debit, verified |-> verified], debit)
    /\ rolled' = FALSE

BookRoll ==
    /\ FillRoll
    /\ \E net \in Prices, verified \in BOOLEAN :
        Booked("ROLL", [status |-> "sent", price |-> net, verified |-> verified], 0)
    /\ rolled' = TRUE

\* An order that died; a part of it may have filled first.
BookDead ==
    /\ Die /\ held # None
    /\ \E price \in Prices \cup {None} :
        Booked(order.action, [status |-> "sent", price |-> price, verified |-> FALSE], 0)
    /\ UNCHANGED rolled

\* The replay mode sends no order and books the quotes.
BookSimulated ==
    /\ EndCycle /\ held # None
    /\ choice.action \in {"CLOSE", "ROLL"}
    /\ \E quoted \in Prices :
        Booked(choice.action, [status |-> "simulated", price |-> None, verified |-> FALSE], quoted)
    /\ UNCHANGED rolled

\* HOLD, STAND_DOWN, an order that was blocked.
BookNothing ==
    /\ EndCycle /\ held # None
    /\ Booked(choice.action, [status |-> "none", price |-> None, verified |-> FALSE], 0)
    /\ UNCHANGED rolled

\* Without a vertical there is no attribution to a spread.
Unbooked ==
    /\ Look \/ Submit \/ FillOpen \/ Age \/ Expire \/ (held = None /\ (EndCycle \/ Die))
    /\ rolled' = (rolled /\ held' # None)
    /\ UNCHANGED record

Publish == record # None /\ record' = None /\ UNCHANGED <<vars, rolled>>

BookNext ==
    \/ /\ record = None
       /\ BookClose \/ BookRoll \/ BookDead \/ BookSimulated \/ BookNothing \/ Unbooked
    \/ Publish

BookSpec == BookInit /\ [][BookNext]_bookVars

-----------------------------------------------------------------------------
(* Properties.                                                               *)

Claims == record # None /\ record.realized # None

\* A record claims a realized profit, an avoided assignment or released buying power
\* only in the replay mode, or of a vertical that is gone and whose absence the cycle saw
\* in the positions after the fill: never of a roll, of a dead or half filled order, or
\* of a fill whose positions were not seen (evidence.py 49-69, 138-156).
ClaimsOnlyFills ==
    record # None /\ (record.realized # None \/ record.avoided > 0 \/ record.released > 0) =>
        (held = None /\ record.seen) \/ record.simulated

\* The value claimed for a close is the difference between what the campaign then has
\* and what it would have had after settling, whatever the broker's entry prices say
\* after a roll (evidence.py 102-137).
ValueIsSaved == Claims => record.value = record.result - record.unmanaged

\* The profit realized by closing a campaign that was never rolled is what it collected
\* less what closing cost (evidence.py 59-64).
BooksMatchCash == Claims /\ ~record.rolled => record.realized = record.result
=============================================================================
