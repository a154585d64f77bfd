----------------------------- MODULE OrderDesk -----------------------------
(***************************************************************************)
(* What the desk promises the account, without its processes, its lease,   *)
(* its table of intents and its re-reads: one order at a time, named       *)
(* before it is sent, sent at most once and only when it fits the account, *)
(* and settled before the next one is named.                               *)
(*                                                                         *)
(* An order that may have been sent, whose fate nobody can tell, is never  *)
(* given up: from "lost", "partdead" and "replaced" no step leads out, and *)
(* the desk trades no more until somebody intervenes.                      *)
(***************************************************************************)
EXTENDS Integers

CONSTANTS
    Orders,     \* what may be sent: records with a field key, of act, id and to
    NoOrder,    \* nothing is named
    Flat, Odd   \* books without positions, and with some that are no vertical

VARIABLES
    named,      \* the order the desk works on
    stage,      \* what became of it
    fate,       \* how the orders before it ended: "filled", "dead", or not: "none"
    held,       \* the account's positions
    count       \* how many positions the account has held

Init ==
    /\ named = NoOrder /\ stage = "quiet"
    /\ fate = [c \in Orders |-> "none"]
    /\ \/ held = Flat /\ count = 0
       \/ held \notin {Flat, Odd} /\ held.camp = 1 /\ count = 1

\* Does the order trade exactly the position the account holds?
Suits(c) ==
    IF c.key.act = "OPEN" THEN held = Flat
    ELSE held \notin {Flat, Odd} /\ c.key.id \in {held.camp, -held.camp}

\* An order is named, in writing.  One that ended before under that name is adopted and
\* not sent again.
Name(c) ==
    /\ stage = "quiet"
    /\ Suits(c)
    /\ named' = c
    /\ stage' = IF fate[c] = "none" THEN "armed" ELSE fate[c]
    /\ UNCHANGED <<fate, held, count>>

Becomes(from, to) ==
    /\ stage \in from
    /\ stage' \in to
    /\ UNCHANGED named

Ends(how) ==
    /\ stage' = how
    /\ fate' = [fate EXCEPT ![named] = how]
    /\ UNCHANGED named

Send == Becomes({"armed"}, {"sent"}) /\ Suits(named) /\ UNCHANGED <<fate, held, count>>
Lose == Becomes({"armed", "sent"}, {"lost"}) /\ UNCHANGED <<fate, held, count>>
Accept == Becomes({"sent"}, {"working"}) /\ UNCHANGED <<fate, held, count>>

\* A fill moves the account to the order's target, and to nothing else if the account
\* still was what the order was made for.
Fill ==
    /\ stage \in {"working", "partial"}
    /\ Ends("filled")
    /\ \/ /\ stage = "partial" \/ Suits(named)
          /\ held' = IF named.key.act = "CLOSE" THEN Flat
                     ELSE [legs |-> named.key.to, camp |-> count + 1]
       \/ stage = "working" /\ ~Suits(named) /\ held' = Odd
    /\ count' = IF named.key.act = "CLOSE" THEN count ELSE count + 1

PartialFill ==
    /\ Becomes({"working"}, {"partial"})
    /\ named.key.act # "OPEN"
    /\ held' = Odd
    /\ UNCHANGED <<fate, count>>

\* Only an order that died unfilled has ended; of the others nobody can tell.
Die ==
    /\ \/ stage = "working" /\ Ends("dead")
       \/ Becomes({"working"}, {"replaced"}) /\ UNCHANGED fate
       \/ Becomes({"partial"}, {"partdead"}) /\ UNCHANGED fate
    /\ UNCHANGED <<held, count>>

\* Only an order known to be filled, or dead and unfilled, makes room for the next.
Close ==
    /\ stage \in {"filled", "dead"}
    /\ named' = NoOrder /\ stage' = "quiet"
    /\ UNCHANGED <<fate, held, count>>

\* Expiry and assignment move the account without an order.
Moves ==
    /\ held # Flat
    /\ held' \in {Flat, Odd} \ {held}
    /\ UNCHANGED <<named, stage, fate, count>>

Next ==
    \/ \E c \in Orders : Name(c)
    \/ Send \/ Lose \/ Accept \/ Fill \/ PartialFill \/ Die \/ Close \/ Moves

Spec == Init /\ [][Next]_<<named, stage, fate, held, count>>
=============================================================================
