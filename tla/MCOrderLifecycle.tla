-------------------------- MODULE MCOrderLifecycle --------------------------
(* Instances for TLC of what changes an order: OrderLifecycle, for orders  *)
(* with a Shopify order behind them, and ShelfReservations, for the others.*)
EXTENDS OrderLifecycle, ShelfReservations, TLC

CONSTANTS o1, o2, v1, v2, w1, w2, p1, p2, p3

VARIABLE with   \* the orders of a behaviour have Shopify orders behind them

Ask(by, op, o) == [by |-> by, op |-> op, order |-> o]
Edit(by, op, o, v, n) == [by |-> by, op |-> op, order |-> o, line |-> v, quantity |-> n]
Swap(o, from, to) ==
    [by |-> "staff", op |-> "swap", order |-> o, line |-> from, to |-> to, quantity |-> 0]

\* Two units of v1 in the first order, one of v2 in the second.
TwoOrders == [o \in Orders |-> IF o = o1 THEN <<[item |-> v1, quantity |-> 2]>>
                               ELSE <<[item |-> v2, quantity |-> 1]>>]
OneLocally == [v \in Variants |-> 1]
TwoOnShelf == [v \in Variants |-> 2]

\* One order is edited, delivered and cancelled; the other takes the same variants.
Changes == {Edit("customer", "modify", o1, v1, 1), Swap(o1, v1, v2),
            Ask("customer", "cancel", o1), Ask("staff", "deliver", o1),
            Edit("customer", "add", o2, v1, 2)}
Additions == Changes \cup {Edit("staff", "add", o1, v2, 1)}

Webhooks == {[order |-> o1, topic |-> t] : t \in {"fulfilled", "delivered", "cancelled"}}
NoWebhooks == {}
\* One of them is delivered a second time.
OneTwice == [e \in Event |-> IF e.topic = "fulfilled" THEN 2 ELSE 1]

NoFaults == {}
\* One unit of each item left; an order with a line of each, an order with a
\* line of the first, and an order that is still to be placed.
LastUnits == [i \in Pieces |-> 1]
OfEachKind == [o \in OldOrders |->
    [i \in Pieces |-> IF o = p1 \/ (o = p2 /\ i = v1) THEN 1 ELSE 0]]

EitherInit ==
    /\ with \in BOOLEAN
    /\ Init /\ ShelfInit
    /\ with => deployment = "shopify"

EitherNext ==
    \/ with /\ Next /\ UNCHANGED <<with, shelfVars>>
    \/ ~with /\ ShelfNext /\ UNCHANGED <<with, vars>>

EitherSpec == EitherInit /\ [][EitherNext]_<<with, vars, shelfVars>>

Threads == Permutations(Workers) \cup Permutations(Clerks)
=============================================================================
