---------------------------- MODULE OrderStages ----------------------------
(***************************************************************************)
(* What the shop promises about the status of an order: it moves forward   *)
(* through the stages of STATUS_SEQUENCE, or is cancelled before it ships, *)
(* and the customer hears of every stage it passes, in order, once.        *)
(***************************************************************************)
EXTENDS Integers, Sequences

CONSTANT Orders

VARIABLES
    status,     \* the stage of each order
    told        \* what its customer has been told, in order

vars == <<status, told>>

STATUS_SEQUENCE == <<"Confirmed", "Packed", "Shipped", "Delivered">>
Statuses == {"Confirmed", "Packed", "Shipped", "Delivered", "Cancelled"}

Rank(s) == CHOOSE i \in DOMAIN STATUS_SEQUENCE : STATUS_SEQUENCE[i] = s

Init ==
    /\ status = [o \in Orders |-> "Confirmed"]
    /\ told = [o \in Orders |-> <<>>]

\* Order o moves from the stage `from` some stages forward; its customer is told of each.
Advances(o, from) ==
    /\ from # "Cancelled"
    /\ \E j \in DOMAIN STATUS_SEQUENCE :
         /\ j > Rank(from)
         /\ status'[o] = STATUS_SEQUENCE[j]
         /\ told'[o] = told[o] \o SubSeq(STATUS_SEQUENCE, Rank(from) + 1, j)

\* Cancelled while it may still be; who cancelled it themselves is not told.
Cancels(o, from) ==
    /\ from \in {"Confirmed", "Packed"}
    /\ status'[o] = "Cancelled"
    /\ told'[o] \in {told[o], Append(told[o], "Cancelled")}

Moves(o, from) == Advances(o, from) \/ Cancels(o, from)
Stays(o) == UNCHANGED <<status[o], told[o]>>

Next == \E o \in Orders : Moves(o, status[o]) /\ \A p \in Orders \ {o} : Stays(p)

Spec == Init /\ [][Next]_vars
=============================================================================
