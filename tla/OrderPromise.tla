---------------------------- MODULE OrderPromise ----------------------------
(***************************************************************************)
(* What `place_order` promises: "An order is placed or it never happened   *)
(* -- there is no third state."  In one step a cart becomes an order the   *)
(* shop has on record and a sale Shopify holds for it; nothing else makes  *)
(* either, and nothing takes one without the other.                        *)
(***************************************************************************)
EXTENDS Sequences

CONSTANTS Customers, Carts

VARIABLES
    cart,       \* what each customer has put together
    placed,     \* the orders on record
    booked      \* the sales Shopify stands by

vars == <<cart, placed, booked>>

Init ==
    /\ cart = [c \in Customers |-> <<>>]
    /\ placed = {}
    /\ booked = {}

\* A customer puts a cart together.
Fill(c) ==
    /\ cart[c] = <<>>
    /\ \E lines \in Carts : cart' = [cart EXCEPT ![c] = lines]
    /\ UNCHANGED <<placed, booked>>

\* The cart becomes an order, here and, as a sale of its own, on Shopify at once.
Place(c) ==
    /\ cart[c] # <<>>
    /\ cart' = [cart EXCEPT ![c] = <<>>]
    /\ \E s \in booked' \ booked :
         /\ placed' = placed \cup {[customer |-> c, lines |-> cart[c], sale |-> s]}
         /\ booked' = booked \cup {s}

Next == \E c \in Customers : Fill(c) \/ Place(c)

Spec == Init /\ [][Next]_vars
=============================================================================
