------------------------------ MODULE MCOutbox ------------------------------
(* Instances of Outbox for TLC.                                            *)
EXTENDS Outbox, TLC

CONSTANTS u1, u2, n1, n2, n3

\* A turn that places or cancels an order and files a complaint; a request staff
\* decide, or the pass that looks for what is back in stock.
TwoUnits == n1 :> u1 @@ n2 :> u1 @@ n3 :> u2
OneOfEach == n1 :> {"push", "confirmation"} @@ n2 :> {"alert"} @@ n3 :> {"resolution", "restock"}

\* The turn goes on to a tool that writes under a savepoint.
SavepointInTheTurn == u1 :> 1 @@ u2 :> 0

\* Every alert is about the same customer.
SameCustomer == n1 :> "customer" @@ n2 :> "customer" @@ n3 :> "customer"
=============================================================================
