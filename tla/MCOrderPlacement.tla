-------------------------- MODULE MCOrderPlacement --------------------------
(* Instances of OrderPlacement for TLC.                                    *)
EXTENDS OrderPlacement, TLC

CONSTANTS v1, v2

TwoAndOne == <<[variant |-> v1, quantity |-> 2], [variant |-> v2, quantity |-> 1]>>
OneOfEach == <<[variant |-> v2, quantity |-> 1], [variant |-> v1, quantity |-> 1]>>

\* The same two items added in either order: their rows can deadlock.
CrossingCarts == {TwoAndOne, OneOfEach}
SmallCarts == {OneOfEach}

\* One of each cart can be had, but not two of the larger.
Scarce == [v \in Variants |-> IF v = v1 THEN 3 ELSE 2]

LocalFaults == {"shop_down", "customer_refused", "cancel_fails", "commit_refused"}
FarFaults == {"lost_reply", "write_fails", "commit_ambiguous", "restart"}
LostReplies == {"lost_reply"}
RefusedCommits == {"commit_refused"}

Interchangeable == Permutations(Customers)
=============================================================================
