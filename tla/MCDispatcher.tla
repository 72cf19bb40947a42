---------------------------- MODULE MCDispatcher ----------------------------
(* Instances of Dispatcher for TLC.                                        *)
EXTENDS Dispatcher, TLC

CONSTANTS m1, m2, m3, k1, k2

\* Three messages of one conversation: everything that can race does.
OneCustomer == [m \in Messages |-> k1]

\* Two messages of one customer, and one of another that shares the pool.
TwoCustomers == [m \in Messages |-> IF m = m3 THEN k2 ELSE k1]

\* Threads and lock objects of the same kind are interchangeable, and so are
\* the messages of one conversation.
Interchangeable ==
    Permutations(Workers) \cup Permutations(Locks) \cup Permutations(Messages)
=============================================================================
