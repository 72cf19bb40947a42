--------------------------- MODULE MCConversation ---------------------------
(* Instances of Conversation for TLC.                                      *)
EXTENDS Conversation, TLC

CONSTANTS m1, m2, m3, s1

OneTwice == [m \in Messages |-> IF m = m1 THEN 2 ELSE 1]
NoFaults == {}
=============================================================================
