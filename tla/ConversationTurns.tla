-------------------------- MODULE ConversationTurns --------------------------
(***************************************************************************)
(* What the dispatcher promises the rest of the program: every message the *)
(* webhook accepts is owed an answer, answers are given in turns, a        *)
(* conversation has at most one turn at a time, and a turn either answers  *)
(* all its messages or, when something newer is there, gives them back.    *)
(***************************************************************************)
EXTENDS Naturals, FiniteSets

CONSTANTS Messages, Conversations, ConvOf

VARIABLE status     \* message -> what the shop owes it

Statuses == {"unsent", "owed", "inTurn", "answered", "declined"}

InTurn(k) == {m \in Messages : ConvOf[m] = k /\ status[m] = "inTurn"}

Init == status = [m \in Messages |-> "unsent"]

\* A message is accepted for an answer, or turned down at the door.
Accept(m) ==
    /\ status[m] = "unsent"
    /\ \E s \in {"owed", "declined"} : status' = [status EXCEPT ![m] = s]

\* A turn of conversation k begins, over messages that are owed an answer.
BeginTurn(k, S) ==
    /\ InTurn(k) = {}
    /\ S # {}
    /\ \A m \in S : ConvOf[m] = k /\ status[m] = "owed"
    /\ status' = [m \in Messages |-> IF m \in S THEN "inTurn" ELSE status[m]]

\* The turn of k ends, all of it answered or all of it owed again.
EndTurn(k) ==
    /\ InTurn(k) # {}
    /\ \E s \in {"answered", "owed"} :
         status' = [m \in Messages |-> IF m \in InTurn(k) THEN s ELSE status[m]]

Next ==
    \/ \E m \in Messages : Accept(m)
    \/ \E k \in Conversations, S \in SUBSET Messages : BeginTurn(k, S)
    \/ \E k \in Conversations : EndTurn(k)

Spec == Init /\ [][Next]_status
=============================================================================
