---------------------------- MODULE MCTranscript ----------------------------
(* What a conversation's row keeps, in one run: what is said in it         *)
(* (SessionStore), and what becomes of the replies that are sent           *)
(* (ReplyDelivery).  The two models share no variable: a behaviour is one  *)
(* of the one or of the other.                                             *)
(* The transactions of a conversation overlap as they like; a behaviour is *)
(* followed until one has overwritten what it had not read, after which    *)
(* the properties of SessionStore say nothing.                             *)
EXTENDS SessionStore, ReplyDelivery, TLC

VARIABLE sending        \* which of the two moves

EitherInit ==
    /\ SessionInit /\ DeliveryInit
    /\ sending \in BOOLEAN
    /\ ~sending => \A p \in OnDisk : ~media[p].live     \* the one that does not move starts once

EitherNext ==
    /\ IF sending
         THEN DeliveryNext /\ UNCHANGED sessionVars
         ELSE SessionNext /\ ~raced /\ UNCHANGED deliveryVars
    /\ UNCHANGED sending

EitherSpec == EitherInit /\ [][EitherNext]_<<sessionVars, deliveryVars, sending>>

Interchangeable == Permutations(Inbound) \cup Permutations(Pushes)
=============================================================================
