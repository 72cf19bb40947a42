---------------------------- MODULE MCComments -----------------------------
(* Instances of Comments for TLC.                                          *)
EXTENDS Comments, TLC

CONSTANTS c1, c2, c3, c4, p1

\* One person: a question, an emoji, and two of the FAQ's questions, the second
\* as a follow-up in the thread of the first comment.
OnePerson == [c \in Comments |-> p1]
FollowUp == [c \in Comments |-> IF c = c4 THEN c1 ELSE None]
OfEachKind == [c \in Comments |-> IF c = c1 THEN "words" ELSE IF c = c2 THEN "short" ELSE "faq"]

\* Processes are interchangeable.
Interchangeable == Permutations(Instances)
=============================================================================
