-------------------------- MODULE MCSilenceNudges --------------------------
(* Instances of SilenceNudges for TLC.                                     *)
EXTENDS SilenceNudges, TLC

CONSTANTS p1, p2

Interchangeable == Permutations(Pollers)
=============================================================================
