------------------------------ MODULE MCTopup ------------------------------
(* Instances of Topup for TLC.                                              *)
EXTENDS Topup, TLC

\* Topups are interchangeable (used for the safety runs only).
Symmetry == Permutations(Topups)
=============================================================================
