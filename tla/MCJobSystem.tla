----------------------------- MODULE MCJobSystem -----------------------------
(* Instances of JobSystem for TLC.                                          *)
EXTENDS JobSystem, TLC

JobSymmetry == Permutations(Job)
=============================================================================
