------------------------------ MODULE MCScheduler ------------------------------
(* Instances of Scheduler for TLC.                                          *)
EXTENDS Scheduler, TLC

CONSTANTS s1, s2, n1, n2, n3, c1, c2

Names == Permutations(Call) \cup Permutations(Caller)
NamesAndSchedules == Names \cup Permutations(Sched)
=============================================================================
