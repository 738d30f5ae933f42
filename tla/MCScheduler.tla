---------------------------- MODULE MCScheduler ----------------------------
(* Scheduler for TLC, with days of which the last is a Sunday.              *)
EXTENDS Scheduler, TLC

LastDay == {MaxDays}
Symmetry == Permutations(Processes)
============================================================================
