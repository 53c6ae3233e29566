---------------------------- MODULE MCWatcherRun ----------------------------
(* WatcherRun for TLC: the grades are interchangeable.                     *)
EXTENDS WatcherRun, TLC

Symmetry == Permutations(Grades)
=============================================================================
