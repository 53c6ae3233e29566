---------------------------- MODULE MCDocLifecycle ----------------------------
(* DocLifecycle for TLC.                                                   *)
EXTENDS DocLifecycle, TLC

Symmetry == Permutations(Docs) \cup Permutations(Contents)
=============================================================================
