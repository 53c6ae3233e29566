---------------------------- MODULE MCIngestQueue ----------------------------
(* IngestQueue for TLC: the jobs are interchangeable.                      *)
EXTENDS IngestQueue, TLC

Symmetry == Permutations(Jobs)
=============================================================================
