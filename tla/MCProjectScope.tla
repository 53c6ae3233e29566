--------------------------- MODULE MCProjectScope ---------------------------
(* ProjectScope for TLC: projects, uploads and searches are each           *)
(* interchangeable.                                                        *)
EXTENDS ProjectScope, TLC

Symmetry == Permutations(Projects) \cup Permutations(Docs) \cup Permutations(Queries)
=============================================================================
