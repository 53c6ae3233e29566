-------------------------- MODULE MCDocumentStudio --------------------------
(* DocumentStudio for TLC: documents are interchangeable.                  *)
EXTENDS DocumentStudio, TLC

Symmetry == Permutations(Docs)
=============================================================================
