--------------------------- MODULE MCSessionStore ---------------------------
(* SessionStore for TLC: plain and streamed requests are interchangeable.  *)
EXTENDS SessionStore, TLC

Symmetry == Permutations(Streamed) \cup Permutations(Turns \ Streamed)
=============================================================================
