---------------------------- MODULE MCSearchCache ----------------------------
(* SearchCache for TLC: two projects, of one embedding model or of two;    *)
(* q1 and q2 are paraphrases, q3 is about something else.                  *)
EXTENDS SearchCache, TLC

CONSTANTS q1, q2, q3, p1, p2, d1

MCInScope(d, s) == IF s = p1 THEN d = d1 ELSE d # d1
OneDim(s) == 768
TwoDims(s) == IF s = p1 THEN 768 ELSE 1024
Searches == Permutations(Tasks)
MCSimilar(q, r) == q = r \/ {q, r} = {q1, q2}
=============================================================================
